------------------------- MODULE Ssh2Channel_proofs -------------------------
(***************************************************************************)
(* Proofs about Ssh2Channel, for every kind of channel, every window and   *)
(* packet size and every amount of data.  The first part is about sums     *)
(* over packets, the second gives the inductive invariant, the third shows *)
(* what each C function does to the accounts of a handler, and the fourth  *)
(* that every action keeps the invariant.  The last is about the end of a  *)
(* channel, and rests on these accounts.                                   *)
(***************************************************************************)
EXTENDS Ssh2Channel, NatFacts

\* What Sum computes.
LEMMA SumIs ==
    ASSUME NEW s \in Seq(Int), NEW f, Sums(f, Len(s), s)
    PROVE  Sum(s) = f[Len(s)]
<1> DEFINE Def(g) == [i \in 0 .. Len(s) |-> IF i = 0 THEN 0 ELSE g[i - 1] + s[i]]
           sum == CHOOSE g : g = Def(g)
<1>1. Len(s) \in Nat /\ s \in [1 .. Len(s) -> Int]
  OBVIOUS
<1>2. f = Def(f)
  BY <1>1 DEF Sums
<1>3. sum = Def(sum)
  <2> HIDE DEF Def
  <2> QED BY <1>2
<1> HIDE DEF sum
<1>4. sum = f
  <2> DEFINE S == {i \in Nat : i <= Len(s) => sum[i] = f[i]}
  <2>1. 0 \in S
    BY <1>1, <1>3 DEF Sums
  <2>2. ASSUME NEW i \in S PROVE i + 1 \in S
    <3>1. CASE i + 1 <= Len(s)
      <4>1. i + 1 \in 1 .. Len(s) /\ i + 1 \in 0 .. Len(s) /\ (i + 1) - 1 = i /\ i + 1 # 0
        BY <1>1, <3>1
      <4>2. sum[i + 1] = sum[i] + s[i + 1]
        BY <1>3, <4>1
      <4>3. f[i + 1] = f[i] + s[i + 1]
        BY <4>1 DEF Sums
      <4> QED BY <1>1, <3>1, <4>2, <4>3
    <3>2. CASE ~(i + 1 <= Len(s))
      BY <3>2
    <3> QED BY <3>1, <3>2
  <2> HIDE DEF S
  <2>3. S = Nat
    <3>1. S \in SUBSET Nat
      BY DEF S
    <3> QED BY <2>1, <2>2, <3>1, NatSetInduction
  <2>4. \A i \in 0 .. Len(s) : sum[i] = f[i]
    BY <1>1, <2>3 DEF S
  <2>5. sum = [i \in 0 .. Len(s) |-> sum[i]] /\ f = [i \in 0 .. Len(s) |-> f[i]]
    BY <1>3 DEF Sums
  <2> QED BY <2>4, <2>5
<1>5. Sum(s) = sum[Len(s)]
  BY DEF Sum, sum
<1> QED BY <1>4, <1>5

\* Every sequence of integers has its running sums, which end in its sum.
LEMMA SumHas ==
    ASSUME NEW s \in Seq(Int)
    PROVE  \E f : Sums(f, Len(s), s) /\ Sum(s) = f[Len(s)]
<1>1. Len(s) \in Nat /\ s \in [1 .. Len(s) -> Int]
  OBVIOUS
<1>2. PICK f : Sums(f, Len(s), s)
  BY <1>1, SumsExist
<1> QED BY <1>2, SumIs

\* Sums of integers are integers, sums of naturals naturals.
LEMMA SumType ==
    /\ \A s \in Seq(Int) : Sum(s) \in Int
    /\ \A s \in Seq(Nat) : Sum(s) \in Nat
<1>1. ASSUME NEW s \in Seq(Int) PROVE Sum(s) \in Int
  <2>1. PICK f : Sums(f, Len(s), s) /\ Sum(s) = f[Len(s)]
    BY SumHas
  <2>2. Len(s) \in 0 .. Len(s)
    OBVIOUS
  <2> QED BY <2>1, <2>2 DEF Sums
<1>2. ASSUME NEW s \in Seq(Nat) PROVE Sum(s) \in Nat
  <2>1. s \in Seq(Int) /\ s \in [1 .. Len(s) -> Nat] /\ Len(s) \in Nat
    OBVIOUS
  <2>2. PICK f : Sums(f, Len(s), s) /\ Sum(s) = f[Len(s)]
    BY <2>1, SumHas
  <2>3. Len(s) \in 0 .. Len(s)
    BY <2>1
  <2> QED BY <2>1, <2>2, <2>3, SumsNat
<1> QED BY <1>1, <1>2

\* The empty sequence, and one of one number.
LEMMA SumSmall == Sum(<<>>) = 0 /\ \A n \in Int : Sum(<<n>>) = n
<1>1. Sum(<<>>) = 0
  <2>1. <<>> \in Seq(Int) /\ Len(<<>>) = 0
    OBVIOUS
  <2>2. \A s \in Seq(Int) : Len(s) = 0 => Sum(s) = 0
    <3> TAKE s \in Seq(Int)
    <3>1. PICK f : Sums(f, Len(s), s) /\ Sum(s) = f[Len(s)]
      BY SumHas
    <3> QED BY <3>1 DEF Sums
  <2> QED BY <2>1, <2>2
<1>2. ASSUME NEW n \in Int PROVE Sum(<<n>>) = n
  <2>1. <<n>> \in Seq(Int) /\ Len(<<n>>) = 1 /\ <<n>>[1] = n
    OBVIOUS
  <2>2. \A s \in Seq(Int) : Len(s) = 1 => Sum(s) = s[1]
    <3> TAKE s \in Seq(Int)
    <3> HAVE Len(s) = 1
    <3>1. PICK f : Sums(f, Len(s), s) /\ Sum(s) = f[Len(s)]
      BY SumHas
    <3>2. s[1] \in Int
      OBVIOUS
    <3>3. f[1] = f[0] + s[1] /\ f[0] = 0
      BY <3>1 DEF Sums
    <3> QED BY <3>1, <3>2, <3>3
  <2> QED BY <2>1, <2>2
<1> QED BY <1>1, <1>2

\* Sums add up.
LEMMA SumConcat ==
    ASSUME NEW s \in Seq(Int), NEW t \in Seq(Int)
    PROVE  Sum(s \o t) = Sum(s) + Sum(t)
<1>1. PICK f : Sums(f, Len(s), s) /\ Sum(s) = f[Len(s)]
  BY SumHas
<1>2. PICK g : Sums(g, Len(t), t) /\ Sum(t) = g[Len(t)]
  BY SumHas
<1> DEFINE m == Len(s)
           n == Len(t)
           h == [i \in 0 .. m + n |-> IF i <= m THEN f[i] ELSE f[m] + g[i - m]]
<1>3. m \in Nat /\ n \in Nat /\ s \o t \in Seq(Int) /\ Len(s \o t) = m + n
  OBVIOUS
<1>4. \A i \in 1 .. m + n : (s \o t)[i] = IF i <= m THEN s[i] ELSE t[i - m]
  OBVIOUS
<1>a. /\ f \in [0 .. m -> Int] /\ f[0] = 0
      /\ \A i \in 1 .. m : f[i] = f[i - 1] + s[i]
  BY <1>1 DEF Sums
<1>b. /\ g \in [0 .. n -> Int] /\ g[0] = 0
      /\ \A i \in 1 .. n : g[i] = g[i - 1] + t[i]
  BY <1>2 DEF Sums
<1>c. (\A i \in 1 .. m : s[i] \in Int) /\ \A i \in 1 .. n : t[i] \in Int
  OBVIOUS
<1> HIDE DEF m, n
<1>5. h \in [0 .. m + n -> Int] /\ h[0] = 0
  BY <1>3, <1>a, <1>b
<1>6. ASSUME NEW i \in 1 .. m + n PROVE h[i] = h[i - 1] + (s \o t)[i]
  <2>1. CASE i <= m
    BY <1>3, <1>4, <1>a, <2>1
  <2>2. CASE i = m + 1
    <3>1. h[i] = f[m] + g[1] /\ h[i - 1] = f[m] /\ (s \o t)[i] = t[1]
      BY <1>3, <1>4, <2>2
    <3>2. 1 \in 1 .. n /\ 1 - 1 = 0 /\ m \in 0 .. m
      BY <1>3, <2>2
    <3>3. g[1] = 0 + t[1] /\ f[m] \in Int /\ t[1] \in Int
      BY <1>a, <1>b, <1>c, <3>2
    <3> QED BY <3>1, <3>3
  <2>3. CASE i > m + 1
    <3>0. /\ i \in 0 .. m + n /\ ~(i <= m)
          /\ i - 1 \in 0 .. m + n /\ ~(i - 1 <= m) /\ (i - 1) - m = i - 1 - m
      BY <1>3, <2>3
    <3>1. h[i] = f[m] + g[i - m] /\ h[i - 1] = f[m] + g[i - 1 - m] /\ (s \o t)[i] = t[i - m]
      BY <1>4, <3>0
    <3>2. i - m \in 1 .. n /\ (i - m) - 1 = i - 1 - m /\ i - 1 - m \in 0 .. n /\ m \in 0 .. m
      BY <1>3, <2>3
    <3>3. g[i - m] = g[i - 1 - m] + t[i - m]
      BY <1>b, <3>2
    <3>4. f[m] \in Int /\ g[i - 1 - m] \in Int /\ t[i - m] \in Int
      BY <1>a, <1>b, <1>c, <3>2
    <3> QED BY <3>1, <3>3, <3>4
  <2> QED BY <1>3, <2>1, <2>2, <2>3
<1>7. Sums(h, Len(s \o t), s \o t)
  <2> HIDE DEF h
  <2> QED BY <1>3, <1>5, <1>6 DEF Sums
<1>8. Sum(s \o t) = h[m + n]
  <2> HIDE DEF h
  <2> QED BY <1>3, <1>7, SumIs
<1>9. h[m + n] = f[m] + g[n]
  <2>1. CASE n = 0
    <3>1. g[n] = 0 /\ f[m] \in Int
      BY <1>a, <1>b, <1>3, <2>1
    <3> QED BY <1>3, <2>1, <3>1
  <2>2. CASE n > 0
    <3>1. ~(m + n <= m) /\ (m + n) - m = n /\ m + n \in 0 .. m + n
      BY <1>3, <2>2
    <3> QED BY <3>1
  <2> QED BY <1>3, <2>1, <2>2
<1> QED BY <1>1, <1>2, <1>8, <1>9 DEF m, n

\* The amounts that Total adds up.
Amounts(seq, type) == [i \in DOMAIN seq |-> IF seq[i].type = type THEN seq[i].n ELSE 0]

\* They are numbers, one for each packet.
LEMMA AmountsAre ==
    ASSUME NEW s \in Seq(Packet), NEW type
    PROVE  /\ Amounts(s, type) \in Seq(Nat) /\ Amounts(s, type) \in Seq(Int)
           /\ Len(Amounts(s, type)) = Len(s)
           /\ Total(s, type) = Sum(Amounts(s, type))
<1>0. Len(s) \in Nat /\ DOMAIN s = 1 .. Len(s) /\ \A i \in 1 .. Len(s) : s[i] \in Packet
  OBVIOUS
<1>1. Len(s) \in Nat /\ DOMAIN s = 1 .. Len(s) /\ \A i \in 1 .. Len(s) : s[i].n \in Nat
  BY <1>0 DEF Packet
<1>2. Amounts(s, type) \in [1 .. Len(s) -> Nat]
  BY <1>1 DEF Amounts
<1>3. Amounts(s, type) \in Seq(Nat)
  BY <1>1, <1>2
<1>4. Len(Amounts(s, type)) = Len(s)
  BY <1>1, <1>2
<1>5. Amounts(s, type) \in Seq(Int)
  BY <1>3
<1> QED BY <1>3, <1>4, <1>5 DEF Total, Amounts

\* A total is a natural number.
LEMMA TotalNat ==
    ASSUME NEW s \in Seq(Packet), NEW type
    PROVE  Total(s, type) \in Nat
BY AmountsAre, SumType

\* The elements of a concatenation.
LEMMA ConcatIs ==
    ASSUME NEW s \in Seq(Int), NEW t \in Seq(Int)
    PROVE  /\ s \o t \in [1 .. Len(s) + Len(t) -> Int]
           /\ \A i \in 1 .. Len(s) + Len(t) : (s \o t)[i] = IF i <= Len(s) THEN s[i] ELSE t[i - Len(s)]
<1>1. s \o t \in Seq(Int) /\ Len(s \o t) = Len(s) + Len(t)
  OBVIOUS
<1>2. s \o t \in [1 .. Len(s) + Len(t) -> Int]
  <2>1. \A u \in Seq(Int) : u \in [1 .. Len(u) -> Int]
    OBVIOUS
  <2> QED BY <1>1, <2>1, Zenon
<1>3. \A i \in 1 .. Len(s) + Len(t) : (s \o t)[i] = IF i <= Len(s) THEN s[i] ELSE t[i - Len(s)]
  OBVIOUS
<1> QED BY <1>2, <1>3

\* Totals add up.
LEMMA TotalConcat ==
    ASSUME NEW s \in Seq(Packet), NEW t \in Seq(Packet), NEW type
    PROVE  Total(s \o t, type) = Total(s, type) + Total(t, type)
<1> DEFINE a == Amounts(s, type)
           b == Amounts(t, type)
           c == Amounts(s \o t, type)
<1>1. s \o t \in Seq(Packet) /\ Len(s \o t) = Len(s) + Len(t) /\ Len(s) \in Nat /\ Len(t) \in Nat
  OBVIOUS
<1>2. /\ a \in Seq(Int) /\ Len(a) = Len(s)
      /\ b \in Seq(Int) /\ Len(b) = Len(t)
      /\ c \in Seq(Int) /\ Len(c) = Len(s) + Len(t)
  BY <1>1, AmountsAre
<1>3. ASSUME NEW i \in 1 .. Len(s) + Len(t)
      PROVE  c[i] = IF i <= Len(s) THEN a[i] ELSE b[i - Len(s)]
  <2>1. i \in DOMAIN (s \o t)
    BY <1>1
  <2>2. CASE i <= Len(s)
    <3>1. i \in DOMAIN s /\ (s \o t)[i] = s[i]
      BY <2>2
    <3> QED BY <2>1, <2>2, <3>1 DEF Amounts
  <2>3. CASE ~(i <= Len(s))
    <3>1. i - Len(s) \in DOMAIN t /\ (s \o t)[i] = t[i - Len(s)]
      BY <2>3
    <3> QED BY <2>1, <2>3, <3>1 DEF Amounts
  <2> QED BY <2>2, <2>3
<1> HIDE DEF a, b, c
<1>4. c = a \o b
  <2>1. a \o b \in [1 .. Len(a) + Len(b) -> Int]
    BY <1>2, ConcatIs
  <2>2. \A i \in 1 .. Len(a) + Len(b) : (a \o b)[i] = IF i <= Len(a) THEN a[i] ELSE b[i - Len(a)]
    BY <1>2, ConcatIs
  <2>3. \A i \in 1 .. Len(s) + Len(t) : (a \o b)[i] = c[i]
    BY <1>2, <1>3, <2>2
  <2>4. c \in [1 .. Len(s) + Len(t) -> Int] /\ a \o b \in [1 .. Len(s) + Len(t) -> Int]
    BY <1>2, <2>1
  <2> QED BY <2>3, <2>4
<1>5. Sum(c) = Sum(a) + Sum(b)
  BY <1>2, <1>4, SumConcat
<1> QED BY <1>1, <1>5, AmountsAre DEF a, b, c

\* No packet, and one packet.
LEMMA TotalSmall ==
    /\ \A type : Total(<<>>, type) = 0
    /\ \A q \in Packet : \A type : Total(<<q>>, type) = IF q.type = type THEN q.n ELSE 0
<1>1. ASSUME NEW type PROVE Total(<<>>, type) = 0
  <2>1. Amounts(<<>>, type) = <<>>
    BY DEF Amounts
  <2>2. <<>> \in Seq(Packet)
    OBVIOUS
  <2> QED BY <2>1, <2>2, AmountsAre, SumSmall
<1>2. ASSUME NEW q \in Packet, NEW type PROVE Total(<<q>>, type) = IF q.type = type THEN q.n ELSE 0
  <2> DEFINE n == IF q.type = type THEN q.n ELSE 0
  <2>1. Amounts(<<q>>, type) = <<n>>
    BY DEF Amounts
  <2>2. <<q>> \in Seq(Packet) /\ n \in Int
    BY DEF Packet
  <2> HIDE DEF n
  <2>3. Total(<<q>>, type) = n
    BY <2>1, <2>2, AmountsAre, SumSmall
  <2> QED BY <2>3 DEF n
<1> QED BY <1>1, <1>2

\* A packet more at the end.
LEMMA TotalAppend ==
    ASSUME NEW s \in Seq(Packet), NEW q \in Packet, NEW type
    PROVE  Total(Append(s, q), type) = Total(s, type) + IF q.type = type THEN q.n ELSE 0
<1>1. Append(s, q) = s \o <<q>> /\ <<q>> \in Seq(Packet)
  OBVIOUS
<1>2. Total(s \o <<q>>, type) = Total(s, type) + Total(<<q>>, type)
  BY <1>1, TotalConcat
<1> QED BY <1>1, <1>2, TotalSmall

\* The first packet taken off.
LEMMA TotalTail ==
    ASSUME NEW s \in Seq(Packet), s # <<>>, NEW type
    PROVE  /\ Head(s) \in Packet /\ Tail(s) \in Seq(Packet)
           /\ Total(s, type) = (IF Head(s).type = type THEN Head(s).n ELSE 0) + Total(Tail(s), type)
<1>1. Head(s) \in Packet /\ Tail(s) \in Seq(Packet) /\ <<Head(s)>> \in Seq(Packet)
  OBVIOUS
<1>2. s = <<Head(s)>> \o Tail(s)
  OBVIOUS
<1>3. Total(<<Head(s)>> \o Tail(s), type) = Total(<<Head(s)>>, type) + Total(Tail(s), type)
  BY <1>1, TotalConcat
<1> QED BY <1>1, <1>2, <1>3, TotalSmall

\* No packet of the type.
LEMMA TotalNone ==
    ASSUME NEW s \in Seq(Packet), NEW type, \A i \in DOMAIN s : s[i].type # type
    PROVE  Total(s, type) = 0
<1> DEFINE f == [i \in 0 .. Len(s) |-> 0]
           a == Amounts(s, type)
<1>1. a \in Seq(Int) /\ Len(a) = Len(s) /\ Len(s) \in Nat
  BY AmountsAre
<1>2. \A i \in 1 .. Len(s) : a[i] = 0
  BY DEF Amounts
<1> HIDE DEF a
<1>3. Sums(f, Len(a), a)
  BY <1>1, <1>2 DEF Sums
<1>4. f[Len(a)] = 0
  BY <1>1
<1> HIDE DEF f
<1>5. Sum(a) = 0
  BY <1>1, <1>3, <1>4, SumIs
<1> QED BY <1>5, AmountsAre DEF a

\* The packets of a channel that is open.
Body == {q \in Packet : /\ q.type \in {"DATA", "WINDOW_ADJUST", "REQUEST", "REPLY", "EOF", "CLOSE"}
                        /\ q.type = "REQUEST" => q.n <= 1
                        /\ q.type = "REPLY" => q.n = 1}

\* Rounding up to whole packets.
LEMMA Rounding ==
    ASSUME NEW n \in Nat, NEW m \in Nat \ {0}
    PROVE  LET k == (n + m - 1) \div m
           IN  k \in Nat /\ n <= k * m /\ k * m <= n + m - 1
<1>1. n + m - 1 \in Nat
  OBVIOUS
<1>2. \A a \in Nat : a \div m \in Nat /\ (a \div m) * m <= a /\ a < (a \div m) * m + m
  OBVIOUS
<1> DEFINE k == (n + m - 1) \div m
<1>3. k \in Nat /\ k * m <= n + m - 1 /\ n + m - 1 < k * m + m
  BY <1>1, <1>2
<1> HIDE DEF k
<1>4. k * m \in Int
  BY <1>3
<1>5. n <= k * m
  BY <1>3, <1>4
<1> QED BY <1>3, <1>5 DEF k

\* Multiples of the packet size.
LEMMA Multiples ==
    ASSUME NEW m \in Nat \ {0}, NEW i \in Nat, NEW k \in Nat
    PROVE  /\ i * m \in Nat /\ (i + 1) * m = i * m + m /\ 0 * m = 0
           /\ i < k => i * m + m <= k * m
<1>1. i * m \in Nat /\ (i + 1) * m = i * m + m /\ 0 * m = 0
  OBVIOUS
<1>2. ASSUME i < k PROVE i * m + m <= k * m
  <2>1. k = (i + 1) + (k - i - 1) /\ k - i - 1 \in Nat
    BY <1>2
  <2>2. k * m = (i + 1) * m + (k - i - 1) * m /\ (k - i - 1) * m \in Nat
    BY <2>1
  <2> QED BY <1>1, <2>2
<1> QED BY <1>1, <1>2

\* DataPackets(n) are packets of DATA that carry n units in all.
LEMMA DataPacketsAre ==
    ASSUME NEW n \in Nat
    PROVE  /\ DataPackets(n) \in Seq(Body)
           /\ Total(DataPackets(n), "DATA") = n
           /\ \A i \in DOMAIN DataPackets(n) : DataPackets(n)[i].type = "DATA"
           /\ n = 0 => DataPackets(n) = <<>>
<1> DEFINE k == (n + MaxPkt - 1) \div MaxPkt
           d == DataPackets(n)
           size(i) == Smaller(MaxPkt, n - (i - 1) * MaxPkt)
           a == Amounts(d, "DATA")
           g == [i \in 0 .. k |-> Smaller(i * MaxPkt, n)]
<1>1. MaxPkt \in Nat \ {0}
  BY ParamAssumption
<1>2. k \in Nat /\ n <= k * MaxPkt /\ k * MaxPkt <= n + MaxPkt - 1
  BY <1>1, Rounding
<1>3. d = [i \in 1 .. k |-> Pkt("DATA", size(i))]
  BY DEF DataPackets
<1> HIDE DEF k, d
<1>4. ASSUME NEW i \in 1 .. k
      PROVE  /\ (i - 1) * MaxPkt \in Nat /\ i * MaxPkt \in Nat
             /\ i * MaxPkt = (i - 1) * MaxPkt + MaxPkt
             /\ (i - 1) * MaxPkt < n
  <2>1. i - 1 \in Nat /\ i - 1 < k /\ i \in Nat /\ (i - 1) + 1 = i
    BY <1>2
  <2>2. /\ (i - 1) * MaxPkt \in Nat /\ i * MaxPkt \in Nat
        /\ ((i - 1) + 1) * MaxPkt = (i - 1) * MaxPkt + MaxPkt
        /\ (i - 1) * MaxPkt + MaxPkt <= k * MaxPkt
        /\ k * MaxPkt \in Nat
    BY <1>1, <1>2, <2>1, Multiples
  <2> QED BY <1>1, <1>2, <2>1, <2>2
<1>5. ASSUME NEW i \in 1 .. k PROVE size(i) \in Nat
  BY <1>1, <1>4 DEF Smaller
<1> HIDE DEF size
<1>6. \A i \in 1 .. k : Pkt("DATA", size(i)) \in Body
  BY <1>5 DEF Pkt, Body, Packet
<1>7. d \in Seq(Body) /\ Len(d) = k /\ DOMAIN d = 1 .. k
  <2>1. d \in [1 .. k -> Body]
    BY <1>3, <1>6
  <2> QED BY <1>2, <2>1
<1>8. \A i \in 1 .. k : d[i].type = "DATA" /\ d[i].n = size(i)
  BY <1>3 DEF Pkt
<1>9. d \in Seq(Packet)
  BY <1>7 DEF Body
<1>10. a \in Seq(Int) /\ Len(a) = k /\ Total(d, "DATA") = Sum(a)
  BY <1>7, <1>9, AmountsAre
<1>11. \A i \in 1 .. k : a[i] = size(i)
  BY <1>7, <1>8 DEF Amounts
<1> HIDE DEF a
<1>12. g \in [0 .. k -> Int] /\ g[0] = 0 /\ g[k] = n
  <2>1. ASSUME NEW i \in 0 .. k PROVE Smaller(i * MaxPkt, n) \in Int
    BY <1>1, <1>2, Multiples DEF Smaller
  <2>2. Smaller(0 * MaxPkt, n) = 0
    BY <1>1, <1>2, Multiples DEF Smaller
  <2>3. Smaller(k * MaxPkt, n) = n
    BY <1>1, <1>2, Multiples DEF Smaller
  <2>4. 0 \in 0 .. k /\ k \in 0 .. k
    BY <1>2
  <2> QED BY <2>1, <2>2, <2>3, <2>4
<1>13. ASSUME NEW i \in 1 .. k PROVE g[i] = g[i - 1] + a[i]
  <2>1. i \in 0 .. k /\ i - 1 \in 0 .. k
    BY <1>2
  <2>2. g[i] = Smaller(i * MaxPkt, n) /\ g[i - 1] = Smaller((i - 1) * MaxPkt, n)
    BY <2>1
  <2> DEFINE u == (i - 1) * MaxPkt
             v == i * MaxPkt
  <2>3. u \in Nat /\ v \in Nat /\ v = u + MaxPkt /\ u < n
    BY <1>4
  <2>4. a[i] = Smaller(MaxPkt, n - u)
    BY <1>11 DEF size
  <2>5. g[i] = Smaller(v, n) /\ g[i - 1] = Smaller(u, n)
    BY <2>2
  <2> HIDE DEF u, v, g
  <2> QED BY <1>1, <2>3, <2>4, <2>5 DEF Smaller
<1> HIDE DEF g
<1>14. Sum(a) = n
  <2>1. Sums(g, Len(a), a)
    BY <1>10, <1>12, <1>13 DEF Sums
  <2> QED BY <1>10, <1>12, <2>1, SumIs
<1>15. n = 0 => d = <<>>
  <2> HAVE n = 0
  <2>1. ~(1 <= k)
    <3>1. SUFFICES ASSUME 1 <= k PROVE FALSE
      OBVIOUS
    <3>2. 1 \in 1 .. k
      BY <1>2, <3>1
    <3>3. (1 - 1) * MaxPkt \in Nat /\ (1 - 1) * MaxPkt < n
      BY <1>4, <3>2
    <3> QED BY <3>3
  <2>2. Len(d) = 0
    BY <1>2, <1>7, <2>1
  <2> QED BY <1>7, <2>2
<1> QED BY <1>7, <1>8, <1>10, <1>14, <1>15 DEF d

-----------------------------------------------------------------------------
(* The inductive invariant. *)

\* The opener waits for the answer to its CHANNEL_OPEN.
Half == chan["opener"].phase = "live" /\ chan["opener"].halfopen

\* A channel that does not exist yet.
Absent == [ssh2_channel_init(WinSize, FALSE) EXCEPT !.phase = "none"]

\* What is on the wire while the channel is being opened: OPEN, its refusal, or
\* the confirmation with what the acceptor has sent after it.
Asking ==
    /\ chan["acceptor"].phase = "none"
    /\ net["acceptor"] = <<Pkt("OPEN", WinSize)>> /\ net["opener"] = <<>>

Refused ==
    /\ chan["acceptor"].phase = "none"
    /\ net["acceptor"] = <<>> /\ net["opener"] = <<Pkt("OPEN_FAILURE", 0)>>

Confirmed ==
    /\ chan["acceptor"].phase # "none"
    /\ net["acceptor"] = <<>>
    /\ net["opener"] # <<>> /\ Head(net["opener"]).type = "OPEN_CONFIRMATION"
    /\ Tail(net["opener"]) \in Seq(Body)

Opening ==
    /\ ~chan["acceptor"].halfopen
    /\ \A e \in Ends : chan[e].phase = "none" => chan[e] = Absent
    /\ chan["opener"].phase = "none" => chan["acceptor"].phase = "none"
    /\ chan["opener"].phase = "live" /\ chan["acceptor"].phase = "none" => Half
    /\ ~Half /\ chan["acceptor"].phase = "none" => \A e \in Ends : net[e] = <<>>
    /\ ~Half /\ chan["acceptor"].phase # "none" => \A e \in Ends : net[e] \in Seq(Body)
    /\ Half => /\ chan["opener"].remwindow = 0 /\ chan["opener"].inbuf = 0
               /\ chan["opener"].chanreq = <<>>
               /\ Asking \/ Refused \/ Confirmed

\* The window of a sender p with closes to its peer, and what is under way to
\* p; after its own EOF p forgets what it is given.
Claim(c, r, s) ==
    c.remwindow + Total(s, "DATA") + Total(r, "OPEN_CONFIRMATION")
        + (IF "SENT_EOF" \in c.closes THEN 0 ELSE Total(r, "WINDOW_ADJUST"))

\* c sends s and is sent r; w is the window of its peer.
Covered(c, r, s, w) ==
    /\ Claim(c, r, s) <= w
    /\ "SENT_EOF" \notin c.closes => Claim(c, r, s) = w

Ledger ==
    IF chan["acceptor"].phase = "none" THEN \A e \in Ends : chan[e].locwindow = WinSize
    ELSE \A e \in Ends : Covered(chan[e], net[e], net[Peer(e)], chan[Peer(e)].locwindow)

\* A channel without a fixed window never needs to throttle the connection.
Roomy(c) == ~c.fixed /\ ~c.throttling_conn /\ c.inbuf + c.locwindow <= c.locmaxwin

Rooms == setup.fixed = 0 => \A e \in Ends : Roomy(chan[e])

\* The output of a forwarding waits for window only, and there is none yet
\* while the channel is being opened.
Drained(c) ==
    c.phase = "live" /\ c.outbuffer > 0 => ~c.halfopen /\ c.remwindow = 0

FlowInv ==
    /\ TypeOK
    /\ Opening
    /\ Ledger
    /\ Rooms
    /\ Forwarded => \A e \in Ends : Drained(chan[e])

-----------------------------------------------------------------------------
(* The accounts of a handler. *)

WorkRec == [c : Channel, out : Seq(Body)]

\* What a handler that started from the channel w has done to the windows.
Flow(w, x) ==
    /\ x \in WorkRec
    /\ w.remwindow = x.c.remwindow + Total(x.out, "DATA")
    /\ x.c.locwindow = w.locwindow + Total(x.out, "WINDOW_ADJUST")
    /\ "SENT_EOF" \in w.closes => "SENT_EOF" \in x.c.closes
    /\ x.c.halfopen = w.halfopen
    /\ x.c.phase # "none"
    /\ setup.fixed = 0 => Roomy(x.c)
    /\ x.c.halfopen => /\ x.out = <<>> /\ x.c.phase = "live"
                       /\ x.c.inbuf = w.inbuf /\ x.c.chanreq = w.chanreq

\* Packets of the body are packets, and none of them answers CHANNEL_OPEN.
LEMMA BodySeq ==
    ASSUME NEW s \in Seq(Body)
    PROVE  /\ s \in Seq(Packet)
           /\ Total(s, "OPEN_CONFIRMATION") = 0
           /\ \A type : Total(s, type) \in Nat
<1>1. \A i \in DOMAIN s : s[i] \in Body
  OBVIOUS
<1>2. \A i \in DOMAIN s : s[i].type # "OPEN_CONFIRMATION"
  BY <1>1 DEF Body
<1>3. s \in Seq(Packet)
  BY DEF Body
<1> QED BY <1>2, <1>3, TotalNone, TotalNat

\* The two ways to change a work record.
LEMMA WithIs ==
    ASSUME NEW x \in WorkRec, NEW c \in Channel
    PROVE  With(x, c) \in WorkRec /\ With(x, c).c = c /\ With(x, c).out = x.out
BY DEF WorkRec, With

\* Pushing adds the amount of the packet to the total of its type.
LEMMA PushIs ==
    ASSUME NEW x \in WorkRec, NEW q \in Body
    PROVE  /\ x.c \in Channel /\ x.out \in Seq(Body)
           /\ Push(x, q) \in WorkRec /\ Push(x, q).c = x.c /\ Push(x, q).out = Append(x.out, q)
           /\ \A t : Total(Push(x, q).out, t) = Total(x.out, t) + IF q.type = t THEN q.n ELSE 0
<1>1. x.c \in Channel /\ x.out \in Seq(Body)
  BY DEF WorkRec
<1>3. Append(x.out, q) \in Seq(Body)
  BY <1>1
<1>4. Push(x, q) \in WorkRec /\ Push(x, q).c = x.c /\ Push(x, q).out = Append(x.out, q)
  BY <1>3 DEF WorkRec, Push
<1>5. x.out \in Seq(Packet) /\ q \in Packet
  BY <1>1, BodySeq DEF Body
<1> QED BY <1>1, <1>4, <1>5, TotalAppend

\* Fields that keep the accounts of the windows.
Keeps(c, d) ==
    /\ d \in Channel
    /\ d.halfopen = c.halfopen
    /\ "SENT_EOF" \in c.closes => "SENT_EOF" \in d.closes
    /\ d.phase # "none"
    /\ setup.fixed = 0 /\ Roomy(c) => Roomy(d)
    /\ d.halfopen => d.phase = "live" /\ d.inbuf = c.inbuf /\ d.chanreq = c.chanreq

\* Changing such fields only.
LEMMA FlowWith ==
    ASSUME NEW w \in Channel, NEW x, Flow(w, x), NEW c, Keeps(x.c, c),
           c.remwindow = x.c.remwindow, c.locwindow = x.c.locwindow
    PROVE  Flow(w, With(x, c))
<1>1. x \in WorkRec /\ c \in Channel
  BY DEF Flow, Keeps
<1>2. With(x, c) \in WorkRec /\ With(x, c).c = c /\ With(x, c).out = x.out
  BY <1>1 DEF WorkRec, With
<1> QED BY <1>2 DEF Flow, Keeps

\* Pushing a packet, with the change of window that it stands for.
LEMMA FlowPush ==
    ASSUME NEW w \in Channel, NEW x, Flow(w, x), NEW q \in Body, NEW c, Keeps(x.c, c), ~x.c.halfopen,
           c.remwindow = x.c.remwindow - (IF q.type = "DATA" THEN q.n ELSE 0),
           c.locwindow = x.c.locwindow + (IF q.type = "WINDOW_ADJUST" THEN q.n ELSE 0)
    PROVE  Flow(w, With(Push(x, q), c))
<1> DEFINE y == With(Push(x, q), c)
<1>1. x \in WorkRec /\ c \in Channel /\ x.c \in Channel
  BY DEF Flow, Keeps, WorkRec
<1>2. Push(x, q) \in WorkRec
  BY <1>1, PushIs
<1>3. y \in WorkRec /\ y.c = c /\ y.out = Push(x, q).out
  BY <1>1, <1>2, WithIs
<1>4. x.out \in Seq(Body) /\ q.n \in Nat
  <2>1. x.out \in Seq(Body)
    BY <1>1 DEF WorkRec
  <2>2. q.n \in Nat
    BY DEF Body, Packet
  <2> QED BY <2>1, <2>2
<1>5. Total(x.out, "DATA") \in Nat /\ Total(x.out, "WINDOW_ADJUST") \in Nat
  BY <1>4, BodySeq
<1>6. /\ Total(y.out, "DATA") = Total(x.out, "DATA") + IF q.type = "DATA" THEN q.n ELSE 0
      /\ Total(y.out, "WINDOW_ADJUST") = Total(x.out, "WINDOW_ADJUST")
             + IF q.type = "WINDOW_ADJUST" THEN q.n ELSE 0
  <2>1. \A t : Total(Push(x, q).out, t) = Total(x.out, t) + IF q.type = t THEN q.n ELSE 0
    BY <1>1, PushIs
  <2> HIDE DEF y
  <2> QED BY <1>3, <2>1
<1> HIDE DEF y
<1>7. x.c.remwindow \in Int /\ x.c.locwindow \in Int /\ w.remwindow \in Int /\ w.locwindow \in Int
  BY <1>1 DEF Channel
<1>8. /\ w.remwindow = y.c.remwindow + Total(y.out, "DATA")
      /\ y.c.locwindow = w.locwindow + Total(y.out, "WINDOW_ADJUST")
  <2>1. /\ w.remwindow = x.c.remwindow + Total(x.out, "DATA")
        /\ x.c.locwindow = w.locwindow + Total(x.out, "WINDOW_ADJUST")
    BY DEF Flow
  <2>2. y.c = c
    BY <1>3
  <2> QED BY <1>4, <1>5, <1>6, <1>7, <2>1, <2>2
<1>9. Flow(w, y)
  BY <1>3, <1>8 DEF Flow, Keeps
<1> QED BY <1>9 DEF y

\* The packets that the handlers push.
LEMMA PktBody ==
    /\ Pkt("EOF", 0) \in Body /\ Pkt("CLOSE", 0) \in Body /\ Pkt("REPLY", 1) \in Body
    /\ Pkt("REQUEST", 0) \in Body /\ Pkt("REQUEST", 1) \in Body
    /\ \A n \in Nat : Pkt("WINDOW_ADJUST", n) \in Body
    /\ \A type : \A n : Pkt(type, n).type = type /\ Pkt(type, n).n = n
BY DEF Pkt, Body, Packet

\* Destroying, and the close handshake.
LEMMA FlowDestroy ==
    ASSUME NEW w \in Channel, NEW x, Flow(w, x), ~x.c.halfopen
    PROVE  Flow(w, ssh2_channel_destroy(x))
<1> DEFINE c == [x.c EXCEPT !.phase = "gone", !.inbuf = 0, !.outbuffer = 0, !.zombie = TRUE,
                            !.abandoned = @ \/ x.c.outbuffer > 0]
<1>1. x.c \in Channel
  BY DEF Flow, WorkRec
<1>2. c \in Channel
  BY <1>1 DEF Channel
<1>3. Roomy(x.c) => Roomy(c)
  BY <1>1 DEF Channel, Roomy
<1>4. Keeps(x.c, c) /\ c.remwindow = x.c.remwindow /\ c.locwindow = x.c.locwindow
  BY <1>1, <1>2, <1>3 DEF Channel, Keeps
<1> HIDE DEF c
<1>5. Flow(w, With(x, c))
  BY <1>4, FlowWith
<1> QED BY <1>5 DEF ssh2_channel_destroy, c

\* ssh2_channel_check_close sends CLOSE and destroys: neither moves a window.
LEMMA FlowCheckClose ==
    ASSUME NEW w \in Channel, NEW x, Flow(w, x)
    PROVE  Flow(w, ssh2_channel_check_close(x))
<1> DEFINE q == Pkt("CLOSE", 0)
           c == [x.c EXCEPT !.closes = @ \cup {"SENT_EOF", "SENT_CLOSE"}]
           z == With(Push(x, q), c)
<1>1. x \in WorkRec /\ x.c \in Channel
  BY DEF Flow, WorkRec
<1>2. c \in Channel
  BY <1>1 DEF Channel, Closes
<1>3. Roomy(x.c) => Roomy(c)
  BY <1>1 DEF Channel, Roomy
<1>4. Keeps(x.c, c) /\ c.remwindow = x.c.remwindow /\ c.locwindow = x.c.locwindow
      /\ c.halfopen = x.c.halfopen
  BY <1>1, <1>2, <1>3 DEF Channel, Keeps, Flow
<1>5. q \in Body /\ q.type = "CLOSE"
  BY PktBody
<1>6. x.c.remwindow \in Int /\ x.c.locwindow \in Int
  BY <1>1 DEF Channel
<1>7. Closed(Push(x, q), {"SENT_EOF", "SENT_CLOSE"}) = z
  BY <1>1, <1>5, PushIs DEF Closed
<1> HIDE DEF c, q
<1>8. ASSUME ~x.c.halfopen PROVE Flow(w, z) /\ z.c.halfopen = FALSE
  <2>1. Flow(w, z)
    BY <1>4, <1>5, <1>6, <1>8, FlowPush
  <2>2. z.c = c
    BY <1>1, <1>2, <1>5, PushIs, WithIs
  <2> QED BY <1>4, <1>8, <2>1, <2>2
<1> HIDE DEF z
<1>9. CASE x.c.halfopen
  BY <1>9 DEF ssh2_channel_check_close
<1>10. CASE ~x.c.halfopen
  <2> DEFINE y == IF want_close(x.c) /\ x.c.chanreq = <<>> /\ "SENT_CLOSE" \notin x.c.closes
                  THEN z ELSE x
  <2>1. Flow(w, y) /\ ~y.c.halfopen
    BY <1>8, <1>10
  <2>2. ssh2_channel_check_close(x) = IF {"SENT_CLOSE", "RCVD_CLOSE"} \subseteq y.c.closes
                                      THEN ssh2_channel_destroy(y) ELSE y
    BY <1>7, <1>10 DEF ssh2_channel_check_close, q
  <2> HIDE DEF y
  <2> QED BY <2>1, <2>2, FlowDestroy
<1> QED BY <1>9, <1>10

\* Sending EOF.
LEMMA FlowEofSent ==
    ASSUME NEW w \in Channel, NEW x, Flow(w, x), ~x.c.halfopen
    PROVE  Flow(w, EofSent(x))
<1> DEFINE q == Pkt("EOF", 0)
           c == [x.c EXCEPT !.closes = @ \cup {"SENT_EOF"}, !.pending_eof = FALSE]
<1>1. x \in WorkRec /\ x.c \in Channel
  BY DEF Flow, WorkRec
<1>2. c \in Channel
  BY <1>1 DEF Channel, Closes
<1>3. Roomy(x.c) => Roomy(c)
  BY <1>1 DEF Channel, Roomy
<1>4. Keeps(x.c, c) /\ c.remwindow = x.c.remwindow /\ c.locwindow = x.c.locwindow
  BY <1>1, <1>2, <1>3 DEF Channel, Keeps, Flow
<1>5. q \in Body /\ q.type = "EOF"
  BY PktBody
<1>6. x.c.remwindow \in Int /\ x.c.locwindow \in Int
  BY <1>1 DEF Channel
<1> HIDE DEF c, q
<1>7. Flow(w, With(Push(x, q), c))
  BY <1>4, <1>5, <1>6, FlowPush
<1> QED BY <1>7 DEF EofSent, c, q

\* ssh2_channel_try_eof, with the check for CLOSE that ends it.
LEMMA FlowTryEof ==
    ASSUME NEW w \in Channel, NEW x, Flow(w, x)
    PROVE  Flow(w, ssh2_channel_try_eof(x))
BY FlowEofSent, FlowCheckClose DEF ssh2_channel_try_eof

\* The other fields have no part in flow control.
Alike(c, d) ==
    /\ d \in Channel
    /\ d.phase = c.phase /\ d.halfopen = c.halfopen /\ d.closes = c.closes
    /\ d.remwindow = c.remwindow /\ d.locwindow = c.locwindow /\ d.locmaxwin = c.locmaxwin
    /\ d.fixed = c.fixed /\ d.inbuf = c.inbuf /\ d.throttling_conn = c.throttling_conn
    /\ c.halfopen => d.chanreq = c.chanreq

\* What the accounts do not see may change freely.
LEMMA FlowAlike ==
    ASSUME NEW w \in Channel, NEW x, Flow(w, x), NEW c, Alike(x.c, c)
    PROVE  Flow(w, With(x, c))
<1>1. Roomy(x.c) => Roomy(c)
  BY DEF Alike, Roomy
<1>2. Keeps(x.c, c) /\ c.remwindow = x.c.remwindow /\ c.locwindow = x.c.locwindow
  BY <1>1 DEF Alike, Keeps, Flow
<1> QED BY <1>2, FlowWith

\* Sending data that there is window for.
LEMMA FlowDataSent ==
    ASSUME NEW w \in Channel, NEW x, Flow(w, x), NEW n \in Nat,
           n <= x.c.remwindow, n <= x.c.outbuffer, x.c.halfopen => n = 0
    PROVE  Flow(w, DataSent(x, n))
<1> DEFINE a == x.c.outbuffer - n
           b == x.c.remwindow - n
           c == [x.c EXCEPT !.outbuffer = a, !.remwindow = b]
           d == DataPackets(n)
           y == DataSent(x, n)
<1>1. x \in WorkRec /\ x.c \in Channel /\ x.out \in Seq(Body)
  BY DEF Flow, WorkRec
<1>2. c \in Channel
  <2>0. x.c.outbuffer \in Nat /\ x.c.remwindow \in Nat
    BY <1>1 DEF Channel
  <2>1. a \in Nat /\ b \in Nat
    BY <2>0
  <2> HIDE DEF a, b
  <2> QED BY <1>1, <2>1, Zenon DEF Channel
<1>3. Roomy(x.c) => Roomy(c)
  BY <1>1 DEF Channel, Roomy
<1>4. /\ d \in Seq(Body) /\ Total(d, "DATA") = n /\ (n = 0 => d = <<>>)
      /\ \A i \in DOMAIN d : d[i].type = "DATA"
  BY DataPacketsAre
<1>5. y.c = c /\ y.out = x.out \o d /\ y \in WorkRec
  <2>1. x.out \o d \in Seq(Body)
    BY <1>1, <1>4
  <2> QED BY <1>2, <2>1 DEF DataSent, WorkRec
<1>6. d \in Seq(Packet) /\ x.out \in Seq(Packet)
  BY <1>1, <1>4, BodySeq
<1>7. Total(d, "WINDOW_ADJUST") = 0
  BY <1>4, <1>6, TotalNone
<1>8. /\ Total(y.out, "DATA") = Total(x.out, "DATA") + n
      /\ Total(y.out, "WINDOW_ADJUST") = Total(x.out, "WINDOW_ADJUST") + 0
  BY <1>4, <1>5, <1>6, <1>7, TotalConcat
<1>9. /\ c.phase = x.c.phase /\ c.halfopen = x.c.halfopen /\ c.closes = x.c.closes
      /\ c.remwindow = x.c.remwindow - n /\ c.locwindow = x.c.locwindow
      /\ c.inbuf = x.c.inbuf /\ c.chanreq = x.c.chanreq
      /\ x.c.remwindow \in Int /\ x.c.locwindow \in Int
  BY <1>1 DEF Channel
<1>10. Total(x.out, "DATA") \in Int /\ Total(x.out, "WINDOW_ADJUST") \in Int
  BY <1>1, BodySeq
<1>11. w.locwindow \in Int
  BY DEF Channel
<1>12. x.c.halfopen => y.out = <<>>
  BY <1>1, <1>4, <1>5 DEF Flow
<1> HIDE DEF c, d, y
<1>13. /\ w.remwindow = x.c.remwindow + Total(x.out, "DATA")
       /\ x.c.locwindow = w.locwindow + Total(x.out, "WINDOW_ADJUST")
  BY DEF Flow
<1>14. /\ w.remwindow = c.remwindow + Total(y.out, "DATA")
       /\ c.locwindow = w.locwindow + Total(y.out, "WINDOW_ADJUST")
  BY <1>8, <1>9, <1>10, <1>11, <1>13
<1>15. Flow(w, y)
  BY <1>3, <1>5, <1>9, <1>12, <1>14 DEF Flow
<1> QED BY <1>15 DEF y

\* What ssh2_try_send sends.
Sendable(c) == IF c.halfopen THEN 0 ELSE Smaller(c.remwindow, c.outbuffer)

\* What may be sent is covered by the window and the buffer, and uses one of them up.
LEMMA SendableIs ==
    ASSUME NEW c \in Channel
    PROVE  /\ Sendable(c) \in Nat /\ Sendable(c) <= c.remwindow /\ Sendable(c) <= c.outbuffer
           /\ c.halfopen => Sendable(c) = 0
           /\ ~c.halfopen /\ c.outbuffer - Sendable(c) > 0 => c.remwindow - Sendable(c) = 0
<1>1. c.remwindow \in Nat /\ c.outbuffer \in Nat
  BY DEF Channel
<1> QED BY <1>1 DEF Sendable, Smaller

\* ssh2_try_send takes from the window what it sends.
LEMMA FlowTrySend ==
    ASSUME NEW w \in Channel, NEW x, Flow(w, x)
    PROVE  Flow(w, ssh2_try_send(x))
<1> DEFINE y == DataSent(x, Sendable(x.c))
<1>1. x.c \in Channel
  BY DEF Flow, WorkRec
<1>2. Flow(w, y)
  BY <1>1, SendableIs, FlowDataSent
<1>3. ssh2_try_send(x) = IF y.c.outbuffer = 0 /\ y.c.pending_eof THEN ssh2_channel_try_eof(y) ELSE y
  BY DEF ssh2_try_send, Sendable
<1> HIDE DEF y
<1> QED BY <1>2, <1>3, FlowTryEof

\* ssh2_channel_check_throttle only freezes or unfreezes the socket.
LEMMA FlowThrottle ==
    ASSUME NEW w \in Channel, NEW x, Flow(w, x), NEW all \in BOOLEAN
    PROVE  Flow(w, ssh2_channel_check_throttle(all, x))
<1> DEFINE v == ~all /\ ~x.c.pending_eof /\ "SENT_EOF" \notin x.c.closes
           c == [x.c EXCEPT !.wanted = v]
<1>1. x.c \in Channel
  BY DEF Flow, WorkRec
<1>2. v \in BOOLEAN
  OBVIOUS
<1> HIDE DEF v
<1>3. Alike(x.c, c)
  BY <1>1, <1>2 DEF Channel, Alike
<1> HIDE DEF c
<1>4. Flow(w, With(x, c))
  BY <1>3, FlowAlike
<1> QED BY <1>4 DEF ssh2_channel_check_throttle, c, v

\* ssh2_try_send_and_unthrottle is the two in a row.
LEMMA FlowUnthrottle ==
    ASSUME NEW w \in Channel, NEW x, Flow(w, x), NEW all \in BOOLEAN
    PROVE  Flow(w, ssh2_try_send_and_unthrottle(all, x))
BY FlowTrySend, FlowThrottle DEF ssh2_try_send_and_unthrottle

\* ssh2channel_write buffers and tries to send.
LEMMA FlowWrite ==
    ASSUME NEW w \in Channel, NEW x, Flow(w, x), NEW n \in Nat
    PROVE  Flow(w, ssh2channel_write(x, n))
<1> DEFINE m == x.c.outbuffer + n
           c == [x.c EXCEPT !.outbuffer = m]
<1>1. x.c \in Channel
  BY DEF Flow, WorkRec
<1>2. Alike(x.c, c)
  <2>1. m \in Nat
    <3> HIDE DEF c
    <3>1. x.c.outbuffer \in Nat
      BY <1>1 DEF Channel
    <3> QED BY <3>1
  <2> HIDE DEF m
  <2>2. c \in Channel
    BY <1>1, <2>1, Zenon DEF Channel
  <2> QED BY <1>1, <2>2 DEF Channel, Alike
<1> HIDE DEF c
<1>3. Flow(w, With(x, c))
  BY <1>2, FlowAlike
<1> QED BY <1>3, FlowTrySend DEF ssh2channel_write, c

\* ssh2channel_write_eof sends EOF or leaves it pending.
LEMMA FlowWriteEof ==
    ASSUME NEW w \in Channel, NEW x, Flow(w, x)
    PROVE  Flow(w, ssh2channel_write_eof(x))
<1> DEFINE c == [x.c EXCEPT !.pending_eof = TRUE]
<1>1. x.c \in Channel
  BY DEF Flow, WorkRec
<1>2. Alike(x.c, c)
  BY <1>1 DEF Channel, Alike
<1> HIDE DEF c
<1>3. Flow(w, With(x, c))
  BY <1>2, FlowAlike
<1> QED BY <1>3, FlowTryEof DEF ssh2channel_write_eof, c

\* A channel request, with the list of what its reply means.
LEMMA FlowRequest ==
    ASSUME NEW w \in Channel, NEW x, Flow(w, x), ~x.c.halfopen, NEW reply \in Seq(Nat)
    PROVE  Flow(w, ssh2_chanreq_init(x, reply)) /\ ~ssh2_chanreq_init(x, reply).c.halfopen
<1> DEFINE q == Pkt("REQUEST", IF reply = <<>> THEN 0 ELSE 1)
           l == x.c.chanreq \o reply
           c == [x.c EXCEPT !.chanreq = l]
<1>1. x \in WorkRec /\ x.c \in Channel
  BY DEF Flow, WorkRec
<1>2. c \in Channel
  <2>1. x.c.chanreq \in Seq(Nat)
    BY <1>1 DEF Channel
  <2>2. l \in Seq(Nat)
    BY <2>1
  <2> HIDE DEF l
  <2> QED BY <1>1, <2>2, Zenon DEF Channel
<1>3. Roomy(x.c) => Roomy(c)
  BY <1>1 DEF Channel, Roomy
<1>4. /\ Keeps(x.c, c) /\ c.remwindow = x.c.remwindow /\ c.locwindow = x.c.locwindow
      /\ c.halfopen = x.c.halfopen
  BY <1>1, <1>2, <1>3 DEF Channel, Keeps, Flow
<1>5. q \in Body /\ q.type = "REQUEST"
  BY PktBody
<1>6. x.c.remwindow \in Int /\ x.c.locwindow \in Int
  BY <1>1 DEF Channel
<1> HIDE DEF c, q
<1>7. Flow(w, With(Push(x, q), c))
  BY <1>4, <1>5, <1>6, FlowPush
<1>8. With(Push(x, q), c).c = c
  BY <1>1, <1>2, <1>5, PushIs, WithIs
<1> QED BY <1>4, <1>7, <1>8 DEF ssh2_chanreq_init, c, q, l

\* Announcing a window leaves the accounts as they are.
LEMMA FlowAnnounced ==
    ASSUME NEW w \in Channel, NEW x, Flow(w, x), ~x.c.halfopen, NEW newwin \in Nat, NEW size \in Nat
    PROVE  LET y == Announced(x, newwin, size)
           IN  /\ Flow(w, y)
               /\ y.c.halfopen = x.c.halfopen /\ y.c.locwindow = x.c.locwindow
               /\ y.c.inbuf = x.c.inbuf /\ y.c.locmaxwin = x.c.locmaxwin
               /\ y.c.fixed = x.c.fixed /\ y.c.throttling_conn = x.c.throttling_conn
<1>1. x \in WorkRec /\ x.c \in Channel
  BY DEF Flow, WorkRec
<1>2. CASE newwin = x.c.locmaxwin /\ "CHOKES_ON_WINADJ" \notin setup.bugs
  <2> DEFINE r == <<size>>
             y == ssh2_chanreq_init(x, r)
             st == IF y.c.throttle_state = "UNTHROTTLED" THEN y.c.throttle_state ELSE "UNTHROTTLING"
             c == [y.c EXCEPT !.throttle_state = st]
  <2>1. r \in Seq(Nat)
    OBVIOUS
  <2> HIDE DEF r
  <2>2. Flow(w, y) /\ ~y.c.halfopen
    BY <2>1, FlowRequest
  <2>3. /\ y.c.halfopen = x.c.halfopen /\ y.c.locwindow = x.c.locwindow
        /\ y.c.inbuf = x.c.inbuf /\ y.c.locmaxwin = x.c.locmaxwin
        /\ y.c.fixed = x.c.fixed /\ y.c.throttling_conn = x.c.throttling_conn
    <3>1. y.c = [x.c EXCEPT !.chanreq = @ \o r]
      BY <1>1 DEF ssh2_chanreq_init, With, Push, WorkRec
    <3> QED BY <1>1, <3>1 DEF Channel
  <2>4. y \in WorkRec /\ y.c \in Channel
    BY <2>2 DEF Flow, WorkRec
  <2> HIDE DEF y
  <2>5. c \in Channel
    BY <2>4 DEF Channel
  <2>6. Alike(y.c, c)
    BY <2>4, <2>5 DEF Channel, Alike
  <2>7. Announced(x, newwin, size) = With(y, c)
    BY <1>2 DEF Announced, y, r
  <2> HIDE DEF c
  <2>8. Flow(w, With(y, c)) /\ With(y, c).c = c
    BY <2>2, <2>4, <2>5, <2>6, FlowAlike, WithIs
  <2> QED BY <2>3, <2>6, <2>7, <2>8 DEF Alike
<1>3. CASE ~(newwin = x.c.locmaxwin /\ "CHOKES_ON_WINADJ" \notin setup.bugs)
  <2> DEFINE c == [x.c EXCEPT !.remlocwin = newwin, !.throttle_state = "THROTTLED"]
  <2>1. c \in Channel
    <3>1. newwin \in Int
      OBVIOUS
    <3> QED BY <1>1, <3>1, Zenon DEF Channel
  <2>2. Alike(x.c, c)
    BY <1>1, <2>1 DEF Channel, Alike
  <2>3. Announced(x, newwin, size) = With(x, c)
    BY <1>3 DEF Announced
  <2> HIDE DEF c
  <2>4. Flow(w, With(x, c)) /\ With(x, c).c = c
    BY <1>1, <2>1, <2>2, FlowAlike, WithIs
  <2> QED BY <2>2, <2>3, <2>4 DEF Alike
<1> QED BY <1>2, <1>3

\* Reopening the window to no more than what is left of locmaxwin.
LEMMA FlowSetWindow ==
    ASSUME NEW w \in Channel, NEW x, Flow(w, x), ~x.c.halfopen, NEW wantwin \in Nat,
           setup.fixed = 0 => x.c.inbuf + wantwin <= x.c.locmaxwin
    PROVE  Flow(w, ssh2_set_window(x, wantwin))
<1> DEFINE newwin == IF "MAXPKT" \in setup.bugs THEN Smaller(wantwin, MaxPkt) ELSE wantwin
           size == newwin - x.c.locwindow
           y == Announced(x, newwin, size)
           q == Pkt("WINDOW_ADJUST", size)
           c == [y.c EXCEPT !.locwindow = newwin]
<1>1. x \in WorkRec /\ x.c \in Channel
  BY DEF Flow, WorkRec
<1>2. newwin \in Nat /\ newwin <= wantwin
  BY ParamAssumption DEF Smaller
<1>3. x.c.locwindow \in Int /\ x.c.inbuf \in Nat /\ x.c.locmaxwin \in Nat
  BY <1>1 DEF Channel
<1>4. CASE \/ {"RCVD_EOF", "SENT_CLOSE"} \cap x.c.closes # {} \/ x.c.fixed
           \/ newwin \div 2 < x.c.locwindow
  BY <1>4 DEF ssh2_set_window
<1>5. CASE ~(\/ {"RCVD_EOF", "SENT_CLOSE"} \cap x.c.closes # {} \/ x.c.fixed
             \/ newwin \div 2 < x.c.locwindow)
  <2>1. size \in Nat /\ size = newwin - x.c.locwindow
    <3> HIDE DEF newwin
    <3> QED BY <1>2, <1>3, <1>5
  <2>2. ssh2_set_window(x, wantwin) = With(Push(y, q), c)
    BY <1>5 DEF ssh2_set_window, Adjusted
  <2> HIDE DEF newwin, size
  <2>3. /\ Flow(w, y)
        /\ y.c.halfopen = x.c.halfopen /\ y.c.locwindow = x.c.locwindow
        /\ y.c.inbuf = x.c.inbuf /\ y.c.locmaxwin = x.c.locmaxwin
        /\ y.c.fixed = x.c.fixed /\ y.c.throttling_conn = x.c.throttling_conn
    BY <1>2, <2>1, FlowAnnounced
  <2> HIDE DEF y
  <2>4. y \in WorkRec /\ y.c \in Channel
    BY <2>3 DEF Flow, WorkRec
  <2>5. c \in Channel
    <3>1. newwin \in Int
      BY <1>2
    <3> QED BY <2>4, <3>1, Zenon DEF Channel
  <2>6. /\ c.locwindow = newwin /\ c.inbuf = y.c.inbuf /\ c.locmaxwin = y.c.locmaxwin
        /\ c.fixed = y.c.fixed /\ c.throttling_conn = y.c.throttling_conn
        /\ c.halfopen = y.c.halfopen /\ c.closes = y.c.closes /\ c.phase = y.c.phase
        /\ c.remwindow = y.c.remwindow /\ y.c.remwindow \in Int
    BY <2>4 DEF Channel
  <2> HIDE DEF c
  <2>7. setup.fixed = 0 /\ Roomy(y.c) => Roomy(c)
    BY <1>2, <1>3, <2>3, <2>6 DEF Roomy
  <2>8. Keeps(y.c, c)
    BY <2>3, <2>5, <2>6, <2>7 DEF Keeps, Flow
  <2>9. q \in Body /\ q.type = "WINDOW_ADJUST" /\ q.n = size
    BY <2>1, PktBody
  <2>10. c.locwindow = y.c.locwindow + size
    BY <1>2, <1>3, <2>1, <2>3, <2>6
  <2> HIDE DEF q
  <2>11. Flow(w, With(Push(y, q), c))
    BY <2>3, <2>6, <2>8, <2>9, <2>10, FlowPush
  <2> QED BY <2>2, <2>11 DEF q
<1> QED BY <1>4, <1>5

\* Replies to requests.
LEMMA FlowAnswered ==
    ASSUME NEW w \in Channel, NEW x, Flow(w, x), NEW sizes \in Seq(Nat)
    PROVE  Flow(w, RequestsAnswered(x, sizes))
<1> DEFINE r == x.c.remlocwin + Sum(sizes)
           st == IF x.c.throttle_state = "UNTHROTTLING" /\ (\E i \in DOMAIN sizes : sizes[i] > 0)
                 THEN "UNTHROTTLED" ELSE x.c.throttle_state
           c == [x.c EXCEPT !.remlocwin = r, !.throttle_state = st]
<1>1. x.c \in Channel
  BY DEF Flow, WorkRec
<1>2. r \in Int
  <2>1. x.c.remlocwin \in Int
    BY <1>1 DEF Channel
  <2>2. Sum(sizes) \in Nat
    BY SumType
  <2> QED BY <2>1, <2>2
<1>3. st \in {"THROTTLED", "UNTHROTTLING", "UNTHROTTLED"}
  BY <1>1 DEF Channel
<1> HIDE DEF r, st
<1>4. c \in Channel
  BY <1>1, <1>2, <1>3, Zenon DEF Channel
<1>5. Alike(x.c, c)
  BY <1>1, <1>4 DEF Channel, Alike
<1> HIDE DEF c
<1>6. Flow(w, With(x, c))
  BY <1>5, FlowAlike
<1> QED BY <1>6 DEF RequestsAnswered, c, r, st

\* A CLOSE answers all requests that are left.
LEMMA FlowRepliesOver ==
    ASSUME NEW w \in Channel, NEW x, Flow(w, x), ~x.c.halfopen
    PROVE  Flow(w, RepliesOver(x))
<1> DEFINE y == RequestsAnswered(x, x.c.chanreq)
           c == [y.c EXCEPT !.chanreq = <<>>]
<1>1. x.c \in Channel /\ x.c.chanreq \in Seq(Nat)
  <2>1. x.c \in Channel
    BY DEF Flow, WorkRec
  <2> QED BY <2>1 DEF Channel
<1>2. Flow(w, y)
  BY <1>1, FlowAnswered
<1>3. y.c \in Channel /\ ~y.c.halfopen
  BY <1>2 DEF Flow, WorkRec
<1> HIDE DEF y
<1>4. c \in Channel
  <2>1. <<>> \in Seq(Nat)
    OBVIOUS
  <2> QED BY <1>3, <2>1, Zenon DEF Channel
<1>5. Alike(y.c, c)
  BY <1>3, <1>4 DEF Channel, Alike
<1> HIDE DEF c
<1>6. Flow(w, With(y, c))
  BY <1>2, <1>5, FlowAlike
<1> QED BY <1>6 DEF RepliesOver, c, y

\* A CLOSE drops what is buffered and sends EOF.
LEMMA FlowOutputOver ==
    ASSUME NEW w \in Channel, NEW x, Flow(w, x), NEW all \in BOOLEAN
    PROVE  Flow(w, OutputOver(all, x))
<1> DEFINE c == [x.c EXCEPT !.outbuffer = 0, !.abandoned = @ \/ x.c.outbuffer > 0]
<1>1. x.c \in Channel
  BY DEF Flow, WorkRec
<1>2. c \in Channel
  BY <1>1 DEF Channel
<1>3. Alike(x.c, c)
  BY <1>1, <1>2 DEF Channel, Alike
<1> HIDE DEF c
<1>4. Flow(w, With(x, c))
  BY <1>3, FlowAlike
<1>5. Flow(w, ssh2_channel_check_throttle(all, ssh2channel_write_eof(With(x, c))))
  BY <1>4, FlowWriteEof, FlowThrottle
<1> QED BY <1>5 DEF OutputOver, c

\* Flags of packets received.
LEMMA FlowClosed ==
    ASSUME NEW w \in Channel, NEW x, Flow(w, x), NEW flags \in SUBSET {"RCVD_EOF", "RCVD_CLOSE"}
    PROVE  Flow(w, Closed(x, flags))
<1> DEFINE s == x.c.closes \cup flags
           c == [x.c EXCEPT !.closes = s]
<1>1. x.c \in Channel
  BY DEF Flow, WorkRec
<1>2. s \in SUBSET Closes
  BY <1>1 DEF Channel, Closes
<1>3. c \in Channel
  <2> HIDE DEF s
  <2> QED BY <1>1, <1>2, Zenon DEF Channel
<1>4. Roomy(x.c) => Roomy(c)
  BY <1>1 DEF Channel, Roomy
<1>5. Keeps(x.c, c) /\ c.remwindow = x.c.remwindow /\ c.locwindow = x.c.locwindow
  BY <1>1, <1>3, <1>4 DEF Channel, Keeps, Flow
<1> HIDE DEF c
<1>6. Flow(w, With(x, c))
  BY <1>5, FlowWith
<1> QED BY <1>6 DEF Closed, c, s

\* chan_send_eof of either kind of Channel.
LEMMA FlowSendEof ==
    ASSUME NEW w \in Channel, NEW x, Flow(w, x), NEW e \in Ends
    PROVE  Flow(w, chan_send_eof(e, x))
BY FlowWriteEof DEF chan_send_eof

\* All that the arrival of CLOSE does.
LEMMA FlowCloseArrived ==
    ASSUME NEW w \in Channel, NEW x, Flow(w, x), ~x.c.halfopen, NEW e \in Ends, throttled[e] \in BOOLEAN
    PROVE  Flow(w, CloseArrived(e, x))
<1> DEFINE y == IF "RCVD_EOF" \in x.c.closes THEN x ELSE chan_send_eof(e, Closed(x, {"RCVD_EOF"}))
           z == OutputOver(throttled[e], RepliesOver(y))
<1>1. Flow(w, y)
  BY FlowClosed, FlowSendEof
<1>2. ~w.halfopen
  BY DEF Flow
<1>3. ~y.c.halfopen
  BY <1>1, <1>2 DEF Flow
<1> HIDE DEF y
<1>4. Flow(w, z)
  BY <1>1, <1>3, FlowRepliesOver, FlowOutputOver
<1> HIDE DEF z
<1>5. Flow(w, ssh2_channel_check_close(Closed(z, {"RCVD_CLOSE"})))
  BY <1>4, FlowClosed, FlowCheckClose
<1> QED BY <1>4, <1>5 DEF CloseArrived, z, y

\* The confirmation of CHANNEL_OPEN.
LEMMA FlowConfirmed ==
    ASSUME NEW w \in Channel, NEW x, Flow(w, x), ~x.c.halfopen, NEW e \in Ends,
           setup.openrequests \in Nat
    PROVE  Flow(w, chan_open_confirmation(e, x))
<1> DEFINE n == setup.openrequests
           zeros == [i \in 1 .. n |-> 0]
           reqs == [i \in 1 .. n |-> Pkt("REQUEST", 1)]
           y == [c |-> [x.c EXCEPT !.chanreq = @ \o zeros], out |-> x.out \o reqs]
<1>1. x \in WorkRec /\ x.c \in Channel /\ x.out \in Seq(Body)
  BY DEF Flow, WorkRec
<1>2. CASE x.c.zombie
  BY <1>2 DEF chan_open_confirmation
<1>3. CASE ~x.c.zombie /\ IsMain(e)
  <2>1. zeros \in Seq(Nat)
    <3>1. zeros \in [1 .. n -> Nat]
      OBVIOUS
    <3> QED BY <3>1
  <2>2. reqs \in Seq(Body) /\ \A i \in DOMAIN reqs : reqs[i].type = "REQUEST"
    <3>1. reqs \in [1 .. n -> Body]
      BY PktBody
    <3> QED BY <3>1, PktBody
  <2> HIDE DEF zeros, reqs
  <2> DEFINE l == x.c.chanreq \o zeros
             c == [x.c EXCEPT !.chanreq = l]
             o == x.out \o reqs
  <2>3. x.c.chanreq \in Seq(Nat)
    BY <1>1 DEF Channel
  <2>4. l \in Seq(Nat) /\ o \in Seq(Body)
    BY <1>1, <2>1, <2>2, <2>3
  <2>5. c \in Channel
    <3> HIDE DEF l
    <3> QED BY <1>1, <2>4, Zenon DEF Channel
  <2>6. y.c = c /\ y.out = o /\ y \in WorkRec
    BY <2>4, <2>5 DEF WorkRec
  <2>7. Roomy(x.c) => Roomy(c)
    BY <1>1 DEF Channel, Roomy
  <2>8. /\ c.phase = x.c.phase /\ c.halfopen = x.c.halfopen /\ c.closes = x.c.closes
        /\ c.remwindow = x.c.remwindow /\ c.locwindow = x.c.locwindow
        /\ c.remwindow \in Int /\ w.locwindow \in Int
    BY <1>1 DEF Channel
  <2>9. reqs \in Seq(Packet) /\ x.out \in Seq(Packet)
    BY <1>1, <2>2, BodySeq
  <2>10. Total(reqs, "DATA") = 0 /\ Total(reqs, "WINDOW_ADJUST") = 0
    BY <2>2, <2>9, TotalNone
  <2>11. Total(o, "DATA") = Total(x.out, "DATA") + 0
         /\ Total(o, "WINDOW_ADJUST") = Total(x.out, "WINDOW_ADJUST") + 0
    BY <2>9, <2>10, TotalConcat
  <2>12. Total(x.out, "DATA") \in Nat /\ Total(x.out, "WINDOW_ADJUST") \in Nat
    BY <1>1, BodySeq
  <2>13. chan_open_confirmation(e, x) = y
    BY <1>3 DEF chan_open_confirmation, zeros, reqs
  <2> HIDE DEF c, o, y
  <2>14. Flow(w, y)
    BY <2>6, <2>7, <2>8, <2>11, <2>12 DEF Flow
  <2> QED BY <2>13, <2>14
<1>4. CASE ~x.c.zombie /\ ~IsMain(e)
  <2> DEFINE c == [x.c EXCEPT !.wanted = TRUE]
  <2>1. c \in Channel
    BY <1>1 DEF Channel
  <2>2. Alike(x.c, c)
    BY <1>1, <2>1 DEF Channel, Alike
  <2>3. chan_open_confirmation(e, x) = With(x, c)
    BY <1>4 DEF chan_open_confirmation
  <2> HIDE DEF c
  <2> QED BY <2>2, <2>3, FlowAlike
<1> QED BY <1>2, <1>3, <1>4

\* The fields that the window has nothing to do with.
Untouched(c, d) ==
    /\ d.phase = c.phase /\ d.halfopen = c.halfopen /\ d.closes = c.closes
    /\ d.pending_eof = c.pending_eof /\ d.outbuffer = c.outbuffer /\ d.remwindow = c.remwindow
    /\ d.locmaxwin = c.locmaxwin /\ d.inbuf = c.inbuf /\ d.fixed = c.fixed
    /\ d.zombie = c.zombie /\ d.wanted = c.wanted /\ d.srceof = c.srceof
    /\ d.abandoned = c.abandoned /\ d.throttling_conn = c.throttling_conn

\* ssh2_set_window leaves the sending side alone.
LEMMA SetWindowIs ==
    ASSUME NEW x \in WorkRec, NEW wantwin
    PROVE  Untouched(x.c, ssh2_set_window(x, wantwin).c)
<1>1. x.c \in Channel
  BY DEF WorkRec
<1>2. ASSUME NEW newwin, NEW size PROVE Untouched(x.c, Adjusted(Announced(x, newwin, size), newwin, size).c)
  <2> DEFINE y == Announced(x, newwin, size)
  <2>1. /\ DOMAIN y = {"c", "out"} /\ DOMAIN y.c = DOMAIN x.c
        /\ Untouched(x.c, y.c)
    BY <1>1 DEF Announced, ssh2_chanreq_init, With, Push, WorkRec, Channel, Untouched
  <2> HIDE DEF y
  <2>2. Adjusted(y, newwin, size).c = [y.c EXCEPT !.locwindow = newwin]
    BY <2>1 DEF Adjusted, With, Push
  <2>3. Untouched(y.c, [y.c EXCEPT !.locwindow = newwin])
    BY <1>1, <2>1 DEF Untouched, Channel
  <2> QED BY <2>1, <2>2, <2>3 DEF y, Untouched
<1> QED BY <1>2 DEF ssh2_set_window, Untouched

\* What the Channel of an end does with n units of data, and the window that
\* it gives in return.
LEMMA FlowChanSend ==
    ASSUME NEW w \in Channel, NEW x, Flow(w, x), ~x.c.halfopen, NEW n \in Nat, NEW y \in chan_send(x, n),
           setup.fixed = 0 => x.c.inbuf + n + x.c.locwindow <= x.c.locmaxwin
    PROVE  Flow(w, y)
<1>1. x \in WorkRec /\ x.c \in Channel
  BY DEF Flow, WorkRec
<1>2. ASSUME NEW z, Flow(w, z), ~z.c.halfopen, NEW bufsize \in 0 .. z.c.inbuf + n,
             setup.fixed = 0 => z.c.inbuf + n + z.c.locwindow <= z.c.locmaxwin
      PROVE  Flow(w, With(z, [z.c EXCEPT !.inbuf = bufsize]))
  <2> DEFINE c == [z.c EXCEPT !.inbuf = bufsize]
  <2>1. z.c \in Channel
    BY <1>2 DEF Flow, WorkRec
  <2>2. z.c.inbuf \in Nat /\ bufsize \in Nat /\ z.c.locwindow \in Int /\ z.c.locmaxwin \in Nat
    <3>1. z.c.inbuf \in Nat /\ z.c.locwindow \in Int /\ z.c.locmaxwin \in Nat
      BY <2>1 DEF Channel
    <3> QED BY <3>1
  <2>3. c \in Channel
    BY <2>1, <2>2, Zenon DEF Channel
  <2>4. /\ c.inbuf = bufsize /\ c.locwindow = z.c.locwindow /\ c.locmaxwin = z.c.locmaxwin
        /\ c.fixed = z.c.fixed /\ c.throttling_conn = z.c.throttling_conn /\ c.halfopen = z.c.halfopen
        /\ c.closes = z.c.closes /\ c.phase = z.c.phase /\ c.remwindow = z.c.remwindow
    BY <2>1 DEF Channel
  <2> HIDE DEF c
  <2>5. setup.fixed = 0 /\ Roomy(z.c) => Roomy(c)
    BY <1>2, <2>2, <2>4 DEF Roomy
  <2>6. Keeps(z.c, c)
    BY <1>2, <2>3, <2>4, <2>5 DEF Keeps, Flow
  <2>7. Flow(w, With(z, c))
    BY <1>2, <2>4, <2>6, FlowWith
  <2> QED BY <2>7 DEF c
<1>3. CASE x.c.zombie
  BY <1>3 DEF chan_send
<1>4. CASE ~x.c.zombie /\ ~x.c.fixed
  <2>1. PICK bufsize \in 0 .. x.c.inbuf + n : y = With(x, [x.c EXCEPT !.inbuf = bufsize])
    BY <1>4 DEF chan_send
  <2> QED BY <1>2, <2>1
<1>5. CASE ~x.c.zombie /\ x.c.fixed
  <2> DEFINE c == [x.c EXCEPT !.fixed = FALSE]
             z == ssh2_set_window(With(x, c), WinSize)
  <2>1. setup.fixed # 0
    BY <1>5 DEF Flow, Roomy
  <2>2. c \in Channel
    BY <1>1 DEF Channel
  <2>3. Keeps(x.c, c) /\ c.remwindow = x.c.remwindow /\ c.locwindow = x.c.locwindow
        /\ c.halfopen = x.c.halfopen
    BY <1>1, <2>1, <2>2 DEF Channel, Keeps, Flow
  <2>4. ssh2channel_window_override_removed(x) = z
    BY DEF ssh2channel_window_override_removed
  <2> HIDE DEF c
  <2>5. Flow(w, With(x, c)) /\ With(x, c).c = c
    BY <1>1, <2>2, <2>3, FlowWith, WithIs
  <2>6. Flow(w, z)
    BY <2>1, <2>3, <2>5, FlowSetWindow, ParamAssumption
  <2>7. ~z.c.halfopen
    BY <2>6 DEF Flow
  <2> HIDE DEF z
  <2>8. CASE y = x
    BY <2>8
  <2>9. CASE y # x
    <3>1. PICK bufsize \in 0 .. z.c.inbuf + n : y = With(z, [z.c EXCEPT !.inbuf = bufsize])
      BY <1>5, <2>4, <2>9 DEF chan_send
    <3> QED BY <1>2, <2>1, <2>6, <2>7, <3>1
  <2> QED BY <2>8, <2>9
<1> QED BY <1>3, <1>4, <1>5

\* What follows chan_send: the window grows, is announced, and never throttles.
LEMMA FlowWindowAfterData ==
    ASSUME NEW w \in Channel, NEW x, Flow(w, x), ~x.c.halfopen, setup.fixed = 0 => w.locwindow >= 0
    PROVE  Flow(w, WindowAfterData(x))
<1> DEFINE bufsize == x.c.inbuf
           m == x.c.locmaxwin + WinSize
           d == [x.c EXCEPT !.locmaxwin = m]
           y == IF x.c.remlocwin <= 0 /\ x.c.throttle_state = "UNTHROTTLED" /\ x.c.locmaxwin < WinCap
                THEN With(x, d) ELSE x
           z == IF bufsize < y.c.locmaxwin THEN ssh2_set_window(y, y.c.locmaxwin - bufsize) ELSE y
           v == z.c.throttling_conn \/ bufsize > z.c.locmaxwin
           c == [z.c EXCEPT !.throttling_conn = v]
<1>1. x \in WorkRec /\ x.c \in Channel
  BY DEF Flow, WorkRec
<1>2. x.c.inbuf \in Nat /\ x.c.locmaxwin \in Nat /\ x.c.locwindow \in Int /\ WinSize \in Nat /\ m \in Nat
  <2>1. x.c.inbuf \in Nat /\ x.c.locmaxwin \in Nat /\ x.c.locwindow \in Int /\ WinSize \in Nat
    BY <1>1, ParamAssumption DEF Channel
  <2> QED BY <2>1
<1>3. Flow(w, y) /\ y \in WorkRec /\ ~y.c.halfopen /\ y.c.inbuf = bufsize /\ y.c.locmaxwin \in Nat
  <2>1. d \in Channel
    <3> HIDE DEF m
    <3> QED BY <1>1, <1>2, Zenon DEF Channel
  <2>2. /\ d.inbuf = x.c.inbuf /\ d.locwindow = x.c.locwindow /\ d.locmaxwin = m
        /\ d.fixed = x.c.fixed /\ d.throttling_conn = x.c.throttling_conn /\ d.halfopen = x.c.halfopen
        /\ d.closes = x.c.closes /\ d.phase = x.c.phase /\ d.remwindow = x.c.remwindow
    BY <1>1 DEF Channel
  <2> HIDE DEF d
  <2>3. Roomy(x.c) => Roomy(d)
    BY <1>2, <2>2 DEF Roomy
  <2>4. Keeps(x.c, d)
    BY <2>1, <2>2, <2>3 DEF Keeps, Flow
  <2>5. Flow(w, With(x, d)) /\ With(x, d).c = d
    BY <1>1, <2>1, <2>2, <2>4, FlowWith, WithIs
  <2>6. With(x, d) \in WorkRec
    BY <1>1, <2>1, WithIs
  <2> HIDE DEF m
  <2> QED BY <1>1, <1>2, <2>2, <2>5, <2>6
<1> HIDE DEF y
<1>4. Flow(w, z) /\ z.c.inbuf = bufsize /\ z.c.locmaxwin = y.c.locmaxwin
  <2>1. CASE bufsize < y.c.locmaxwin
    <3>1. y.c.locmaxwin - bufsize \in Nat /\ y.c.inbuf + (y.c.locmaxwin - bufsize) <= y.c.locmaxwin
      BY <1>2, <1>3, <2>1
    <3>2. Flow(w, ssh2_set_window(y, y.c.locmaxwin - bufsize))
      BY <1>3, <3>1, FlowSetWindow
    <3> QED BY <1>3, <2>1, <3>2, SetWindowIs DEF Untouched
  <2>2. CASE ~(bufsize < y.c.locmaxwin)
    BY <1>3, <2>2
  <2> QED BY <2>1, <2>2
<1> HIDE DEF z
<1>5. z.c \in Channel /\ z.out \in Seq(Body)
  BY <1>4 DEF Flow, WorkRec
<1>6. setup.fixed = 0 /\ Roomy(z.c) => ~v
  <2>1. Total(z.out, "WINDOW_ADJUST") \in Nat /\ w.locwindow \in Int /\ z.c.locwindow \in Int
        /\ z.c.locmaxwin \in Nat
    BY <1>5, BodySeq DEF Channel
  <2>2. z.c.locwindow = w.locwindow + Total(z.out, "WINDOW_ADJUST")
    BY <1>4 DEF Flow
  <2> QED BY <1>2, <1>4, <2>1, <2>2 DEF Roomy
<1>7. v \in BOOLEAN
  BY <1>5 DEF Channel
<1> HIDE DEF v
<1>8. c \in Channel
  BY <1>5, <1>7, Zenon DEF Channel
<1>9. /\ c.inbuf = z.c.inbuf /\ c.locwindow = z.c.locwindow /\ c.locmaxwin = z.c.locmaxwin
      /\ c.fixed = z.c.fixed /\ c.throttling_conn = v /\ c.halfopen = z.c.halfopen
      /\ c.closes = z.c.closes /\ c.phase = z.c.phase /\ c.remwindow = z.c.remwindow
      /\ c.chanreq = z.c.chanreq
  BY <1>5 DEF Channel
<1> HIDE DEF c
<1>10. Keeps(z.c, c)
  BY <1>4, <1>6, <1>8, <1>9 DEF Keeps, Flow, Roomy
<1>11. Flow(w, With(z, c))
  BY <1>4, <1>9, <1>10, FlowWith
<1> QED BY <1>11 DEF WindowAfterData, c, v, z, y, d, m

-----------------------------------------------------------------------------
(* Steps of the two ends, and the windows. *)

\* The two ends.
LEMMA PeerIs ==
    ASSUME NEW e \in Ends
    PROVE  /\ Peer(e) \in Ends /\ Peer(e) # e /\ Peer(Peer(e)) = e
           /\ \A f \in Ends : f = e \/ f = Peer(e)
BY DEF Ends, Peer

\* What an end may send, with what is under way to it.
Given(c, r) ==
    c.remwindow + Total(r, "OPEN_CONFIRMATION")
        + (IF "SENT_EOF" \in c.closes THEN 0 ELSE Total(r, "WINDOW_ADJUST"))

\* A handler that is given the channel c and the packets r takes the accounts
\* up at w, with the packets rest left.
Started(c, r, w, rest) ==
    /\ w \in Channel /\ rest \in Seq(Packet)
    /\ "SENT_EOF" \in w.closes <=> "SENT_EOF" \in c.closes
    /\ Given(w, rest) = Given(c, r)
    /\ w.locwindow + Total(r, "DATA") = c.locwindow + Total(rest, "DATA")

\* A handler that keeps its own accounts keeps those of both ends.
LEMMA LedgerKept ==
    ASSUME NEW c \in Channel, NEW d \in Channel, NEW r \in Seq(Packet), NEW s \in Seq(Packet),
           NEW w, NEW rest, NEW x, Started(c, r, w, rest), Flow(w, x),
           Covered(c, r, s, d.locwindow), Covered(d, s, r, c.locwindow)
    PROVE  /\ Covered(x.c, rest, s \o x.out, d.locwindow)
           /\ Covered(d, s \o x.out, rest, x.c.locwindow)
<1> DEFINE t == s \o x.out
           cRem == c.remwindow
           wRem == w.remwindow
           xRem == x.c.remwindow
           dRem == d.remwindow
           cLoc == c.locwindow
           wLoc == w.locwindow
           xLoc == x.c.locwindow
           dLoc == d.locwindow
           oData == Total(x.out, "DATA")
           oWin == Total(x.out, "WINDOW_ADJUST")
           rData == Total(r, "DATA")
           rConf == Total(r, "OPEN_CONFIRMATION")
           rWin == IF "SENT_EOF" \in c.closes THEN 0 ELSE Total(r, "WINDOW_ADJUST")
           qData == Total(rest, "DATA")
           qConf == Total(rest, "OPEN_CONFIRMATION")
           qWin == IF "SENT_EOF" \in c.closes THEN 0 ELSE Total(rest, "WINDOW_ADJUST")
           xWin == IF "SENT_EOF" \in x.c.closes THEN 0 ELSE Total(rest, "WINDOW_ADJUST")
           sData == Total(s, "DATA")
           sConf == Total(s, "OPEN_CONFIRMATION")
           sWin == IF "SENT_EOF" \in d.closes THEN 0 ELSE Total(s, "WINDOW_ADJUST")
           tWin == IF "SENT_EOF" \in d.closes THEN 0 ELSE Total(t, "WINDOW_ADJUST")
<1>1. x.c \in Channel /\ x.out \in Seq(Body) /\ rest \in Seq(Packet) /\ w \in Channel
  BY DEF Flow, WorkRec, Started
<1>2. x.out \in Seq(Packet) /\ Total(x.out, "OPEN_CONFIRMATION") = 0
  BY <1>1, BodySeq
<1>3. /\ oData \in Nat /\ oWin \in Nat /\ qData \in Nat /\ Total(rest, "WINDOW_ADJUST") \in Nat
      /\ qConf \in Nat /\ rData \in Nat /\ Total(r, "WINDOW_ADJUST") \in Nat /\ rConf \in Nat
      /\ sData \in Nat /\ Total(s, "WINDOW_ADJUST") \in Nat /\ sConf \in Nat
  BY <1>1, <1>2, TotalNat
<1>4. /\ Total(t, "DATA") = sData + oData
      /\ Total(t, "WINDOW_ADJUST") = Total(s, "WINDOW_ADJUST") + oWin
      /\ Total(t, "OPEN_CONFIRMATION") = sConf
  <2>1. /\ Total(t, "DATA") = sData + oData
        /\ Total(t, "WINDOW_ADJUST") = Total(s, "WINDOW_ADJUST") + oWin
        /\ Total(t, "OPEN_CONFIRMATION") = sConf + Total(x.out, "OPEN_CONFIRMATION")
    BY <1>2, TotalConcat
  <2> HIDE DEF t, sConf
  <2> QED BY <1>2, <1>3, <2>1
<1>5. /\ cRem \in Nat /\ dRem \in Nat /\ wRem \in Nat /\ xRem \in Nat
      /\ cLoc \in Int /\ dLoc \in Int /\ wLoc \in Int /\ xLoc \in Int
  BY <1>1 DEF Channel
<1>6. /\ wRem = xRem + oData /\ xLoc = wLoc + oWin
      /\ "SENT_EOF" \in c.closes => "SENT_EOF" \in x.c.closes
  BY DEF Flow, Started
<1>7. rWin \in Nat /\ qWin \in Nat /\ sWin \in Nat /\ tWin \in Nat /\ xWin \in Nat
  BY <1>3, <1>4
<1>8. wRem + qConf + qWin = cRem + rConf + rWin /\ wLoc + rData = cLoc + qData
  BY DEF Started, Given
<1>9. /\ Claim(c, r, s) = cRem + sData + rConf + rWin
      /\ Claim(x.c, rest, t) = xRem + (sData + oData) + qConf + xWin
      /\ Claim(d, s, r) = dRem + rData + sConf + sWin
      /\ Claim(d, t, rest) = dRem + qData + sConf + tWin
  BY <1>4 DEF Claim
<1>10. /\ cRem + sData + rConf + rWin <= dLoc
       /\ "SENT_EOF" \notin c.closes => cRem + sData + rConf + rWin = dLoc
       /\ dRem + rData + sConf + sWin <= cLoc
       /\ "SENT_EOF" \notin d.closes => dRem + rData + sConf + sWin = cLoc
  BY <1>9 DEF Covered
<1>11. /\ xWin <= qWin /\ ("SENT_EOF" \notin x.c.closes => xWin = qWin)
       /\ tWin <= sWin + oWin /\ ("SENT_EOF" \notin d.closes => tWin = sWin + oWin)
  BY <1>3, <1>4, <1>6
<1> HIDE DEF t, cRem, wRem, xRem, dRem, cLoc, wLoc, xLoc, dLoc, oData, oWin, rData, rConf, rWin,
             qData, qConf, qWin, xWin, sData, sConf, sWin, tWin
<1>12. /\ xRem + (sData + oData) + qConf + xWin <= dLoc
       /\ "SENT_EOF" \notin x.c.closes => xRem + (sData + oData) + qConf + xWin = dLoc
  <2>1. /\ sData \in Nat /\ oData \in Nat /\ qConf \in Nat /\ rConf \in Nat
        /\ cRem \in Nat /\ wRem \in Nat /\ xRem \in Nat /\ dLoc \in Int
        /\ rWin \in Nat /\ qWin \in Nat /\ xWin \in Nat
    BY <1>3, <1>5, <1>7
  <2>2. xRem + (sData + oData) + qConf + xWin <= cRem + sData + rConf + rWin
    BY <1>6, <1>8, <1>11, <2>1
  <2>3. "SENT_EOF" \notin x.c.closes
        => xRem + (sData + oData) + qConf + xWin = cRem + sData + rConf + rWin
    BY <1>6, <1>8, <1>11, <2>1
  <2>4. xRem + (sData + oData) + qConf + xWin \in Int /\ cRem + sData + rConf + rWin \in Int
    BY <2>1
  <2> DEFINE new == xRem + (sData + oData) + qConf + xWin
             old == cRem + sData + rConf + rWin
  <2>5. new <= old /\ new \in Int /\ old \in Int /\ dLoc \in Int
    BY <2>1, <2>2, <2>4
  <2>6. "SENT_EOF" \notin x.c.closes => "SENT_EOF" \notin c.closes /\ new = old
    BY <1>6, <2>3
  <2>7. old <= dLoc /\ ("SENT_EOF" \notin c.closes => old = dLoc)
    BY <1>10
  <2> HIDE DEF new, old
  <2>8. new <= dLoc /\ ("SENT_EOF" \notin x.c.closes => new = dLoc)
    BY <2>5, <2>6, <2>7
  <2> QED BY <2>8 DEF new
<1>13. /\ dRem + qData + sConf + tWin <= xLoc
       /\ "SENT_EOF" \notin d.closes => dRem + qData + sConf + tWin = xLoc
  BY <1>3, <1>5, <1>6, <1>7, <1>8, <1>10, <1>11
<1> QED BY <1>9, <1>12, <1>13 DEF Covered, t, xLoc, dLoc

\* What else a step may change.
Rest ==
    /\ throttled' \in [Ends -> BOOLEAN] /\ error' \in [Ends -> BOOLEAN]
    /\ written' \in [Ends -> Nat] /\ delivered' \in [Ends -> Nat]
    /\ setup' \in Setup /\ setup'.fixed = setup.fixed /\ setup'.main = setup.main

\* The end of a handler.
LEMMA CommitIs ==
    ASSUME TypeOK, NEW e \in Ends, NEW x \in WorkRec, NEW rest \in Seq(Packet), Commit(e, x, rest)
    PROVE  /\ chan' \in [Ends -> Channel] /\ net' \in [Ends -> Seq(Packet)]
           /\ chan'[e] = x.c /\ chan'[Peer(e)] = chan[Peer(e)]
           /\ net'[e] = rest /\ net'[Peer(e)] = net[Peer(e)] \o x.out
<1>1. x.c \in Channel /\ x.out \in Seq(Packet)
  BY BodySeq DEF WorkRec
<1>2. Peer(e) \in Ends /\ Peer(e) # e
  BY PeerIs
<1>3. chan' = [chan EXCEPT ![e] = x.c] /\ net' = [net EXCEPT ![e] = rest, ![Peer(e)] = @ \o x.out]
  BY DEF Commit
<1>4. chan \in [Ends -> Channel] /\ net \in [Ends -> Seq(Packet)]
  BY DEF TypeOK
<1> DEFINE s == net[Peer(e)] \o x.out
<1>5. s \in Seq(Packet)
  <2>1. net[Peer(e)] \in Seq(Packet)
    BY <1>2, <1>4, Zenon
  <2> QED BY <1>1, <2>1
<1>6. net' = [net EXCEPT ![e] = rest, ![Peer(e)] = s]
  BY <1>2, <1>3, <1>4
<1> HIDE DEF s
<1>7. chan' \in [Ends -> Channel] /\ chan'[e] = x.c /\ chan'[Peer(e)] = chan[Peer(e)]
  BY <1>1, <1>2, <1>3, <1>4
<1>8. net' \in [Ends -> Seq(Packet)] /\ net'[e] = rest /\ net'[Peer(e)] = s
  BY <1>2, <1>4, <1>5, <1>6
<1> QED BY <1>7, <1>8 DEF s

\* A handler of an end whose channel is open, or is just being confirmed.
LEMMA FlowCommit ==
    ASSUME FlowInv, Rest, NEW e \in Ends, NEW w, NEW x, NEW rest \in Seq(Body),
           Started(chan[e], net[e], w, rest), Flow(w, x), ~w.halfopen, Commit(e, x, rest),
           chan[e].phase = "live", chan["acceptor"].phase # "none",
           e = "acceptor" /\ Half => rest = <<>>,
           Forwarded => Drained(x.c)
    PROVE  FlowInv'
<1> DEFINE p == Peer(e)
<1>1. x \in WorkRec /\ x.c \in Channel /\ x.out \in Seq(Body) /\ x.c.phase # "none" /\ ~x.c.halfopen
  BY DEF Flow, WorkRec
<1>2. TypeOK /\ Opening /\ Ledger /\ Rooms
  BY DEF FlowInv
<1>3. chan \in [Ends -> Channel] /\ net \in [Ends -> Seq(Packet)]
  BY <1>2 DEF TypeOK
<1>4. p \in Ends /\ p # e /\ Peer(p) = e /\ \A f \in Ends : f = e \/ f = p
  BY PeerIs
<1>5. rest \in Seq(Packet)
  BY BodySeq
<1>6. /\ chan' \in [Ends -> Channel] /\ net' \in [Ends -> Seq(Packet)]
      /\ chan'[e] = x.c /\ chan'[p] = chan[p]
      /\ net'[e] = rest /\ net'[p] = net[p] \o x.out
  BY <1>1, <1>2, <1>5, CommitIs
<1>7. e \in {"opener", "acceptor"} /\ (e = "opener" => p = "acceptor") /\ (e = "acceptor" => p = "opener")
  BY DEF Ends, Peer
<1>8. TypeOK'
  BY <1>6 DEF TypeOK, Rest
<1>9. chan'["acceptor"].phase # "none" /\ ~chan'["acceptor"].halfopen
  BY <1>1, <1>2, <1>6, <1>7 DEF Opening
<1>10. e = "opener" => ~Half'
  BY <1>1, <1>6 DEF Half
<1>11. e = "acceptor" => Half' = Half
  BY <1>6, <1>7 DEF Half
<1> HIDE DEF p
<1>12. net[p] \in Seq(Body) => net'[p] \in Seq(Body)
  BY <1>1, <1>6
<1>13. Opening'
  <2>1. \A f \in Ends : chan'[f].phase = "none" => chan'[f] = Absent
    BY <1>1, <1>2, <1>4, <1>6 DEF Opening
  <2>2. chan'["opener"].phase # "none"
    <3>1. chan["opener"].phase # "none"
      BY <1>2 DEF Opening
    <3> QED BY <1>1, <1>6, <1>7, <3>1
  <2>3. CASE ~Half'
    <3>1. net[p] \in Seq(Body)
      <4>1. CASE ~Half
        BY <1>2, <1>4, <4>1 DEF Opening
      <4>2. CASE Half
        <5>1. e = "opener"
          BY <1>7, <1>11, <2>3, <4>2
        <5>2. net["acceptor"] = <<>>
          BY <1>2, <4>2 DEF Opening, Asking, Refused, Confirmed
        <5>3. <<>> \in Seq(Body)
          OBVIOUS
        <5> QED BY <1>7, <5>1, <5>2, <5>3
      <4> QED BY <4>1, <4>2
    <3>2. \A f \in Ends : net'[f] \in Seq(Body)
      BY <1>4, <1>6, <1>12, <3>1
    <3> QED BY <1>9, <2>1, <2>2, <2>3, <3>2 DEF Opening
  <2>4. CASE Half'
    <3>1. e = "acceptor" /\ p = "opener" /\ Half
      BY <1>7, <1>10, <1>11, <2>4
    <3>2. Confirmed /\ chan["opener"].remwindow = 0 /\ chan["opener"].inbuf = 0
          /\ chan["opener"].chanreq = <<>>
      BY <1>2, <3>1 DEF Opening, Asking, Refused
    <3>3. net'["opener"] # <<>> /\ Head(net'["opener"]) = Head(net["opener"])
          /\ Tail(net'["opener"]) \in Seq(Body)
      <4> DEFINE s == net["opener"]
      <4>1. s \in Seq(Packet) /\ s # <<>> /\ Tail(s) \in Seq(Body)
        BY <1>3, <3>2 DEF Confirmed, Ends
      <4>2. x.out \in Seq(Packet)
        BY <1>1, BodySeq
      <4>3. net'["opener"] = s \o x.out
        BY <1>6, <3>1
      <4> HIDE DEF s
      <4>4. s \o x.out # <<>> /\ Head(s \o x.out) = Head(s) /\ Tail(s \o x.out) = Tail(s) \o x.out
        BY <4>1, <4>2
      <4>5. Tail(s) \o x.out \in Seq(Body)
        BY <1>1, <4>1
      <4> QED BY <4>3, <4>4, <4>5 DEF s
    <3>4. chan'["opener"] = chan["opener"] /\ net'["acceptor"] = <<>>
      BY <1>6, <3>1
    <3>5. Confirmed'
      BY <1>9, <3>2, <3>3, <3>4 DEF Confirmed
    <3> QED BY <1>9, <2>1, <2>2, <2>4, <3>2, <3>4, <3>5 DEF Opening
  <2> QED BY <2>3, <2>4
<1>14. Ledger'
  <2>1. /\ Covered(chan[e], net[e], net[p], chan[p].locwindow)
        /\ Covered(chan[p], net[p], net[e], chan[e].locwindow)
    BY <1>2, <1>4 DEF Ledger, p
  <2>2. chan[e] \in Channel /\ chan[p] \in Channel /\ net[e] \in Seq(Packet) /\ net[p] \in Seq(Packet)
    BY <1>3, <1>4
  <2>3. /\ Covered(x.c, rest, net[p] \o x.out, chan[p].locwindow)
        /\ Covered(chan[p], net[p] \o x.out, rest, x.c.locwindow)
    BY <2>1, <2>2, LedgerKept
  <2>4. /\ Covered(chan'[e], net'[e], net'[p], chan'[p].locwindow)
        /\ Covered(chan'[p], net'[p], net'[e], chan'[e].locwindow)
    BY <1>6, <2>3
  <2>5. ASSUME NEW f \in Ends PROVE Covered(chan'[f], net'[f], net'[Peer(f)], chan'[Peer(f)].locwindow)
    BY <1>4, <2>4 DEF p
  <2> QED BY <1>9, <2>5 DEF Ledger
<1>15. Rooms'
  <2>1. setup.fixed = 0 => Roomy(x.c) /\ Roomy(chan[p])
    BY <1>2, <1>4 DEF Rooms, Flow
  <2> QED BY <1>4, <1>6, <2>1 DEF Rooms, Rest
<1>16. Forwarded' => \A f \in Ends : Drained(chan'[f])
  <2>1. Forwarded => Drained(x.c) /\ Drained(chan[p])
    BY <1>4 DEF FlowInv
  <2>2. Forwarded' = Forwarded
    BY DEF Forwarded, Rest
  <2> QED BY <1>4, <1>6, <2>1, <2>2
<1> QED BY <1>8, <1>13, <1>14, <1>15, <1>16 DEF FlowInv

\* A call of the opener while it waits for the answer to CHANNEL_OPEN.
LEMMA FlowHalf ==
    ASSUME FlowInv, Rest, Half, NEW x, Flow(chan["opener"], x), Call("opener", x),
           Forwarded => Drained(x.c)
    PROVE  FlowInv'
<1> DEFINE c == chan["opener"]
           d == chan["acceptor"]
<1>2. TypeOK /\ Opening /\ Ledger /\ Rooms
  BY DEF FlowInv
<1>3. chan \in [Ends -> Channel] /\ net \in [Ends -> Seq(Packet)] /\ "opener" \in Ends /\ "acceptor" \in Ends
  BY <1>2 DEF TypeOK, Ends
<1>4. c \in Channel /\ d \in Channel /\ net["opener"] \in Seq(Packet) /\ net["acceptor"] \in Seq(Packet)
  BY <1>3
<1>5. c.phase = "live" /\ c.halfopen /\ c.remwindow = 0 /\ c.inbuf = 0 /\ c.chanreq = <<>>
  BY <1>2 DEF Opening, Half
<1>1. /\ x \in WorkRec /\ x.c \in Channel /\ x.out = <<>> /\ x.c.phase = "live" /\ x.c.halfopen
      /\ x.c.inbuf = 0 /\ x.c.chanreq = <<>>
  BY <1>5 DEF Flow, WorkRec
<1>6. x.c.remwindow = 0 /\ x.c.locwindow = c.locwindow
  BY <1>1, <1>4, <1>5, TotalSmall DEF Flow, Channel
<1>7. Peer("opener") = "acceptor" /\ Peer("acceptor") = "opener"
  BY DEF Peer
<1>8. /\ chan' \in [Ends -> Channel] /\ net' \in [Ends -> Seq(Packet)]
      /\ chan'["opener"] = x.c /\ chan'["acceptor"] = d
      /\ net'["opener"] = net["opener"] /\ net'["acceptor"] = net["acceptor"]
  <2>1. Commit("opener", x, net["opener"])
    BY DEF Call
  <2>4. /\ chan' \in [Ends -> Channel] /\ net' \in [Ends -> Seq(Packet)]
        /\ chan'["opener"] = x.c /\ chan'[Peer("opener")] = chan[Peer("opener")]
        /\ net'["opener"] = net["opener"] /\ net'[Peer("opener")] = net[Peer("opener")] \o x.out
    BY <1>1, <1>2, <1>3, <1>4, <2>1, CommitIs, Zenon
  <2>2. /\ chan' \in [Ends -> Channel] /\ net' \in [Ends -> Seq(Packet)]
        /\ chan'["opener"] = x.c /\ chan'["acceptor"] = d
        /\ net'["opener"] = net["opener"] /\ net'["acceptor"] = net["acceptor"] \o x.out
    BY <1>7, <2>4
  <2>3. net["acceptor"] \o <<>> = net["acceptor"]
    BY <1>4
  <2> QED BY <1>1, <2>2, <2>3
<1>9. TypeOK'
  BY <1>8 DEF TypeOK, Rest
<1>10. Half'
  BY <1>1, <1>8 DEF Half
<1>11. Opening'
  <2>1. (Asking \/ Refused \/ Confirmed)'
    <3>1. Asking \/ Refused \/ Confirmed
      BY <1>2 DEF Opening
    <3> QED BY <1>8, <3>1 DEF Asking, Refused, Confirmed
  <2>2. \A f \in Ends : chan'[f].phase = "none" => chan'[f] = Absent
    BY <1>1, <1>2, <1>8 DEF Opening, Ends
  <2> QED BY <1>1, <1>2, <1>6, <1>8, <1>10, <2>1, <2>2 DEF Opening
<1>12. Ledger'
  <2>1. CASE d.phase = "none"
    BY <1>2, <1>6, <1>8, <2>1 DEF Ledger, Ends
  <2>2. CASE d.phase # "none"
    <3>1. /\ Covered(c, net["opener"], net["acceptor"], d.locwindow)
          /\ Covered(d, net["acceptor"], net["opener"], c.locwindow)
      BY <1>2, <1>3, <1>7, <2>2 DEF Ledger
    <3>2. Started(c, net["opener"], c, net["opener"])
      BY <1>4 DEF Started
    <3>3. /\ Covered(x.c, net["opener"], net["acceptor"] \o x.out, d.locwindow)
          /\ Covered(d, net["acceptor"] \o x.out, net["opener"], x.c.locwindow)
      BY <1>4, <3>1, <3>2, LedgerKept
    <3>4. net["acceptor"] \o x.out = net["acceptor"]
      BY <1>1, <1>4
    <3>5. /\ Covered(chan'["opener"], net'["opener"], net'["acceptor"], chan'["acceptor"].locwindow)
          /\ Covered(chan'["acceptor"], net'["acceptor"], net'["opener"], chan'["opener"].locwindow)
      BY <1>8, <3>3, <3>4
    <3>6. ASSUME NEW f \in Ends PROVE Covered(chan'[f], net'[f], net'[Peer(f)], chan'[Peer(f)].locwindow)
      BY <1>7, <3>5 DEF Ends
    <3> QED BY <1>8, <2>2, <3>6 DEF Ledger
  <2> QED BY <2>1, <2>2
<1>13. Rooms'
  BY <1>2, <1>8 DEF Rooms, Flow, Rest, Ends
<1>14. Forwarded' => \A f \in Ends : Drained(chan'[f])
  BY <1>8 DEF FlowInv, Ends, Forwarded, Rest
<1> QED BY <1>9, <1>11, <1>12, <1>13, <1>14 DEF FlowInv

\* Steps that neither buffer output nor open the window for it.
Tame(c, d) ==
    d.phase = "live" =>
        /\ c.phase = "live" /\ d.halfopen = c.halfopen /\ d.remwindow = c.remwindow
        /\ d.outbuffer = c.outbuffer \/ d.outbuffer = 0

\* Tame steps add up, and keep a drained channel drained.
LEMMA TameIs ==
    ASSUME NEW c, NEW d, NEW f
    PROVE  /\ Tame(c, d) /\ Tame(d, f) => Tame(c, f)
           /\ Tame(c, d) /\ Drained(c) => Drained(d)
           /\ Tame(c, c)
BY DEF Tame, Drained

\* Closing adds no output.
LEMMA TameCheckClose ==
    ASSUME NEW x \in WorkRec
    PROVE  Tame(x.c, ssh2_channel_check_close(x).c)
<1> DEFINE y == IF want_close(x.c) /\ x.c.chanreq = <<>> /\ "SENT_CLOSE" \notin x.c.closes
                THEN Closed(Push(x, Pkt("CLOSE", 0)), {"SENT_EOF", "SENT_CLOSE"})
                ELSE x
<1>1. x.c \in Channel
  BY DEF WorkRec
<1>2. DOMAIN y = {"c", "out"} /\ DOMAIN y.c = DOMAIN x.c /\ Tame(x.c, y.c)
  BY <1>1 DEF WorkRec, Closed, Push, With, Channel, Tame
<1>3. Tame(y.c, ssh2_channel_destroy(y).c)
  <2> HIDE DEF y
  <2> QED BY <1>1, <1>2 DEF ssh2_channel_destroy, With, Channel, Tame
<1>4. ssh2_channel_check_close(x) \in {x, ssh2_channel_destroy(y), y}
  BY DEF ssh2_channel_check_close
<1> HIDE DEF y
<1> QED BY <1>2, <1>3, <1>4, TameIs

\* EOF adds no output.
LEMMA TameTryEof ==
    ASSUME NEW x \in WorkRec
    PROVE  Tame(x.c, ssh2_channel_try_eof(x).c)
<1>1. x.c \in Channel
  BY DEF WorkRec
<1>2. EofSent(x) \in WorkRec /\ Tame(x.c, EofSent(x).c)
  <2> DEFINE q == Pkt("EOF", 0)
             c == [x.c EXCEPT !.closes = @ \cup {"SENT_EOF"}, !.pending_eof = FALSE]
  <2>1. c \in Channel
    BY <1>1 DEF Channel, Closes
  <2>2. Push(x, q) \in WorkRec
    BY PktBody, PushIs
  <2>3. Tame(x.c, c)
    BY <1>1 DEF Channel, Tame
  <2>4. EofSent(x) = With(Push(x, q), c)
    BY DEF EofSent
  <2> HIDE DEF c, q
  <2> QED BY <2>1, <2>2, <2>3, <2>4, WithIs
<1> QED BY <1>2, TameCheckClose, TameIs DEF ssh2_channel_try_eof

\* An EOF from the user adds no output.
LEMMA TameWriteEof ==
    ASSUME NEW x \in WorkRec
    PROVE  Tame(x.c, ssh2channel_write_eof(x).c)
<1> DEFINE c == [x.c EXCEPT !.pending_eof = TRUE]
<1>1. x.c \in Channel
  BY DEF WorkRec
<1>2. c \in Channel /\ Tame(x.c, c)
  BY <1>1 DEF Channel, Tame
<1> HIDE DEF c
<1>3. With(x, c) \in WorkRec /\ With(x, c).c = c
  BY <1>2, WithIs
<1>4. Tame(x.c, ssh2_channel_try_eof(With(x, c)).c)
  BY <1>2, <1>3, TameTryEof, TameIs
<1> QED BY <1>4, TameIs DEF ssh2channel_write_eof, c

\* Freezing adds no output.
LEMMA TameThrottle ==
    ASSUME NEW x \in WorkRec, NEW all
    PROVE  Tame(x.c, ssh2_channel_check_throttle(all, x).c)
<1>1. x.c \in Channel
  BY DEF WorkRec
<1> QED BY <1>1 DEF ssh2_channel_check_throttle, WorkRec, With, Channel, Tame

\* Once ssh2_try_send has run, what is left in the buffer waits for window.
LEMMA DrainedTrySend ==
    ASSUME NEW w \in Channel, NEW x, Flow(w, x), x.c.halfopen => Drained(x.c)
    PROVE  Drained(ssh2_try_send(x).c)
<1> DEFINE n == Sendable(x.c)
           y == DataSent(x, n)
<1>1. x.c \in Channel
  BY DEF Flow, WorkRec
<1>2. /\ n \in Nat /\ n <= x.c.remwindow /\ n <= x.c.outbuffer /\ (x.c.halfopen => n = 0)
      /\ ~x.c.halfopen /\ x.c.outbuffer - n > 0 => x.c.remwindow - n = 0
  BY <1>1, SendableIs
<1>3. Flow(w, y)
  BY <1>2, FlowDataSent
<1>4. y \in WorkRec
  BY <1>3 DEF Flow
<1>5. ssh2_try_send(x) = IF y.c.outbuffer = 0 /\ y.c.pending_eof THEN ssh2_channel_try_eof(y) ELSE y
  BY DEF ssh2_try_send, Sendable
<1> HIDE DEF n
<1>6. Drained(y.c)
  <2>1. /\ y.c.outbuffer = x.c.outbuffer - n /\ y.c.remwindow = x.c.remwindow - n
        /\ y.c.halfopen = x.c.halfopen /\ y.c.phase = x.c.phase
    BY <1>1 DEF DataSent, Channel
  <2>2. x.c.outbuffer \in Nat /\ x.c.remwindow \in Nat
    BY <1>1 DEF Channel
  <2> HIDE DEF y
  <2>3. CASE ~x.c.halfopen
    BY <1>2, <2>1, <2>2, <2>3 DEF Drained
  <2>4. CASE x.c.halfopen
    BY <1>2, <2>1, <2>2, <2>4 DEF Drained
  <2> QED BY <2>3, <2>4
<1> HIDE DEF y
<1> QED BY <1>4, <1>5, <1>6, TameTryEof, TameIs

\* A window adjustment leaves output only without window.
LEMMA DrainedUnthrottle ==
    ASSUME NEW w \in Channel, NEW x, Flow(w, x), NEW all \in BOOLEAN,
           ~x.c.halfopen, "SENT_EOF" \notin x.c.closes
    PROVE  Drained(ssh2_try_send_and_unthrottle(all, x).c)
<1> DEFINE y == ssh2_try_send(x)
<1>1. Drained(y.c) /\ y \in WorkRec
  BY DrainedTrySend, FlowTrySend DEF Flow
<1> HIDE DEF y
<1>2. Drained(ssh2_channel_check_throttle(all, y).c)
  BY <1>1, TameThrottle, TameIs
<1> QED BY <1>1, <1>2 DEF ssh2_try_send_and_unthrottle, y

\* So does new data.
LEMMA DrainedWrite ==
    ASSUME NEW w \in Channel, NEW x, Flow(w, x), NEW n \in Nat, ~x.c.halfopen
    PROVE  Drained(ssh2channel_write(x, n).c)
<1> DEFINE m == x.c.outbuffer + n
           c == [x.c EXCEPT !.outbuffer = m]
<1>1. x \in WorkRec /\ x.c \in Channel
  BY DEF Flow, WorkRec
<1>2. Alike(x.c, c) /\ c \in Channel
  <2>0. x.c.outbuffer \in Nat
    BY <1>1 DEF Channel
  <2>1. m \in Nat
    BY <2>0
  <2> HIDE DEF m
  <2>2. c \in Channel
    BY <1>1, <2>1, Zenon DEF Channel
  <2> QED BY <1>1, <2>2 DEF Channel, Alike
<1> HIDE DEF c
<1>3. Flow(w, With(x, c)) /\ ~With(x, c).c.halfopen
  BY <1>1, <1>2, FlowAlike, WithIs DEF Alike
<1>4. Drained(ssh2_try_send(With(x, c)).c)
  BY <1>3, DrainedTrySend
<1> QED BY <1>4 DEF ssh2channel_write, c, m

\* The end of the replies, of the output and of the channel.
LEMMA TameCloseArrived ==
    ASSUME NEW w \in Channel, NEW x, Flow(w, x), ~x.c.halfopen, NEW e \in Ends, throttled[e] \in BOOLEAN
    PROVE  Tame(x.c, CloseArrived(e, x).c)
<1> DEFINE u == Closed(x, {"RCVD_EOF"})
           y == IF "RCVD_EOF" \in x.c.closes THEN x ELSE chan_send_eof(e, u)
           r == RepliesOver(y)
           o == With(r, [r.c EXCEPT !.outbuffer = 0, !.abandoned = @ \/ r.c.outbuffer > 0])
           z == OutputOver(throttled[e], r)
           v == Closed(z, {"RCVD_CLOSE"})
<1>1. x \in WorkRec /\ x.c \in Channel
  BY DEF Flow, WorkRec
<1>2. \A f \in {"RCVD_EOF", "RCVD_CLOSE"} : \A q \in WorkRec : Tame(q.c, Closed(q, {f}).c)
  BY DEF Closed, With, WorkRec, Channel, Tame
<1>3. Flow(w, u) /\ u \in WorkRec /\ Tame(x.c, u.c)
  BY <1>1, <1>2, FlowClosed DEF Flow
<1> HIDE DEF u
<1>4. Tame(u.c, chan_send_eof(e, u).c)
  BY <1>3, TameWriteEof, TameIs DEF chan_send_eof
<1>5. Flow(w, y) /\ Tame(x.c, y.c)
  BY <1>3, <1>4, FlowSendEof, TameIs
<1>6. y \in WorkRec /\ y.c \in Channel /\ ~y.c.halfopen
  BY <1>5 DEF Flow, WorkRec
<1> HIDE DEF y
<1>7. Flow(w, r) /\ Tame(y.c, r.c)
  <2>1. Flow(w, r)
    BY <1>5, <1>6, FlowRepliesOver
  <2>2. Tame(y.c, r.c)
    BY <1>6 DEF RepliesOver, RequestsAnswered, With, WorkRec, Channel, Tame
  <2> QED BY <2>1, <2>2
<1>8. r \in WorkRec /\ r.c \in Channel
  BY <1>7 DEF Flow, WorkRec
<1> HIDE DEF r
<1>9. Flow(w, z) /\ Tame(r.c, z.c)
  <2>1. Flow(w, z)
    BY <1>7, FlowOutputOver
  <2> DEFINE c == [r.c EXCEPT !.outbuffer = 0, !.abandoned = @ \/ r.c.outbuffer > 0]
  <2>2. c \in Channel /\ Tame(r.c, c) /\ Alike(r.c, c)
    BY <1>8 DEF Channel, Tame, Alike
  <2> HIDE DEF c
  <2>3. o \in WorkRec /\ Tame(r.c, o.c) /\ Flow(w, o)
    BY <1>7, <1>8, <2>2, WithIs, FlowAlike DEF c
  <2> HIDE DEF o
  <2>4. ssh2channel_write_eof(o) \in WorkRec /\ Tame(r.c, ssh2channel_write_eof(o).c)
    BY <2>3, FlowWriteEof, TameWriteEof, TameIs DEF Flow
  <2>5. Tame(r.c, ssh2_channel_check_throttle(throttled[e], ssh2channel_write_eof(o)).c)
    BY <2>4, TameThrottle, TameIs
  <2>6. Tame(r.c, z.c)
    BY <2>5, TameIs DEF OutputOver, o
  <2> QED BY <2>1, <2>6
<1>10. z \in WorkRec
  BY <1>9 DEF Flow
<1> HIDE DEF z
<1>11. Flow(w, v) /\ v \in WorkRec /\ Tame(z.c, v.c)
  BY <1>2, <1>9, <1>10, FlowClosed DEF Flow
<1> HIDE DEF v
<1>12. Tame(z.c, ssh2_channel_check_close(v).c)
  BY <1>11, TameCheckClose, TameIs
<1>13. Tame(x.c, z.c)
  BY <1>5, <1>7, <1>9, TameIs
<1> QED BY <1>12, <1>13, TameIs DEF CloseArrived, v, z, r, y, u

-----------------------------------------------------------------------------
(* The actions and the windows. *)

\* A handler begins with its accounts in balance.
LEMMA FlowWork ==
    ASSUME FlowInv, NEW e \in Ends, chan[e].phase = "live"
    PROVE  /\ Flow(chan[e], Work(e)) /\ Work(e).c = chan[e] /\ Work(e).out = <<>>
           /\ chan[e] \in Channel /\ Work(e) \in WorkRec
<1>1. chan[e] \in Channel /\ (setup.fixed = 0 => Roomy(chan[e]))
  BY DEF FlowInv, TypeOK, Rooms
<1>2. Work(e).c = chan[e] /\ Work(e).out = <<>> /\ <<>> \in Seq(Body)
  BY DEF Work
<1>3. Work(e) \in WorkRec
  BY <1>1, <1>2 DEF Work, WorkRec
<1>4. Total(<<>>, "DATA") = 0 /\ Total(<<>>, "WINDOW_ADJUST") = 0
  BY TotalSmall
<1>5. chan[e].remwindow \in Int /\ chan[e].locwindow \in Int
  BY <1>1 DEF Channel
<1>6. Flow(chan[e], Work(e))
  BY <1>1, <1>2, <1>3, <1>4, <1>5 DEF Flow
<1> QED BY <1>1, <1>2, <1>3, <1>6

\* The end of a call that takes no packet.
LEMMA FlowCall ==
    ASSUME FlowInv, Rest, NEW e \in Ends, chan[e].phase = "live", NEW x, Flow(chan[e], x), Call(e, x),
           Forwarded => Drained(x.c)
    PROVE  FlowInv'
<1>1. Opening /\ TypeOK
  BY DEF FlowInv
<1>2. chan[e] \in Channel /\ net[e] \in Seq(Packet) /\ e \in {"opener", "acceptor"}
  BY <1>1 DEF TypeOK, Ends
<1>3. CASE chan[e].halfopen
  <2>1. e = "opener" /\ Half
    BY <1>1, <1>2, <1>3 DEF Opening, Half
  <2> QED BY <2>1, FlowHalf
<1>4. CASE ~chan[e].halfopen
  <2>1. chan["acceptor"].phase # "none"
    BY <1>1, <1>2, <1>4 DEF Opening, Half
  <2>2. net[e] \in Seq(Body) /\ (e = "acceptor" /\ Half => net[e] = <<>>)
    <3>1. CASE ~Half
      BY <1>1, <2>1, <3>1 DEF Opening
    <3>2. CASE Half
      <4>1. e = "acceptor"
        BY <1>2, <1>4, <3>2 DEF Half
      <4>2. net["acceptor"] = <<>>
        BY <1>1, <2>1, <3>2 DEF Opening, Asking, Refused, Confirmed
      <4>3. <<>> \in Seq(Body)
        OBVIOUS
      <4> QED BY <4>1, <4>2, <4>3
    <3> QED BY <3>1, <3>2
  <2>3. Started(chan[e], net[e], chan[e], net[e])
    BY <1>2 DEF Started
  <2>4. Commit(e, x, net[e])
    BY DEF Call
  <2> QED BY <1>4, <2>1, <2>2, <2>3, <2>4, FlowCommit
<1> QED BY <1>3, <1>4

\* A packet that arrives at an end with the channel open.
LEMMA Arriving ==
    ASSUME FlowInv, NEW e \in Ends, net[e] # <<>>, Expected(e)
    PROVE  /\ ~Half /\ chan["acceptor"].phase # "none" /\ chan[e].phase = "live" /\ ~chan[e].halfopen
           /\ net[e] \in Seq(Packet) /\ Head(net[e]) \in Body /\ Tail(net[e]) \in Seq(Body)
           /\ Tail(net[e]) \in Seq(Packet) /\ Head(net[e]).n \in Nat
           /\ \A type : Total(net[e], type)
                  = (IF Head(net[e]).type = type THEN Head(net[e]).n ELSE 0) + Total(Tail(net[e]), type)
<1>1. Opening /\ TypeOK
  BY DEF FlowInv
<1>2. chan[e].phase = "live" /\ ~chan[e].halfopen /\ e \in {"opener", "acceptor"} /\ net[e] \in Seq(Packet)
  BY <1>1 DEF Expected, Ends, TypeOK
<1>3. chan["acceptor"].phase # "none"
  BY <1>1, <1>2 DEF Opening, Half
<1>4. ~Half
  BY <1>1, <1>2, <1>3 DEF Opening, Half, Asking, Refused, Confirmed
<1>5. net[e] \in Seq(Body)
  BY <1>1, <1>3, <1>4 DEF Opening
<1>6. Head(net[e]) \in Body /\ Tail(net[e]) \in Seq(Body)
  BY <1>5
<1>7. Head(net[e]).n \in Nat
  BY <1>6 DEF Body, Packet
<1>8. Tail(net[e]) \in Seq(Packet)
  BY <1>6, BodySeq
<1> QED BY <1>2, <1>3, <1>4, <1>6, <1>7, <1>8, TotalTail

\* The end of a handler of a packet.
LEMMA FlowHandled ==
    ASSUME FlowInv, Rest, NEW e \in Ends, net[e] # <<>>, Expected(e), NEW w, NEW x,
           Started(chan[e], net[e], w, Tail(net[e])), ~w.halfopen, Flow(w, x), Handled(e, x),
           Forwarded => Drained(x.c)
    PROVE  FlowInv'
BY Arriving, FlowCommit DEF Handled

\* Most packets have no part in the accounts.
LEMMA StartedPlain ==
    ASSUME FlowInv, NEW e \in Ends, net[e] # <<>>, Expected(e),
           Head(net[e]).type \notin {"DATA", "OPEN_CONFIRMATION"},
           Head(net[e]).type = "WINDOW_ADJUST" => "SENT_EOF" \in chan[e].closes
    PROVE  Started(chan[e], net[e], chan[e], Tail(net[e]))
<1>1. chan[e] \in Channel
  BY DEF FlowInv, TypeOK
<1>2. /\ Tail(net[e]) \in Seq(Packet)
      /\ \A type : Total(net[e], type)
             = (IF Head(net[e]).type = type THEN Head(net[e]).n ELSE 0) + Total(Tail(net[e]), type)
  BY Arriving
<1>3. /\ Total(Tail(net[e]), "DATA") \in Nat /\ Total(Tail(net[e]), "OPEN_CONFIRMATION") \in Nat
      /\ Total(Tail(net[e]), "WINDOW_ADJUST") \in Nat
  BY <1>2, TotalNat
<1>4. /\ Total(net[e], "DATA") = Total(Tail(net[e]), "DATA")
      /\ Total(net[e], "OPEN_CONFIRMATION") = Total(Tail(net[e]), "OPEN_CONFIRMATION")
      /\ "SENT_EOF" \notin chan[e].closes
             => Total(net[e], "WINDOW_ADJUST") = Total(Tail(net[e]), "WINDOW_ADJUST")
  BY <1>2, <1>3
<1> QED BY <1>1, <1>2, <1>4 DEF Started, Given

\* What stays as it is.
LEMMA RestIs ==
    ASSUME TypeOK
    PROVE  /\ UNCHANGED <<throttled, error, written, delivered, setup>> => Rest
           /\ UNCHANGED <<throttled, error, delivered, setup>> /\ written' \in [Ends -> Nat] => Rest
           /\ UNCHANGED <<throttled, error, written, setup>> /\ delivered' \in [Ends -> Nat] => Rest
           /\ UNCHANGED <<throttled, error, written, delivered>> /\ setup.requests > 0
              /\ setup' = [setup EXCEPT !.requests = @ - 1] => Rest
           /\ UNCHANGED <<error, written, delivered>> /\ throttled' \in [Ends -> BOOLEAN]
              /\ setup.throttles > 0 /\ setup' = [setup EXCEPT !.throttles = @ - 1] => Rest
<1>1. setup \in Setup
  BY DEF TypeOK
<1>2. setup.requests \in Nat /\ setup.throttles \in Nat
  BY <1>1 DEF Setup
<1>3. ASSUME setup.requests > 0, setup' = [setup EXCEPT !.requests = @ - 1]
      PROVE  setup' \in Setup /\ setup'.fixed = setup.fixed /\ setup'.main = setup.main
  <2> DEFINE n == setup.requests - 1
  <2>1. n \in Nat
    BY <1>2, <1>3
  <2>2. setup' = [setup EXCEPT !.requests = n]
    BY <1>3
  <2> HIDE DEF n
  <2>3. setup' \in Setup
    BY <1>1, <2>1, <2>2, Zenon DEF Setup
  <2> QED BY <1>1, <2>2, <2>3 DEF Setup
<1>4. ASSUME setup.throttles > 0, setup' = [setup EXCEPT !.throttles = @ - 1]
      PROVE  setup' \in Setup /\ setup'.fixed = setup.fixed /\ setup'.main = setup.main
  <2> DEFINE n == setup.throttles - 1
  <2>1. n \in Nat
    BY <1>2, <1>4
  <2>2. setup' = [setup EXCEPT !.throttles = n]
    BY <1>4
  <2> HIDE DEF n
  <2>3. setup' \in Setup
    BY <1>1, <2>1, <2>2, Zenon DEF Setup
  <2> QED BY <1>1, <2>2, <2>3 DEF Setup
<1>5. UNCHANGED <<throttled, error, written, delivered>> /\ setup.requests > 0
      /\ setup' = [setup EXCEPT !.requests = @ - 1] => Rest
  BY <1>3 DEF TypeOK, Rest
<1>6. UNCHANGED <<error, written, delivered>> /\ throttled' \in [Ends -> BOOLEAN]
      /\ setup.throttles > 0 /\ setup' = [setup EXCEPT !.throttles = @ - 1] => Rest
  BY <1>4 DEF TypeOK, Rest
<1> QED BY <1>5, <1>6 DEF TypeOK, Rest

\* A user's count of what has been written grows.
LEMMA CountIs ==
    ASSUME NEW f \in [Ends -> Nat], NEW e \in Ends, NEW n \in Nat
    PROVE  [f EXCEPT ![e] = @ + n] \in [Ends -> Nat]
<1> DEFINE m == f[e] + n
<1>1. m \in Nat
  OBVIOUS
<1>2. [f EXCEPT ![e] = m] \in [Ends -> Nat]
  <2> HIDE DEF m
  <2> QED BY <1>1
<1> QED BY <1>2

\* The user of the main channel writes.
LEMMA FlowUserInput ==
    ASSUME FlowInv, NEW e \in Ends, ssh2_connection_got_user_input(e)
    PROVE  FlowInv'
<1>1. TypeOK /\ Live(e) /\ IsMain(e)
  BY DEF FlowInv, ssh2_connection_got_user_input
<1>2. PICK n \in 1 .. setup.budget[e] - written[e] :
          Call(e, ssh2channel_write(Work(e), n)) /\ written' = [written EXCEPT ![e] = @ + n]
  BY DEF ssh2_connection_got_user_input
<1>3. n \in Nat /\ chan[e].phase = "live" /\ ~Forwarded
  BY <1>1 DEF Live, IsMain, Forwarded
<1>4. Rest
  BY <1>1, <1>2, <1>3, CountIs, RestIs DEF ssh2_connection_got_user_input, TypeOK
<1>5. Flow(chan[e], ssh2channel_write(Work(e), n))
  BY <1>3, FlowWork, FlowWrite
<1> QED BY <1>2, <1>3, <1>4, <1>5, FlowCall

\* The socket of a forwarding is read.
LEMMA FlowReceive ==
    ASSUME FlowInv, NEW e \in Ends, pfd_receive(e)
    PROVE  FlowInv'
<1>1. TypeOK /\ Live(e)
  BY DEF FlowInv, pfd_receive
<1> DEFINE x(n) == IF chan[e].halfopen THEN Work(e) ELSE ssh2channel_write(Work(e), n)
<1>2. PICK n \in 1 .. setup.budget[e] - written[e] :
          Call(e, x(n)) /\ written' = [written EXCEPT ![e] = @ + n]
  BY DEF pfd_receive
<1>3. n \in Nat /\ chan[e].phase = "live"
  BY <1>1 DEF Live
<1>4. Rest
  BY <1>1, <1>2, <1>3, CountIs, RestIs DEF pfd_receive, TypeOK
<1>5. Flow(chan[e], Work(e)) /\ Work(e).c = chan[e] /\ chan[e] \in Channel
  BY <1>3, FlowWork
<1>6. Flow(chan[e], x(n))
  BY <1>3, <1>5, FlowWrite
<1>7. Forwarded => Drained(x(n).c)
  BY <1>3, <1>5, DrainedWrite DEF FlowInv
<1> HIDE DEF x
<1> QED BY <1>2, <1>3, <1>4, <1>6, <1>7, FlowCall

\* The source of data has reached its end.
LEMMA FlowSourceEof ==
    ASSUME FlowInv, NEW e \in Ends, SourceEof(e)
    PROVE  FlowInv'
<1> DEFINE y == ssh2channel_write_eof(Work(e))
           c == [y.c EXCEPT !.srceof = TRUE]
<1>1. TypeOK /\ Live(e) /\ Rest
  BY RestIs DEF FlowInv, SourceEof
<1>2. chan[e].phase = "live"
  BY <1>1 DEF Live
<1>3. Flow(chan[e], Work(e)) /\ Work(e).c = chan[e] /\ chan[e] \in Channel /\ Work(e) \in WorkRec
  BY <1>2, FlowWork
<1>4. Flow(chan[e], y) /\ Tame(chan[e], y.c)
  BY <1>3, FlowWriteEof, TameWriteEof
<1>5. Call(e, With(y, c))
  BY DEF SourceEof
<1>6. y \in WorkRec /\ y.c \in Channel
  BY <1>4 DEF Flow, WorkRec
<1> HIDE DEF y
<1>7. c \in Channel /\ Alike(y.c, c) /\ Tame(y.c, c)
  BY <1>6 DEF Channel, Alike, Tame
<1> HIDE DEF c
<1>8. Flow(chan[e], With(y, c)) /\ With(y, c).c = c
  BY <1>3, <1>4, <1>6, <1>7, FlowAlike, WithIs
<1>9. Forwarded => Drained(With(y, c).c)
  BY <1>4, <1>7, <1>8, TameIs DEF FlowInv
<1> QED BY <1>1, <1>2, <1>5, <1>8, <1>9, FlowCall

\* A local error turns the Channel into a zombie.
LEMMA FlowInitiateClose ==
    ASSUME FlowInv, NEW e \in Ends, ssh2channel_initiate_close(e)
    PROVE  FlowInv'
<1> DEFINE c == [chan[e] EXCEPT !.zombie = TRUE, !.fixed = FALSE, !.pending_eof = FALSE, !.inbuf = 0,
                                !.abandoned = TRUE]
           y == With(Work(e), c)
<1>1. TypeOK /\ Live(e) /\ ~chan[e].fixed /\ Rest
  BY RestIs DEF FlowInv, ssh2channel_initiate_close
<1>2. chan[e].phase = "live"
  BY <1>1 DEF Live
<1>3. Flow(chan[e], Work(e)) /\ Work(e).c = chan[e] /\ chan[e] \in Channel /\ Work(e) \in WorkRec
  BY <1>2, FlowWork
<1>4. c \in Channel /\ Tame(chan[e], c)
  BY <1>3 DEF Channel, Tame
<1>5. chan[e].halfopen => chan[e].inbuf = 0
  BY <1>2 DEF FlowInv, Opening, Half, Ends
<1>6. Roomy(chan[e]) => Roomy(c)
  BY <1>3 DEF Channel, Roomy
<1>7. Keeps(chan[e], c) /\ c.remwindow = chan[e].remwindow /\ c.locwindow = chan[e].locwindow
  BY <1>2, <1>3, <1>4, <1>5, <1>6 DEF Keeps, Channel
<1>8. Call(e, ssh2_channel_check_close(y))
  BY DEF ssh2channel_initiate_close
<1> HIDE DEF c
<1>9. Flow(chan[e], y) /\ y \in WorkRec /\ y.c = c
  BY <1>3, <1>4, <1>7, FlowWith, WithIs
<1> HIDE DEF y
<1>10. Flow(chan[e], ssh2_channel_check_close(y))
  BY <1>3, <1>9, FlowCheckClose
<1>11. Forwarded => Drained(ssh2_channel_check_close(y).c)
  BY <1>4, <1>9, TameCheckClose, TameIs DEF FlowInv
<1> QED BY <1>1, <1>2, <1>8, <1>10, <1>11, FlowCall

\* The Channel has passed data on, and the window opens.
LEMMA FlowUnthrottleChan ==
    ASSUME FlowInv, NEW e \in Ends, ssh2channel_unthrottle(e)
    PROVE  FlowInv'
<1> DEFINE m == chan[e].locmaxwin
           c(b) == [chan[e] EXCEPT !.inbuf = b]
           x(b) == With(Work(e), c(b))
           y(b) == IF b < m THEN ssh2_set_window(x(b), m - b) ELSE x(b)
           d(b) == [y(b).c EXCEPT !.throttling_conn = @ /\ b > m]
<1>1. TypeOK /\ Live(e) /\ Rest
  BY RestIs DEF FlowInv, ssh2channel_unthrottle
<1>2. chan[e].phase = "live"
  BY <1>1 DEF Live
<1>3. Flow(chan[e], Work(e)) /\ Work(e).c = chan[e] /\ chan[e] \in Channel /\ Work(e) \in WorkRec
  BY <1>2, FlowWork
<1>4. PICK b \in 0 .. chan[e].inbuf - 1 : Call(e, With(y(b), d(b)))
  BY DEF ssh2channel_unthrottle
<1>5. b \in Nat /\ chan[e].inbuf \in Nat /\ b < chan[e].inbuf /\ m \in Nat /\ chan[e].locwindow \in Int
  <2>1. chan[e].inbuf \in Nat /\ m \in Nat /\ chan[e].locwindow \in Int
    BY <1>3 DEF Channel
  <2> QED BY <2>1
<1>6. ~chan[e].halfopen
  BY <1>2, <1>5 DEF FlowInv, Opening, Half, Ends
<1>7. c(b) \in Channel /\ Tame(chan[e], c(b))
  <2>1. c(b) \in Channel
    BY <1>3, <1>5, Zenon DEF Channel
  <2> QED BY <1>3, <2>1 DEF Channel, Tame
<1>8. /\ c(b).remwindow = chan[e].remwindow /\ c(b).locwindow = chan[e].locwindow
      /\ c(b).halfopen = chan[e].halfopen /\ c(b).closes = chan[e].closes /\ c(b).phase = chan[e].phase
      /\ c(b).inbuf = b /\ c(b).locmaxwin = m /\ c(b).fixed = chan[e].fixed
      /\ c(b).throttling_conn = chan[e].throttling_conn
  BY <1>3 DEF Channel
<1> HIDE DEF c, m
<1>9. Roomy(chan[e]) => Roomy(c(b))
  BY <1>5, <1>8 DEF Roomy, m
<1>10. Keeps(chan[e], c(b))
  BY <1>2, <1>6, <1>7, <1>8, <1>9 DEF Keeps
<1>11. Flow(chan[e], x(b)) /\ x(b) \in WorkRec /\ x(b).c = c(b)
  BY <1>3, <1>7, <1>8, <1>10, FlowWith, WithIs
<1> HIDE DEF x
<1>12. Flow(chan[e], y(b)) /\ Tame(chan[e], y(b).c)
  <2>1. CASE b < m
    <3>1. m - b \in Nat /\ x(b).c.inbuf + (m - b) <= x(b).c.locmaxwin
      BY <1>5, <1>8, <1>11, <2>1
    <3>2. Flow(chan[e], ssh2_set_window(x(b), m - b))
      BY <1>3, <1>6, <1>8, <1>11, <3>1, FlowSetWindow
    <3>3. Untouched(x(b).c, ssh2_set_window(x(b), m - b).c)
      BY <1>11, SetWindowIs
    <3>4. Tame(c(b), ssh2_set_window(x(b), m - b).c)
      BY <1>2, <1>8, <1>11, <3>3 DEF Untouched, Tame
    <3> QED BY <1>7, <2>1, <3>2, <3>4, TameIs
  <2>2. CASE ~(b < m)
    BY <1>7, <1>11, <2>2
  <2> QED BY <2>1, <2>2
<1>13. y(b) \in WorkRec /\ y(b).c \in Channel
  BY <1>12 DEF Flow, WorkRec
<1> HIDE DEF y
<1>14. d(b) \in Channel /\ Tame(y(b).c, d(b))
  BY <1>13 DEF Channel, Tame
<1>15. Roomy(y(b).c) => Roomy(d(b))
  BY <1>13 DEF Channel, Roomy
<1>16. Keeps(y(b).c, d(b)) /\ d(b).remwindow = y(b).c.remwindow /\ d(b).locwindow = y(b).c.locwindow
  BY <1>12, <1>13, <1>14, <1>15 DEF Channel, Keeps, Flow
<1> HIDE DEF d
<1>17. Flow(chan[e], With(y(b), d(b))) /\ With(y(b), d(b)).c = d(b)
  BY <1>3, <1>12, <1>13, <1>14, <1>16, FlowWith, WithIs
<1>18. Forwarded => Drained(With(y(b), d(b)).c)
  BY <1>12, <1>14, <1>17, TameIs DEF FlowInv
<1> QED BY <1>1, <1>2, <1>4, <1>17, <1>18, FlowCall

\* The main channel sends a request.
LEMMA FlowTerminalSize ==
    ASSUME FlowInv, NEW e \in Ends, mainchan_terminal_size(e)
    PROVE  FlowInv'
<1>1. TypeOK /\ Live(e) /\ IsMain(e) /\ ~chan[e].halfopen /\ Rest
  BY RestIs DEF FlowInv, mainchan_terminal_size
<1>2. chan[e].phase = "live" /\ ~Forwarded /\ <<>> \in Seq(Nat)
  BY <1>1 DEF Live, IsMain, Forwarded
<1>3. Flow(chan[e], ssh2_chanreq_init(Work(e), <<>>))
  BY <1>1, <1>2, FlowWork, FlowRequest
<1>4. Call(e, ssh2_chanreq_init(Work(e), <<>>))
  BY DEF mainchan_terminal_size
<1> QED BY <1>1, <1>2, <1>3, <1>4, FlowCall

\* Steps that leave the channel and the wire alone.
LEMMA FlowStill ==
    ASSUME FlowInv, Rest, UNCHANGED <<chan, net>>
    PROVE  FlowInv'
<1>1. TypeOK'
  BY DEF FlowInv, TypeOK, Rest
<1>2. Opening'
  BY DEF FlowInv, Opening, Half, Asking, Refused, Confirmed
<1>3. Ledger' /\ Rooms'
  BY DEF FlowInv, Ledger, Rooms, Rest
<1>4. Forwarded' => \A e \in Ends : Drained(chan'[e])
  BY DEF FlowInv, Forwarded, Rest
<1> QED BY <1>1, <1>2, <1>3, <1>4 DEF FlowInv

\* All local input is frozen or released.
LEMMA FlowThrottleAll ==
    ASSUME FlowInv, NEW e \in Ends, ssh2_throttle_all_channels(e)
    PROVE  FlowInv'
<1> DEFINE all == ~throttled[e]
           x == ssh2_channel_check_throttle(all, Work(e))
<1>1. TypeOK /\ all \in BOOLEAN /\ throttled' \in [Ends -> BOOLEAN]
  BY DEF FlowInv, TypeOK, ssh2_throttle_all_channels
<1>2. Rest
  BY <1>1, RestIs DEF ssh2_throttle_all_channels
<1>3. CASE ~Live(e)
  BY <1>2, <1>3, FlowStill DEF ssh2_throttle_all_channels
<1>4. CASE Live(e)
  <2>1. chan[e].phase = "live"
    BY <1>4 DEF Live
  <2>2. Flow(chan[e], Work(e)) /\ Work(e).c = chan[e] /\ chan[e] \in Channel /\ Work(e) \in WorkRec
        /\ Work(e).out = <<>>
    BY <2>1, FlowWork
  <2>3. Flow(chan[e], x) /\ Tame(chan[e], x.c)
    BY <1>1, <2>2, FlowThrottle, TameThrottle
  <2>4. x.out = <<>>
    BY <2>2 DEF ssh2_channel_check_throttle, With, WorkRec
  <2>5. chan' = [chan EXCEPT ![e] = x.c] /\ net' = net
    BY <1>4 DEF ssh2_throttle_all_channels
  <2> HIDE DEF x
  <2>6. Call(e, x)
    <3>1. net \in [Ends -> Seq(Packet)] /\ Peer(e) \in Ends
      BY <1>1, PeerIs DEF TypeOK
    <3>2. net[Peer(e)] \o <<>> = net[Peer(e)]
      BY <3>1
    <3>3. net = [net EXCEPT ![e] = net[e], ![Peer(e)] = @ \o x.out]
      BY <2>4, <3>1, <3>2, PeerIs
    <3> QED BY <2>5, <3>3 DEF Call, Commit
  <2>7. Forwarded => Drained(x.c)
    BY <2>3, TameIs DEF FlowInv
  <2> QED BY <1>2, <2>1, <2>3, <2>6, <2>7, FlowCall
<1> QED BY <1>3, <1>4

\* A protocol error moves nothing.
LEMMA FlowProtoError ==
    ASSUME FlowInv, NEW e \in Ends, ProtoError(e)
    PROVE  FlowInv'
<1>1. Rest
  BY DEF FlowInv, TypeOK, ProtoError, Rest
<1> QED BY <1>1, FlowStill DEF ProtoError

\* The packets without a part in the accounts.
LEMMA FlowRecvPlain ==
    ASSUME FlowInv, NEW e \in Ends, RecvRequest(e) \/ RecvReply(e) \/ RecvEof(e) \/ RecvClose(e)
    PROVE  FlowInv'
<1>1. TypeOK /\ Expected(e) /\ net[e] # <<>> /\ Rest
  BY RestIs DEF FlowInv, RecvRequest, RecvReply, RecvEof, RecvClose, Arrives
<1>2. Head(net[e]).type \in {"REQUEST", "REPLY", "EOF", "CLOSE"}
  BY DEF RecvRequest, RecvReply, RecvEof, RecvClose, Arrives
<1>3. chan[e].phase = "live" /\ ~chan[e].halfopen
  BY <1>1 DEF Expected
<1>4. Flow(chan[e], Work(e)) /\ Work(e).c = chan[e] /\ chan[e] \in Channel /\ Work(e) \in WorkRec
  BY <1>3, FlowWork
<1>5. Started(chan[e], net[e], chan[e], Tail(net[e]))
  BY <1>1, <1>2, StartedPlain
<1>6. SUFFICES \E x : Flow(chan[e], x) /\ Handled(e, x) /\ Tame(chan[e], x.c)
  BY <1>1, <1>3, <1>5, TameIs, FlowHandled DEF FlowInv
<1>7. CASE RecvRequest(e)
  <2> DEFINE x == Push(Work(e), Pkt("REPLY", 1))
  <2>1. Flow(chan[e], x) /\ Tame(chan[e], x.c)
    <3> DEFINE q == Pkt("REPLY", 1)
    <3>1. q \in Body /\ q.type = "REPLY" /\ chan[e].remwindow \in Int /\ chan[e].locwindow \in Int
      BY <1>4, PktBody DEF Channel
    <3>2. Keeps(chan[e], chan[e])
      BY <1>3, <1>4 DEF Keeps
    <3> HIDE DEF q
    <3>3. Flow(chan[e], With(Push(Work(e), q), chan[e]))
      BY <1>3, <1>4, <3>1, <3>2, FlowPush
    <3>4. Push(Work(e), q) \in WorkRec /\ Push(Work(e), q).c = chan[e]
      BY <1>4, <3>1, PushIs
    <3>5. With(Push(Work(e), q), chan[e]) = Push(Work(e), q)
      BY <3>4 DEF With, WorkRec
    <3> QED BY <3>3, <3>4, <3>5, TameIs DEF q
  <2>2. Tame(chan[e], Work(e).c)
    BY <1>4, TameIs
  <2>3. Handled(e, x) \/ Handled(e, Work(e))
    BY <1>7 DEF RecvRequest
  <2> HIDE DEF x
  <2> QED BY <1>4, <2>1, <2>2, <2>3
<1>8. CASE RecvReply(e)
  <2> DEFINE h == <<Head(chan[e].chanreq)>>
             x == RequestsAnswered(Work(e), h)
             c == [x.c EXCEPT !.chanreq = Tail(@)]
             y == With(x, c)
  <2>1. chan[e].chanreq # <<>> /\ Handled(e, ssh2_channel_check_close(y))
    BY <1>8 DEF RecvReply
  <2>2. chan[e].chanreq \in Seq(Nat)
    BY <1>4 DEF Channel
  <2>3. h \in Seq(Nat)
    BY <2>1, <2>2
  <2> HIDE DEF h
  <2>4. Flow(chan[e], x)
    BY <1>4, <2>3, FlowAnswered
  <2>5. Tame(chan[e], x.c) /\ x.c.chanreq = chan[e].chanreq
    BY <1>4 DEF RequestsAnswered, With, WorkRec, Channel, Tame
  <2>6. x \in WorkRec /\ x.c \in Channel /\ ~x.c.halfopen
    BY <1>3, <2>4 DEF Flow, WorkRec
  <2> HIDE DEF x
  <2>7. c \in Channel /\ Alike(x.c, c) /\ Tame(x.c, c)
    <3> DEFINE l == Tail(chan[e].chanreq)
    <3>1. l \in Seq(Nat) /\ c = [x.c EXCEPT !.chanreq = l]
      BY <2>1, <2>2, <2>5
    <3> HIDE DEF l, c
    <3>2. c \in Channel
      BY <2>6, <3>1, Zenon DEF Channel
    <3> QED BY <2>6, <3>1, <3>2 DEF Channel, Alike, Tame
  <2> HIDE DEF c
  <2>8. Flow(chan[e], y) /\ y \in WorkRec /\ y.c = c
    BY <1>4, <2>4, <2>6, <2>7, FlowAlike, WithIs
  <2> HIDE DEF y
  <2>9. Flow(chan[e], ssh2_channel_check_close(y)) /\ Tame(chan[e], ssh2_channel_check_close(y).c)
    BY <1>4, <2>5, <2>7, <2>8, FlowCheckClose, TameCheckClose, TameIs
  <2> QED BY <2>1, <2>9
<1>9. CASE RecvEof(e)
  <2> DEFINE u == Closed(Work(e), {"RCVD_EOF"})
             v == chan_send_eof(e, u)
  <2>1. Flow(chan[e], u)
    BY <1>4, FlowClosed
  <2>2. Tame(chan[e], u.c)
    BY <1>4 DEF Closed, With, WorkRec, Channel, Tame
  <2>3. u \in WorkRec
    BY <2>1 DEF Flow
  <2> HIDE DEF u
  <2>4. Flow(chan[e], v) /\ Tame(u.c, v.c)
    BY <1>4, <2>1, <2>3, FlowSendEof, TameWriteEof, TameIs DEF chan_send_eof
  <2>5. v \in WorkRec
    BY <2>4 DEF Flow
  <2> HIDE DEF v
  <2>6. Flow(chan[e], ssh2_channel_check_close(v)) /\ Tame(chan[e], ssh2_channel_check_close(v).c)
    BY <1>4, <2>2, <2>4, <2>5, FlowCheckClose, TameCheckClose, TameIs
  <2>7. Handled(e, Work(e)) \/ Handled(e, ssh2_channel_check_close(v))
    BY <1>9 DEF RecvEof, u, v
  <2>8. Tame(chan[e], Work(e).c)
    BY <1>4, TameIs
  <2> QED BY <1>4, <2>6, <2>7, <2>8
<1>10. CASE RecvClose(e)
  <2>1. throttled[e] \in BOOLEAN
    BY <1>1 DEF TypeOK
  <2>2. Flow(chan[e], CloseArrived(e, Work(e))) /\ Tame(chan[e], CloseArrived(e, Work(e)).c)
    BY <1>3, <1>4, <2>1, FlowCloseArrived, TameCloseArrived
  <2> QED BY <1>10, <2>2 DEF RecvClose
<1> QED BY <1>7, <1>8, <1>9, <1>10

\* A window adjustment arrives: what was under way is now granted.
LEMMA FlowRecvWindowAdjust ==
    ASSUME FlowInv, NEW e \in Ends, RecvWindowAdjust(e)
    PROVE  FlowInv'
<1>1. TypeOK /\ Expected(e) /\ net[e] # <<>> /\ Head(net[e]).type = "WINDOW_ADJUST" /\ Rest
  BY RestIs DEF FlowInv, RecvWindowAdjust, Arrives
<1>2. chan[e].phase = "live" /\ ~chan[e].halfopen
  BY <1>1 DEF Expected
<1>3. Flow(chan[e], Work(e)) /\ Work(e).c = chan[e] /\ chan[e] \in Channel /\ Work(e) \in WorkRec
      /\ Work(e).out = <<>>
  BY <1>2, FlowWork
<1>4. CASE "SENT_EOF" \in chan[e].closes
  <2>1. Started(chan[e], net[e], chan[e], Tail(net[e]))
    BY <1>1, <1>4, StartedPlain
  <2>2. Handled(e, Work(e))
    BY <1>4 DEF RecvWindowAdjust
  <2> QED BY <1>1, <1>2, <1>3, <2>1, <2>2, FlowHandled DEF FlowInv
<1>5. CASE "SENT_EOF" \notin chan[e].closes
  <2> DEFINE n == Head(net[e]).n
             m == chan[e].remwindow + n
             w == [chan[e] EXCEPT !.remwindow = m]
             x == With(Work(e), w)
             y == ssh2_try_send_and_unthrottle(throttled[e], x)
  <2>1. Handled(e, y)
    BY <1>5 DEF RecvWindowAdjust
  <2>2. /\ n \in Nat /\ Tail(net[e]) \in Seq(Packet)
        /\ \A type : Total(net[e], type)
               = (IF Head(net[e]).type = type THEN n ELSE 0) + Total(Tail(net[e]), type)
    BY <1>1, Arriving
  <2> HIDE DEF n
  <2>3. chan[e].remwindow \in Nat /\ m \in Nat /\ chan[e].locwindow \in Int
    <3>1. chan[e].remwindow \in Nat /\ chan[e].locwindow \in Int
      BY <1>3 DEF Channel
    <3> QED BY <2>2, <3>1
  <2>4. w \in Channel
    <3> HIDE DEF m
    <3> QED BY <1>3, <2>3, Zenon DEF Channel
  <2>5. /\ w.remwindow = m /\ w.locwindow = chan[e].locwindow /\ w.closes = chan[e].closes
        /\ w.halfopen = chan[e].halfopen /\ w.phase = chan[e].phase
    BY <1>3 DEF Channel
  <2>6. Roomy(chan[e]) => Roomy(w)
    BY <1>3 DEF Channel, Roomy
  <2> HIDE DEF w
  <2>7. x \in WorkRec /\ x.c = w /\ x.out = <<>>
    BY <1>3, <2>4, WithIs
  <2> HIDE DEF x
  <2>8. Flow(w, x)
    <3>1. Total(<<>>, "DATA") = 0 /\ Total(<<>>, "WINDOW_ADJUST") = 0
      BY TotalSmall
    <3>2. setup.fixed = 0 => Roomy(w)
      BY <1>3, <2>6 DEF Flow
    <3> QED BY <1>2, <2>3, <2>5, <2>7, <3>1, <3>2 DEF Flow
  <2>9. Started(chan[e], net[e], w, Tail(net[e]))
    <3> DEFINE t == Tail(net[e])
    <3>1. /\ Total(t, "DATA") \in Nat /\ Total(t, "OPEN_CONFIRMATION") \in Nat
          /\ Total(t, "WINDOW_ADJUST") \in Nat
      BY <2>2, TotalNat
    <3>2. /\ Total(net[e], "DATA") = 0 + Total(t, "DATA")
          /\ Total(net[e], "OPEN_CONFIRMATION") = 0 + Total(t, "OPEN_CONFIRMATION")
          /\ Total(net[e], "WINDOW_ADJUST") = n + Total(t, "WINDOW_ADJUST")
      BY <1>1, <2>2
    <3>3. Given(w, t) = m + Total(t, "OPEN_CONFIRMATION") + Total(t, "WINDOW_ADJUST")
      BY <1>5, <2>5 DEF Given
    <3>4. Given(chan[e], net[e]) = chan[e].remwindow + Total(net[e], "OPEN_CONFIRMATION")
              + Total(net[e], "WINDOW_ADJUST")
      BY <1>5 DEF Given
    <3>5. t \in Seq(Packet)
      BY <2>2
    <3> HIDE DEF t
    <3>6. Given(w, t) = Given(chan[e], net[e])
      BY <2>2, <2>3, <3>1, <3>2, <3>3, <3>4
    <3>7. Started(chan[e], net[e], w, t)
      BY <2>3, <2>4, <2>5, <3>1, <3>2, <3>5, <3>6 DEF Started
    <3> QED BY <3>7 DEF t
  <2>10. throttled[e] \in BOOLEAN
    BY <1>1 DEF TypeOK
  <2>11. Flow(w, y) /\ Drained(y.c)
    BY <1>2, <1>5, <2>4, <2>5, <2>7, <2>8, <2>10, FlowUnthrottle, DrainedUnthrottle
  <2> HIDE DEF y
  <2> QED BY <1>1, <1>2, <2>1, <2>5, <2>9, <2>11, FlowHandled
<1> QED BY <1>4, <1>5

\* No end has granted less than what is under way to it.
LEMMA WindowCovers ==
    ASSUME FlowInv, NEW e \in Ends
    PROVE  chan[e].locwindow >= 0 /\ (chan["acceptor"].phase # "none" => chan[e].locwindow >= Total(net[e], "DATA"))
<1> DEFINE p == Peer(e)
           n == IF "SENT_EOF" \in chan[p].closes THEN 0 ELSE Total(net[p], "WINDOW_ADJUST")
           m == Total(net[p], "OPEN_CONFIRMATION")
           k == Total(net[e], "DATA")
           r == chan[p].remwindow
           l == chan[e].locwindow
<1>1. p \in Ends /\ Peer(p) = e
  BY PeerIs
<1>2. chan[e] \in Channel /\ chan[p] \in Channel /\ net[e] \in Seq(Packet) /\ net[p] \in Seq(Packet)
  BY <1>1 DEF FlowInv, TypeOK
<1>3. k \in Nat /\ m \in Nat /\ n \in Nat
  BY <1>2, TotalNat
<1>4. r \in Nat /\ l \in Int
  BY <1>2 DEF Channel
<1>5. CASE chan["acceptor"].phase = "none"
  BY <1>5, ParamAssumption DEF FlowInv, Ledger
<1>6. CASE chan["acceptor"].phase # "none"
  <2>1. Covered(chan[p], net[p], net[e], l)
    BY <1>1, <1>6 DEF FlowInv, Ledger
  <2>2. r + k + m + n <= l
    BY <2>1 DEF Covered, Claim
  <2> HIDE DEF k, m, n, r, l
  <2>3. l >= k /\ l >= 0
    BY <1>3, <1>4, <2>2
  <2> QED BY <2>3 DEF l, k
<1> QED BY <1>5, <1>6

\* Passing data on adds no output.
LEMMA TameChanSend ==
    ASSUME NEW x \in WorkRec, NEW n \in Nat, NEW y \in chan_send(x, n)
    PROVE  Tame(x.c, y.c)
<1>1. x.c \in Channel
  BY DEF WorkRec
<1>2. \A z : DOMAIN z = {"c", "out"} /\ DOMAIN z.c = DOMAIN x.c => \A b : Tame(z.c, With(z, [z.c EXCEPT !.inbuf = b]).c)
  BY <1>1 DEF With, Channel, Tame
<1>3. DOMAIN x = {"c", "out"}
  BY DEF WorkRec
<1>4. CASE x.c.zombie
  BY <1>4, TameIs DEF chan_send
<1>5. CASE ~x.c.zombie /\ ~x.c.fixed
  <2>1. PICK b \in 0 .. x.c.inbuf + n : y = With(x, [x.c EXCEPT !.inbuf = b])
    BY <1>5 DEF chan_send
  <2> QED BY <1>2, <1>3, <2>1
<1>6. CASE ~x.c.zombie /\ x.c.fixed
  <2> DEFINE c == [x.c EXCEPT !.fixed = FALSE]
             u == With(x, c)
             z == ssh2_set_window(u, WinSize)
  <2>1. c \in Channel /\ Tame(x.c, c)
    BY <1>1 DEF Channel, Tame
  <2> HIDE DEF c
  <2>2. u \in WorkRec /\ u.c = c
    BY <2>1, WithIs
  <2>3. z = ssh2channel_window_override_removed(x)
    BY DEF ssh2channel_window_override_removed, c
  <2> HIDE DEF u
  <2>4. Untouched(u.c, z.c)
    BY <2>2, SetWindowIs
  <2>5. Tame(u.c, z.c)
    BY <2>4 DEF Untouched, Tame
  <2>6. DOMAIN z = {"c", "out"} /\ DOMAIN z.c = DOMAIN x.c
    BY <1>1, <2>1, <2>2 DEF ssh2_set_window, Adjusted, Announced, ssh2_chanreq_init, With, Push, WorkRec, Channel
  <2> HIDE DEF z
  <2>7. CASE y = x
    BY <2>7, TameIs
  <2>8. CASE y # x
    <3>1. PICK b \in 0 .. z.c.inbuf + n : y = With(z, [z.c EXCEPT !.inbuf = b])
      BY <1>6, <2>3, <2>8 DEF chan_send
    <3>2. Tame(z.c, y.c)
      BY <1>2, <2>6, <3>1
    <3> QED BY <2>1, <2>2, <2>5, <3>2, TameIs
  <2> QED BY <2>7, <2>8
<1> QED BY <1>4, <1>5, <1>6

\* Nor does the new window.
LEMMA TameWindowAfterData ==
    ASSUME NEW x \in WorkRec
    PROVE  Tame(x.c, WindowAfterData(x).c)
<1> DEFINE m == x.c.locmaxwin + WinSize
           d == [x.c EXCEPT !.locmaxwin = m]
           y == IF x.c.remlocwin <= 0 /\ x.c.throttle_state = "UNTHROTTLED" /\ x.c.locmaxwin < WinCap
                THEN With(x, d) ELSE x
           s == ssh2_set_window(y, y.c.locmaxwin - x.c.inbuf)
           z == IF x.c.inbuf < y.c.locmaxwin THEN s ELSE y
           c == [z.c EXCEPT !.throttling_conn = @ \/ x.c.inbuf > z.c.locmaxwin]
<1>1. x.c \in Channel
  BY DEF WorkRec
<1>2. d \in Channel /\ Tame(x.c, d)
  <2>1. x.c.locmaxwin \in Nat /\ WinSize \in Nat
    BY <1>1, ParamAssumption DEF Channel
  <2>2. m \in Nat
    BY <2>1
  <2> HIDE DEF m
  <2>3. d \in Channel
    BY <1>1, <2>2, Zenon DEF Channel
  <2> QED BY <1>1, <2>3 DEF Channel, Tame
<1>3. y \in WorkRec /\ Tame(x.c, y.c)
  <2> HIDE DEF d
  <2> QED BY <1>2, WithIs, TameIs
<1>4. y.c \in Channel
  BY <1>3 DEF WorkRec
<1>5. WindowAfterData(x) = With(z, c)
  BY DEF WindowAfterData
<1> HIDE DEF y
<1>6. Untouched(y.c, s.c)
  BY <1>3, SetWindowIs
<1>7. Tame(y.c, s.c)
  BY <1>6 DEF Untouched, Tame
<1>8. DOMAIN s = {"c", "out"} /\ DOMAIN s.c = DOMAIN x.c
  BY <1>1, <1>3, <1>4 DEF ssh2_set_window, Adjusted, Announced, ssh2_chanreq_init, With, Push, WorkRec, Channel
<1>9. DOMAIN y = {"c", "out"} /\ DOMAIN y.c = DOMAIN x.c
  BY <1>1, <1>3, <1>4 DEF WorkRec, Channel
<1> HIDE DEF s
<1>10. DOMAIN z = {"c", "out"} /\ DOMAIN z.c = DOMAIN x.c /\ Tame(x.c, z.c)
  BY <1>3, <1>7, <1>8, <1>9, TameIs
<1> HIDE DEF z
<1>11. With(z, c).c = c /\ Tame(z.c, c)
  BY <1>1, <1>10 DEF With, Channel, Tame
<1> QED BY <1>5, <1>10, <1>11, TameIs

\* Data arrives: the window shrinks by it and is opened again.
LEMMA FlowRecvData ==
    ASSUME FlowInv, NEW e \in Ends, RecvData(e)
    PROVE  FlowInv'
<1> DEFINE n == Head(net[e]).n
           a == chan[e].locwindow - n
           b == chan[e].remlocwin - n
           w == [chan[e] EXCEPT !.locwindow = a, !.remlocwin = b]
           x == With(Work(e), w)
<1>1. TypeOK /\ Expected(e) /\ net[e] # <<>> /\ Head(net[e]).type = "DATA"
  BY DEF FlowInv, RecvData, Arrives
<1>2. chan[e].phase = "live" /\ ~chan[e].halfopen
  BY <1>1 DEF Expected
<1>3. Flow(chan[e], Work(e)) /\ Work(e).c = chan[e] /\ chan[e] \in Channel /\ Work(e) \in WorkRec
      /\ Work(e).out = <<>>
  BY <1>2, FlowWork
<1>4. /\ n \in Nat /\ Tail(net[e]) \in Seq(Packet)
      /\ \A type : Total(net[e], type)
             = (IF Head(net[e]).type = type THEN n ELSE 0) + Total(Tail(net[e]), type)
      /\ chan["acceptor"].phase # "none"
  BY <1>1, Arriving
<1>5. PICK y \in chan_send(x, n) : Handled(e, WindowAfterData(y))
  BY DEF RecvData
<1>6. Rest
  BY <1>1, <1>4, CountIs, RestIs DEF RecvData, TypeOK
<1> HIDE DEF n
<1>7. /\ chan[e].locwindow \in Int /\ chan[e].remlocwin \in Int /\ chan[e].inbuf \in Nat
      /\ chan[e].locmaxwin \in Nat /\ chan[e].remwindow \in Nat
  BY <1>3 DEF Channel
<1>8. a \in Int /\ b \in Int
  BY <1>4, <1>7
<1>9. w \in Channel
  <2> HIDE DEF a, b
  <2> QED BY <1>3, <1>8, Zenon DEF Channel
<1>10. /\ w.remwindow = chan[e].remwindow /\ w.locwindow = a /\ w.closes = chan[e].closes
       /\ w.halfopen = chan[e].halfopen /\ w.phase = chan[e].phase /\ w.fixed = chan[e].fixed
       /\ w.throttling_conn = chan[e].throttling_conn /\ w.inbuf = chan[e].inbuf
       /\ w.locmaxwin = chan[e].locmaxwin /\ w.outbuffer = chan[e].outbuffer
  BY <1>3 DEF Channel
<1> HIDE DEF w
<1>11. x \in WorkRec /\ x.c = w /\ x.out = <<>>
  BY <1>3, <1>9, WithIs
<1> HIDE DEF x
<1>12. setup.fixed = 0 => /\ Roomy(w)
                          /\ w.inbuf + n + w.locwindow <= w.locmaxwin
  <2>1. setup.fixed = 0 => Roomy(chan[e])
    BY <1>3 DEF Flow
  <2> QED BY <1>4, <1>7, <1>10, <2>1 DEF Roomy
<1>13. Flow(w, x)
  <2>1. Total(<<>>, "DATA") = 0 /\ Total(<<>>, "WINDOW_ADJUST") = 0
    BY TotalSmall
  <2> QED BY <1>2, <1>7, <1>8, <1>10, <1>11, <1>12, <2>1 DEF Flow
<1> DEFINE t == Tail(net[e])
<1>14. /\ Total(t, "DATA") \in Nat /\ Total(t, "OPEN_CONFIRMATION") \in Nat
       /\ Total(t, "WINDOW_ADJUST") \in Nat
  BY <1>4, TotalNat
<1>15. /\ Total(net[e], "DATA") = n + Total(t, "DATA")
       /\ Total(net[e], "OPEN_CONFIRMATION") = 0 + Total(t, "OPEN_CONFIRMATION")
       /\ Total(net[e], "WINDOW_ADJUST") = 0 + Total(t, "WINDOW_ADJUST")
  BY <1>1, <1>4
<1>16. Started(chan[e], net[e], w, t)
  <2>1. t \in Seq(Packet)
    BY <1>4
  <2> HIDE DEF t
  <2>2. Given(w, t) = Given(chan[e], net[e])
    BY <1>10, <1>14, <1>15 DEF Given
  <2>3. w.locwindow + Total(net[e], "DATA") = chan[e].locwindow + Total(t, "DATA")
    BY <1>4, <1>7, <1>10, <1>14, <1>15
  <2> QED BY <1>9, <1>10, <2>1, <2>2, <2>3 DEF Started
<1>17. w.locwindow >= 0
  <2>1. chan[e].locwindow >= Total(net[e], "DATA")
    BY <1>4, WindowCovers
  <2> HIDE DEF t
  <2> QED BY <1>4, <1>7, <1>10, <1>14, <1>15, <2>1
<1>18. Flow(w, y)
  BY <1>2, <1>4, <1>9, <1>10, <1>11, <1>12, <1>13, FlowChanSend
<1>19. y \in WorkRec /\ ~y.c.halfopen
  BY <1>2, <1>10, <1>18 DEF Flow
<1>20. Flow(w, WindowAfterData(y))
  BY <1>9, <1>17, <1>18, <1>19, FlowWindowAfterData
<1>21. Tame(w, WindowAfterData(y).c)
  BY <1>4, <1>11, <1>19, TameChanSend, TameWindowAfterData, TameIs
<1>22. Forwarded => Drained(WindowAfterData(y).c)
  <2>1. Forwarded => Drained(chan[e])
    BY DEF FlowInv
  <2>2. Forwarded => Drained(w)
    BY <1>10, <2>1 DEF Drained
  <2> QED BY <1>21, <2>2, TameIs
<1> QED BY <1>1, <1>2, <1>5, <1>6, <1>10, <1>16, <1>20, <1>22, FlowHandled

\* A new channel.
LEMMA InitIs ==
    ASSUME NEW window \in Nat, NEW isfixed \in BOOLEAN
    PROVE  LET c == ssh2_channel_init(window, isfixed)
           IN  /\ c \in Channel
               /\ c.phase = "live" /\ ~c.halfopen /\ c.closes = {} /\ ~c.pending_eof /\ ~c.throttling_conn
               /\ c.outbuffer = 0 /\ c.remwindow = 0 /\ c.locwindow = window /\ c.locmaxwin = window
               /\ c.chanreq = <<>> /\ ~c.zombie /\ c.fixed = isfixed /\ c.inbuf = 0 /\ ~c.abandoned
               /\ c.wanted /\ ~c.srceof
<1>1. window \in Int /\ <<>> \in Seq(Nat) /\ {} \in SUBSET Closes /\ 0 \in Nat
  OBVIOUS
<1>2. ssh2_channel_init(window, isfixed) \in Channel
  BY <1>1 DEF ssh2_channel_init, Channel
<1> QED BY <1>2 DEF ssh2_channel_init

\* A handler that leaves c and the packets out.
LEMMA CommitOf ==
    ASSUME NEW e, NEW c, NEW out, NEW rest, Commit(e, [c |-> c, out |-> out], rest)
    PROVE  /\ chan' = [chan EXCEPT ![e] = c]
           /\ net' = [net EXCEPT ![e] = rest, ![Peer(e)] = @ \o out]
<1> DEFINE x == [c |-> c, out |-> out]
<1>1. x.c = c /\ x.out = out
  OBVIOUS
<1> HIDE DEF x
<1>2. Commit(e, x, rest)
  BY DEF x
<1>3. chan' = [chan EXCEPT ![e] = x.c] /\ net' = [net EXCEPT ![e] = rest, ![Peer(e)] = @ \o x.out]
  BY <1>2 DEF Commit
<1> QED BY <1>1, <1>3, Zenon

\* A channel that does not exist yet has nothing outstanding.
LEMMA AbsentIs ==
    /\ Absent \in Channel /\ Absent.phase = "none" /\ ~Absent.halfopen /\ Absent.closes = {}
    /\ Absent.outbuffer = 0 /\ Absent.locwindow = WinSize /\ Absent.chanreq = <<>> /\ ~Absent.abandoned
    /\ Roomy(Absent) /\ Drained(Absent)
<1> DEFINE c == ssh2_channel_init(WinSize, FALSE)
<1>1. WinSize \in Nat
  BY ParamAssumption
<1>2. /\ c \in Channel /\ ~c.halfopen /\ c.closes = {} /\ ~c.throttling_conn /\ c.outbuffer = 0
      /\ c.locwindow = WinSize /\ c.locmaxwin = WinSize /\ c.chanreq = <<>> /\ ~c.fixed /\ c.inbuf = 0
      /\ ~c.abandoned
  BY <1>1, InitIs
<1>3. Absent = [c EXCEPT !.phase = "none"]
  BY DEF Absent
<1> HIDE DEF c
<1>4. /\ Absent \in Channel /\ Absent.phase = "none" /\ ~Absent.halfopen /\ Absent.closes = {}
      /\ Absent.outbuffer = 0 /\ Absent.locwindow = WinSize /\ Absent.chanreq = <<>> /\ ~Absent.abandoned
      /\ ~Absent.throttling_conn /\ ~Absent.fixed /\ Absent.inbuf = 0 /\ Absent.locmaxwin = WinSize
  BY <1>2, <1>3 DEF Channel
<1>5. Roomy(Absent)
  BY <1>1, <1>4 DEF Roomy
<1>6. Drained(Absent)
  BY <1>4 DEF Drained
<1> QED BY <1>4, <1>5, <1>6

\* The opener asks for the channel.
LEMMA FlowOpen ==
    ASSUME FlowInv, ssh2_lportfwd_open
    PROVE  FlowInv'
<1> DEFINE i == ssh2_channel_init(WinSize, FALSE)
           c == [i EXCEPT !.halfopen = TRUE, !.wanted = FALSE]
           q == Pkt("OPEN", WinSize)
<1>1. TypeOK /\ Opening /\ Ledger /\ Rooms
  BY DEF FlowInv
<1>2. chan \in [Ends -> Channel] /\ net \in [Ends -> Seq(Packet)] /\ "opener" \in Ends /\ "acceptor" \in Ends
  BY <1>1 DEF TypeOK, Ends
<1>3. chan["opener"].phase = "none" /\ chan["acceptor"].phase = "none"
  BY <1>1 DEF ssh2_lportfwd_open, Opening
<1>4. chan["acceptor"] = Absent /\ net["opener"] = <<>> /\ net["acceptor"] = <<>>
  BY <1>1, <1>2, <1>3 DEF Opening, Half
<1>5. WinSize \in Nat
  BY ParamAssumption
<1>6. /\ i \in Channel /\ i.phase = "live" /\ ~i.throttling_conn /\ i.outbuffer = 0 /\ i.remwindow = 0
      /\ i.locwindow = WinSize /\ i.locmaxwin = WinSize /\ i.chanreq = <<>> /\ ~i.fixed /\ i.inbuf = 0
  BY <1>5, InitIs
<1>7. Peer("opener") = "acceptor"
  BY DEF Peer
<1>8. /\ chan' = [chan EXCEPT !["opener"] = c]
      /\ net' = [net EXCEPT !["opener"] = net["opener"], !["acceptor"] = @ \o <<q>>]
  <2>1. Commit("opener", [c |-> c, out |-> <<q>>], net["opener"])
    BY DEF ssh2_lportfwd_open, Call
  <2> HIDE DEF c, q
  <2> QED BY <1>7, <2>1, CommitOf
<1> HIDE DEF i
<1>9. /\ c \in Channel /\ c.phase = "live" /\ c.halfopen /\ ~c.throttling_conn /\ c.outbuffer = 0
      /\ c.remwindow = 0 /\ c.locwindow = WinSize /\ c.locmaxwin = WinSize /\ c.chanreq = <<>>
      /\ ~c.fixed /\ c.inbuf = 0
  BY <1>6 DEF Channel
<1> HIDE DEF c
<1>10. q \in Packet /\ <<>> \o <<q>> = <<q>> /\ <<q>> \in Seq(Packet)
  <2>1. q \in Packet
    BY <1>5 DEF Pkt, Packet
  <2> QED BY <2>1
<1>11. /\ chan'["opener"] = c /\ chan'["acceptor"] = Absent /\ chan' \in [Ends -> Channel]
       /\ net'["opener"] = <<>> /\ net'["acceptor"] = <<q>> /\ net' \in [Ends -> Seq(Packet)]
  BY <1>2, <1>4, <1>8, <1>9, <1>10
<1>12. Rest
  BY <1>1, RestIs DEF ssh2_lportfwd_open
<1>13. TypeOK'
  BY <1>11, <1>12 DEF TypeOK, Rest
<1>14. Half' /\ Asking'
  BY <1>9, <1>11, AbsentIs DEF Half, Asking
<1>15. Opening'
  BY <1>9, <1>11, <1>14, AbsentIs DEF Opening, Ends
<1>16. Ledger'
  BY <1>9, <1>11, AbsentIs DEF Ledger, Ends
<1>17. Roomy(c) /\ Drained(c)
  <2>1. Roomy(c)
    BY <1>5, <1>9 DEF Roomy
  <2> QED BY <1>9, <2>1 DEF Drained
<1>18. Rooms'
  BY <1>11, <1>17, AbsentIs DEF Rooms, Ends
<1>19. \A e \in Ends : Drained(chan'[e])
  BY <1>11, <1>17, AbsentIs DEF Ends
<1> QED BY <1>13, <1>15, <1>16, <1>18, <1>19 DEF FlowInv

\* OPEN comes to the acceptor, while nothing else is under way.
LEMMA OpenArrives ==
    ASSUME FlowInv, NEW e \in Ends, Arrives(e, "OPEN")
    PROVE  e = "acceptor" /\ Half /\ Asking
<1>1. Opening /\ TypeOK /\ e \in {"opener", "acceptor"}
  BY DEF FlowInv, Ends
<1>2. net[e] # <<>> /\ Head(net[e]).type = "OPEN" /\ net[e] \in Seq(Packet)
  BY <1>1 DEF Arrives, TypeOK
<1>3. ASSUME net[e] \in Seq(Body) PROVE FALSE
  <2>1. Head(net[e]) \in Body
    BY <1>2, <1>3
  <2> QED BY <1>2, <2>1 DEF Body
<1>4. Half
  BY <1>1, <1>2, <1>3 DEF Opening
<1>5. Asking \/ Refused \/ Confirmed
  BY <1>1, <1>4 DEF Opening
<1>6. CASE Asking
  BY <1>1, <1>2, <1>4, <1>6 DEF Asking
<1>7. CASE Refused
  <2>1. net[e] = <<Pkt("OPEN_FAILURE", 0)>>
    BY <1>1, <1>2, <1>7 DEF Refused
  <2> QED BY <1>2, <2>1 DEF Pkt
<1>8. CASE Confirmed
  BY <1>1, <1>2, <1>8 DEF Confirmed
<1> QED BY <1>5, <1>6, <1>7, <1>8

\* The acceptor answers with its window, or refuses.
LEMMA FlowRecvOpen ==
    ASSUME FlowInv, NEW e \in Ends, RecvOpen(e)
    PROVE  FlowInv'
<1> DEFINE window == IF setup.fixed > 0 THEN setup.fixed ELSE WinSize
           b == setup.fixed > 0
           i == ssh2_channel_init(window, b)
           c == [i EXCEPT !.remwindow = Head(net[e]).n]
           q == Pkt("OPEN_CONFIRMATION", window)
           f == Pkt("OPEN_FAILURE", 0)
           o == chan["opener"]
<1>1. TypeOK /\ Opening /\ Ledger /\ Rooms
  BY DEF FlowInv
<1>2. chan \in [Ends -> Channel] /\ net \in [Ends -> Seq(Packet)] /\ "opener" \in Ends /\ "acceptor" \in Ends
      /\ setup \in Setup
  BY <1>1 DEF TypeOK, Ends
<1>3. e = "acceptor" /\ Half /\ Asking
  BY OpenArrives DEF RecvOpen
<1>4. /\ chan["acceptor"] = Absent /\ net["acceptor"] = <<Pkt("OPEN", WinSize)>> /\ net["opener"] = <<>>
      /\ o.remwindow = 0 /\ o.inbuf = 0 /\ o.chanreq = <<>> /\ o.phase = "live" /\ o.halfopen
      /\ o \in Channel
  BY <1>1, <1>2, <1>3 DEF Opening, Asking, Half
<1>5. Head(net[e]).n = WinSize /\ Tail(net[e]) = <<>> /\ WinSize \in Nat
  BY <1>3, <1>4, ParamAssumption DEF Pkt
<1>6. window \in Nat /\ (setup.fixed > 0) \in BOOLEAN /\ setup.fixed \in Nat
  BY <1>2, <1>5 DEF Setup
<1>7. Peer("acceptor") = "opener" /\ Peer("opener") = "acceptor"
  BY DEF Peer
<1>8. Rest
  BY <1>1, RestIs DEF RecvOpen
<1>9. o.locwindow = WinSize
  BY <1>1, <1>2, <1>4, AbsentIs DEF Ledger
<1>10. Handled(e, [c |-> c, out |-> <<q>>]) \/ Handled(e, [Work(e) EXCEPT !.out = <<f>>])
  BY DEF RecvOpen
<1>11. CASE Handled(e, [c |-> c, out |-> <<q>>])
  <2>1. /\ chan' = [chan EXCEPT !["acceptor"] = c]
        /\ net' = [net EXCEPT !["acceptor"] = <<>>, !["opener"] = @ \o <<q>>]
    <3>1. Commit("acceptor", [c |-> c, out |-> <<q>>], <<>>)
      BY <1>3, <1>5, <1>11 DEF Handled
    <3> HIDE DEF c, q
    <3> DEFINE out == <<q>>
               rest == <<>>
    <3> HIDE DEF out, rest
    <3>2. Commit("acceptor", [c |-> c, out |-> out], rest)
      BY <3>1 DEF out, rest
    <3>3. /\ chan' = [chan EXCEPT !["acceptor"] = c]
          /\ net' = [net EXCEPT !["acceptor"] = rest, ![Peer("acceptor")] = @ \o out]
      <4> DEFINE x == [c |-> c, out |-> out]
      <4>1. x.c = c /\ x.out = out
        OBVIOUS
      <4> HIDE DEF x
      <4>2. Commit("acceptor", x, rest)
        BY <3>2 DEF x
      <4>3. /\ chan' = [chan EXCEPT !["acceptor"] = x.c]
            /\ net' = [net EXCEPT !["acceptor"] = rest, ![Peer("acceptor")] = @ \o x.out]
        BY <4>2 DEF Commit
      <4> QED BY <4>1, <4>3, Zenon
    <3> QED BY <1>7, <3>3 DEF out, rest
  <2>14. b \in BOOLEAN
    OBVIOUS
  <2> HIDE DEF window, b
  <2>2. /\ i \in Channel /\ i.phase = "live" /\ ~i.halfopen /\ ~i.throttling_conn /\ i.outbuffer = 0
        /\ i.locwindow = window /\ i.locmaxwin = window /\ i.fixed = b /\ i.inbuf = 0
    <3>1. window \in Nat
      BY <1>6
    <3> QED BY <2>14, <3>1, InitIs
  <2> HIDE DEF i
  <2>3. /\ c \in Channel /\ c.phase = "live" /\ ~c.halfopen /\ ~c.throttling_conn /\ c.outbuffer = 0
        /\ c.locwindow = window /\ c.locmaxwin = window /\ c.fixed = b /\ c.inbuf = 0
        /\ c.remwindow = WinSize
    BY <1>5, <2>2 DEF Channel
  <2> HIDE DEF c
  <2>4. q \in Packet /\ q.type = "OPEN_CONFIRMATION" /\ q.n = window
    BY <1>6 DEF Pkt, Packet
  <2> HIDE DEF q
  <2>5. <<>> \o <<q>> = <<q>> /\ <<q>> \in Seq(Packet) /\ Head(<<q>>) = q /\ Tail(<<q>>) = <<>> /\ <<q>> # <<>>
        /\ <<>> \in Seq(Body) /\ <<>> \in Seq(Packet)
    BY <2>4
  <2>6. /\ chan'["acceptor"] = c /\ chan'["opener"] = o /\ chan' \in [Ends -> Channel]
        /\ net'["acceptor"] = <<>> /\ net'["opener"] = <<q>> /\ net' \in [Ends -> Seq(Packet)]
    BY <1>2, <1>4, <2>1, <2>3, <2>5
  <2>7. TypeOK'
    BY <1>8, <2>6 DEF TypeOK, Rest
  <2>8. Half' /\ Confirmed'
    BY <1>4, <2>3, <2>4, <2>5, <2>6 DEF Half, Confirmed
  <2>9. Opening'
    BY <1>4, <2>3, <2>6, <2>8 DEF Opening, Ends
  <2>10. Ledger'
    <3>1. \A type : Total(<<>>, type) = 0
      BY TotalSmall
    <3>2. Total(<<q>>, "OPEN_CONFIRMATION") = window /\ Total(<<q>>, "DATA") = 0
          /\ Total(<<q>>, "WINDOW_ADJUST") = 0
      BY <2>4, TotalSmall
    <3>3. Covered(o, <<q>>, <<>>, c.locwindow)
      BY <1>4, <1>6, <2>3, <3>1, <3>2 DEF Covered, Claim
    <3>4. Covered(c, <<>>, <<q>>, o.locwindow)
      BY <1>5, <1>9, <2>3, <3>1, <3>2 DEF Covered, Claim
    <3> QED BY <1>7, <2>3, <2>6, <3>3, <3>4 DEF Ledger, Ends
  <2>11. setup.fixed = 0 => Roomy(c) /\ Roomy(o)
    <3>1. setup.fixed = 0 => ~c.fixed
      <4>1. setup.fixed = 0 => ~b
        BY DEF b
      <4> QED BY <2>3, <4>1, Zenon
    <3>2. c.inbuf + c.locwindow <= c.locmaxwin
      BY <1>6, <2>3
    <3> QED BY <1>1, <1>2, <2>3, <3>1, <3>2 DEF Rooms, Roomy
  <2>12. Rooms'
    BY <1>8, <2>6, <2>11 DEF Rooms, Ends, Rest
  <2>13. Forwarded' => \A p \in Ends : Drained(chan'[p])
    <3>1. Drained(c)
      BY <2>3 DEF Drained
    <3>2. Forwarded' = Forwarded
      BY <1>8 DEF Rest, Forwarded
    <3> QED BY <1>2, <2>6, <3>1, <3>2 DEF FlowInv, Ends
  <2> QED BY <2>7, <2>9, <2>10, <2>12, <2>13 DEF FlowInv
<1>12. CASE Handled(e, [Work(e) EXCEPT !.out = <<f>>])
  <2>1. /\ chan' = [chan EXCEPT !["acceptor"] = chan["acceptor"]]
        /\ net' = [net EXCEPT !["acceptor"] = <<>>, !["opener"] = @ \o <<f>>]
    BY <1>3, <1>5, <1>7, <1>12 DEF Handled, Commit, Work
  <2>2. f \in Packet
    BY DEF Pkt, Packet
  <2>3. <<>> \o <<f>> = <<f>> /\ <<f>> \in Seq(Packet) /\ <<>> \in Seq(Packet)
    BY <2>2
  <2>4. /\ chan' = chan
        /\ net'["acceptor"] = <<>> /\ net'["opener"] = <<f>> /\ net' \in [Ends -> Seq(Packet)]
    BY <1>2, <1>4, <2>1, <2>3
  <2>5. TypeOK'
    BY <1>2, <1>8, <2>4 DEF TypeOK, Rest
  <2>6. Half' /\ Refused'
    BY <1>3, <1>4, <2>4, AbsentIs DEF Half, Refused
  <2>7. Opening'
    BY <1>1, <1>4, <2>4, <2>6, AbsentIs DEF Opening
  <2>8. Ledger'
    BY <1>1, <1>4, <2>4, AbsentIs DEF Ledger
  <2>9. Rooms' /\ (Forwarded' => \A p \in Ends : Drained(chan'[p]))
    BY <1>1, <1>8, <2>4 DEF Rooms, FlowInv, Forwarded, Rest
  <2> QED BY <2>5, <2>7, <2>8, <2>9 DEF FlowInv
<1> QED BY <1>10, <1>11, <1>12

\* An answer to CHANNEL_OPEN comes to the opener.
LEMMA AnswerArrives ==
    ASSUME FlowInv, NEW e \in Ends, net[e] # <<>>, Head(net[e]).type \in {"OPEN_CONFIRMATION", "OPEN_FAILURE"}
    PROVE  /\ e = "opener" /\ Half
           /\ Head(net[e]).type = "OPEN_CONFIRMATION" => Confirmed
           /\ Head(net[e]).type = "OPEN_FAILURE" => Refused
<1>1. Opening /\ TypeOK /\ e \in {"opener", "acceptor"}
  BY DEF FlowInv, Ends
<1>2. net[e] \in Seq(Packet)
  BY <1>1 DEF TypeOK
<1>3. ASSUME net[e] \in Seq(Body) PROVE FALSE
  <2>1. Head(net[e]) \in Body
    BY <1>2, <1>3
  <2> QED BY <2>1 DEF Body
<1>4. Half
  BY <1>1, <1>2, <1>3 DEF Opening
<1>5. Asking \/ Refused \/ Confirmed
  BY <1>1, <1>4 DEF Opening
<1>6. CASE Asking
  <2>1. net[e] = <<Pkt("OPEN", WinSize)>>
    BY <1>1, <1>6 DEF Asking
  <2> QED BY <2>1 DEF Pkt
<1>7. CASE Refused
  <2>1. net[e] = <<Pkt("OPEN_FAILURE", 0)>> /\ e = "opener"
    BY <1>1, <1>7 DEF Refused
  <2> QED BY <1>4, <1>7, <2>1 DEF Pkt
<1>8. CASE Confirmed
  BY <1>1, <1>4, <1>8 DEF Confirmed
<1> QED BY <1>5, <1>6, <1>7, <1>8

\* What the Channel does on confirmation touches no output.
LEMMA TameConfirmed ==
    ASSUME NEW x \in WorkRec, NEW e
    PROVE  Tame(x.c, chan_open_confirmation(e, x).c)
<1>1. x.c \in Channel
  BY DEF WorkRec
<1> DEFINE l == x.c.chanreq \o [i \in 1 .. setup.openrequests |-> 0]
           o == x.out \o [i \in 1 .. setup.openrequests |-> Pkt("REQUEST", 1)]
           c == [x.c EXCEPT !.chanreq = l]
           d == [x.c EXCEPT !.wanted = TRUE]
<1>2. chan_open_confirmation(e, x) \in {x, [c |-> c, out |-> o], With(x, d)}
  BY DEF chan_open_confirmation
<1> HIDE DEF l, o
<1>3. Tame(x.c, c) /\ Tame(x.c, d) /\ Tame(x.c, x.c)
  BY <1>1 DEF Tame, Channel
<1>4. d \in Channel
  BY <1>1 DEF Channel
<1> HIDE DEF c, d
<1>5. With(x, d).c = d
  BY <1>4, WithIs
<1> QED BY <1>2, <1>3, <1>5

\* The opener hears that its channel is open.
LEMMA FlowRecvOpenConfirmation ==
    ASSUME FlowInv, NEW e \in Ends, RecvOpenConfirmation(e)
    PROVE  FlowInv'
<1> DEFINE q == Head(net[e])
           rest == Tail(net[e])
           o == chan[e]
           w == [o EXCEPT !.halfopen = FALSE, !.remwindow = q.n]
           x == With(Work(e), w)
           y == chan_open_confirmation(e, x)
           z == ssh2_channel_check_close(y)
<1>1. net[e] # <<>> /\ q.type = "OPEN_CONFIRMATION"
  BY DEF RecvOpenConfirmation, Arrives
<1>2. e = "opener" /\ Half /\ Confirmed
  BY <1>1, AnswerArrives
<1>3. TypeOK /\ Opening /\ Rooms /\ Rest
  BY RestIs DEF FlowInv, RecvOpenConfirmation
<1>4. net[e] \in Seq(Packet) /\ q \in Packet /\ q.n \in Nat /\ rest \in Seq(Body)
  <2>1. net[e] \in Seq(Packet)
    BY <1>3 DEF TypeOK
  <2>2. q \in Packet
    BY <1>1, <2>1
  <2> QED BY <1>2, <2>1, <2>2 DEF Confirmed, Packet
<1>5. /\ o \in Channel /\ Work(e) \in WorkRec /\ Work(e).out = <<>> /\ o.phase = "live" /\ o.halfopen
      /\ o.remwindow = 0 /\ o.inbuf = 0 /\ setup \in Setup /\ chan["acceptor"].phase # "none"
  BY <1>2, <1>3, FlowWork DEF Half, Opening, TypeOK, Confirmed
<1>6. /\ w \in Channel /\ w.phase = "live" /\ ~w.halfopen /\ w.remwindow = q.n
      /\ w.closes = o.closes /\ w.locwindow = o.locwindow /\ w.inbuf = o.inbuf
      /\ w.outbuffer = o.outbuffer /\ w.fixed = o.fixed /\ w.throttling_conn = o.throttling_conn
      /\ w.locmaxwin = o.locmaxwin
  BY <1>4, <1>5 DEF Channel
<1>7. \A type : Total(net[e], type) = (IF q.type = type THEN q.n ELSE 0) + Total(rest, type)
  BY <1>1, <1>4, TotalTail
<1>8. Total(rest, "OPEN_CONFIRMATION") = 0 /\ rest \in Seq(Packet) /\ \A type : Total(rest, type) \in Nat
  BY <1>4, BodySeq
<1>9. /\ Total(net[e], "OPEN_CONFIRMATION") = q.n /\ Total(net[e], "DATA") = Total(rest, "DATA")
      /\ Total(net[e], "WINDOW_ADJUST") = Total(rest, "WINDOW_ADJUST")
  <2> HIDE DEF q, rest
  <2> QED BY <1>1, <1>4, <1>7, <1>8
<1> HIDE DEF q, w, rest
<1>10. Started(o, net[e], w, rest)
  <2>1. Given(w, rest) = Given(o, net[e])
    BY <1>4, <1>5, <1>6, <1>8, <1>9 DEF Given
  <2> QED BY <1>6, <1>8, <1>9, <2>1 DEF Started
<1>11. x \in WorkRec /\ x.c = w /\ x.out = <<>>
  BY <1>5, <1>6, WithIs
<1>12. setup.fixed = 0 => Roomy(w)
  <2>1. setup.fixed = 0 => Roomy(o)
    BY <1>3 DEF Rooms
  <2> HIDE DEF o
  <2> QED BY <1>6, <2>1 DEF Roomy
<1>13. Flow(w, x)
  <2>1. \A type : Total(<<>>, type) = 0
    BY TotalSmall
  <2>2. w.remwindow \in Nat /\ w.locwindow \in Int
    BY <1>6 DEF Channel
  <2> HIDE DEF x
  <2> QED BY <1>6, <1>11, <1>12, <2>1, <2>2 DEF Flow
<1> HIDE DEF x
<1>14. setup.openrequests \in Nat
  BY <1>5 DEF Setup
<1>15. Flow(w, y) /\ Tame(w, y.c)
  BY <1>6, <1>11, <1>13, <1>14, FlowConfirmed, TameConfirmed
<1>16. y \in WorkRec
  BY <1>15 DEF Flow
<1> HIDE DEF y
<1>17. Flow(w, z) /\ Tame(y.c, z.c)
  BY <1>6, <1>15, <1>16, FlowCheckClose, TameCheckClose
<1>18. z \in WorkRec
  BY <1>17 DEF Flow
<1>19. Handled(e, ssh2_channel_try_eof(z)) \/ Handled(e, z)
  BY DEF RecvOpenConfirmation, z, y, x, w, q
<1> HIDE DEF z
<1>20. Flow(w, ssh2_channel_try_eof(z)) /\ Tame(z.c, ssh2_channel_try_eof(z).c)
  BY <1>6, <1>17, <1>18, FlowTryEof, TameTryEof
<1>21. Forwarded => Drained(w)
  <2>1. Forwarded => Drained(o)
    BY DEF FlowInv
  <2>2. Forwarded => ~(o.outbuffer > 0)
    BY <1>5, <2>1 DEF Drained
  <2> QED BY <1>6, <2>2 DEF Drained
<1>22. Tame(w, z.c) /\ Tame(w, ssh2_channel_try_eof(z).c)
  BY <1>15, <1>17, <1>20, TameIs
<1>23. \E v : Flow(w, v) /\ Commit(e, v, rest) /\ Tame(w, v.c)
  BY <1>17, <1>19, <1>20, <1>22 DEF Handled, rest
<1>24. PICK v : Flow(w, v) /\ Commit(e, v, rest) /\ Tame(w, v.c)
  BY <1>23
<1>25. Forwarded => Drained(v.c)
  BY <1>21, <1>24, TameIs
<1> QED BY <1>2, <1>3, <1>4, <1>5, <1>6, <1>10, <1>24, <1>25, FlowCommit

\* The opener hears that its channel was refused.
LEMMA FlowRecvOpenFailure ==
    ASSUME FlowInv, NEW e \in Ends, RecvOpenFailure(e)
    PROVE  FlowInv'
<1> DEFINE o == chan["opener"]
           c == [o EXCEPT !.phase = "gone", !.inbuf = 0, !.outbuffer = 0, !.zombie = TRUE,
                          !.abandoned = @ \/ o.outbuffer > 0]
           x == ssh2_channel_destroy(Work(e))
<1>1. net[e] # <<>> /\ Head(net[e]).type = "OPEN_FAILURE"
  BY DEF RecvOpenFailure, Arrives
<1>2. e = "opener" /\ Half /\ Refused
  BY <1>1, AnswerArrives
<1>3. TypeOK /\ Opening /\ Rooms /\ Ledger /\ Rest
  BY RestIs DEF FlowInv, RecvOpenFailure
<1>4. /\ o \in Channel /\ o.phase = "live" /\ Work(e) \in WorkRec /\ Work(e).out = <<>> /\ Work(e).c = o
      /\ o.inbuf = 0 /\ chan["acceptor"].phase = "none" /\ chan["acceptor"] = Absent
      /\ net["acceptor"] = <<>> /\ net["opener"] = <<Pkt("OPEN_FAILURE", 0)>>
  BY <1>2, <1>3, FlowWork DEF Half, Opening, Refused, Ends
<1>5. o.outbuffer \in Nat /\ o.abandoned \in BOOLEAN
  BY <1>4 DEF Channel
<1>6. /\ c \in Channel /\ c.phase = "gone" /\ c.inbuf = 0 /\ c.locwindow = o.locwindow
      /\ c.fixed = o.fixed /\ c.throttling_conn = o.throttling_conn /\ c.locmaxwin = o.locmaxwin
  <2> HIDE DEF o
  <2>1. o \in Channel
    BY <1>4
  <2>2. c \in Channel
    BY <2>1 DEF Channel
  <2> QED BY <2>1, <2>2 DEF Channel
<1>7. x = With(Work(e), c)
  BY <1>4 DEF ssh2_channel_destroy
<1>8. Commit(e, x, Tail(net[e]))
  BY DEF RecvOpenFailure, Handled
<1> HIDE DEF c, x
<1>9. x \in WorkRec /\ x.c = c /\ x.out = <<>>
  BY <1>4, <1>6, <1>7, WithIs
<1>10. Tail(net[e]) = <<>> /\ <<>> \in Seq(Packet) /\ <<>> \o <<>> = <<>>
  <2>1. \A q : Tail(<<q>>) = <<>>
    OBVIOUS
  <2> QED BY <1>2, <1>4, <2>1
<1>11. /\ chan' \in [Ends -> Channel] /\ net' \in [Ends -> Seq(Packet)]
       /\ chan'["opener"] = c /\ chan'["acceptor"] = Absent
       /\ net'["opener"] = <<>> /\ net'["acceptor"] = <<>>
  <2>1. Peer("opener") = "acceptor"
    BY DEF Peer
  <2>2. /\ chan' \in [Ends -> Channel] /\ net' \in [Ends -> Seq(Packet)]
        /\ chan'[e] = x.c /\ chan'[Peer(e)] = chan[Peer(e)]
        /\ net'[e] = Tail(net[e]) /\ net'[Peer(e)] = net[Peer(e)] \o x.out
    BY <1>3, <1>8, <1>9, <1>10, CommitIs
  <2> QED BY <1>2, <1>4, <1>9, <1>10, <2>1, <2>2
<1>12. TypeOK'
  BY <1>3, <1>11 DEF TypeOK, Rest
<1>13. Opening'
  BY <1>6, <1>11, AbsentIs DEF Opening, Half, Ends
<1>14. Ledger'
  BY <1>3, <1>4, <1>6, <1>11, AbsentIs DEF Ledger, Ends
<1>15. Rooms'
  <2>1. setup.fixed = 0 => Roomy(o)
    BY <1>3 DEF Rooms, Ends
  <2>2. setup.fixed = 0 => Roomy(c)
    <3> HIDE DEF o
    <3> QED BY <1>4, <1>6, <2>1 DEF Roomy
  <2> QED BY <1>3, <1>11, <2>2, AbsentIs DEF Rooms, Ends, Rest
<1>16. Drained(c) /\ Drained(Absent)
  BY <1>6, AbsentIs DEF Drained
<1>17. \A p \in Ends : Drained(chan'[p])
  BY <1>11, <1>16 DEF Ends
<1> QED BY <1>12, <1>13, <1>14, <1>15, <1>17 DEF FlowInv

\* At first there is no channel.
LEMMA FlowInit == Init => FlowInv
<1> SUFFICES ASSUME Init PROVE FlowInv
  OBVIOUS
<1>1. chan = [e \in Ends |-> Absent] /\ net = [e \in Ends |-> <<>>]
  BY DEF Init, Absent
<1>2. \A e \in Ends : chan[e] = Absent /\ net[e] = <<>>
  BY <1>1
<1>3. TypeOK
  <2>1. <<>> \in Seq(Packet) /\ FALSE \in BOOLEAN /\ 0 \in Nat
    OBVIOUS
  <2>2. chan \in [Ends -> Channel] /\ net \in [Ends -> Seq(Packet)]
    BY <1>1, <2>1, AbsentIs
  <2>3. setup \in Setup
    BY ParamAssumption DEF Init
  <2> QED BY <2>1, <2>2, <2>3 DEF Init, TypeOK
<1>4. "opener" \in Ends /\ "acceptor" \in Ends
  BY DEF Ends
<1>5. Opening
  BY <1>2, <1>4, AbsentIs DEF Opening, Half
<1>6. Ledger
  BY <1>2, <1>4, AbsentIs DEF Ledger
<1>7. Rooms
  BY <1>2, AbsentIs DEF Rooms
<1> QED BY <1>2, <1>3, <1>5, <1>6, <1>7, AbsentIs DEF FlowInv

\* Every step keeps the accounts.
LEMMA FlowNext == FlowInv /\ [Next]_vars => FlowInv'
<1> SUFFICES ASSUME FlowInv, [Next]_vars PROVE FlowInv'
  OBVIOUS
<1>1. CASE ssh2_lportfwd_open
  BY <1>1, FlowOpen
<1>2. ASSUME NEW e \in Ends, Recv(e) PROVE FlowInv'
  BY <1>2, FlowRecvOpen, FlowRecvOpenConfirmation, FlowRecvOpenFailure, FlowRecvData,
     FlowRecvWindowAdjust, FlowRecvPlain DEF Recv
<1>3. ASSUME NEW e \in Ends, ProtoError(e) PROVE FlowInv'
  BY <1>3, FlowProtoError
<1>4. ASSUME NEW e \in Ends, ssh2_connection_got_user_input(e) PROVE FlowInv'
  BY <1>4, FlowUserInput
<1>5. ASSUME NEW e \in Ends, pfd_receive(e) PROVE FlowInv'
  BY <1>5, FlowReceive
<1>6. ASSUME NEW e \in Ends, SourceEof(e) PROVE FlowInv'
  BY <1>6, FlowSourceEof
<1>7. ASSUME NEW e \in Ends, ssh2channel_initiate_close(e) PROVE FlowInv'
  BY <1>7, FlowInitiateClose
<1>8. ASSUME NEW e \in Ends, ssh2channel_unthrottle(e) PROVE FlowInv'
  BY <1>8, FlowUnthrottleChan
<1>9. ASSUME NEW e \in Ends, mainchan_terminal_size(e) PROVE FlowInv'
  BY <1>9, FlowTerminalSize
<1>10. ASSUME NEW e \in Ends, ssh2_throttle_all_channels(e) PROVE FlowInv'
  BY <1>10, FlowThrottleAll
<1>11. CASE UNCHANGED vars
  <2>1. Rest
    BY <1>11, RestIs DEF FlowInv, vars
  <2> QED BY <1>11, <2>1, FlowStill DEF vars
<1> QED BY <1>1, <1>2, <1>3, <1>4, <1>5, <1>6, <1>7, <1>8, <1>9, <1>10, <1>11 DEF Next

\* What the invariant says of the windows.
LEMMA FlowSound == FlowInv => FlowControlSound
<1> SUFFICES ASSUME FlowInv PROVE FlowControlSound
  OBVIOUS
<1>1. TypeOK /\ Opening /\ Ledger /\ Rooms
  BY DEF FlowInv
<1>2. WindowsAgree
  <2> SUFFICES ASSUME NEW e \in Ends, BothLive(e), "SENT_EOF" \notin chan[Peer(e)].closes
               PROVE  chan[e].locwindow = chan[Peer(e)].remwindow + Total(net[e], "DATA")
                          + Total(net[Peer(e)], "WINDOW_ADJUST") + Total(net[Peer(e)], "OPEN_CONFIRMATION")
    BY DEF WindowsAgree
  <2>1. Peer(e) \in Ends /\ Peer(Peer(e)) = e
    BY PeerIs
  <2>2. chan["acceptor"].phase # "none"
    BY DEF BothLive, Peer, Ends
  <2>3. Covered(chan[Peer(e)], net[Peer(e)], net[e], chan[e].locwindow)
    BY <1>1, <2>1, <2>2 DEF Ledger
  <2> DEFINE a == chan[Peer(e)].remwindow
             d == Total(net[e], "DATA")
             g == Total(net[Peer(e)], "WINDOW_ADJUST")
             k == Total(net[Peer(e)], "OPEN_CONFIRMATION")
  <2>4. chan[e].locwindow = a + d + k + g
    BY <2>3 DEF Covered, Claim
  <2>5. a \in Nat /\ d \in Nat /\ g \in Nat /\ k \in Nat
    <3>1. chan[Peer(e)] \in Channel /\ net[e] \in Seq(Packet) /\ net[Peer(e)] \in Seq(Packet)
      BY <1>1, <2>1 DEF TypeOK
    <3> QED BY <3>1, TotalNat DEF Channel
  <2> HIDE DEF a, d, g, k
  <2>6. chan[e].locwindow = a + d + g + k
    BY <2>4, <2>5
  <2> QED BY <2>6 DEF a, d, g, k
<1>3. NoOverrun
  BY <1>1, WindowCovers DEF NoOverrun, Rooms, Roomy
<1>4. NoIdleBacklog
  BY DEF FlowInv, NoIdleBacklog, Drained
<1> QED BY <1>1, <1>2, <1>3, <1>4 DEF FlowControlSound

\* The accounts of both ends always agree: window, data and adjustments under
\* way are neither created nor lost by any handler of ssh2connection.c.
THEOREM FlowInvariant == Spec => []FlowInv
<1>1. FlowInv /\ [Next]_vars => FlowInv'
  BY FlowNext
<1> QED BY <1>1, FlowInit, PTL DEF Spec

\* Flow control is sound for every window size, packet size and kind of
\* channel: no count is negative, both ends agree on the windows, no end
\* overruns the other, and no output of a forwarding waits while there is
\* window for it (ssh2_set_window, ssh2_try_send, filter_queue).
THEOREM FlowControlIsSound == Spec => []FlowControlSound
BY FlowInvariant, FlowSound, PTL

-----------------------------------------------------------------------------
(* The end of a channel that forwards a socket: EOF, CLOSE and the         *)
(* requests still to be answered.  A handler takes its end from a channel  *)
(* c to a channel d and sends the packets t on the way: Moves(c, d, t)     *)
(* says what every C function does to the flags and to the order of the    *)
(* packets, and is transitive, so that a nested call is a step of its      *)
(* caller.                                                                 *)

\* Nothing but DATA before EOF, nothing at all after CLOSE.
Orderly(s, closes) ==
    \A i \in DOMAIN s :
        /\ s[i].type = "EOF" => /\ "SENT_EOF" \in closes
                                /\ \A j \in DOMAIN s : s[j].type = "DATA" => j < i
        /\ s[i].type = "CLOSE" => "SENT_CLOSE" \in closes /\ i = Len(s)

NoData(s) == \A i \in DOMAIN s : s[i].type # "DATA"

\* The flags of one end of a forwarding.
Steady(c) ==
    /\ "SENT_CLOSE" \in c.closes => "SENT_EOF" \in c.closes
    /\ "SENT_EOF" \in c.closes /\ ~c.abandoned => c.outbuffer = 0
    /\ c.phase = "live" =>
           /\ c.pending_eof => "SENT_EOF" \notin c.closes
           /\ c.zombie => ~c.pending_eof /\ c.abandoned
           /\ c.halfopen => c.closes = {} /\ c.chanreq = <<>>

\* A socket whose EOF has been sent, or is to be, is not read any more.
Quiet(c) ==
    c.phase = "live" =>
        /\ ~c.zombie /\ (c.pending_eof \/ "SENT_EOF" \in c.closes) => c.srceof \/ ~c.wanted
        /\ c.halfopen /\ c.pending_eof => c.srceof

\* e has seen only what its peer has sent, and nothing comes after it.
Seen(c, r, d) ==
    /\ "RCVD_EOF" \in c.closes => "SENT_EOF" \in d.closes /\ NoData(r)
    /\ "RCVD_CLOSE" \in c.closes => "SENT_CLOSE" \in d.closes /\ r = <<>>

\* Every reply that comes was asked for.
Answered(c, r, s, d) ==
    Total(r, "REPLY") + (IF "SENT_CLOSE" \in d.closes THEN 0 ELSE Total(s, "REQUEST"))
        <= Len(c.chanreq)

EndInv ==
    \A e \in Ends :
        /\ Steady(chan[e]) /\ Quiet(chan[e])
        /\ Orderly(net[Peer(e)], chan[e].closes)
        /\ Seen(chan[e], net[e], chan[Peer(e)])
        /\ Answered(chan[e], net[e], net[Peer(e)], chan[Peer(e)])
        /\ chan[e].phase = "gone" /\ chan["acceptor"].phase # "none"
           => {"SENT_CLOSE", "RCVD_CLOSE"} \subseteq chan[e].closes
        /\ ~error[e]

\* What e's user has written has arrived, is under way or is still buffered.
DataInv ==
    \A e \in Ends :
        ~chan[e].abandoned
        => written[e] = delivered[Peer(e)] + Total(net[Peer(e)], "DATA") + chan[e].outbuffer

\* No forwarding's socket is unfrozen before the channel is open.
FrozenWhileOpening ==
    \A e \in Ends : chan[e].phase = "live" /\ chan[e].halfopen => ~chan[e].wanted
-----------------------------------------------------------------------------
(* Sequences of packets. *)

\* The elements of a concatenation, by the side they come from.
LEMMA ConcatOf ==
    ASSUME NEW s \in Seq(Packet), NEW t \in Seq(Packet)
    PROVE  /\ s \o t \in Seq(Packet) /\ Len(s \o t) = Len(s) + Len(t)
           /\ Len(s) \in Nat /\ Len(t) \in Nat
           /\ \A i \in DOMAIN s : i \in DOMAIN (s \o t) /\ (s \o t)[i] = s[i]
           /\ \A i \in DOMAIN t : i + Len(s) \in DOMAIN (s \o t) /\ (s \o t)[i + Len(s)] = t[i]
           /\ \A i \in DOMAIN (s \o t) :
                  i \in DOMAIN s \/ (i > Len(s) /\ i - Len(s) \in DOMAIN t /\ (s \o t)[i] = t[i - Len(s)])
<1>1. s \o t \in Seq(Packet) /\ Len(s \o t) = Len(s) + Len(t) /\ Len(s) \in Nat /\ Len(t) \in Nat
  OBVIOUS
<1>2. DOMAIN s = 1 .. Len(s) /\ DOMAIN t = 1 .. Len(t) /\ DOMAIN (s \o t) = 1 .. Len(s) + Len(t)
  BY <1>1
<1>3. \A i \in 1 .. Len(s) + Len(t) : (s \o t)[i] = IF i <= Len(s) THEN s[i] ELSE t[i - Len(s)]
  OBVIOUS
<1>4. \A i \in DOMAIN s : i \in DOMAIN (s \o t) /\ (s \o t)[i] = s[i]
  BY <1>1, <1>2, <1>3
<1>5. ASSUME NEW i \in DOMAIN t PROVE i + Len(s) \in DOMAIN (s \o t) /\ (s \o t)[i + Len(s)] = t[i]
  <2>1. i \in 1 .. Len(t) /\ i + Len(s) \in 1 .. Len(s) + Len(t) /\ ~(i + Len(s) <= Len(s))
        /\ (i + Len(s)) - Len(s) = i
    BY <1>1, <1>2
  <2> QED BY <1>2, <1>3, <2>1
<1>6. ASSUME NEW i \in DOMAIN (s \o t)
      PROVE  i \in DOMAIN s \/ (i > Len(s) /\ i - Len(s) \in DOMAIN t /\ (s \o t)[i] = t[i - Len(s)])
  BY <1>1, <1>2, <1>3
<1> QED BY <1>1, <1>4, <1>5, <1>6

\* No data in either part.
LEMMA NoDataConcat ==
    ASSUME NEW s \in Seq(Packet), NEW t \in Seq(Packet), NoData(s), NoData(t)
    PROVE  NoData(s \o t)
<1> DEFINE u == s \o t
<1>1. /\ \A i \in DOMAIN s : u[i] = s[i]
      /\ \A i \in DOMAIN u : i \in DOMAIN s \/ (i - Len(s) \in DOMAIN t /\ u[i] = t[i - Len(s)])
  BY ConcatOf
<1> HIDE DEF u
<1>2. NoData(u)
  BY <1>1 DEF NoData
<1> QED BY <1>2 DEF u

\* Packets in order, followed by packets in order from an end that stands by
\* what it has said.
LEMMA OrderlyConcat ==
    ASSUME NEW s \in Seq(Packet), NEW t \in Seq(Packet), NEW a, NEW b,
           Orderly(s, a), Orderly(t, b), a \subseteq b,
           "SENT_EOF" \in a => NoData(t), "SENT_CLOSE" \in a => t = <<>>
    PROVE  Orderly(s \o t, b)
<1> DEFINE u == s \o t
<1>1. /\ u \in Seq(Packet) /\ Len(u) = Len(s) + Len(t) /\ Len(s) \in Nat /\ Len(t) \in Nat
      /\ \A i \in DOMAIN s : i \in DOMAIN u /\ u[i] = s[i]
      /\ \A i \in DOMAIN u : i \in DOMAIN s \/ (i > Len(s) /\ i - Len(s) \in DOMAIN t /\ u[i] = t[i - Len(s)])
  BY ConcatOf
<1>2. \A i \in DOMAIN s : i \in 1 .. Len(s)
  OBVIOUS
<1>3. \A i \in DOMAIN t : i \in 1 .. Len(t)
  OBVIOUS
<1>4. \A i \in DOMAIN u : i \in Nat
  OBVIOUS
<1> HIDE DEF u
<1>5. ASSUME NEW i \in DOMAIN u, u[i].type = "EOF"
      PROVE  "SENT_EOF" \in b /\ \A j \in DOMAIN u : u[j].type = "DATA" => j < i
  <2>1. CASE i \in DOMAIN s
    <3>1. s[i].type = "EOF"
      BY <1>1, <1>5, <2>1
    <3>2. "SENT_EOF" \in a /\ \A j \in DOMAIN s : s[j].type = "DATA" => j < i
      BY <2>1, <3>1 DEF Orderly
    <3>3. ASSUME NEW j \in DOMAIN u, u[j].type = "DATA" PROVE j \in DOMAIN s
      BY <1>1, <3>2, <3>3 DEF NoData
    <3> QED BY <1>1, <3>2, <3>3
  <2>2. CASE i \notin DOMAIN s
    <3>1. i > Len(s) /\ i - Len(s) \in DOMAIN t /\ t[i - Len(s)].type = "EOF"
      BY <1>1, <1>5, <2>2
    <3>2. "SENT_EOF" \in b /\ \A j \in DOMAIN t : t[j].type = "DATA" => j < i - Len(s)
      BY <3>1 DEF Orderly
    <3>3. ASSUME NEW j \in DOMAIN u, u[j].type = "DATA" PROVE j < i
      <4>1. CASE j \in DOMAIN s
        <5>1. j \in 1 .. Len(s)
          BY <1>2, <4>1
        <5> QED BY <1>1, <1>4, <3>1, <5>1
      <4>2. CASE j \notin DOMAIN s
        <5>1. j - Len(s) \in DOMAIN t /\ t[j - Len(s)].type = "DATA"
          BY <1>1, <3>3, <4>2
        <5>2. j - Len(s) < i - Len(s)
          BY <3>2, <5>1
        <5> QED BY <1>1, <1>4, <5>2
      <4> QED BY <4>1, <4>2
    <3> QED BY <3>2, <3>3
  <2> QED BY <2>1, <2>2
<1>6. ASSUME NEW i \in DOMAIN u, u[i].type = "CLOSE"
      PROVE  "SENT_CLOSE" \in b /\ i = Len(u)
  <2>1. CASE i \in DOMAIN s
    <3>1. s[i].type = "CLOSE"
      BY <1>1, <1>6, <2>1
    <3>2. "SENT_CLOSE" \in a /\ i = Len(s)
      BY <2>1, <3>1 DEF Orderly
    <3>3. t = <<>>
      BY <3>2
    <3>4. Len(t) = 0
      BY <3>3
    <3> QED BY <1>1, <3>2, <3>4
  <2>2. CASE i \notin DOMAIN s
    <3>1. i > Len(s) /\ i - Len(s) \in DOMAIN t /\ t[i - Len(s)].type = "CLOSE"
      BY <1>1, <1>6, <2>2
    <3>2. "SENT_CLOSE" \in b /\ i - Len(s) = Len(t)
      BY <3>1 DEF Orderly
    <3> QED BY <1>1, <1>4, <3>2
  <2> QED BY <2>1, <2>2
<1>7. Orderly(u, b)
  BY <1>5, <1>6 DEF Orderly
<1> QED BY <1>7 DEF u

\* What is left when the first packet has been taken is still in order.
LEMMA TailOf ==
    ASSUME NEW s \in Seq(Packet), s # <<>>
    PROVE  /\ Tail(s) \in Seq(Packet) /\ Head(s) = s[1] /\ 1 \in DOMAIN s
           /\ Len(s) \in Nat /\ Len(Tail(s)) = Len(s) - 1
           /\ \A i \in DOMAIN Tail(s) : i \in Nat /\ i + 1 \in DOMAIN s /\ Tail(s)[i] = s[i + 1] /\ i + 1 # 1
<1>1. Len(s) \in Nat /\ Len(s) # 0 /\ DOMAIN s = 1 .. Len(s)
  OBVIOUS
<1>2. Tail(s) \in Seq(Packet) /\ Len(Tail(s)) = Len(s) - 1 /\ Head(s) = s[1]
  BY <1>1
<1>3. DOMAIN Tail(s) = 1 .. Len(s) - 1
  BY <1>2
<1>4. \A i \in 1 .. Len(s) - 1 : Tail(s)[i] = s[i + 1]
  BY <1>1
<1> QED BY <1>1, <1>2, <1>3, <1>4

\* An order kept by what follows.
LEMMA OrderlyTail ==
    ASSUME NEW s \in Seq(Packet), s # <<>>, NEW a, Orderly(s, a)
    PROVE  /\ Orderly(Tail(s), a)
           /\ NoData(s) => NoData(Tail(s))
           /\ Head(s).type = "EOF" => "SENT_EOF" \in a /\ NoData(Tail(s))
           /\ Head(s).type = "CLOSE" => "SENT_CLOSE" \in a /\ Tail(s) = <<>>
<1> DEFINE t == Tail(s)
<1>1. /\ t \in Seq(Packet) /\ Head(s) = s[1] /\ 1 \in DOMAIN s /\ Len(s) \in Nat /\ Len(t) = Len(s) - 1
      /\ \A i \in DOMAIN t : i \in Nat /\ i + 1 \in DOMAIN s /\ t[i] = s[i + 1] /\ i + 1 # 1
  BY TailOf
<1>2. \A i \in DOMAIN t : i \in 1 .. Len(t)
  OBVIOUS
<1>3. Len(t) = 0 => t = <<>>
  <2> HIDE DEF t
  <2> QED BY <1>1
<1> HIDE DEF t
<1>4. Orderly(t, a)
  <2>1. ASSUME NEW i \in DOMAIN t, t[i].type = "EOF"
        PROVE  "SENT_EOF" \in a /\ \A j \in DOMAIN t : t[j].type = "DATA" => j < i
    <3>1. "SENT_EOF" \in a /\ \A j \in DOMAIN s : s[j].type = "DATA" => j < i + 1
      BY <1>1, <2>1 DEF Orderly
    <3>2. ASSUME NEW j \in DOMAIN t, t[j].type = "DATA" PROVE j < i
      <4>1. j + 1 < i + 1 /\ j \in Nat /\ i \in Nat
        BY <1>1, <3>1, <3>2
      <4> QED BY <4>1
    <3> QED BY <3>1, <3>2
  <2>2. ASSUME NEW i \in DOMAIN t, t[i].type = "CLOSE"
        PROVE  "SENT_CLOSE" \in a /\ i = Len(t)
    <3>1. "SENT_CLOSE" \in a /\ i + 1 = Len(s) /\ i \in Nat
      BY <1>1, <2>2 DEF Orderly
    <3> QED BY <1>1, <3>1
  <2> QED BY <2>1, <2>2 DEF Orderly
<1>5. NoData(s) => NoData(t)
  BY <1>1 DEF NoData
<1>6. Head(s).type = "EOF" => "SENT_EOF" \in a /\ NoData(t)
  <2> SUFFICES ASSUME s[1].type = "EOF" PROVE "SENT_EOF" \in a /\ NoData(t)
    BY <1>1
  <2>1. "SENT_EOF" \in a /\ \A j \in DOMAIN s : s[j].type = "DATA" => j < 1
    BY <1>1 DEF Orderly
  <2>2. ASSUME NEW i \in DOMAIN t, t[i].type = "DATA" PROVE FALSE
    <3>1. i + 1 < 1 /\ i \in Nat
      BY <1>1, <2>1, <2>2
    <3> QED BY <3>1
  <2> QED BY <2>1, <2>2 DEF NoData
<1>7. Head(s).type = "CLOSE" => "SENT_CLOSE" \in a /\ t = <<>>
  <2> SUFFICES ASSUME s[1].type = "CLOSE" PROVE "SENT_CLOSE" \in a /\ t = <<>>
    BY <1>1
  <2>1. "SENT_CLOSE" \in a /\ 1 = Len(s)
    BY <1>1 DEF Orderly
  <2> QED BY <1>1, <1>3, <2>1
<1> QED BY <1>4, <1>5, <1>6, <1>7 DEF t

-----------------------------------------------------------------------------
(* What a handler does to the flags, and the order in which it sends. *)

\* An end goes from the channel c to d and sends t: it only adds to what it
\* has said, sends no data after its EOF and nothing after its CLOSE, keeps a
\* note of every request it sends and loses no output without a note.
Moves(c, d, t) ==
    /\ d \in Channel /\ t \in Seq(Body)
    /\ c.closes \subseteq d.closes /\ d.closes \subseteq c.closes \cup {"SENT_EOF", "SENT_CLOSE"}
    /\ Orderly(t, d.closes)
    /\ "SENT_EOF" \in c.closes => NoData(t)
    /\ "SENT_CLOSE" \in c.closes => t = <<>>
    /\ Len(c.chanreq) + Total(t, "REQUEST") <= Len(d.chanreq)
    /\ c.abandoned => d.abandoned
    /\ ~d.abandoned => c.outbuffer = d.outbuffer + Total(t, "DATA")
    /\ Steady(d)
    /\ d.phase = "live" \/ {"SENT_CLOSE", "RCVD_CLOSE"} \subseteq d.closes

\* A handler that started from the channel w, and has sent no reply.
Ended(w, x) == x \in WorkRec /\ Moves(w, x.c, x.out) /\ Total(x.out, "REPLY") = 0

\* One move after another.
LEMMA MovesOn ==
    ASSUME NEW c \in Channel, NEW d \in Channel, NEW f, NEW s, NEW t, Moves(c, d, s), Moves(d, f, t)
    PROVE  Moves(c, f, s \o t)
<1>1. f \in Channel /\ s \in Seq(Body) /\ t \in Seq(Body)
  BY DEF Moves
<1>2. s \in Seq(Packet) /\ t \in Seq(Packet) /\ s \o t \in Seq(Body)
  BY <1>1, BodySeq
<1>3. c.closes \subseteq f.closes /\ f.closes \subseteq c.closes \cup {"SENT_EOF", "SENT_CLOSE"}
  BY DEF Moves
<1>4. Orderly(s \o t, f.closes)
  BY <1>2, OrderlyConcat DEF Moves
<1>5. "SENT_EOF" \in c.closes => NoData(s \o t)
  BY <1>2, NoDataConcat DEF Moves
<1>6. "SENT_CLOSE" \in c.closes => s \o t = <<>>
  <2>1. <<>> \o <<>> = <<>>
    OBVIOUS
  <2> QED BY <2>1 DEF Moves
<1> DEFINE a == Len(c.chanreq)
           b == Len(d.chanreq)
           g == Len(f.chanreq)
           sr == Total(s, "REQUEST")
           tr == Total(t, "REQUEST")
           sd == Total(s, "DATA")
           td == Total(t, "DATA")
           ur == Total(s \o t, "REQUEST")
           ud == Total(s \o t, "DATA")
<1>7. a \in Nat /\ b \in Nat /\ g \in Nat /\ c.outbuffer \in Nat /\ d.outbuffer \in Nat /\ f.outbuffer \in Nat
  <2>1. c.chanreq \in Seq(Nat) /\ d.chanreq \in Seq(Nat) /\ f.chanreq \in Seq(Nat)
    BY <1>1 DEF Channel
  <2>2. c.outbuffer \in Nat /\ d.outbuffer \in Nat /\ f.outbuffer \in Nat
    BY <1>1 DEF Channel
  <2> QED BY <2>1, <2>2
<1>8. sr \in Nat /\ tr \in Nat /\ sd \in Nat /\ td \in Nat
  BY <1>2, TotalNat
<1>9. ur = sr + tr /\ ud = sd + td
  BY <1>2, TotalConcat
<1>10. a + sr <= b /\ b + tr <= g
  BY DEF Moves
<1>11. ~f.abandoned => c.outbuffer = d.outbuffer + sd /\ d.outbuffer = f.outbuffer + td
  BY DEF Moves
<1> HIDE DEF a, b, g, sr, tr, sd, td, ur, ud
<1>12. a + ur <= g
  BY <1>7, <1>8, <1>9, <1>10
<1>13. ~f.abandoned => c.outbuffer = f.outbuffer + ud
  BY <1>7, <1>8, <1>9, <1>11
<1>14. /\ c.abandoned => f.abandoned
       /\ Steady(f)
       /\ f.phase = "live" \/ {"SENT_CLOSE", "RCVD_CLOSE"} \subseteq f.closes
  BY DEF Moves
<1> QED BY <1>1, <1>2, <1>3, <1>4, <1>5, <1>6, <1>12, <1>13, <1>14 DEF Moves, a, g, ur, ud

\* A change of the channel, without a packet.
LEMMA EndedWith ==
    ASSUME NEW w \in Channel, NEW x, Ended(w, x), NEW c, Moves(x.c, c, <<>>)
    PROVE  Ended(w, With(x, c))
<1>1. x \in WorkRec /\ c \in Channel /\ x.c \in Channel /\ x.out \in Seq(Body)
  BY DEF Ended, Moves, WorkRec
<1>2. With(x, c) \in WorkRec /\ With(x, c).c = c /\ With(x, c).out = x.out
  BY <1>1, WithIs
<1>3. x.out \o <<>> = x.out
  BY <1>1
<1>4. Moves(w, c, x.out \o <<>>)
  BY <1>1, MovesOn DEF Ended
<1> QED BY <1>2, <1>3, <1>4 DEF Ended

\* A packet, and the change of the channel that goes with it.
LEMMA EndedPush ==
    ASSUME NEW w \in Channel, NEW x, Ended(w, x), NEW q \in Body, q.type # "REPLY", NEW c, Moves(x.c, c, <<q>>)
    PROVE  Ended(w, With(Push(x, q), c))
<1> DEFINE y == With(Push(x, q), c)
<1>1. x \in WorkRec /\ c \in Channel /\ x.c \in Channel /\ x.out \in Seq(Body)
  BY DEF Ended, Moves, WorkRec
<1>2. /\ Push(x, q) \in WorkRec /\ Push(x, q).out = Append(x.out, q)
      /\ Total(Push(x, q).out, "REPLY") = Total(x.out, "REPLY") + 0
  BY <1>1, PushIs
<1>3. y \in WorkRec /\ y.c = c /\ y.out = Push(x, q).out
  BY <1>1, <1>2, WithIs
<1>4. Append(x.out, q) = x.out \o <<q>>
  BY <1>1
<1>5. Moves(w, c, x.out \o <<q>>)
  BY <1>1, MovesOn DEF Ended
<1>6. Total(x.out, "REPLY") = 0
  BY DEF Ended
<1> HIDE DEF y
<1>7. Total(y.out, "REPLY") = 0
  BY <1>2, <1>3, <1>6
<1>8. Moves(w, y.c, y.out)
  BY <1>2, <1>3, <1>4, <1>5
<1>9. Ended(w, y)
  BY <1>3, <1>7, <1>8 DEF Ended
<1> QED BY <1>9 DEF y

\* Fields that take no part: what is left alone.
Kin(c, d) ==
    /\ d \in Channel
    /\ d.phase = c.phase /\ d.halfopen = c.halfopen /\ d.closes = c.closes
    /\ d.pending_eof = c.pending_eof /\ d.outbuffer = c.outbuffer /\ d.zombie = c.zombie
    /\ d.abandoned = c.abandoned /\ d.chanreq = c.chanreq

\* Nothing under way is in order.
LEMMA NothingIs ==
    /\ <<>> \in Seq(Body) /\ NoData(<<>>) /\ \A a : Orderly(<<>>, a)
    /\ \A type : Total(<<>>, type) = 0
<1>1. <<>> \in Seq(Body) /\ DOMAIN <<>> = {}
  OBVIOUS
<1> QED BY <1>1, TotalSmall DEF NoData, Orderly

\* Staying where one is.
LEMMA MovesKin ==
    ASSUME NEW c \in Channel, NEW d, Kin(c, d), Steady(c),
           c.phase = "live" \/ {"SENT_CLOSE", "RCVD_CLOSE"} \subseteq c.closes
    PROVE  Moves(c, d, <<>>)
<1>1. Steady(d)
  BY DEF Kin, Steady
<1>2. c.chanreq \in Seq(Nat) /\ c.outbuffer \in Nat
  BY DEF Channel
<1>3. Len(c.chanreq) \in Nat
  BY <1>2
<1>4. Len(c.chanreq) + 0 <= Len(d.chanreq) /\ c.outbuffer = d.outbuffer + 0
  BY <1>2, <1>3 DEF Kin
<1> QED BY <1>1, <1>4, NothingIs DEF Moves, Kin

\* So a handler may change such fields at any time.
LEMMA EndedKin ==
    ASSUME NEW w \in Channel, NEW x, Ended(w, x), NEW c, Kin(x.c, c)
    PROVE  Ended(w, With(x, c))
<1>1. x.c \in Channel
  BY DEF Ended, WorkRec
<1>2. Moves(x.c, c, <<>>)
  BY <1>1, MovesKin DEF Ended, Moves
<1> QED BY <1>2, EndedWith

\* A single packet.
LEMMA OneIs ==
    ASSUME NEW q \in Body
    PROVE  /\ <<q>> \in Seq(Body)
           /\ q.type # "DATA" => NoData(<<q>>)
           /\ \A a : (q.type = "EOF" => "SENT_EOF" \in a) /\ (q.type = "CLOSE" => "SENT_CLOSE" \in a)
                     => Orderly(<<q>>, a)
           /\ \A type : Total(<<q>>, type) = IF q.type = type THEN q.n ELSE 0
<1>1. <<q>> \in Seq(Body) /\ DOMAIN <<q>> = {1} /\ <<q>>[1] = q /\ Len(<<q>>) = 1 /\ q \in Packet
  BY DEF Body
<1>2. q.type # "DATA" => NoData(<<q>>)
  BY <1>1 DEF NoData
<1>3. ASSUME NEW a, q.type = "EOF" => "SENT_EOF" \in a, q.type = "CLOSE" => "SENT_CLOSE" \in a
      PROVE  Orderly(<<q>>, a)
  BY <1>1, <1>3 DEF Orderly
<1> QED BY <1>1, <1>2, <1>3, TotalSmall

-----------------------------------------------------------------------------
(* One lemma for each C function. *)

\* CLOSE goes out once, and after it the channel is freed when both ends have
\* sent one.
LEMMA EndedCheckClose ==
    ASSUME NEW w \in Channel, NEW x, Ended(w, x), x.c.phase = "live"
    PROVE  /\ Ended(w, ssh2_channel_check_close(x))
           /\ "RCVD_CLOSE" \notin x.c.closes => ssh2_channel_check_close(x).c.phase = "live"
<1> DEFINE q == Pkt("CLOSE", 0)
           c == [x.c EXCEPT !.closes = @ \cup {"SENT_EOF", "SENT_CLOSE"}]
           y == IF want_close(x.c) /\ x.c.chanreq = <<>> /\ "SENT_CLOSE" \notin x.c.closes
                THEN Closed(Push(x, Pkt("CLOSE", 0)), {"SENT_EOF", "SENT_CLOSE"})
                ELSE x
<1>1. x \in WorkRec /\ x.c \in Channel /\ Steady(x.c)
  BY DEF Ended, Moves, WorkRec
<1>2. q \in Body /\ q.type = "CLOSE" /\ q.n = 0
  BY PktBody
<1>3. /\ c \in Channel /\ c.closes = x.c.closes \cup {"SENT_EOF", "SENT_CLOSE"} /\ c.phase = "live"
      /\ c.halfopen = x.c.halfopen /\ c.pending_eof = x.c.pending_eof /\ c.outbuffer = x.c.outbuffer
      /\ c.zombie = x.c.zombie /\ c.abandoned = x.c.abandoned /\ c.chanreq = x.c.chanreq
  BY <1>1 DEF Channel, Closes
<1>4. Push(x, q).c = x.c
  BY <1>1, <1>2, PushIs
<1>5. Closed(Push(x, q), {"SENT_EOF", "SENT_CLOSE"}) = With(Push(x, q), c)
  BY <1>4 DEF Closed
<1> HIDE DEF q, c
<1>6. ASSUME ~x.c.halfopen, want_close(x.c), "SENT_CLOSE" \notin x.c.closes
      PROVE  Ended(w, With(Push(x, q), c))
  <2>1. Steady(c)
    <3>1. x.c.zombie \/ "SENT_EOF" \in x.c.closes
      BY <1>6 DEF want_close
    <3> QED BY <1>1, <1>3, <1>6, <3>1 DEF Steady
  <2>2. Moves(x.c, c, <<q>>)
    <3>1. x.c.chanreq \in Seq(Nat) /\ x.c.outbuffer \in Nat
      BY <1>1 DEF Channel
    <3>2. Len(x.c.chanreq) \in Nat
      BY <3>1
    <3>3. Total(<<q>>, "REQUEST") = 0 /\ Total(<<q>>, "DATA") = 0
      BY <1>2, OneIs
    <3>4. Len(x.c.chanreq) + Total(<<q>>, "REQUEST") <= Len(c.chanreq)
          /\ x.c.outbuffer = c.outbuffer + Total(<<q>>, "DATA")
      BY <1>3, <3>1, <3>2, <3>3
    <3>5. <<q>> \in Seq(Body) /\ NoData(<<q>>) /\ Orderly(<<q>>, c.closes)
      BY <1>2, <1>3, OneIs
    <3> QED BY <1>3, <1>6, <2>1, <3>4, <3>5 DEF Moves
  <2> QED BY <1>2, <2>2, EndedPush
<1>7. ASSUME ~x.c.halfopen PROVE Ended(w, y) /\ y \in WorkRec /\ y.c.phase = "live"
      /\ ("RCVD_CLOSE" \in y.c.closes => "RCVD_CLOSE" \in x.c.closes) /\ ~y.c.halfopen
  <2>1. With(Push(x, q), c).c = c
    BY <1>1, <1>2, <1>3, PushIs, WithIs
  <2>2. CASE y = x
    BY <1>1, <1>7, <2>2
  <2>3. CASE y # x
    <3>1. want_close(x.c) /\ "SENT_CLOSE" \notin x.c.closes /\ y = With(Push(x, q), c)
      BY <1>5, <2>3 DEF q
    <3> HIDE DEF y
    <3>2. Ended(w, y)
      BY <1>6, <1>7, <3>1
    <3> QED BY <1>3, <1>7, <2>1, <3>1, <3>2 DEF Ended
  <2> QED BY <2>2, <2>3
<1> DEFINE d == [y.c EXCEPT !.phase = "gone", !.inbuf = 0, !.outbuffer = 0, !.zombie = TRUE,
                            !.abandoned = @ \/ y.c.outbuffer > 0]
<1>8. ssh2_channel_check_close(x) = IF x.c.halfopen THEN x
          ELSE IF {"SENT_CLOSE", "RCVD_CLOSE"} \subseteq y.c.closes THEN With(y, d) ELSE y
  BY DEF ssh2_channel_check_close, ssh2_channel_destroy
<1> HIDE DEF y
<1>9. ASSUME ~x.c.halfopen, {"SENT_CLOSE", "RCVD_CLOSE"} \subseteq y.c.closes
      PROVE  Ended(w, With(y, d))
  <2>1. y.c \in Channel
    BY <1>7, <1>9 DEF WorkRec
  <2>2. y.c.outbuffer \in Nat /\ y.c.chanreq \in Seq(Nat)
    BY <2>1 DEF Channel
  <2>3. /\ d \in Channel /\ d.closes = y.c.closes /\ d.phase = "gone" /\ d.outbuffer = 0
        /\ d.chanreq = y.c.chanreq /\ d.abandoned = (y.c.abandoned \/ y.c.outbuffer > 0)
    BY <2>1 DEF Channel
  <2> HIDE DEF d
  <2>4. Steady(y.c)
    BY <1>7, <1>9 DEF Ended, Moves
  <2>5. Steady(d)
    BY <2>3, <2>4 DEF Steady
  <2>6. Len(y.c.chanreq) \in Nat
    BY <2>2
  <2>7. Len(y.c.chanreq) + 0 <= Len(d.chanreq)
    BY <2>3, <2>6
  <2>8. ~d.abandoned => y.c.outbuffer = d.outbuffer + 0
    <3> DEFINE n == y.c.outbuffer
    <3>1. n \in Nat
      BY <2>2
    <3> HIDE DEF n
    <3>2. n > 0 \/ n = 0
      BY <3>1
    <3>3. ~d.abandoned => ~(n > 0)
      BY <2>3 DEF n
    <3> QED BY <2>3, <3>2, <3>3 DEF n
  <2>9. Moves(y.c, d, <<>>)
    BY <1>9, <2>3, <2>5, <2>7, <2>8, NothingIs DEF Moves
  <2> QED BY <1>7, <1>9, <2>9, EndedWith
<1>10. Ended(w, ssh2_channel_check_close(x))
  BY <1>7, <1>8, <1>9
<1>11. "RCVD_CLOSE" \notin x.c.closes => ssh2_channel_check_close(x).c.phase = "live"
  BY <1>7, <1>8
<1> QED BY <1>10, <1>11

\* EOF goes out once, when nothing is left in the buffer.
LEMMA EndedEofSent ==
    ASSUME NEW w \in Channel, NEW x, Ended(w, x), x.c.phase = "live", ~x.c.halfopen, x.c.outbuffer = 0,
           "SENT_EOF" \notin x.c.closes
    PROVE  /\ Ended(w, EofSent(x)) /\ EofSent(x).c.phase = "live"
           /\ "RCVD_CLOSE" \in EofSent(x).c.closes => "RCVD_CLOSE" \in x.c.closes
<1> DEFINE q == Pkt("EOF", 0)
           c == [x.c EXCEPT !.closes = @ \cup {"SENT_EOF"}, !.pending_eof = FALSE]
<1>1. x \in WorkRec /\ x.c \in Channel /\ Steady(x.c)
  BY DEF Ended, Moves, WorkRec
<1>2. q \in Body /\ q.type = "EOF" /\ q.n = 0
  BY PktBody
<1>3. /\ c \in Channel /\ c.closes = x.c.closes \cup {"SENT_EOF"} /\ c.phase = "live"
      /\ c.halfopen = x.c.halfopen /\ ~c.pending_eof /\ c.outbuffer = x.c.outbuffer
      /\ c.zombie = x.c.zombie /\ c.abandoned = x.c.abandoned /\ c.chanreq = x.c.chanreq
  BY <1>1 DEF Channel, Closes
<1>4. EofSent(x) = With(Push(x, q), c)
  BY DEF EofSent
<1> HIDE DEF q, c
<1>5. Steady(c)
  BY <1>1, <1>3 DEF Steady
<1>6. x.c.chanreq \in Seq(Nat) /\ x.c.outbuffer \in Nat
  BY <1>1 DEF Channel
<1>7. Len(x.c.chanreq) \in Nat
  BY <1>6
<1>8. Total(<<q>>, "REQUEST") = 0 /\ Total(<<q>>, "DATA") = 0
  BY <1>2, OneIs
<1>9. Len(x.c.chanreq) + Total(<<q>>, "REQUEST") <= Len(c.chanreq)
      /\ x.c.outbuffer = c.outbuffer + Total(<<q>>, "DATA")
  BY <1>3, <1>6, <1>7, <1>8
<1>10. <<q>> \in Seq(Body) /\ NoData(<<q>>) /\ Orderly(<<q>>, c.closes)
  BY <1>2, <1>3, OneIs
<1>11. "SENT_CLOSE" \notin x.c.closes
  BY <1>1 DEF Steady
<1>12. Moves(x.c, c, <<q>>)
  BY <1>3, <1>5, <1>9, <1>10, <1>11 DEF Moves
<1>13. Ended(w, EofSent(x))
  BY <1>2, <1>4, <1>12, EndedPush
<1>14. EofSent(x).c = c
  <2>1. Push(x, q) \in WorkRec
    BY <1>1, <1>2, PushIs
  <2> QED BY <1>3, <1>4, <2>1, WithIs
<1> QED BY <1>3, <1>13, <1>14

\* EOF waits for the buffer.
LEMMA EndedTryEof ==
    ASSUME NEW w \in Channel, NEW x, Ended(w, x), x.c.phase = "live", "SENT_EOF" \notin x.c.closes
    PROVE  Ended(w, ssh2_channel_try_eof(x))
<1>1. x.c \in Channel
  BY DEF Ended, WorkRec
<1>2. x.c.outbuffer \in Nat
  BY <1>1 DEF Channel
<1>3. ASSUME ~x.c.halfopen, x.c.outbuffer = 0
      PROVE  Ended(w, ssh2_channel_check_close(EofSent(x)))
  BY <1>3, EndedEofSent, EndedCheckClose
<1> QED BY <1>2, <1>3 DEF ssh2_channel_try_eof

\* Data goes out before EOF only.
LEMMA EndedDataSent ==
    ASSUME NEW w \in Channel, NEW x, Ended(w, x), NEW n \in Nat, n <= x.c.outbuffer, n <= x.c.remwindow,
           "SENT_EOF" \notin x.c.closes
    PROVE  /\ Ended(w, DataSent(x, n)) /\ DataSent(x, n).c.phase = x.c.phase
           /\ DataSent(x, n).c.closes = x.c.closes /\ DataSent(x, n).c.pending_eof = x.c.pending_eof
<1> DEFINE b == x.c.outbuffer - n
           r == x.c.remwindow - n
           c == [x.c EXCEPT !.outbuffer = b, !.remwindow = r]
           t == DataPackets(n)
<1>1. x \in WorkRec /\ x.c \in Channel /\ Steady(x.c) /\ x.out \in Seq(Body) /\ Total(x.out, "REPLY") = 0
      /\ (x.c.phase = "live" \/ {"SENT_CLOSE", "RCVD_CLOSE"} \subseteq x.c.closes)
  BY DEF Ended, Moves, WorkRec
<1>2. x.c.outbuffer \in Nat /\ x.c.remwindow \in Nat /\ x.c.chanreq \in Seq(Nat)
  BY <1>1 DEF Channel
<1>3. b \in Nat /\ r \in Nat /\ x.c.outbuffer = b + n
  BY <1>2
<1>4. DataSent(x, n) = [c |-> c, out |-> x.out \o t]
  BY DEF DataSent
<1> HIDE DEF b, r
<1>5. /\ c \in Channel /\ c.closes = x.c.closes /\ c.phase = x.c.phase /\ c.outbuffer = b
      /\ c.halfopen = x.c.halfopen /\ c.pending_eof = x.c.pending_eof
      /\ c.zombie = x.c.zombie /\ c.abandoned = x.c.abandoned /\ c.chanreq = x.c.chanreq
  BY <1>1, <1>3 DEF Channel
<1>6. /\ t \in Seq(Body) /\ Total(t, "DATA") = n /\ \A i \in DOMAIN t : t[i].type = "DATA"
  BY DataPacketsAre
<1> HIDE DEF c, t
<1>7. t \in Seq(Packet) /\ Total(t, "REQUEST") = 0 /\ Total(t, "REPLY") = 0
  BY <1>6, BodySeq, TotalNone
<1>8. Orderly(t, c.closes)
  BY <1>6 DEF Orderly
<1>9. "SENT_CLOSE" \notin x.c.closes
  BY <1>1 DEF Steady
<1>10. Steady(c)
  BY <1>1, <1>5 DEF Steady
<1>11. Len(x.c.chanreq) \in Nat
  BY <1>2
<1>12. Len(x.c.chanreq) + Total(t, "REQUEST") <= Len(c.chanreq) /\ x.c.outbuffer = c.outbuffer + Total(t, "DATA")
  BY <1>3, <1>5, <1>6, <1>7, <1>11
<1>13. Moves(x.c, c, t)
  BY <1>1, <1>5, <1>6, <1>8, <1>9, <1>10, <1>12 DEF Moves
<1>14. Moves(w, c, x.out \o t)
  BY <1>1, <1>5, <1>13, MovesOn DEF Ended
<1>15. Total(x.out \o t, "REPLY") = 0
  <2>1. x.out \in Seq(Packet)
    BY <1>1, BodySeq
  <2> QED BY <1>1, <1>7, <2>1, TotalConcat
<1>16. x.out \o t \in Seq(Body)
  BY <1>14 DEF Moves
<1> DEFINE u == x.out \o t
<1> HIDE DEF u
<1>17. DataSent(x, n) \in WorkRec /\ DataSent(x, n).c = c /\ DataSent(x, n).out = u
  BY <1>4, <1>5, <1>16 DEF WorkRec, u
<1> QED BY <1>5, <1>14, <1>15, <1>17 DEF Ended, u

\* The loop that sends, and the EOF that waits for its end.
LEMMA EndedTrySend ==
    ASSUME NEW w \in Channel, NEW x, Ended(w, x), x.c.phase = "live", "SENT_EOF" \notin x.c.closes
    PROVE  Ended(w, ssh2_try_send(x))
<1> DEFINE n == Sendable(x.c)
           y == DataSent(x, n)
<1>1. x.c \in Channel
  BY DEF Ended, WorkRec
<1>2. n \in Nat /\ n <= x.c.remwindow /\ n <= x.c.outbuffer
  BY <1>1, SendableIs
<1>3. ssh2_try_send(x) = IF y.c.outbuffer = 0 /\ y.c.pending_eof THEN ssh2_channel_try_eof(y) ELSE y
  BY DEF ssh2_try_send, Sendable
<1> HIDE DEF n
<1>4. Ended(w, y) /\ y.c.phase = "live" /\ "SENT_EOF" \notin y.c.closes
  BY <1>2, EndedDataSent
<1> HIDE DEF y
<1>5. Ended(w, ssh2_channel_try_eof(y))
  BY <1>4, EndedTryEof
<1> QED BY <1>3, <1>4, <1>5

\* Freezing and unfreezing the socket.
LEMMA EndedThrottle ==
    ASSUME NEW w \in Channel, NEW x, Ended(w, x), NEW all
    PROVE  Ended(w, ssh2_channel_check_throttle(all, x))
<1> DEFINE b == ~all /\ ~x.c.pending_eof /\ "SENT_EOF" \notin x.c.closes
           c == [x.c EXCEPT !.wanted = b]
<1>1. x.c \in Channel
  BY DEF Ended, WorkRec
<1>2. Kin(x.c, c)
  BY <1>1 DEF Kin, Channel
<1>3. ssh2_channel_check_throttle(all, x) = IF x.c.zombie THEN x ELSE With(x, c)
  BY DEF ssh2_channel_check_throttle
<1> HIDE DEF c
<1>4. Ended(w, With(x, c))
  BY <1>2, EndedKin
<1> QED BY <1>3, <1>4

\* More window for the output.
LEMMA EndedUnthrottle ==
    ASSUME NEW w \in Channel, NEW x, Ended(w, x), x.c.phase = "live", NEW all
    PROVE  Ended(w, ssh2_try_send_and_unthrottle(all, x))
<1>1. "SENT_EOF" \notin x.c.closes => Ended(w, ssh2_try_send(x))
  BY EndedTrySend
<1> QED BY <1>1, EndedThrottle DEF ssh2_try_send_and_unthrottle

\* A pushed packet and the channel that goes with it, as a record.
LEMMA PushWithIs ==
    ASSUME NEW x \in WorkRec, NEW q \in Body, NEW c \in Channel
    PROVE  With(Push(x, q), c) = [c |-> c, out |-> Append(x.out, q)]
<1> DEFINE y == With(Push(x, q), c)
<1>1. Push(x, q) \in WorkRec /\ Push(x, q).out = Append(x.out, q)
  BY PushIs
<1>2. y \in WorkRec /\ y.c = c /\ y.out = Append(x.out, q)
  BY <1>1, WithIs
<1> HIDE DEF y
<1>3. y = [c |-> y.c, out |-> y.out]
  BY <1>2 DEF WorkRec
<1> QED BY <1>2, <1>3 DEF y

\* EOF from the socket, or on behalf of a peer that has closed.
LEMMA EndedWriteEof ==
    ASSUME NEW w \in Channel, NEW x, Ended(w, x), x.c.phase = "live",
           x.c.zombie => ~x.c.halfopen /\ x.c.outbuffer = 0
    PROVE  Ended(w, ssh2channel_write_eof(x))
<1> DEFINE p == [x.c EXCEPT !.pending_eof = TRUE]
           y == With(x, p)
<1>1. x \in WorkRec /\ x.c \in Channel /\ Steady(x.c)
  BY DEF Ended, Moves, WorkRec
<1>2. /\ p \in Channel /\ p.closes = x.c.closes /\ p.phase = "live" /\ p.outbuffer = x.c.outbuffer
      /\ p.halfopen = x.c.halfopen /\ p.pending_eof
      /\ p.zombie = x.c.zombie /\ p.abandoned = x.c.abandoned /\ p.chanreq = x.c.chanreq
  BY <1>1 DEF Channel
<1>3. ssh2channel_write_eof(x) = IF "SENT_EOF" \in x.c.closes THEN x ELSE ssh2_channel_try_eof(y)
  BY DEF ssh2channel_write_eof
<1>4. EofSent(y) = EofSent(x)
  <2> DEFINE q == Pkt("EOF", 0)
             o == Append(x.out, q)
             k == x.c.closes \cup {"SENT_EOF"}
  <2>1. [p EXCEPT !.closes = k, !.pending_eof = FALSE] = [x.c EXCEPT !.closes = k, !.pending_eof = FALSE]
    BY <1>1 DEF Channel
  <2>2. y.c = p /\ y.out = x.out /\ p.closes = x.c.closes
    BY <1>1, <1>2, WithIs
  <2>3. With(Push(y, q), [p EXCEPT !.closes = k, !.pending_eof = FALSE])
        = [c |-> [p EXCEPT !.closes = k, !.pending_eof = FALSE], out |-> o]
    <3>1. [p EXCEPT !.closes = k, !.pending_eof = FALSE] \in Channel
      BY <1>1 DEF Channel, Closes
    <3>2. y \in WorkRec /\ q \in Body
      BY <1>1, <1>2, WithIs, PktBody
    <3> HIDE DEF p, q, k, y
    <3> QED BY <2>2, <3>1, <3>2, PushWithIs
  <2>4. With(Push(x, q), [x.c EXCEPT !.closes = k, !.pending_eof = FALSE])
        = [c |-> [x.c EXCEPT !.closes = k, !.pending_eof = FALSE], out |-> o]
    <3>1. [x.c EXCEPT !.closes = k, !.pending_eof = FALSE] \in Channel
      BY <1>1 DEF Channel, Closes
    <3>2. q \in Body
      BY PktBody
    <3> HIDE DEF q, k
    <3> QED BY <1>1, <3>1, <3>2, PushWithIs
  <2> HIDE DEF p, y, q, o
  <2>5. EofSent(y) = With(Push(y, q), [p EXCEPT !.closes = k, !.pending_eof = FALSE])
    BY <2>2 DEF EofSent, q
  <2>6. EofSent(x) = With(Push(x, q), [x.c EXCEPT !.closes = k, !.pending_eof = FALSE])
    BY DEF EofSent, q
  <2> HIDE DEF k
  <2> QED BY <2>1, <2>3, <2>4, <2>5, <2>6
<1>5. y.c = p
  BY <1>1, <1>2, WithIs
<1> HIDE DEF p
<1>6. ASSUME "SENT_EOF" \notin x.c.closes, ~x.c.zombie PROVE Ended(w, y)
  <2>1. Steady(p)
    BY <1>1, <1>2, <1>6 DEF Steady
  <2>2. x.c.chanreq \in Seq(Nat) /\ x.c.outbuffer \in Nat
    BY <1>1 DEF Channel
  <2>3. Len(x.c.chanreq) \in Nat
    BY <2>2
  <2>4. Len(x.c.chanreq) + 0 <= Len(p.chanreq) /\ x.c.outbuffer = p.outbuffer + 0
    BY <1>2, <2>2, <2>3
  <2>5. Moves(x.c, p, <<>>)
    BY <1>2, <2>1, <2>4, NothingIs DEF Moves
  <2> QED BY <2>5, EndedWith
<1>7. ASSUME "SENT_EOF" \notin x.c.closes, ~x.c.halfopen, x.c.outbuffer = 0
      PROVE  Ended(w, ssh2_channel_check_close(EofSent(y)))
  BY <1>4, <1>7, EndedEofSent, EndedCheckClose
<1>8. x.c.outbuffer \in Nat
  BY <1>1 DEF Channel
<1>9. ssh2_channel_try_eof(y) = IF x.c.halfopen \/ x.c.outbuffer > 0 THEN y
                                ELSE ssh2_channel_check_close(EofSent(y))
  BY <1>2, <1>5 DEF ssh2_channel_try_eof
<1> HIDE DEF y
<1>10. ~(x.c.outbuffer > 0) => x.c.outbuffer = 0
  BY <1>8
<1>11. x.c.zombie => ~(x.c.halfopen \/ x.c.outbuffer > 0)
  BY <1>8
<1>12. ASSUME "SENT_EOF" \notin x.c.closes PROVE Ended(w, ssh2_channel_try_eof(y))
  BY <1>6, <1>7, <1>9, <1>10, <1>11, <1>12
<1> QED BY <1>3, <1>12

\* A request that wants a reply, with the note of it.
LEMMA EndedRequest ==
    ASSUME NEW w \in Channel, NEW x, Ended(w, x), ~x.c.halfopen, "SENT_CLOSE" \notin x.c.closes,
           NEW size \in Nat
    PROVE  Ended(w, ssh2_chanreq_init(x, <<size>>))
<1> DEFINE q == Pkt("REQUEST", 1)
           l == x.c.chanreq \o <<size>>
           c == [x.c EXCEPT !.chanreq = l]
<1>1. x \in WorkRec /\ x.c \in Channel /\ Steady(x.c)
      /\ (x.c.phase = "live" \/ {"SENT_CLOSE", "RCVD_CLOSE"} \subseteq x.c.closes)
  BY DEF Ended, Moves, WorkRec
<1>2. q \in Body /\ q.type = "REQUEST" /\ q.n = 1
  BY PktBody
<1>3. x.c.chanreq \in Seq(Nat) /\ x.c.outbuffer \in Nat
  BY <1>1 DEF Channel
<1>4. l \in Seq(Nat) /\ Len(l) = Len(x.c.chanreq) + 1 /\ Len(x.c.chanreq) \in Nat
  <2>1. <<size>> \in Seq(Nat) /\ Len(<<size>>) = 1
    OBVIOUS
  <2> QED BY <1>3, <2>1
<1>5. ssh2_chanreq_init(x, <<size>>) = With(Push(x, q), c)
  BY DEF ssh2_chanreq_init
<1> HIDE DEF l, q
<1>6. c \in Channel
  BY <1>1, <1>4, Zenon DEF Channel
<1>7. /\ c.closes = x.c.closes /\ c.phase = x.c.phase /\ c.outbuffer = x.c.outbuffer
      /\ c.halfopen = x.c.halfopen /\ c.pending_eof = x.c.pending_eof
      /\ c.zombie = x.c.zombie /\ c.abandoned = x.c.abandoned /\ c.chanreq = l
  BY <1>1 DEF Channel
<1> HIDE DEF c
<1>8. Total(<<q>>, "REQUEST") = 1 /\ Total(<<q>>, "DATA") = 0
  BY <1>2, OneIs
<1>9. Len(x.c.chanreq) + Total(<<q>>, "REQUEST") <= Len(c.chanreq)
      /\ x.c.outbuffer = c.outbuffer + Total(<<q>>, "DATA")
  BY <1>3, <1>4, <1>7, <1>8
<1>10. <<q>> \in Seq(Body) /\ NoData(<<q>>) /\ Orderly(<<q>>, c.closes)
  BY <1>2, OneIs
<1>11. Steady(c)
  BY <1>1, <1>7 DEF Steady
<1>12. Moves(x.c, c, <<q>>)
  BY <1>1, <1>6, <1>7, <1>9, <1>10, <1>11 DEF Moves
<1> QED BY <1>2, <1>5, <1>12, EndedPush

\* The same channel for all that matters to EOF and CLOSE.
LEMMA EndedSetWindow ==
    ASSUME NEW w \in Channel, NEW x, Ended(w, x), ~x.c.halfopen, NEW wantwin \in Nat
    PROVE  Ended(w, ssh2_set_window(x, wantwin))
<1> DEFINE newwin == IF "MAXPKT" \in setup.bugs THEN Smaller(wantwin, MaxPkt) ELSE wantwin
           size == newwin - x.c.locwindow
           y == Announced(x, newwin, size)
           q == Pkt("WINDOW_ADJUST", size)
           c == [y.c EXCEPT !.locwindow = newwin]
<1>1. x \in WorkRec /\ x.c \in Channel
  BY DEF Ended, WorkRec
<1>2. newwin \in Nat
  BY ParamAssumption DEF Smaller
<1>3. x.c.locwindow \in Int
  BY <1>1 DEF Channel
<1>4. CASE \/ {"RCVD_EOF", "SENT_CLOSE"} \cap x.c.closes # {} \/ x.c.fixed
           \/ newwin \div 2 < x.c.locwindow
  BY <1>4 DEF ssh2_set_window
<1>5. CASE ~(\/ {"RCVD_EOF", "SENT_CLOSE"} \cap x.c.closes # {} \/ x.c.fixed
             \/ newwin \div 2 < x.c.locwindow)
  <2>1. size \in Nat
    <3> HIDE DEF newwin
    <3> QED BY <1>2, <1>3, <1>5
  <2>2. ssh2_set_window(x, wantwin) = With(Push(y, q), c)
    BY <1>5 DEF ssh2_set_window, Adjusted
  <2>3. "SENT_CLOSE" \notin x.c.closes
    BY <1>5
  <2> HIDE DEF newwin, size
  <2>4. Ended(w, y) /\ y.c.closes = x.c.closes
    <3>1. CASE newwin = x.c.locmaxwin /\ "CHOKES_ON_WINADJ" \notin setup.bugs
      <4> DEFINE z == ssh2_chanreq_init(x, <<size>>)
                 st == IF z.c.throttle_state = "UNTHROTTLED" THEN z.c.throttle_state ELSE "UNTHROTTLING"
                 d == [z.c EXCEPT !.throttle_state = st]
      <4>1. Ended(w, z)
        BY <2>1, <2>3, EndedRequest
      <4>2. z.c.closes = x.c.closes
        <5> DEFINE r == <<size>>
        <5> HIDE DEF r
        <5>1. ssh2_chanreq_init(x, r).c = [x.c EXCEPT !.chanreq = @ \o r]
          BY <1>1 DEF ssh2_chanreq_init, With, Push, WorkRec
        <5>2. ssh2_chanreq_init(x, r).c.closes = x.c.closes
          BY <1>1, <5>1 DEF Channel
        <5> QED BY <5>2 DEF r
      <4>3. y = With(z, d)
        BY <3>1 DEF Announced
      <4>4. z \in WorkRec /\ z.c \in Channel
        BY <4>1 DEF Ended, WorkRec
      <4> HIDE DEF z, y
      <4>5. d \in Channel
        BY <4>4 DEF Channel
      <4>6. Kin(z.c, d)
        <5> HIDE DEF st
        <5>1. /\ d.phase = z.c.phase /\ d.halfopen = z.c.halfopen /\ d.closes = z.c.closes
              /\ d.pending_eof = z.c.pending_eof /\ d.outbuffer = z.c.outbuffer /\ d.zombie = z.c.zombie
              /\ d.abandoned = z.c.abandoned /\ d.chanreq = z.c.chanreq
          BY <4>4 DEF Channel
        <5> QED BY <4>5, <5>1 DEF Kin
      <4> HIDE DEF d
      <4>7. Ended(w, With(z, d)) /\ With(z, d).c = d
        BY <4>1, <4>4, <4>5, <4>6, EndedKin, WithIs
      <4> QED BY <4>2, <4>3, <4>6, <4>7 DEF Kin
    <3>2. CASE ~(newwin = x.c.locmaxwin /\ "CHOKES_ON_WINADJ" \notin setup.bugs)
      <4> DEFINE d == [x.c EXCEPT !.remlocwin = newwin, !.throttle_state = "THROTTLED"]
      <4>1. y = With(x, d)
        BY <3>2 DEF Announced
      <4>2. d \in Channel
        <5>1. newwin \in Int
          BY <1>2
        <5> QED BY <1>1, <5>1, Zenon DEF Channel
      <4>3. Kin(x.c, d)
        BY <1>1, <4>2 DEF Channel, Kin
      <4> HIDE DEF d, y
      <4>4. Ended(w, With(x, d)) /\ With(x, d).c = d
        BY <1>1, <4>2, <4>3, EndedKin, WithIs
      <4> QED BY <4>1, <4>3, <4>4 DEF Kin
    <3> QED BY <3>1, <3>2
  <2> HIDE DEF y
  <2>5. /\ y \in WorkRec /\ y.c \in Channel /\ Steady(y.c)
        /\ y.c.phase = "live" \/ {"SENT_CLOSE", "RCVD_CLOSE"} \subseteq y.c.closes
    BY <2>4 DEF Ended, Moves, WorkRec
  <2>6. c \in Channel
    <3>1. newwin \in Int
      BY <1>2
    <3> QED BY <2>5, <3>1, Zenon DEF Channel
  <2>7. Kin(y.c, c)
    BY <2>5, <2>6 DEF Channel, Kin
  <2> HIDE DEF c
  <2>8. q \in Body /\ q.type = "WINDOW_ADJUST"
    BY <2>1, PktBody
  <2> HIDE DEF q
  <2>9. Moves(y.c, c, <<q>>)
    <3>1. y.c.chanreq \in Seq(Nat) /\ y.c.outbuffer \in Nat
      BY <2>5 DEF Channel
    <3>2. Len(y.c.chanreq) \in Nat
      BY <3>1
    <3>3. Total(<<q>>, "REQUEST") = 0 /\ Total(<<q>>, "DATA") = 0
      BY <2>8, OneIs
    <3>4. Len(y.c.chanreq) + Total(<<q>>, "REQUEST") <= Len(c.chanreq)
          /\ y.c.outbuffer = c.outbuffer + Total(<<q>>, "DATA")
      BY <2>7, <3>1, <3>2, <3>3 DEF Kin
    <3>5. <<q>> \in Seq(Body) /\ NoData(<<q>>) /\ Orderly(<<q>>, c.closes)
      BY <2>8, OneIs
    <3>6. Steady(c)
      BY <2>5, <2>7 DEF Kin, Steady
    <3> QED BY <2>3, <2>4, <2>5, <2>6, <2>7, <3>4, <3>5, <3>6 DEF Moves, Kin
  <2> QED BY <2>2, <2>4, <2>8, <2>9, EndedPush DEF q
<1> QED BY <1>4, <1>5

\* What the Channel does with the data it is given.
LEMMA EndedChanSend ==
    ASSUME NEW w \in Channel, NEW x, Ended(w, x), ~x.c.halfopen, NEW n \in Nat, NEW y \in chan_send(x, n)
    PROVE  Ended(w, y)
<1>1. x \in WorkRec /\ x.c \in Channel
  BY DEF Ended, WorkRec
<1>2. ASSUME NEW z, Ended(w, z), NEW bufsize \in 0 .. z.c.inbuf + n
      PROVE  Ended(w, With(z, [z.c EXCEPT !.inbuf = bufsize]))
  <2> DEFINE c == [z.c EXCEPT !.inbuf = bufsize]
  <2>1. z.c \in Channel
    BY <1>2 DEF Ended, WorkRec
  <2>2. bufsize \in Nat
    BY <1>2
  <2>3. c \in Channel
    BY <2>1, <2>2, Zenon DEF Channel
  <2>4. Kin(z.c, c)
    BY <2>1, <2>3 DEF Channel, Kin
  <2> HIDE DEF c
  <2>5. Ended(w, With(z, c))
    BY <1>2, <2>4, EndedKin
  <2> QED BY <2>5 DEF c
<1>3. CASE x.c.zombie
  BY <1>3 DEF chan_send
<1>4. CASE ~x.c.zombie /\ ~x.c.fixed
  <2>1. PICK bufsize \in 0 .. x.c.inbuf + n : y = With(x, [x.c EXCEPT !.inbuf = bufsize])
    BY <1>4 DEF chan_send
  <2> QED BY <1>2, <2>1
<1>5. CASE ~x.c.zombie /\ x.c.fixed
  <2> DEFINE c == [x.c EXCEPT !.fixed = FALSE]
             z == ssh2_set_window(With(x, c), WinSize)
  <2>1. c \in Channel
    BY <1>1 DEF Channel
  <2>2. Kin(x.c, c)
    BY <1>1, <2>1 DEF Channel, Kin
  <2>3. ssh2channel_window_override_removed(x) = z
    BY DEF ssh2channel_window_override_removed
  <2> HIDE DEF c
  <2>4. Ended(w, With(x, c)) /\ With(x, c).c = c /\ ~c.halfopen
    BY <1>1, <2>1, <2>2, EndedKin, WithIs DEF Kin
  <2>5. Ended(w, z)
    BY <2>4, EndedSetWindow, ParamAssumption
  <2> HIDE DEF z
  <2>6. CASE y = x
    BY <2>6
  <2>7. CASE y # x
    <3>1. PICK bufsize \in 0 .. z.c.inbuf + n : y = With(z, [z.c EXCEPT !.inbuf = bufsize])
      BY <1>5, <2>3, <2>7 DEF chan_send
    <3> QED BY <1>2, <2>5, <3>1
  <2> QED BY <2>6, <2>7
<1> QED BY <1>3, <1>4, <1>5

\* The window after data.
LEMMA EndedWindowAfterData ==
    ASSUME NEW w \in Channel, NEW x, Ended(w, x), ~x.c.halfopen
    PROVE  Ended(w, WindowAfterData(x))
<1> DEFINE bufsize == x.c.inbuf
           m == x.c.locmaxwin + WinSize
           d == [x.c EXCEPT !.locmaxwin = m]
           y == IF x.c.remlocwin <= 0 /\ x.c.throttle_state = "UNTHROTTLED" /\ x.c.locmaxwin < WinCap
                THEN With(x, d) ELSE x
           z == IF bufsize < y.c.locmaxwin THEN ssh2_set_window(y, y.c.locmaxwin - bufsize) ELSE y
           b == z.c.throttling_conn \/ bufsize > z.c.locmaxwin
           f == [z.c EXCEPT !.throttling_conn = b]
<1>1. x \in WorkRec /\ x.c \in Channel
  BY DEF Ended, WorkRec
<1>2. bufsize \in Nat /\ m \in Nat
  <2>1. x.c.inbuf \in Nat /\ x.c.locmaxwin \in Nat
    BY <1>1 DEF Channel
  <2> QED BY <2>1, ParamAssumption
<1>3. WindowAfterData(x) = With(z, f)
  BY DEF WindowAfterData
<1> HIDE DEF m, bufsize
<1>4. d \in Channel
  BY <1>1, <1>2, Zenon DEF Channel
<1>5. Kin(x.c, d)
  BY <1>1, <1>4 DEF Channel, Kin
<1> HIDE DEF d
<1>6. Ended(w, With(x, d)) /\ With(x, d).c = d
  BY <1>1, <1>4, <1>5, EndedKin, WithIs
<1>7. Ended(w, y) /\ ~y.c.halfopen
  BY <1>5, <1>6 DEF Kin
<1> HIDE DEF y
<1>8. y.c \in Channel
  BY <1>7 DEF Ended, WorkRec
<1>9. bufsize < y.c.locmaxwin => y.c.locmaxwin - bufsize \in Nat
  <2>1. y.c.locmaxwin \in Nat
    BY <1>8 DEF Channel
  <2> QED BY <1>2, <2>1
<1>10. Ended(w, z)
  BY <1>7, <1>9, EndedSetWindow
<1> HIDE DEF z
<1>11. z.c \in Channel
  BY <1>10 DEF Ended, WorkRec
<1>12. b \in BOOLEAN
  BY <1>11 DEF Channel
<1> HIDE DEF b
<1>13. Kin(z.c, f)
  BY <1>11, <1>12 DEF Kin, Channel
<1> HIDE DEF f
<1> QED BY <1>3, <1>10, <1>13, EndedKin

-----------------------------------------------------------------------------
(* The socket is not read once its EOF has been sent, or is to be. *)

\* CLOSE is sent for a zombie or after EOF.
LEMMA QuietCheckClose ==
    ASSUME NEW x \in WorkRec, Quiet(x.c)
    PROVE  Quiet(ssh2_channel_check_close(x).c)
<1> DEFINE d == [x.c EXCEPT !.closes = @ \cup {"SENT_EOF", "SENT_CLOSE"}]
           z == Closed(Push(x, Pkt("CLOSE", 0)), {"SENT_EOF", "SENT_CLOSE"})
           y == IF want_close(x.c) /\ x.c.chanreq = <<>> /\ "SENT_CLOSE" \notin x.c.closes THEN z ELSE x
<1>1. x.c \in Channel
  BY DEF WorkRec
<1>2. z.c = d /\ DOMAIN z = {"c", "out"}
  BY <1>1 DEF WorkRec, Closed, Push, With
<1>3. want_close(x.c) => Quiet(d)
  BY <1>1 DEF Quiet, want_close, Channel
<1>4. Quiet(y.c) /\ DOMAIN y = {"c", "out"} /\ DOMAIN y.c = DOMAIN x.c
  <2>1. DOMAIN x = {"c", "out"} /\ DOMAIN d = DOMAIN x.c
    BY DEF WorkRec
  <2> HIDE DEF z, d
  <2> QED BY <1>2, <1>3, <2>1
<1>5. Quiet(ssh2_channel_destroy(y).c)
  <2> HIDE DEF y
  <2>1. ssh2_channel_destroy(y).c.phase = "gone"
    BY <1>1, <1>4 DEF ssh2_channel_destroy, With, Channel
  <2> QED BY <2>1 DEF Quiet
<1>6. ssh2_channel_check_close(x) \in {x, ssh2_channel_destroy(y), y}
  BY DEF ssh2_channel_check_close
<1> HIDE DEF y
<1> QED BY <1>4, <1>5, <1>6

\* A pending EOF that goes out at last.
LEMMA QuietTryEof ==
    ASSUME NEW x \in WorkRec, Quiet(x.c), x.c.pending_eof
    PROVE  Quiet(ssh2_channel_try_eof(x).c)
<1> DEFINE q == Pkt("EOF", 0)
           c == [x.c EXCEPT !.closes = @ \cup {"SENT_EOF"}, !.pending_eof = FALSE]
<1>1. x.c \in Channel
  BY DEF WorkRec
<1>2. c \in Channel
  BY <1>1 DEF Channel, Closes
<1>3. Quiet(c)
  BY <1>1 DEF Quiet, Channel
<1>4. q \in Body
  BY PktBody
<1>5. EofSent(x) = With(Push(x, q), c)
  BY DEF EofSent
<1> HIDE DEF c, q
<1>6. Push(x, q) \in WorkRec
  BY <1>4, PushIs
<1>7. EofSent(x) \in WorkRec /\ EofSent(x).c = c
  BY <1>2, <1>5, <1>6, WithIs
<1>8. Quiet(ssh2_channel_check_close(EofSent(x)).c)
  BY <1>3, <1>7, QuietCheckClose
<1> QED BY <1>8 DEF ssh2_channel_try_eof

\* Sending touches neither the flags nor the socket.
LEMMA QuietTrySend ==
    ASSUME NEW w \in Channel, NEW x, Ended(w, x), x.c.phase = "live", "SENT_EOF" \notin x.c.closes, Quiet(x.c)
    PROVE  Quiet(ssh2_try_send(x).c)
<1> DEFINE n == Sendable(x.c)
           y == DataSent(x, n)
<1>1. x.c \in Channel
  BY DEF Ended, WorkRec
<1>2. n \in Nat /\ n <= x.c.remwindow /\ n <= x.c.outbuffer
  BY <1>1, SendableIs
<1>3. ssh2_try_send(x) = IF y.c.outbuffer = 0 /\ y.c.pending_eof THEN ssh2_channel_try_eof(y) ELSE y
  BY DEF ssh2_try_send, Sendable
<1> HIDE DEF n
<1>4. Ended(w, y)
  BY <1>2, EndedDataSent
<1>5. Quiet(y.c)
  <2> DEFINE c == [x.c EXCEPT !.outbuffer = @ - n, !.remwindow = @ - n]
  <2>1. y.c = c
    BY DEF DataSent
  <2>2. /\ c.phase = x.c.phase /\ c.zombie = x.c.zombie /\ c.pending_eof = x.c.pending_eof
        /\ c.closes = x.c.closes /\ c.srceof = x.c.srceof /\ c.wanted = x.c.wanted /\ c.halfopen = x.c.halfopen
    BY <1>1 DEF Channel
  <2> HIDE DEF c, y
  <2> QED BY <2>1, <2>2 DEF Quiet
<1>6. y \in WorkRec
  BY <1>4 DEF Ended
<1> HIDE DEF y
<1> QED BY <1>3, <1>5, <1>6, QuietTryEof

\* The socket is unfrozen only while there is no EOF.
LEMMA QuietThrottle ==
    ASSUME NEW x \in WorkRec, NEW all, x.c.halfopen => Quiet(x.c)
    PROVE  Quiet(ssh2_channel_check_throttle(all, x).c)
<1> DEFINE b == ~all /\ ~x.c.pending_eof /\ "SENT_EOF" \notin x.c.closes
           c == [x.c EXCEPT !.wanted = b]
<1>1. x.c \in Channel
  BY DEF WorkRec
<1>2. c \in Channel /\ c.wanted = b
  BY <1>1 DEF Channel
<1>3. /\ c.phase = x.c.phase /\ c.zombie = x.c.zombie /\ c.pending_eof = x.c.pending_eof
      /\ c.closes = x.c.closes /\ c.srceof = x.c.srceof /\ c.halfopen = x.c.halfopen
  BY <1>1 DEF Channel
<1>4. ssh2_channel_check_throttle(all, x) = IF x.c.zombie THEN x ELSE With(x, c)
  BY DEF ssh2_channel_check_throttle
<1> HIDE DEF c
<1>5. Quiet(c)
  BY <1>2, <1>3 DEF Quiet
<1>6. With(x, c).c = c
  BY <1>2, WithIs
<1>7. CASE x.c.zombie
  <2>1. x.c.zombie /\ ~x.c.halfopen => Quiet(x.c)
    BY DEF Quiet
  <2> QED BY <1>4, <1>7, <2>1
<1>8. CASE ~x.c.zombie
  BY <1>4, <1>5, <1>6, <1>8
<1> QED BY <1>7, <1>8

\* More window.
LEMMA QuietUnthrottle ==
    ASSUME NEW w \in Channel, NEW x, Ended(w, x), x.c.phase = "live", Quiet(x.c), NEW all
    PROVE  Quiet(ssh2_try_send_and_unthrottle(all, x).c)
<1>1. "SENT_EOF" \notin x.c.closes => Quiet(ssh2_try_send(x).c) /\ ssh2_try_send(x) \in WorkRec
  BY QuietTrySend, EndedTrySend DEF Ended
<1> QED BY <1>1, QuietThrottle DEF ssh2_try_send_and_unthrottle

\* What reading the socket and EOF depend on.
Still(c, d) ==
    /\ d.phase = c.phase /\ d.zombie = c.zombie /\ d.pending_eof = c.pending_eof
    /\ d.closes = c.closes /\ d.srceof = c.srceof /\ d.wanted = c.wanted /\ d.halfopen = c.halfopen

\* It is left alone by the receiving side, part after part.
LEMMA StillIs ==
    ASSUME NEW c, NEW d, NEW f
    PROVE  /\ Still(c, d) /\ Still(d, f) => Still(c, f)
           /\ Still(c, d) /\ Quiet(c) => Quiet(d)
           /\ Still(c, c)
           /\ Untouched(c, d) => Still(c, d)
BY DEF Still, Quiet, Untouched

\* What the Channel does with its data.
LEMMA StillChanSend ==
    ASSUME NEW x \in WorkRec, NEW n \in Nat, NEW y \in chan_send(x, n)
    PROVE  Still(x.c, y.c)
<1>1. x.c \in Channel
  BY DEF WorkRec
<1>2. \A z : DOMAIN z = {"c", "out"} /\ DOMAIN z.c = DOMAIN x.c => \A b : Still(z.c, With(z, [z.c EXCEPT !.inbuf = b]).c)
  BY <1>1 DEF With, Channel, Still
<1>3. DOMAIN x = {"c", "out"}
  BY DEF WorkRec
<1>4. CASE x.c.zombie
  BY <1>4, StillIs DEF chan_send
<1>5. CASE ~x.c.zombie /\ ~x.c.fixed
  <2>1. PICK b \in 0 .. x.c.inbuf + n : y = With(x, [x.c EXCEPT !.inbuf = b])
    BY <1>5 DEF chan_send
  <2> QED BY <1>2, <1>3, <2>1
<1>6. CASE ~x.c.zombie /\ x.c.fixed
  <2> DEFINE c == [x.c EXCEPT !.fixed = FALSE]
             u == With(x, c)
             z == ssh2_set_window(u, WinSize)
  <2>1. c \in Channel /\ Still(x.c, c)
    BY <1>1 DEF Channel, Still
  <2> HIDE DEF c
  <2>2. u \in WorkRec /\ u.c = c
    BY <2>1, WithIs
  <2>3. z = ssh2channel_window_override_removed(x)
    BY DEF ssh2channel_window_override_removed, c
  <2> HIDE DEF u
  <2>4. Still(u.c, z.c)
    BY <2>2, SetWindowIs, StillIs
  <2>5. DOMAIN z = {"c", "out"} /\ DOMAIN z.c = DOMAIN x.c
    BY <1>1, <2>1, <2>2 DEF ssh2_set_window, Adjusted, Announced, ssh2_chanreq_init, With, Push, WorkRec, Channel
  <2> HIDE DEF z
  <2>6. CASE y = x
    BY <2>6, StillIs
  <2>7. CASE y # x
    <3>1. PICK b \in 0 .. z.c.inbuf + n : y = With(z, [z.c EXCEPT !.inbuf = b])
      BY <1>6, <2>3, <2>7 DEF chan_send
    <3>2. Still(z.c, y.c)
      BY <1>2, <2>5, <3>1
    <3> QED BY <2>1, <2>2, <2>4, <3>2, StillIs
  <2> QED BY <2>6, <2>7
<1> QED BY <1>4, <1>5, <1>6

\* The window after data.
LEMMA StillWindowAfterData ==
    ASSUME NEW x \in WorkRec
    PROVE  Still(x.c, WindowAfterData(x).c)
<1> DEFINE m == x.c.locmaxwin + WinSize
           d == [x.c EXCEPT !.locmaxwin = m]
           y == IF x.c.remlocwin <= 0 /\ x.c.throttle_state = "UNTHROTTLED" /\ x.c.locmaxwin < WinCap
                THEN With(x, d) ELSE x
           s == ssh2_set_window(y, y.c.locmaxwin - x.c.inbuf)
           z == IF x.c.inbuf < y.c.locmaxwin THEN s ELSE y
           c == [z.c EXCEPT !.throttling_conn = @ \/ x.c.inbuf > z.c.locmaxwin]
<1>1. x.c \in Channel
  BY DEF WorkRec
<1>2. d \in Channel /\ Still(x.c, d)
  <2>1. x.c.locmaxwin \in Nat /\ WinSize \in Nat
    BY <1>1, ParamAssumption DEF Channel
  <2>2. m \in Nat
    BY <2>1
  <2> HIDE DEF m
  <2>3. d \in Channel
    BY <1>1, <2>2, Zenon DEF Channel
  <2> QED BY <1>1, <2>3 DEF Channel, Still
<1>3. y \in WorkRec /\ Still(x.c, y.c)
  <2> HIDE DEF d
  <2> QED BY <1>2, WithIs, StillIs
<1>4. y.c \in Channel
  BY <1>3 DEF WorkRec
<1>5. WindowAfterData(x) = With(z, c)
  BY DEF WindowAfterData
<1> HIDE DEF y
<1>6. Still(y.c, s.c)
  BY <1>3, SetWindowIs, StillIs
<1>7. DOMAIN s = {"c", "out"} /\ DOMAIN s.c = DOMAIN x.c
  BY <1>1, <1>3, <1>4 DEF ssh2_set_window, Adjusted, Announced, ssh2_chanreq_init, With, Push, WorkRec, Channel
<1>8. DOMAIN y = {"c", "out"} /\ DOMAIN y.c = DOMAIN x.c
  BY <1>1, <1>3, <1>4 DEF WorkRec, Channel
<1> HIDE DEF s
<1>9. DOMAIN z = {"c", "out"} /\ DOMAIN z.c = DOMAIN x.c /\ Still(x.c, z.c)
  BY <1>3, <1>6, <1>7, <1>8, StillIs
<1> HIDE DEF z
<1>10. With(z, c).c = c /\ Still(z.c, c)
  BY <1>1, <1>9 DEF With, Channel, Still
<1> QED BY <1>5, <1>9, <1>10, StillIs

-----------------------------------------------------------------------------
(* CLOSE from the peer. *)

\* A handler that has only just started.
LEMMA EndedStart ==
    ASSUME NEW w \in Channel, Steady(w), w.phase = "live", NEW x \in WorkRec, x.c = w, x.out = <<>>
    PROVE  Ended(w, x)
<1>1. Kin(w, w)
  BY DEF Kin
<1>2. Moves(w, w, <<>>)
  BY <1>1, MovesKin
<1> QED BY <1>2, NothingIs DEF Ended

\* The output that is left is dropped, with a note, and EOF goes out.
LEMMA EndedOutputOver ==
    ASSUME NEW w \in Channel, NEW x, Ended(w, x), x.c.phase = "live", ~x.c.halfopen, NEW all, Quiet(x.c)
    PROVE  Ended(w, OutputOver(all, x)) /\ Quiet(OutputOver(all, x).c)
<1> DEFINE c == [x.c EXCEPT !.outbuffer = 0, !.abandoned = @ \/ x.c.outbuffer > 0]
           y == With(x, c)
           z == ssh2channel_write_eof(y)
<1>1. x \in WorkRec /\ x.c \in Channel /\ Steady(x.c)
  BY DEF Ended, Moves, WorkRec
<1>2. OutputOver(all, x) = IF "SENT_EOF" \in x.c.closes THEN x ELSE ssh2_channel_check_throttle(all, z)
  BY DEF OutputOver
<1>3. x.c.outbuffer \in Nat /\ x.c.chanreq \in Seq(Nat)
  BY <1>1 DEF Channel
<1>4. /\ c \in Channel /\ c.closes = x.c.closes /\ c.phase = "live" /\ c.outbuffer = 0
      /\ c.halfopen = x.c.halfopen /\ c.pending_eof = x.c.pending_eof /\ c.zombie = x.c.zombie
      /\ c.chanreq = x.c.chanreq /\ c.abandoned = (x.c.abandoned \/ x.c.outbuffer > 0)
  BY <1>1 DEF Channel
<1> HIDE DEF c
<1>5. ~c.abandoned => x.c.outbuffer = c.outbuffer + 0
  <2> DEFINE n == x.c.outbuffer
  <2>1. n \in Nat
    BY <1>3
  <2> HIDE DEF n
  <2>2. n > 0 \/ n = 0
    BY <2>1
  <2>3. ~c.abandoned => ~(n > 0)
    BY <1>4 DEF n
  <2> QED BY <1>4, <2>2, <2>3 DEF n
<1>6. Steady(c)
  BY <1>1, <1>4 DEF Steady
<1>7. Len(x.c.chanreq) \in Nat
  BY <1>3
<1>8. Len(x.c.chanreq) + 0 <= Len(c.chanreq)
  BY <1>4, <1>7
<1>9. Moves(x.c, c, <<>>)
  BY <1>4, <1>5, <1>6, <1>8, NothingIs DEF Moves
<1>10. Ended(w, y) /\ y.c = c
  BY <1>1, <1>4, <1>9, EndedWith, WithIs
<1> HIDE DEF y
<1>11. Ended(w, z)
  BY <1>4, <1>10, EndedWriteEof
<1>12. z \in WorkRec /\ (z.c.phase # "live" \/ ~z.c.halfopen)
  <2>1. z \in WorkRec
    BY <1>11 DEF Ended
  <2>2. ~y.c.halfopen /\ y \in WorkRec
    BY <1>4, <1>10 DEF Ended
  <2>3. Tame(y.c, z.c)
    BY <2>2, TameWriteEof
  <2> QED BY <2>1, <2>2, <2>3 DEF Tame
<1> HIDE DEF z
<1>13. Quiet(ssh2_channel_check_throttle(all, z).c)
  <2>1. z.c.halfopen => Quiet(z.c)
    BY <1>12 DEF Quiet
  <2> QED BY <1>12, <2>1, QuietThrottle
<1> QED BY <1>2, <1>11, <1>13, EndedThrottle

\* CLOSE is noted at both ends of what a handler has done so far.
LEMMA EndedClosed ==
    ASSUME NEW w \in Channel, NEW x, Ended(w, x), x.c.phase = "live", ~x.c.halfopen
    PROVE  /\ Ended([w EXCEPT !.closes = @ \cup {"RCVD_CLOSE"}], Closed(x, {"RCVD_CLOSE"}))
           /\ Closed(x, {"RCVD_CLOSE"}).c.phase = "live"
           /\ Quiet(x.c) => Quiet(Closed(x, {"RCVD_CLOSE"}).c)
<1> DEFINE v == [w EXCEPT !.closes = @ \cup {"RCVD_CLOSE"}]
           c == [x.c EXCEPT !.closes = @ \cup {"RCVD_CLOSE"}]
           y == With(x, c)
<1>1. x \in WorkRec /\ x.c \in Channel /\ Moves(w, x.c, x.out) /\ Steady(x.c) /\ Total(x.out, "REPLY") = 0
  BY DEF Ended, Moves, WorkRec
<1>2. Closed(x, {"RCVD_CLOSE"}) = y
  BY DEF Closed
<1>3. /\ v.closes = w.closes \cup {"RCVD_CLOSE"} /\ v.chanreq = w.chanreq /\ v.outbuffer = w.outbuffer
      /\ v.abandoned = w.abandoned
  BY DEF Channel
<1>4. /\ c \in Channel /\ c.closes = x.c.closes \cup {"RCVD_CLOSE"} /\ c.phase = "live"
      /\ c.outbuffer = x.c.outbuffer /\ c.halfopen = x.c.halfopen /\ c.pending_eof = x.c.pending_eof
      /\ c.zombie = x.c.zombie /\ c.chanreq = x.c.chanreq /\ c.abandoned = x.c.abandoned
      /\ c.srceof = x.c.srceof /\ c.wanted = x.c.wanted
  BY <1>1 DEF Channel, Closes
<1> HIDE DEF v, c
<1>5. y \in WorkRec /\ y.c = c /\ y.out = x.out
  BY <1>1, <1>4, WithIs
<1> HIDE DEF y
<1>6. Steady(c)
  BY <1>1, <1>4 DEF Steady
<1>7. Orderly(x.out, c.closes)
  BY <1>1, <1>4 DEF Moves, Orderly
<1>8. Moves(v, c, x.out)
  <2>1. v.closes \subseteq c.closes /\ c.closes \subseteq v.closes \cup {"SENT_EOF", "SENT_CLOSE"}
    BY <1>1, <1>3, <1>4 DEF Moves
  <2>2. /\ "SENT_EOF" \in v.closes => NoData(x.out)
        /\ "SENT_CLOSE" \in v.closes => x.out = <<>>
    BY <1>1, <1>3 DEF Moves
  <2>3. /\ Len(v.chanreq) + Total(x.out, "REQUEST") <= Len(c.chanreq)
        /\ v.abandoned => c.abandoned
        /\ ~c.abandoned => v.outbuffer = c.outbuffer + Total(x.out, "DATA")
        /\ x.out \in Seq(Body)
    BY <1>1, <1>3, <1>4 DEF Moves
  <2> QED BY <1>4, <1>6, <1>7, <2>1, <2>2, <2>3 DEF Moves
<1>9. Quiet(x.c) => Quiet(c)
  BY <1>4 DEF Quiet
<1> QED BY <1>1, <1>2, <1>4, <1>5, <1>8, <1>9 DEF Ended, v

\* CLOSE implies EOF and the end of all replies.
LEMMA EndedCloseArrived ==
    ASSUME NEW e \in Ends, ~IsMain(e), chan[e] \in Channel, Steady(chan[e]), Quiet(chan[e]),
           chan[e].phase = "live", ~chan[e].halfopen, "RCVD_CLOSE" \notin chan[e].closes
    PROVE  \E w \in Channel :
               /\ Ended(w, CloseArrived(e, Work(e))) /\ Quiet(CloseArrived(e, Work(e)).c)
               /\ w.closes = chan[e].closes \cup {"RCVD_EOF", "RCVD_CLOSE"}
               /\ w.outbuffer = chan[e].outbuffer /\ w.abandoned = chan[e].abandoned
<1> DEFINE x == Work(e)
           c == [chan[e] EXCEPT !.closes = @ \cup {"RCVD_EOF"}]
           y == IF "RCVD_EOF" \in x.c.closes THEN x ELSE chan_send_eof(e, Closed(x, {"RCVD_EOF"}))
           z == RepliesOver(y)
           v == OutputOver(throttled[e], z)
           u == Closed(v, {"RCVD_CLOSE"})
<1>1. x \in WorkRec /\ x.c = chan[e] /\ x.out = <<>>
  <2>1. <<>> \in Seq(Body)
    BY NothingIs
  <2> QED BY <2>1 DEF Work, WorkRec
<1>2. CloseArrived(e, Work(e)) = IF "RCVD_CLOSE" \in v.c.closes THEN v ELSE ssh2_channel_check_close(u)
  BY DEF CloseArrived
<1> HIDE DEF x
<1>3. /\ c \in Channel /\ c.closes = chan[e].closes \cup {"RCVD_EOF"} /\ c.phase = "live" /\ ~c.halfopen
      /\ c.outbuffer = chan[e].outbuffer /\ c.pending_eof = chan[e].pending_eof
      /\ c.zombie = chan[e].zombie /\ c.chanreq = chan[e].chanreq /\ c.abandoned = chan[e].abandoned
      /\ c.srceof = chan[e].srceof /\ c.wanted = chan[e].wanted
  BY DEF Channel, Closes
<1>4. Closed(x, {"RCVD_EOF"}) = With(x, c)
  BY <1>1 DEF Closed
<1> HIDE DEF c
<1>5. With(x, c) \in WorkRec /\ With(x, c).c = c /\ With(x, c).out = <<>>
  BY <1>1, <1>3, WithIs
<1>6. /\ y \in WorkRec /\ y.out = <<>> /\ y.c \in Channel /\ y.c.closes = chan[e].closes \cup {"RCVD_EOF"}
      /\ y.c.phase = "live" /\ ~y.c.halfopen /\ y.c.outbuffer = chan[e].outbuffer
      /\ y.c.pending_eof = chan[e].pending_eof /\ y.c.zombie = chan[e].zombie
      /\ y.c.abandoned = chan[e].abandoned /\ y.c.srceof = chan[e].srceof /\ y.c.wanted = chan[e].wanted
  BY <1>1, <1>3, <1>4, <1>5 DEF chan_send_eof
<1> HIDE DEF y
<1>7. Still(y.c, z.c) /\ z.c.outbuffer = y.c.outbuffer /\ z.c.abandoned = y.c.abandoned
  BY <1>6 DEF RepliesOver, RequestsAnswered, With, WorkRec, Channel, Still
<1>8. z \in WorkRec /\ z.out = <<>>
  <2> DEFINE r == y.c.remlocwin + Sum(y.c.chanreq)
             st == IF y.c.throttle_state = "UNTHROTTLING" /\ (\E i \in DOMAIN y.c.chanreq : y.c.chanreq[i] > 0)
                   THEN "UNTHROTTLED" ELSE y.c.throttle_state
             f == [y.c EXCEPT !.remlocwin = r, !.throttle_state = st]
             g == [f EXCEPT !.chanreq = <<>>]
             a == With(y, f)
  <2>1. r \in Int /\ <<>> \in Seq(Nat)
    <3>1. y.c.remlocwin \in Int /\ y.c.chanreq \in Seq(Nat)
      BY <1>6 DEF Channel
    <3>2. Sum(y.c.chanreq) \in Nat
      BY <3>1, SumType
    <3> QED BY <3>1, <3>2
  <2>2. st \in {"THROTTLED", "UNTHROTTLING", "UNTHROTTLED"}
    BY <1>6 DEF Channel
  <2>3. a = RequestsAnswered(y, y.c.chanreq)
    BY DEF RequestsAnswered
  <2> HIDE DEF r, st
  <2>4. f \in Channel
    BY <1>6, <2>1, <2>2, Zenon DEF Channel
  <2> HIDE DEF f
  <2>5. g \in Channel
    BY <2>1, <2>4, Zenon DEF Channel
  <2>6. a \in WorkRec /\ a.c = f /\ a.out = <<>>
    BY <1>6, <2>4, WithIs
  <2> HIDE DEF a
  <2>7. z = IF "SENDS_LATE_REQUEST_REPLY" \in setup.bugs THEN y ELSE With(a, g)
    BY <2>3, <2>6 DEF RepliesOver
  <2> HIDE DEF g
  <2>8. With(a, g) \in WorkRec /\ With(a, g).out = <<>>
    BY <2>5, <2>6, WithIs
  <2> QED BY <1>6, <2>7, <2>8
<1> HIDE DEF z
<1>9. z.c \in Channel /\ z.c.phase = "live" /\ ~z.c.halfopen
      /\ z.c.closes = chan[e].closes \cup {"RCVD_EOF"}
  BY <1>6, <1>7, <1>8 DEF WorkRec, Still
<1>10. Steady(z.c) /\ Quiet(z.c)
  BY <1>6, <1>7 DEF Steady, Quiet, Still
<1>11. Ended(z.c, z)
  BY <1>8, <1>9, <1>10, EndedStart
<1>12. Ended(z.c, v) /\ Quiet(v.c)
  BY <1>9, <1>10, <1>11, EndedOutputOver
<1>13. v \in WorkRec
  BY <1>12 DEF Ended
<1>14. "RCVD_CLOSE" \notin v.c.closes /\ v.c.phase = "live"
  BY <1>9, <1>12 DEF Ended, Moves
<1>15. ~v.c.halfopen
  <2>1. v.c.halfopen => v.c.closes = {}
    BY <1>12, <1>14 DEF Ended, Moves, Steady
  <2>2. "RCVD_EOF" \in v.c.closes
    BY <1>9, <1>12 DEF Ended, Moves
  <2> QED BY <2>1, <2>2
<1> HIDE DEF v
<1> DEFINE w == [z.c EXCEPT !.closes = @ \cup {"RCVD_CLOSE"}]
<1>16. w \in Channel /\ w.closes = chan[e].closes \cup {"RCVD_EOF", "RCVD_CLOSE"}
       /\ w.outbuffer = z.c.outbuffer /\ w.abandoned = z.c.abandoned
  BY <1>9 DEF Channel, Closes
<1>17. Ended(w, u) /\ u.c.phase = "live" /\ Quiet(u.c)
  BY <1>9, <1>12, <1>14, <1>15, EndedClosed
<1> HIDE DEF u, w
<1>18. u \in WorkRec
  BY <1>17 DEF Ended
<1>19. Ended(w, ssh2_channel_check_close(u)) /\ Quiet(ssh2_channel_check_close(u).c)
  BY <1>16, <1>17, <1>18, EndedCheckClose, QuietCheckClose
<1>20. w.outbuffer = chan[e].outbuffer /\ w.abandoned = chan[e].abandoned
  BY <1>6, <1>7, <1>16
<1> QED BY <1>2, <1>14, <1>16, <1>19, <1>20

-----------------------------------------------------------------------------
(* The end of a handler. *)

\* The requests in r that an end with these flags still answers.
Asked(closes, r) == IF "SENT_CLOSE" \in closes THEN 0 ELSE Total(r, "REQUEST")

\* A handler that starts from w with the packets rest left, where both agree
\* with what the peer has said, leaves both ends in agreement.
LEMMA EndCommit ==
    ASSUME FlowInv, EndInv, error' = error, NEW e \in Ends, chan[e].phase = "live",
           NEW w \in Channel, NEW x \in WorkRec, Moves(w, x.c, x.out), Quiet(x.c),
           NEW rest \in Seq(Packet), Commit(e, x, rest),
           w.closes \cap {"SENT_EOF", "SENT_CLOSE"} = chan[e].closes \cap {"SENT_EOF", "SENT_CLOSE"},
           Orderly(rest, chan[Peer(e)].closes),
           Seen(w, rest, chan[Peer(e)]),
           Answered(w, rest, net[Peer(e)], chan[Peer(e)]),
           Total(x.out, "REPLY") + Asked(x.c.closes, rest) <= Asked(chan[e].closes, net[e])
    PROVE  EndInv'
<1> DEFINE p == Peer(e)
           c == chan[e]
           d == chan[p]
           r == net[e]
           s == net[p]
           o == x.out
           t == s \o o
<1>1. p \in Ends /\ p # e /\ Peer(p) = e /\ \A f \in Ends : f = e \/ f = p
  BY PeerIs
<1>2. TypeOK
  BY DEF FlowInv
<1>3. /\ c \in Channel /\ d \in Channel /\ r \in Seq(Packet) /\ s \in Seq(Packet)
      /\ x.c \in Channel /\ o \in Seq(Body) /\ o \in Seq(Packet)
  BY <1>1, <1>2, BodySeq DEF TypeOK, WorkRec
<1>4. chan'[e] = x.c /\ chan'[p] = d /\ net'[e] = rest /\ net'[p] = t
  BY <1>2, CommitIs
<1>5. /\ Steady(c) /\ Quiet(c) /\ Orderly(s, c.closes) /\ Seen(c, r, d) /\ Answered(c, r, s, d)
      /\ Steady(d) /\ Quiet(d) /\ Orderly(r, d.closes) /\ Seen(d, s, c) /\ Answered(d, s, r, c)
      /\ ~error[e] /\ ~error[p]
      /\ d.phase = "gone" /\ chan["acceptor"].phase # "none" => {"SENT_CLOSE", "RCVD_CLOSE"} \subseteq d.closes
  BY <1>1 DEF EndInv
<1>6. /\ "SENT_EOF" \in w.closes <=> "SENT_EOF" \in c.closes
      /\ "SENT_CLOSE" \in w.closes <=> "SENT_CLOSE" \in c.closes
  OBVIOUS
<1> HIDE DEF p, c, d, r, s, t
<1>7. /\ w.closes \subseteq x.c.closes /\ x.c.closes \subseteq w.closes \cup {"SENT_EOF", "SENT_CLOSE"}
      /\ Orderly(o, x.c.closes)
      /\ "SENT_EOF" \in c.closes => NoData(o) /\ "SENT_EOF" \in x.c.closes
      /\ "SENT_CLOSE" \in c.closes => o = <<>> /\ "SENT_CLOSE" \in x.c.closes
      /\ Steady(x.c)
      /\ x.c.phase = "live" \/ {"SENT_CLOSE", "RCVD_CLOSE"} \subseteq x.c.closes
  BY <1>6 DEF Moves
<1>8. Orderly(t, x.c.closes)
  <2> DEFINE a == c.closes \cap {"SENT_EOF", "SENT_CLOSE"}
  <2>1. a \subseteq x.c.closes
    BY <1>7
  <2>2. Orderly(s, a)
    BY <1>5 DEF Orderly
  <2>3. ("SENT_EOF" \in a => NoData(o)) /\ ("SENT_CLOSE" \in a => o = <<>>)
    BY <1>7
  <2> HIDE DEF a
  <2> QED BY <1>3, <1>7, <2>1, <2>2, <2>3, OrderlyConcat DEF t
<1>9. Seen(x.c, rest, d)
  BY <1>7 DEF Seen, d, p
<1>10. Seen(d, t, x.c)
  <2>1. ASSUME "RCVD_EOF" \in d.closes PROVE "SENT_EOF" \in x.c.closes /\ NoData(t)
    <3>1. "SENT_EOF" \in c.closes /\ NoData(s)
      BY <1>5, <2>1 DEF Seen
    <3> QED BY <1>3, <1>7, <3>1, NoDataConcat DEF t
  <2>2. ASSUME "RCVD_CLOSE" \in d.closes PROVE "SENT_CLOSE" \in x.c.closes /\ t = <<>>
    <3>1. "SENT_CLOSE" \in c.closes /\ s = <<>>
      BY <1>5, <2>2 DEF Seen
    <3>2. o = <<>> /\ <<>> \o <<>> = <<>>
      BY <1>7, <3>1
    <3> QED BY <1>7, <3>1, <3>2 DEF t
  <2> QED BY <2>1, <2>2 DEF Seen
<1> DEFINE wl == Len(w.chanreq)
           xl == Len(x.c.chanreq)
           dl == Len(d.chanreq)
           rp == Total(rest, "REPLY")
           sp == Total(s, "REPLY")
           op == Total(o, "REPLY")
           tp == Total(t, "REPLY")
           sq == Total(s, "REQUEST")
           oq == Total(o, "REQUEST")
           tq == Total(t, "REQUEST")
           ra == Asked(x.c.closes, rest)
           ca == Asked(c.closes, r)
<1>11. wl \in Nat /\ xl \in Nat /\ dl \in Nat
  <2>1. w.chanreq \in Seq(Nat) /\ x.c.chanreq \in Seq(Nat) /\ d.chanreq \in Seq(Nat)
    BY <1>3 DEF Channel
  <2> QED BY <2>1
<1>12. rp \in Nat /\ sp \in Nat /\ op \in Nat /\ sq \in Nat /\ oq \in Nat
  BY <1>3, TotalNat
<1>13. tp = sp + op /\ tq = sq + oq
  BY <1>3, TotalConcat DEF t
<1>14. ra \in Nat /\ ca \in Nat
  BY <1>3, TotalNat DEF Asked
<1>15. wl + oq <= xl
  BY DEF Moves
<1>16. Answered(x.c, rest, t, d)
  <2>1. CASE "SENT_CLOSE" \in d.closes
    <3>1. rp + 0 <= wl
      BY <2>1 DEF Answered, d, p
    <3> HIDE DEF wl, xl, rp, oq
    <3>2. rp + 0 <= xl
      BY <1>11, <1>12, <1>15, <3>1
    <3> QED BY <2>1, <3>2 DEF Answered, rp, xl
  <2>2. CASE "SENT_CLOSE" \notin d.closes
    <3>1. rp + sq <= wl
      BY <2>2 DEF Answered, d, p, s
    <3> HIDE DEF wl, xl, rp, sq, oq, tq
    <3>2. rp + tq <= xl
      BY <1>11, <1>12, <1>13, <1>15, <3>1
    <3> QED BY <2>2, <3>2 DEF Answered, rp, tq, xl
  <2> QED BY <2>1, <2>2
<1>17. Answered(d, t, rest, x.c)
  <2>1. sp + ca <= dl
    BY <1>5 DEF Answered, Asked
  <2>2. op + ra <= ca
    BY DEF c, r
  <2> HIDE DEF sp, ca, dl, op, ra, tp
  <2>3. tp + ra <= dl
    BY <1>11, <1>12, <1>13, <1>14, <2>1, <2>2
  <2> QED BY <2>3 DEF Answered, Asked, tp, ra, dl
<1>18. chan'["acceptor"].phase # "none" => chan["acceptor"].phase # "none"
  <2>1. "acceptor" \in Ends
    BY DEF Ends
  <2>2. CASE e = "acceptor"
    BY <2>2
  <2>3. CASE e # "acceptor"
    BY <1>1, <1>4, <2>1, <2>3 DEF d
  <2> QED BY <2>2, <2>3
<1>19. ~error'[e] /\ ~error'[p]
  BY <1>5
<1>20. x.c.phase = "gone" => {"SENT_CLOSE", "RCVD_CLOSE"} \subseteq x.c.closes
  BY <1>7
<1>21. ASSUME NEW f \in Ends
       PROVE  /\ Steady(chan'[f]) /\ Quiet(chan'[f])
              /\ Orderly(net'[Peer(f)], chan'[f].closes)
              /\ Seen(chan'[f], net'[f], chan'[Peer(f)])
              /\ Answered(chan'[f], net'[f], net'[Peer(f)], chan'[Peer(f)])
              /\ chan'[f].phase = "gone" /\ chan'["acceptor"].phase # "none"
                 => {"SENT_CLOSE", "RCVD_CLOSE"} \subseteq chan'[f].closes
              /\ ~error'[f]
  <2>1. CASE f = e
    <3>1. Peer(f) = p
      BY <2>1 DEF p
    <3> QED BY <1>4, <1>7, <1>8, <1>9, <1>16, <1>19, <1>20, <2>1, <3>1
  <2>2. CASE f = p
    <3>1. Orderly(rest, d.closes)
      BY DEF d, p
    <3> QED BY <1>1, <1>4, <1>5, <1>10, <1>17, <1>18, <1>19, <2>2, <3>1
  <2> QED BY <1>1, <2>1, <2>2
<1> QED BY <1>21 DEF EndInv

-----------------------------------------------------------------------------
(* Every action of a forwarding keeps the order and the data.              *)

\* n units are written and m delivered by a step of e that starts from w.
Counted(e, w, n, m) ==
    /\ n \in Nat /\ m \in Nat
    /\ written'[e] = written[e] + n /\ written'[Peer(e)] = written[Peer(e)]
    /\ delivered'[e] = delivered[e] + m /\ delivered'[Peer(e)] = delivered[Peer(e)]
    /\ ~w.abandoned => ~chan[e].abandoned /\ w.outbuffer = chan[e].outbuffer + n

\* Where nothing is written or delivered.
LEMMA NothingCounted ==
    ASSUME FlowInv, NEW e \in Ends, NEW w, w.abandoned = chan[e].abandoned,
           w.outbuffer = chan[e].outbuffer, UNCHANGED <<written, delivered>>
    PROVE  Counted(e, w, 0, 0)
<1>1. Peer(e) \in Ends
  BY PeerIs
<1>2. chan[e] \in Channel /\ written[e] \in Nat /\ delivered[e] \in Nat
  BY DEF FlowInv, TypeOK
<1>3. chan[e].outbuffer \in Nat
  BY <1>2 DEF Channel
<1> QED BY <1>2, <1>3 DEF Counted

\* No unit is lost or made by a handler.
LEMMA DataCommit ==
    ASSUME FlowInv, DataInv, NEW e \in Ends, NEW w \in Channel, NEW x \in WorkRec, Moves(w, x.c, x.out),
           NEW rest \in Seq(Packet), Commit(e, x, rest), NEW n, NEW m, Counted(e, w, n, m),
           Total(net[e], "DATA") = m + Total(rest, "DATA")
    PROVE  DataInv'
<1> DEFINE p == Peer(e)
           t == net[p] \o x.out
           sd == Total(net[p], "DATA")
           od == Total(x.out, "DATA")
           rd == Total(rest, "DATA")
<1>1. p \in Ends /\ p # e /\ Peer(p) = e /\ \A f \in Ends : f = e \/ f = p
  BY PeerIs
<1>2. TypeOK /\ net[p] \in Seq(Packet) /\ x.out \in Seq(Body) /\ x.out \in Seq(Packet)
  BY <1>1, BodySeq DEF FlowInv, TypeOK, WorkRec
<1>3. chan'[e] = x.c /\ chan'[p] = chan[p] /\ net'[e] = rest /\ net'[p] = t
  BY <1>2, CommitIs
<1>4. Total(t, "DATA") = sd + od /\ sd \in Nat /\ od \in Nat /\ rd \in Nat
  BY <1>2, TotalConcat, TotalNat
<1>5. /\ chan[e].outbuffer \in Nat /\ w.outbuffer \in Nat /\ x.c.outbuffer \in Nat /\ chan[p].outbuffer \in Nat
      /\ written[e] \in Nat /\ written[p] \in Nat /\ delivered[e] \in Nat /\ delivered[p] \in Nat
  <2>1. chan[e] \in Channel /\ chan[p] \in Channel /\ x.c \in Channel
    BY <1>1, <1>2 DEF TypeOK, WorkRec
  <2>2. /\ chan[e].outbuffer \in Nat /\ w.outbuffer \in Nat /\ x.c.outbuffer \in Nat
        /\ chan[p].outbuffer \in Nat
    BY <2>1 DEF Channel
  <2> QED BY <1>1, <1>2, <2>2 DEF TypeOK
<1>6. n \in Nat /\ m \in Nat /\ written'[e] = written[e] + n /\ written'[p] = written[p]
      /\ delivered'[e] = delivered[e] + m /\ delivered'[p] = delivered[p]
  BY DEF Counted
<1>7. ASSUME ~x.c.abandoned PROVE written'[e] = delivered'[p] + Total(net'[p], "DATA") + x.c.outbuffer
  <2>1. ~w.abandoned /\ w.outbuffer = x.c.outbuffer + od
    BY <1>7 DEF Moves
  <2>2. ~chan[e].abandoned /\ w.outbuffer = chan[e].outbuffer + n
    BY <2>1 DEF Counted
  <2>3. written[e] = delivered[p] + sd + chan[e].outbuffer
    BY <2>2 DEF DataInv
  <2>4. Total(net'[p], "DATA") = sd + od
    BY <1>3, <1>4
  <2>6. chan[e].outbuffer + n = x.c.outbuffer + od
    BY <2>1, <2>2
  <2> DEFINE wr == written[e]
             dp == delivered[p]
             cb == chan[e].outbuffer
             xb == x.c.outbuffer
  <2>5. wr \in Nat /\ dp \in Nat /\ cb \in Nat /\ xb \in Nat /\ sd \in Nat /\ od \in Nat /\ n \in Nat
    BY <1>4, <1>5, <1>6
  <2> HIDE DEF sd, od, p, wr, dp, cb, xb
  <2>7. wr + n = dp + (sd + od) + xb
    <3>1. wr = dp + sd + cb /\ cb + n = xb + od
      BY <2>3, <2>6 DEF wr, dp, cb, xb
    <3> QED BY <2>5, <3>1
  <2> QED BY <1>6, <2>4, <2>7 DEF wr, dp, xb
<1>8. ASSUME ~chan[p].abandoned PROVE written'[p] = delivered'[e] + Total(net'[e], "DATA") + chan[p].outbuffer
  <2>1. written[p] = delivered[e] + Total(net[e], "DATA") + chan[p].outbuffer
    BY <1>1, <1>8 DEF DataInv
  <2>2. Total(net'[e], "DATA") = rd /\ Total(net[e], "DATA") = m + rd
    BY <1>3
  <2> HIDE DEF rd, p
  <2> QED BY <1>4, <1>5, <1>6, <2>1, <2>2
<1>9. ASSUME NEW f \in Ends, ~chan'[f].abandoned
      PROVE  written'[f] = delivered'[Peer(f)] + Total(net'[Peer(f)], "DATA") + chan'[f].outbuffer
  <2>1. CASE f = e
    <3>1. Peer(f) = p
      BY <2>1
    <3> HIDE DEF p
    <3> QED BY <1>3, <1>7, <1>9, <2>1, <3>1
  <2>2. CASE f = p
    <3> HIDE DEF p
    <3> QED BY <1>1, <1>3, <1>8, <1>9, <2>2
  <2> QED BY <1>1, <2>1, <2>2
<1> QED BY <1>9 DEF DataInv

\* Saying more never asks for more answers.
LEMMA AskedLess ==
    ASSUME NEW c, NEW d, c.closes \subseteq d.closes, NEW r \in Seq(Packet)
    PROVE  Asked(d.closes, r) \in Nat /\ Asked(c.closes, r) \in Nat /\ Asked(d.closes, r) <= Asked(c.closes, r)
<1> DEFINE q == Total(r, "REQUEST")
<1>1. q \in Nat
  BY TotalNat
<1> HIDE DEF q
<1>2. /\ Asked(c.closes, r) = IF "SENT_CLOSE" \in c.closes THEN 0 ELSE q
      /\ Asked(d.closes, r) = IF "SENT_CLOSE" \in d.closes THEN 0 ELSE q
  BY DEF Asked, q
<1> QED BY <1>1, <1>2

\* What the invariants say of an end and of its peer.
LEMMA EndIs ==
    ASSUME FlowInv, EndInv, NEW e \in Ends
    PROVE  /\ chan[e] \in Channel /\ net[e] \in Seq(Packet)
           /\ Peer(e) \in Ends /\ chan[Peer(e)] \in Channel /\ net[Peer(e)] \in Seq(Packet)
           /\ Steady(chan[e]) /\ Quiet(chan[e]) /\ Orderly(net[e], chan[Peer(e)].closes)
           /\ Seen(chan[e], net[e], chan[Peer(e)])
           /\ Answered(chan[e], net[e], net[Peer(e)], chan[Peer(e)])
           /\ ~error[e]
<1>1. Peer(e) \in Ends /\ Peer(Peer(e)) = e
  BY PeerIs
<1>2. TypeOK
  BY DEF FlowInv
<1> QED BY <1>1, <1>2 DEF EndInv, TypeOK

\* The end of a call that takes no packet.
LEMMA EndCall ==
    ASSUME FlowInv, EndInv, error' = error, NEW e \in Ends, chan[e].phase = "live",
           NEW w \in Channel, w.closes = chan[e].closes, w.chanreq = chan[e].chanreq,
           NEW x, Ended(w, x), Quiet(x.c), Call(e, x)
    PROVE  EndInv' /\ \A n : DataInv /\ Counted(e, w, n, 0) => DataInv'
<1> DEFINE p == Peer(e)
           r == net[e]
<1>1. /\ r \in Seq(Packet) /\ Orderly(r, chan[p].closes) /\ Seen(chan[e], r, chan[p])
      /\ Answered(chan[e], r, net[p], chan[p])
  BY EndIs
<1>2. Seen(w, r, chan[p]) /\ Answered(w, r, net[p], chan[p])
  BY <1>1 DEF Seen, Answered
<1>3. x \in WorkRec /\ Moves(w, x.c, x.out) /\ Total(x.out, "REPLY") = 0
  BY DEF Ended
<1>4. Asked(x.c.closes, r) \in Nat /\ Asked(x.c.closes, r) <= Asked(chan[e].closes, r)
  <2>1. chan[e].closes \subseteq x.c.closes
    BY <1>3 DEF Moves
  <2> QED BY <1>1, <2>1, AskedLess
<1>5. Total(x.out, "REPLY") + Asked(x.c.closes, r) <= Asked(chan[e].closes, r)
  <2> DEFINE a == Asked(x.c.closes, r)
             b == Asked(chan[e].closes, r)
             t == Total(x.out, "REPLY")
  <2>1. a \in Nat /\ a <= b /\ t = 0
    BY <1>3, <1>4
  <2> HIDE DEF a, b, t
  <2>2. t + a <= b
    BY <2>1
  <2> QED BY <2>2 DEF a, b, t
<1>6. Commit(e, x, r)
  BY DEF Call
<1> HIDE DEF r
<1>7. EndInv'
  BY <1>1, <1>2, <1>3, <1>5, <1>6, EndCommit DEF r
<1>8. Total(r, "DATA") = 0 + Total(r, "DATA")
  <2> DEFINE d == Total(r, "DATA")
  <2>1. d \in Nat
    BY <1>1, TotalNat
  <2> HIDE DEF d
  <2>2. d = 0 + d
    BY <2>1
  <2> QED BY <2>2 DEF d
<1>9. \A n : DataInv /\ Counted(e, w, n, 0) => DataInv'
  BY <1>1, <1>3, <1>6, <1>8, DataCommit DEF r
<1> QED BY <1>7, <1>9

\* The end of the handler of a packet that changes no flag and answers nothing.
LEMMA EndHandled ==
    ASSUME FlowInv, EndInv, error' = error, NEW e \in Ends, net[e] # <<>>, Expected(e),
           Head(net[e]).type # "REPLY",
           NEW w \in Channel, w.closes = chan[e].closes, w.chanreq = chan[e].chanreq,
           NEW x, Ended(w, x), Quiet(x.c), Handled(e, x)
    PROVE  EndInv' /\ \A n, m : /\ DataInv /\ Counted(e, w, n, m)
                                /\ m = (IF Head(net[e]).type = "DATA" THEN Head(net[e]).n ELSE 0)
                                => DataInv'
<1> DEFINE p == Peer(e)
           r == net[e]
           s == net[p]
           rest == Tail(r)
<1>1. /\ r \in Seq(Packet) /\ Orderly(r, chan[p].closes) /\ Seen(chan[e], r, chan[p])
      /\ Answered(chan[e], r, s, chan[p]) /\ s \in Seq(Packet)
      /\ chan[e].phase = "live"
  BY EndIs DEF Expected
<1>2. /\ rest \in Seq(Packet)
      /\ \A type : Total(r, type) = (IF Head(r).type = type THEN Head(r).n ELSE 0) + Total(rest, type)
      /\ Head(r).n \in Nat
  BY Arriving
<1>3. Orderly(rest, chan[p].closes) /\ (NoData(r) => NoData(rest))
  BY <1>1, OrderlyTail
<1>4. x \in WorkRec /\ Moves(w, x.c, x.out) /\ Total(x.out, "REPLY") = 0
  BY DEF Ended
<1>5. \A type : Total(rest, type) \in Nat
  BY <1>2, TotalNat
<1>6. Seen(w, rest, chan[p])
  BY <1>1, <1>3 DEF Seen
<1>7. Answered(w, rest, s, chan[p])
  <2>1. Total(r, "REPLY") = Total(rest, "REPLY")
    <3>1. Total(r, "REPLY") = 0 + Total(rest, "REPLY")
      BY <1>2
    <3> QED BY <1>5, <3>1
  <2> QED BY <1>1, <2>1 DEF Answered
<1>8. Total(x.out, "REPLY") + Asked(x.c.closes, rest) <= Asked(chan[e].closes, r)
  <2> DEFINE a == Asked(x.c.closes, rest)
             b == Asked(chan[e].closes, rest)
             c == Asked(chan[e].closes, r)
             t == Total(x.out, "REPLY")
             q == Total(rest, "REQUEST")
             h == IF Head(r).type = "REQUEST" THEN Head(r).n ELSE 0
  <2>1. chan[e].closes \subseteq x.c.closes
    BY <1>4 DEF Moves
  <2>2. a \in Nat /\ b \in Nat /\ a <= b /\ t = 0
    BY <1>2, <1>4, <2>1, AskedLess
  <2>3. q \in Nat /\ h \in Nat /\ Total(r, "REQUEST") = h + q
    BY <1>2, <1>5
  <2>4. /\ b = IF "SENT_CLOSE" \in chan[e].closes THEN 0 ELSE q
        /\ c = IF "SENT_CLOSE" \in chan[e].closes THEN 0 ELSE h + q
    <3> HIDE DEF h
    <3> QED BY <2>3 DEF Asked
  <2> HIDE DEF a, b, c, t, q, h
  <2>5. t + a <= c
    BY <2>2, <2>3, <2>4
  <2> QED BY <2>5 DEF a, c, t
<1>9. Commit(e, x, rest)
  BY DEF Handled
<1> HIDE DEF r, s, rest, p
<1>10. EndInv'
  BY <1>1, <1>2, <1>3, <1>4, <1>6, <1>7, <1>8, <1>9, EndCommit DEF p, r, s
<1>11. Total(r, "DATA") = (IF Head(r).type = "DATA" THEN Head(r).n ELSE 0) + Total(rest, "DATA")
  BY <1>2
<1>12. \A n, m : /\ DataInv /\ Counted(e, w, n, m)
                 /\ m = (IF Head(r).type = "DATA" THEN Head(r).n ELSE 0)
                 => DataInv'
  BY <1>2, <1>4, <1>9, <1>11, DataCommit DEF r
<1> QED BY <1>10, <1>12 DEF r

\* What a call starts from.
LEMMA EndWork ==
    ASSUME FlowInv, EndInv, NEW e \in Ends, Live(e)
    PROVE  /\ Ended(chan[e], Work(e)) /\ Work(e).c = chan[e] /\ Work(e).out = <<>>
           /\ chan[e] \in Channel /\ Work(e) \in WorkRec /\ chan[e].phase = "live"
           /\ Steady(chan[e]) /\ Quiet(chan[e])
<1>1. chan[e].phase = "live"
  BY DEF Live
<1>2. Work(e).c = chan[e] /\ Work(e).out = <<>> /\ chan[e] \in Channel /\ Work(e) \in WorkRec
  BY <1>1, FlowWork
<1>3. Steady(chan[e]) /\ Quiet(chan[e])
  BY EndIs
<1> QED BY <1>1, <1>2, <1>3, EndedStart

\* The socket is read: its EOF has not been sent, nor is it waiting.
LEMMA EndReceive ==
    ASSUME FlowInv, EndInv, Forwarded, NEW e \in Ends, pfd_receive(e)
    PROVE  EndInv' /\ (DataInv /\ FrozenWhileOpening => DataInv')
<1> DEFINE w(n) == [chan[e] EXCEPT !.outbuffer = @ + n]
           y(n) == With(Work(e), w(n))
           x(n) == IF chan[e].halfopen THEN Work(e) ELSE ssh2channel_write(Work(e), n)
<1>1. Live(e) /\ ~chan[e].zombie /\ chan[e].wanted /\ ~chan[e].srceof /\ error' = error
      /\ delivered' = delivered
  BY DEF pfd_receive
<1>2. PICK n \in 1 .. setup.budget[e] - written[e] :
          Call(e, x(n)) /\ written' = [written EXCEPT ![e] = @ + n]
  BY DEF pfd_receive
<1>3. n \in Nat
  OBVIOUS
<1>4. /\ Ended(chan[e], Work(e)) /\ Work(e).c = chan[e] /\ Work(e).out = <<>>
      /\ chan[e] \in Channel /\ Work(e) \in WorkRec /\ chan[e].phase = "live"
      /\ Steady(chan[e]) /\ Quiet(chan[e])
  BY <1>1, EndWork
<1>5. "SENT_EOF" \notin chan[e].closes /\ ~chan[e].pending_eof
  BY <1>1, <1>4 DEF Quiet
<1>6. CASE chan[e].halfopen
  <2>1. Call(e, Work(e))
    BY <1>2, <1>6
  <2>2. EndInv'
    BY <1>1, <1>4, <2>1, EndCall
  <2>3. ~FrozenWhileOpening
    BY <1>1, <1>4, <1>6 DEF FrozenWhileOpening
  <2> QED BY <2>2, <2>3
<1>7. CASE ~chan[e].halfopen
  <2>1. chan[e].outbuffer \in Nat
    BY <1>4 DEF Channel
  <2>2. chan[e].outbuffer + n \in Nat
    BY <1>3, <2>1
  <2>3. w(n) \in Channel
    <3> DEFINE k == chan[e].outbuffer + n
    <3>1. k \in Nat
      BY <2>2
    <3>2. w(n) = [chan[e] EXCEPT !.outbuffer = k]
      OBVIOUS
    <3> HIDE DEF k, w
    <3> QED BY <1>4, <3>1, <3>2, Zenon DEF Channel
  <2>4. /\ w(n).phase = "live" /\ w(n).halfopen = chan[e].halfopen /\ w(n).closes = chan[e].closes
        /\ w(n).pending_eof = chan[e].pending_eof /\ w(n).outbuffer = chan[e].outbuffer + n
        /\ w(n).zombie = chan[e].zombie /\ w(n).abandoned = chan[e].abandoned
        /\ w(n).chanreq = chan[e].chanreq /\ w(n).srceof = chan[e].srceof /\ w(n).wanted = chan[e].wanted
    BY <1>4 DEF Channel
  <2>5. x(n) = ssh2_try_send(y(n))
    BY <1>4, <1>7 DEF ssh2channel_write
  <2> HIDE DEF w, x
  <2>6. Steady(w(n)) /\ Quiet(w(n))
    BY <1>1, <1>4, <1>5, <1>7, <2>4 DEF Steady, Quiet
  <2>7. y(n) \in WorkRec /\ y(n).c = w(n) /\ y(n).out = <<>>
    BY <1>4, <2>3, WithIs
  <2> HIDE DEF y
  <2>8. Ended(w(n), y(n))
    BY <2>3, <2>4, <2>6, <2>7, EndedStart
  <2>9. Ended(w(n), x(n)) /\ Quiet(x(n).c)
    BY <1>5, <2>3, <2>4, <2>5, <2>6, <2>7, <2>8, EndedTrySend, QuietTrySend
  <2>10. EndInv' /\ \A k : DataInv /\ Counted(e, w(n), k, 0) => DataInv'
    BY <1>1, <1>2, <1>4, <2>3, <2>4, <2>9, EndCall
  <2>11. Counted(e, w(n), n, 0)
    <3>1. Peer(e) \in Ends /\ Peer(e) # e
      BY PeerIs
    <3>2. written \in [Ends -> Nat] /\ delivered[e] \in Nat
      BY DEF FlowInv, TypeOK
    <3>3. written'[e] = written[e] + n /\ written'[Peer(e)] = written[Peer(e)]
      BY <1>2, <3>1, <3>2
    <3> QED BY <1>1, <1>3, <2>4, <3>2, <3>3 DEF Counted
  <2> QED BY <2>10, <2>11
<1> QED BY <1>6, <1>7

\* The socket's EOF goes out, or waits behind the data.
LEMMA EndSourceEof ==
    ASSUME FlowInv, EndInv, Forwarded, NEW e \in Ends, SourceEof(e)
    PROVE  EndInv' /\ (DataInv => DataInv')
<1> DEFINE y == ssh2channel_write_eof(Work(e))
           c == [y.c EXCEPT !.srceof = TRUE]
<1>1. Live(e) /\ ~chan[e].zombie /\ Call(e, With(y, c)) /\ error' = error /\ UNCHANGED <<written, delivered>>
  BY DEF SourceEof
<1>2. /\ Ended(chan[e], Work(e)) /\ Work(e).c = chan[e] /\ chan[e] \in Channel /\ chan[e].phase = "live"
  BY <1>1, EndWork
<1>3. Ended(chan[e], y)
  BY <1>1, <1>2, EndedWriteEof
<1>4. y \in WorkRec /\ y.c \in Channel
  BY <1>3 DEF Ended, WorkRec
<1> HIDE DEF y
<1>5. Kin(y.c, c) /\ c \in Channel /\ c.srceof
  BY <1>4 DEF Kin, Channel
<1> HIDE DEF c
<1>6. Ended(chan[e], With(y, c)) /\ With(y, c).c = c
  BY <1>2, <1>3, <1>4, <1>5, EndedKin, WithIs
<1>7. Quiet(With(y, c).c)
  BY <1>5, <1>6 DEF Quiet
<1>8. Counted(e, chan[e], 0, 0)
  BY <1>1, NothingCounted
<1> QED BY <1>1, <1>2, <1>6, <1>7, <1>8, EndCall

\* A zombie gives up what it had to send.
LEMMA EndInitiateClose ==
    ASSUME FlowInv, EndInv, Forwarded, NEW e \in Ends, ssh2channel_initiate_close(e)
    PROVE  EndInv' /\ (DataInv => DataInv')
<1> DEFINE c == [chan[e] EXCEPT !.zombie = TRUE, !.fixed = FALSE, !.pending_eof = FALSE, !.inbuf = 0,
                                !.abandoned = TRUE]
           y == With(Work(e), c)
<1>1. Live(e) /\ Call(e, ssh2_channel_check_close(y)) /\ error' = error /\ UNCHANGED <<written, delivered>>
  BY DEF ssh2channel_initiate_close
<1>2. /\ Work(e).c = chan[e] /\ Work(e).out = <<>> /\ chan[e] \in Channel /\ chan[e].phase = "live"
      /\ Work(e) \in WorkRec /\ Steady(chan[e]) /\ Quiet(chan[e])
  BY <1>1, EndWork
<1>3. c \in Channel
  BY <1>2 DEF Channel
<1>4. /\ c.phase = "live" /\ c.halfopen = chan[e].halfopen /\ c.closes = chan[e].closes /\ ~c.pending_eof
      /\ c.zombie /\ c.abandoned /\ c.chanreq = chan[e].chanreq /\ c.outbuffer = chan[e].outbuffer
  BY <1>2 DEF Channel
<1> HIDE DEF c
<1>5. Steady(c) /\ Quiet(c)
  BY <1>2, <1>4 DEF Steady, Quiet
<1>6. y \in WorkRec /\ y.c = c /\ y.out = <<>>
  BY <1>2, <1>3, WithIs
<1> HIDE DEF y
<1>7. Ended(c, y)
  BY <1>3, <1>4, <1>5, <1>6, EndedStart
<1>8. Ended(c, ssh2_channel_check_close(y)) /\ Quiet(ssh2_channel_check_close(y).c)
  BY <1>3, <1>4, <1>5, <1>6, <1>7, EndedCheckClose, QuietCheckClose
<1>9. Counted(e, c, 0, 0)
  <2>1. Counted(e, chan[e], 0, 0)
    BY <1>1, NothingCounted
  <2> QED BY <1>4, <2>1 DEF Counted
<1> QED BY <1>1, <1>2, <1>3, <1>4, <1>8, <1>9, EndCall

\* The window is opened again.
LEMMA EndUnthrottleChan ==
    ASSUME FlowInv, EndInv, Forwarded, NEW e \in Ends, ssh2channel_unthrottle(e)
    PROVE  EndInv' /\ (DataInv => DataInv')
<1> DEFINE m == chan[e].locmaxwin
           c(b) == [chan[e] EXCEPT !.inbuf = b]
           x(b) == With(Work(e), c(b))
           y(b) == IF b < m THEN ssh2_set_window(x(b), m - b) ELSE x(b)
           d(b) == [y(b).c EXCEPT !.throttling_conn = @ /\ b > m]
<1>1. Live(e) /\ error' = error /\ UNCHANGED <<written, delivered>>
  BY DEF ssh2channel_unthrottle
<1>2. /\ Ended(chan[e], Work(e)) /\ Work(e).c = chan[e] /\ chan[e] \in Channel /\ chan[e].phase = "live"
      /\ Work(e) \in WorkRec /\ Quiet(chan[e])
  BY <1>1, EndWork
<1>3. PICK b \in 0 .. chan[e].inbuf - 1 : Call(e, With(y(b), d(b)))
  BY DEF ssh2channel_unthrottle
<1>4. b \in Nat /\ b < chan[e].inbuf /\ m \in Nat /\ chan[e].inbuf \in Nat
  <2>1. chan[e].inbuf \in Nat /\ m \in Nat
    BY <1>2 DEF Channel
  <2> QED BY <2>1
<1>5. ~chan[e].halfopen
  BY <1>2, <1>4 DEF FlowInv, Opening, Half, Ends
<1>6. c(b) \in Channel
  BY <1>2, <1>4, Zenon DEF Channel
<1>7. Kin(chan[e], c(b)) /\ Still(chan[e], c(b)) /\ ~c(b).halfopen
  BY <1>2, <1>5, <1>6 DEF Channel, Kin, Still
<1> HIDE DEF c, m
<1>8. Ended(chan[e], x(b)) /\ x(b) \in WorkRec /\ x(b).c = c(b)
  BY <1>2, <1>6, <1>7, EndedKin, WithIs
<1> HIDE DEF x
<1>9. Ended(chan[e], y(b)) /\ Still(chan[e], y(b).c)
  <2>1. CASE b < m
    <3>1. m - b \in Nat
      BY <1>4, <2>1
    <3>2. Ended(chan[e], ssh2_set_window(x(b), m - b))
      BY <1>2, <1>7, <1>8, <3>1, EndedSetWindow
    <3>3. Still(x(b).c, ssh2_set_window(x(b), m - b).c)
      BY <1>8, SetWindowIs, StillIs
    <3>4. Still(chan[e], ssh2_set_window(x(b), m - b).c)
      BY <1>7, <1>8, <3>3, StillIs
    <3> QED BY <2>1, <3>2, <3>4
  <2>2. CASE ~(b < m)
    BY <1>7, <1>8, <2>2
  <2> QED BY <2>1, <2>2
<1>10. y(b) \in WorkRec /\ y(b).c \in Channel
  BY <1>9 DEF Ended, WorkRec
<1> HIDE DEF y
<1>11. d(b) \in Channel /\ Kin(y(b).c, d(b)) /\ Still(y(b).c, d(b))
  BY <1>10 DEF Channel, Kin, Still
<1> HIDE DEF d
<1>12. Ended(chan[e], With(y(b), d(b))) /\ With(y(b), d(b)).c = d(b)
  BY <1>2, <1>9, <1>10, <1>11, EndedKin, WithIs
<1>13. Quiet(With(y(b), d(b)).c)
  <2>1. Still(chan[e], d(b))
    BY <1>9, <1>11, StillIs
  <2> QED BY <1>2, <1>12, <2>1, StillIs
<1>14. Counted(e, chan[e], 0, 0)
  BY <1>1, NothingCounted
<1> QED BY <1>1, <1>2, <1>3, <1>12, <1>13, <1>14, EndCall

\* Where neither end moves.
LEMMA EndStill ==
    ASSUME EndInv, UNCHANGED <<chan, net, error>>
    PROVE  EndInv' /\ (DataInv /\ UNCHANGED <<written, delivered>> => DataInv')
<1>1. EndInv'
  BY DEF EndInv
<1>2. DataInv /\ UNCHANGED <<written, delivered>> => DataInv'
  BY DEF DataInv
<1> QED BY <1>1, <1>2

\* All input is frozen, or released again.
LEMMA EndThrottleAll ==
    ASSUME FlowInv, EndInv, Forwarded, NEW e \in Ends, ssh2_throttle_all_channels(e)
    PROVE  EndInv' /\ (DataInv => DataInv')
<1> DEFINE all == ~throttled[e]
           x == ssh2_channel_check_throttle(all, Work(e))
<1>1. TypeOK /\ net' = net /\ error' = error /\ UNCHANGED <<written, delivered>>
  BY DEF FlowInv, ssh2_throttle_all_channels
<1>2. CASE ~Live(e)
  <2>1. chan' = chan
    BY <1>2 DEF ssh2_throttle_all_channels
  <2> QED BY <1>1, <2>1, EndStill
<1>3. CASE Live(e)
  <2>1. /\ Ended(chan[e], Work(e)) /\ Work(e).c = chan[e] /\ chan[e] \in Channel /\ chan[e].phase = "live"
        /\ Work(e) \in WorkRec /\ Quiet(chan[e]) /\ Work(e).out = <<>>
    BY <1>3, EndWork
  <2>2. Ended(chan[e], x) /\ Quiet(x.c)
    BY <2>1, EndedThrottle, QuietThrottle
  <2>3. x.out = <<>>
    BY <2>1 DEF ssh2_channel_check_throttle, With, WorkRec
  <2>4. chan' = [chan EXCEPT ![e] = x.c]
    BY <1>3 DEF ssh2_throttle_all_channels
  <2> HIDE DEF x
  <2>5. Call(e, x)
    <3>1. net \in [Ends -> Seq(Packet)] /\ Peer(e) \in Ends
      BY <1>1, PeerIs DEF TypeOK
    <3>2. net[Peer(e)] \o <<>> = net[Peer(e)]
      BY <3>1
    <3>3. net = [net EXCEPT ![e] = net[e], ![Peer(e)] = @ \o x.out]
      BY <2>3, <3>1, <3>2, PeerIs
    <3> QED BY <1>1, <2>4, <3>3 DEF Call, Commit
  <2>6. Counted(e, chan[e], 0, 0)
    BY <1>1, NothingCounted
  <2> QED BY <1>1, <2>1, <2>2, <2>5, <2>6, EndCall
<1> QED BY <1>2, <1>3

\* No end of a forwarding ever gets a packet that it does not expect.
LEMMA NothingUnexpected ==
    ASSUME FlowInv, EndInv, NEW e \in Ends, net[e] # <<>>
    PROVE  ~Unexpected(e)
<1> DEFINE type == Head(net[e]).type
<1>1. Opening /\ TypeOK /\ e \in {"opener", "acceptor"} /\ net[e] \in Seq(Packet) /\ chan[e] \in Channel
  BY DEF FlowInv, TypeOK, Ends
<1>2. CASE type \in {"OPEN_CONFIRMATION", "OPEN_FAILURE"}
  <2>1. e = "opener" /\ Half
    BY <1>2, AnswerArrives
  <2> QED BY <1>2, <2>1 DEF Unexpected, Half
<1>3. CASE type \notin {"OPEN_CONFIRMATION", "OPEN_FAILURE", "OPEN"}
  <2>1. Expected(e)
    <3>1. CASE chan[e].phase = "live" /\ chan[e].halfopen
      <4>1. e = "opener" /\ Half
        BY <1>1, <3>1 DEF Opening, Half
      <4>2. Asking \/ Refused \/ Confirmed
        BY <1>1, <4>1 DEF Opening
      <4>3. ~Asking
        BY <4>1 DEF Asking
      <4>4. ~Confirmed
        BY <1>3, <4>1 DEF Confirmed
      <4>5. ~Refused
        <5>1. Head(<<Pkt("OPEN_FAILURE", 0)>>).type = "OPEN_FAILURE"
          BY DEF Pkt
        <5> QED BY <1>3, <4>1, <5>1 DEF Refused
      <4> QED BY <4>2, <4>3, <4>4, <4>5
    <3>2. CASE chan[e].phase = "none"
      <4>1. chan["acceptor"].phase = "none"
        BY <1>1, <3>2 DEF Opening
      <4>2. Half
        BY <1>1, <4>1 DEF Opening
      <4>3. e = "acceptor"
        BY <1>1, <3>2, <4>2 DEF Half
      <4>4. Asking
        BY <1>1, <4>1, <4>2, <4>3 DEF Opening, Refused, Confirmed
      <4>5. Head(<<Pkt("OPEN", WinSize)>>).type = "OPEN"
        BY DEF Pkt
      <4> QED BY <1>3, <4>3, <4>4, <4>5 DEF Asking
    <3>3. CASE chan[e].phase = "gone"
      <4>1. CASE chan["acceptor"].phase = "none"
        <5>1. e = "opener" /\ ~Half
          BY <1>1, <3>3, <4>1 DEF Half
        <5> QED BY <1>1, <4>1, <5>1 DEF Opening
      <4>2. CASE chan["acceptor"].phase # "none"
        <5>1. "RCVD_CLOSE" \in chan[e].closes
          BY <3>3, <4>2 DEF EndInv
        <5> QED BY <5>1 DEF EndInv, Seen
      <4> QED BY <4>1, <4>2
    <3>4. chan[e].phase \in {"none", "live", "gone"}
      BY <1>1 DEF Channel
    <3> QED BY <3>1, <3>2, <3>3, <3>4 DEF Expected
  <2>2. ASSUME type = "REPLY", chan[e].chanreq = <<>> PROVE FALSE
    <3> DEFINE t == Total(net[e], "REPLY")
               u == Total(Tail(net[e]), "REPLY")
               q == IF "SENT_CLOSE" \in chan[Peer(e)].closes THEN 0 ELSE Total(net[Peer(e)], "REQUEST")
    <3>1. Head(net[e]) \in Body /\ t = Head(net[e]).n + u /\ Tail(net[e]) \in Seq(Packet)
      BY <2>1, <2>2, Arriving
    <3>2. Head(net[e]).n = 1 /\ u \in Nat
      BY <2>2, <3>1, TotalNat DEF Body
    <3>3. t + q <= Len(<<>>)
      BY <2>2 DEF EndInv, Answered
    <3>4. q \in Nat
      <4>1. net[Peer(e)] \in Seq(Packet)
        BY <1>1, PeerIs DEF TypeOK
      <4> QED BY <4>1, TotalNat
    <3> HIDE DEF t, u, q
    <3> QED BY <3>1, <3>2, <3>3, <3>4
  <2> QED BY <1>3, <2>1, <2>2 DEF Unexpected
<1>4. CASE type = "OPEN"
  BY <1>4 DEF Unexpected
<1> QED BY <1>2, <1>3, <1>4

\* A window adjustment sends what it lets out.
LEMMA EndRecvWindowAdjust ==
    ASSUME FlowInv, EndInv, Forwarded, NEW e \in Ends, RecvWindowAdjust(e)
    PROVE  EndInv' /\ (DataInv => DataInv')
<1> DEFINE w == [chan[e] EXCEPT !.remwindow = @ + Head(net[e]).n]
           y == With(Work(e), w)
           x == ssh2_try_send_and_unthrottle(throttled[e], y)
<1>1. /\ net[e] # <<>> /\ Head(net[e]).type = "WINDOW_ADJUST" /\ Expected(e) /\ error' = error
      /\ UNCHANGED <<written, delivered>> /\ Live(e)
  BY DEF RecvWindowAdjust, Arrives, Expected, Live
<1>2. /\ Ended(chan[e], Work(e)) /\ Work(e).c = chan[e] /\ chan[e] \in Channel /\ chan[e].phase = "live"
      /\ Work(e) \in WorkRec /\ Quiet(chan[e])
  BY <1>1, EndWork
<1>3. Counted(e, chan[e], 0, 0)
  BY <1>1, NothingCounted
<1>4. CASE "SENT_EOF" \in chan[e].closes
  <2>1. Handled(e, Work(e))
    BY <1>4 DEF RecvWindowAdjust
  <2> QED BY <1>1, <1>2, <1>3, <2>1, EndHandled
<1>5. CASE "SENT_EOF" \notin chan[e].closes
  <2>1. Handled(e, x)
    BY <1>5 DEF RecvWindowAdjust
  <2>2. w \in Channel
    <3> DEFINE k == chan[e].remwindow + Head(net[e]).n
    <3>1. chan[e].remwindow \in Nat
      BY <1>2 DEF Channel
    <3>2. Head(net[e]).n \in Nat
      BY <1>1, Arriving
    <3>3. k \in Nat
      BY <3>1, <3>2
    <3>4. w = [chan[e] EXCEPT !.remwindow = k]
      OBVIOUS
    <3> HIDE DEF k, w
    <3> QED BY <1>2, <3>3, <3>4, Zenon DEF Channel
  <2>3. Kin(chan[e], w) /\ Still(chan[e], w)
    BY <1>2, <2>2 DEF Kin, Still, Channel
  <2> HIDE DEF w
  <2>4. Ended(chan[e], y) /\ y.c = w
    BY <1>2, <2>2, <2>3, EndedKin, WithIs
  <2> HIDE DEF y
  <2>5. Ended(chan[e], x) /\ Quiet(x.c)
    <3>1. y.c.phase = "live" /\ Quiet(y.c)
      BY <1>2, <2>3, <2>4, StillIs DEF Still
    <3> QED BY <1>2, <2>4, <3>1, EndedUnthrottle, QuietUnthrottle
  <2> HIDE DEF x
  <2> QED BY <1>1, <1>2, <1>3, <2>1, <2>5, EndHandled
<1> QED BY <1>4, <1>5

\* Data is passed on, and the window adjusted.
LEMMA EndRecvData ==
    ASSUME FlowInv, EndInv, Forwarded, NEW e \in Ends, RecvData(e)
    PROVE  EndInv' /\ (DataInv => DataInv')
<1> DEFINE n == Head(net[e]).n
           c == [chan[e] EXCEPT !.locwindow = @ - n, !.remlocwin = @ - n]
           x == With(Work(e), c)
<1>1. /\ net[e] # <<>> /\ Head(net[e]).type = "DATA" /\ Expected(e) /\ error' = error
      /\ written' = written /\ delivered' = [delivered EXCEPT ![e] = @ + n] /\ Live(e)
  BY DEF RecvData, Arrives, Expected, Live
<1>2. PICK y \in chan_send(x, n) : Handled(e, WindowAfterData(y))
  BY DEF RecvData
<1>3. /\ Ended(chan[e], Work(e)) /\ Work(e).c = chan[e] /\ chan[e] \in Channel /\ chan[e].phase = "live"
      /\ Work(e) \in WorkRec /\ Quiet(chan[e]) /\ ~chan[e].halfopen
  BY <1>1, EndWork DEF Expected
<1>4. n \in Nat
  BY <1>1, Arriving
<1> HIDE DEF n
<1>5. c \in Channel
  <2> DEFINE a == chan[e].locwindow - n
             b == chan[e].remlocwin - n
  <2>1. chan[e].locwindow \in Int /\ chan[e].remlocwin \in Int
    BY <1>3 DEF Channel
  <2>2. a \in Int /\ b \in Int
    BY <1>4, <2>1
  <2>3. c = [chan[e] EXCEPT !.locwindow = a, !.remlocwin = b]
    OBVIOUS
  <2> HIDE DEF a, b, c
  <2> QED BY <1>3, <2>2, <2>3, Zenon DEF Channel
<1>6. Kin(chan[e], c) /\ Still(chan[e], c)
  BY <1>3, <1>5 DEF Kin, Still, Channel
<1> HIDE DEF c
<1>7. Ended(chan[e], x) /\ x.c = c /\ x \in WorkRec
  BY <1>3, <1>5, <1>6, EndedKin, WithIs
<1> HIDE DEF x
<1>8. ~x.c.halfopen
  BY <1>3, <1>6, <1>7 DEF Kin
<1>9. Ended(chan[e], y) /\ Still(x.c, y.c)
  BY <1>3, <1>4, <1>7, <1>8, EndedChanSend, StillChanSend
<1>10. y \in WorkRec /\ ~y.c.halfopen
  BY <1>8, <1>9 DEF Ended, Still
<1>11. Ended(chan[e], WindowAfterData(y)) /\ Still(y.c, WindowAfterData(y).c)
  BY <1>3, <1>9, <1>10, EndedWindowAfterData, StillWindowAfterData
<1>12. Quiet(WindowAfterData(y).c)
  <2>1. Still(chan[e], WindowAfterData(y).c)
    BY <1>6, <1>7, <1>9, <1>11, StillIs
  <2> QED BY <1>3, <2>1, StillIs
<1>13. Counted(e, chan[e], 0, n)
  <2>1. Peer(e) \in Ends /\ Peer(e) # e
    BY PeerIs
  <2>2. written[e] \in Nat /\ delivered \in [Ends -> Nat] /\ chan[e].outbuffer \in Nat
    BY <1>3 DEF FlowInv, TypeOK, Channel
  <2>3. delivered'[e] = delivered[e] + n /\ delivered'[Peer(e)] = delivered[Peer(e)]
    BY <1>1, <2>1, <2>2
  <2> QED BY <1>1, <1>4, <2>2, <2>3 DEF Counted
<1>14. n = (IF Head(net[e]).type = "DATA" THEN Head(net[e]).n ELSE 0)
  BY <1>1 DEF n
<1> QED BY <1>1, <1>2, <1>3, <1>11, <1>12, <1>13, <1>14, EndHandled

\* A packet that is not data is taken from the queue.
LEMMA Taking ==
    ASSUME FlowInv, EndInv, NEW e \in Ends, net[e] # <<>>, Expected(e), ~error[e], Head(net[e]).type # "DATA"
    PROVE  /\ chan[e].phase = "live" /\ ~chan[e].halfopen
           /\ Tail(net[e]) \in Seq(Packet) /\ Orderly(Tail(net[e]), chan[Peer(e)].closes)
           /\ NoData(net[e]) => NoData(Tail(net[e]))
           /\ Head(net[e]) \in Body
           /\ Total(net[e], "DATA") = 0 + Total(Tail(net[e]), "DATA")
           /\ Total(net[e], "REPLY") = (IF Head(net[e]).type = "REPLY" THEN 1 ELSE 0) + Total(Tail(net[e]), "REPLY")
           /\ \A closes : Asked(closes, net[e]) =
                  (IF Head(net[e]).type = "REQUEST" /\ "SENT_CLOSE" \notin closes THEN Head(net[e]).n ELSE 0)
                  + Asked(closes, Tail(net[e]))
           /\ \A closes : Asked(closes, net[e]) \in Nat /\ Asked(closes, Tail(net[e])) \in Nat
<1> DEFINE r == net[e]
           h == Head(r)
           rest == Tail(r)
<1>1. /\ rest \in Seq(Packet) /\ r \in Seq(Packet) /\ h \in Body
      /\ chan[e].phase = "live" /\ ~chan[e].halfopen
      /\ \A type : Total(r, type) = (IF h.type = type THEN h.n ELSE 0) + Total(rest, type)
  BY Arriving
<1>2. Orderly(r, chan[Peer(e)].closes)
  BY EndIs
<1>3. Orderly(rest, chan[Peer(e)].closes) /\ (NoData(r) => NoData(rest))
  BY <1>1, <1>2, OrderlyTail
<1>4. Total(r, "DATA") = 0 + Total(rest, "DATA")
  BY <1>1
<1>5. Total(r, "REPLY") = (IF h.type = "REPLY" THEN 1 ELSE 0) + Total(rest, "REPLY")
  BY <1>1 DEF Body
<1>6. ASSUME NEW closes
      PROVE  /\ Asked(closes, r) = (IF h.type = "REQUEST" /\ "SENT_CLOSE" \notin closes THEN h.n ELSE 0)
                                   + Asked(closes, rest)
             /\ Asked(closes, r) \in Nat /\ Asked(closes, rest) \in Nat
  <2> DEFINE a == Total(r, "REQUEST")
             b == Total(rest, "REQUEST")
  <2>1. a \in Nat /\ b \in Nat /\ a = (IF h.type = "REQUEST" THEN h.n ELSE 0) + b
    BY <1>1, TotalNat
  <2> HIDE DEF a, b, h, r, rest
  <2>2. /\ Asked(closes, r) = IF "SENT_CLOSE" \in closes THEN 0 ELSE a
        /\ Asked(closes, rest) = IF "SENT_CLOSE" \in closes THEN 0 ELSE b
    BY DEF Asked, a, b
  <2> QED BY <2>1, <2>2
<1> HIDE DEF r, h, rest
<1>7. Total(net[e], "REPLY") = (IF Head(net[e]).type = "REPLY" THEN 1 ELSE 0) + Total(Tail(net[e]), "REPLY")
  BY <1>5 DEF r, h, rest
<1> QED BY <1>1, <1>3, <1>4, <1>6, <1>7 DEF r, h, rest

\* The end of a handler that takes a packet, sees an EOF or a CLOSE, and sends
\* no reply.
LEMMA EndTaken ==
    ASSUME FlowInv, EndInv, error' = error, NEW e \in Ends, net[e] # <<>>, Expected(e),
           Head(net[e]).type # "DATA", UNCHANGED <<written, delivered>>,
           NEW w \in Channel, NEW x, Ended(w, x), Quiet(x.c), Handled(e, x),
           chan[e].closes \subseteq w.closes, w.closes \subseteq chan[e].closes \cup {"RCVD_EOF", "RCVD_CLOSE"},
           Seen(w, Tail(net[e]), chan[Peer(e)]),
           Answered(w, Tail(net[e]), net[Peer(e)], chan[Peer(e)]),
           w.abandoned = chan[e].abandoned, w.outbuffer = chan[e].outbuffer
    PROVE  EndInv' /\ (DataInv => DataInv')
<1> DEFINE r == net[e]
           rest == Tail(r)
<1>1. /\ rest \in Seq(Packet) /\ Orderly(rest, chan[Peer(e)].closes)
      /\ chan[e].phase = "live" /\ Total(r, "DATA") = 0 + Total(rest, "DATA")
      /\ \A closes : /\ Asked(closes, r) =
                           (IF Head(r).type = "REQUEST" /\ "SENT_CLOSE" \notin closes THEN Head(r).n ELSE 0)
                           + Asked(closes, rest)
                     /\ Asked(closes, rest) \in Nat
  <2>1. ~error[e]
    BY EndIs
  <2> QED BY <2>1, Taking
<1>2. x \in WorkRec /\ Moves(w, x.c, x.out) /\ Total(x.out, "REPLY") = 0
  BY DEF Ended
<1>3. Total(x.out, "REPLY") + Asked(x.c.closes, rest) <= Asked(chan[e].closes, r)
  <2> DEFINE a == Asked(x.c.closes, rest)
             b == Asked(chan[e].closes, rest)
             c == Asked(chan[e].closes, r)
             t == Total(x.out, "REPLY")
             h == IF Head(r).type = "REQUEST" /\ "SENT_CLOSE" \notin chan[e].closes THEN Head(r).n ELSE 0
  <2>1. chan[e].closes \subseteq x.c.closes
    BY <1>2 DEF Moves
  <2>2. a \in Nat /\ b \in Nat /\ a <= b /\ t = 0
    BY <1>1, <1>2, <2>1, AskedLess
  <2>3. c = h + b
    BY <1>1
  <2>4. h \in Nat
    <3>1. Head(r).n \in Nat
      BY Arriving
    <3> QED BY <3>1
  <2> HIDE DEF a, b, c, t, h
  <2>5. t + a <= c
    BY <2>2, <2>3, <2>4
  <2> QED BY <2>5 DEF a, c, t
<1>4. w.closes \cap {"SENT_EOF", "SENT_CLOSE"} = chan[e].closes \cap {"SENT_EOF", "SENT_CLOSE"}
  OBVIOUS
<1>5. Commit(e, x, rest)
  BY DEF Handled
<1> HIDE DEF r, rest
<1>6. EndInv'
  BY <1>1, <1>2, <1>3, <1>4, <1>5, EndCommit DEF r, rest
<1>7. Counted(e, w, 0, 0)
  BY NothingCounted
<1>8. DataInv => DataInv'
  BY <1>1, <1>2, <1>5, <1>7, DataCommit DEF r
<1> QED BY <1>6, <1>8

\* A request is answered, unless the answer could find the channel gone.
LEMMA EndRecvRequest ==
    ASSUME FlowInv, EndInv, Forwarded, NEW e \in Ends, RecvRequest(e)
    PROVE  EndInv' /\ (DataInv => DataInv')
<1> DEFINE q == Pkt("REPLY", 1)
           x == Push(Work(e), q)
           c == chan[e]
           r == net[e]
           rest == Tail(r)
<1>1. /\ net[e] # <<>> /\ Head(net[e]).type = "REQUEST" /\ Expected(e) /\ error' = error
      /\ UNCHANGED <<written, delivered>> /\ Live(e) /\ ~error[e]
  BY DEF RecvRequest, Arrives, Expected, Live
<1>2. /\ Ended(c, Work(e)) /\ Work(e).c = c /\ c \in Channel /\ c.phase = "live"
      /\ Work(e) \in WorkRec /\ Quiet(c) /\ Steady(c) /\ Work(e).out = <<>>
  BY <1>1, EndWork
<1>3. Counted(e, c, 0, 0)
  BY <1>1, NothingCounted
<1>4. CASE Handled(e, Work(e))
  BY <1>1, <1>2, <1>3, <1>4, EndHandled
<1>5. CASE ~Handled(e, Work(e))
  <2>1. Handled(e, x) /\ Head(r).n = 1 /\ "SENT_CLOSE" \notin c.closes
    BY <1>5 DEF RecvRequest
  <2>2. q \in Body /\ q.type = "REPLY" /\ q.n = 1
    BY PktBody
  <2> HIDE DEF q
  <2>3. x \in WorkRec /\ x.c = c /\ x.out = Append(<<>>, q)
    BY <1>2, <2>2, PushIs
  <2>4. x.out = <<q>>
    BY <2>3
  <2> HIDE DEF x
  <2>5. /\ <<q>> \in Seq(Body) /\ NoData(<<q>>) /\ Orderly(<<q>>, c.closes)
        /\ Total(<<q>>, "REPLY") = 1 /\ Total(<<q>>, "REQUEST") = 0 /\ Total(<<q>>, "DATA") = 0
    BY <2>2, OneIs
  <2>6. Moves(c, x.c, x.out)
    <3>1. Len(c.chanreq) \in Nat /\ c.outbuffer \in Nat
      <4>1. c.chanreq \in Seq(Nat) /\ c.outbuffer \in Nat
        BY <1>2 DEF Channel
      <4> QED BY <4>1
    <3> HIDE DEF c
    <3> QED BY <1>2, <2>1, <2>3, <2>4, <2>5, <3>1 DEF Moves
  <2>7. /\ rest \in Seq(Packet) /\ Orderly(rest, chan[Peer(e)].closes) /\ (NoData(r) => NoData(rest))
        /\ Total(r, "DATA") = 0 + Total(rest, "DATA") /\ Total(r, "REPLY") = 0 + Total(rest, "REPLY")
        /\ Asked(c.closes, r) = 1 + Asked(c.closes, rest)
    BY <1>1, <2>1, Taking
  <2>8. /\ Seen(c, r, chan[Peer(e)]) /\ Answered(c, r, net[Peer(e)], chan[Peer(e)])
    BY EndIs
  <2>9. Seen(c, rest, chan[Peer(e)])
    <3>1. r # <<>>
      BY <1>1
    <3> HIDE DEF c, r, rest
    <3> QED BY <2>7, <2>8, <3>1 DEF Seen
  <2>10. Answered(c, rest, net[Peer(e)], chan[Peer(e)])
    <3>1. Total(rest, "REPLY") \in Nat
      BY <2>7, TotalNat
    <3>2. Total(r, "REPLY") = Total(rest, "REPLY")
      BY <2>7, <3>1
    <3> QED BY <2>8, <3>2 DEF Answered
  <2>11. Total(x.out, "REPLY") + Asked(x.c.closes, rest) <= Asked(c.closes, r)
    <3> DEFINE a == Asked(c.closes, rest)
               b == Asked(c.closes, r)
               t == Total(x.out, "REPLY")
    <3>1. a \in Nat
      BY <2>7, TotalNat DEF Asked
    <3>2. t = 1 /\ b = 1 + a
      BY <2>4, <2>5, <2>7
    <3> HIDE DEF a, b, t
    <3>3. t + a <= b
      BY <3>1, <3>2
    <3> QED BY <2>3, <3>3 DEF a, b, t
  <2>12. Commit(e, x, rest)
    BY <2>1 DEF Handled
  <2> HIDE DEF r, rest
  <2>13. EndInv'
    BY <1>1, <1>2, <2>3, <2>6, <2>7, <2>9, <2>10, <2>11, <2>12, EndCommit DEF r
  <2>14. DataInv => DataInv'
    BY <1>2, <1>3, <2>3, <2>6, <2>7, <2>12, DataCommit DEF r
  <2> QED BY <2>13, <2>14
<1> QED BY <1>4, <1>5

\* A reply takes its request off the list.
LEMMA EndRecvReply ==
    ASSUME FlowInv, EndInv, Forwarded, NEW e \in Ends, RecvReply(e)
    PROVE  EndInv' /\ (DataInv => DataInv')
<1> DEFINE h == <<Head(chan[e].chanreq)>>
           x == RequestsAnswered(Work(e), h)
           w == [x.c EXCEPT !.chanreq = Tail(@)]
           y == With(x, w)
           p == Peer(e)
           rest == Tail(net[e])
<1>1. /\ net[e] # <<>> /\ Head(net[e]).type = "REPLY" /\ Expected(e) /\ error' = error
      /\ UNCHANGED <<written, delivered>> /\ Live(e) /\ ~error[e]
      /\ chan[e].chanreq # <<>> /\ Handled(e, ssh2_channel_check_close(y))
  BY DEF RecvReply, Arrives, Expected, Live
<1>2. /\ Work(e).c = chan[e] /\ chan[e] \in Channel /\ chan[e].phase = "live" /\ ~chan[e].halfopen
      /\ Work(e) \in WorkRec /\ Quiet(chan[e]) /\ Steady(chan[e]) /\ Work(e).out = <<>>
  BY <1>1, EndWork DEF Expected
<1>3. chan[e].chanreq \in Seq(Nat)
  BY <1>2 DEF Channel
<1>4. h \in Seq(Nat)
  BY <1>1, <1>3
<1> HIDE DEF h
<1>5. Flow(chan[e], x)
  BY <1>2, <1>4, FlowWork, FlowAnswered
<1>6. /\ x.c.chanreq = chan[e].chanreq /\ Still(chan[e], x.c) /\ x.out = <<>>
      /\ x.c.outbuffer = chan[e].outbuffer /\ x.c.abandoned = chan[e].abandoned
  BY <1>2 DEF RequestsAnswered, With, WorkRec, Channel, Still
<1>7. x \in WorkRec /\ x.c \in Channel
  BY <1>5 DEF Flow, WorkRec
<1> HIDE DEF x
<1>8. /\ w \in Channel /\ Still(x.c, w) /\ w.chanreq = Tail(chan[e].chanreq)
      /\ w.outbuffer = chan[e].outbuffer /\ w.abandoned = chan[e].abandoned
  <2> DEFINE l == Tail(chan[e].chanreq)
  <2>1. l \in Seq(Nat) /\ w = [x.c EXCEPT !.chanreq = l]
    BY <1>1, <1>3, <1>6
  <2> HIDE DEF l, w
  <2>2. w \in Channel
    BY <1>7, <2>1, Zenon DEF Channel
  <2>3. Still(x.c, w) /\ w.chanreq = l /\ w.outbuffer = x.c.outbuffer /\ w.abandoned = x.c.abandoned
    BY <1>7, <2>1 DEF Channel, Still
  <2> QED BY <1>6, <2>2, <2>3 DEF l
<1> HIDE DEF w
<1>9. Still(chan[e], w)
  BY <1>6, <1>8, StillIs
<1>10. Steady(w) /\ Quiet(w) /\ w.phase = "live" /\ w.closes = chan[e].closes
  <2>1. Quiet(w)
    BY <1>2, <1>9, StillIs
  <2> QED BY <1>2, <1>8, <1>9, <2>1 DEF Steady, Still
<1>11. y \in WorkRec /\ y.c = w /\ y.out = <<>>
  BY <1>6, <1>7, <1>8, WithIs
<1> HIDE DEF y
<1>12. Ended(w, y)
  BY <1>8, <1>10, <1>11, EndedStart
<1>13. Ended(w, ssh2_channel_check_close(y)) /\ Quiet(ssh2_channel_check_close(y).c)
  BY <1>8, <1>10, <1>11, <1>12, EndedCheckClose, QuietCheckClose
<1>14. /\ rest \in Seq(Packet) /\ (NoData(net[e]) => NoData(rest))
       /\ Total(net[e], "REPLY") = 1 + Total(rest, "REPLY")
  BY <1>1, Taking
<1>15. Seen(chan[e], net[e], chan[p]) /\ Answered(chan[e], net[e], net[p], chan[p]) /\ net[p] \in Seq(Packet)
  BY EndIs
<1>16. Seen(w, rest, chan[p])
  BY <1>1, <1>10, <1>14, <1>15 DEF Seen
<1>17. Answered(w, rest, net[p], chan[p])
  <2> DEFINE a == Total(net[e], "REPLY")
             b == Total(rest, "REPLY")
             l == Len(chan[e].chanreq)
             k == Len(w.chanreq)
             q == IF "SENT_CLOSE" \in chan[p].closes THEN 0 ELSE Total(net[p], "REQUEST")
  <2>1. b \in Nat /\ q \in Nat
    BY <1>14, <1>15, TotalNat
  <2>2. l \in Nat /\ k = l - 1
    BY <1>1, <1>3, <1>8
  <2>3. a = 1 + b /\ a + q <= l
    BY <1>14, <1>15 DEF Answered
  <2> HIDE DEF a, b, l, k, q
  <2>4. b + q <= k
    BY <2>1, <2>2, <2>3
  <2> QED BY <2>4 DEF Answered, b, q, k
<1> HIDE DEF rest, p
<1>18. chan[e].closes \subseteq w.closes /\ w.closes \subseteq chan[e].closes \cup {"RCVD_EOF", "RCVD_CLOSE"}
  BY <1>10
<1> QED BY <1>1, <1>8, <1>13, <1>16, <1>17, <1>18, EndTaken DEF rest, p

\* EOF: the peer has said so, and no data follows.
LEMMA EndRecvEof ==
    ASSUME FlowInv, EndInv, Forwarded, NEW e \in Ends, RecvEof(e)
    PROVE  EndInv' /\ (DataInv => DataInv')
<1> DEFINE w == [chan[e] EXCEPT !.closes = @ \cup {"RCVD_EOF"}]
           y == With(Work(e), w)
           p == Peer(e)
           rest == Tail(net[e])
<1>1. /\ net[e] # <<>> /\ Head(net[e]).type = "EOF" /\ Expected(e) /\ error' = error
      /\ UNCHANGED <<written, delivered>> /\ Live(e) /\ ~error[e]
  BY DEF RecvEof, Arrives, Expected, Live
<1>2. /\ Work(e).c = chan[e] /\ chan[e] \in Channel /\ chan[e].phase = "live" /\ ~chan[e].halfopen
      /\ Work(e) \in WorkRec /\ Quiet(chan[e]) /\ Steady(chan[e]) /\ Work(e).out = <<>>
      /\ Ended(chan[e], Work(e))
  BY <1>1, EndWork DEF Expected
<1>3. CASE "RCVD_EOF" \in chan[e].closes
  <2>1. Handled(e, Work(e))
    BY <1>3 DEF RecvEof
  <2>2. Counted(e, chan[e], 0, 0)
    BY <1>1, NothingCounted
  <2> QED BY <1>1, <1>2, <2>1, <2>2, EndHandled
<1>4. CASE "RCVD_EOF" \notin chan[e].closes
  <2>1. Closed(Work(e), {"RCVD_EOF"}) = y
    BY <1>2 DEF Closed
  <2>2. Handled(e, ssh2_channel_check_close(y))
    BY <1>4, <2>1 DEF RecvEof, chan_send_eof, IsMain, Forwarded
  <2>3. w \in Channel
    <3> DEFINE k == chan[e].closes \cup {"RCVD_EOF"}
    <3>1. k \in SUBSET Closes
      BY <1>2 DEF Channel, Closes
    <3>2. w = [chan[e] EXCEPT !.closes = k]
      OBVIOUS
    <3> HIDE DEF k, w
    <3> QED BY <1>2, <3>1, <3>2, Zenon DEF Channel
  <2>4. /\ w.phase = "live" /\ ~w.halfopen /\ w.closes = chan[e].closes \cup {"RCVD_EOF"}
        /\ w.pending_eof = chan[e].pending_eof /\ w.outbuffer = chan[e].outbuffer
        /\ w.zombie = chan[e].zombie /\ w.abandoned = chan[e].abandoned
        /\ w.chanreq = chan[e].chanreq /\ w.srceof = chan[e].srceof /\ w.wanted = chan[e].wanted
    BY <1>2 DEF Channel
  <2> HIDE DEF w
  <2>5. Steady(w) /\ Quiet(w)
    BY <1>2, <2>4 DEF Steady, Quiet
  <2>6. y \in WorkRec /\ y.c = w /\ y.out = <<>>
    BY <1>2, <2>3, WithIs
  <2> HIDE DEF y
  <2>7. Ended(w, y)
    BY <2>3, <2>4, <2>5, <2>6, EndedStart
  <2>8. Ended(w, ssh2_channel_check_close(y)) /\ Quiet(ssh2_channel_check_close(y).c)
    BY <2>3, <2>4, <2>5, <2>6, <2>7, EndedCheckClose, QuietCheckClose
  <2>9. /\ rest \in Seq(Packet) /\ Total(net[e], "REPLY") = 0 + Total(rest, "REPLY")
    BY <1>1, Taking
  <2>10. /\ Seen(chan[e], net[e], chan[p]) /\ Answered(chan[e], net[e], net[p], chan[p])
         /\ net[e] \in Seq(Packet) /\ Orderly(net[e], chan[p].closes)
    BY EndIs
  <2>11. "SENT_EOF" \in chan[p].closes /\ NoData(rest)
    BY <1>1, <2>10, OrderlyTail
  <2>12. Seen(w, rest, chan[p])
    BY <1>1, <2>4, <2>10, <2>11 DEF Seen
  <2>13. Answered(w, rest, net[p], chan[p])
    <3>1. Total(rest, "REPLY") \in Nat
      BY <2>9, TotalNat
    <3>2. Total(net[e], "REPLY") = Total(rest, "REPLY")
      BY <2>9, <3>1
    <3> QED BY <2>4, <2>10, <3>2 DEF Answered
  <2> HIDE DEF rest, p
  <2>14. chan[e].closes \subseteq w.closes /\ w.closes \subseteq chan[e].closes \cup {"RCVD_EOF", "RCVD_CLOSE"}
    BY <2>4
  <2> QED BY <1>1, <2>2, <2>3, <2>4, <2>8, <2>12, <2>13, <2>14, EndTaken DEF rest, p
<1> QED BY <1>3, <1>4

\* CLOSE: it is the last packet of the peer.
LEMMA EndRecvClose ==
    ASSUME FlowInv, EndInv, Forwarded, NEW e \in Ends, RecvClose(e)
    PROVE  EndInv' /\ (DataInv => DataInv')
<1> DEFINE x == CloseArrived(e, Work(e))
           p == Peer(e)
           rest == Tail(net[e])
<1>1. /\ net[e] # <<>> /\ Head(net[e]).type = "CLOSE" /\ Expected(e) /\ error' = error
      /\ UNCHANGED <<written, delivered>> /\ Live(e) /\ ~error[e] /\ Handled(e, x)
  BY DEF RecvClose, Arrives, Expected, Live
<1>2. /\ chan[e] \in Channel /\ chan[e].phase = "live" /\ ~chan[e].halfopen
      /\ Quiet(chan[e]) /\ Steady(chan[e])
  BY <1>1, EndWork DEF Expected
<1>3. /\ Seen(chan[e], net[e], chan[p]) /\ net[e] \in Seq(Packet) /\ Orderly(net[e], chan[p].closes)
      /\ net[p] \in Seq(Packet) /\ p \in Ends
  BY EndIs
<1>4. "RCVD_CLOSE" \notin chan[e].closes
  BY <1>1, <1>3 DEF Seen
<1>5. ~IsMain(e)
  BY DEF Forwarded, IsMain
<1>6. PICK w \in Channel :
          /\ Ended(w, x) /\ Quiet(x.c)
          /\ w.closes = chan[e].closes \cup {"RCVD_EOF", "RCVD_CLOSE"}
          /\ w.outbuffer = chan[e].outbuffer /\ w.abandoned = chan[e].abandoned
  BY <1>2, <1>4, <1>5, EndedCloseArrived
<1>7. "SENT_CLOSE" \in chan[p].closes /\ rest = <<>>
  BY <1>1, <1>3, OrderlyTail
<1>8. "SENT_EOF" \in chan[p].closes
  <2>1. Steady(chan[p])
    BY <1>3, EndIs
  <2> QED BY <1>7, <2>1 DEF Steady
<1>9. Seen(w, rest, chan[p])
  BY <1>7, <1>8, NothingIs DEF Seen
<1>10. Answered(w, rest, net[p], chan[p])
  <2>1. w.chanreq \in Seq(Nat)
    BY DEF Channel
  <2>2. Len(w.chanreq) \in Nat
    BY <2>1
  <2>3. Total(rest, "REPLY") = 0
    BY <1>7, NothingIs
  <2>4. 0 + 0 <= Len(w.chanreq)
    BY <2>2
  <2> QED BY <1>7, <2>3, <2>4 DEF Answered
<1> HIDE DEF x, rest, p
<1> QED BY <1>1, <1>6, <1>9, <1>10, EndTaken DEF rest, p

\* The packets that open a channel.
Bare(s) ==
    /\ s \in Seq(Packet)
    /\ \A i \in DOMAIN s : s[i].type \in {"OPEN", "OPEN_CONFIRMATION", "OPEN_FAILURE"}

\* They are in order, and no part of what is counted.
LEMMA BareIs ==
    ASSUME NEW s, Bare(s)
    PROVE  /\ \A a : Orderly(s, a)
           /\ Total(s, "DATA") = 0 /\ Total(s, "REQUEST") = 0 /\ Total(s, "REPLY") = 0
<1>1. s \in Seq(Packet)
  BY DEF Bare
<1>2. \A i \in DOMAIN s : s[i].type \notin {"DATA", "REQUEST", "REPLY", "EOF", "CLOSE"}
  BY DEF Bare
<1>3. \A a : Orderly(s, a)
  BY <1>2 DEF Orderly
<1>4. Total(s, "DATA") = 0
  BY <1>1, <1>2, TotalNone
<1>5. Total(s, "REQUEST") = 0
  BY <1>1, <1>2, TotalNone
<1>6. Total(s, "REPLY") = 0
  BY <1>1, <1>2, TotalNone
<1> QED BY <1>3, <1>4, <1>5, <1>6

\* The shortest sequences of them.
LEMMA BareSmall ==
    /\ Bare(<<>>)
    /\ \A q \in Packet : q.type \in {"OPEN", "OPEN_CONFIRMATION", "OPEN_FAILURE"} => Bare(<<q>>)
<1>1. Bare(<<>>)
  <2>1. <<>> \in Seq(Packet) /\ DOMAIN <<>> = {}
    OBVIOUS
  <2> QED BY <2>1 DEF Bare
<1>2. ASSUME NEW q \in Packet, q.type \in {"OPEN", "OPEN_CONFIRMATION", "OPEN_FAILURE"} PROVE Bare(<<q>>)
  <2>1. <<q>> \in Seq(Packet) /\ \A i \in DOMAIN <<q>> : <<q>>[i] = q
    OBVIOUS
  <2> QED BY <1>2, <2>1 DEF Bare
<1> QED BY <1>1, <1>2

\* Nothing has been sent before the channel is open.
LEMMA EndFresh ==
    ASSUME FlowInv, FlowInv', EndInv, UNCHANGED <<error, written, delivered>>,
           \A e \in Ends : /\ Bare(net[e]) /\ chan[e].outbuffer = 0
                           /\ Bare(net'[e]) /\ chan'[e].outbuffer = 0
                           /\ chan'[e].closes = {} /\ Steady(chan'[e]) /\ Quiet(chan'[e])
                           /\ chan[e].abandoned => chan'[e].abandoned
                           /\ chan'[e].phase = "gone" => chan'["acceptor"].phase = "none"
    PROVE  EndInv' /\ (DataInv => DataInv')
<1>1. ASSUME NEW e \in Ends
      PROVE  /\ Steady(chan'[e]) /\ Quiet(chan'[e])
             /\ Orderly(net'[Peer(e)], chan'[e].closes)
             /\ Seen(chan'[e], net'[e], chan'[Peer(e)])
             /\ Answered(chan'[e], net'[e], net'[Peer(e)], chan'[Peer(e)])
             /\ chan'[e].phase = "gone" /\ chan'["acceptor"].phase # "none"
                => {"SENT_CLOSE", "RCVD_CLOSE"} \subseteq chan'[e].closes
             /\ ~error'[e]
  <2> DEFINE p == Peer(e)
             d == chan'[e]
             f == chan'[p]
  <2>1. p \in Ends
    BY PeerIs
  <2>2. d \in Channel /\ ~error[e]
    BY DEF FlowInv, TypeOK, EndInv
  <2>3. Bare(net'[e]) /\ Bare(net'[p]) /\ d.closes = {} /\ f.closes = {}
    BY <2>1
  <2>4. Total(net'[e], "REPLY") = 0 /\ Total(net'[p], "REQUEST") = 0 /\ \A a : Orderly(net'[p], a)
    BY <2>3, BareIs
  <2>5. Seen(d, net'[e], f)
    BY <2>3 DEF Seen
  <2>6. Answered(d, net'[e], net'[p], f)
    <3>1. d.chanreq \in Seq(Nat)
      BY <2>2 DEF Channel
    <3>2. Len(d.chanreq) \in Nat
      BY <3>1
    <3>3. 0 + 0 <= Len(d.chanreq)
      BY <3>2
    <3> QED BY <2>3, <2>4, <3>3 DEF Answered
  <2> QED BY <2>2, <2>4, <2>5, <2>6
<1>2. EndInv'
  BY <1>1 DEF EndInv
<1>3. ASSUME DataInv, NEW e \in Ends, ~chan'[e].abandoned
      PROVE  written'[e] = delivered'[Peer(e)] + Total(net'[Peer(e)], "DATA") + chan'[e].outbuffer
  <2>1. Peer(e) \in Ends
    BY PeerIs
  <2>2. Total(net[Peer(e)], "DATA") = 0 /\ Total(net'[Peer(e)], "DATA") = 0
    BY <2>1, BareIs
  <2>3. written[e] = delivered[Peer(e)] + Total(net[Peer(e)], "DATA") + chan[e].outbuffer
    BY <1>3 DEF DataInv
  <2> QED BY <2>2, <2>3
<1>4. DataInv => DataInv'
  BY <1>3 DEF DataInv
<1> QED BY <1>2, <1>4

\* The opener while it waits has nothing to send.
LEMMA HalfIs ==
    ASSUME FlowInv, EndInv, Forwarded, Half
    PROVE  /\ chan["opener"] \in Channel /\ chan["opener"].closes = {} /\ chan["opener"].outbuffer = 0
           /\ Steady(chan["opener"]) /\ Quiet(chan["opener"])
           /\ chan["opener"].phase = "live" /\ chan["opener"].halfopen /\ chan["opener"].chanreq = <<>>
<1> DEFINE c == chan["opener"]
<1>1. "opener" \in Ends
  BY DEF Ends
<1>2. c \in Channel /\ Steady(c) /\ Quiet(c) /\ c.phase = "live" /\ c.halfopen
  BY <1>1, EndIs DEF Half
<1>3. c.closes = {} /\ c.chanreq = <<>>
  BY <1>2 DEF Steady
<1>4. c.outbuffer = 0
  <2>1. c.outbuffer \in Nat
    BY <1>2 DEF Channel
  <2>2. Drained(c)
    BY <1>1 DEF FlowInv
  <2>3. ~(c.outbuffer > 0)
    BY <1>2, <2>2 DEF Drained
  <2> QED BY <2>1, <2>3
<1> QED BY <1>2, <1>3, <1>4

\* The three ways in which a forwarding begins, or does not.
LEMMA EndOpening ==
    ASSUME FlowInv, EndInv, Forwarded, FlowInv',
           ssh2_lportfwd_open \/ \E e \in Ends : RecvOpen(e) \/ RecvOpenFailure(e)
    PROVE  EndInv' /\ (DataInv => DataInv')
<1>1. TypeOK /\ Opening /\ "opener" \in Ends /\ "acceptor" \in Ends
  BY DEF FlowInv, Ends
<1>2. chan \in [Ends -> Channel] /\ net \in [Ends -> Seq(Packet)]
  BY <1>1 DEF TypeOK
<1>3. WinSize \in Nat
  BY ParamAssumption
<1>4. Pkt("OPEN", WinSize) \in Packet /\ Pkt("OPEN_FAILURE", 0) \in Packet
  BY <1>3 DEF Pkt, Packet
<1>5. Bare(<<>>) /\ Bare(<<Pkt("OPEN", WinSize)>>) /\ Bare(<<Pkt("OPEN_FAILURE", 0)>>)
  BY <1>4, BareSmall DEF Pkt
<1>6. Steady(Absent) /\ Quiet(Absent)
  BY AbsentIs DEF Steady, Quiet
<1>7. CASE ssh2_lportfwd_open
  <2> DEFINE i == ssh2_channel_init(WinSize, FALSE)
             c == [i EXCEPT !.halfopen = TRUE, !.wanted = FALSE]
             q == Pkt("OPEN", WinSize)
  <2>1. chan["opener"].phase = "none" /\ chan["acceptor"].phase = "none"
    BY <1>1, <1>7 DEF ssh2_lportfwd_open, Opening
  <2>2. chan["acceptor"] = Absent /\ chan["opener"] = Absent /\ net["opener"] = <<>> /\ net["acceptor"] = <<>>
    BY <1>1, <2>1 DEF Opening, Half
  <2>3. /\ i \in Channel /\ i.phase = "live" /\ i.outbuffer = 0 /\ i.chanreq = <<>> /\ i.closes = {}
        /\ ~i.pending_eof /\ ~i.zombie
    BY <1>3, InitIs
  <2>4. Peer("opener") = "acceptor"
    BY DEF Peer
  <2>5. /\ chan' = [chan EXCEPT !["opener"] = c]
        /\ net' = [net EXCEPT !["opener"] = net["opener"], !["acceptor"] = @ \o <<q>>]
    <3>1. Commit("opener", [c |-> c, out |-> <<q>>], net["opener"])
      BY <1>7 DEF ssh2_lportfwd_open, Call
    <3> HIDE DEF c, q
    <3> QED BY <2>4, <3>1, CommitOf
  <2> HIDE DEF i
  <2>6. /\ c.phase = "live" /\ c.halfopen /\ c.outbuffer = 0 /\ c.chanreq = <<>> /\ c.closes = {}
        /\ ~c.pending_eof /\ ~c.zombie
    BY <2>3 DEF Channel
  <2> HIDE DEF c
  <2>7. <<>> \o <<q>> = <<q>>
    BY <1>4
  <2>8. /\ chan'["opener"] = c /\ chan'["acceptor"] = Absent
        /\ net'["opener"] = <<>> /\ net'["acceptor"] = <<q>>
    BY <1>1, <1>2, <2>2, <2>5, <2>7
  <2>9. Steady(c) /\ Quiet(c)
    BY <2>6 DEF Steady, Quiet
  <2>10. UNCHANGED <<error, written, delivered>>
    BY <1>7 DEF ssh2_lportfwd_open
  <2> HIDE DEF q
  <2>11. \A e \in Ends : /\ Bare(net[e]) /\ chan[e].outbuffer = 0
                         /\ Bare(net'[e]) /\ chan'[e].outbuffer = 0
                         /\ chan'[e].closes = {} /\ Steady(chan'[e]) /\ Quiet(chan'[e])
                         /\ chan[e].abandoned => chan'[e].abandoned
                         /\ chan'[e].phase = "gone" => chan'["acceptor"].phase = "none"
    BY <1>5, <1>6, <2>2, <2>6, <2>8, <2>9, AbsentIs DEF Ends, q
  <2> QED BY <2>10, <2>11, EndFresh
<1>8. ASSUME NEW e \in Ends, RecvOpen(e) PROVE EndInv' /\ (DataInv => DataInv')
  <2> DEFINE window == IF setup.fixed > 0 THEN setup.fixed ELSE WinSize
             b == setup.fixed > 0
             i == ssh2_channel_init(window, b)
             c == [i EXCEPT !.remwindow = Head(net[e]).n]
             q == Pkt("OPEN_CONFIRMATION", window)
             f == Pkt("OPEN_FAILURE", 0)
             o == chan["opener"]
  <2>1. e = "acceptor" /\ Half /\ Asking
    BY <1>8, OpenArrives DEF RecvOpen
  <2>2. /\ chan["acceptor"] = Absent /\ net["acceptor"] = <<Pkt("OPEN", WinSize)>> /\ net["opener"] = <<>>
    BY <1>1, <2>1 DEF Opening, Asking
  <2>3. o.closes = {} /\ o.outbuffer = 0 /\ Steady(o) /\ Quiet(o) /\ o.phase = "live"
    BY <2>1, HalfIs
  <2>4. Peer("acceptor") = "opener" /\ Tail(net[e]) = <<>> /\ Head(net[e]).n = WinSize
    BY <2>1, <2>2 DEF Peer, Pkt
  <2>5. window \in Nat /\ b \in BOOLEAN
    <3>1. setup.fixed \in Nat
      BY <1>1 DEF TypeOK, Setup
    <3> QED BY <1>3, <3>1
  <2>6. UNCHANGED <<error, written, delivered>>
    BY <1>8 DEF RecvOpen
  <2>7. Handled(e, [c |-> c, out |-> <<q>>]) \/ Handled(e, [Work(e) EXCEPT !.out = <<f>>])
    BY <1>8 DEF RecvOpen
  <2>8. CASE Handled(e, [c |-> c, out |-> <<q>>])
    <3>1. /\ chan' = [chan EXCEPT !["acceptor"] = c]
          /\ net' = [net EXCEPT !["acceptor"] = <<>>, !["opener"] = @ \o <<q>>]
      <4> DEFINE out == <<q>>
                 rest == Tail(net[e])
      <4>1. Commit("acceptor", [c |-> c, out |-> out], rest)
        BY <2>1, <2>8 DEF Handled
      <4> HIDE DEF c, out, rest
      <4>2. /\ chan' = [chan EXCEPT !["acceptor"] = c]
            /\ net' = [net EXCEPT !["acceptor"] = rest, ![Peer("acceptor")] = @ \o out]
        <5> DEFINE x == [c |-> c, out |-> out]
        <5>1. x.c = c /\ x.out = out
          OBVIOUS
        <5> HIDE DEF x
        <5>2. Commit("acceptor", x, rest)
          BY <4>1 DEF x
        <5>3. /\ chan' = [chan EXCEPT !["acceptor"] = x.c]
              /\ net' = [net EXCEPT !["acceptor"] = rest, ![Peer("acceptor")] = @ \o x.out]
          BY <5>2 DEF Commit
        <5> QED BY <5>1, <5>3, Zenon
      <4> QED BY <2>4, <4>2 DEF out, rest
    <3> HIDE DEF window, b
    <3>2. /\ i \in Channel /\ i.phase = "live" /\ i.outbuffer = 0 /\ i.chanreq = <<>> /\ i.closes = {}
          /\ ~i.pending_eof /\ ~i.zombie /\ ~i.halfopen /\ ~i.abandoned
      BY <2>5, InitIs
    <3> HIDE DEF i
    <3>3. /\ c.phase = "live" /\ ~c.halfopen /\ c.outbuffer = 0 /\ c.chanreq = <<>> /\ c.closes = {}
          /\ ~c.pending_eof /\ ~c.zombie
      BY <3>2 DEF Channel
    <3> HIDE DEF c
    <3>4. Steady(c) /\ Quiet(c)
      BY <3>3 DEF Steady, Quiet
    <3>5. q \in Packet /\ q.type = "OPEN_CONFIRMATION"
      BY <2>5 DEF Pkt, Packet
    <3> HIDE DEF q
    <3>6. <<>> \o <<q>> = <<q>> /\ Bare(<<q>>)
      BY <3>5, BareSmall
    <3>7. /\ chan'["opener"] = o /\ chan'["acceptor"] = c
          /\ net'["opener"] = <<q>> /\ net'["acceptor"] = <<>>
      BY <1>1, <1>2, <2>2, <3>1, <3>6
    <3>8. \A k \in Ends : /\ Bare(net[k]) /\ chan[k].outbuffer = 0
                          /\ Bare(net'[k]) /\ chan'[k].outbuffer = 0
                          /\ chan'[k].closes = {} /\ Steady(chan'[k]) /\ Quiet(chan'[k])
                          /\ chan[k].abandoned => chan'[k].abandoned
                          /\ chan'[k].phase = "gone" => chan'["acceptor"].phase = "none"
      BY <1>5, <2>2, <2>3, <3>3, <3>4, <3>6, <3>7, AbsentIs DEF Ends
    <3> QED BY <2>6, <3>8, EndFresh
  <2>9. CASE Handled(e, [Work(e) EXCEPT !.out = <<f>>])
    <3>1. /\ chan' = [chan EXCEPT !["acceptor"] = chan["acceptor"]]
          /\ net' = [net EXCEPT !["acceptor"] = <<>>, !["opener"] = @ \o <<f>>]
      BY <2>1, <2>4, <2>9 DEF Handled, Commit, Work
    <3>2. <<>> \o <<f>> = <<f>>
      BY <1>4
    <3>3. /\ chan'["opener"] = o /\ chan'["acceptor"] = Absent
          /\ net'["opener"] = <<f>> /\ net'["acceptor"] = <<>>
      BY <1>1, <1>2, <2>2, <3>1, <3>2
    <3>4. \A k \in Ends : /\ Bare(net[k]) /\ chan[k].outbuffer = 0
                          /\ Bare(net'[k]) /\ chan'[k].outbuffer = 0
                          /\ chan'[k].closes = {} /\ Steady(chan'[k]) /\ Quiet(chan'[k])
                          /\ chan[k].abandoned => chan'[k].abandoned
                          /\ chan'[k].phase = "gone" => chan'["acceptor"].phase = "none"
      BY <1>5, <1>6, <2>2, <2>3, <3>3, AbsentIs DEF Ends
    <3> QED BY <2>6, <3>4, EndFresh
  <2> QED BY <2>7, <2>8, <2>9
<1>9. ASSUME NEW e \in Ends, RecvOpenFailure(e) PROVE EndInv' /\ (DataInv => DataInv')
  <2> DEFINE o == chan["opener"]
             c == [o EXCEPT !.phase = "gone", !.inbuf = 0, !.outbuffer = 0, !.zombie = TRUE,
                            !.abandoned = @ \/ o.outbuffer > 0]
             x == ssh2_channel_destroy(Work(e))
  <2>1. net[e] # <<>> /\ Head(net[e]).type = "OPEN_FAILURE" /\ Handled(e, x)
        /\ UNCHANGED <<error, written, delivered>>
    BY <1>9 DEF RecvOpenFailure, Arrives
  <2>2. e = "opener" /\ Half /\ Refused
    BY <2>1, AnswerArrives
  <2>3. /\ chan["acceptor"] = Absent /\ net["acceptor"] = <<>> /\ net["opener"] = <<Pkt("OPEN_FAILURE", 0)>>
    BY <1>1, <2>2 DEF Opening, Refused
  <2>4. o \in Channel /\ o.closes = {} /\ o.outbuffer = 0 /\ Steady(o) /\ Quiet(o) /\ o.phase = "live"
    BY <2>2, HalfIs
  <2>5. Work(e).c = o /\ Work(e) \in WorkRec /\ Work(e).out = <<>>
    BY <2>2, <2>4, FlowWork
  <2>6. x = With(Work(e), c)
    BY <2>5 DEF ssh2_channel_destroy
  <2>7. /\ c \in Channel /\ c.phase = "gone" /\ c.closes = {} /\ c.outbuffer = 0
        /\ (o.abandoned => c.abandoned)
    <3> HIDE DEF o
    <3>1. c \in Channel
      BY <2>4 DEF Channel
    <3> QED BY <2>4, <3>1 DEF Channel
  <2> HIDE DEF c, x
  <2>8. x \in WorkRec /\ x.c = c /\ x.out = <<>>
    BY <2>5, <2>6, <2>7, WithIs
  <2>9. Tail(net[e]) = <<>> /\ <<>> \in Seq(Packet) /\ <<>> \o <<>> = <<>>
    <3>1. \A k : Tail(<<k>>) = <<>>
      OBVIOUS
    <3> QED BY <2>2, <2>3, <3>1
  <2>10. /\ chan'["opener"] = c /\ chan'["acceptor"] = Absent
         /\ net'["opener"] = <<>> /\ net'["acceptor"] = <<>>
    <3>1. Peer("opener") = "acceptor"
      BY DEF Peer
    <3>2. Commit(e, x, Tail(net[e]))
      BY <2>1 DEF Handled
    <3>3. /\ chan'[e] = x.c /\ chan'[Peer(e)] = chan[Peer(e)]
          /\ net'[e] = Tail(net[e]) /\ net'[Peer(e)] = net[Peer(e)] \o x.out
      BY <1>1, <2>8, <2>9, <3>2, CommitIs
    <3> QED BY <2>2, <2>3, <2>8, <2>9, <3>1, <3>3
  <2>11. Steady(c) /\ Quiet(c)
    BY <2>7 DEF Steady, Quiet
  <2>12. \A k \in Ends : /\ Bare(net[k]) /\ chan[k].outbuffer = 0
                         /\ Bare(net'[k]) /\ chan'[k].outbuffer = 0
                         /\ chan'[k].closes = {} /\ Steady(chan'[k]) /\ Quiet(chan'[k])
                         /\ chan[k].abandoned => chan'[k].abandoned
                         /\ chan'[k].phase = "gone" => chan'["acceptor"].phase = "none"
    BY <1>5, <1>6, <2>3, <2>4, <2>7, <2>10, <2>11, AbsentIs DEF Ends
  <2> QED BY <2>1, <2>12, EndFresh
<1> QED BY <1>7, <1>8, <1>9

\* The channel is open: an EOF that waited for this goes out, and a zombie
\* closes it.
LEMMA EndRecvOpenConfirmation ==
    ASSUME FlowInv, EndInv, Forwarded, NEW e \in Ends, RecvOpenConfirmation(e)
    PROVE  EndInv' /\ (DataInv => DataInv')
<1> DEFINE q == Head(net[e])
           r == net[e]
           rest == Tail(net[e])
           p == Peer(e)
           o == chan[e]
           w == [o EXCEPT !.halfopen = FALSE, !.remwindow = q.n]
           x == With(Work(e), w)
           y == chan_open_confirmation(e, x)
           z == ssh2_channel_check_close(y)
           v == IF z.c.pending_eof THEN ssh2_channel_try_eof(z) ELSE z
<1>1. /\ net[e] # <<>> /\ q.type = "OPEN_CONFIRMATION" /\ Handled(e, v) /\ error' = error
      /\ UNCHANGED <<written, delivered>>
  BY DEF RecvOpenConfirmation, Arrives
<1>2. e = "opener" /\ Half
  BY <1>1, AnswerArrives
<1>3. /\ o \in Channel /\ o.closes = {} /\ o.outbuffer = 0 /\ Steady(o) /\ Quiet(o) /\ o.phase = "live"
      /\ o.halfopen /\ o.chanreq = <<>>
  BY <1>2, HalfIs
<1>4. /\ r \in Seq(Packet) /\ Orderly(r, chan[p].closes)
      /\ Answered(o, r, net[p], chan[p]) /\ net[p] \in Seq(Packet)
  BY EndIs
<1>5. /\ rest \in Seq(Packet) /\ q \in Packet
      /\ \A type : Total(r, type) = (IF q.type = type THEN q.n ELSE 0) + Total(rest, type)
  BY <1>1, <1>4, TotalTail
<1>6. Orderly(rest, chan[p].closes)
  BY <1>1, <1>4, OrderlyTail
<1>7. Work(e).c = o /\ Work(e) \in WorkRec /\ Work(e).out = <<>>
  BY <1>2, <1>3, FlowWork
<1>8. q.n \in Nat
  BY <1>5 DEF Packet
<1>9. /\ w \in Channel /\ w.phase = "live" /\ ~w.halfopen /\ w.closes = {} /\ w.outbuffer = 0
      /\ w.pending_eof = o.pending_eof /\ w.zombie = o.zombie /\ w.abandoned = o.abandoned
      /\ w.chanreq = <<>> /\ w.srceof = o.srceof
  <2> HIDE DEF o, q
  <2> QED BY <1>3, <1>8 DEF Channel
<1>10. Total(r, "REPLY") = 0 + Total(rest, "REPLY") /\ Total(r, "DATA") = 0 + Total(rest, "DATA")
       /\ Total(r, "REQUEST") = 0 + Total(rest, "REQUEST")
  BY <1>1, <1>5
<1>11. Total(rest, "REPLY") \in Nat /\ Total(rest, "REQUEST") \in Nat
  BY <1>5, TotalNat
<1> HIDE DEF w
<1>12. Steady(w) /\ Quiet(w)
  BY <1>3, <1>9 DEF Steady, Quiet
<1>13. x \in WorkRec /\ x.c = w /\ x.out = <<>>
  BY <1>7, <1>9, WithIs
<1> HIDE DEF x
<1>14. Ended(w, x)
  BY <1>9, <1>12, <1>13, EndedStart
<1>15. Ended(w, y) /\ Quiet(y.c) /\ y.c.phase = "live" /\ y.c.closes = {}
  <2> DEFINE c == [x.c EXCEPT !.wanted = TRUE]
  <2>1. ~IsMain(e)
    BY DEF IsMain, Forwarded
  <2>2. y = x \/ y = With(x, c)
    BY <2>1 DEF chan_open_confirmation
  <2>3. Kin(w, c) /\ c \in Channel /\ c.srceof = w.srceof
    BY <1>9, <1>13 DEF Kin, Channel
  <2> HIDE DEF c, y
  <2>4. Ended(w, With(x, c)) /\ With(x, c).c = c
    BY <1>9, <1>13, <1>14, <2>3, EndedKin, WithIs
  <2>5. Quiet(c)
    <3>1. o.pending_eof => o.srceof
      BY <1>3 DEF Quiet
    <3> QED BY <1>3, <1>9, <2>3, <3>1 DEF Kin, Quiet
  <2>6. c.phase = "live" /\ c.closes = {}
    BY <1>9, <2>3 DEF Kin
  <2> QED BY <1>9, <1>12, <1>13, <1>14, <2>2, <2>4, <2>5, <2>6
<1>16. y \in WorkRec
  BY <1>15 DEF Ended
<1> HIDE DEF y
<1>17. Ended(w, z) /\ Quiet(z.c) /\ z.c.phase = "live"
  BY <1>9, <1>15, <1>16, EndedCheckClose, QuietCheckClose
<1>18. z \in WorkRec /\ Steady(z.c)
  BY <1>17 DEF Ended, Moves
<1> HIDE DEF z
<1>19. Ended(w, v) /\ Quiet(v.c)
  <2>1. CASE z.c.pending_eof
    <3>1. "SENT_EOF" \notin z.c.closes
      BY <1>17, <1>18, <2>1 DEF Steady
    <3> QED BY <1>9, <1>17, <1>18, <2>1, <3>1, EndedTryEof, QuietTryEof
  <2>2. CASE ~z.c.pending_eof
    BY <1>17, <2>2
  <2> QED BY <2>1, <2>2
<1> HIDE DEF v
<1>20. v \in WorkRec /\ Moves(w, v.c, v.out) /\ Total(v.out, "REPLY") = 0
  BY <1>19 DEF Ended
<1>21. Seen(w, rest, chan[p])
  BY <1>9 DEF Seen
<1>22. Answered(w, rest, net[p], chan[p])
  <2>1. Total(r, "REPLY") = Total(rest, "REPLY")
    BY <1>10, <1>11
  <2> HIDE DEF r, rest, o
  <2> QED BY <1>3, <1>4, <1>9, <2>1 DEF Answered
<1>23. Total(v.out, "REPLY") + Asked(v.c.closes, rest) <= Asked(o.closes, r)
  <2> DEFINE a == Asked(v.c.closes, rest)
             b == Asked(o.closes, r)
             t == Total(v.out, "REPLY")
             k == Total(rest, "REQUEST")
  <2>1. a \in {0, k} /\ b = 0 + k /\ t = 0 /\ k \in Nat
    BY <1>3, <1>10, <1>11, <1>20 DEF Asked
  <2> HIDE DEF a, b, t, k
  <2>2. t + a <= b
    BY <2>1
  <2> QED BY <2>2 DEF a, b, t
<1>24. w.closes \cap {"SENT_EOF", "SENT_CLOSE"} = o.closes \cap {"SENT_EOF", "SENT_CLOSE"}
  BY <1>3, <1>9
<1>25. Commit(e, v, rest)
  BY <1>1 DEF Handled
<1> HIDE DEF rest, p, r
<1>26. EndInv'
  BY <1>1, <1>3, <1>5, <1>6, <1>9, <1>19, <1>20, <1>21, <1>22, <1>23, <1>24, <1>25, EndCommit DEF p, r
<1>27. Counted(e, w, 0, 0)
  BY <1>1, <1>3, <1>9, NothingCounted
<1>28. DataInv => DataInv'
  BY <1>5, <1>9, <1>10, <1>20, <1>25, <1>27, DataCommit DEF r
<1> QED BY <1>26, <1>28

\* At first nothing has been sent, written or delivered.
LEMMA EndInit == Init => EndInv /\ DataInv
<1> HAVE Init
<1>1. \A e \in Ends : chan[e] = Absent /\ net[e] = <<>> /\ ~error[e] /\ written[e] = 0 /\ delivered[e] = 0
  BY DEF Init, Absent
<1>2. Steady(Absent) /\ Quiet(Absent)
  BY AbsentIs DEF Steady, Quiet
<1>3. Seen(Absent, <<>>, Absent) /\ Orderly(<<>>, Absent.closes)
  BY AbsentIs, NothingIs DEF Seen
<1>4. Answered(Absent, <<>>, <<>>, Absent)
  <2>1. Len(<<>>) = 0 /\ 0 + 0 <= 0
    OBVIOUS
  <2> QED BY <2>1, AbsentIs, NothingIs DEF Answered
<1>5. \A e \in Ends : Peer(e) \in Ends
  BY PeerIs
<1>6. EndInv
  BY <1>1, <1>2, <1>3, <1>4, <1>5, AbsentIs DEF EndInv
<1>7. DataInv
  <2>1. 0 = 0 + 0 + 0
    OBVIOUS
  <2> QED BY <1>1, <1>5, <2>1, AbsentIs, NothingIs DEF DataInv
<1> QED BY <1>6, <1>7

\* Every step of a forwarding keeps the order, and the data as long as no
\* socket is read before its channel is open.
LEMMA EndNext ==
    ASSUME FlowInv, FlowInv', Forwarded, EndInv, [Next]_vars
    PROVE  EndInv' /\ (DataInv /\ FrozenWhileOpening => DataInv')
<1>1. CASE UNCHANGED vars
  BY <1>1, EndStill DEF vars
<1>2. CASE ssh2_lportfwd_open
  BY <1>2, EndOpening
<1>3. ASSUME NEW e \in Ends, Recv(e) PROVE EndInv' /\ (DataInv => DataInv')
  <2>1. CASE RecvOpen(e) \/ RecvOpenFailure(e)
    BY <2>1, EndOpening
  <2>2. CASE RecvOpenConfirmation(e)
    BY <2>2, EndRecvOpenConfirmation
  <2>3. CASE RecvData(e)
    BY <2>3, EndRecvData
  <2>4. CASE RecvWindowAdjust(e)
    BY <2>4, EndRecvWindowAdjust
  <2>5. CASE RecvRequest(e)
    BY <2>5, EndRecvRequest
  <2>6. CASE RecvReply(e)
    BY <2>6, EndRecvReply
  <2>7. CASE RecvEof(e)
    BY <2>7, EndRecvEof
  <2>8. CASE RecvClose(e)
    BY <2>8, EndRecvClose
  <2> QED BY <1>3, <2>1, <2>2, <2>3, <2>4, <2>5, <2>6, <2>7, <2>8 DEF Recv
<1>4. ASSUME NEW e \in Ends, ProtoError(e) PROVE FALSE
  BY <1>4, NothingUnexpected DEF ProtoError
<1>5. ASSUME NEW e \in Ends, ssh2_connection_got_user_input(e) \/ mainchan_terminal_size(e) PROVE FALSE
  BY <1>5 DEF ssh2_connection_got_user_input, mainchan_terminal_size, IsMain, Forwarded
<1>6. ASSUME NEW e \in Ends, pfd_receive(e) PROVE EndInv' /\ (DataInv /\ FrozenWhileOpening => DataInv')
  BY <1>6, EndReceive
<1>7. ASSUME NEW e \in Ends, SourceEof(e) PROVE EndInv' /\ (DataInv => DataInv')
  BY <1>7, EndSourceEof
<1>8. ASSUME NEW e \in Ends, ssh2channel_initiate_close(e) PROVE EndInv' /\ (DataInv => DataInv')
  BY <1>8, EndInitiateClose
<1>9. ASSUME NEW e \in Ends, ssh2channel_unthrottle(e) PROVE EndInv' /\ (DataInv => DataInv')
  BY <1>9, EndUnthrottleChan
<1>10. ASSUME NEW e \in Ends, ssh2_throttle_all_channels(e) PROVE EndInv' /\ (DataInv => DataInv')
  BY <1>10, EndThrottleAll
<1> QED BY <1>1, <1>2, <1>3, <1>4, <1>5, <1>6, <1>7, <1>8, <1>9, <1>10 DEF Next

\* setup.main never changes.
LEMMA ForwardedKept == ASSUME FlowInv, [Next]_vars PROVE Forwarded' = Forwarded
<1>1. setup' = setup \/ (\E e \in Ends : setup' = [setup EXCEPT !.requests = @ - 1])
      \/ (\E e \in Ends : setup' = [setup EXCEPT !.throttles = @ - 1])
  BY DEF Next, vars, Recv, ssh2_lportfwd_open, RecvOpen, RecvOpenFailure, RecvOpenConfirmation, RecvData,
         RecvWindowAdjust, RecvRequest, RecvReply, RecvEof, RecvClose, ProtoError,
         ssh2_connection_got_user_input, pfd_receive, SourceEof, ssh2channel_initiate_close,
         ssh2channel_unthrottle, mainchan_terminal_size, ssh2_throttle_all_channels
<1>2. setup \in Setup
  BY DEF FlowInv, TypeOK
<1>3. setup'.main = setup.main
  BY <1>1, <1>2 DEF Setup
<1> QED BY <1>3 DEF Forwarded

\* Order and requests add up to what is promised of the end of a channel.
LEMMA EndSound == FlowInv /\ (Forwarded => EndInv) => OrderlyEnd
<1> SUFFICES ASSUME FlowInv, Forwarded, EndInv PROVE NoProtoError /\ NothingAfterClose /\ NoDataAfterEof
  BY DEF OrderlyEnd, NoProtoError, NothingAfterClose, NoDataAfterEof
<1>1. \A e \in Ends : Orderly(net[e], chan[Peer(e)].closes) /\ ~error[e]
  BY EndIs
<1> QED BY <1>1 DEF NoProtoError, NothingAfterClose, NoDataAfterEof, Orderly

\* Whatever crosses on the wire, the order and the bookkeeping of requests that
\* EndInv states hold at both ends of every forwarding.
THEOREM EndInvariant == Spec => [](Forwarded => EndInv)
<1>1. Init => (Forwarded => EndInv)
  BY EndInit
<1>2. FlowInv /\ FlowInv' /\ (Forwarded => EndInv) /\ [Next]_vars => (Forwarded => EndInv)'
  BY EndNext, ForwardedKept
<1>3. Spec => []FlowInv
  BY FlowInvariant
<1> QED BY <1>1, <1>2, <1>3, PTL DEF Spec

\* The close handshake of a forwarding is exact, for every window, packet size
\* and kind of channel: no packet reaches an end that does not expect it,
\* nothing follows CLOSE and no data follows EOF.
THEOREM EndIsOrderly == Spec => []OrderlyEnd
BY FlowInvariant, EndInvariant, EndSound, PTL

\* After EOF everything has been delivered.
LEMMA DataSound ==
    FlowInv /\ (Forwarded => EndInv /\ DataInv) => EofAfterAllData
<1> SUFFICES ASSUME FlowInv, Forwarded, EndInv, DataInv, NEW e \in Ends,
                    "RCVD_EOF" \in chan[e].closes, ~chan[Peer(e)].abandoned
             PROVE  delivered[e] = written[Peer(e)]
  BY DEF EofAfterAllData
<1> DEFINE p == Peer(e)
<1>1. p \in Ends /\ Peer(p) = e
  BY PeerIs
<1>2. net[e] \in Seq(Packet) /\ Seen(chan[e], net[e], chan[p])
  BY EndIs
<1>3. "SENT_EOF" \in chan[p].closes /\ NoData(net[e])
  BY <1>2 DEF Seen
<1>4. Steady(chan[p])
  BY <1>1, EndIs
<1>5. chan[p].outbuffer = 0
  BY <1>3, <1>4 DEF Steady
<1>6. Total(net[e], "DATA") = 0
  BY <1>2, <1>3, TotalNone DEF NoData
<1>7. written[p] = delivered[e] + Total(net[e], "DATA") + chan[p].outbuffer
  BY <1>1 DEF DataInv
<1>8. delivered[e] \in Nat
  BY DEF FlowInv, TypeOK
<1> QED BY <1>5, <1>6, <1>7, <1>8

\* Whoever has seen EOF has been given all the data of a peer that abandoned
\* none, in every behaviour in which no socket is unfrozen before its channel
\* is open; the run chan_unfreeze shows what happens when one is.
THEOREM EofFollowsData == Spec /\ []FrozenWhileOpening => []EofAfterAllData
<1>1. Init => (Forwarded => DataInv)
  BY EndInit
<1>2. FlowInv /\ FlowInv' /\ (Forwarded => EndInv) /\ FrozenWhileOpening /\ (Forwarded => DataInv) /\ [Next]_vars
      => (Forwarded => DataInv)'
  BY EndNext, ForwardedKept
<1>3. FlowInv /\ (Forwarded => EndInv) /\ (Forwarded => DataInv) => EofAfterAllData
  BY DataSound
<1> QED BY <1>1, <1>2, <1>3, FlowInvariant, EndInvariant, PTL DEF Spec

-----------------------------------------------------------------------------
(* If all input is not released while a channel is being opened, no socket  *)
(* is unfrozen too early.                                                   *)

\* All channels are released only while no forwarding waits to be confirmed.
NoEarlyRelease ==
    \A e \in Ends : throttled[e] /\ ~throttled'[e] => ~(Live(e) /\ chan[e].halfopen)

\* A handler leaves the peer alone.
LEMMA CommitParts ==
    ASSUME FlowInv, NEW e \in Ends, NEW x, NEW rest, Commit(e, x, rest)
    PROVE  net'[e] = rest /\ chan'[e] = x.c /\ chan'[Peer(e)] = chan[Peer(e)]
<1>1. chan \in [Ends -> Channel] /\ net \in [Ends -> Seq(Packet)]
  BY DEF FlowInv, TypeOK
<1>2. Peer(e) \in Ends /\ Peer(e) # e
  BY PeerIs
<1> QED BY <1>1, <1>2 DEF Commit

\* An open channel is never half-open again.
LEMMA OpenStays ==
    ASSUME FlowInv', chan'["acceptor"].phase # "none", net'["opener"] \in Seq(Body)
    PROVE  ~Half'
<1> SUFFICES ASSUME Half' PROVE FALSE
  OBVIOUS
<1>1. Confirmed'
  BY DEF FlowInv, Opening, Asking, Refused
<1>2. net'["opener"] # <<>> /\ Head(net'["opener"]).type = "OPEN_CONFIRMATION"
  BY <1>1 DEF Confirmed
<1>3. Head(net'["opener"]) \in Body
  BY <1>2
<1> QED BY <1>2, <1>3 DEF Body

\* The opener's socket stays frozen until the channel is open.
LEMMA FrozenNext ==
    ASSUME FlowInv, FlowInv', EndInv, Forwarded, FrozenWhileOpening, [Next]_vars, [NoEarlyRelease]_vars
    PROVE  FrozenWhileOpening'
<1> DEFINE o == chan["opener"]
<1>1. "opener" \in Ends /\ "acceptor" \in Ends /\ Peer("opener") = "acceptor" /\ Peer("acceptor") = "opener"
  BY DEF Ends, Peer
<1>2. Opening /\ TypeOK /\ ~chan'["acceptor"].halfopen
  BY DEF FlowInv, Opening
<1> SUFFICES ASSUME Half' PROVE ~chan'["opener"].wanted
  BY <1>2 DEF FrozenWhileOpening, Ends, Half
<1>3. CASE chan'["opener"] = o
  <2>1. Half
    BY <1>3 DEF Half
  <2> QED BY <1>1, <1>3, <2>1 DEF FrozenWhileOpening, Half
<1>4. CASE ssh2_lportfwd_open
  <2> DEFINE i == ssh2_channel_init(WinSize, FALSE)
             c == [i EXCEPT !.halfopen = TRUE, !.wanted = FALSE]
             x == [c |-> c, out |-> <<Pkt("OPEN", WinSize)>>]
  <2>1. Commit("opener", x, net["opener"])
    BY <1>4 DEF ssh2_lportfwd_open, Call
  <2>2. x.c = c
    OBVIOUS
  <2>3. ~c.wanted
    BY DEF ssh2_channel_init
  <2> HIDE DEF x, c
  <2> QED BY <1>1, <2>1, <2>2, <2>3, CommitParts
<1>5. ASSUME NEW e \in Ends, NEW x, NEW rest, Commit(e, x, rest), e # "opener" PROVE chan'["opener"] = o
  BY <1>1, <1>5, CommitParts DEF Ends
<1>6. ASSUME NEW x, Commit("opener", x, net["opener"]), o.phase = "live", ~o.halfopen PROVE FALSE
  <2>1. chan["acceptor"].phase # "none" /\ ~Half
    BY <1>2, <1>6 DEF Opening, Half
  <2>2. net["opener"] \in Seq(Body)
    BY <1>1, <1>2, <2>1 DEF Opening
  <2>3. net'["opener"] = net["opener"] /\ chan'["acceptor"] = chan["acceptor"]
    BY <1>1, <1>6, CommitParts
  <2> QED BY <2>1, <2>2, <2>3, OpenStays
<1>7. ASSUME NEW e \in Ends, Recv(e) PROVE ~chan'["opener"].wanted
  <2>1. PICK x : Commit(e, x, Tail(net[e]))
    BY <1>7 DEF Recv, RecvOpen, RecvOpenFailure, RecvOpenConfirmation, RecvData,
         RecvWindowAdjust, RecvRequest, RecvReply, RecvEof, RecvClose, Handled
  <2>2. CASE e # "opener"
    BY <1>3, <1>5, <2>1, <2>2
  <2>3. CASE e = "opener"
    <3>1. net'["opener"] = Tail(net[e]) /\ chan'["acceptor"] = chan["acceptor"]
      BY <1>1, <2>1, <2>3, CommitParts
    <3>2. CASE RecvOpen(e)
      BY <2>3, <3>2, OpenArrives DEF RecvOpen
    <3>3. CASE RecvOpenFailure(e)
      <4> DEFINE z == ssh2_channel_destroy(Work(e))
      <4>1. Commit(e, z, Tail(net[e]))
        BY <3>3 DEF RecvOpenFailure, Handled
      <4>2. o \in Channel /\ Work(e) \in WorkRec /\ Work(e).c = o
        <5>1. o.phase = "live"
          BY <2>3, <3>3 DEF RecvOpenFailure
        <5> QED BY <1>1, <2>3, <5>1, FlowWork
      <4>3. z.c.phase = "gone"
        BY <4>2 DEF ssh2_channel_destroy, With, WorkRec, Channel
      <4> HIDE DEF z
      <4>4. chan'["opener"].phase = "gone"
        BY <2>3, <4>1, <4>3, CommitParts
      <4> QED BY <4>4 DEF Half
    <3>4. CASE RecvOpenConfirmation(e)
      <4>1. Confirmed
        BY <3>4, AnswerArrives DEF RecvOpenConfirmation, Arrives
      <4> QED BY <2>3, <3>1, <4>1, OpenStays DEF Confirmed
    <3>5. CASE ~RecvOpen(e) /\ ~RecvOpenFailure(e) /\ ~RecvOpenConfirmation(e)
      <4>1. net[e] # <<>> /\ Expected(e)
        BY <1>7, <3>5 DEF Recv, RecvData, RecvWindowAdjust, RecvRequest, RecvReply, RecvEof, RecvClose, Arrives
      <4>2. Tail(net[e]) \in Seq(Body) /\ chan["acceptor"].phase # "none"
        BY <4>1, Arriving
      <4> QED BY <3>1, <4>2, OpenStays
    <3> QED BY <3>2, <3>3, <3>4, <3>5
  <2> QED BY <2>2, <2>3
<1>8. ASSUME NEW e \in Ends, ProtoError(e) PROVE ~chan'["opener"].wanted
  BY <1>3, <1>8 DEF ProtoError
<1>9. ASSUME NEW e \in Ends, ssh2_connection_got_user_input(e) \/ mainchan_terminal_size(e) PROVE FALSE
  BY <1>9 DEF ssh2_connection_got_user_input, mainchan_terminal_size, IsMain, Forwarded
<1>10. ASSUME NEW e \in Ends, pfd_receive(e) \/ SourceEof(e) PROVE ~chan'["opener"].wanted
  <2>1. PICK x : Commit(e, x, net[e])
    BY <1>10 DEF pfd_receive, SourceEof, Call
  <2>2. chan[e].wanted /\ chan[e].phase = "live"
    BY <1>10 DEF pfd_receive, SourceEof, Live, IsMain, Forwarded
  <2>3. ~chan[e].halfopen
    BY <2>2 DEF FrozenWhileOpening
  <2> QED BY <1>3, <1>5, <1>6, <2>1, <2>2, <2>3
<1>11. ASSUME NEW e \in Ends, ssh2channel_initiate_close(e) PROVE ~chan'["opener"].wanted
  <2> DEFINE c == [chan[e] EXCEPT !.zombie = TRUE, !.fixed = FALSE, !.pending_eof = FALSE, !.inbuf = 0,
                                  !.abandoned = TRUE]
             y == With(Work(e), c)
             x == ssh2_channel_check_close(y)
  <2>1. Commit(e, x, net[e]) /\ chan[e].phase = "live"
    BY <1>11 DEF ssh2channel_initiate_close, Call, Live
  <2>2. CASE e # "opener" \/ ~o.halfopen
    <3> HIDE DEF x
    <3> QED BY <1>3, <1>5, <1>6, <2>1, <2>2
  <2>3. CASE e = "opener" /\ o.halfopen
    <3>1. chan[e] \in Channel /\ Work(e) \in WorkRec
      BY <2>1, FlowWork
    <3>2. c \in Channel /\ c.halfopen /\ c.wanted = o.wanted
      BY <2>3, <3>1 DEF Channel
    <3> HIDE DEF c
    <3>3. y.c = c
      BY <3>1, <3>2, WithIs
    <3> HIDE DEF y
    <3>4. x = y
      BY <3>2, <3>3 DEF ssh2_channel_check_close
    <3> HIDE DEF x
    <3>5. chan'["opener"] = c
      BY <2>1, <2>3, <3>3, <3>4, CommitParts
    <3> QED BY <1>1, <2>1, <2>3, <3>2, <3>5 DEF FrozenWhileOpening
  <2> QED BY <2>2, <2>3
<1>12. ASSUME NEW e \in Ends, ssh2channel_unthrottle(e) PROVE ~chan'["opener"].wanted
  <2>1. PICK x : Commit(e, x, net[e])
    BY <1>12 DEF ssh2channel_unthrottle, Call
  <2>2. chan[e].phase = "live" /\ chan[e].inbuf # 0
    BY <1>12 DEF ssh2channel_unthrottle, Live
  <2>3. ~chan[e].halfopen
    BY <1>2, <2>2 DEF Opening, Half, Ends
  <2> QED BY <1>3, <1>5, <1>6, <2>1, <2>2, <2>3
<1>13. ASSUME NEW e \in Ends, ssh2_throttle_all_channels(e) PROVE ~chan'["opener"].wanted
  <2> DEFINE x == ssh2_channel_check_throttle(~throttled[e], Work(e))
  <2>1. chan \in [Ends -> Channel] /\ throttled \in [Ends -> BOOLEAN]
    BY <1>2 DEF TypeOK
  <2>4. throttled'[e] = ~throttled[e] /\ throttled' # throttled
    BY <1>13, <2>1 DEF ssh2_throttle_all_channels
  <2>5. throttled[e] => ~(Live(e) /\ chan[e].halfopen)
    BY <2>4 DEF NoEarlyRelease, vars
  <2>2. CASE ~Live(e) \/ e # "opener"
    <3>1. chan'["opener"] = o
      BY <1>1, <1>13, <2>1, <2>2 DEF ssh2_throttle_all_channels
    <3> QED BY <1>3, <3>1
  <2>3. CASE Live(e) /\ e = "opener"
    <3>1. chan' = [chan EXCEPT ![e] = x.c]
      BY <1>13, <2>3 DEF ssh2_throttle_all_channels
    <3>2. chan'["opener"] = x.c
      BY <1>1, <2>1, <2>3, <3>1
    <3>3. o \in Channel /\ Work(e) \in WorkRec /\ Work(e).c = o
      BY <2>3, FlowWork DEF Live
    <3>4. CASE o.zombie
      <4>1. x = Work(e)
        BY <3>3, <3>4 DEF ssh2_channel_check_throttle
      <4> QED BY <1>3, <3>2, <3>3, <4>1
    <3>5. CASE ~o.zombie
      <4>0. PICK b \in BOOLEAN : x = With(Work(e), [o EXCEPT !.wanted = b]) /\ (b => throttled[e])
        BY <2>1, <2>4, <3>3, <3>5 DEF ssh2_channel_check_throttle
      <4> DEFINE c == [o EXCEPT !.wanted = b]
      <4>1. x = With(Work(e), c)
        BY <4>0
      <4>2. c \in Channel /\ c.wanted = b /\ c.halfopen = o.halfopen
        BY <3>3 DEF Channel
      <4> HIDE DEF c, x
      <4>3. x.c = c
        BY <3>3, <4>1, <4>2, WithIs
      <4>4. o.halfopen
        BY <3>2, <4>2, <4>3 DEF Half
      <4> QED BY <2>3, <2>5, <3>2, <4>0, <4>2, <4>3, <4>4
    <3> QED BY <3>4, <3>5
  <2> QED BY <2>2, <2>3
<1>14. CASE UNCHANGED vars
  BY <1>3, <1>14 DEF vars
<1> QED BY <1>4, <1>7, <1>8, <1>9, <1>10, <1>11, <1>12, <1>13, <1>14 DEF Next

\* At first no channel is being opened.
LEMMA FrozenInit == Init => FrozenWhileOpening
<1> SUFFICES ASSUME Init PROVE FrozenWhileOpening
  OBVIOUS
<1>1. \A e \in Ends : chan[e] = Absent
  BY DEF Init, Absent
<1> QED BY <1>1, AbsentIs DEF FrozenWhileOpening

\* However often all channels are throttled and released again, as ssh.c does
\* each time the backlog of the connection grows and drains: if no release falls
\* between OPEN and its confirmation, EOF comes after all the data.  Whoever has
\* seen EOF has been given every unit that the peer's user wrote, unless the peer
\* abandoned its output (ssh2_throttle_all_channels, ssh2channel_write_eof).
THEOREM EofAfterAllDataHolds == Spec /\ [][NoEarlyRelease]_vars => []EofAfterAllData
<1> DEFINE F == Forwarded => FrozenWhileOpening
<1>1. Init => F
  BY FrozenInit
<1>2. FlowInv /\ FlowInv' /\ (Forwarded => EndInv) /\ F /\ [Next]_vars /\ [NoEarlyRelease]_vars => F'
  BY FrozenNext, ForwardedKept
<1>3. Init => (Forwarded => DataInv)
  BY EndInit
<1>4. FlowInv /\ FlowInv' /\ (Forwarded => EndInv) /\ F /\ (Forwarded => DataInv) /\ [Next]_vars
      => (Forwarded => DataInv)'
  BY EndNext, ForwardedKept
<1>5. FlowInv /\ (Forwarded => EndInv) /\ (Forwarded => DataInv) => EofAfterAllData
  BY DataSound
<1> HIDE DEF F
<1> QED BY <1>1, <1>2, <1>3, <1>4, <1>5, FlowInvariant, EndInvariant, PTL DEF Spec
=============================================================================
