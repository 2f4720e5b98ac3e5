-------------------------- MODULE Transport_proofs --------------------------
(***************************************************************************)
(* Proofs about Transport, for all key exchange methods and any number of  *)
(* packets and rekeys: both ends change keys at the same packet, and the   *)
(* higher layers see an ordered stream of packets (PacketStream).  The     *)
(* last section is about what starts a key exchange again (RekeyTimer).    *)
(*                                                                         *)
(* What an end sends follows a pattern: key exchanges with their messages, *)
(* SERVICE after the first, higher-layer packets between them. A Stage is  *)
(* a place in the pattern. The invariant says that what is under way from  *)
(* one end leads from the stage at which the other end stopped reading to  *)
(* the stage at which this one stopped sending.                            *)
(***************************************************************************)
EXTENDS TransportLayer, NatFacts, SequenceTheorems

\* todo is the set of messages of the exchange that the sender has to send yet.
Stage == [at : {"first", "kex", "service", "open", "rekey"}, todo : SUBSET Nat]

St(at, todo) == [at |-> at, todo |-> todo]

\* A packet of type t leads from a to b; a key exchange has the messages all.
Leads(all, a, t, b) ==
    \/ t = "KEXINIT" /\ a.at = "first" /\ b = St("kex", all)
    \/ t = "KEXINIT" /\ a.at = "open" /\ b = St("rekey", all)
    \/ /\ t = "KEX" /\ a.at \in {"kex", "rekey"}
       /\ \E i \in a.todo : (\A j \in a.todo : i <= j) /\ b = St(a.at, a.todo \ {i})
    \/ t = "NEWKEYS" /\ a = St("kex", {}) /\ b = St("service", {})
    \/ t = "NEWKEYS" /\ a = St("rekey", {}) /\ b = St("open", {})
    \/ t = "SERVICE" /\ a.at = "service" /\ b = St("open", {})
    \/ t = "higher" /\ a.at = "open" /\ b = a

\* The packets q lead from a to b through the stages f.
Through(all, f, q) ==
    /\ f \in [0 .. Len(q) -> Stage]
    /\ \A i \in 1 .. Len(q) : Leads(all, f[i - 1], q[i].type, f[i])

Run(all, a, q, b) == \E f : Through(all, f, q) /\ f[0] = a /\ f[Len(q)] = b

\* A run of no packets stays where it is.
LEMMA RunNil ==
    ASSUME NEW all, NEW a \in Stage
    PROVE  Run(all, a, <<>>, a)
<1> DEFINE f == [i \in 0 .. 0 |-> a]
<1>1. Through(all, f, <<>>) /\ f[0] = a /\ f[Len(<<>>)] = a
  BY DEF Through
<1> HIDE DEF f
<1> QED BY <1>1 DEF Run

\* The same, the other way round.
LEMMA RunNilIs ==
    ASSUME NEW all, NEW a, NEW b, Run(all, a, <<>>, b)
    PROVE  a = b /\ a \in Stage
BY DEF Run, Through

\* A run of one packet is a step.
LEMMA RunOne ==
    ASSUME NEW all, NEW a \in Stage, NEW b \in Stage, NEW p, Leads(all, a, p.type, b)
    PROVE  Run(all, a, <<p>>, b)
<1> DEFINE f == [i \in 0 .. 1 |-> IF i = 0 THEN a ELSE b]
<1>1. f \in [0 .. 1 -> Stage] /\ f[0] = a /\ f[1] = b
  OBVIOUS
<1> HIDE DEF f
<1>2. Len(<<p>>) = 1 /\ <<p>>[1] = p
  OBVIOUS
<1>3. \A i \in 1 .. 1 : i = 1
  OBVIOUS
<1>4. Through(all, f, <<p>>)
  BY <1>1, <1>2, <1>3 DEF Through
<1> QED BY <1>1, <1>2, <1>4 DEF Run

\* The same, the other way round.
LEMMA RunOneIs ==
    ASSUME NEW all, NEW a, NEW b, NEW p, Run(all, a, <<p>>, b)
    PROVE  Leads(all, a, p.type, b) /\ a \in Stage /\ b \in Stage
<1>1. PICK f : Through(all, f, <<p>>) /\ f[0] = a /\ f[Len(<<p>>)] = b
  BY DEF Run
<1>2. Len(<<p>>) = 1 /\ <<p>>[1] = p
  OBVIOUS
<1>3. f \in [0 .. 1 -> Stage] /\ Leads(all, f[1 - 1], <<p>>[1].type, f[1])
  BY <1>1, <1>2 DEF Through
<1> QED BY <1>1, <1>2, <1>3

\* Runs can be put together.
LEMMA RunConcat ==
    ASSUME NEW all, NEW S, NEW q \in Seq(S), NEW r \in Seq(S), NEW a, NEW b, NEW c,
           Run(all, a, q, b), Run(all, b, r, c)
    PROVE  Run(all, a, q \o r, c)
<1>1. PICK f : Through(all, f, q) /\ f[0] = a /\ f[Len(q)] = b
  BY DEF Run
<1>2. PICK g : Through(all, g, r) /\ g[0] = b /\ g[Len(r)] = c
  BY DEF Run
<1> DEFINE m == Len(q)
           n == Len(r)
           h == [i \in 0 .. m + n |-> IF i <= m THEN f[i] ELSE g[i - m]]
<1>3. m \in Nat /\ n \in Nat
  BY LenProperties
<1>4. Len(q \o r) = m + n /\ \A i \in 1 .. m + n : (q \o r)[i] = IF i <= m THEN q[i] ELSE r[i - m]
  BY ConcatProperties
<1>5. f \in [0 .. m -> Stage] /\ \A i \in 1 .. m : Leads(all, f[i - 1], q[i].type, f[i])
  BY <1>1 DEF Through
<1>6. g \in [0 .. n -> Stage] /\ \A i \in 1 .. n : Leads(all, g[i - 1], r[i].type, g[i])
  BY <1>2 DEF Through
<1> HIDE DEF m, n
<1>7. h \in [0 .. m + n -> Stage]
  BY <1>3, <1>5, <1>6
<1>8. h[0] = a /\ h[m + n] = c
  BY <1>1, <1>2, <1>3 DEF m, n
<1>9. ASSUME NEW i \in 1 .. m + n PROVE Leads(all, h[i - 1], (q \o r)[i].type, h[i])
  <2>1. CASE i <= m
    <3>1. h[i] = f[i] /\ h[i - 1] = f[i - 1] /\ (q \o r)[i] = q[i] /\ i \in 1 .. m
      BY <1>3, <1>4, <2>1
    <3> HIDE DEF h
    <3> QED BY <1>5, <3>1
  <2>2. CASE ~(i <= m)
    <3> DEFINE k == i - m
    <3>1. k \in 1 .. n /\ h[i] = g[k] /\ (q \o r)[i] = r[k]
      BY <1>3, <1>4, <2>2
    <3>2. h[i - 1] = g[k - 1]
      <4>1. CASE k = 1
        BY <1>1, <1>2, <1>3, <2>2, <4>1 DEF m
      <4>2. CASE k # 1
        BY <1>3, <2>2, <4>2
      <4> QED BY <4>1, <4>2
    <3> HIDE DEF h, k
    <3> QED BY <1>6, <3>1, <3>2
  <2> QED BY <2>1, <2>2
<1> HIDE DEF h
<1>10. Through(all, h, q \o r)
  BY <1>4, <1>7, <1>9 DEF Through
<1> QED BY <1>4, <1>8, <1>10 DEF Run

\* Runs can be taken apart.
LEMMA RunSplit ==
    ASSUME NEW all, NEW S, NEW q \in Seq(S), NEW r \in Seq(S), NEW a, NEW c, Run(all, a, q \o r, c)
    PROVE  \E b \in Stage : Run(all, a, q, b) /\ Run(all, b, r, c)
<1>1. PICK h : Through(all, h, q \o r) /\ h[0] = a /\ h[Len(q \o r)] = c
  BY DEF Run
<1> DEFINE m == Len(q)
           n == Len(r)
           f == [i \in 0 .. m |-> h[i]]
           g == [i \in 0 .. n |-> h[i + m]]
<1>2. m \in Nat /\ n \in Nat
  BY LenProperties
<1>3. Len(q \o r) = m + n /\ \A i \in 1 .. m + n : (q \o r)[i] = IF i <= m THEN q[i] ELSE r[i - m]
  BY ConcatProperties
<1>4. h \in [0 .. m + n -> Stage] /\ \A i \in 1 .. m + n : Leads(all, h[i - 1], (q \o r)[i].type, h[i])
  BY <1>1, <1>3 DEF Through
<1> HIDE DEF m, n
<1>5. ASSUME NEW i \in 1 .. m PROVE Leads(all, f[i - 1], q[i].type, f[i])
  <2>1. i \in 1 .. m + n /\ (q \o r)[i] = q[i] /\ f[i] = h[i] /\ f[i - 1] = h[i - 1]
    BY <1>2, <1>3
  <2> HIDE DEF f
  <2> QED BY <1>4, <2>1
<1>6. ASSUME NEW i \in 1 .. n PROVE Leads(all, g[i - 1], r[i].type, g[i])
  <2>1. i + m \in 1 .. m + n /\ (q \o r)[i + m] = r[i]
    BY <1>2, <1>3
  <2>2. g[i] = h[i + m] /\ g[i - 1] = h[(i + m) - 1]
    BY <1>2
  <2> HIDE DEF g
  <2>3. Leads(all, h[(i + m) - 1], (q \o r)[i + m].type, h[i + m])
    BY <1>4, <2>1
  <2> QED BY <2>1, <2>2, <2>3
<1>7. f \in [0 .. m -> Stage] /\ f[0] = a
  BY <1>1, <1>2, <1>4
<1>8. g \in [0 .. n -> Stage] /\ g[0] = f[m] /\ g[n] = c
  BY <1>1, <1>2, <1>3, <1>4
<1>9. f[m] \in Stage
  BY <1>2, <1>7
<1> HIDE DEF f, g
<1>10. Through(all, f, q) /\ Through(all, g, r)
  BY <1>5, <1>6, <1>7, <1>8 DEF Through, m, n
<1>11. Run(all, a, q, f[m])
  BY <1>7, <1>10 DEF Run, m
<1>12. Run(all, f[m], r, c)
  BY <1>8, <1>10 DEF Run, n
<1> QED BY <1>9, <1>11, <1>12
Higher(q) == \A i \in DOMAIN q : q[i].type = "higher"

\* Packets of the higher layer pass only where it is open, and leave it so.
LEMMA RunHigherIs ==
    ASSUME NEW all, NEW S, NEW q \in Seq(S), Higher(q), NEW a, NEW b, Run(all, a, q, b)
    PROVE  b = a /\ (q # <<>> => a.at = "open")
<1>1. PICK f : Through(all, f, q) /\ f[0] = a /\ f[Len(q)] = b
  BY DEF Run
<1> DEFINE n == Len(q)
<1>2. n \in Nat /\ DOMAIN q = 1 .. n
  BY LenProperties
<1>3. \A i \in 1 .. n : f[i - 1].at = "open" /\ f[i] = f[i - 1]
  BY <1>1, <1>2 DEF Through, Higher, Leads
<1> HIDE DEF n
<1> DEFINE T == {i \in Nat : i <= n => f[i] = a}
<1>4. 0 \in T
  BY <1>1
<1>5. ASSUME NEW i \in T PROVE i + 1 \in T
  <2>1. CASE i + 1 <= n
    <3>1. i + 1 \in 1 .. n /\ (i + 1) - 1 = i /\ i <= n
      BY <1>2, <2>1
    <3>2. f[i + 1] = f[i]
      BY <1>3, <3>1
    <3> QED BY <3>1, <3>2
  <2>2. CASE ~(i + 1 <= n)
    BY <2>2
  <2> QED BY <2>1, <2>2
<1>6. T = Nat
  <2> HIDE DEF T
  <2>1. T \in SUBSET Nat
    BY DEF T
  <2> QED BY <1>4, <1>5, <2>1, NatSetInduction
<1>7. b = a
  BY <1>1, <1>2, <1>6 DEF n
<1>8. ASSUME q # <<>> PROVE a.at = "open"
  <2>1. 1 \in 1 .. n /\ 1 - 1 = 0
    BY <1>2, <1>8, EmptySeq DEF n
  <2> QED BY <1>1, <1>3, <2>1
<1> QED BY <1>7, <1>8

\* The same, the other way round.
LEMMA RunHigher ==
    ASSUME NEW all, NEW S, NEW q \in Seq(S), Higher(q), NEW a \in Stage, a.at = "open"
    PROVE  Run(all, a, q, a)
<1> DEFINE n == Len(q)
           f == [i \in 0 .. n |-> a]
<1>1. n \in Nat /\ DOMAIN q = 1 .. n
  BY LenProperties
<1>2. f \in [0 .. n -> Stage] /\ f[0] = a /\ f[n] = a
  BY <1>1
<1>3. \A i \in 1 .. n : f[i - 1] = a /\ f[i] = a /\ q[i].type = "higher"
  BY <1>1 DEF Higher
<1> HIDE DEF f
<1>4. Through(all, f, q)
  BY <1>2, <1>3 DEF Through, Leads
<1> QED BY <1>2, <1>4 DEF Run

-----------------------------------------------------------------------------
(* What filter_queue leaves in a queue. *)

\* The packets that may be passed on are those of the higher layer at the front.
LEMMA FilterIs ==
    ASSUME NEW q \in Seq(Packet)
    PROVE  /\ FilterLength(q) \in 0 .. Len(q)
           /\ \A i \in 1 .. FilterLength(q) : q[i].type = "higher"
           /\ FilterLength(q) < Len(q) => q[FilterLength(q) + 1].type # "higher"
<1> DEFINE T == {i \in DOMAIN q : q[i].type # "higher"}
<1>1. Len(q) \in Nat /\ DOMAIN q = 1 .. Len(q)
  BY LenProperties
<1>2. CASE T = {}
  <2>1. FilterLength(q) = Len(q)
    BY <1>2 DEF FilterLength
  <2> QED BY <1>1, <1>2, <2>1
<1>3. CASE T # {}
  <2> DEFINE k == CHOOSE i \in T : \A j \in T : i <= j
  <2>1. FilterLength(q) = k - 1
    BY <1>3 DEF FilterLength
  <2>2. T \in SUBSET Nat
    BY <1>1
  <2>3. \E i \in T : \A j \in T : i <= j
    <3> HIDE DEF T
    <3> QED BY <1>3, <2>2, LeastNat
  <2>4. k \in T /\ \A j \in T : k <= j
    <3> HIDE DEF T
    <3> QED BY <2>3
  <2> HIDE DEF k
  <2>5. k \in 1 .. Len(q) /\ q[k].type # "higher"
    BY <1>1, <2>4
  <2>6. ASSUME NEW i \in 1 .. k - 1 PROVE q[i].type = "higher"
    BY <1>1, <2>4, <2>5
  <2> QED BY <1>1, <2>1, <2>5, <2>6
<1> QED BY <1>2, <1>3

\* The queue is what is passed on and what is left.
LEMMA RestIs ==
    ASSUME NEW e \in Ends, in_pq[e] \in Seq(Packet)
    PROVE  \E h \in Seq(Packet) :
               /\ Higher(h) /\ Len(h) = FilterLength(in_pq[e])
               /\ Rest(e) \in Seq(Packet) /\ in_pq[e] = h \o Rest(e)
               /\ Filtered(e) = [i \in 1 .. Len(h) |-> h[i].n]
               /\ Rest(e) # <<>> => Head(Rest(e)) \in Packet /\ Head(Rest(e)).type # "higher"
<1> DEFINE q == in_pq[e]
           k == FilterLength(q)
           h == SubSeq(q, 1, k)
           r == SubSeq(q, k + 1, Len(q))
<1>1. Len(q) \in Nat /\ DOMAIN q = 1 .. Len(q) /\ q \in Seq(Packet)
  BY LenProperties
<1>2. /\ k \in 0 .. Len(q) /\ \A i \in 1 .. k : q[i].type = "higher"
      /\ k < Len(q) => q[k + 1].type # "higher"
  BY FilterIs
<1>3. \A i \in 1 .. Len(q) : q[i] \in Packet
  BY <1>1, ElementOfSeq
<1> HIDE DEF q, k
<1>4. /\ h \in Seq(Packet) /\ Len(h) = k /\ \A i \in 1 .. k : h[i] = q[i]
  <2>1. \A i \in 1 .. k : q[i] \in Packet
    BY <1>1, <1>2, <1>3
  <2>2. /\ h \in Seq(Packet) /\ Len(h) = (IF 1 <= k THEN k - 1 + 1 ELSE 0)
        /\ \A i \in 1 .. k - 1 + 1 : h[i] = q[1 + i - 1]
    BY <1>1, <1>2, <2>1, SubSeqProperties, Z3
  <2> QED BY <1>1, <1>2, <2>2
<1>5. /\ r \in Seq(Packet) /\ (k = Len(q) => r = <<>>) /\ (k < Len(q) => r # <<>> /\ Head(r) = q[k + 1])
  <2>1. \A i \in k + 1 .. Len(q) : q[i] \in Packet
    BY <1>1, <1>2, <1>3
  <2>2. /\ r \in Seq(Packet) /\ Len(r) = (IF k + 1 <= Len(q) THEN Len(q) - (k + 1) + 1 ELSE 0)
        /\ \A i \in 1 .. Len(q) - (k + 1) + 1 : r[i] = q[k + 1 + i - 1]
    BY <1>1, <1>2, <2>1, SubSeqProperties, Z3
  <2> HIDE DEF r
  <2>7. k \in Nat /\ k <= Len(q) /\ Len(q) \in Nat
    BY <1>1, <1>2
  <2>8. Len(r) = IF k + 1 <= Len(q) THEN Len(q) - (k + 1) + 1 ELSE 0
    BY <2>2
  <2>3. Len(r) = Len(q) - k
    BY <2>7, <2>8
  <2>4. ASSUME k < Len(q) PROVE r # <<>> /\ Head(r) = q[k + 1]
    <3>1. Len(r) > 0
      BY <2>3, <2>4, <2>7
    <3>2. 1 \in 1 .. Len(q) - (k + 1) + 1 /\ k + 1 + 1 - 1 = k + 1
      BY <2>4, <2>7
    <3>3. r[1] = q[k + 1]
      BY <2>2, <3>2
    <3> QED BY <2>2, <3>1, <3>3
  <2>5. ASSUME k = Len(q) PROVE r = <<>>
    <3>1. Len(r) = 0
      BY <1>1, <2>3, <2>5
    <3> QED BY <2>2, <3>1
  <2> QED BY <2>2, <2>4, <2>5
<1>6. q = h \o r
  <2>1. 1 \in 1 .. Len(q) + 1 /\ k \in 1 - 1 .. Len(q) /\ Len(q) \in k .. Len(q)
    BY <1>1, <1>2
  <2>2. h \o r = SubSeq(q, 1, Len(q))
    BY <1>1, <2>1, ConcatAdjacentSubSeq
  <2>3. SubSeq(q, 1, Len(q)) = q
    BY <1>1, SubSeqFull
  <2> QED BY <2>2, <2>3
<1>7. Rest(e) = r /\ Filtered(e) = [i \in 1 .. k |-> q[i].n]
  BY DEF Rest, Filtered, q, k
<1>8. Filtered(e) = [i \in 1 .. Len(h) |-> h[i].n]
  BY <1>4, <1>7
<1>9. Higher(h)
  BY <1>2, <1>4, LenProperties DEF Higher
<1>10. r # <<>> => Head(r) \in Packet /\ Head(r).type # "higher"
  <2> HIDE DEF r
  <2>1. k = Len(q) \/ (k < Len(q) /\ k + 1 \in 1 .. Len(q))
    <3>1. Len(q) \in Nat /\ k \in 0 .. Len(q)
      BY <1>1, <1>2, Zenon
    <3> QED BY <3>1
  <2>2. CASE k = Len(q)
    <3>1. r = <<>>
      BY <1>5, <2>2
    <3> QED BY <3>1
  <2>3. CASE k < Len(q) /\ k + 1 \in 1 .. Len(q)
    <3>1. Head(r) = q[k + 1]
      BY <1>5, <2>3
    <3>2. q[k + 1] \in Packet /\ q[k + 1].type # "higher"
      BY <1>2, <1>3, <2>3
    <3> QED BY <3>1, <3>2
  <2> QED BY <2>1, <2>2, <2>3
<1> HIDE DEF h, r
<1> QED BY <1>4, <1>5, <1>6, <1>7, <1>8, <1>9, <1>10 DEF q, k
-----------------------------------------------------------------------------
(* The invariant. *)

\* The messages of e from step k of method m on.
Todo(m, e, k) == {i \in k .. Len(Exchange(m)) : Exchange(m)[i] = e}

\* What the place at which an end waits, and whether its higher layer is up,
\* say of the stage of its reading...
ReadStage(m, p, place, up, step) ==
    CASE place \in {"begin_key_exchange", "kexinit"} -> St(IF up THEN "open" ELSE "first", {})
      [] place = "kex" -> St(IF up THEN "rekey" ELSE "kex", Todo(m, Peer(p), step))
      [] place = "newkeys" -> St(IF up THEN "rekey" ELSE "kex", {})
      [] place \in {"service", "service_wait"} -> St("service", {})
      [] place = "idle" -> St("open", {})

\* ... and of its sending.
SendStage(m, e, place, up, step) ==
    CASE place = "begin_key_exchange" -> St(IF up THEN "open" ELSE "first", {})
      [] place = "kexinit" -> St(IF up THEN "rekey" ELSE "kex", Todo(m, e, 1))
      [] place = "kex" -> St(IF up THEN "rekey" ELSE "kex", Todo(m, e, step))
      [] place \in {"newkeys", "service"} -> St(IF up THEN "open" ELSE "service", {})
      [] place = "service_wait" -> St(IF e = "client" THEN "open" ELSE "service", {})
      [] place = "idle" -> St("open", {})

Reads(p) == ReadStage(method, p, pc[p], higher_layer_ok[p], kexstep[p])
Sends(e) == SendStage(method, e, pc[e], higher_layer_ok[e], kexstep[e])
All(e) == Todo(method, e, 1)

\* What is under way from e leads from where its peer reads to where e sends.
Linked(e) ==
    \E a, b \in Stage :
        /\ Run(All(e), Reads(Peer(e)), in_pq[Peer(e)], a)
        /\ Run(All(e), a, Plain(wire[e]), b)
        /\ Run(All(e), b, out_pq[e], Sends(e))

\* The key in use before packet i + 1 on the wire.
KeyAt(w, k, i) == IF i < Len(w) THEN w[i + 1].key ELSE k

\* The keys of the packets w on the wire, from now, which the receiver uses, to
\* k, which the sender uses, change at NEWKEYS.
Keyed(w, now, k) ==
    /\ KeyAt(w, k, 0) = now
    /\ \A i \in 1 .. Len(w) :
           KeyAt(w, k, i) = KeyAt(w, k, i - 1) + (IF w[i].pkt.type = "NEWKEYS" THEN 1 ELSE 0)

\* The keys that e has, or will have when it has seen the NEWKEYS in in_pq.
Incoming(e) == inkey[e] + (IF pending_newkeys[e] THEN 1 ELSE 0)

\* NEWKEYS is marshalled at once, and nothing is read behind it.
NoNewkeys(q) == \A i \in DOMAIN q : q[i].type # "NEWKEYS"
LastNewkeys(q, pending) == \A i \in DOMAIN q : q[i].type = "NEWKEYS" => pending /\ i = Len(q)

Switching(e) == NoNewkeys(out_pq[e]) /\ LastNewkeys(in_pq[e], pending_newkeys[e])

Layered(e) ==
    /\ pc[e] = "idle" => higher_layer_ok[e]
    /\ pc[e] \in {"service", "service_wait"} => ~higher_layer_ok[e]
    /\ deferred_rekey[e] => higher_layer_ok[e]
    /\ pq_out_higher[e] # <<>> => higher_layer_ok[e]
    /\ Higher(pq_out_higher[e])

KexInv ==
    /\ TypeOK
    /\ ~fault
    /\ \A e \in Ends :
           /\ Linked(e)
           /\ Keyed(wire[e], Incoming(Peer(e)), outkey[e])
           /\ Switching(e)
           /\ Layered(e)

\* The two ends.
LEMMA PeerIs ==
    ASSUME NEW e \in Ends
    PROVE  Peer(e) \in Ends /\ Peer(e) # e /\ Peer(Peer(e)) = e /\ \A f \in Ends : f = e \/ f = Peer(e)
BY DEF Peer, Ends

\* The messages of a method.
LEMMA ExchangeIs ==
    /\ method \in Methods =>
           /\ Exchange(method) \in Seq(Ends) /\ Len(Exchange(method)) \in Nat \ {0}
<1> SUFFICES ASSUME method \in Methods
             PROVE  Exchange(method) \in Seq(Ends) /\ Len(Exchange(method)) \in Nat \ {0}
  OBVIOUS
<1>1. method \in {"dh", "gex", "rsa"}
  BY ParamAssumption
<1>2. "client" \in Ends /\ "server" \in Ends
  BY DEF Ends
<1>3. CASE method = "dh"
  <2>1. Exchange(method) = <<"client", "server">>
    BY <1>3 DEF Exchange
  <2> QED BY <1>2, <2>1
<1>4. CASE method = "gex"
  <2>1. Exchange(method) = <<"client", "server", "client", "server">>
    BY <1>4 DEF Exchange
  <2> QED BY <1>2, <2>1
<1>5. CASE method = "rsa"
  <2>1. Exchange(method) = <<"server", "client", "server">>
    BY <1>5 DEF Exchange
  <2> QED BY <1>2, <2>1
<1> QED BY <1>1, <1>3, <1>4, <1>5

\* What an end has to send, at its own steps, at its peer's and at the end.
LEMMA TodoIs ==
    ASSUME method \in Methods, NEW e, NEW k \in 1 .. Len(Exchange(method)) + 1
    PROVE  /\ Todo(method, e, k) \in SUBSET Nat
           /\ k <= Len(Exchange(method)) =>
                  IF Exchange(method)[k] = e
                  THEN /\ k \in Todo(method, e, k) /\ \A j \in Todo(method, e, k) : k <= j
                       /\ Todo(method, e, k + 1) = Todo(method, e, k) \ {k}
                  ELSE Todo(method, e, k + 1) = Todo(method, e, k)
           /\ k > Len(Exchange(method)) => Todo(method, e, k) = {}
<1> DEFINE x == Exchange(method)
           n == Len(x)
<1>1. n \in Nat
  BY ExchangeIs
<1>2. k \in 1 .. n + 1
  OBVIOUS
<1>3. Todo(method, e, k) = {i \in k .. n : x[i] = e} /\ Todo(method, e, k + 1) = {i \in k + 1 .. n : x[i] = e}
  BY DEF Todo
<1> HIDE DEF x, n
<1>4. Todo(method, e, k) \in SUBSET Nat
  BY <1>1, <1>2, <1>3
<1>5. ASSUME k <= n
      PROVE  IF x[k] = e
             THEN /\ k \in Todo(method, e, k) /\ \A j \in Todo(method, e, k) : k <= j
                  /\ Todo(method, e, k + 1) = Todo(method, e, k) \ {k}
             ELSE Todo(method, e, k + 1) = Todo(method, e, k)
  BY <1>1, <1>2, <1>3, <1>5
<1>6. k > n => Todo(method, e, k) = {}
  BY <1>1, <1>2, <1>3
<1> QED BY <1>4, <1>5, <1>6 DEF x, n

\* The stages that the places stand for.
LEMMA StagesAre ==
    ASSUME TypeOK, NEW e \in Ends
    PROVE  Reads(e) \in Stage /\ Sends(e) \in Stage /\ All(e) \in SUBSET Nat
<1> DEFINE k == kexstep[e]
<1>1. k \in 1 .. Len(Exchange(method)) + 1 /\ method \in Methods /\ Len(Exchange(method)) \in Nat
  BY ExchangeIs DEF TypeOK
<1>2. 1 \in 1 .. Len(Exchange(method)) + 1
  BY <1>1
<1>3. Todo(method, Peer(e), k) \in SUBSET Nat /\ Todo(method, e, k) \in SUBSET Nat /\ Todo(method, e, 1) \in SUBSET Nat
  BY <1>1, <1>2, TodoIs
<1>4. pc[e] \in {"begin_key_exchange", "kexinit", "kex", "newkeys", "service", "service_wait", "idle"}
  BY DEF TypeOK
<1>5. \A at, todo : at \in {"first", "kex", "service", "open", "rekey"} /\ todo \in SUBSET Nat => St(at, todo) \in Stage
  BY DEF St, Stage
<1>6. {} \in SUBSET Nat
  OBVIOUS
<1>7. Reads(e) \in Stage
  BY <1>3, <1>4, <1>5, <1>6, Z3 DEF Reads, ReadStage
<1>8. Sends(e) \in Stage
  BY <1>3, <1>4, <1>5, <1>6, Z3 DEF Sends, SendStage
<1> QED BY <1>3, <1>7, <1>8 DEF All
\* What is left of in_pq after filtering still leads where the queue led, and
\* the packet that comes next is not one of the higher layer.
LEMMA ReadOn ==
    ASSUME KexInv, NEW e \in Ends, NEW a, Run(All(Peer(e)), Reads(e), in_pq[e], a)
    PROVE  /\ ~Premature(e)
           /\ Rest(e) \in Seq(Packet)
           /\ Run(All(Peer(e)), Reads(e), Rest(e), a)
           /\ Rest(e) # <<>> =>
                  /\ Head(Rest(e)) \in Packet /\ Head(Rest(e)).type # "higher"
                  /\ \E c \in Stage :
                         /\ Leads(All(Peer(e)), Reads(e), Head(Rest(e)).type, c)
                         /\ Run(All(Peer(e)), c, Tail(Rest(e)), a)
<1> DEFINE all == All(Peer(e))
           r == Rest(e)
<1>1. TypeOK /\ in_pq[e] \in Seq(Packet) /\ Layered(e)
  BY DEF KexInv, TypeOK
<1>2. PICK h \in Seq(Packet) :
          /\ Higher(h) /\ Len(h) = FilterLength(in_pq[e])
          /\ r \in Seq(Packet) /\ in_pq[e] = h \o r
          /\ r # <<>> => Head(r) \in Packet /\ Head(r).type # "higher"
  BY <1>1, RestIs
<1> HIDE DEF all, r
<1>3. PICK b \in Stage : Run(all, Reads(e), h, b) /\ Run(all, b, r, a)
  <2>1. Run(all, Reads(e), h \o r, a)
    BY <1>2 DEF all
  <2> QED BY <1>2, <2>1, RunSplit
<1>4. b = Reads(e) /\ (h # <<>> => Reads(e).at = "open")
  BY <1>2, <1>3, RunHigherIs
<1>5. Reads(e).at = "open" => higher_layer_ok[e]
  <2>1. pc[e] \in {"begin_key_exchange", "kexinit", "kex", "newkeys", "service", "service_wait", "idle"}
    BY <1>1 DEF TypeOK
  <2>2. pc[e] = "idle" => higher_layer_ok[e]
    BY <1>1 DEF Layered
  <2> QED BY <2>1, <2>2, Z3 DEF Reads, ReadStage, St
<1>6. ~Premature(e)
  <2>1. FilterLength(in_pq[e]) > 0 => h # <<>>
    BY <1>2
  <2> QED BY <1>4, <1>5, <2>1 DEF Premature
<1>7. ASSUME r # <<>>
      PROVE  \E c \in Stage : Leads(all, Reads(e), Head(r).type, c) /\ Run(all, c, Tail(r), a)
  <2>1. r = <<Head(r)>> \o Tail(r) /\ <<Head(r)>> \in Seq(Packet) /\ Tail(r) \in Seq(Packet)
    <3>1. Head(r) \in Packet /\ Tail(r) \in Seq(Packet)
      BY <1>2, <1>7, HeadTailProperties
    <3>2. r = <<Head(r)>> \o Tail(r)
      BY <1>2, <1>7
    <3>3. <<Head(r)>> \in Seq(Packet)
      BY <3>1
    <3> QED BY <3>1, <3>2, <3>3
  <2>2. Run(all, Reads(e), <<Head(r)>> \o Tail(r), a)
    BY <1>3, <1>4, <2>1
  <2>3. PICK c \in Stage : Run(all, Reads(e), <<Head(r)>>, c) /\ Run(all, c, Tail(r), a)
    BY <2>1, <2>2, RunSplit
  <2>4. Leads(all, Reads(e), Head(r).type, c)
    BY <2>3, RunOneIs
  <2> QED BY <2>3, <2>4
<1> QED BY <1>2, <1>3, <1>4, <1>6, <1>7 DEF all, r

\* No packet comes before the higher layer is up, and the next one is of the
\* type that the place calls for.
LEMMA NextIs ==
    ASSUME KexInv, NEW e \in Ends
    PROVE  /\ ~Premature(e)
           /\ Rest(e) \in Seq(Packet)
           /\ Rest(e) # <<>> =>
                  /\ pc[e] \in {"begin_key_exchange", "kexinit", "idle"} => Head(Rest(e)).type = "KEXINIT"
                  /\ /\ pc[e] = "kex" /\ kexstep[e] <= Len(Exchange(method))
                     /\ Exchange(method)[kexstep[e]] = Peer(e)
                     => Head(Rest(e)).type = "KEX"
                  /\ pc[e] = "newkeys" => Head(Rest(e)).type = "NEWKEYS"
                  /\ pc[e] \in {"service", "service_wait"} => Head(Rest(e)).type = "SERVICE"
<1> DEFINE all == All(Peer(e))
           r == Rest(e)
           t == Head(r).type
<1>1. PICK a \in Stage : Run(all, Reads(e), in_pq[e], a)
  <2>1. Linked(Peer(e)) /\ Peer(Peer(e)) = e
    BY PeerIs DEF KexInv
  <2> QED BY <2>1 DEF Linked
<1>2. ~Premature(e) /\ r \in Seq(Packet)
  BY <1>1, ReadOn
<1>3. SUFFICES ASSUME r # <<>>
      PROVE  /\ pc[e] \in {"begin_key_exchange", "kexinit", "idle"} => t = "KEXINIT"
             /\ /\ pc[e] = "kex" /\ kexstep[e] <= Len(Exchange(method))
                /\ Exchange(method)[kexstep[e]] = Peer(e)
                => t = "KEX"
             /\ pc[e] = "newkeys" => t = "NEWKEYS"
             /\ pc[e] \in {"service", "service_wait"} => t = "SERVICE"
  BY <1>2
<1>4. PICK c \in Stage : Leads(all, Reads(e), t, c) /\ t # "higher"
  BY <1>1, <1>3, ReadOn
<1> HIDE DEF all, r, t
<1>5. pc[e] \in {"begin_key_exchange", "kexinit", "idle"} => t = "KEXINIT"
  <2>1. pc[e] \in {"begin_key_exchange", "kexinit", "idle"} => Reads(e).at \in {"open", "first"}
    BY DEF Reads, ReadStage, St
  <2> QED BY <1>4, <2>1 DEF Leads, St
<1>6. pc[e] = "newkeys" => t = "NEWKEYS"
  <2>1. pc[e] = "newkeys" => Reads(e).at \in {"rekey", "kex"} /\ Reads(e).todo = {}
    BY DEF Reads, ReadStage, St
  <2> QED BY <1>4, <2>1 DEF Leads
<1>7. pc[e] \in {"service", "service_wait"} => t = "SERVICE"
  <2>1. pc[e] \in {"service", "service_wait"} => Reads(e).at = "service"
    BY DEF Reads, ReadStage, St
  <2> QED BY <1>4, <2>1 DEF Leads, St
<1>8. ASSUME pc[e] = "kex", kexstep[e] <= Len(Exchange(method)), Exchange(method)[kexstep[e]] = Peer(e)
      PROVE  t = "KEX"
  <2>1. Reads(e).at \in {"rekey", "kex"} /\ Reads(e).todo = Todo(method, Peer(e), kexstep[e])
    BY <1>8 DEF Reads, ReadStage, St
  <2>2. method \in Methods /\ kexstep[e] \in 1 .. Len(Exchange(method)) + 1
    BY DEF KexInv, TypeOK
  <2>3. kexstep[e] \in Todo(method, Peer(e), kexstep[e])
    BY <1>8, <2>2, TodoIs
  <2> QED BY <1>4, <2>1, <2>3 DEF Leads, St
<1> QED BY <1>5, <1>6, <1>7, <1>8

\* The other end f is left alone.
Still(f) ==
    /\ pc'[f] = pc[f] /\ higher_layer_ok'[f] = higher_layer_ok[f] /\ kexstep'[f] = kexstep[f]
    /\ in_pq'[f] = in_pq[f] /\ out_pq'[f] = out_pq[f]

\* A step of e's layer, if what it takes from in_pq and adds to out_pq agrees
\* with where it goes.
LEMMA LocalStep ==
    ASSUME KexInv, NEW e \in Ends, Still(Peer(e)), UNCHANGED <<wire, method>>,
           \A a \in Stage : Run(All(Peer(e)), Reads(e), in_pq[e], a)
                            => Run(All(Peer(e)), Reads(e)', in_pq'[e], a),
           \A b \in Stage : Run(All(e), b, out_pq[e], Sends(e))
                            => Run(All(e), b, out_pq'[e], Sends(e)')
    PROVE  \A f \in Ends : Linked(f)'
<1> DEFINE p == Peer(e)
<1>1. p \in Ends /\ p # e /\ Peer(p) = e /\ \A f \in Ends : f = e \/ f = p
  BY PeerIs
<1>2. All(e)' = All(e) /\ All(p)' = All(p) /\ Reads(p)' = Reads(p) /\ Sends(p)' = Sends(p)
      /\ Plain(wire[e])' = Plain(wire[e]) /\ Plain(wire[p])' = Plain(wire[p])
      /\ Peer(e)' = Peer(e) /\ Peer(p)' = Peer(p)
  BY DEF All, Reads, Sends, Still
<1>3. Linked(e)'
  <2>1. PICK a, b \in Stage :
            /\ Run(All(e), Reads(p), in_pq[p], a)
            /\ Run(All(e), a, Plain(wire[e]), b)
            /\ Run(All(e), b, out_pq[e], Sends(e))
    BY DEF KexInv, Linked
  <2>2. in_pq'[p] = in_pq[p]
    BY DEF Still
  <2> QED BY <1>2, <2>1, <2>2 DEF Linked
<1>4. Linked(p)'
  <2>1. PICK a, b \in Stage :
            /\ Run(All(p), Reads(e), in_pq[e], a)
            /\ Run(All(p), a, Plain(wire[p]), b)
            /\ Run(All(p), b, out_pq[p], Sends(p))
    BY <1>1 DEF KexInv, Linked
  <2>2. out_pq'[p] = out_pq[p]
    BY DEF Still
  <2> QED BY <1>1, <1>2, <2>1, <2>2 DEF Linked
<1> QED BY <1>1, <1>3, <1>4
-----------------------------------------------------------------------------
(* The stages at which a step of the coroutine reads and sends. *)

\* Filtering leaves the reading where it is.
LEMMA ReadRest ==
    ASSUME KexInv, NEW e \in Ends, in_pq'[e] \in {in_pq[e], Rest(e)}, Reads(e)' = Reads(e),
           NEW a \in Stage, Run(All(Peer(e)), Reads(e), in_pq[e], a)
    PROVE  Run(All(Peer(e)), Reads(e)', in_pq'[e], a)
BY ReadOn

\* A packet is popped.
LEMMA ReadPop ==
    ASSUME KexInv, NEW e \in Ends, Rest(e) # <<>>, in_pq'[e] = Tail(Rest(e)),
           \A c \in Stage : Leads(All(Peer(e)), Reads(e), Head(Rest(e)).type, c) => c = Reads(e)',
           NEW a \in Stage, Run(All(Peer(e)), Reads(e), in_pq[e], a)
    PROVE  Run(All(Peer(e)), Reads(e)', in_pq'[e], a)
BY ReadOn

\* Nothing is sent.
LEMMA SendNothing ==
    ASSUME NEW e \in Ends, out_pq'[e] = out_pq[e], Sends(e)' = Sends(e),
           NEW b \in Stage, Run(All(e), b, out_pq[e], Sends(e))
    PROVE  Run(All(e), b, out_pq'[e], Sends(e)')
OBVIOUS

\* A packet is pushed.
LEMMA SendPush ==
    ASSUME KexInv, NEW e \in Ends, NEW type \in {"KEXINIT", "KEX", "NEWKEYS", "SERVICE"}, Push(e, type),
           Sends(e)' \in Stage, Leads(All(e), Sends(e), type, Sends(e)'),
           NEW b \in Stage, Run(All(e), b, out_pq[e], Sends(e))
    PROVE  Run(All(e), b, out_pq'[e], Sends(e)')
<1>1. out_pq[e] \in Seq(Packet) /\ Sends(e) \in Stage /\ out_pq \in [Ends -> Seq(Packet)]
  BY StagesAre DEF KexInv, TypeOK
<1>2. Msg(type) \in Packet /\ Msg(type).type = type
  BY DEF Msg, Packet
<1>3. <<Msg(type)>> \in Seq(Packet)
  BY <1>2
<1>4. Append(out_pq[e], Msg(type)) = out_pq[e] \o <<Msg(type)>>
  BY <1>1, <1>2
<1>5. out_pq'[e] = out_pq[e] \o <<Msg(type)>>
  BY <1>1, <1>4 DEF Push
<1>6. Run(All(e), Sends(e), <<Msg(type)>>, Sends(e)')
  BY <1>1, <1>2, RunOne
<1> QED BY <1>1, <1>3, <1>5, <1>6, RunConcat

\* Nothing but filtering.
LEMMA LinkedCall ==
    ASSUME KexInv, NEW e \in Ends, CallProcessQueue(e)
    PROVE  \A f \in Ends : Linked(f)'
<1>1. ~Premature(e)
  BY NextIs
<1>2. in_pq' = [in_pq EXCEPT ![e] = Rest(e)] /\ UNCHANGED <<pc, higher_layer_ok, kexstep, out_pq, wire, method>>
  BY <1>1 DEF CallProcessQueue, bpp
<1>3. in_pq \in [Ends -> Seq(Packet)] /\ Peer(e) \in Ends /\ Peer(e) # e
  BY PeerIs DEF KexInv, TypeOK
<1>4. in_pq'[e] = Rest(e) /\ in_pq'[Peer(e)] = in_pq[Peer(e)]
  BY <1>2, <1>3
<1>5. Still(Peer(e)) /\ Reads(e)' = Reads(e) /\ Sends(e)' = Sends(e)
  BY <1>2, <1>4 DEF Still, Reads, Sends
<1> QED BY <1>2, <1>4, <1>5, ReadRest, SendNothing, LocalStep

\* The coroutine waits.
LEMMA LinkedWait ==
    ASSUME KexInv, NEW e \in Ends, Wait(e)
    PROVE  \A f \in Ends : Linked(f)'
<1>1. Rest(e) = <<>> /\ in_pq' = [in_pq EXCEPT ![e] = <<>>]
      /\ UNCHANGED <<pc, higher_layer_ok, kexstep, out_pq, wire, method>>
  BY DEF Wait, NothingToPop, bpp
<1>3. in_pq \in [Ends -> Seq(Packet)] /\ Peer(e) \in Ends /\ Peer(e) # e
  BY PeerIs DEF KexInv, TypeOK
<1>4. in_pq'[e] = Rest(e) /\ in_pq'[Peer(e)] = in_pq[Peer(e)]
  BY <1>1, <1>3
<1>5. Still(Peer(e)) /\ Reads(e)' = Reads(e) /\ Sends(e)' = Sends(e)
  BY <1>1, <1>4 DEF Still, Reads, Sends
<1> QED BY <1>1, <1>4, <1>5, ReadRest, SendNothing, LocalStep

\* The higher layer and the user do not touch what is under way.
LEMMA LinkedUser ==
    ASSUME KexInv, NEW e \in Ends, HigherLayerSend(e) \/ WantRekey(e)
    PROVE  \A f \in Ends : Linked(f)'
<1>1. UNCHANGED <<pc, higher_layer_ok, kexstep, in_pq, out_pq, wire, method>>
  BY DEF HigherLayerSend, WantRekey, queues, bpp
<1>5. Still(Peer(e)) /\ Reads(e)' = Reads(e) /\ Sends(e)' = Sends(e) /\ in_pq'[e] = in_pq[e] /\ out_pq'[e] = out_pq[e]
  BY <1>1 DEF Still, Reads, Sends
<1> QED BY <1>1, <1>5, ReadRest, SendNothing, LocalStep

\* KEXINIT begins a key exchange, the first or another.
LEMMA LinkedBegin ==
    ASSUME KexInv, NEW e \in Ends, BeginKeyExchange(e)
    PROVE  \A f \in Ends : Linked(f)'
<1>1. pc[e] = "begin_key_exchange" /\ pc' = [pc EXCEPT ![e] = "kexinit"] /\ Push(e, "KEXINIT")
      /\ UNCHANGED <<higher_layer_ok, kexstep, in_pq, wire, method>>
  BY DEF BeginKeyExchange, At, Goto, bpp
<1>2. TypeOK /\ pc \in [Ends -> {"begin_key_exchange", "kexinit", "kex", "newkeys", "service", "service_wait", "idle"}]
      /\ out_pq \in [Ends -> Seq(Packet)] /\ Peer(e) \in Ends /\ Peer(e) # e
  BY PeerIs DEF KexInv, TypeOK
<1>3. pc'[e] = "kexinit" /\ pc'[Peer(e)] = pc[Peer(e)] /\ out_pq'[Peer(e)] = out_pq[Peer(e)] /\ in_pq'[e] = in_pq[e]
  BY <1>1, <1>2 DEF Push
<1>4. Still(Peer(e))
  BY <1>1, <1>3 DEF Still
<1>5. Reads(e)' = Reads(e)
  BY <1>1, <1>3 DEF Reads, ReadStage
<1>6. Leads(All(e), Sends(e), "KEXINIT", Sends(e)') /\ Sends(e)' \in Stage
  <2>1. Sends(e) = St(IF higher_layer_ok[e] THEN "open" ELSE "first", {})
    BY <1>1 DEF Sends, SendStage
  <2>2. Sends(e)' = St(IF higher_layer_ok[e] THEN "rekey" ELSE "kex", All(e))
    BY <1>1, <1>3 DEF Sends, SendStage, All
  <2>3. All(e) \in SUBSET Nat
    BY <1>2, StagesAre
  <2> QED BY <2>1, <2>2, <2>3 DEF Leads, St, Stage
<1>7. \A b \in Stage : Run(All(e), b, out_pq[e], Sends(e)) => Run(All(e), b, out_pq'[e], Sends(e)')
  BY <1>1, <1>6, SendPush
<1>8. \A a \in Stage : Run(All(Peer(e)), Reads(e), in_pq[e], a) => Run(All(Peer(e)), Reads(e)', in_pq'[e], a)
  BY <1>3, <1>5, ReadRest
<1> QED BY <1>1, <1>4, <1>7, <1>8, LocalStep
\* The peer's KEXINIT is popped.
LEMMA LinkedRecvKexinit ==
    ASSUME KexInv, NEW e \in Ends, RecvKexinit(e)
    PROVE  \A f \in Ends : Linked(f)'
<1>1. pc[e] = "kexinit" /\ Rest(e) # <<>> /\ ~Premature(e)
  BY NextIs DEF RecvKexinit, At, Pop, NothingToPop
<1>2. Head(Rest(e)).type = "KEXINIT"
  BY <1>1, NextIs
<1>3. /\ in_pq' = [in_pq EXCEPT ![e] = Tail(Rest(e))] /\ kexstep' = [kexstep EXCEPT ![e] = 1]
      /\ pc' = [pc EXCEPT ![e] = "kex"] /\ UNCHANGED <<higher_layer_ok, out_pq, wire, method>>
  BY <1>1, <1>2 DEF RecvKexinit, Pop, Goto, bpp
<1>4. TypeOK /\ pc \in [Ends -> {"begin_key_exchange", "kexinit", "kex", "newkeys", "service", "service_wait", "idle"}]
      /\ in_pq \in [Ends -> Seq(Packet)] /\ kexstep \in [Ends -> 1 .. Len(Exchange(method)) + 1]
      /\ Peer(e) \in Ends /\ Peer(e) # e
  BY PeerIs DEF KexInv, TypeOK
<1>5. /\ pc'[e] = "kex" /\ pc'[Peer(e)] = pc[Peer(e)] /\ kexstep'[e] = 1 /\ kexstep'[Peer(e)] = kexstep[Peer(e)]
      /\ in_pq'[e] = Tail(Rest(e)) /\ in_pq'[Peer(e)] = in_pq[Peer(e)] /\ out_pq'[e] = out_pq[e]
  BY <1>3, <1>4
<1>6. Still(Peer(e))
  BY <1>3, <1>5 DEF Still
<1>7. Sends(e)' = Sends(e)
  BY <1>1, <1>3, <1>5 DEF Sends, SendStage
<1>8. ASSUME NEW c \in Stage, Leads(All(Peer(e)), Reads(e), Head(Rest(e)).type, c) PROVE c = Reads(e)'
  <2>1. Reads(e) = St(IF higher_layer_ok[e] THEN "open" ELSE "first", {})
    BY <1>1 DEF Reads, ReadStage
  <2>2. Reads(e)' = St(IF higher_layer_ok[e] THEN "rekey" ELSE "kex", All(Peer(e)))
    BY <1>3, <1>5 DEF Reads, ReadStage, All
  <2> QED BY <1>2, <1>8, <2>1, <2>2 DEF Leads, St
<1>9. \A a \in Stage : Run(All(Peer(e)), Reads(e), in_pq[e], a) => Run(All(Peer(e)), Reads(e)', in_pq'[e], a)
  BY <1>1, <1>5, <1>8, ReadPop
<1>10. \A b \in Stage : Run(All(e), b, out_pq[e], Sends(e)) => Run(All(e), b, out_pq'[e], Sends(e)')
  BY <1>5, <1>7, SendNothing
<1> QED BY <1>3, <1>6, <1>9, <1>10, LocalStep

\* A message of the exchange is sent.
LEMMA LinkedKexSend ==
    ASSUME KexInv, NEW e \in Ends, KexSend(e)
    PROVE  \A f \in Ends : Linked(f)'
<1> DEFINE k == kexstep[e]
<1>1. /\ pc[e] = "kex" /\ k <= Len(Exchange(method)) /\ Exchange(method)[k] = e /\ Push(e, "KEX")
      /\ kexstep' = [kexstep EXCEPT ![e] = @ + 1]
      /\ UNCHANGED <<pc, higher_layer_ok, in_pq, wire, method>>
  BY DEF KexSend, At, bpp
<1>2. TypeOK /\ kexstep \in [Ends -> 1 .. Len(Exchange(method)) + 1] /\ method \in Methods
      /\ out_pq \in [Ends -> Seq(Packet)] /\ Peer(e) \in Ends /\ Peer(e) # e
  BY PeerIs DEF KexInv, TypeOK
<1>3. k \in 1 .. Len(Exchange(method)) + 1
  BY <1>2
<1>4. kexstep'[e] = k + 1 /\ kexstep'[Peer(e)] = kexstep[Peer(e)] /\ out_pq'[Peer(e)] = out_pq[Peer(e)]
      /\ in_pq'[e] = in_pq[e]
  BY <1>1, <1>2 DEF Push
<1>5. Still(Peer(e))
  BY <1>1, <1>4 DEF Still
<1>6. Reads(e)' = Reads(e)
  <2>1. Todo(method, Peer(e), k + 1) = Todo(method, Peer(e), k)
    BY <1>1, <1>2, <1>3, TodoIs
  <2> QED BY <1>1, <1>4, <2>1 DEF Reads, ReadStage
<1>7. Leads(All(e), Sends(e), "KEX", Sends(e)') /\ Sends(e)' \in Stage
  <2>1. Sends(e) = St(IF higher_layer_ok[e] THEN "rekey" ELSE "kex", Todo(method, e, k))
    BY <1>1 DEF Sends, SendStage
  <2>2. Sends(e)' = St(IF higher_layer_ok[e] THEN "rekey" ELSE "kex", Todo(method, e, k + 1))
    BY <1>1, <1>4 DEF Sends, SendStage
  <2>3. /\ k \in Todo(method, e, k) /\ \A j \in Todo(method, e, k) : k <= j
        /\ Todo(method, e, k + 1) = Todo(method, e, k) \ {k} /\ Todo(method, e, k) \in SUBSET Nat
    BY <1>1, <1>2, <1>3, TodoIs
  <2> HIDE DEF k
  <2> QED BY <2>1, <2>2, <2>3 DEF Leads, St, Stage
<1>8. \A b \in Stage : Run(All(e), b, out_pq[e], Sends(e)) => Run(All(e), b, out_pq'[e], Sends(e)')
  BY <1>1, <1>7, SendPush
<1>9. \A a \in Stage : Run(All(Peer(e)), Reads(e), in_pq[e], a) => Run(All(Peer(e)), Reads(e)', in_pq'[e], a)
  BY <1>4, <1>6, ReadRest
<1> QED BY <1>1, <1>5, <1>8, <1>9, LocalStep

\* A message of the exchange is popped.
LEMMA LinkedKexRecv ==
    ASSUME KexInv, NEW e \in Ends, KexRecv(e)
    PROVE  \A f \in Ends : Linked(f)'
<1> DEFINE k == kexstep[e]
<1>1. /\ pc[e] = "kex" /\ k <= Len(Exchange(method)) /\ Exchange(method)[k] = Peer(e)
      /\ Rest(e) # <<>> /\ ~Premature(e)
  BY NextIs DEF KexRecv, At, Pop, NothingToPop
<1>2. Head(Rest(e)).type = "KEX"
  BY <1>1, NextIs
<1>3. /\ in_pq' = [in_pq EXCEPT ![e] = Tail(Rest(e))] /\ kexstep' = [kexstep EXCEPT ![e] = @ + 1]
      /\ UNCHANGED <<pc, higher_layer_ok, out_pq, wire, method>>
  BY <1>1, <1>2 DEF KexRecv, Pop, bpp
<1>4. TypeOK /\ kexstep \in [Ends -> 1 .. Len(Exchange(method)) + 1] /\ method \in Methods
      /\ in_pq \in [Ends -> Seq(Packet)] /\ Peer(e) \in Ends /\ Peer(e) # e
  BY PeerIs DEF KexInv, TypeOK
<1>5. k \in 1 .. Len(Exchange(method)) + 1
  BY <1>4
<1>6. kexstep'[e] = k + 1 /\ kexstep'[Peer(e)] = kexstep[Peer(e)] /\ out_pq'[e] = out_pq[e]
      /\ in_pq'[e] = Tail(Rest(e)) /\ in_pq'[Peer(e)] = in_pq[Peer(e)]
  BY <1>3, <1>4
<1>7. Still(Peer(e))
  BY <1>3, <1>6 DEF Still
<1>8. Sends(e)' = Sends(e)
  <2>1. Todo(method, e, k + 1) = Todo(method, e, k)
    BY <1>1, <1>4, <1>5, TodoIs
  <2> QED BY <1>1, <1>3, <1>6, <2>1 DEF Sends, SendStage
<1>9. ASSUME NEW c \in Stage, Leads(All(Peer(e)), Reads(e), Head(Rest(e)).type, c) PROVE c = Reads(e)'
  <2> DEFINE todo == Todo(method, Peer(e), k)
             at == IF higher_layer_ok[e] THEN "rekey" ELSE "kex"
  <2>1. Reads(e) = St(at, todo)
    BY <1>1 DEF Reads, ReadStage
  <2>2. Reads(e)' = St(at, Todo(method, Peer(e), k + 1))
    BY <1>1, <1>3, <1>6 DEF Reads, ReadStage
  <2>3. /\ k \in todo /\ \A j \in todo : k <= j
        /\ Todo(method, Peer(e), k + 1) = todo \ {k} /\ todo \in SUBSET Nat
    BY <1>1, <1>4, <1>5, TodoIs
  <2> HIDE DEF k, todo, at
  <2>4. Reads(e).todo = todo /\ Reads(e).at = at
    BY <2>1 DEF St
  <2>5. PICK i \in todo : (\A j \in todo : i <= j) /\ c = St(at, todo \ {i})
    BY <1>2, <1>9, <2>4 DEF Leads
  <2>6. i = k
    BY <2>3, <2>5
  <2> QED BY <2>2, <2>3, <2>5, <2>6
<1>10. \A a \in Stage : Run(All(Peer(e)), Reads(e), in_pq[e], a) => Run(All(Peer(e)), Reads(e)', in_pq'[e], a)
  BY <1>1, <1>6, <1>9, ReadPop
<1>11. \A b \in Stage : Run(All(e), b, out_pq[e], Sends(e)) => Run(All(e), b, out_pq'[e], Sends(e)')
  BY <1>6, <1>8, SendNothing
<1> QED BY <1>3, <1>7, <1>10, <1>11, LocalStep

\* NEWKEYS is popped.
LEMMA LinkedRecvNewkeys ==
    ASSUME KexInv, NEW e \in Ends, RecvNewkeys(e)
    PROVE  \A f \in Ends : Linked(f)'
<1>1. pc[e] = "newkeys" /\ Rest(e) # <<>> /\ ~Premature(e)
  BY NextIs DEF RecvNewkeys, At, Pop, NothingToPop
<1>2. Head(Rest(e)).type = "NEWKEYS"
  BY <1>1, NextIs
<1> DEFINE place == IF deferred_rekey[e] THEN "begin_key_exchange"
                    ELSE IF higher_layer_ok[e] THEN "idle" ELSE "service"
<1>3. /\ in_pq' = [in_pq EXCEPT ![e] = Tail(Rest(e))] /\ pc' = [pc EXCEPT ![e] = place]
      /\ UNCHANGED <<kexstep, higher_layer_ok, out_pq, wire, method>>
  BY <1>1, <1>2 DEF RecvNewkeys, Pop, Goto
<1>4. TypeOK /\ pc \in [Ends -> {"begin_key_exchange", "kexinit", "kex", "newkeys", "service", "service_wait", "idle"}]
      /\ in_pq \in [Ends -> Seq(Packet)] /\ Peer(e) \in Ends /\ Peer(e) # e
      /\ (deferred_rekey[e] => higher_layer_ok[e])
  BY PeerIs DEF KexInv, TypeOK, Layered
<1>5. /\ pc'[e] = place /\ pc'[Peer(e)] = pc[Peer(e)]
      /\ in_pq'[e] = Tail(Rest(e)) /\ in_pq'[Peer(e)] = in_pq[Peer(e)] /\ out_pq'[e] = out_pq[e]
  BY <1>3, <1>4
<1>6. Still(Peer(e))
  BY <1>3, <1>5 DEF Still
<1>7. Sends(e)' = Sends(e)
  BY <1>1, <1>3, <1>4, <1>5 DEF Sends, SendStage
<1>8. ASSUME NEW c \in Stage, Leads(All(Peer(e)), Reads(e), Head(Rest(e)).type, c) PROVE c = Reads(e)'
  <2>1. Reads(e) = St(IF higher_layer_ok[e] THEN "rekey" ELSE "kex", {})
    BY <1>1 DEF Reads, ReadStage
  <2>2. Reads(e)' = St(IF higher_layer_ok[e] THEN "open" ELSE "service", {})
    BY <1>3, <1>4, <1>5 DEF Reads, ReadStage
  <2> QED BY <1>2, <1>8, <2>1, <2>2 DEF Leads, St
<1>9. \A a \in Stage : Run(All(Peer(e)), Reads(e), in_pq[e], a) => Run(All(Peer(e)), Reads(e)', in_pq'[e], a)
  BY <1>1, <1>5, <1>8, ReadPop
<1>10. \A b \in Stage : Run(All(e), b, out_pq[e], Sends(e)) => Run(All(e), b, out_pq'[e], Sends(e)')
  BY <1>5, <1>7, SendNothing
<1> QED BY <1>3, <1>6, <1>9, <1>10, LocalStep
\* The client sends SERVICE.
LEMMA LinkedRequest ==
    ASSUME KexInv, NEW e \in Ends, RequestService(e)
    PROVE  \A f \in Ends : Linked(f)'
<1>1. /\ pc[e] = "service" /\ pc' = [pc EXCEPT ![e] = "service_wait"]
      /\ IF e = "client" THEN Push(e, "SERVICE") ELSE UNCHANGED out_pq
      /\ UNCHANGED <<higher_layer_ok, kexstep, in_pq, wire, method>>
  BY DEF RequestService, At, Goto, bpp
<1>2. TypeOK /\ pc \in [Ends -> {"begin_key_exchange", "kexinit", "kex", "newkeys", "service", "service_wait", "idle"}]
      /\ out_pq \in [Ends -> Seq(Packet)] /\ Peer(e) \in Ends /\ Peer(e) # e /\ Layered(e)
  BY PeerIs DEF KexInv, TypeOK
<1>3. pc'[e] = "service_wait" /\ pc'[Peer(e)] = pc[Peer(e)] /\ out_pq'[Peer(e)] = out_pq[Peer(e)] /\ in_pq'[e] = in_pq[e]
  BY <1>1, <1>2 DEF Push
<1>4. Still(Peer(e))
  BY <1>1, <1>3 DEF Still
<1>5. Reads(e)' = Reads(e)
  BY <1>1, <1>3 DEF Reads, ReadStage
<1>6. Sends(e) = St("service", {})
  BY <1>1, <1>2 DEF Sends, SendStage, Layered
<1>7. \A b \in Stage : Run(All(e), b, out_pq[e], Sends(e)) => Run(All(e), b, out_pq'[e], Sends(e)')
  <2>1. CASE e = "client"
    <3>1. Sends(e)' = St("open", {})
      BY <1>3, <2>1 DEF Sends, SendStage
    <3>2. Leads(All(e), Sends(e), "SERVICE", Sends(e)') /\ Sends(e)' \in Stage
      BY <1>6, <3>1 DEF Leads, St, Stage
    <3> QED BY <1>1, <2>1, <3>2, SendPush
  <2>2. CASE e # "client"
    <3>1. Sends(e)' = St("service", {})
      BY <1>3, <2>2 DEF Sends, SendStage
    <3>2. out_pq'[e] = out_pq[e]
      BY <1>1, <2>2
    <3> QED BY <1>6, <3>1, <3>2, SendNothing
  <2> QED BY <2>1, <2>2
<1>8. \A a \in Stage : Run(All(Peer(e)), Reads(e), in_pq[e], a) => Run(All(Peer(e)), Reads(e)', in_pq'[e], a)
  BY <1>3, <1>5, ReadRest
<1> QED BY <1>1, <1>4, <1>7, <1>8, LocalStep

\* SERVICE is popped; the server answers it.
LEMMA LinkedStart ==
    ASSUME KexInv, NEW e \in Ends, StartHigherLayer(e)
    PROVE  \A f \in Ends : Linked(f)'
<1>1. pc[e] = "service_wait" /\ Rest(e) # <<>> /\ ~Premature(e)
  BY NextIs DEF StartHigherLayer, At, Pop, NothingToPop
<1>2. Head(Rest(e)).type = "SERVICE"
  BY <1>1, NextIs
<1>3. /\ in_pq' = [in_pq EXCEPT ![e] = Tail(Rest(e))] /\ pc' = [pc EXCEPT ![e] = "idle"]
      /\ IF e = "server" THEN Push(e, "SERVICE") ELSE UNCHANGED out_pq
      /\ higher_layer_ok' = [higher_layer_ok EXCEPT ![e] = TRUE]
      /\ UNCHANGED <<kexstep, wire, method>>
  BY <1>1, <1>2 DEF StartHigherLayer, Pop, Goto, bpp
<1>4. TypeOK /\ pc \in [Ends -> {"begin_key_exchange", "kexinit", "kex", "newkeys", "service", "service_wait", "idle"}]
      /\ in_pq \in [Ends -> Seq(Packet)] /\ out_pq \in [Ends -> Seq(Packet)] /\ higher_layer_ok \in [Ends -> BOOLEAN]
      /\ Peer(e) \in Ends /\ Peer(e) # e
  BY PeerIs DEF KexInv, TypeOK
<1>5. /\ pc'[e] = "idle" /\ pc'[Peer(e)] = pc[Peer(e)] /\ higher_layer_ok'[Peer(e)] = higher_layer_ok[Peer(e)]
      /\ in_pq'[e] = Tail(Rest(e)) /\ in_pq'[Peer(e)] = in_pq[Peer(e)] /\ out_pq'[Peer(e)] = out_pq[Peer(e)]
  BY <1>3, <1>4 DEF Push
<1>6. Still(Peer(e))
  BY <1>3, <1>5 DEF Still
<1>7. Sends(e)' = St("open", {}) /\ Reads(e)' = St("open", {}) /\ Reads(e) = St("service", {})
      /\ Sends(e) = St(IF e = "client" THEN "open" ELSE "service", {})
  BY <1>1, <1>5 DEF Sends, SendStage, Reads, ReadStage
<1>8. \A c \in Stage : Leads(All(Peer(e)), Reads(e), Head(Rest(e)).type, c) => c = Reads(e)'
  BY <1>2, <1>7 DEF Leads, St
<1>9. \A a \in Stage : Run(All(Peer(e)), Reads(e), in_pq[e], a) => Run(All(Peer(e)), Reads(e)', in_pq'[e], a)
  BY <1>1, <1>5, <1>8, ReadPop
<1>10. \A b \in Stage : Run(All(e), b, out_pq[e], Sends(e)) => Run(All(e), b, out_pq'[e], Sends(e)')
  <2>1. CASE e = "server"
    <3>1. Leads(All(e), Sends(e), "SERVICE", Sends(e)') /\ Sends(e)' \in Stage
      BY <1>7, <2>1 DEF Leads, St, Stage
    <3> QED BY <1>3, <2>1, <3>1, SendPush
  <2>2. CASE e = "client"
    <3>1. Sends(e)' = Sends(e) /\ out_pq'[e] = out_pq[e]
      BY <1>3, <1>7, <2>2
    <3> QED BY <3>1, SendNothing
  <2> QED BY <2>1, <2>2 DEF Ends
<1> QED BY <1>3, <1>6, <1>9, <1>10, LocalStep

\* Packets of the higher layer are passed through, both ways.
LEMMA LinkedIdle ==
    ASSUME KexInv, NEW e \in Ends, Idle(e)
    PROVE  \A f \in Ends : Linked(f)'
<1>1. pc[e] = "idle"
  BY DEF Idle, At
<1>2. ~(Rest(e) # <<>> /\ Head(Rest(e)).type # "KEXINIT")
  BY <1>1, NextIs
<1>3. /\ in_pq' = [in_pq EXCEPT ![e] = Rest(e)] /\ out_pq' = [out_pq EXCEPT ![e] = @ \o pq_out_higher[e]]
      /\ pc' = pc \/ pc' = [pc EXCEPT ![e] = "begin_key_exchange"]
      /\ UNCHANGED <<kexstep, higher_layer_ok, wire, method>>
  BY <1>2 DEF Idle, Goto, bpp
<1>4. TypeOK /\ pc \in [Ends -> {"begin_key_exchange", "kexinit", "kex", "newkeys", "service", "service_wait", "idle"}]
      /\ in_pq \in [Ends -> Seq(Packet)] /\ out_pq \in [Ends -> Seq(Packet)]
      /\ pq_out_higher[e] \in Seq(Packet) /\ Higher(pq_out_higher[e]) /\ higher_layer_ok[e]
      /\ Peer(e) \in Ends /\ Peer(e) # e
  BY <1>1, PeerIs DEF KexInv, TypeOK, Layered
<1>5. /\ pc'[e] \in {"idle", "begin_key_exchange"} /\ pc'[Peer(e)] = pc[Peer(e)]
      /\ in_pq'[e] = Rest(e) /\ in_pq'[Peer(e)] = in_pq[Peer(e)]
      /\ out_pq'[e] = out_pq[e] \o pq_out_higher[e] /\ out_pq'[Peer(e)] = out_pq[Peer(e)]
  BY <1>1, <1>3, <1>4
<1>6. Still(Peer(e))
  BY <1>3, <1>5 DEF Still
<1>7. Sends(e)' = St("open", {}) /\ Reads(e)' = St("open", {}) /\ Reads(e) = St("open", {})
      /\ Sends(e) = St("open", {})
  BY <1>1, <1>3, <1>4, <1>5 DEF Sends, SendStage, Reads, ReadStage
<1>8. \A a \in Stage : Run(All(Peer(e)), Reads(e), in_pq[e], a) => Run(All(Peer(e)), Reads(e)', in_pq'[e], a)
  BY <1>5, <1>7, ReadRest
<1>9. St("open", {}) \in Stage /\ St("open", {}).at = "open"
  BY DEF St, Stage
<1>10. Run(All(e), Sends(e), pq_out_higher[e], Sends(e)')
  BY <1>4, <1>7, <1>9, RunHigher
<1>11. out_pq[e] \in Seq(Packet)
  BY <1>4
<1>12. \A b \in Stage : Run(All(e), b, out_pq[e], Sends(e)) => Run(All(e), b, out_pq'[e], Sends(e)')
  BY <1>4, <1>5, <1>10, <1>11, RunConcat
<1> QED BY <1>3, <1>6, <1>8, <1>12, LocalStep
-----------------------------------------------------------------------------
(* The wire. *)

Wired == [pkt : Packet, key : Nat]

\* The packets on the wire.
LEMMA PlainIs ==
    ASSUME NEW w \in Seq(Wired)
    PROVE  /\ Plain(w) \in Seq(Packet) /\ Len(Plain(w)) = Len(w)
           /\ \A i \in 1 .. Len(w) : Plain(w)[i] = w[i].pkt
<1>1. Len(w) \in Nat /\ DOMAIN w = 1 .. Len(w) /\ \A i \in 1 .. Len(w) : w[i] \in Wired
  BY LenProperties, ElementOfSeq
<1>2. \A i \in 1 .. Len(w) : w[i].pkt \in Packet
  BY <1>1 DEF Wired
<1>3. Plain(w) = [i \in 1 .. Len(w) |-> w[i].pkt]
  BY <1>1 DEF Plain
<1> DEFINE x == [i \in 1 .. Len(w) |-> w[i].pkt]
<1>4. x \in Seq(Packet) /\ Len(x) = Len(w) /\ \A i \in 1 .. Len(w) : x[i] = w[i].pkt
  BY <1>1, <1>2
<1> QED BY <1>3, <1>4

\* Of two parts.
LEMMA PlainConcat ==
    ASSUME NEW w \in Seq(Wired), NEW v \in Seq(Wired)
    PROVE  Plain(w \o v) = Plain(w) \o Plain(v)
<1> DEFINE m == Len(w)
           n == Len(v)
<1>1. m \in Nat /\ n \in Nat
  BY LenProperties
<1>2. w \o v \in Seq(Wired) /\ Len(w \o v) = m + n
      /\ \A i \in 1 .. m + n : (w \o v)[i] = IF i <= m THEN w[i] ELSE v[i - m]
  BY ConcatProperties
<1>3. Plain(w) \in Seq(Packet) /\ Len(Plain(w)) = m /\ \A i \in 1 .. m : Plain(w)[i] = w[i].pkt
  BY PlainIs
<1>4. Plain(v) \in Seq(Packet) /\ Len(Plain(v)) = n /\ \A i \in 1 .. n : Plain(v)[i] = v[i].pkt
  BY PlainIs
<1>5. Plain(w \o v) \in Seq(Packet) /\ Len(Plain(w \o v)) = m + n
      /\ \A i \in 1 .. m + n : Plain(w \o v)[i] = (w \o v)[i].pkt
  BY <1>2, PlainIs
<1>6. Plain(w) \o Plain(v) \in Seq(Packet) /\ Len(Plain(w) \o Plain(v)) = m + n
      /\ \A i \in 1 .. m + n : (Plain(w) \o Plain(v))[i] = IF i <= m THEN Plain(w)[i] ELSE Plain(v)[i - m]
  <2> DEFINE x == Plain(w)
             y == Plain(v)
  <2> HIDE DEF m, n, x, y
  <2>1. x \in Seq(Packet) /\ y \in Seq(Packet) /\ Len(x) = m /\ Len(y) = n
    BY <1>3, <1>4 DEF x, y
  <2>2. x \o y \in Seq(Packet) /\ Len(x \o y) = m + n
        /\ \A i \in 1 .. m + n : (x \o y)[i] = IF i <= m THEN x[i] ELSE y[i - m]
    BY <2>1, ConcatProperties
  <2> QED BY <2>2 DEF x, y
<1> HIDE DEF m, n
<1>7. ASSUME NEW i \in 1 .. m + n PROVE Plain(w \o v)[i] = (Plain(w) \o Plain(v))[i]
  <2>1. CASE i <= m
    <3>1. i \in 1 .. m
      BY <1>1, <2>1
    <3> QED BY <1>2, <1>3, <1>5, <1>6, <2>1, <3>1
  <2>2. CASE ~(i <= m)
    <3>1. i - m \in 1 .. n
      BY <1>1, <2>2
    <3> QED BY <1>2, <1>4, <1>5, <1>6, <2>2, <3>1
  <2> QED BY <2>1, <2>2
<1> QED BY <1>5, <1>6, <1>7, SeqEqual

\* Of what is encrypted.
LEMMA EncryptedIs ==
    ASSUME NEW e, NEW q \in Seq(Packet), outkey[e] \in Nat
    PROVE  /\ Encrypted(e, q) \in Seq(Wired) /\ Plain(Encrypted(e, q)) = q /\ Len(Encrypted(e, q)) = Len(q)
           /\ \A i \in 1 .. Len(q) : Encrypted(e, q)[i].pkt = q[i] /\ Encrypted(e, q)[i].key = outkey[e]
<1> DEFINE x == Encrypted(e, q)
<1>1. Len(q) \in Nat /\ DOMAIN q = 1 .. Len(q) /\ \A i \in 1 .. Len(q) : q[i] \in Packet
  BY LenProperties, ElementOfSeq
<1>2. x = [i \in 1 .. Len(q) |-> [pkt |-> q[i], key |-> outkey[e]]]
  BY <1>1 DEF Encrypted
<1>3. \A i \in 1 .. Len(q) : [pkt |-> q[i], key |-> outkey[e]] \in Wired
  BY <1>1 DEF Wired
<1>4. x \in Seq(Wired) /\ Len(x) = Len(q)
  <2> DEFINE y == [i \in 1 .. Len(q) |-> [pkt |-> q[i], key |-> outkey[e]]]
  <2>1. y \in [1 .. Len(q) -> Wired]
    BY <1>3, Zenon
  <2>2. x \in [1 .. Len(q) -> Wired]
    BY <1>2, <2>1, Zenon
  <2> HIDE DEF x
  <2> QED BY <1>1, <2>2
<1>5. \A i \in 1 .. Len(q) : x[i].pkt = q[i] /\ x[i].key = outkey[e]
  BY <1>2
<1> HIDE DEF x
<1>6. Plain(x) = q
  BY <1>4, <1>5, PlainIs, SeqEqual
<1> QED BY <1>4, <1>5, <1>6 DEF x

\* Of the first and the others.
LEMMA PlainHead ==
    ASSUME NEW w \in Seq(Wired), w # <<>>
    PROVE  /\ Head(w) \in Wired /\ Tail(w) \in Seq(Wired) /\ Head(w).pkt \in Packet
           /\ Plain(w) = <<Head(w).pkt>> \o Plain(Tail(w))
<1>1. Head(w) \in Wired /\ Tail(w) \in Seq(Wired) /\ w = <<Head(w)>> \o Tail(w)
  BY HeadTailProperties
<1>2. <<Head(w)>> \in Seq(Wired) /\ Len(<<Head(w)>>) = 1 /\ <<Head(w)>>[1] = Head(w)
  BY <1>1
<1>3. Plain(<<Head(w)>>) \in Seq(Packet) /\ Len(Plain(<<Head(w)>>)) = 1 /\ Plain(<<Head(w)>>)[1] = Head(w).pkt
  <2> DEFINE u == <<Head(w)>>
  <2> HIDE DEF u
  <2>1. u \in Seq(Wired) /\ Len(u) = 1 /\ u[1] = Head(w) /\ 1 \in 1 .. 1
    BY <1>2 DEF u
  <2>2. Plain(u) \in Seq(Packet) /\ Len(Plain(u)) = 1 /\ Plain(u)[1] = u[1].pkt
    BY <2>1, PlainIs
  <2> QED BY <2>1, <2>2 DEF u
<1>4. Plain(<<Head(w)>>) = <<Head(w).pkt>>
  BY <1>3
<1> QED BY <1>1, <1>2, <1>4, PlainConcat DEF Wired

\* e's BPP sends the packets q, which lead to the stage d.
LEMMA SenderStep ==
    ASSUME KexInv, NEW e \in Ends, NEW q \in Seq(Packet), NEW d \in Stage,
           UNCHANGED <<in_pq, method>>, wire' = [wire EXCEPT ![e] = @ \o Encrypted(e, q)],
           out_pq'[Peer(e)] = out_pq[Peer(e)],
           \A f \in Ends : Reads(f)' = Reads(f), Sends(Peer(e))' = Sends(Peer(e)),
           \A b \in Stage : Run(All(e), b, out_pq[e], Sends(e)) => Run(All(e), b, q, d),
           Run(All(e), d, out_pq'[e], Sends(e)')
    PROVE  \A f \in Ends : Linked(f)'
<1> DEFINE p == Peer(e)
<1>1. p \in Ends /\ p # e /\ Peer(p) = e /\ \A f \in Ends : f = e \/ f = p
  BY PeerIs
<1>2. wire \in [Ends -> Seq(Wired)] /\ outkey[e] \in Nat /\ wire[e] \in Seq(Wired)
  BY DEF KexInv, TypeOK, Wired
<1>3. wire'[e] = wire[e] \o Encrypted(e, q) /\ wire'[p] = wire[p]
  BY <1>1, <1>2
<1>4. Encrypted(e, q) \in Seq(Wired) /\ Plain(Encrypted(e, q)) = q /\ Plain(wire[e]) \in Seq(Packet)
  BY <1>2, EncryptedIs, PlainIs
<1>5. Plain(wire'[e]) = Plain(wire[e]) \o q
  BY <1>2, <1>3, <1>4, PlainConcat
<1>6. All(e)' = All(e) /\ All(p)' = All(p) /\ Peer(e)' = Peer(e) /\ Peer(p)' = Peer(p)
      /\ Plain(wire[p])' = Plain(wire[p]) /\ Plain(wire[e])' = Plain(wire'[e])
  BY <1>3 DEF All
<1>7. Linked(p)'
  <2>1. PICK a, b \in Stage :
            /\ Run(All(p), Reads(e), in_pq[e], a)
            /\ Run(All(p), a, Plain(wire[p]), b)
            /\ Run(All(p), b, out_pq[p], Sends(p))
    BY <1>1 DEF KexInv, Linked
  <2> QED BY <1>1, <1>6, <2>1 DEF Linked
<1>8. Linked(e)'
  <2>1. PICK a, b \in Stage :
            /\ Run(All(e), Reads(p), in_pq[p], a)
            /\ Run(All(e), a, Plain(wire[e]), b)
            /\ Run(All(e), b, out_pq[e], Sends(e))
    BY DEF KexInv, Linked
  <2>2. Run(All(e), a, Plain(wire[e]) \o q, d)
    BY <1>4, <2>1, RunConcat
  <2>3. Run(All(e), a, Plain(wire'[e]), d)
    BY <1>5, <2>2
  <2> QED BY <1>1, <1>6, <2>1, <2>3 DEF Linked
<1> QED BY <1>1, <1>7, <1>8

\* The packets in out_pq are put on the wire.
LEMMA LinkedOutput ==
    ASSUME KexInv, NEW e \in Ends, HandleOutput(e)
    PROVE  \A f \in Ends : Linked(f)'
<1>1. /\ wire' = [wire EXCEPT ![e] = @ \o Encrypted(e, out_pq[e])] /\ out_pq' = [out_pq EXCEPT ![e] = <<>>]
      /\ UNCHANGED <<pc, kexstep, higher_layer_ok, in_pq, method>>
  BY DEF HandleOutput
<1>2. out_pq \in [Ends -> Seq(Packet)] /\ out_pq[e] \in Seq(Packet) /\ Peer(e) \in Ends /\ Peer(e) # e
      /\ Sends(e) \in Stage
  BY PeerIs, StagesAre DEF KexInv, TypeOK
<1>3. out_pq'[e] = <<>> /\ out_pq'[Peer(e)] = out_pq[Peer(e)]
  BY <1>1, <1>2
<1>4. \A f \in Ends : Reads(f)' = Reads(f) /\ Sends(f)' = Sends(f)
  BY <1>1 DEF Reads, Sends
<1>5. Run(All(e), Sends(e), out_pq'[e], Sends(e)')
  BY <1>2, <1>3, <1>4, RunNil
<1> QED BY <1>1, <1>2, <1>3, <1>4, <1>5, SenderStep

\* NEWKEYS is sent, and what the higher layer has pushed follows.
LEMMA LinkedNewkeys ==
    ASSUME KexInv, NEW e \in Ends, SendNewkeys(e)
    PROVE  \A f \in Ends : Linked(f)'
<1> DEFINE k == kexstep[e]
           m == Msg("NEWKEYS")
           q == Append(out_pq[e], m)
           d == St(IF higher_layer_ok[e] THEN "open" ELSE "service", {})
<1>1. /\ pc[e] = "kex" /\ k > Len(Exchange(method))
      /\ wire' = [wire EXCEPT ![e] = @ \o Encrypted(e, q)] /\ out_pq' = [out_pq EXCEPT ![e] = pq_out_higher[e]]
      /\ pc' = [pc EXCEPT ![e] = "newkeys"] /\ UNCHANGED <<kexstep, higher_layer_ok, in_pq, method>>
  BY DEF SendNewkeys, At, Goto
<1>2. /\ pc \in [Ends -> {"begin_key_exchange", "kexinit", "kex", "newkeys", "service", "service_wait", "idle"}]
      /\ out_pq \in [Ends -> Seq(Packet)] /\ out_pq[e] \in Seq(Packet) /\ Peer(e) \in Ends /\ Peer(e) # e
      /\ Sends(e) \in Stage /\ pq_out_higher[e] \in Seq(Packet) /\ Layered(e)
      /\ method \in Methods /\ k \in 1 .. Len(Exchange(method)) + 1
  BY PeerIs, StagesAre DEF KexInv, TypeOK
<1>3. out_pq'[e] = pq_out_higher[e] /\ out_pq'[Peer(e)] = out_pq[Peer(e)]
      /\ pc'[e] = "newkeys" /\ pc'[Peer(e)] = pc[Peer(e)]
  BY <1>1, <1>2
<1>4. Todo(method, e, k) = {} /\ Todo(method, Peer(e), k) = {}
  BY <1>1, <1>2, TodoIs
<1>5. Reads(e)' = Reads(e)
  BY <1>1, <1>3, <1>4 DEF Reads, ReadStage
<1>6. Reads(Peer(e))' = Reads(Peer(e)) /\ Sends(Peer(e))' = Sends(Peer(e))
  BY <1>1, <1>3 DEF Reads, Sends
<1>7. Sends(e) = St(IF higher_layer_ok[e] THEN "rekey" ELSE "kex", {}) /\ Sends(e)' = d
  BY <1>1, <1>3, <1>4 DEF Sends, SendStage
<1>8. d \in Stage
  BY DEF St, Stage
<1>9. m \in Packet /\ m.type = "NEWKEYS" /\ <<m>> \in Seq(Packet)
  BY DEF Msg, Packet
<1>10. q = out_pq[e] \o <<m>> /\ q \in Seq(Packet)
  BY <1>2, <1>9, AppendProperties, AppendIsConcat
<1>11. Leads(All(e), Sends(e), m.type, d)
  BY <1>7, <1>9 DEF Leads, St
<1>12. Run(All(e), Sends(e), <<m>>, d)
  BY <1>2, <1>8, <1>11, RunOne
<1> HIDE DEF q, m
<1>13. \A b \in Stage : Run(All(e), b, out_pq[e], Sends(e)) => Run(All(e), b, q, d)
  BY <1>2, <1>9, <1>10, <1>12, RunConcat
<1>14. Run(All(e), d, out_pq'[e], Sends(e)')
  <2>1. CASE higher_layer_ok[e]
    <3>1. d.at = "open"
      BY <2>1 DEF St
    <3> QED BY <1>2, <1>3, <1>7, <1>8, <3>1, RunHigher DEF Layered
  <2>2. CASE ~higher_layer_ok[e]
    <3>1. out_pq'[e] = <<>>
      BY <1>2, <1>3, <2>2 DEF Layered
    <3> QED BY <1>7, <1>8, <3>1, RunNil
  <2> QED BY <2>1, <2>2
<1>15. \A f \in Ends : Reads(f)' = Reads(f)
  BY <1>5, <1>6, PeerIs
<1> HIDE DEF d
<1> QED BY <1>1, <1>3, <1>6, <1>8, <1>10, <1>13, <1>14, <1>15, SenderStep

\* The BPP can decrypt what it takes from the wire.
LEMMA KeyIsRight ==
    ASSUME KexInv, NEW e \in Ends, ~pending_newkeys[e], wire[Peer(e)] # <<>>
    PROVE  Head(wire[Peer(e)]).key = inkey[e]
<1> DEFINE w == wire[Peer(e)]
<1>1. Peer(e) \in Ends /\ Peer(Peer(e)) = e
  BY PeerIs
<1>2. w \in Seq(Wired) /\ KeyAt(w, outkey[Peer(e)], 0) = Incoming(e) /\ inkey[e] \in Nat
  BY <1>1 DEF KexInv, TypeOK, Wired, Keyed
<1>3. Incoming(e) = inkey[e]
  BY <1>2 DEF Incoming
<1> HIDE DEF w
<1>4. 0 < Len(w) /\ Head(w) = w[0 + 1]
  BY <1>2 DEF w
<1> QED BY <1>2, <1>3, <1>4 DEF KeyAt, w

\* A packet moves from the wire to in_pq.
LEMMA LinkedInput ==
    ASSUME KexInv, NEW e \in Ends, HandleInput(e)
    PROVE  \A f \in Ends : Linked(f)'
<1> DEFINE p == Peer(e)
           w == wire[p]
           m == Head(w).pkt
<1>1. p \in Ends /\ p # e /\ Peer(p) = e /\ \A f \in Ends : f = e \/ f = p
  BY PeerIs
<1>2. w # <<>> /\ Head(w).key = inkey[e]
  BY KeyIsRight DEF HandleInput
<1>3. /\ wire' = [wire EXCEPT ![p] = Tail(@)] /\ in_pq' = [in_pq EXCEPT ![e] = Append(@, m)]
      /\ UNCHANGED <<pc, kexstep, higher_layer_ok, out_pq, method>>
  BY <1>2 DEF HandleInput
<1>4. wire \in [Ends -> Seq(Wired)] /\ w \in Seq(Wired) /\ in_pq \in [Ends -> Seq(Packet)] /\ in_pq[e] \in Seq(Packet)
  BY <1>1 DEF KexInv, TypeOK, Wired
<1>5. wire'[p] = Tail(w) /\ wire'[e] = wire[e] /\ in_pq'[e] = Append(in_pq[e], m) /\ in_pq'[p] = in_pq[p]
  BY <1>1, <1>3, <1>4
<1>6. m \in Packet /\ Plain(w) = <<m>> \o Plain(Tail(w)) /\ Tail(w) \in Seq(Wired)
  BY <1>2, <1>4, PlainHead
<1> HIDE DEF m
<1>7. Plain(Tail(w)) \in Seq(Packet) /\ <<m>> \in Seq(Packet) /\ Append(in_pq[e], m) = in_pq[e] \o <<m>>
  <2>1. Plain(Tail(w)) \in Seq(Packet)
    BY <1>6, PlainIs
  <2>2. <<m>> \in Seq(Packet)
    BY <1>6
  <2>3. Append(in_pq[e], m) = in_pq[e] \o <<m>>
    BY <1>4, <1>6, AppendIsConcat
  <2> QED BY <2>1, <2>2, <2>3
<1>8. \A f \in Ends : Reads(f)' = Reads(f) /\ Sends(f)' = Sends(f) /\ All(f)' = All(f) /\ Peer(f)' = Peer(f)
  BY <1>3 DEF Reads, Sends, All
<1>9. Plain(wire[e])' = Plain(wire[e]) /\ Plain(wire[p])' = Plain(Tail(w))
  BY <1>5 DEF Plain
<1>10. Linked(e)'
  <2>1. PICK a, b \in Stage :
            /\ Run(All(e), Reads(p), in_pq[p], a)
            /\ Run(All(e), a, Plain(wire[e]), b)
            /\ Run(All(e), b, out_pq[e], Sends(e))
    BY DEF KexInv, Linked
  <2> QED BY <1>1, <1>3, <1>5, <1>8, <1>9, <2>1 DEF Linked
<1>11. Linked(p)'
  <2>1. PICK a, b \in Stage :
            /\ Run(All(p), Reads(e), in_pq[e], a)
            /\ Run(All(p), a, Plain(w), b)
            /\ Run(All(p), b, out_pq[p], Sends(p))
    BY <1>1 DEF KexInv, Linked
  <2> HIDE DEF p, w
  <2>2. Run(All(p), a, <<m>> \o Plain(Tail(w)), b)
    BY <1>6, <2>1
  <2>3. PICK c \in Stage : Run(All(p), a, <<m>>, c) /\ Run(All(p), c, Plain(Tail(w)), b)
    BY <1>7, <2>2, RunSplit
  <2>4. Run(All(p), Reads(e), in_pq[e] \o <<m>>, c)
    BY <1>4, <1>7, <2>1, <2>3, RunConcat
  <2> QED BY <1>1, <1>3, <1>5, <1>7, <1>8, <1>9, <2>1, <2>3, <2>4 DEF Linked
<1> QED BY <1>1, <1>10, <1>11

\* What is under way stays linked.
LEMMA LinkedNext ==
    ASSUME KexInv, Next
    PROVE  \A f \in Ends : Linked(f)'
<1>1. PICK e \in Ends : \/ CallProcessQueue(e)
                        \/ Coroutine(e)
                        \/ HigherLayerSend(e)
                        \/ WantRekey(e)
                        \/ HandleOutput(e)
                        \/ HandleInput(e)
  BY DEF Next
<1>2. CASE Coroutine(e)
  <2> USE DEF Coroutine
  <2>1. CASE Wait(e) \/ BeginKeyExchange(e) \/ RecvKexinit(e) \/ KexSend(e) \/ KexRecv(e)
    BY <2>1, LinkedWait, LinkedBegin, LinkedRecvKexinit, LinkedKexSend, LinkedKexRecv
  <2>2. CASE SendNewkeys(e) \/ RecvNewkeys(e) \/ RequestService(e) \/ StartHigherLayer(e) \/ Idle(e)
    BY <2>2, LinkedNewkeys, LinkedRecvNewkeys, LinkedRequest, LinkedStart, LinkedIdle
  <2> QED BY <1>2, <2>1, <2>2
<1> QED BY <1>1, <1>2, LinkedCall, LinkedUser, LinkedOutput, LinkedInput
-----------------------------------------------------------------------------
(* The keys. *)

\* Packets x are encrypted under k, and k changes if the last is NEWKEYS.
LEMMA KeyedAppend ==
    ASSUME NEW w \in Seq(Wired), NEW now, NEW k \in Nat, NEW j, Keyed(w, now, k),
           NEW x \in Seq(Wired), NEW last \in BOOLEAN, last => x # <<>>,
           \A i \in 1 .. Len(x) : x[i].key = k /\ (x[i].pkt.type = "NEWKEYS" <=> i = Len(x) /\ last),
           j = k + (IF last THEN 1 ELSE 0)
    PROVE  Keyed(w \o x, now, j)
<1> DEFINE m == Len(w)
           n == Len(x)
           v == w \o x
           inc(p) == IF p.pkt.type = "NEWKEYS" THEN 1 ELSE 0
<1>1. m \in Nat /\ n \in Nat /\ (last => n > 0)
  BY LenProperties, EmptySeq
<1>2. Len(v) = m + n /\ \A i \in 1 .. m + n : v[i] = IF i <= m THEN w[i] ELSE x[i - m]
  BY ConcatProperties
<1>3. KeyAt(w, k, 0) = now /\ \A i \in 1 .. m : KeyAt(w, k, i) = KeyAt(w, k, i - 1) + inc(w[i])
  BY DEF Keyed
<1>4. \A i \in 1 .. n : x[i].key = k /\ (x[i].pkt.type = "NEWKEYS" <=> i = n /\ last)
  OBVIOUS
<1> HIDE DEF m, n, v, inc
<1>5. ASSUME NEW i \in 0 .. m + n
      PROVE  KeyAt(v, j, i) = IF i <= m THEN KeyAt(w, k, i) ELSE IF i < m + n THEN k ELSE j
  <2>1. CASE i < m
    <3>1. i + 1 \in 1 .. m + n /\ i + 1 <= m /\ i < Len(v) /\ i <= m
      BY <1>1, <1>2, <2>1
    <3>2. v[i + 1] = w[i + 1]
      BY <1>2, <3>1
    <3> QED BY <2>1, <3>1, <3>2 DEF KeyAt, m
  <2>2. CASE i >= m /\ i < m + n
    <3>1. i + 1 \in 1 .. m + n /\ ~(i + 1 <= m) /\ i < Len(v) /\ (i + 1) - m \in 1 .. n /\ ~(i < m)
      BY <1>1, <1>2, <2>2
    <3>2. v[i + 1] = x[(i + 1) - m]
      BY <1>2, <3>1
    <3>3. KeyAt(v, j, i) = k /\ KeyAt(w, k, i) = k
      BY <1>4, <3>1, <3>2 DEF KeyAt, m
    <3> QED BY <2>2, <3>3
  <2>3. CASE i = m + n
    <3>1. ~(i < Len(v)) /\ ~(i < m) /\ (i <= m => n = 0 /\ ~last)
      BY <1>1, <1>2, <2>3
    <3>2. KeyAt(v, j, i) = j /\ KeyAt(w, k, i) = k
      BY <3>1 DEF KeyAt, m
    <3>3. i <= m => j = k
      BY <3>1
    <3> QED BY <2>3, <3>1, <3>2, <3>3
  <2> QED BY <1>1, <2>1, <2>2, <2>3
<1>6. KeyAt(v, j, 0) = now
  BY <1>1, <1>3, <1>5
<1>7. ASSUME NEW i \in 1 .. m + n PROVE KeyAt(v, j, i) = KeyAt(v, j, i - 1) + inc(v[i])
  <2>0. i \in 0 .. m + n /\ i - 1 \in 0 .. m + n
    BY <1>1
  <2>1. CASE i <= m
    <3>1. KeyAt(v, j, i) = KeyAt(w, k, i) /\ KeyAt(v, j, i - 1) = KeyAt(w, k, i - 1) /\ v[i] = w[i] /\ i \in 1 .. m
      BY <1>1, <1>2, <1>5, <2>0, <2>1
    <3> QED BY <1>3, <3>1
  <2>2. CASE i > m
    <3>0. i - m \in 1 .. n /\ ~(i <= m) /\ (i - m = n <=> i = m + n) /\ i - 1 < m + n
      BY <1>1, <2>2
    <3>1. v[i] = x[i - m] /\ (x[i - m].pkt.type = "NEWKEYS" <=> i = m + n /\ last)
      BY <1>2, <1>4, <3>0
    <3>2. KeyAt(v, j, i - 1) = k
      <4>1. CASE i - 1 <= m
        <5>1. i - 1 = m
          BY <1>1, <2>2, <4>1
        <5>2. KeyAt(w, k, m) = k
          BY <1>1 DEF KeyAt, m
        <5> QED BY <1>5, <2>0, <4>1, <5>1, <5>2
      <4>2. CASE ~(i - 1 <= m)
        BY <1>5, <2>0, <3>0, <4>2
      <4> QED BY <4>1, <4>2
    <3>3. KeyAt(v, j, i) = IF i < m + n THEN k ELSE j
      BY <1>5, <2>0, <3>0
    <3>4. i < m + n \/ i = m + n
      BY <1>1
    <3>5. inc(v[i]) = IF i = m + n /\ last THEN 1 ELSE 0
      BY <3>1 DEF inc
    <3> QED BY <1>1, <3>2, <3>3, <3>4, <3>5
  <2> QED BY <1>1, <2>1, <2>2
<1> QED BY <1>2, <1>6, <1>7 DEF Keyed, v, inc

\* The first packet is taken off.
LEMMA KeyedTail ==
    ASSUME NEW w \in Seq(Wired), w # <<>>, NEW now, NEW k \in Nat, Keyed(w, now, k)
    PROVE  Keyed(Tail(w), now + (IF Head(w).pkt.type = "NEWKEYS" THEN 1 ELSE 0), k)
<1> DEFINE m == Len(w)
           v == Tail(w)
           inc(p) == IF p.pkt.type = "NEWKEYS" THEN 1 ELSE 0
<1>1. m \in Nat \ {0} /\ v \in Seq(Wired) /\ Len(v) = m - 1 /\ (\A i \in 1 .. m - 1 : v[i] = w[i + 1]) /\ Head(w) = w[1]
  BY HeadTailProperties, EmptySeq
<1>2. KeyAt(w, k, 0) = now /\ \A i \in 1 .. m : KeyAt(w, k, i) = KeyAt(w, k, i - 1) + inc(w[i])
  BY DEF Keyed
<1> HIDE DEF m, v, inc
<1>3. ASSUME NEW i \in 0 .. m - 1 PROVE KeyAt(v, k, i) = KeyAt(w, k, i + 1)
  <2>1. CASE i < m - 1
    <3>1. i < Len(v) /\ i + 1 < m /\ i + 1 \in 1 .. m - 1
      BY <1>1, <2>1
    <3>2. v[i + 1] = w[(i + 1) + 1]
      BY <1>1, <3>1
    <3> QED BY <3>1, <3>2 DEF KeyAt, m
  <2>2. CASE i = m - 1
    <3>1. ~(i < Len(v)) /\ ~(i + 1 < m)
      BY <1>1, <2>2
    <3> QED BY <3>1 DEF KeyAt, m
  <2> QED BY <1>1, <2>1, <2>2
<1>4. KeyAt(v, k, 0) = now + inc(w[1])
  <2>1. KeyAt(w, k, 1) = KeyAt(w, k, 1 - 1) + inc(w[1]) /\ 1 - 1 = 0 /\ 0 \in 0 .. m - 1 /\ 0 + 1 = 1
    BY <1>1, <1>2
  <2> QED BY <1>2, <1>3, <2>1
<1>5. ASSUME NEW i \in 1 .. m - 1 PROVE KeyAt(v, k, i) = KeyAt(v, k, i - 1) + inc(v[i])
  <2>1. i \in 0 .. m - 1 /\ i - 1 \in 0 .. m - 1 /\ i + 1 \in 1 .. m /\ (i - 1) + 1 = i /\ (i + 1) - 1 = i
    BY <1>1
  <2>2. KeyAt(v, k, i) = KeyAt(w, k, i + 1) /\ KeyAt(v, k, i - 1) = KeyAt(w, k, i) /\ v[i] = w[i + 1]
    BY <1>1, <1>3, <2>1
  <2>3. KeyAt(w, k, i + 1) = KeyAt(w, k, i) + inc(w[i + 1])
    BY <1>2, <2>1
  <2> QED BY <2>2, <2>3
<1> QED BY <1>1, <1>4, <1>5 DEF Keyed, v, inc
-----------------------------------------------------------------------------
(* Types, and no faults. *)

\* What the actions put in the queues.
LEMMA QueuesAre ==
    ASSUME KexInv, NEW e \in Ends
    PROVE  /\ Rest(e) \in Seq(Packet)
           /\ Rest(e) # <<>> => Tail(Rest(e)) \in Seq(Packet)
           /\ higher[e] \o Filtered(e) \in Seq(Nat)
           /\ out_pq[e] \o pq_out_higher[e] \in Seq(Packet)
           /\ \A type \in {"KEXINIT", "KEX", "NEWKEYS", "SERVICE"} :
                  /\ Append(out_pq[e], Msg(type)) \in Seq(Packet)
                  /\ wire[e] \o Encrypted(e, Append(out_pq[e], Msg(type))) \in Seq([pkt : Packet, key : Nat])
           /\ wire[e] \o Encrypted(e, out_pq[e]) \in Seq([pkt : Packet, key : Nat])
           /\ Append(pq_out_higher[e], [type |-> "higher", n |-> sent[e] + 1]) \in Seq(Packet)
<1>1. /\ in_pq[e] \in Seq(Packet) /\ out_pq[e] \in Seq(Packet) /\ pq_out_higher[e] \in Seq(Packet)
      /\ higher[e] \in Seq(Nat) /\ sent[e] \in Nat /\ outkey[e] \in Nat /\ wire[e] \in Seq(Wired)
  BY DEF KexInv, TypeOK, Wired
<1>2. PICK h \in Seq(Packet) : Rest(e) \in Seq(Packet) /\ Filtered(e) = [i \in 1 .. Len(h) |-> h[i].n]
  BY <1>1, RestIs
<1>3. Filtered(e) \in Seq(Nat)
  <2>1. Len(h) \in Nat /\ \A i \in 1 .. Len(h) : h[i] \in Packet
    BY LenProperties, ElementOfSeq
  <2>2. \A i \in 1 .. Len(h) : h[i].n \in Nat
    BY <2>1 DEF Packet
  <2> QED BY <1>2, <2>1, <2>2
<1>4. higher[e] \o Filtered(e) \in Seq(Nat)
  BY <1>1, <1>3, ConcatProperties
<1>5. Rest(e) # <<>> => Tail(Rest(e)) \in Seq(Packet)
  BY <1>2, HeadTailProperties
<1>6. out_pq[e] \o pq_out_higher[e] \in Seq(Packet)
  BY <1>1, ConcatProperties
<1>7. ASSUME NEW type \in {"KEXINIT", "KEX", "NEWKEYS", "SERVICE"}
      PROVE  /\ Append(out_pq[e], Msg(type)) \in Seq(Packet)
             /\ wire[e] \o Encrypted(e, Append(out_pq[e], Msg(type))) \in Seq(Wired)
  <2>1. Msg(type) \in Packet
    BY DEF Msg, Packet
  <2>2. Append(out_pq[e], Msg(type)) \in Seq(Packet)
    BY <1>1, <2>1, AppendProperties
  <2>3. Encrypted(e, Append(out_pq[e], Msg(type))) \in Seq(Wired)
    BY <1>1, <2>2, EncryptedIs
  <2> QED BY <1>1, <2>2, <2>3, ConcatProperties
<1>8. wire[e] \o Encrypted(e, out_pq[e]) \in Seq(Wired)
  <2>1. Encrypted(e, out_pq[e]) \in Seq(Wired)
    BY <1>1, EncryptedIs
  <2> QED BY <1>1, <2>1, ConcatProperties
<1>9. Append(pq_out_higher[e], [type |-> "higher", n |-> sent[e] + 1]) \in Seq(Packet)
  <2>1. [type |-> "higher", n |-> sent[e] + 1] \in Packet
    BY <1>1 DEF Packet
  <2> QED BY <1>1, <2>1, AppendProperties
<1> QED BY <1>2, <1>4, <1>5, <1>6, <1>7, <1>8, <1>9 DEF Wired

\* The places and the rest, without the queues.
LEMMA TypeOfPop ==
    ASSUME KexInv, NEW e \in Ends, NEW type, NEW Proceed, Pop(e, type, Proceed), Head(Rest(e)).type = type
    PROVE  /\ Proceed /\ Rest(e) # <<>>
           /\ higher' = [higher EXCEPT ![e] = @ \o Filtered(e)] /\ in_pq' = [in_pq EXCEPT ![e] = Tail(Rest(e))]
           /\ higher' \in [Ends -> Seq(Nat)] /\ in_pq' \in [Ends -> Seq(Packet)]
<1>1. ~Premature(e)
  BY NextIs
<1>2. /\ Proceed /\ Rest(e) # <<>>
      /\ higher' = [higher EXCEPT ![e] = @ \o Filtered(e)] /\ in_pq' = [in_pq EXCEPT ![e] = Tail(Rest(e))]
  BY <1>1 DEF Pop, NothingToPop
<1>3. Tail(Rest(e)) \in Seq(Packet) /\ higher[e] \o Filtered(e) \in Seq(Nat)
      /\ higher \in [Ends -> Seq(Nat)] /\ in_pq \in [Ends -> Seq(Packet)]
  BY <1>2, QueuesAre DEF KexInv, TypeOK
<1> QED BY <1>2, <1>3

\* The parts of TypeOK.
ControlOK ==
    /\ pc \in [Ends -> {"begin_key_exchange", "kexinit", "kex", "newkeys", "service",
                         "service_wait", "idle"}]
    /\ running \in [Ends -> BOOLEAN]
    /\ scheduled \in [Ends -> BOOLEAN]
    /\ kex_in_progress \in [Ends -> BOOLEAN]
    /\ rekey_class \in [Ends -> BOOLEAN]
    /\ deferred_rekey \in [Ends -> BOOLEAN]
    /\ higher_layer_ok \in [Ends -> BOOLEAN]
    /\ pending_newkeys \in [Ends -> BOOLEAN]
    /\ method \in Methods
    /\ fault = FALSE

NumbersOK ==
    /\ kexstep \in [Ends -> 1 .. Len(Exchange(method)) + 1]
    /\ outkey \in [Ends -> Nat]
    /\ inkey \in [Ends -> Nat]
    /\ sent \in [Ends -> Nat]
    /\ rekeys \in [Ends -> 0 .. MaxRekeys]

QueuesOK ==
    /\ in_pq \in [Ends -> Seq(Packet)]
    /\ out_pq \in [Ends -> Seq(Packet)]
    /\ pq_out_higher \in [Ends -> Seq(Packet)]
    /\ wire \in [Ends -> Seq([pkt : Packet, key : Nat])]
    /\ higher \in [Ends -> Seq(Nat)]

\* The types are kept.
LEMMA TypeNext ==
    ASSUME KexInv, Next
    PROVE  TypeOK' /\ ~fault'
<1> SUFFICES ControlOK' /\ NumbersOK' /\ QueuesOK'
  BY DEF TypeOK, ControlOK, NumbersOK, QueuesOK
<1>1. PICK e \in Ends : \/ CallProcessQueue(e)
                        \/ Coroutine(e)
                        \/ HigherLayerSend(e)
                        \/ WantRekey(e)
                        \/ HandleOutput(e)
                        \/ HandleInput(e)
  BY DEF Next
<1>2. ControlOK /\ NumbersOK /\ QueuesOK /\ ~Premature(e) /\ Peer(e) \in Ends /\ Len(Exchange(method)) \in Nat
  BY NextIs, PeerIs, ExchangeIs DEF KexInv, TypeOK, ControlOK, NumbersOK, QueuesOK
<1>3. CASE CallProcessQueue(e)
  <2>1. Rest(e) \in Seq(Packet) /\ higher[e] \o Filtered(e) \in Seq(Nat)
    BY QueuesAre
  <2>6. ControlOK'
    BY <1>2, <1>3, <2>1 DEF CallProcessQueue, bpp, user, ControlOK
  <2>7. NumbersOK'
    BY <1>2, <1>3, <2>1 DEF CallProcessQueue, bpp, user, NumbersOK
  <2>8. QueuesOK'
    BY <1>2, <1>3, <2>1 DEF CallProcessQueue, bpp, user, QueuesOK
  <2> QED BY <2>6, <2>7, <2>8
<1>4. CASE Wait(e)
  <2>1. higher[e] \o Filtered(e) \in Seq(Nat)
    BY QueuesAre
  <2>6. ControlOK'
    BY <1>2, <1>4, <2>1 DEF Wait, bpp, user, ControlOK
  <2>7. NumbersOK'
    BY <1>2, <1>4, <2>1 DEF Wait, bpp, user, NumbersOK
  <2>8. QueuesOK'
    <3>1. higher' = [higher EXCEPT ![e] = @ \o Filtered(e)] /\ in_pq' = [in_pq EXCEPT ![e] = <<>>]
          /\ UNCHANGED <<out_pq, pq_out_higher, wire>>
      BY <1>4 DEF Wait, bpp
    <3>2. <<>> \in Seq(Packet)
      OBVIOUS
    <3> QED BY <1>2, <3>1, <3>2, <2>1 DEF QueuesOK
  <2> QED BY <2>6, <2>7, <2>8
<1>5. CASE BeginKeyExchange(e)
  <2>1. Append(out_pq[e], Msg("KEXINIT")) \in Seq(Packet)
    BY QueuesAre
  <2>6. ControlOK'
    BY <1>2, <1>5, <2>1 DEF BeginKeyExchange, Push, Goto, bpp, user, ControlOK
  <2>7. NumbersOK'
    BY <1>2, <1>5, <2>1 DEF BeginKeyExchange, Push, Goto, bpp, user, NumbersOK
  <2>8. QueuesOK'
    BY <1>2, <1>5, <2>1 DEF BeginKeyExchange, Push, Goto, bpp, user, QueuesOK
  <2> QED BY <2>6, <2>7, <2>8
<1>6. CASE RecvKexinit(e)
  <2>1. Rest(e) # <<>> /\ Head(Rest(e)).type = "KEXINIT"
    BY <1>2, <1>6, NextIs DEF RecvKexinit, At, Pop, NothingToPop
  <2>2. higher' \in [Ends -> Seq(Nat)] /\ in_pq' \in [Ends -> Seq(Packet)]
    BY <1>6, <2>1, TypeOfPop DEF RecvKexinit
  <2>6. ControlOK'
    BY <1>2, <1>6, <2>1, <2>2 DEF RecvKexinit, Pop, Goto, bpp, user, ControlOK
  <2>7. NumbersOK'
    <3>1. kexstep' = [kexstep EXCEPT ![e] = 1] /\ UNCHANGED <<outkey, inkey, sent, rekeys, method>>
      BY <1>2, <1>6, <2>1 DEF RecvKexinit, Pop, bpp, user
    <3> QED BY <1>2, <3>1 DEF NumbersOK
  <2>8. QueuesOK'
    BY <1>2, <1>6, <2>1, <2>2 DEF RecvKexinit, Pop, Goto, bpp, user, QueuesOK
  <2> QED BY <2>6, <2>7, <2>8
<1>7. CASE KexSend(e)
  <2>1. Append(out_pq[e], Msg("KEX")) \in Seq(Packet)
    BY QueuesAre
  <2>6. ControlOK'
    BY <1>2, <1>7, <2>1 DEF KexSend, Push, bpp, user, ControlOK
  <2>7. NumbersOK'
    <3>1. kexstep' = [kexstep EXCEPT ![e] = @ + 1] /\ kexstep[e] <= Len(Exchange(method)) /\ UNCHANGED <<outkey, inkey, sent, rekeys, method>>
      BY <1>7 DEF KexSend, bpp, user
    <3> QED BY <1>2, <3>1 DEF NumbersOK
  <2>8. QueuesOK'
    BY <1>2, <1>7, <2>1 DEF KexSend, Push, bpp, user, QueuesOK
  <2> QED BY <2>6, <2>7, <2>8
<1>8. CASE KexRecv(e)
  <2>1. Rest(e) # <<>> /\ Head(Rest(e)).type = "KEX"
    BY <1>2, <1>8, NextIs DEF KexRecv, At, Pop, NothingToPop
  <2>2. higher' \in [Ends -> Seq(Nat)] /\ in_pq' \in [Ends -> Seq(Packet)]
    BY <1>8, <2>1, TypeOfPop DEF KexRecv
  <2>6. ControlOK'
    BY <1>2, <1>8, <2>1, <2>2 DEF KexRecv, Pop, bpp, user, ControlOK
  <2>7. NumbersOK'
    <3>1. kexstep' = [kexstep EXCEPT ![e] = @ + 1] /\ kexstep[e] <= Len(Exchange(method)) /\ UNCHANGED <<outkey, inkey, sent, rekeys, method>>
      BY <1>2, <1>8, <2>1 DEF KexRecv, Pop, bpp, user
    <3> QED BY <1>2, <3>1 DEF NumbersOK
  <2>8. QueuesOK'
    BY <1>2, <1>8, <2>1, <2>2 DEF KexRecv, Pop, bpp, user, QueuesOK
  <2> QED BY <2>6, <2>7, <2>8
<1>9. CASE SendNewkeys(e)
  <2>1. wire[e] \o Encrypted(e, Append(out_pq[e], Msg("NEWKEYS"))) \in Seq([pkt : Packet, key : Nat])
    BY QueuesAre
  <2>6. ControlOK'
    BY <1>2, <1>9, <2>1 DEF SendNewkeys, Goto, user, ControlOK
  <2>7. NumbersOK'
    <3>1. outkey' = [outkey EXCEPT ![e] = @ + 1] /\ UNCHANGED <<kexstep, inkey, sent, rekeys, method>>
      BY <1>9 DEF SendNewkeys, user
    <3> QED BY <1>2, <3>1 DEF NumbersOK
  <2>8. QueuesOK'
    <3>1. /\ wire' = [wire EXCEPT ![e] = @ \o Encrypted(e, Append(out_pq[e], Msg("NEWKEYS")))]
          /\ out_pq' = [out_pq EXCEPT ![e] = pq_out_higher[e]] /\ pq_out_higher' = [pq_out_higher EXCEPT ![e] = <<>>]
          /\ UNCHANGED <<in_pq, higher>>
      BY <1>9 DEF SendNewkeys
    <3>2. <<>> \in Seq(Packet)
      OBVIOUS
    <3> QED BY <1>2, <3>1, <3>2, <2>1 DEF QueuesOK
  <2> QED BY <2>6, <2>7, <2>8
<1>10. CASE RecvNewkeys(e)
  <2>1. Rest(e) # <<>> /\ Head(Rest(e)).type = "NEWKEYS"
    BY <1>2, <1>10, NextIs DEF RecvNewkeys, At, Pop, NothingToPop
  <2>2. higher' \in [Ends -> Seq(Nat)] /\ in_pq' \in [Ends -> Seq(Packet)]
    BY <1>10, <2>1, TypeOfPop DEF RecvNewkeys
  <2>6. ControlOK'
    BY <1>2, <1>10, <2>1, <2>2 DEF RecvNewkeys, Pop, Goto, user, ControlOK
  <2>7. NumbersOK'
    <3>1. inkey' = [inkey EXCEPT ![e] = @ + 1] /\ UNCHANGED <<kexstep, outkey, sent, rekeys, method>>
      BY <1>2, <1>10, <2>1 DEF RecvNewkeys, Pop, user
    <3> QED BY <1>2, <3>1 DEF NumbersOK
  <2>8. QueuesOK'
    BY <1>2, <1>10, <2>1, <2>2 DEF RecvNewkeys, Pop, Goto, user, QueuesOK
  <2> QED BY <2>6, <2>7, <2>8
<1>11. CASE RequestService(e)
  <2>1. Append(out_pq[e], Msg("SERVICE")) \in Seq(Packet)
    BY QueuesAre
  <2>6. ControlOK'
    BY <1>2, <1>11, <2>1 DEF RequestService, Push, Goto, bpp, user, ControlOK
  <2>7. NumbersOK'
    BY <1>2, <1>11, <2>1 DEF RequestService, Push, Goto, bpp, user, NumbersOK
  <2>8. QueuesOK'
    BY <1>2, <1>11, <2>1 DEF RequestService, Push, Goto, bpp, user, QueuesOK
  <2> QED BY <2>6, <2>7, <2>8
<1>12. CASE StartHigherLayer(e)
  <2>1. Rest(e) # <<>> /\ Head(Rest(e)).type = "SERVICE"
    BY <1>2, <1>12, NextIs DEF StartHigherLayer, At, Pop, NothingToPop
  <2>2. higher' \in [Ends -> Seq(Nat)] /\ in_pq' \in [Ends -> Seq(Packet)]
    BY <1>12, <2>1, TypeOfPop DEF StartHigherLayer
  <2>3. Append(out_pq[e], Msg("SERVICE")) \in Seq(Packet)
    BY QueuesAre
  <2>6. ControlOK'
    BY <1>2, <1>12, <2>1, <2>2, <2>3 DEF StartHigherLayer, Pop, Push, Goto, bpp, user, ControlOK
  <2>7. NumbersOK'
    BY <1>2, <1>12, <2>1, <2>2, <2>3 DEF StartHigherLayer, Pop, Push, Goto, bpp, user, NumbersOK
  <2>8. QueuesOK'
    BY <1>2, <1>12, <2>1, <2>2, <2>3 DEF StartHigherLayer, Pop, Push, Goto, bpp, user, QueuesOK
  <2> QED BY <2>6, <2>7, <2>8
<1>13. CASE Idle(e)
  <2>1. ~(Rest(e) # <<>> /\ Head(Rest(e)).type # "KEXINIT")
    BY <1>13, NextIs DEF Idle, At
  <2>2. Rest(e) \in Seq(Packet) /\ higher[e] \o Filtered(e) \in Seq(Nat) /\ out_pq[e] \o pq_out_higher[e] \in Seq(Packet)
    BY QueuesAre
  <2>6. ControlOK'
    BY <1>2, <1>13, <2>1, <2>2 DEF Idle, Goto, bpp, user, ControlOK
  <2>7. NumbersOK'
    BY <1>2, <1>13, <2>1, <2>2 DEF Idle, Goto, bpp, user, NumbersOK
  <2>8. QueuesOK'
    <3>1. /\ higher' = [higher EXCEPT ![e] = @ \o Filtered(e)] /\ in_pq' = [in_pq EXCEPT ![e] = Rest(e)]
          /\ out_pq' = [out_pq EXCEPT ![e] = @ \o pq_out_higher[e]] /\ pq_out_higher' = [pq_out_higher EXCEPT ![e] = <<>>]
          /\ UNCHANGED wire
      BY <1>13, <2>1 DEF Idle, bpp
    <3>2. <<>> \in Seq(Packet)
      OBVIOUS
    <3> QED BY <1>2, <3>1, <3>2, <2>2 DEF QueuesOK
  <2> QED BY <2>6, <2>7, <2>8
<1>14. CASE HigherLayerSend(e)
  <2>1. Append(pq_out_higher[e], [type |-> "higher", n |-> sent[e] + 1]) \in Seq(Packet)
    BY QueuesAre
  <2>6. ControlOK'
    BY <1>2, <1>14, <2>1 DEF HigherLayerSend, bpp, ControlOK
  <2>7. NumbersOK'
    <3>1. sent' = [sent EXCEPT ![e] = @ + 1] /\ UNCHANGED <<kexstep, outkey, inkey, rekeys, method>>
      BY <1>14 DEF HigherLayerSend, bpp
    <3> QED BY <1>2, <3>1 DEF NumbersOK
  <2>8. QueuesOK'
    BY <1>2, <1>14, <2>1 DEF HigherLayerSend, bpp, QueuesOK
  <2> QED BY <2>6, <2>7, <2>8
<1>15. CASE WantRekey(e)
  <2>1. MaxRekeys \in Nat
    BY ParamAssumption
  <2>6. ControlOK'
    BY <1>2, <1>15, <2>1 DEF WantRekey, queues, bpp, ControlOK
  <2>7. NumbersOK'
    BY <1>2, <1>15, <2>1 DEF WantRekey, queues, bpp, NumbersOK
  <2>8. QueuesOK'
    BY <1>2, <1>15, <2>1 DEF WantRekey, queues, bpp, QueuesOK
  <2> QED BY <2>6, <2>7, <2>8
<1>16. CASE HandleOutput(e)
  <2>1. wire[e] \o Encrypted(e, out_pq[e]) \in Seq([pkt : Packet, key : Nat])
    BY QueuesAre
  <2>6. ControlOK'
    BY <1>2, <1>16, <2>1 DEF HandleOutput, user, ControlOK
  <2>7. NumbersOK'
    BY <1>2, <1>16, <2>1 DEF HandleOutput, user, NumbersOK
  <2>8. QueuesOK'
    <3>1. /\ wire' = [wire EXCEPT ![e] = @ \o Encrypted(e, out_pq[e])] /\ out_pq' = [out_pq EXCEPT ![e] = <<>>]
          /\ UNCHANGED <<in_pq, pq_out_higher, higher>>
      BY <1>16 DEF HandleOutput
    <3>2. <<>> \in Seq(Packet)
      OBVIOUS
    <3> QED BY <1>2, <3>1, <3>2, <2>1 DEF QueuesOK
  <2> QED BY <2>6, <2>7, <2>8
<1>17. CASE HandleInput(e)
  <2>1. wire[Peer(e)] \in Seq(Wired) /\ wire[Peer(e)] # <<>>
    BY <1>2, <1>17 DEF QueuesOK, HandleInput, Wired
  <2>2. Tail(wire[Peer(e)]) \in Seq([pkt : Packet, key : Nat]) /\ Head(wire[Peer(e)]).pkt \in Packet
    BY <2>1, PlainHead DEF Wired
  <2>3. Head(wire[Peer(e)]).key = inkey[e]
    BY <1>17, KeyIsRight DEF HandleInput
  <2>4. in_pq[e] \in Seq(Packet)
    BY <1>2 DEF QueuesOK
  <2>5. Append(in_pq[e], Head(wire[Peer(e)]).pkt) \in Seq(Packet)
    BY <2>2, <2>4, AppendProperties
  <2>6. ControlOK'
    BY <1>2, <1>17, <2>2, <2>3, <2>5 DEF HandleInput, user, ControlOK
  <2>7. NumbersOK'
    BY <1>2, <1>17, <2>2, <2>3, <2>5 DEF HandleInput, user, NumbersOK
  <2>8. QueuesOK'
    BY <1>2, <1>17, <2>2, <2>3, <2>5 DEF HandleInput, user, QueuesOK
  <2> QED BY <2>6, <2>7, <2>8
<1> QED BY <1>1, <1>3, <1>4, <1>5, <1>6, <1>7, <1>8, <1>9, <1>10, <1>11, <1>12, <1>13, <1>14, <1>15, <1>16, <1>17 DEF Coroutine
-----------------------------------------------------------------------------
(* What the steps of an end do to the queues. *)

OwnStep(e) ==
    \/ CallProcessQueue(e)
    \/ Coroutine(e)
    \/ HigherLayerSend(e)
    \/ WantRekey(e)
    \/ HandleOutput(e)

\* What is read is filtered, and one packet is popped or none.
LEMMA ReadingIs ==
    ASSUME KexInv, NEW e \in Ends, OwnStep(e)
    PROVE  \/ UNCHANGED <<in_pq, higher>>
           \/ /\ higher' = [higher EXCEPT ![e] = @ \o Filtered(e)]
              /\ \/ in_pq' = [in_pq EXCEPT ![e] = Rest(e)]
                 \/ Rest(e) # <<>> /\ in_pq' = [in_pq EXCEPT ![e] = Tail(Rest(e))]
<1>1. ~Premature(e)
  BY NextIs
<1>2. CASE CallProcessQueue(e)
  BY <1>1, <1>2 DEF CallProcessQueue
<1>3. CASE Wait(e)
  BY <1>3 DEF Wait, NothingToPop
<1>4. CASE BeginKeyExchange(e) \/ KexSend(e) \/ SendNewkeys(e) \/ RequestService(e)
  BY <1>4 DEF BeginKeyExchange, KexSend, SendNewkeys, RequestService
<1>5. CASE RecvKexinit(e)
  <2>1. Rest(e) # <<>> /\ Head(Rest(e)).type = "KEXINIT"
    BY <1>1, <1>5, NextIs DEF RecvKexinit, At, Pop, NothingToPop
  <2> QED BY <1>1, <1>5, <2>1 DEF RecvKexinit, Pop
<1>6. CASE KexRecv(e)
  <2>1. Rest(e) # <<>> /\ Head(Rest(e)).type = "KEX"
    BY <1>1, <1>6, NextIs DEF KexRecv, At, Pop, NothingToPop
  <2> QED BY <1>1, <1>6, <2>1 DEF KexRecv, Pop
<1>7. CASE RecvNewkeys(e)
  <2>1. Rest(e) # <<>> /\ Head(Rest(e)).type = "NEWKEYS"
    BY <1>1, <1>7, NextIs DEF RecvNewkeys, At, Pop, NothingToPop
  <2> QED BY <1>1, <1>7, <2>1 DEF RecvNewkeys, Pop
<1>8. CASE StartHigherLayer(e)
  <2>1. Rest(e) # <<>> /\ Head(Rest(e)).type = "SERVICE"
    BY <1>1, <1>8, NextIs DEF StartHigherLayer, At, Pop, NothingToPop
  <2> QED BY <1>1, <1>8, <2>1 DEF StartHigherLayer, Pop
<1>9. CASE Idle(e)
  <2>1. ~(Rest(e) # <<>> /\ Head(Rest(e)).type # "KEXINIT")
    BY <1>9, NextIs DEF Idle, At
  <2> QED BY <1>9, <2>1 DEF Idle
<1>10. CASE HigherLayerSend(e) \/ WantRekey(e) \/ HandleOutput(e)
  BY <1>10 DEF HigherLayerSend, WantRekey, HandleOutput, queues
<1> QED BY <1>2, <1>3, <1>4, <1>5, <1>6, <1>7, <1>8, <1>9, <1>10 DEF OwnStep, Coroutine

\* A packet of the layer is pushed, those of the higher layer are passed on, or
\* packets are put on the wire.
LEMMA SendingIs ==
    ASSUME KexInv, NEW e \in Ends, OwnStep(e)
    PROVE  \/ UNCHANGED <<out_pq, pq_out_higher, wire, outkey, sent>>
           \/ /\ \E type \in {"KEXINIT", "KEX", "SERVICE"} : Push(e, type)
              /\ UNCHANGED <<pq_out_higher, wire, outkey, sent>>
           \/ /\ out_pq' = [out_pq EXCEPT ![e] = @ \o pq_out_higher[e]]
              /\ pq_out_higher' = [pq_out_higher EXCEPT ![e] = <<>>]
              /\ UNCHANGED <<wire, outkey, sent>>
           \/ SendNewkeys(e)
           \/ HandleOutput(e)
           \/ HigherLayerSend(e)
<1>1. ~Premature(e)
  BY NextIs
<1>2. CASE CallProcessQueue(e)
  BY <1>1, <1>2 DEF CallProcessQueue, bpp, user
<1>3. CASE Wait(e)
  BY <1>3 DEF Wait, bpp, user
<1>4. CASE BeginKeyExchange(e) \/ KexSend(e) \/ RequestService(e)
  BY <1>4 DEF BeginKeyExchange, KexSend, RequestService, bpp, user
<1>5. CASE RecvKexinit(e)
  <2>1. Rest(e) # <<>> /\ Head(Rest(e)).type = "KEXINIT"
    BY <1>1, <1>5, NextIs DEF RecvKexinit, At, Pop, NothingToPop
  <2> QED BY <1>1, <1>5, <2>1 DEF RecvKexinit, Pop, bpp, user
<1>6. CASE KexRecv(e)
  <2>1. Rest(e) # <<>> /\ Head(Rest(e)).type = "KEX"
    BY <1>1, <1>6, NextIs DEF KexRecv, At, Pop, NothingToPop
  <2> QED BY <1>1, <1>6, <2>1 DEF KexRecv, Pop, bpp, user
<1>7. CASE RecvNewkeys(e)
  <2>1. Rest(e) # <<>> /\ Head(Rest(e)).type = "NEWKEYS"
    BY <1>1, <1>7, NextIs DEF RecvNewkeys, At, Pop, NothingToPop
  <2> QED BY <1>1, <1>7, <2>1 DEF RecvNewkeys, Pop, user
<1>8. CASE StartHigherLayer(e)
  <2>1. Rest(e) # <<>> /\ Head(Rest(e)).type = "SERVICE"
    BY <1>1, <1>8, NextIs DEF StartHigherLayer, At, Pop, NothingToPop
  <2> QED BY <1>1, <1>8, <2>1 DEF StartHigherLayer, Pop, bpp, user
<1>9. CASE Idle(e)
  BY <1>9 DEF Idle, bpp, user
<1>10. CASE WantRekey(e)
  BY <1>10 DEF WantRekey, queues, bpp
<1> QED BY <1>2, <1>3, <1>4, <1>5, <1>6, <1>7, <1>8, <1>9, <1>10 DEF OwnStep, Coroutine

\* NEWKEYS is the last packet in in_pq when it is popped.
LEMMA NewkeysIsLast ==
    ASSUME KexInv, NEW e \in Ends, Rest(e) # <<>>, Head(Rest(e)).type = "NEWKEYS"
    PROVE  pending_newkeys[e] /\ Tail(Rest(e)) = <<>>
<1> DEFINE q == in_pq[e]
           r == Rest(e)
<1>1. q \in Seq(Packet) /\ LastNewkeys(q, pending_newkeys[e])
  BY DEF KexInv, TypeOK, Switching
<1>2. PICK h \in Seq(Packet) : r \in Seq(Packet) /\ q = h \o r
  BY <1>1, RestIs
<1> DEFINE m == Len(h)
           n == Len(r)
<1>3. m \in Nat /\ n \in Nat \ {0} /\ Head(r) = r[1] /\ Tail(r) \in Seq(Packet) /\ Len(Tail(r)) = n - 1
  BY <1>2, LenProperties, EmptySeq, HeadTailProperties
<1>4. Len(q) = m + n /\ DOMAIN q = 1 .. m + n /\ \A i \in 1 .. m + n : q[i] = IF i <= m THEN h[i] ELSE r[i - m]
  <2>1. Len(h \o r) = m + n /\ \A i \in 1 .. m + n : (h \o r)[i] = IF i <= m THEN h[i] ELSE r[i - m]
    BY <1>2, ConcatProperties
  <2>2. DOMAIN q = 1 .. Len(q)
    BY <1>1, LenProperties
  <2> HIDE DEF m, n, q, r
  <2> QED BY <1>2, <2>1, <2>2
<1> HIDE DEF m, n, q, r
<1>5. m + 1 \in 1 .. m + n /\ ~(m + 1 <= m) /\ (m + 1) - m = 1
  BY <1>3
<1>6. q[m + 1] = Head(r)
  BY <1>3, <1>4, <1>5
<1>7. pending_newkeys[e] /\ m + 1 = m + n
  BY <1>1, <1>4, <1>5, <1>6 DEF LastNewkeys, r
<1>8. Len(Tail(r)) = 0
  BY <1>3, <1>7
<1>9. Tail(r) = <<>>
  BY <1>3, <1>8, EmptySeq
<1> QED BY <1>7, <1>9 DEF r

\* What is left of in_pq still ends at NEWKEYS.
LEMMA LastSuffix ==
    ASSUME NEW h \in Seq(Packet), NEW r \in Seq(Packet), NEW pending, LastNewkeys(h \o r, pending)
    PROVE  LastNewkeys(r, pending)
<1> DEFINE m == Len(h)
           n == Len(r)
           q == h \o r
<1>1. m \in Nat /\ n \in Nat /\ DOMAIN r = 1 .. n
  BY LenProperties
<1>2. q \in Seq(Packet) /\ Len(q) = m + n /\ \A i \in 1 .. m + n : q[i] = IF i <= m THEN h[i] ELSE r[i - m]
  BY ConcatProperties
<1>3. DOMAIN q = 1 .. m + n /\ LastNewkeys(q, pending)
  BY <1>2, LenProperties
<1> HIDE DEF m, n, q
<1>4. ASSUME NEW i \in 1 .. n, r[i].type = "NEWKEYS" PROVE pending /\ i = n
  <2>1. i + m \in 1 .. m + n /\ ~(i + m <= m) /\ (i + m) - m = i
    BY <1>1
  <2>2. q[i + m] = r[i]
    BY <1>2, <2>1
  <2>3. pending /\ i + m = m + n
    BY <1>2, <1>3, <1>4, <2>1, <2>2 DEF LastNewkeys
  <2> QED BY <1>1, <2>3
<1> QED BY <1>1, <1>4 DEF LastNewkeys, n

\* out_pq never gets a NEWKEYS.
LEMMA NoneConcat ==
    ASSUME NEW h \in Seq(Packet), NEW r \in Seq(Packet), NoNewkeys(h), NoNewkeys(r)
    PROVE  NoNewkeys(h \o r)
<1> DEFINE m == Len(h)
           n == Len(r)
           q == h \o r
<1>1. m \in Nat /\ n \in Nat /\ DOMAIN r = 1 .. n /\ DOMAIN h = 1 .. m
  BY LenProperties
<1>2. q \in Seq(Packet) /\ Len(q) = m + n /\ \A i \in 1 .. m + n : q[i] = IF i <= m THEN h[i] ELSE r[i - m]
  BY ConcatProperties
<1>3. DOMAIN q = 1 .. m + n
  BY <1>2, LenProperties
<1> HIDE DEF m, n, q
<1>4. ASSUME NEW i \in 1 .. m + n PROVE q[i].type # "NEWKEYS"
  <2>1. CASE i <= m
    <3>1. i \in 1 .. m
      BY <1>1, <2>1
    <3> QED BY <1>1, <1>2, <2>1, <3>1 DEF NoNewkeys
  <2>2. CASE ~(i <= m)
    <3>1. i - m \in 1 .. n
      BY <1>1, <2>2
    <3> QED BY <1>1, <1>2, <2>2, <3>1 DEF NoNewkeys
  <2> QED BY <2>1, <2>2
<1> QED BY <1>3, <1>4 DEF NoNewkeys, q
-----------------------------------------------------------------------------
(* The keys change at the same packet. *)

\* The keys that an end has, or will have, do not change with its own steps.
LEMMA KeysKept ==
    ASSUME KexInv, NEW e \in Ends, OwnStep(e)
    PROVE  /\ \A f \in Ends : Incoming(f)' = Incoming(f)
           /\ \/ UNCHANGED pending_newkeys
              \/ in_pq' = [in_pq EXCEPT ![e] = <<>>] /\ pending_newkeys' = [pending_newkeys EXCEPT ![e] = FALSE]
<1>1. ~Premature(e) /\ inkey \in [Ends -> Nat] /\ pending_newkeys \in [Ends -> BOOLEAN]
  BY NextIs DEF KexInv, TypeOK
<1>2. CASE RecvNewkeys(e)
  <2>1. Rest(e) # <<>> /\ Head(Rest(e)).type = "NEWKEYS"
    BY <1>1, <1>2, NextIs DEF RecvNewkeys, At, Pop, NothingToPop
  <2>2. pending_newkeys[e] /\ Tail(Rest(e)) = <<>>
    BY <2>1, NewkeysIsLast
  <2>3. /\ in_pq' = [in_pq EXCEPT ![e] = Tail(Rest(e))] /\ inkey' = [inkey EXCEPT ![e] = @ + 1]
        /\ pending_newkeys' = [pending_newkeys EXCEPT ![e] = FALSE]
    BY <1>1, <1>2, <2>1 DEF RecvNewkeys, Pop
  <2>4. ASSUME NEW f \in Ends PROVE Incoming(f)' = Incoming(f)
    BY <1>1, <2>2, <2>3 DEF Incoming
  <2> QED BY <2>2, <2>3, <2>4
<1>3. CASE ~RecvNewkeys(e)
  <2>1. UNCHANGED <<inkey, pending_newkeys>>
    <3>1. CASE CallProcessQueue(e) \/ Wait(e) \/ BeginKeyExchange(e) \/ KexSend(e) \/ SendNewkeys(e) \/ RequestService(e)
      BY <1>1, <3>1 DEF CallProcessQueue, Wait, BeginKeyExchange, KexSend, SendNewkeys, RequestService, ProtoError, bpp
    <3>2. CASE RecvKexinit(e) \/ KexRecv(e) \/ StartHigherLayer(e)
      BY <3>2 DEF RecvKexinit, KexRecv, StartHigherLayer, Pop, ProtoError, bpp
    <3>3. CASE Idle(e) \/ HigherLayerSend(e) \/ WantRekey(e) \/ HandleOutput(e)
      BY <3>3 DEF Idle, HigherLayerSend, WantRekey, HandleOutput, bpp
    <3> QED BY <1>3, <3>1, <3>2, <3>3 DEF OwnStep, Coroutine
  <2> QED BY <2>1 DEF Incoming
<1> QED BY <1>2, <1>3

\* Switching is kept by the steps of an end.
LEMMA SwitchingOwn ==
    ASSUME KexInv, NEW e \in Ends, OwnStep(e)
    PROVE  \A f \in Ends : Switching(f)'
<1>1. /\ in_pq \in [Ends -> Seq(Packet)] /\ out_pq \in [Ends -> Seq(Packet)] /\ pq_out_higher[e] \in Seq(Packet)
      /\ in_pq[e] \in Seq(Packet) /\ out_pq[e] \in Seq(Packet) /\ pending_newkeys \in [Ends -> BOOLEAN]
      /\ \A f \in Ends : NoNewkeys(out_pq[f]) /\ LastNewkeys(in_pq[f], pending_newkeys[f])
      /\ NoNewkeys(pq_out_higher[e])
  BY DEF KexInv, TypeOK, Switching, Layered, Higher, NoNewkeys
<1>2. NoNewkeys(<<>>) /\ LastNewkeys(<<>>, FALSE)
  BY DEF NoNewkeys, LastNewkeys
<1>3. \A f \in Ends : NoNewkeys(out_pq'[f])
  <2>1. CASE UNCHANGED out_pq
    BY <1>1, <2>1
  <2>2. CASE \E type \in {"KEXINIT", "KEX", "SERVICE"} : Push(e, type)
    <3>1. PICK type \in {"KEXINIT", "KEX", "SERVICE"} : Push(e, type)
      BY <2>2
    <3>2. Msg(type) \in Packet /\ Msg(type).type # "NEWKEYS"
      BY DEF Msg, Packet
    <3>3. <<Msg(type)>> \in Seq(Packet) /\ NoNewkeys(<<Msg(type)>>)
      <4> DEFINE m == Msg(type)
      <4> HIDE DEF m
      <4>1. m \in Packet /\ m.type # "NEWKEYS"
        BY <3>2 DEF m
      <4>2. <<m>> \in Seq(Packet) /\ NoNewkeys(<<m>>)
        BY <4>1 DEF NoNewkeys
      <4> QED BY <4>2 DEF m
    <3>4. Append(out_pq[e], Msg(type)) = out_pq[e] \o <<Msg(type)>>
      BY <1>1, <3>2, AppendIsConcat
    <3>5. NoNewkeys(out_pq[e] \o <<Msg(type)>>)
      BY <1>1, <3>3, NoneConcat
    <3> QED BY <1>1, <3>1, <3>4, <3>5 DEF Push
  <2>3. CASE out_pq' = [out_pq EXCEPT ![e] = @ \o pq_out_higher[e]]
    <3>1. NoNewkeys(out_pq[e] \o pq_out_higher[e])
      BY <1>1, NoneConcat
    <3> QED BY <1>1, <2>3, <3>1
  <2>4. CASE SendNewkeys(e)
    BY <1>1, <2>4 DEF SendNewkeys
  <2>5. CASE HandleOutput(e)
    BY <1>1, <1>2, <2>5 DEF HandleOutput
  <2>6. CASE HigherLayerSend(e)
    BY <1>1, <2>6 DEF HigherLayerSend
  <2> QED BY <2>1, <2>2, <2>3, <2>4, <2>5, <2>6, SendingIs
<1>4. \A f \in Ends : LastNewkeys(in_pq'[f], pending_newkeys'[f])
  <2>1. CASE UNCHANGED pending_newkeys
    <3>1. PICK h \in Seq(Packet) : Rest(e) \in Seq(Packet) /\ in_pq[e] = h \o Rest(e)
      BY <1>1, RestIs
    <3>2. LastNewkeys(Rest(e), pending_newkeys[e])
      <4>1. LastNewkeys(h \o Rest(e), pending_newkeys[e])
        BY <1>1, <3>1
      <4> QED BY <3>1, <4>1, LastSuffix
    <3>3. ASSUME Rest(e) # <<>> PROVE LastNewkeys(Tail(Rest(e)), pending_newkeys[e])
      <4>1. Head(Rest(e)) \in Packet /\ Tail(Rest(e)) \in Seq(Packet) /\ Rest(e) = <<Head(Rest(e))>> \o Tail(Rest(e))
        BY <3>1, <3>3, HeadTailProperties
      <4>2. <<Head(Rest(e))>> \in Seq(Packet)
        BY <4>1
      <4>3. LastNewkeys(<<Head(Rest(e))>> \o Tail(Rest(e)), pending_newkeys[e])
        BY <3>2, <4>1
      <4> DEFINE front == <<Head(Rest(e))>>
                 back == Tail(Rest(e))
      <4> HIDE DEF front, back
      <4>4. front \in Seq(Packet) /\ back \in Seq(Packet) /\ LastNewkeys(front \o back, pending_newkeys[e])
        BY <4>1, <4>2, <4>3 DEF front, back
      <4>5. LastNewkeys(back, pending_newkeys[e])
        BY <4>4, LastSuffix
      <4> QED BY <4>5 DEF back
    <3>4. \/ UNCHANGED in_pq
          \/ in_pq' = [in_pq EXCEPT ![e] = Rest(e)]
          \/ Rest(e) # <<>> /\ in_pq' = [in_pq EXCEPT ![e] = Tail(Rest(e))]
      BY ReadingIs
    <3>5. CASE UNCHANGED in_pq
      BY <1>1, <2>1, <3>5
    <3>6. CASE in_pq' = [in_pq EXCEPT ![e] = Rest(e)]
      BY <1>1, <2>1, <3>2, <3>6
    <3>7. CASE Rest(e) # <<>> /\ in_pq' = [in_pq EXCEPT ![e] = Tail(Rest(e))]
      BY <1>1, <2>1, <3>3, <3>7
    <3> QED BY <3>4, <3>5, <3>6, <3>7
  <2>2. CASE in_pq' = [in_pq EXCEPT ![e] = <<>>] /\ pending_newkeys' = [pending_newkeys EXCEPT ![e] = FALSE]
    BY <1>1, <1>2, <2>2
  <2> QED BY <2>1, <2>2, KeysKept
<1> QED BY <1>3, <1>4 DEF Switching

\* And by the arrival of a packet.
LEMMA SwitchingInput ==
    ASSUME KexInv, NEW e \in Ends, HandleInput(e)
    PROVE  \A f \in Ends : Switching(f)'
<1> DEFINE m == Head(wire[Peer(e)]).pkt
           q == in_pq[e]
           last == m.type = "NEWKEYS"
<1>1. /\ ~pending_newkeys[e] /\ wire[Peer(e)] # <<>> /\ Head(wire[Peer(e)]).key = inkey[e]
  BY KeyIsRight DEF HandleInput
<1>2. /\ in_pq' = [in_pq EXCEPT ![e] = Append(@, m)] /\ pending_newkeys' = [pending_newkeys EXCEPT ![e] = last]
      /\ UNCHANGED out_pq
  BY <1>1 DEF HandleInput
<1>3. in_pq \in [Ends -> Seq(Packet)] /\ q \in Seq(Packet) /\ pending_newkeys \in [Ends -> BOOLEAN]
      /\ wire[Peer(e)] \in Seq(Wired) /\ \A f \in Ends : Switching(f)
  BY PeerIs DEF KexInv, TypeOK, Wired
<1>4. m \in Packet
  BY <1>1, <1>3, PlainHead
<1> HIDE DEF m, last
<1>5. LastNewkeys(Append(q, m), last)
  <2>1. Len(q) \in Nat /\ Append(q, m) \in Seq(Packet) /\ Len(Append(q, m)) = Len(q) + 1
        /\ (\A i \in 1 .. Len(q) : Append(q, m)[i] = q[i]) /\ Append(q, m)[Len(q) + 1] = m
    BY <1>3, <1>4, AppendProperties, LenProperties
  <2>2. DOMAIN Append(q, m) = 1 .. Len(q) + 1 /\ DOMAIN q = 1 .. Len(q)
    BY <1>3, <2>1, LenProperties
  <2>3. \A i \in 1 .. Len(q) : q[i].type # "NEWKEYS"
    BY <1>1, <1>3, <2>2 DEF Switching, LastNewkeys
  <2> HIDE DEF q
  <2>4. ASSUME NEW i \in 1 .. Len(q) + 1, Append(q, m)[i].type = "NEWKEYS" PROVE last /\ i = Len(q) + 1
    <3>1. i = Len(q) + 1
      BY <2>1, <2>3, <2>4
    <3> QED BY <2>1, <2>4, <3>1 DEF last
  <2> QED BY <2>1, <2>2, <2>4 DEF LastNewkeys
<1>6. \A f \in Ends : NoNewkeys(out_pq'[f]) /\ LastNewkeys(in_pq'[f], pending_newkeys'[f])
  BY <1>2, <1>3, <1>5 DEF Switching
<1> QED BY <1>6 DEF Switching

\* The keys of the packets on the wire.
LEMMA KeyedOwn ==
    ASSUME KexInv, NEW e \in Ends, OwnStep(e)
    PROVE  \A f \in Ends : Keyed(wire[f], Incoming(Peer(f)), outkey[f])'
<1>1. /\ wire \in [Ends -> Seq(Wired)] /\ wire[e] \in Seq(Wired) /\ outkey \in [Ends -> Nat] /\ outkey[e] \in Nat
      /\ out_pq[e] \in Seq(Packet) /\ NoNewkeys(out_pq[e])
      /\ \A f \in Ends : Keyed(wire[f], Incoming(Peer(f)), outkey[f]) /\ Peer(f) \in Ends
  BY PeerIs DEF KexInv, TypeOK, Wired, Switching
<1>2. \A f \in Ends : Incoming(Peer(f))' = Incoming(Peer(f))
  BY <1>1, KeysKept
<1>3. CASE SendNewkeys(e)
  <2> DEFINE q == Append(out_pq[e], Msg("NEWKEYS"))
             x == Encrypted(e, q)
  <2>1. wire' = [wire EXCEPT ![e] = @ \o x] /\ outkey' = [outkey EXCEPT ![e] = @ + 1]
    BY <1>3 DEF SendNewkeys
  <2>2. Msg("NEWKEYS") \in Packet /\ Msg("NEWKEYS").type = "NEWKEYS"
    BY DEF Msg, Packet
  <2>3. /\ q \in Seq(Packet) /\ Len(q) = Len(out_pq[e]) + 1 /\ Len(out_pq[e]) \in Nat /\ q[Len(out_pq[e]) + 1] = Msg("NEWKEYS")
        /\ \A i \in 1 .. Len(out_pq[e]) : q[i] = out_pq[e][i]
    BY <1>1, <2>2, AppendProperties, LenProperties
  <2>4. \A i \in 1 .. Len(out_pq[e]) : out_pq[e][i].type # "NEWKEYS"
    BY <1>1, LenProperties DEF NoNewkeys
  <2> HIDE DEF q
  <2>5. \A i \in 1 .. Len(q) : q[i].type = "NEWKEYS" <=> i = Len(q)
    BY <2>2, <2>3, <2>4
  <2>6. x \in Seq(Wired) /\ Len(x) = Len(q) /\ \A i \in 1 .. Len(q) : x[i].pkt = q[i] /\ x[i].key = outkey[e]
    BY <1>1, <2>3, EncryptedIs
  <2> HIDE DEF x
  <2>7. x # <<>>
    BY <2>3, <2>6
  <2>8. \A i \in 1 .. Len(x) : x[i].key = outkey[e] /\ (x[i].pkt.type = "NEWKEYS" <=> i = Len(x) /\ TRUE)
    BY <2>5, <2>6
  <2>9. Keyed(wire[e] \o x, Incoming(Peer(e)), outkey[e] + 1)
    <3>1. outkey[e] + 1 = outkey[e] + (IF TRUE THEN 1 ELSE 0) /\ TRUE \in BOOLEAN
      OBVIOUS
    <3> QED BY <1>1, <2>6, <2>7, <2>8, <3>1, KeyedAppend
  <2>10. \A f \in Ends : Keyed(wire'[f], Incoming(Peer(f)), outkey'[f])
    BY <1>1, <2>1, <2>9
  <2> QED BY <1>2, <2>10
<1>4. CASE HandleOutput(e)
  <2> DEFINE x == Encrypted(e, out_pq[e])
  <2>1. wire' = [wire EXCEPT ![e] = @ \o x] /\ UNCHANGED outkey
    BY <1>4 DEF HandleOutput
  <2>2. x \in Seq(Wired) /\ Len(x) = Len(out_pq[e])
        /\ \A i \in 1 .. Len(x) : x[i].pkt = out_pq[e][i] /\ x[i].key = outkey[e]
    BY <1>1, EncryptedIs
  <2>3. \A i \in 1 .. Len(x) : out_pq[e][i].type # "NEWKEYS"
    BY <1>1, <2>2, LenProperties DEF NoNewkeys
  <2> HIDE DEF x
  <2>4. \A i \in 1 .. Len(x) : x[i].key = outkey[e] /\ (x[i].pkt.type = "NEWKEYS" <=> i = Len(x) /\ FALSE)
    BY <2>2, <2>3
  <2>5. Keyed(wire[e] \o x, Incoming(Peer(e)), outkey[e])
    <3>1. outkey[e] = outkey[e] + (IF FALSE THEN 1 ELSE 0) /\ FALSE \in BOOLEAN
      BY <1>1
    <3> QED BY <1>1, <2>2, <2>4, <3>1, KeyedAppend
  <2>6. \A f \in Ends : Keyed(wire'[f], Incoming(Peer(f)), outkey'[f])
    BY <1>1, <2>1, <2>5
  <2> QED BY <1>2, <2>6
<1>5. CASE UNCHANGED <<wire, outkey>>
  BY <1>1, <1>2, <1>5
<1>6. CASE HigherLayerSend(e)
  BY <1>5, <1>6 DEF HigherLayerSend, bpp
<1> QED BY <1>3, <1>4, <1>5, <1>6, SendingIs

\* And after the arrival of a packet.
LEMMA KeyedInput ==
    ASSUME KexInv, NEW e \in Ends, HandleInput(e)
    PROVE  \A f \in Ends : Keyed(wire[f], Incoming(Peer(f)), outkey[f])'
<1> DEFINE p == Peer(e)
           w == wire[p]
           inc == IF Head(w).pkt.type = "NEWKEYS" THEN 1 ELSE 0
<1>1. p \in Ends /\ p # e /\ Peer(p) = e /\ \A f \in Ends : f = e \/ f = p
  BY PeerIs
<1>2. ~pending_newkeys[e] /\ w # <<>> /\ Head(w).key = inkey[e]
  BY KeyIsRight DEF HandleInput
<1>3. /\ wire' = [wire EXCEPT ![p] = Tail(@)] /\ UNCHANGED <<outkey, inkey>>
      /\ pending_newkeys' = [pending_newkeys EXCEPT ![e] = Head(w).pkt.type = "NEWKEYS"]
  BY <1>2 DEF HandleInput
<1>4. /\ wire \in [Ends -> Seq(Wired)] /\ w \in Seq(Wired) /\ outkey[p] \in Nat /\ inkey[e] \in Nat
      /\ pending_newkeys \in [Ends -> BOOLEAN]
      /\ Keyed(w, Incoming(e), outkey[p]) /\ Keyed(wire[e], Incoming(p), outkey[e])
  BY <1>1 DEF KexInv, TypeOK, Wired
<1>5. Keyed(Tail(w), Incoming(e) + inc, outkey[p])
  BY <1>2, <1>4, KeyedTail
<1>6. Incoming(e)' = Incoming(e) + inc /\ Incoming(p)' = Incoming(p)
  <2>1. pending_newkeys'[e] = (Head(w).pkt.type = "NEWKEYS") /\ pending_newkeys'[p] = pending_newkeys[p]
    BY <1>1, <1>3, <1>4
  <2>2. Incoming(e) = inkey[e] /\ Incoming(e)' = inkey[e] + (IF pending_newkeys'[e] THEN 1 ELSE 0)
    BY <1>2, <1>3, <1>4 DEF Incoming
  <2>3. Incoming(p)' = Incoming(p)
    BY <1>3, <2>1 DEF Incoming
  <2> QED BY <2>1, <2>2, <2>3
<1>7. wire'[p] = Tail(w) /\ wire'[e] = wire[e]
  BY <1>1, <1>3, <1>4
<1> HIDE DEF inc
<1>8. Keyed(wire[p], Incoming(e), outkey[p])' /\ Keyed(wire[e], Incoming(p), outkey[e])'
  BY <1>3, <1>4, <1>5, <1>6, <1>7
<1> QED BY <1>1, <1>8
-----------------------------------------------------------------------------
(* The layers, and all of it. *)

\* Packets of the higher layer come from a higher layer that is up.
LEMMA HigherKept ==
    ASSUME KexInv, Next
    PROVE  \A f \in Ends : Higher(pq_out_higher'[f]) /\ (pq_out_higher'[f] # <<>> => higher_layer_ok'[f])
<1>1. PICK e \in Ends : OwnStep(e) \/ HandleInput(e)
  BY DEF Next, OwnStep
<1>2. /\ pq_out_higher \in [Ends -> Seq(Packet)] /\ pq_out_higher[e] \in Seq(Packet)
      /\ higher_layer_ok \in [Ends -> BOOLEAN] /\ sent[e] \in Nat
      /\ \A f \in Ends : Higher(pq_out_higher[f]) /\ (pq_out_higher[f] # <<>> => higher_layer_ok[f])
  BY DEF KexInv, TypeOK, Layered
<1>3. Higher(<<>>)
  BY DEF Higher
<1>4. \A f \in Ends : higher_layer_ok[f] => higher_layer_ok'[f]
  <2>1. ~Premature(e)
    BY NextIs
  <2>2. CASE CallProcessQueue(e) \/ Wait(e) \/ BeginKeyExchange(e) \/ KexSend(e) \/ SendNewkeys(e) \/ RequestService(e)
    BY <2>1, <2>2 DEF CallProcessQueue, Wait, BeginKeyExchange, KexSend, SendNewkeys, RequestService
  <2>3. CASE RecvKexinit(e) \/ KexRecv(e) \/ RecvNewkeys(e)
    BY <2>3 DEF RecvKexinit, KexRecv, RecvNewkeys, Pop, ProtoError
  <2>4. CASE StartHigherLayer(e)
    BY <1>2, <2>4 DEF StartHigherLayer, Pop, ProtoError
  <2>5. CASE Idle(e) \/ HigherLayerSend(e) \/ WantRekey(e) \/ HandleOutput(e) \/ HandleInput(e)
    BY <2>5 DEF Idle, HigherLayerSend, WantRekey, HandleOutput, HandleInput
  <2> QED BY <1>1, <2>2, <2>3, <2>4, <2>5 DEF OwnStep, Coroutine
<1>5. CASE HandleInput(e) \/ HandleOutput(e) \/ UNCHANGED pq_out_higher
  <2>1. UNCHANGED pq_out_higher
    BY <1>5 DEF HandleInput, HandleOutput
  <2> QED BY <1>2, <1>4, <2>1
<1>6. CASE SendNewkeys(e) \/ pq_out_higher' = [pq_out_higher EXCEPT ![e] = <<>>]
  <2>1. pq_out_higher' = [pq_out_higher EXCEPT ![e] = <<>>]
    BY <1>6 DEF SendNewkeys
  <2> QED BY <1>2, <1>3, <1>4, <2>1
<1>7. CASE HigherLayerSend(e)
  <2> DEFINE m == [type |-> "higher", n |-> sent[e] + 1]
             q == pq_out_higher[e]
  <2>1. pq_out_higher' = [pq_out_higher EXCEPT ![e] = Append(@, m)] /\ higher_layer_ok[e]
    BY <1>7 DEF HigherLayerSend
  <2>2. m \in Packet /\ m.type = "higher"
    BY <1>2 DEF Packet
  <2> HIDE DEF m
  <2>3. Len(q) \in Nat /\ Append(q, m) \in Seq(Packet) /\ Len(Append(q, m)) = Len(q) + 1
        /\ (\A i \in 1 .. Len(q) : Append(q, m)[i] = q[i]) /\ Append(q, m)[Len(q) + 1] = m
    BY <1>2, <2>2, AppendProperties, LenProperties
  <2>4. DOMAIN Append(q, m) = 1 .. Len(q) + 1 /\ \A i \in 1 .. Len(q) : q[i].type = "higher"
    BY <1>2, <2>3, LenProperties DEF Higher
  <2> HIDE DEF q
  <2>5. \A i \in 1 .. Len(q) + 1 : Append(q, m)[i].type = "higher"
    BY <2>2, <2>3, <2>4
  <2>6. Higher(Append(q, m))
    BY <2>4, <2>5 DEF Higher
  <2> QED BY <1>2, <1>4, <2>1, <2>6 DEF q
<1> QED BY <1>1, <1>5, <1>6, <1>7, SendingIs

\* The places that go with a higher layer.
LEMMA LayeredNext ==
    ASSUME KexInv, Next
    PROVE  \A f \in Ends : Layered(f)'
<1>1. PICK e \in Ends : OwnStep(e) \/ HandleInput(e)
  BY DEF Next, OwnStep
<1>2. /\ pc \in [Ends -> {"begin_key_exchange", "kexinit", "kex", "newkeys", "service", "service_wait", "idle"}]
      /\ higher_layer_ok \in [Ends -> BOOLEAN] /\ deferred_rekey \in [Ends -> BOOLEAN]
  BY DEF KexInv, TypeOK
<1>3. \A f \in Ends : /\ pc[f] = "idle" => higher_layer_ok[f]
                      /\ pc[f] \in {"service", "service_wait"} => ~higher_layer_ok[f]
                      /\ deferred_rekey[f] => higher_layer_ok[f]
  BY DEF KexInv, Layered
<1> DEFINE Good(f) == /\ pc'[f] = "idle" => higher_layer_ok'[f]
                      /\ pc'[f] \in {"service", "service_wait"} => ~higher_layer_ok'[f]
                      /\ deferred_rekey'[f] => higher_layer_ok'[f]
<1>4. \A f \in Ends : Good(f)
  <2>1. ~Premature(e)
    BY NextIs
  <2>2. CASE CallProcessQueue(e) \/ Wait(e) \/ KexSend(e) \/ KexRecv(e) \/ HigherLayerSend(e) \/ HandleOutput(e) \/ HandleInput(e)
    <3>1. UNCHANGED <<pc, higher_layer_ok, deferred_rekey>>
      BY <2>1, <2>2 DEF CallProcessQueue, Wait, KexSend, KexRecv, Pop, ProtoError, HigherLayerSend, HandleOutput, HandleInput
    <3> QED BY <1>3, <3>1
  <2>3. CASE BeginKeyExchange(e)
    <3>1. pc' = [pc EXCEPT ![e] = "kexinit"] /\ UNCHANGED <<higher_layer_ok, deferred_rekey>>
      BY <2>3 DEF BeginKeyExchange, Goto
    <3> QED BY <1>2, <1>3, <3>1
  <2>4. CASE RecvKexinit(e)
    <3>1. pc' \in {pc, [pc EXCEPT ![e] = "kex"]} /\ UNCHANGED <<higher_layer_ok, deferred_rekey>>
      BY <2>4 DEF RecvKexinit, Pop, ProtoError, Goto
    <3> QED BY <1>2, <1>3, <3>1
  <2>5. CASE SendNewkeys(e)
    <3>1. pc' = [pc EXCEPT ![e] = "newkeys"] /\ UNCHANGED <<higher_layer_ok, deferred_rekey>>
      BY <2>5 DEF SendNewkeys, Goto
    <3> QED BY <1>2, <1>3, <3>1
  <2>6. CASE RecvNewkeys(e)
    <3>1. Rest(e) # <<>> /\ Head(Rest(e)).type = "NEWKEYS"
      BY <2>1, <2>6, NextIs DEF RecvNewkeys, At, Pop, NothingToPop
    <3>2. /\ deferred_rekey' = [deferred_rekey EXCEPT ![e] = FALSE] /\ UNCHANGED higher_layer_ok
          /\ \/ pc' = [pc EXCEPT ![e] = "begin_key_exchange"]
             \/ pc' = [pc EXCEPT ![e] = IF higher_layer_ok[e] THEN "idle" ELSE "service"]
      BY <2>1, <2>6, <3>1 DEF RecvNewkeys, Pop, Goto
    <3> QED BY <1>2, <1>3, <3>2
  <2>7. CASE RequestService(e)
    <3>1. pc[e] = "service" /\ pc' = [pc EXCEPT ![e] = "service_wait"] /\ UNCHANGED <<higher_layer_ok, deferred_rekey>>
      BY <2>7 DEF RequestService, At, Goto
    <3> QED BY <1>2, <1>3, <3>1
  <2>8. CASE StartHigherLayer(e)
    <3>1. Rest(e) # <<>> /\ Head(Rest(e)).type = "SERVICE"
      BY <2>1, <2>8, NextIs DEF StartHigherLayer, At, Pop, NothingToPop
    <3>2. /\ higher_layer_ok' = [higher_layer_ok EXCEPT ![e] = TRUE] /\ UNCHANGED deferred_rekey
          /\ pc' = [pc EXCEPT ![e] = "idle"]
      BY <2>1, <2>8, <3>1 DEF StartHigherLayer, Pop, Goto
    <3> QED BY <1>2, <1>3, <3>2
  <2>9. CASE Idle(e)
    <3>1. pc' \in {pc, [pc EXCEPT ![e] = "begin_key_exchange"]} /\ UNCHANGED <<higher_layer_ok, deferred_rekey>>
      BY <2>9 DEF Idle, Goto
    <3> QED BY <1>2, <1>3, <3>1
  <2>10. CASE WantRekey(e)
    <3>1. /\ higher_layer_ok[e] /\ UNCHANGED <<pc, higher_layer_ok>>
          /\ deferred_rekey' \in {deferred_rekey, [deferred_rekey EXCEPT ![e] = TRUE]}
      BY <2>10 DEF WantRekey
    <3> QED BY <1>2, <1>3, <3>1
  <2> HIDE DEF Good
  <2> QED BY <1>1, <2>2, <2>3, <2>4, <2>5, <2>6, <2>7, <2>8, <2>9, <2>10 DEF OwnStep, Coroutine
<1> QED BY <1>4, HigherKept DEF Layered

\* The invariant holds at the beginning.
LEMMA KexInit ==
    ASSUME Init
    PROVE  KexInv
<1>1. TypeOK /\ ~fault
  <2>1. method \in Methods /\ Len(Exchange(method)) \in Nat /\ MaxRekeys \in Nat
    BY ExchangeIs, ParamAssumption DEF Init
  <2>2. 1 \in 1 .. Len(Exchange(method)) + 1 /\ 0 \in 0 .. MaxRekeys
    BY <2>1
  <2>3. ControlOK /\ NumbersOK
    BY <2>1, <2>2 DEF Init, ControlOK, NumbersOK
  <2>4. <<>> \in Seq(Packet) /\ <<>> \in Seq([pkt : Packet, key : Nat]) /\ <<>> \in Seq(Nat)
    BY EmptySeq
  <2>5. QueuesOK
    BY <2>4 DEF Init, QueuesOK
  <2> QED BY <2>3, <2>5 DEF TypeOK, ControlOK, NumbersOK, QueuesOK
<1>2. ASSUME NEW e \in Ends PROVE Linked(e)
  <2>1. Peer(e) \in Ends
    BY PeerIs
  <2>2. Reads(Peer(e)) = St("first", {}) /\ Sends(e) = St("first", {}) /\ St("first", {}) \in Stage
    BY <2>1 DEF Init, Reads, Sends, ReadStage, SendStage, St, Stage
  <2>3. in_pq[Peer(e)] = <<>> /\ out_pq[e] = <<>> /\ Plain(wire[e]) = <<>>
    BY <2>1 DEF Init, Plain
  <2>4. Run(All(e), St("first", {}), <<>>, St("first", {}))
    BY <2>2, RunNil
  <2> QED BY <2>2, <2>3, <2>4 DEF Linked
<1>3. ASSUME NEW e \in Ends PROVE Keyed(wire[e], Incoming(Peer(e)), outkey[e])
  BY PeerIs DEF Init, Keyed, KeyAt, Incoming
<1>4. ASSUME NEW e \in Ends PROVE Switching(e) /\ Layered(e)
  BY DEF Init, Switching, NoNewkeys, LastNewkeys, Layered, Higher
<1> QED BY <1>1, <1>2, <1>3, <1>4 DEF KexInv

\* And is kept by every step.
LEMMA KexNext ==
    ASSUME KexInv, [Next]_vars
    PROVE  KexInv'
<1>1. CASE UNCHANGED vars
  <2>1. TypeOK' /\ ~fault'
    BY <1>1 DEF vars, KexInv, TypeOK
  <2>2. \A e \in Ends : Linked(e)'
    BY <1>1 DEF vars, KexInv, Linked, All, Reads, Sends
  <2>3. \A e \in Ends : Keyed(wire[e], Incoming(Peer(e)), outkey[e])'
    BY <1>1 DEF vars, KexInv, Incoming
  <2>4. \A e \in Ends : Switching(e)' /\ Layered(e)'
    BY <1>1 DEF vars, KexInv, Switching, Layered
  <2> QED BY <2>1, <2>2, <2>3, <2>4 DEF KexInv
<1>2. CASE Next
  <2>1. PICK e \in Ends : OwnStep(e) \/ HandleInput(e)
    BY <1>2 DEF Next, OwnStep
  <2>2. \A f \in Ends : Keyed(wire[f], Incoming(Peer(f)), outkey[f])' /\ Switching(f)'
    BY <2>1, KeyedOwn, KeyedInput, SwitchingOwn, SwitchingInput
  <2> QED BY <1>2, <2>2, TypeNext, LinkedNext, LayeredNext DEF KexInv
<1> QED BY <1>1, <1>2

\* What is under way always leads from where the receiver reads to where the
\* sender sends, under the keys that the receiver will use (process_queue,
\* handle_input, handle_output).
THEOREM KexInvariant == Spec => []KexInv
<1>1. Init => KexInv
  BY KexInit
<1>2. KexInv /\ [Next]_vars => KexInv'
  BY KexNext
<1> QED BY <1>1, <1>2, PTL DEF Spec

\* The three queues together.
LEMMA UnderwayIs ==
    ASSUME KexInv, NEW e \in Ends
    PROVE  /\ Underway(e) \in Seq(Packet) /\ Plain(wire[e]) \in Seq(Packet)
           /\ Run(All(e), Reads(Peer(e)), Underway(e), Sends(e))
<1> DEFINE p == Peer(e)
           x == in_pq[p]
           y == Plain(wire[e])
           z == out_pq[e]
<1>1. p \in Ends /\ wire[e] \in Seq(Wired)
  BY PeerIs DEF KexInv, TypeOK, Wired
<1>2. x \in Seq(Packet) /\ y \in Seq(Packet) /\ z \in Seq(Packet)
  BY <1>1, PlainIs DEF KexInv, TypeOK
<1>3. PICK a, b \in Stage : Run(All(e), Reads(p), x, a) /\ Run(All(e), a, y, b) /\ Run(All(e), b, z, Sends(e))
  BY DEF KexInv, Linked
<1>4. Underway(e) = (x \o y) \o z
  BY DEF Underway
<1> HIDE DEF p, x, y, z
<1>5. x \o y \in Seq(Packet) /\ (x \o y) \o z \in Seq(Packet)
  BY <1>2, ConcatProperties
<1>6. Run(All(e), Reads(p), x \o y, b)
  BY <1>2, <1>3, RunConcat
<1>7. Run(All(e), Reads(p), (x \o y) \o z, Sends(e))
  BY <1>2, <1>3, <1>5, <1>6, RunConcat
<1> QED BY <1>2, <1>4, <1>5, <1>7 DEF p, y

\* The pattern leaves no room for a packet of the higher layer between KEXINIT
\* and NEWKEYS.
LEMMA InvariantMeans ==
    ASSUME KexInv
    PROVE  KeysAgree
<1>1. ASSUME NEW e \in Ends, NEW j \in DOMAIN Underway(e), Underway(e)[j].type = "higher",
             \/ pc[Peer(e)] \in {"kex", "newkeys"}
             \/ \E i \in 1 .. j : Underway(e)[i].type = "KEXINIT"
      PROVE  \E k \in 1 .. j : /\ Underway(e)[k].type = "NEWKEYS"
                               /\ \A i \in k .. j : Underway(e)[i].type # "KEXINIT"
  <2> DEFINE q == Underway(e)
             n == Len(q)
             all == All(e)
  <2>1. q \in Seq(Packet) /\ Run(all, Reads(Peer(e)), q, Sends(e))
    BY UnderwayIs
  <2>2. PICK f : Through(all, f, q) /\ f[0] = Reads(Peer(e))
    BY <2>1 DEF Run
  <2>3. n \in Nat /\ DOMAIN q = 1 .. n
    BY <2>1, LenProperties
  <2>4. \A i \in 1 .. n : Leads(all, f[i - 1], q[i].type, f[i])
    BY <2>2 DEF Through
  <2> HIDE DEF q, n, all
  <2>5. j \in 1 .. n /\ q[j].type = "higher"
    BY <1>1, <2>3 DEF q
  <2> DEFINE T == {i \in 0 .. j : f[i].at \in {"kex", "rekey"}}
  <2>6. \A i \in 1 .. n : q[i].type = "KEXINIT" => f[i].at \in {"kex", "rekey"}
    BY <2>4 DEF Leads, St
  <2>7. T # {}
    <3>1. CASE pc[Peer(e)] \in {"kex", "newkeys"}
      <4>1. f[0].at \in {"kex", "rekey"}
        BY <2>2, <3>1 DEF Reads, ReadStage, St
      <4>2. 0 \in 0 .. j
        BY <2>3, <2>5
      <4> QED BY <4>1, <4>2
    <3>2. CASE \E i \in 1 .. j : q[i].type = "KEXINIT"
      <4>1. PICK i \in 1 .. j : q[i].type = "KEXINIT"
        BY <3>2
      <4>2. i \in 1 .. n /\ i \in 0 .. j
        BY <2>3, <2>5
      <4> QED BY <2>6, <4>1, <4>2
    <3> QED BY <1>1, <3>1, <3>2 DEF q
  <2>8. PICK m \in T : \A i \in T : i <= m
    <3>1. T \in SUBSET Int /\ j \in Int /\ \A i \in T : i <= j
      BY <2>3, <2>5
    <3> HIDE DEF T
    <3> QED BY <2>7, <3>1, GreatestInt
  <2>9. f[j].at = "open" /\ f[j - 1].at = "open"
    BY <2>4, <2>5 DEF Leads
  <2> DEFINE k == m + 1
  <2>10. m \in Nat /\ m < j /\ f[m].at \in {"kex", "rekey"}
    <3>1. m \in 0 .. j /\ f[m].at \in {"kex", "rekey"}
      OBVIOUS
    <3>2. m # j
      BY <2>9, <3>1
    <3> QED BY <2>3, <2>5, <3>1, <3>2
  <2>11. k \in 1 .. j /\ k \in 1 .. n /\ k - 1 = m /\ k \in 0 .. j /\ ~(k <= m)
    BY <2>3, <2>5, <2>10
  <2>12. f[k].at \notin {"kex", "rekey"}
    BY <2>8, <2>11
  <2> HIDE DEF T, k
  <2>13. Leads(all, f[m], q[k].type, f[k])
    BY <2>4, <2>11
  <2>14. q[k].type = "NEWKEYS"
    <3>1. f[m].at # "first" /\ f[m].at # "open" /\ f[m].at # "service"
      BY <2>10
    <3>2. ~(\E i \in f[m].todo : f[k] = St(f[m].at, f[m].todo \ {i}))
      <4>1. ASSUME NEW i, f[k] = St(f[m].at, f[m].todo \ {i}) PROVE FALSE
        <5>1. St(f[m].at, f[m].todo \ {i}).at = f[m].at
          BY DEF St
        <5>2. f[k].at = f[m].at
          BY <4>1, <5>1
        <5> QED BY <2>10, <2>12, <5>2
      <4> QED BY <4>1
    <3> QED BY <2>13, <3>1, <3>2 DEF Leads, St
  <2>15. ASSUME NEW i \in k .. j PROVE q[i].type # "KEXINIT"
    <3>1. i \in 1 .. n /\ i \in 0 .. j /\ ~(i <= m)
      BY <2>3, <2>5, <2>10, <2>11
    <3>2. f[i].at \notin {"kex", "rekey"}
      BY <2>8, <3>1 DEF T
    <3> QED BY <2>6, <3>1, <3>2
  <2> QED BY <2>11, <2>14, <2>15 DEF q
<1>2. NothingDuringKex
  BY <1>1 DEF NothingDuringKex
<1> QED BY <1>2 DEF KexInv, KeysAgree, NoUnexpectedPacket

\* Both ends change keys at the same packet, neither gets a packet that it does
\* not expect or cannot decrypt, and nothing else is sent in the middle of a key
\* exchange, for every method and any number of packets and rekeys
\* (ssh2_transport_process_queue and filter_queue with the BPP).
THEOREM KeysAlwaysAgree == Spec => []KeysAgree
<1>1. KexInv => KeysAgree
  BY InvariantMeans
<1> QED BY <1>1, KexInvariant, PTL
-----------------------------------------------------------------------------
(* The numbers of the higher-layer packets in a queue. *)

Add(s, p) == IF p.type = "higher" THEN Append(s, p.n) ELSE s

\* f[i] has the numbers in the first i packets of q.
Tallies(f, q) ==
    /\ f \in [0 .. Len(q) -> Seq(Nat)]
    /\ f[0] = <<>>
    /\ \A i \in 1 .. Len(q) : f[i] = Add(f[i - 1], q[i])

\* Numbers are added to numbers.
LEMMA AddType ==
    ASSUME NEW s \in Seq(Nat), NEW p \in Packet
    PROVE  Add(s, p) \in Seq(Nat)
<1>1. p.n \in Nat
  BY DEF Packet
<1> QED BY <1>1, AppendProperties DEF Add

\* With one packet more.
LEMMA TalliesAppend ==
    ASSUME NEW q \in Seq(Packet), NEW p \in Packet, NEW f, Tallies(f, q)
    PROVE  \E g : Tallies(g, Append(q, p)) /\ g[Len(q) + 1] = Add(f[Len(q)], p)
<1> DEFINE n == Len(q)
           r == Append(q, p)
           g == [i \in 0 .. n + 1 |-> IF i = n + 1 THEN Add(f[n], p) ELSE f[i]]
<1>1. n \in Nat /\ Len(r) = n + 1 /\ r[n + 1] = p /\ \A i \in 1 .. n : r[i] = q[i]
  BY AppendProperties, LenProperties
<1>2. f \in [0 .. n -> Seq(Nat)] /\ f[0] = <<>> /\ \A i \in 1 .. n : f[i] = Add(f[i - 1], q[i])
  BY DEF Tallies
<1> HIDE DEF n, r
<1>3. f[n] \in Seq(Nat)
  BY <1>1, <1>2
<1>4. Add(f[n], p) \in Seq(Nat)
  BY <1>3, AddType
<1>5. g \in [0 .. n + 1 -> Seq(Nat)]
  <2>1. \A i \in 0 .. n + 1 : i = n + 1 \/ i \in 0 .. n
    BY <1>1
  <2>2. \A i \in 0 .. n + 1 : (IF i = n + 1 THEN Add(f[n], p) ELSE f[i]) \in Seq(Nat)
    BY <1>2, <1>4, <2>1
  <2> QED BY <2>2, Zenon
<1>6. g[0] = <<>> /\ g[n + 1] = Add(f[n], p) /\ \A i \in 0 .. n : g[i] = f[i]
  BY <1>1, <1>2
<1> HIDE DEF g
<1>7. ASSUME NEW i \in 1 .. n + 1 PROVE g[i] = Add(g[i - 1], r[i])
  <2>1. CASE i = n + 1
    <3>1. i - 1 = n /\ n \in 0 .. n
      BY <1>1, <2>1
    <3> QED BY <1>1, <1>6, <2>1, <3>1
  <2>2. CASE i # n + 1
    <3>1. i \in 1 .. n /\ i \in 0 .. n /\ i - 1 \in 0 .. n
      BY <1>1, <2>2
    <3> QED BY <1>1, <1>2, <1>6, <3>1
  <2> QED BY <2>1, <2>2
<1>8. Tallies(g, r)
  BY <1>1, <1>5, <1>6, <1>7 DEF Tallies
<1> QED BY <1>6, <1>8 DEF n, r

\* Every queue has its numbers.
LEMMA TalliesExist == \A q \in Seq(Packet) : \E f : Tallies(f, q)
<1> DEFINE S == {n \in Nat : \A q \in Seq(Packet) : Len(q) = n => \E f : Tallies(f, q)}
<1>1. 0 \in S
  <2>1. ASSUME NEW q \in Seq(Packet), Len(q) = 0 PROVE Tallies([i \in 0 .. 0 |-> <<>>], q)
    <3> DEFINE f == [i \in 0 .. 0 |-> <<>>]
    <3>1. f \in [0 .. 0 -> Seq(Nat)] /\ f[0] = <<>>
      BY EmptySeq
    <3> HIDE DEF f
    <3>2. Tallies(f, q)
      BY <2>1, <3>1 DEF Tallies
    <3> QED BY <3>2 DEF f
  <2> QED BY <2>1
<1>2. ASSUME NEW n \in S PROVE n + 1 \in S
  <2>1. ASSUME NEW q \in Seq(Packet), Len(q) = n + 1 PROVE \E f : Tallies(f, q)
    <3>1. q # <<>> /\ n \in Nat
      BY <2>1
    <3>2. PICK s \in Seq(Packet), p \in Packet : q = Append(s, p)
      BY <3>1, SequenceEmptyOrAppend
    <3>3. Len(s) = n
      <4>1. Len(Append(s, p)) = Len(s) + 1 /\ Len(s) \in Nat
        BY AppendProperties, LenProperties
      <4> HIDE DEF S
      <4> QED BY <2>1, <3>1, <3>2, <4>1
    <3>4. PICK f : Tallies(f, s)
      BY <3>3
    <3> HIDE DEF S
    <3> QED BY <3>2, <3>4, TalliesAppend
  <2> QED BY <2>1
<1> HIDE DEF S
<1>3. S = Nat
  <2>1. S \in SUBSET Nat
    BY DEF S
  <2> QED BY <1>1, <1>2, <2>1, NatSetInduction
<1>4. ASSUME NEW q \in Seq(Packet) PROVE \E f : Tallies(f, q)
  <2>1. Len(q) \in S
    BY <1>3, LenProperties
  <2> QED BY <2>1 DEF S
<1> QED BY <1>4

\* They are what HigherNumbers computes.
LEMMA NumbersAre ==
    ASSUME NEW q \in Seq(Packet), NEW f, Tallies(f, q)
    PROVE  HigherNumbers(q) = f[Len(q)]
<1> DEFINE n == Len(q)
           Def(g) == [i \in 0 .. n |-> IF i = 0 THEN <<>>
                                       ELSE IF q[i].type = "higher" THEN Append(g[i - 1], q[i].n)
                                       ELSE g[i - 1]]
           h == CHOOSE g : g = Def(g)
<1>1. n \in Nat /\ f \in [0 .. n -> Seq(Nat)] /\ f[0] = <<>> /\ \A i \in 1 .. n : f[i] = Add(f[i - 1], q[i])
  BY LenProperties DEF Tallies
<1>2. HigherNumbers(q) = h[n]
  BY DEF HigherNumbers
<1> HIDE DEF n
<1>3. f = Def(f)
  <2>1. \A i \in 0 .. n : i = 0 \/ i \in 1 .. n
    BY <1>1
  <2>2. \A i \in 0 .. n : f[i] = IF i = 0 THEN <<>> ELSE IF q[i].type = "higher" THEN Append(f[i - 1], q[i].n) ELSE f[i - 1]
    BY <1>1, <2>1 DEF Add
  <2>3. f = [i \in 0 .. n |-> f[i]]
    BY <1>1
  <2> QED BY <2>2, <2>3, Zenon
<1>4. h = Def(h)
  <2> HIDE DEF Def
  <2> QED BY <1>3
<1> HIDE DEF h
<1>5. h[0] = <<>> /\ \A i \in 1 .. n : h[i] = Add(h[i - 1], q[i])
  <2>1. 0 \in 0 .. n /\ \A i \in 1 .. n : i \in 0 .. n /\ i # 0
    BY <1>1
  <2> DEFINE d(g, i) == IF i = 0 THEN <<>> ELSE IF q[i].type = "higher" THEN Append(g[i - 1], q[i].n) ELSE g[i - 1]
  <2>2. \A i \in 0 .. n : Def(h)[i] = d(h, i)
    <3> HIDE DEF d
    <3>1. Def(h) = [i \in 0 .. n |-> d(h, i)]
      BY DEF d
    <3> HIDE DEF Def
    <3> QED BY <3>1
  <2>3. \A i \in 0 .. n : h[i] = d(h, i)
    <3> HIDE DEF Def, d
    <3> QED BY <1>4, <2>2
  <2> HIDE DEF Def
  <2>4. d(h, 0) = <<>> /\ \A i \in 1 .. n : d(h, i) = Add(h[i - 1], q[i])
    BY <2>1 DEF Add
  <2> HIDE DEF d
  <2> QED BY <2>1, <2>3, <2>4
<1> DEFINE S == {i \in Nat : i <= n => h[i] = f[i]}
<1>6. 0 \in S
  <2>1. h[0] = f[0]
    BY <1>1, <1>5
  <2> QED BY <2>1
<1>7. ASSUME NEW i \in S PROVE i + 1 \in S
  <2>1. CASE i + 1 <= n
    <3>1. i \in Nat /\ i + 1 \in 1 .. n /\ (i + 1) - 1 = i /\ i <= n
      <4>1. i \in Nat /\ n \in Nat
        BY <1>1
      <4> QED BY <2>1, <4>1
    <3>2. h[i + 1] = Add(h[i], q[i + 1]) /\ f[i + 1] = Add(f[i], q[i + 1])
      BY <1>1, <1>5, <3>1
    <3> QED BY <3>1, <3>2
  <2>2. CASE ~(i + 1 <= n)
    BY <2>2
  <2> QED BY <2>1, <2>2
<1> HIDE DEF S
<1>8. S = Nat
  <2>1. S \in SUBSET Nat
    BY DEF S
  <2> QED BY <1>6, <1>7, <2>1, NatSetInduction
<1>9. h[n] = f[n]
  <2>1. n \in Nat /\ n <= n
    BY <1>1
  <2>2. n \in S
    BY <1>8, <2>1
  <2> QED BY <2>1, <2>2 DEF S
<1> QED BY <1>2, <1>9 DEF n

\* Of no packets, and of one packet more.
LEMMA NumbersStep ==
    /\ HigherNumbers(<<>>) = <<>>
    /\ \A q \in Seq(Packet) : HigherNumbers(q) \in Seq(Nat)
    /\ \A q \in Seq(Packet), p \in Packet : HigherNumbers(Append(q, p)) = Add(HigherNumbers(q), p)
<1>1. HigherNumbers(<<>>) = <<>>
  <2>1. <<>> \in Seq(Packet) /\ Len(<<>>) = 0
    BY EmptySeq
  <2>2. PICK f : Tallies(f, <<>>)
    BY <2>1, TalliesExist
  <2>3. f[0] = <<>>
    BY <2>2 DEF Tallies
  <2> QED BY <2>1, <2>2, <2>3, NumbersAre
<1>2. ASSUME NEW q \in Seq(Packet) PROVE HigherNumbers(q) \in Seq(Nat)
  <2>1. PICK f : Tallies(f, q)
    BY TalliesExist
  <2>2. Len(q) \in Nat
    BY LenProperties
  <2>3. f[Len(q)] \in Seq(Nat)
    BY <2>1, <2>2 DEF Tallies
  <2> QED BY <2>1, <2>3, NumbersAre
<1>3. ASSUME NEW q \in Seq(Packet), NEW p \in Packet PROVE HigherNumbers(Append(q, p)) = Add(HigherNumbers(q), p)
  <2>1. PICK f : Tallies(f, q)
    BY TalliesExist
  <2>2. PICK g : Tallies(g, Append(q, p)) /\ g[Len(q) + 1] = Add(f[Len(q)], p)
    BY <2>1, TalliesAppend
  <2>3. Append(q, p) \in Seq(Packet) /\ Len(Append(q, p)) = Len(q) + 1
    BY AppendProperties
  <2>4. HigherNumbers(q) = f[Len(q)]
    BY <2>1, NumbersAre
  <2>5. HigherNumbers(Append(q, p)) = g[Len(q) + 1]
    BY <2>2, <2>3, NumbersAre
  <2> QED BY <2>2, <2>4, <2>5
<1> QED BY <1>1, <1>2, <1>3

\* Of two parts.
LEMMA NumbersConcat ==
    ASSUME NEW q \in Seq(Packet), NEW r \in Seq(Packet)
    PROVE  HigherNumbers(q \o r) = HigherNumbers(q) \o HigherNumbers(r)
<1> DEFINE S == {n \in Nat : \A t \in Seq(Packet) : Len(t) = n => HigherNumbers(q \o t) = HigherNumbers(q) \o HigherNumbers(t)}
<1>0. HigherNumbers(q) \in Seq(Nat)
  BY NumbersStep
<1>1. 0 \in S
  <2>1. ASSUME NEW t \in Seq(Packet), Len(t) = 0 PROVE HigherNumbers(q \o t) = HigherNumbers(q) \o HigherNumbers(t)
    <3>1. t = <<>>
      BY <2>1, EmptySeq
    <3>2. q \o t = q
      BY <3>1, ConcatEmptySeq
    <3>3. HigherNumbers(t) = <<>>
      BY <3>1, NumbersStep
    <3>4. HigherNumbers(q) \o <<>> = HigherNumbers(q)
      BY <1>0, ConcatEmptySeq
    <3> QED BY <3>2, <3>3, <3>4
  <2> QED BY <2>1
<1>2. ASSUME NEW n \in S PROVE n + 1 \in S
  <2>1. ASSUME NEW t \in Seq(Packet), Len(t) = n + 1 PROVE HigherNumbers(q \o t) = HigherNumbers(q) \o HigherNumbers(t)
    <3>1. t # <<>> /\ n \in Nat
      BY <2>1
    <3>2. PICK s \in Seq(Packet), p \in Packet : t = Append(s, p)
      BY <3>1, SequenceEmptyOrAppend
    <3>3. Len(s) = n
      <4>1. Len(Append(s, p)) = Len(s) + 1 /\ Len(s) \in Nat
        BY AppendProperties, LenProperties
      <4> HIDE DEF S
      <4> QED BY <2>1, <3>1, <3>2, <4>1
    <3>4. HigherNumbers(q \o s) = HigherNumbers(q) \o HigherNumbers(s)
      BY <3>3
    <3> HIDE DEF S
    <3>5. q \o t = Append(q \o s, p) /\ q \o s \in Seq(Packet)
      <4>1. t = s \o <<p>> /\ <<p>> \in Seq(Packet)
        BY <3>2, AppendIsConcat
      <4>2. (q \o s) \o <<p>> = q \o (s \o <<p>>) /\ q \o s \in Seq(Packet)
        BY <4>1, ConcatAssociative, ConcatProperties
      <4>3. Append(q \o s, p) = (q \o s) \o <<p>>
        BY <4>2, AppendIsConcat
      <4> QED BY <4>1, <4>2, <4>3
    <3>6. HigherNumbers(q \o t) = Add(HigherNumbers(q) \o HigherNumbers(s), p)
      BY <3>4, <3>5, NumbersStep
    <3>7. HigherNumbers(t) = Add(HigherNumbers(s), p) /\ HigherNumbers(s) \in Seq(Nat) /\ p.n \in Nat
      BY <3>2, NumbersStep DEF Packet
    <3> DEFINE x == HigherNumbers(q)
               y == HigherNumbers(s)
    <3> HIDE DEF x, y
    <3>8. x \in Seq(Nat) /\ y \in Seq(Nat) /\ p.n \in Nat
      BY <1>0, <3>7 DEF x, y
    <3>9. Add(x \o y, p) = x \o Add(y, p)
      <4>1. Append(x \o y, p.n) = x \o Append(y, p.n)
        <5>1. <<p.n>> \in Seq(Nat) /\ x \o y \in Seq(Nat)
          BY <3>8
        <5>2. Append(x \o y, p.n) = (x \o y) \o <<p.n>> /\ Append(y, p.n) = y \o <<p.n>>
          BY <3>8, <5>1, AppendIsConcat
        <5>3. (x \o y) \o <<p.n>> = x \o (y \o <<p.n>>)
          BY <3>8, <5>1, ConcatAssociative
        <5> QED BY <5>2, <5>3
      <4> QED BY <4>1 DEF Add
    <3> QED BY <3>6, <3>7, <3>9 DEF x, y
  <2> QED BY <2>1
<1> HIDE DEF S
<1>3. S = Nat
  <2>1. S \in SUBSET Nat
    BY DEF S
  <2> QED BY <1>1, <1>2, <2>1, NatSetInduction
<1>4. Len(r) \in S
  BY <1>3, LenProperties
<1> QED BY <1>4 DEF S

\* Of packets of the higher layer.
LEMMA NumbersHigher ==
    ASSUME NEW q \in Seq(Packet), Higher(q)
    PROVE  HigherNumbers(q) = [i \in 1 .. Len(q) |-> q[i].n]
<1> DEFINE n == Len(q)
           f == [k \in 0 .. n |-> [i \in 1 .. k |-> q[i].n]]
<1>1. n \in Nat /\ DOMAIN q = 1 .. n /\ \A i \in 1 .. n : q[i] \in Packet /\ q[i].type = "higher"
  BY LenProperties, ElementOfSeq DEF Higher
<1>2. \A i \in 1 .. n : q[i].n \in Nat
  BY <1>1 DEF Packet
<1> HIDE DEF n
<1>3. ASSUME NEW k \in 0 .. n PROVE f[k] \in Seq(Nat) /\ Len(f[k]) = k /\ \A i \in 1 .. k : f[k][i] = q[i].n
  <2> DEFINE x == [i \in 1 .. k |-> q[i].n]
  <2>1. k \in Nat /\ \A i \in 1 .. k : q[i].n \in Nat
    BY <1>1, <1>2
  <2>2. x \in Seq(Nat) /\ Len(x) = k /\ \A i \in 1 .. k : x[i] = q[i].n
    BY <2>1
  <2>3. f[k] = x
    OBVIOUS
  <2> HIDE DEF x, f
  <2> QED BY <2>2, <2>3
<1>4. f[0] = <<>>
  <2>1. 0 \in 0 .. n
    BY <1>1
  <2>2. f[0] \in Seq(Nat) /\ Len(f[0]) = 0
    BY <1>3, <2>1
  <2> HIDE DEF f
  <2> QED BY <2>2, EmptySeq
<1>5. f \in [0 .. n -> Seq(Nat)]
  <2>1. f = [k \in 0 .. n |-> f[k]]
    OBVIOUS
  <2> HIDE DEF f
  <2> QED BY <1>3, <2>1
<1>6. f[n] = [i \in 1 .. n |-> q[i].n]
  BY <1>1
<1> HIDE DEF f
<1>7. ASSUME NEW k \in 1 .. n PROVE f[k] = Add(f[k - 1], q[k])
  <2>1. k \in 0 .. n /\ k - 1 \in 0 .. n /\ (k - 1) + 1 = k /\ k \in Nat /\ k \in 1 .. k
    BY <1>1
  <2> DEFINE x == f[k - 1]
             y == Append(x, q[k].n)
  <2>2. x \in Seq(Nat) /\ Len(x) = k - 1 /\ \A i \in 1 .. k - 1 : x[i] = q[i].n
    BY <1>3, <2>1
  <2>3. q[k].n \in Nat
    BY <1>2
  <2>4. y \in Seq(Nat) /\ Len(y) = (k - 1) + 1 /\ (\A i \in 1 .. k - 1 : y[i] = x[i]) /\ y[(k - 1) + 1] = q[k].n
    <3> HIDE DEF x
    <3> QED BY <2>2, <2>3, AppendProperties
  <2>5. f[k] \in Seq(Nat) /\ Len(f[k]) = k /\ \A i \in 1 .. k : f[k][i] = q[i].n
    BY <1>3, <2>1
  <2> HIDE DEF x, y
  <2>6. ASSUME NEW i \in 1 .. k PROVE y[i] = f[k][i]
    <3>1. i = k \/ i \in 1 .. k - 1
      BY <2>1
    <3> QED BY <2>1, <2>2, <2>4, <2>5, <3>1
  <2>7. y = f[k]
    <3> DEFINE z == f[k]
    <3> HIDE DEF z
    <3>1. y \in Seq(Nat) /\ z \in Seq(Nat) /\ Len(y) = Len(z) /\ \A i \in 1 .. Len(y) : y[i] = z[i]
      BY <2>1, <2>4, <2>5, <2>6 DEF z
    <3>2. y = z
      BY <3>1, SeqEqual
    <3> QED BY <3>2 DEF z
  <2> QED BY <1>1, <2>7 DEF Add, x, y
<1>8. Tallies(f, q)
  BY <1>4, <1>5, <1>7 DEF Tallies, n
<1> QED BY <1>6, <1>8, NumbersAre DEF n

\* Of one packet.
LEMMA NumbersOne ==
    ASSUME NEW p \in Packet
    PROVE  <<p>> \in Seq(Packet) /\ HigherNumbers(<<p>>) = IF p.type = "higher" THEN <<p.n>> ELSE <<>>
<1>1. <<>> \in Seq(Packet) /\ <<p>> = Append(<<>>, p) /\ <<p>> \in Seq(Packet)
  BY EmptySeq
<1>2. HigherNumbers(<<p>>) = Add(<<>>, p)
  BY <1>1, NumbersStep
<1>3. Append(<<>>, p.n) = <<p.n>>
  OBVIOUS
<1> QED BY <1>1, <1>2, <1>3 DEF Add
-----------------------------------------------------------------------------
(* The stream of the higher layer. *)

\* What is on its way from w, which is on the wire, and from the queues behind it.
Behind(w, z, u) == (HigherNumbers(Plain(w)) \o HigherNumbers(z)) \o HigherNumbers(u)

\* Three parts, grouped in two ways.
LEMMA Associative ==
    ASSUME NEW S, NEW a \in Seq(S), NEW b \in Seq(S), NEW c \in Seq(S)
    PROVE  (a \o b) \o c = a \o (b \o c)
BY ConcatAssociative

\* The same of sequences of numbers and of packets.
LEMMA Regroup3 ==
    /\ \A a, b, c \in Seq(Nat) : (a \o b) \o c = a \o (b \o c)
    /\ \A a, b, c \in Seq(Packet) : (a \o b) \o c = a \o (b \o c)
<1>1. \A S : \A a, b, c \in Seq(S) : (a \o b) \o c = a \o (b \o c)
  BY Associative
<1>2. \A a, b, c \in Seq(Nat) : (a \o b) \o c = a \o (b \o c)
  BY <1>1
<1>3. \A a, b, c \in Seq(Packet) : (a \o b) \o c = a \o (b \o c)
  BY <1>1
<1> QED BY <1>2, <1>3

\* What is on its way, queue by queue.
LEMMA TransitIs ==
    ASSUME NEW x \in Seq(Packet), NEW w \in Seq(Wired), NEW z \in Seq(Packet), NEW u \in Seq(Packet)
    PROVE  /\ HigherNumbers(((x \o Plain(w)) \o z) \o u) = HigherNumbers(x) \o Behind(w, z, u)
           /\ HigherNumbers(x) \in Seq(Nat) /\ Behind(w, z, u) \in Seq(Nat)
           /\ HigherNumbers(Plain(w)) \in Seq(Nat) /\ HigherNumbers(z) \in Seq(Nat) /\ HigherNumbers(u) \in Seq(Nat)
<1> DEFINE y == Plain(w)
<1>2. y \in Seq(Packet)
  BY PlainIs
<1> HIDE DEF y
<1>4. x \o y \in Seq(Packet) /\ (x \o y) \o z \in Seq(Packet)
  BY <1>2, ConcatProperties
<1>5. HigherNumbers(x \o y) = HigherNumbers(x) \o HigherNumbers(y)
  BY <1>2, NumbersConcat
<1>6. HigherNumbers((x \o y) \o z) = HigherNumbers(x \o y) \o HigherNumbers(z)
  BY <1>4, NumbersConcat
<1>7. HigherNumbers(((x \o y) \o z) \o u) = HigherNumbers((x \o y) \o z) \o HigherNumbers(u)
  BY <1>4, NumbersConcat
<1>8. HigherNumbers(x) \in Seq(Nat) /\ HigherNumbers(y) \in Seq(Nat) /\ HigherNumbers(z) \in Seq(Nat) /\ HigherNumbers(u) \in Seq(Nat)
  BY <1>2, NumbersStep
<1>9. ((HigherNumbers(x) \o HigherNumbers(y)) \o HigherNumbers(z)) \o HigherNumbers(u)
      = HigherNumbers(x) \o ((HigherNumbers(y) \o HigherNumbers(z)) \o HigherNumbers(u))
  <2>1. PICK a \in Seq(Nat) : a = HigherNumbers(x)
    BY <1>8
  <2>2. PICK b \in Seq(Nat) : b = HigherNumbers(y)
    BY <1>8
  <2>3. PICK c \in Seq(Nat) : c = HigherNumbers(z)
    BY <1>8
  <2>4. PICK d \in Seq(Nat) : d = HigherNumbers(u)
    BY <1>8
  <2>5. ((a \o b) \o c) \o d = a \o ((b \o c) \o d)
    <3> DEFINE bc == b \o c
    <3>1. bc \in Seq(Nat)
      BY ConcatProperties
    <3>2. (a \o b) \o c = a \o bc
      BY Regroup3
    <3> HIDE DEF bc
    <3>3. (a \o bc) \o d = a \o (bc \o d)
      BY <3>1, Regroup3
    <3> QED BY <3>2, <3>3, Zenon DEF bc
  <2> QED BY <2>1, <2>2, <2>3, <2>4, <2>5, Zenon
<1>10. (HigherNumbers(y) \o HigherNumbers(z)) \o HigherNumbers(u) \in Seq(Nat)
  BY <1>8, ConcatProperties
<1> QED BY <1>5, <1>6, <1>7, <1>8, <1>9, <1>10 DEF y, Behind

\* InTransit, before and after a step.
LEMMA InTransitIs ==
    ASSUME TypeOK, TypeOK', NEW e \in Ends
    PROVE  /\ InTransit(e) = HigherNumbers(in_pq[Peer(e)]) \o Behind(wire[e], out_pq[e], pq_out_higher[e])
           /\ InTransit(e)' = HigherNumbers(in_pq'[Peer(e)]) \o Behind(wire'[e], out_pq'[e], pq_out_higher'[e])
           /\ InTransit(e) \in Seq(Nat) /\ InTransit(e)' \in Seq(Nat)
           /\ HigherNumbers(in_pq'[Peer(e)]) \in Seq(Nat) /\ Behind(wire[e], out_pq[e], pq_out_higher[e]) \in Seq(Nat)
           /\ HigherNumbers(in_pq[Peer(e)]) \in Seq(Nat)
           /\ Behind(wire'[e], out_pq'[e], pq_out_higher'[e]) \in Seq(Nat)
<1>1. Peer(e) \in Ends
  BY PeerIs
<1>2. in_pq[Peer(e)] \in Seq(Packet) /\ wire[e] \in Seq(Wired) /\ out_pq[e] \in Seq(Packet) /\ pq_out_higher[e] \in Seq(Packet)
  BY <1>1 DEF TypeOK, Wired
<1>3. in_pq'[Peer(e)] \in Seq(Packet) /\ wire'[e] \in Seq(Wired) /\ out_pq'[e] \in Seq(Packet) /\ pq_out_higher'[e] \in Seq(Packet)
  BY <1>1 DEF TypeOK, Wired
<1>4. InTransit(e) = HigherNumbers(((in_pq[Peer(e)] \o Plain(wire[e])) \o out_pq[e]) \o pq_out_higher[e])
  BY DEF InTransit, Underway
<1>5. InTransit(e)' = HigherNumbers(((in_pq'[Peer(e)] \o Plain(wire'[e])) \o out_pq'[e]) \o pq_out_higher'[e])
  BY DEF InTransit, Underway
<1>6. /\ InTransit(e) = HigherNumbers(in_pq[Peer(e)]) \o Behind(wire[e], out_pq[e], pq_out_higher[e])
      /\ HigherNumbers(in_pq[Peer(e)]) \in Seq(Nat) /\ Behind(wire[e], out_pq[e], pq_out_higher[e]) \in Seq(Nat)
  BY <1>2, <1>4, TransitIs
<1>7. /\ InTransit(e)' = HigherNumbers(in_pq'[Peer(e)]) \o Behind(wire'[e], out_pq'[e], pq_out_higher'[e])
      /\ HigherNumbers(in_pq'[Peer(e)]) \in Seq(Nat) /\ Behind(wire'[e], out_pq'[e], pq_out_higher'[e]) \in Seq(Nat)
  BY <1>3, <1>5, TransitIs
<1>8. InTransit(e) \in Seq(Nat)
  BY <1>6, ConcatProperties
<1>9. InTransit(e)' \in Seq(Nat)
  BY <1>7, ConcatProperties
<1> QED BY <1>6, <1>7, <1>8, <1>9

\* What an end has on its way does not change with its own steps, unless its
\* higher layer pushes a packet.
LEMMA BehindKept ==
    ASSUME KexInv, NEW e \in Ends, OwnStep(e)
    PROVE  /\ wire'[Peer(e)] = wire[Peer(e)] /\ out_pq'[Peer(e)] = out_pq[Peer(e)]
           /\ pq_out_higher'[Peer(e)] = pq_out_higher[Peer(e)]
           /\ \/ Behind(wire'[e], out_pq'[e], pq_out_higher'[e]) = Behind(wire[e], out_pq[e], pq_out_higher[e])
                 /\ UNCHANGED sent
              \/ HigherLayerSend(e)
<1> DEFINE w == wire[e]
           z == out_pq[e]
           u == pq_out_higher[e]
           W == HigherNumbers(Plain(w))
           Z == HigherNumbers(z)
           U == HigherNumbers(u)
<1>1. /\ wire \in [Ends -> Seq(Wired)] /\ out_pq \in [Ends -> Seq(Packet)] /\ pq_out_higher \in [Ends -> Seq(Packet)]
      /\ w \in Seq(Wired) /\ z \in Seq(Packet) /\ u \in Seq(Packet) /\ outkey[e] \in Nat
      /\ Peer(e) \in Ends /\ Peer(e) # e
  BY PeerIs DEF KexInv, TypeOK, Wired
<1>2. Plain(w) \in Seq(Packet) /\ W \in Seq(Nat) /\ Z \in Seq(Nat) /\ U \in Seq(Nat) /\ HigherNumbers(<<>>) = <<>>
  BY <1>1, PlainIs, NumbersStep
<1>3. \A type \in {"KEXINIT", "KEX", "NEWKEYS", "SERVICE"} :
          HigherNumbers(Append(z, Msg(type))) = Z /\ Append(z, Msg(type)) \in Seq(Packet)
  <2> SUFFICES ASSUME NEW type \in {"KEXINIT", "KEX", "NEWKEYS", "SERVICE"}
               PROVE  HigherNumbers(Append(z, Msg(type))) = Z /\ Append(z, Msg(type)) \in Seq(Packet)
    OBVIOUS
  <2>1. Msg(type) \in Packet /\ Msg(type).type # "higher"
    BY DEF Msg, Packet
  <2>2. HigherNumbers(Append(z, Msg(type))) = Add(Z, Msg(type))
    BY <1>1, <2>1, NumbersStep
  <2>3. Add(Z, Msg(type)) = Z
    BY <2>1 DEF Add
  <2> QED BY <1>1, <2>1, <2>2, <2>3, AppendProperties
<1>4. \A q \in Seq(Packet) : HigherNumbers(Plain(w \o Encrypted(e, q))) = W \o HigherNumbers(q)
  <2> SUFFICES ASSUME NEW q \in Seq(Packet) PROVE HigherNumbers(Plain(w \o Encrypted(e, q))) = W \o HigherNumbers(q)
    OBVIOUS
  <2>1. Encrypted(e, q) \in Seq(Wired) /\ Plain(Encrypted(e, q)) = q
    BY <1>1, EncryptedIs
  <2>2. Plain(w \o Encrypted(e, q)) = Plain(w) \o q
    BY <1>1, <2>1, PlainConcat
  <2> QED BY <1>2, <2>2, NumbersConcat
<1>5. CASE UNCHANGED <<out_pq, pq_out_higher, wire, outkey, sent>>
  BY <1>5
<1>6. CASE /\ \E type \in {"KEXINIT", "KEX", "SERVICE"} : Push(e, type)
           /\ UNCHANGED <<pq_out_higher, wire, outkey, sent>>
  <2>1. PICK type \in {"KEXINIT", "KEX", "SERVICE"} : Push(e, type)
    BY <1>6
  <2>2. out_pq'[e] = Append(z, Msg(type)) /\ out_pq'[Peer(e)] = out_pq[Peer(e)]
    BY <1>1, <2>1 DEF Push
  <2>3. HigherNumbers(out_pq'[e]) = Z
    BY <1>3, <2>2
  <2> QED BY <1>6, <2>2, <2>3 DEF Behind
<1>7. CASE /\ out_pq' = [out_pq EXCEPT ![e] = @ \o pq_out_higher[e]]
           /\ pq_out_higher' = [pq_out_higher EXCEPT ![e] = <<>>]
           /\ UNCHANGED <<wire, outkey, sent>>
  <2>1. out_pq'[e] = z \o u /\ pq_out_higher'[e] = <<>> /\ out_pq'[Peer(e)] = out_pq[Peer(e)]
        /\ pq_out_higher'[Peer(e)] = pq_out_higher[Peer(e)]
    BY <1>1, <1>7
  <2>2. HigherNumbers(z \o u) = Z \o U
    BY <1>1, NumbersConcat
  <2>3. (W \o (Z \o U)) \o <<>> = (W \o Z) \o U
    <3> HIDE DEF W, Z, U
    <3>1. W \in Seq(Nat) /\ Z \in Seq(Nat) /\ U \in Seq(Nat)
      BY <1>2
    <3>2. W \o (Z \o U) = (W \o Z) \o U
      BY <3>1, ConcatAssociative
    <3>3. (W \o Z) \o U \in Seq(Nat)
      BY <3>1, ConcatProperties
    <3> QED BY <3>2, <3>3, ConcatEmptySeq
  <2> QED BY <1>2, <1>7, <2>1, <2>2, <2>3 DEF Behind
<1>8. CASE SendNewkeys(e)
  <2> DEFINE q == Append(z, Msg("NEWKEYS"))
  <2>1. /\ wire' = [wire EXCEPT ![e] = @ \o Encrypted(e, q)] /\ out_pq' = [out_pq EXCEPT ![e] = pq_out_higher[e]]
        /\ pq_out_higher' = [pq_out_higher EXCEPT ![e] = <<>>] /\ UNCHANGED sent
    BY <1>8 DEF SendNewkeys, user
  <2>2. /\ wire'[e] = w \o Encrypted(e, q) /\ out_pq'[e] = u /\ pq_out_higher'[e] = <<>>
        /\ wire'[Peer(e)] = wire[Peer(e)] /\ out_pq'[Peer(e)] = out_pq[Peer(e)]
        /\ pq_out_higher'[Peer(e)] = pq_out_higher[Peer(e)]
    BY <1>1, <2>1
  <2>3. q \in Seq(Packet) /\ HigherNumbers(q) = Z
    BY <1>3
  <2>4. HigherNumbers(Plain(wire'[e])) = W \o Z
    BY <1>4, <2>2, <2>3
  <2>5. ((W \o Z) \o U) \o <<>> = (W \o Z) \o U
    <3> HIDE DEF W, Z, U
    <3>1. (W \o Z) \o U \in Seq(Nat)
      BY <1>2, ConcatProperties
    <3> QED BY <3>1, ConcatEmptySeq
  <2> HIDE DEF q
  <2> QED BY <1>2, <2>1, <2>2, <2>4, <2>5 DEF Behind
<1>9. CASE HandleOutput(e)
  <2>1. /\ wire' = [wire EXCEPT ![e] = @ \o Encrypted(e, z)] /\ out_pq' = [out_pq EXCEPT ![e] = <<>>]
        /\ UNCHANGED <<pq_out_higher, sent>>
    BY <1>9 DEF HandleOutput, user
  <2>2. /\ wire'[e] = w \o Encrypted(e, z) /\ out_pq'[e] = <<>>
        /\ wire'[Peer(e)] = wire[Peer(e)] /\ out_pq'[Peer(e)] = out_pq[Peer(e)]
    BY <1>1, <2>1
  <2>3. HigherNumbers(Plain(wire'[e])) = W \o Z
    BY <1>1, <1>4, <2>2
  <2>4. (W \o Z) \o <<>> = W \o Z
    <3> HIDE DEF W, Z, U
    <3>1. W \o Z \in Seq(Nat)
      BY <1>2, ConcatProperties
    <3> QED BY <3>1, ConcatEmptySeq
  <2> QED BY <1>2, <2>1, <2>2, <2>3, <2>4 DEF Behind
<1>10. CASE HigherLayerSend(e)
  <2>1. pq_out_higher' = [pq_out_higher EXCEPT ![e] = Append(@, [type |-> "higher", n |-> sent[e] + 1])]
        /\ UNCHANGED <<wire, out_pq>>
    BY <1>10 DEF HigherLayerSend, bpp
  <2> QED BY <1>1, <1>10, <2>1
<1> QED BY <1>5, <1>6, <1>7, <1>8, <1>9, <1>10, SendingIs

\* What is cut off a sequence, and what is left.
LEMMA Cut ==
    ASSUME NEW a \in Seq(Nat), NEW b \in Seq(Nat)
    PROVE  /\ Len(a \o b) = Len(a) + Len(b) /\ Len(a) \in Nat /\ Len(b) \in Nat
           /\ SubSeq(a \o b, 1, Len(a)) = a
           /\ SubSeq(a \o b, Len(a) + 1, Len(a \o b)) = b
<1>1. Len(a \o b) = Len(a) + Len(b) /\ Len(a) \in Nat /\ Len(b) \in Nat
  BY ConcatProperties, LenProperties
<1>2. SubSeq(a \o b, 1, Len(a)) = a
  <2>1. CASE Len(a) = 0
    <3>1. a = <<>>
      BY <2>1, EmptySeq
    <3>2. SubSeq(a \o b, 1, 0) = <<>>
      BY SubSeqEmpty
    <3> QED BY <2>1, <3>1, <3>2
  <2>2. CASE Len(a) # 0
    <3>1. 1 \in 1 .. Len(a) /\ Len(a) \in 1 .. Len(a)
      BY <1>1, <2>2
    <3>2. SubSeq(a \o b, 1, Len(a)) = SubSeq(a, 1, Len(a))
      BY <3>1, SubSeqOfConcat1
    <3>3. SubSeq(a, 1, Len(a)) = a
      BY SubSeqFull
    <3> QED BY <3>2, <3>3
  <2> QED BY <2>1, <2>2
<1>3. SubSeq(a \o b, Len(a) + 1, Len(a) + Len(b)) = b
  <2> DEFINE m == Len(a) + 1
             n == Len(a) + Len(b)
  <2>1. CASE Len(b) = 0
    <3>1. b = <<>>
      BY <2>1, EmptySeq
    <3>2. m \in Int /\ n \in Int /\ n < m
      BY <1>1, <2>1
    <3> DEFINE ab == a \o b
    <3> HIDE DEF m, n, ab
    <3>3. SubSeq(ab, m, n) = <<>>
      BY <3>2, SubSeqEmpty
    <3> QED BY <3>1, <3>3 DEF m, n, ab
  <2>2. CASE Len(b) # 0
    <3>1. m \in Len(a) + 1 .. Len(a) + Len(b) /\ n \in Len(a) + 1 .. Len(a) + Len(b)
          /\ m - Len(a) = 1 /\ n - Len(a) = Len(b)
      BY <1>1, <2>2
    <3> HIDE DEF m, n
    <3>2. SubSeq(a \o b, m, n) = SubSeq(b, m - Len(a), n - Len(a))
      BY <3>1, SubSeqOfConcat2
    <3>3. SubSeq(b, 1, Len(b)) = b
      BY SubSeqFull
    <3> QED BY <3>1, <3>2, <3>3 DEF m, n
  <2> QED BY <2>1, <2>2
<1> QED BY <1>1, <1>2, <1>3

\* What the higher layer gets is what in_pq has first.
LEMMA ReadSide ==
    ASSUME KexInv, NEW e \in Ends, OwnStep(e)
    PROVE  /\ in_pq'[Peer(e)] = in_pq[Peer(e)] /\ higher'[Peer(e)] = higher[Peer(e)]
           /\ \/ UNCHANGED <<in_pq, higher>>
              \/ \E c \in Seq(Nat) : /\ higher'[e] = higher[e] \o c
                                     /\ HigherNumbers(in_pq[e]) = c \o HigherNumbers(in_pq'[e])
<1>1. /\ in_pq \in [Ends -> Seq(Packet)] /\ higher \in [Ends -> Seq(Nat)] /\ in_pq[e] \in Seq(Packet)
      /\ Peer(e) \in Ends /\ Peer(e) # e
  BY PeerIs DEF KexInv, TypeOK
<1>2. PICK h \in Seq(Packet) :
          /\ Higher(h) /\ Rest(e) \in Seq(Packet) /\ in_pq[e] = h \o Rest(e)
          /\ Filtered(e) = [i \in 1 .. Len(h) |-> h[i].n]
          /\ Rest(e) # <<>> => Head(Rest(e)) \in Packet /\ Head(Rest(e)).type # "higher"
  BY <1>1, RestIs
<1>3. HigherNumbers(h) = Filtered(e) /\ HigherNumbers(h) \in Seq(Nat)
  BY <1>2, NumbersHigher, NumbersStep
<1>4. HigherNumbers(in_pq[e]) = Filtered(e) \o HigherNumbers(Rest(e))
  BY <1>2, <1>3, NumbersConcat
<1>5. Rest(e) # <<>> => HigherNumbers(Rest(e)) = HigherNumbers(Tail(Rest(e)))
  <2> SUFFICES ASSUME Rest(e) # <<>> PROVE HigherNumbers(Rest(e)) = HigherNumbers(Tail(Rest(e)))
    OBVIOUS
  <2> DEFINE r == Rest(e)
             p == Head(r)
             t == Tail(r)
  <2>1. p \in Packet /\ p.type # "higher" /\ t \in Seq(Packet) /\ r = <<p>> \o t
    BY <1>2, HeadTailProperties
  <2> HIDE DEF r, p, t
  <2>2. <<p>> \in Seq(Packet) /\ HigherNumbers(<<p>>) = <<>>
    BY <2>1, NumbersOne
  <2>3. HigherNumbers(<<p>> \o t) = <<>> \o HigherNumbers(t)
    BY <2>1, <2>2, NumbersConcat
  <2>4. HigherNumbers(t) \in Seq(Nat)
    BY <2>1, NumbersStep
  <2>5. <<>> \o HigherNumbers(t) = HigherNumbers(t)
    BY <2>4, ConcatEmptySeq
  <2> QED BY <2>1, <2>3, <2>5 DEF r, p, t
<1>6. CASE UNCHANGED <<in_pq, higher>>
  BY <1>6
<1>7. CASE /\ higher' = [higher EXCEPT ![e] = @ \o Filtered(e)]
           /\ \/ in_pq' = [in_pq EXCEPT ![e] = Rest(e)]
              \/ Rest(e) # <<>> /\ in_pq' = [in_pq EXCEPT ![e] = Tail(Rest(e))]
  <2>1. higher'[e] = higher[e] \o Filtered(e) /\ higher'[Peer(e)] = higher[Peer(e)]
    BY <1>1, <1>7
  <2>2. in_pq'[Peer(e)] = in_pq[Peer(e)] /\ HigherNumbers(in_pq'[e]) = HigherNumbers(Rest(e))
    BY <1>1, <1>5, <1>7
  <2> QED BY <1>3, <1>4, <2>1, <2>2
<1> QED BY <1>6, <1>7, ReadingIs

\* A packet from the wire goes on in in_pq.
LEMMA InputSide ==
    ASSUME KexInv, KexInv', NEW e \in Ends, HandleInput(e)
    PROVE  /\ UNCHANGED <<higher, sent>>
           /\ InTransit(e)' = InTransit(e) /\ InTransit(Peer(e))' = InTransit(Peer(e))
<1> DEFINE p == Peer(e)
           w == wire[p]
           a == Head(w).pkt
           x == in_pq[e]
<1>1. /\ p \in Ends /\ p # e /\ Peer(p) = e /\ w \in Seq(Wired) /\ x \in Seq(Packet)
      /\ in_pq \in [Ends -> Seq(Packet)] /\ wire \in [Ends -> Seq(Wired)] /\ out_pq[p] \in Seq(Packet)
      /\ pq_out_higher[p] \in Seq(Packet) /\ TypeOK /\ TypeOK' /\ ~fault'
  BY PeerIs DEF KexInv, TypeOK, Wired
<1>2. /\ w # <<>> /\ wire' = [wire EXCEPT ![p] = Tail(@)] /\ in_pq' = [in_pq EXCEPT ![e] = Append(@, a)]
      /\ UNCHANGED <<out_pq, pq_out_higher, higher, sent>>
  BY <1>1 DEF HandleInput, user
<1>3. a \in Packet /\ Tail(w) \in Seq(Wired) /\ Plain(w) = <<a>> \o Plain(Tail(w))
  BY <1>1, <1>2, PlainHead
<1>4. wire'[p] = Tail(w) /\ wire'[e] = wire[e] /\ in_pq'[e] = Append(x, a) /\ in_pq'[p] = in_pq[p]
  BY <1>1, <1>2
<1>5. InTransit(e)' = InTransit(e)
  BY <1>1, <1>2, <1>4 DEF InTransit, Underway
<1>6. in_pq'[e] \o Plain(wire'[p]) = x \o Plain(w)
  <2> DEFINE v == Plain(Tail(w))
             s == <<a>>
  <2>1. v \in Seq(Packet) /\ s \in Seq(Packet) /\ Plain(w) = s \o v /\ Append(x, a) = x \o s
    <3>1. Plain(Tail(w)) \in Seq(Packet)
      BY <1>3, PlainIs
    <3> HIDE DEF a, x, w
    <3> QED BY <1>1, <1>3, <3>1, AppendIsConcat
  <2> HIDE DEF v, s, x, w
  <2>2. (x \o s) \o v = x \o (s \o v)
    <3>1. PICK b1 \in Seq(Packet) : b1 = x
      BY <1>1
    <3>2. PICK b2 \in Seq(Packet) : b2 = s
      BY <2>1
    <3>3. PICK b3 \in Seq(Packet) : b3 = v
      BY <2>1
    <3>4. (b1 \o b2) \o b3 = b1 \o (b2 \o b3)
      BY Regroup3
    <3> QED BY <3>1, <3>2, <3>3, <3>4, Zenon
  <2> QED BY <1>4, <2>1, <2>2 DEF v
<1>7. InTransit(p)' = InTransit(p)
  BY <1>1, <1>2, <1>6 DEF InTransit, Underway
<1> QED BY <1>2, <1>5, <1>7

\* A packet that the higher layer pushes is the last one behind all others.
LEMMA SendSide ==
    ASSUME KexInv, NEW e \in Ends, HigherLayerSend(e)
    PROVE  /\ UNCHANGED <<in_pq, higher>> /\ sent' = [sent EXCEPT ![e] = @ + 1]
           /\ Behind(wire'[e], out_pq'[e], pq_out_higher'[e])
              = Append(Behind(wire[e], out_pq[e], pq_out_higher[e]), sent[e] + 1)
<1> DEFINE w == wire[e]
           z == out_pq[e]
           u == pq_out_higher[e]
           p == [type |-> "higher", n |-> sent[e] + 1]
           W == HigherNumbers(Plain(w)) \o HigherNumbers(z)
           U == HigherNumbers(u)
           k == sent[e] + 1
<1>1. /\ w \in Seq(Wired) /\ z \in Seq(Packet) /\ u \in Seq(Packet) /\ sent[e] \in Nat
      /\ pq_out_higher \in [Ends -> Seq(Packet)]
  BY DEF KexInv, TypeOK, Wired
<1>2. /\ UNCHANGED <<in_pq, higher, wire, out_pq>> /\ sent' = [sent EXCEPT ![e] = @ + 1]
      /\ pq_out_higher' = [pq_out_higher EXCEPT ![e] = Append(@, p)]
  BY DEF HigherLayerSend, bpp
<1>3. p \in Packet /\ p.type = "higher" /\ p.n = k /\ k \in Nat
  BY <1>1 DEF Packet
<1>4. Plain(w) \in Seq(Packet)
  BY <1>1, PlainIs
<1>5. HigherNumbers(Plain(w)) \in Seq(Nat) /\ HigherNumbers(z) \in Seq(Nat) /\ U \in Seq(Nat)
  BY <1>1, <1>4, NumbersStep
<1>6. W \in Seq(Nat)
  BY <1>5, ConcatProperties
<1>7. pq_out_higher'[e] = Append(u, p)
  BY <1>1, <1>2
<1> HIDE DEF p
<1>8. HigherNumbers(Append(u, p)) = Append(U, k)
  BY <1>1, <1>3, NumbersStep DEF Add
<1>9. W \o Append(U, k) = Append(W \o U, k)
  <2> HIDE DEF W, U, k
  <2>1. PICK b \in Seq(Nat) : b = <<k>>
    <3>1. k \in Nat
      BY <1>3
    <3>2. <<k>> \in Seq(Nat)
      BY <3>1
    <3> QED BY <3>2
  <2>2. PICK a \in Seq(Nat) : a = W
    BY <1>6
  <2>3. PICK c \in Seq(Nat) : c = U
    BY <1>5
  <2>4. Append(c, k) = c \o <<k>>
    BY <1>3, AppendIsConcat
  <2>5. a \o c \in Seq(Nat)
    BY ConcatProperties
  <2>6. Append(a \o c, k) = (a \o c) \o <<k>>
    BY <1>3, <2>5, AppendIsConcat
  <2>7. (a \o c) \o b = a \o (c \o b)
    BY Regroup3
  <2> QED BY <2>1, <2>2, <2>3, <2>4, <2>6, <2>7, Zenon
<1> QED BY <1>2, <1>7, <1>8, <1>9 DEF Behind

\* One step of the stream: a packet joins those on their way from e, or some of
\* them arrive, or nothing happens to it.
Joins(e) ==
    /\ InTransit(e)' = Append(InTransit(e), sent[e] + 1)
    /\ sent' = [sent EXCEPT ![e] = @ + 1]
    /\ UNCHANGED higher

Arrive(e) ==
    /\ \E c \in Seq(Nat) : /\ higher'[Peer(e)] = higher[Peer(e)] \o c
                           /\ InTransit(e) = c \o InTransit(e)'
    /\ UNCHANGED sent

Rests(e) == InTransit(e)' = InTransit(e) /\ higher'[Peer(e)] = higher[Peer(e)]

\* Every step is one of these in one direction and leaves the other alone.
LEMMA StreamStep ==
    ASSUME KexInv, KexInv', [Next]_vars
    PROVE  \/ UNCHANGED sent /\ \A f \in Ends : Rests(f)
           \/ \E f \in Ends : (Joins(f) \/ Arrive(f)) /\ Rests(Peer(f))
<1>1. CASE UNCHANGED vars
  BY <1>1 DEF vars, Rests, InTransit, Underway
<1>2. CASE Next
  <2>1. PICK e \in Ends : OwnStep(e) \/ HandleInput(e)
    BY <1>2 DEF Next, OwnStep
  <2> DEFINE p == Peer(e)
             B(f) == Behind(wire[f], out_pq[f], pq_out_higher[f])
             C(f) == Behind(wire'[f], out_pq'[f], pq_out_higher'[f])
             X(f) == HigherNumbers(in_pq[f])
             Y(f) == HigherNumbers(in_pq'[f])
  <2>2. p \in Ends /\ Peer(p) = e /\ (\A f \in Ends : f = e \/ f = p) /\ TypeOK /\ TypeOK'
    BY PeerIs DEF KexInv, Ends
  <2>3. /\ InTransit(e) = X(p) \o B(e) /\ InTransit(e)' = Y(p) \o C(e)
        /\ B(e) \in Seq(Nat) /\ X(p) \in Seq(Nat) /\ sent[e] \in Nat
    BY <2>2, InTransitIs DEF TypeOK
  <2>4. /\ InTransit(p) = X(e) \o B(p) /\ InTransit(p)' = Y(e) \o C(p)
        /\ B(p) \in Seq(Nat) /\ Y(e) \in Seq(Nat) /\ C(p) \in Seq(Nat)
    <3>1. /\ InTransit(p) = X(Peer(p)) \o B(p) /\ InTransit(p)' = Y(Peer(p)) \o C(p)
          /\ B(p) \in Seq(Nat) /\ Y(Peer(p)) \in Seq(Nat) /\ C(p) \in Seq(Nat)
      <4> HIDE DEF p
      <4> QED BY <2>2, InTransitIs
    <3> QED BY <2>2, <3>1
  <2>5. CASE HandleInput(e)
    <3>1. UNCHANGED <<higher, sent>> /\ InTransit(e)' = InTransit(e) /\ InTransit(p)' = InTransit(p)
      BY <2>5, InputSide
    <3>2. Rests(e) /\ Rests(p)
      BY <3>1 DEF Rests
    <3> QED BY <2>2, <3>1, <3>2
  <2>6. CASE HigherLayerSend(e)
    <3>1. UNCHANGED <<in_pq, higher>> /\ sent' = [sent EXCEPT ![e] = @ + 1] /\ C(e) = Append(B(e), sent[e] + 1)
      BY <2>6, SendSide
    <3>2. C(p) = B(p)
      BY <2>6, BehindKept DEF OwnStep
    <3>3. Rests(p)
      <4>1. Y(e) = X(e)
        BY <3>1
      <4> HIDE DEF B, C, X, Y, p
      <4> QED BY <2>2, <2>4, <3>1, <3>2, <4>1 DEF Rests
    <3>4. Joins(e)
      <4>1. Y(p) = X(p) /\ sent[e] + 1 \in Nat
        BY <2>3, <3>1
      <4> DEFINE k == sent[e] + 1
      <4> HIDE DEF B, C, X, Y, p
      <4>2. PICK a \in Seq(Nat) : a = X(p)
        BY <2>3
      <4>3. PICK c \in Seq(Nat) : c = B(e)
        BY <2>3
      <4>4. a \o Append(c, k) = Append(a \o c, k)
        <5> HIDE DEF k
        <5>1. k \in Nat
          BY <4>1 DEF k
        <5>2. PICK b \in Seq(Nat) : b = <<k>>
          <6>1. <<k>> \in Seq(Nat)
            BY <5>1
          <6> QED BY <6>1
        <5>3. Append(c, k) = c \o <<k>>
          BY <5>1, AppendIsConcat
        <5>4. a \o c \in Seq(Nat)
          BY ConcatProperties
        <5>5. Append(a \o c, k) = (a \o c) \o <<k>>
          BY <5>1, <5>4, AppendIsConcat
        <5>6. (a \o c) \o b = a \o (c \o b)
          BY Regroup3
        <5> QED BY <5>2, <5>3, <5>5, <5>6, Zenon
      <4> QED BY <2>3, <3>1, <4>1, <4>2, <4>3, <4>4, Zenon DEF Joins, k
    <3> QED BY <3>3, <3>4
  <2>7. CASE OwnStep(e) /\ ~HigherLayerSend(e)
    <3>1. C(e) = B(e) /\ UNCHANGED sent /\ C(p) = B(p)
      BY <2>7, BehindKept
    <3>2. Y(p) = X(p) /\ higher'[p] = higher[p]
      BY <2>7, ReadSide
    <3>3. Rests(e)
      <4> HIDE DEF B, C, X, Y, p
      <4>1. InTransit(e)' = InTransit(e)
        BY <2>3, <3>1, <3>2, Zenon
      <4> QED BY <3>2, <4>1 DEF Rests, p
    <3>4. CASE UNCHANGED <<in_pq, higher>>
      <4>1. Y(e) = X(e) /\ higher'[e] = higher[e]
        BY <3>4
      <4> HIDE DEF B, C, X, Y, p
      <4>2. InTransit(p)' = InTransit(p)
        BY <2>4, <3>1, <4>1, Zenon
      <4>3. Rests(p)
        BY <2>2, <4>1, <4>2 DEF Rests
      <4> QED BY <2>2, <3>1, <3>3, <4>3
    <3>5. CASE \E c \in Seq(Nat) : higher'[e] = higher[e] \o c /\ X(e) = c \o Y(e)
      <4>1. PICK c \in Seq(Nat) : higher'[e] = higher[e] \o c /\ X(e) = c \o Y(e)
        BY <3>5
      <4> HIDE DEF B, C, X, Y, p
      <4>2. PICK a \in Seq(Nat) : a = Y(e)
        BY <2>4
      <4>3. PICK b \in Seq(Nat) : b = C(p)
        BY <2>4
      <4>4. (c \o a) \o b = c \o (a \o b)
        BY Regroup3
      <4>5. InTransit(p) = c \o InTransit(p)'
        BY <2>4, <3>1, <4>1, <4>2, <4>3, <4>4, Zenon
      <4>6. Arrive(p)
        BY <2>2, <3>1, <4>1, <4>5 DEF Arrive
      <4> QED BY <2>2, <3>3, <4>6
    <3> QED BY <2>7, <3>4, <3>5, ReadSide
  <2> QED BY <2>1, <2>5, <2>6, <2>7
<1> QED BY <1>1, <1>2

\* Every packet pushed has arrived or is on its way.
Counted(e) == sent[e] = Len(higher[Peer(e)]) + Len(InTransit(e))

StreamInv == KexInv /\ \A e \in Ends : Counted(e)

\* Nothing is on its way at first.
LEMMA NothingAtFirst ==
    ASSUME Init, NEW e \in Ends
    PROVE  InTransit(e) = <<>> /\ higher[Peer(e)] = <<>> /\ Len(<<>>) = 0
<1>1. /\ Peer(e) \in Ends /\ in_pq[Peer(e)] = <<>> /\ wire[e] = <<>> /\ out_pq[e] = <<>> /\ pq_out_higher[e] = <<>>
      /\ higher[Peer(e)] = <<>>
  BY PeerIs DEF Init
<1>2. KexInv
  BY KexInit
<1>3. Plain(wire[e]) = <<>>
  <2>1. wire[e] \in Seq(Wired)
    BY <1>2 DEF KexInv, TypeOK, Wired
  <2>2. Plain(wire[e]) \in Seq(Packet) /\ Len(Plain(wire[e])) = Len(wire[e])
    BY <2>1, PlainIs
  <2>3. Len(wire[e]) = 0
    BY <1>1
  <2> QED BY <2>2, <2>3, EmptySeq
<1>4. ((<<>> \o <<>>) \o <<>>) \o <<>> = <<>>
  OBVIOUS
<1>5. InTransit(e) = HigherNumbers(<<>>)
  BY <1>1, <1>3, <1>4 DEF InTransit, Underway
<1> QED BY <1>1, <1>5, NumbersStep

\* The count is kept.
LEMMA CountedNext ==
    ASSUME StreamInv, [Next]_vars
    PROVE  StreamInv'
<1>1. KexInv /\ KexInv' /\ \A e \in Ends : sent[e] = Len(higher[Peer(e)]) + Len(InTransit(e))
  BY KexNext DEF StreamInv, Counted
<1>2. /\ sent \in [Ends -> Nat] /\ TypeOK /\ TypeOK'
      /\ \A e \in Ends : Peer(e) \in Ends /\ Peer(e) # e /\ \A f \in Ends : f = e \/ f = Peer(e)
  BY <1>1, PeerIs DEF KexInv, TypeOK, Ends
<1>3. \A e \in Ends : /\ InTransit(e) \in Seq(Nat) /\ InTransit(e)' \in Seq(Nat)
                      /\ higher[Peer(e)] \in Seq(Nat)
  BY <1>2, InTransitIs DEF TypeOK
<1>4. ASSUME NEW f \in Ends, Rests(f), sent'[f] = sent[f] PROVE Counted(f)'
  <2>1. Len(InTransit(f))' = Len(InTransit(f)) /\ Len(higher[Peer(f)])' = Len(higher[Peer(f)])
    BY <1>4 DEF Rests
  <2> QED BY <1>1, <1>4, <2>1 DEF Counted
<1>5. CASE UNCHANGED sent /\ \A f \in Ends : Rests(f)
  <2>1. \A f \in Ends : Counted(f)'
    BY <1>4, <1>5
  <2> QED BY <1>1, <2>1 DEF StreamInv
<1>6. ASSUME NEW f \in Ends, Joins(f), Rests(Peer(f)) PROVE StreamInv'
  <2> DEFINE a == InTransit(f)
             k == sent[f] + 1
  <2>1. a \in Seq(Nat) /\ k \in Nat /\ sent[f] \in Nat /\ Len(a) \in Nat /\ Len(higher[Peer(f)]) \in Nat
    BY <1>2, <1>3, LenProperties
  <2>2. InTransit(f)' = Append(a, k) /\ sent'[f] = sent[f] + 1 /\ sent'[Peer(f)] = sent[Peer(f)] /\ UNCHANGED higher
    BY <1>2, <1>6 DEF Joins
  <2>3. Len(Append(a, k)) = Len(a) + 1
    <3> HIDE DEF a, k
    <3> QED BY <2>1, AppendProperties
  <2>4. Counted(f)'
    <3>1. sent[f] = Len(higher[Peer(f)]) + Len(a)
      BY <1>1
    <3>2. Len(InTransit(f)') = Len(a) + 1
      BY <2>2, <2>3
    <3>3. sent'[f] = Len(higher'[Peer(f)]) + Len(InTransit(f)')
      <4>1. Len(higher'[Peer(f)]) = Len(higher[Peer(f)]) /\ sent'[f] = sent[f] + 1
        BY <2>2
      <4>2. PICK n \in Nat : n = Len(higher[Peer(f)])
        BY <2>1
      <4>3. PICK m \in Nat : m = Len(a)
        BY <2>1
      <4>4. (n + m) + 1 = n + (m + 1)
        OBVIOUS
      <4> HIDE DEF a, k
      <4> QED BY <3>1, <3>2, <4>1, <4>2, <4>3, <4>4, Zenon
    <3> QED BY <3>3 DEF Counted
  <2>5. Counted(Peer(f))'
    BY <1>2, <1>4, <1>6, <2>2
  <2> QED BY <1>1, <1>2, <2>4, <2>5 DEF StreamInv
<1>7. ASSUME NEW f \in Ends, Arrive(f), Rests(Peer(f)) PROVE StreamInv'
  <2>1. PICK c \in Seq(Nat) : higher'[Peer(f)] = higher[Peer(f)] \o c /\ InTransit(f) = c \o InTransit(f)'
    BY <1>7 DEF Arrive
  <2>2. UNCHANGED sent
    BY <1>7 DEF Arrive
  <2>3. PICK a \in Seq(Nat) : a = InTransit(f)'
    BY <1>3
  <2>4. PICK h \in Seq(Nat) : h = higher[Peer(f)]
    BY <1>3
  <2>5. Len(c \o a) = Len(c) + Len(a) /\ Len(h \o c) = Len(h) + Len(c) /\ Len(c) \in Nat /\ Len(a) \in Nat /\ Len(h) \in Nat
    BY Cut
  <2>6. sent[f] = Len(h) + Len(c \o a)
    BY <1>1, <2>1, <2>3, <2>4
  <2>7. sent[f] = Len(h \o c) + Len(a)
    BY <2>5, <2>6
  <2>8. Counted(f)'
    BY <2>1, <2>2, <2>3, <2>4, <2>7 DEF Counted
  <2>9. Counted(Peer(f))'
    BY <1>2, <1>4, <1>7, <2>2
  <2> QED BY <1>1, <1>2, <2>8, <2>9 DEF StreamInv
<1> QED BY <1>1, <1>5, <1>6, <1>7, StreamStep

\* A step of the transport layer is one of PacketStream, or none.
LEMMA StreamNext ==
    ASSUME StreamInv, [Next]_vars
    PROVE  [Stream!Next]_(Stream!svars)
<1> DEFINE T == [e \in Ends |-> InTransit(e)]
           D == [e \in Ends |-> higher[Peer(e)]]
           T2 == [e \in Ends |-> InTransit(e)']
           D2 == [e \in Ends |-> higher'[Peer(e)]]
<1>1. KexInv /\ KexInv' /\ \A e \in Ends : sent[e] = Len(higher[Peer(e)]) + Len(InTransit(e))
  BY KexNext DEF StreamInv, Counted
<1>2. /\ \A e \in Ends : Peer(e) \in Ends /\ \A f \in Ends : f = e \/ f = Peer(e)
      /\ TypeOK /\ TypeOK'
  BY <1>1, PeerIs DEF KexInv, Ends
<1>3. \A e \in Ends : InTransit(e) \in Seq(Nat) /\ InTransit(e)' \in Seq(Nat)
  BY <1>2, InTransitIs
<1>4. T' = T2 /\ D' = D2
  OBVIOUS
<1>5. CASE \A f \in Ends : Rests(f)
  <2>1. T2 = T /\ D2 = D
    BY <1>5 DEF Rests
  <2>2. UNCHANGED Stream!svars
    BY <1>4, <2>1 DEF Stream!svars
  <2> QED BY <2>2
<1>6. ASSUME NEW f \in Ends, Joins(f), Rests(Peer(f)) PROVE Stream!Next
  <2>1. InTransit(f)' = Append(InTransit(f), Len(higher[Peer(f)]) + Len(InTransit(f)) + 1) /\ UNCHANGED higher
    BY <1>1, <1>6 DEF Joins
  <2>2. InTransit(Peer(f))' = InTransit(Peer(f))
    BY <1>6 DEF Rests
  <2>3. D2 = D
    BY <2>1
  <2>4. T2 = [T EXCEPT ![f] = Append(@, Len(D[f]) + Len(T[f]) + 1)]
    <3>1. ASSUME NEW e \in Ends
          PROVE  InTransit(e)' = [T EXCEPT ![f] = Append(@, Len(D[f]) + Len(T[f]) + 1)][e]
      <4>1. CASE e = f
        BY <2>1, <4>1
      <4>2. CASE e # f
        BY <1>2, <2>2, <4>2
      <4> QED BY <4>1, <4>2
    <3> DEFINE R == [T EXCEPT ![f] = Append(@, Len(D[f]) + Len(T[f]) + 1)]
    <3>2. R = [e \in Ends |-> R[e]]
      OBVIOUS
    <3> HIDE DEF R
    <3>3. \A e \in Ends : InTransit(e)' = R[e]
      BY <3>1 DEF R
    <3> QED BY <3>2, <3>3, Zenon DEF R
  <2>5. Stream!Send(f)
    BY <1>4, <2>3, <2>4 DEF Stream!Send
  <2> QED BY <2>5 DEF Stream!Next
<1>7. ASSUME NEW f \in Ends, Arrive(f), Rests(Peer(f)) PROVE [Stream!Next]_(Stream!svars)
  <2>1. PICK c \in Seq(Nat) : higher'[Peer(f)] = higher[Peer(f)] \o c /\ InTransit(f) = c \o InTransit(f)'
    BY <1>7 DEF Arrive
  <2>2. InTransit(Peer(f))' = InTransit(Peer(f)) /\ higher'[Peer(Peer(f))] = higher[Peer(Peer(f))]
    BY <1>7 DEF Rests
  <2>3. CASE c = <<>>
    <3>1. higher'[Peer(f)] = higher[Peer(f)] /\ InTransit(f) = InTransit(f)'
      <4>1. higher[Peer(f)] \in Seq(Nat)
        BY <1>2 DEF TypeOK
      <4>2. higher[Peer(f)] \o <<>> = higher[Peer(f)]
        BY <4>1, ConcatEmptySeq
      <4>3. PICK a \in Seq(Nat) : a = InTransit(f)'
        BY <1>3
      <4>4. <<>> \o a = a
        BY ConcatEmptySeq
      <4> QED BY <2>1, <2>3, <4>2, <4>3, <4>4, Zenon
    <3>2. \A e \in Ends : Rests(e)
      BY <1>2, <1>7, <3>1 DEF Rests
    <3> QED BY <1>5, <3>2
  <2>4. CASE c # <<>>
    <3> DEFINE n == Len(c)
    <3>1. PICK a \in Seq(Nat) : a = InTransit(f)'
      BY <1>3
    <3>2. InTransit(f) = c \o a
      BY <2>1, <3>1
    <3>3. /\ Len(c \o a) = n + Len(a) /\ n \in Nat /\ Len(a) \in Nat
          /\ SubSeq(c \o a, 1, n) = c /\ SubSeq(c \o a, n + 1, Len(c \o a)) = a
      BY Cut
    <3>4. n # 0
      BY <2>4, EmptySeq
    <3> HIDE DEF n
    <3>5. n \in 1 .. Len(c \o a)
      BY <3>3, <3>4
    <3>6. T[f] = c \o a /\ D[f] = higher[Peer(f)]
      BY <3>2
    <3>7. D2 = [D EXCEPT ![f] = @ \o SubSeq(T[f], 1, n)]
      <4> DEFINE R == [D EXCEPT ![f] = @ \o SubSeq(T[f], 1, n)]
      <4>1. R = [e \in Ends |-> R[e]]
        OBVIOUS
      <4>2. R[f] = D[f] \o SubSeq(T[f], 1, n) /\ \A e \in Ends : e # f => R[e] = D[e]
        OBVIOUS
      <4> HIDE DEF R, T
      <4>3. R[f] = higher'[Peer(f)]
        <5>1. SubSeq(T[f], 1, n) = c
          BY <3>3, <3>6, Zenon
        <5> HIDE DEF D
        <5> QED BY <2>1, <3>6, <4>2, <5>1, Zenon
      <4>4. \A e \in Ends : R[e] = higher'[Peer(e)]
        <5>1. \A e \in Ends : e # f => D[e] = higher'[Peer(e)]
          BY <1>2, <2>2
        <5> HIDE DEF D
        <5> QED BY <4>2, <4>3, <5>1, Zenon
      <4>5. D2 = R
        <5> HIDE DEF D
        <5> QED BY <4>1, <4>4, Zenon
      <4> QED BY <4>5 DEF R
    <3>8. T2 = [T EXCEPT ![f] = SubSeq(@, n + 1, Len(@))]
      <4> DEFINE R == [T EXCEPT ![f] = SubSeq(@, n + 1, Len(@))]
      <4>1. R = [e \in Ends |-> R[e]]
        OBVIOUS
      <4>2. R[f] = SubSeq(T[f], n + 1, Len(T[f])) /\ \A e \in Ends : e # f => R[e] = T[e]
        OBVIOUS
      <4>3. \A e \in Ends : e # f => T[e] = InTransit(e)'
        BY <1>2, <2>2
      <4> HIDE DEF R, T
      <4>4. R[f] = InTransit(f)'
        BY <3>1, <3>3, <3>6, <4>2, Zenon
      <4>5. \A e \in Ends : R[e] = InTransit(e)'
        BY <4>2, <4>3, <4>4, Zenon
      <4>6. T2 = R
        BY <4>1, <4>5, Zenon
      <4> QED BY <4>6 DEF R
    <3>9. Stream!Deliver(f)
      <4>1. n \in 1 .. Len(T[f])
        <5> HIDE DEF T
        <5> QED BY <3>5, <3>6
      <4>2. /\ D' = [D EXCEPT ![f] = @ \o SubSeq(T[f], 1, n)]
            /\ T' = [T EXCEPT ![f] = SubSeq(@, n + 1, Len(@))]
        <5> HIDE DEF D, D2, T, T2
        <5> QED BY <1>4, <3>7, <3>8, Zenon
      <4> QED BY <4>1, <4>2 DEF Stream!Deliver
    <3> QED BY <3>9 DEF Stream!Next
  <2> QED BY <2>3, <2>4
<1> QED BY <1>1, <1>5, <1>6, <1>7, StreamStep

\* The higher layers see an ordered, lossless stream of packets: whatever keys
\* are exchanged meanwhile, what one end's layer pushes reaches the other's once
\* and in its order (ssh2_transport_process_queue and filter_queue, pq_out_higher,
\* and the BPP's handle_input and handle_output implement PacketStream).
THEOREM TransportIsAStream == Spec => ImplementsStream
<1>1. Init => StreamInv
  <2> SUFFICES ASSUME Init PROVE StreamInv
    OBVIOUS
  <2>1. ASSUME NEW e \in Ends PROVE Counted(e)
    <3>1. InTransit(e) = <<>> /\ higher[Peer(e)] = <<>> /\ Len(<<>>) = 0 /\ sent[e] = 0
      BY NothingAtFirst DEF Init
    <3> QED BY <3>1 DEF Counted
  <2> QED BY <2>1, KexInit DEF StreamInv
<1>2. StreamInv /\ [Next]_vars => StreamInv'
  BY CountedNext
<1>3. Init => Stream!Init
  BY NothingAtFirst DEF Stream!Init
<1>4. StreamInv /\ [Next]_vars => [Stream!Next]_(Stream!svars)
  BY StreamNext
<1> QED BY <1>1, <1>2, <1>3, <1>4, PTL DEF Spec, ImplementsStream, Stream!Spec

-----------------------------------------------------------------------------
(* What makes an end start a key exchange again (RekeyTimer): for all      *)
(* settings of times and limits, none of the reasons is lost.              *)

Expired(d) == stats[d].expired

\* The user and the timer act only after login, when compression has started;
\* a key exchange that is wanted then is under way, or the coroutine will run.
Wanted ==
    /\ kex = "none" => /\ class # "SERVER" /\ ~deferred
                       /\ class = "NORMAL" => callback /\ login = "done"
    /\ login # "done" /\ left = 0 => conf.time = 0
    /\ stale /\ ~remote_bug =>
           IF kex = "none" THEN class = "NORMAL" /\ callback ELSE deferred

\* The timer runs exactly when the time is up.
Exact == ~remote_bug /\ conf.time # 0 /\ ~Rekey!Underway => left >= 0 /\ since + left = conf.time

\* Every counter runs until it has expired.
Counting ==
    Rekey!CountersExact /\ \A d \in Rekey!Directions : stats[d].running \/ stats[d].expired

\* What has been sent, and what the BPP is about to send.
Bounded ==
    /\ login = "service" => ~stats["in"].expired
    /\ kex = "none" /\ ~callback => ~stats["in"].expired
    /\ kex = "newkeys" => count["out"] + sending <= MaxQueued
    /\ kex = "none" /\ class # "NORMAL" => count["out"] + sending <= max_data_size + MaxQueued

RekeyInv ==
    /\ Rekey!TypeOK /\ queued \in Nat /\ sending \in Nat
    /\ login = "done" => ~compression
    /\ ~DuringLogin => Wanted
    /\ ~DuringLogin /\ ~SameTime => Exact
    /\ 0 \notin Limits => Counting
    /\ 0 \notin Limits /\ ~DuringLogin => Bounded

\* The largest settings are settings.
LEMMA Largests ==
    ASSUME Rekey!ParamAssumption
    PROVE  /\ Rekey!Longest \in Times /\ Rekey!Longest \in Nat
           /\ \A m \in Times : m \in Nat /\ m <= Rekey!Longest
           /\ Rekey!Largest \in Limits /\ Rekey!Largest \in Nat
           /\ \A m \in Limits : m \in Nat /\ m <= Rekey!Largest
           /\ MaxQueued \in Nat \ {0}
BY DEF Rekey!ParamAssumption, Rekey!Longest, Rekey!Largest

Stat == [running : BOOLEAN, expired : BOOLEAN, remaining : Nat]

\* dts_reset makes a counter.
LEMMA ResetType ==
    ASSUME NEW size \in Nat
    PROVE  Rekey!dts_reset(size) \in Stat
BY DEF Rekey!dts_reset, Stat

\* dts_consume keeps it one.
LEMMA ConsumeType ==
    ASSUME NEW s \in Stat, NEW size \in Nat
    PROVE  Rekey!dts_consume(s, size) \in Stat
<1>1. CASE s.running /\ ~(s.remaining <= size)
  <2>1. s.remaining - size \in Nat
    BY <1>1 DEF Stat
  <2>2. Rekey!dts_consume(s, size) = [s EXCEPT !.remaining = s.remaining - size]
    BY <1>1 DEF Rekey!dts_consume
  <2> QED
    BY <2>1, <2>2 DEF Stat
<1>2. CASE ~(s.running /\ ~(s.remaining <= size))
  BY <1>2 DEF Rekey!dts_consume, Stat
<1> QED
  BY <1>1, <1>2

\* So does a changed limit (ssh2_transport_reconfigure).
LEMMA AdjustedType ==
    ASSUME NEW s \in Stat, NEW old \in Nat, NEW new \in Nat
    PROVE  Rekey!Adjusted(s, old, new) \in Stat
<1>1. CASE new < old
  <2>1. old - new \in Nat
    BY <1>1
  <2> QED
    BY <1>1, <2>1, ConsumeType DEF Rekey!Adjusted
<1>2. CASE new > old
  <2>1. s.remaining + (new - old) \in Nat
    BY <1>2 DEF Stat
  <2> QED
    BY <1>2, <2>1 DEF Rekey!Adjusted, Stat
<1>3. CASE new = old
  BY <1>3 DEF Rekey!Adjusted
<1> QED
  BY <1>1, <1>2, <1>3

\* The types of the settings.
LEMMA SettingsStep ==
    ASSUME Rekey!ParamAssumption, Rekey!TypeOK, queued \in Nat, sending \in Nat,
           login = "done" => ~compression, Rekey!Next
    PROVE  (conf \in [time : Times, data : Limits] /\ max_data_size \in Limits)'
<1> USE Largests DEF Rekey!rekey, Rekey!history, Rekey!queues, Rekey!fixed
<1>1. CASE Rekey!Timer
  BY <1>1 DEF Rekey!Timer, Rekey!QueueRekey, Rekey!TimerUpdate, Rekey!TypeOK
<1>2. CASE Rekey!Tick
  BY <1>2 DEF Rekey!Tick, Rekey!Capped, Rekey!TypeOK
<1>3. CASE Rekey!StartHigherLayer
  BY <1>3 DEF Rekey!StartHigherLayer, Rekey!TypeOK
<1>4. CASE Rekey!ProcessQueue
  BY <1>4
  DEF Rekey!ProcessQueue, Rekey!Waiting, Rekey!Idle, Rekey!Decided,
      Rekey!BeginKeyExchange, Rekey!TimerUpdate, Rekey!dts_reset, Rekey!TypeOK
<1>5. CASE Rekey!RecvKexinit
  BY <1>5
  DEF Rekey!RecvKexinit, Rekey!Waiting, Rekey!Idle, Rekey!Decided,
      Rekey!BeginKeyExchange, Rekey!TimerUpdate, Rekey!dts_reset, Rekey!TypeOK
<1>6. CASE Rekey!SendNewkeys
  BY <1>6 DEF Rekey!SendNewkeys, Rekey!dts_consume, Rekey!dts_reset, Rekey!TypeOK
<1>7. CASE Rekey!RecvNewkeys
  BY <1>7
  DEF Rekey!RecvNewkeys, Rekey!dts_reset, Rekey!BeginKeyExchange, Rekey!TimerUpdate,
      Rekey!TypeOK
<1>8. CASE Rekey!RecvPacket
  BY <1>8
  DEF Rekey!RecvPacket, Rekey!dts_consume, Rekey!Count, Rekey!Capped, Rekey!TypeOK
<1>9. CASE Rekey!HigherLayerSend
  BY <1>9 DEF Rekey!HigherLayerSend, Rekey!TypeOK
<1>10. CASE Rekey!HandleOutput
  BY <1>10
  DEF Rekey!HandleOutput, Rekey!dts_consume, Rekey!Count, Rekey!Capped, Rekey!TypeOK
<1>11. CASE Rekey!NotifyAuthDone
  BY <1>11 DEF Rekey!NotifyAuthDone, Rekey!TypeOK
<1>12. CASE Rekey!SpecialCmdRekey
  BY <1>12 DEF Rekey!SpecialCmdRekey, Rekey!UserActs, Rekey!QueueRekey, Rekey!TypeOK
<1>13. CASE \E new \in [time : Times, data : Limits], m \in BOOLEAN : Rekey!Reconfigure(new, m)
  BY <1>13
  DEF Rekey!Reconfigure, Rekey!UserActs, Rekey!TimerUpdate, Rekey!Adjusted,
      Rekey!dts_consume, Rekey!QueueRekey, Rekey!TypeOK
<1> QED
  BY <1>1, <1>2, <1>3, <1>4, <1>5, <1>6, <1>7, <1>8, <1>9, <1>10, <1>11, <1>12,
     <1>13
  DEF Rekey!Next

\* The types of the states; nothing is compressed late once login is over.
LEMMA StatesStep ==
    ASSUME Rekey!ParamAssumption, Rekey!TypeOK, queued \in Nat, sending \in Nat,
           login = "done" => ~compression, Rekey!Next
    PROVE  (/\ class \in {"NONE", "NORMAL", "SERVER", "POST_USERAUTH"}
            /\ kex \in {"none", "kexinit", "newkeys"}
            /\ login \in {"service", "auth", "done"}
            /\ login = "done" => ~compression)'
<1> USE Largests DEF Rekey!rekey, Rekey!history, Rekey!queues, Rekey!fixed
<1>1. CASE Rekey!Timer
  BY <1>1 DEF Rekey!Timer, Rekey!QueueRekey, Rekey!TimerUpdate, Rekey!TypeOK
<1>2. CASE Rekey!Tick
  BY <1>2 DEF Rekey!Tick, Rekey!Capped, Rekey!TypeOK
<1>3. CASE Rekey!StartHigherLayer
  BY <1>3 DEF Rekey!StartHigherLayer, Rekey!TypeOK
<1>4. CASE Rekey!ProcessQueue
  BY <1>4
  DEF Rekey!ProcessQueue, Rekey!Waiting, Rekey!Idle, Rekey!Decided,
      Rekey!BeginKeyExchange, Rekey!TimerUpdate, Rekey!dts_reset, Rekey!TypeOK
<1>5. CASE Rekey!RecvKexinit
  BY <1>5
  DEF Rekey!RecvKexinit, Rekey!Waiting, Rekey!Idle, Rekey!Decided,
      Rekey!BeginKeyExchange, Rekey!TimerUpdate, Rekey!dts_reset, Rekey!TypeOK
<1>6. CASE Rekey!SendNewkeys
  BY <1>6 DEF Rekey!SendNewkeys, Rekey!dts_consume, Rekey!dts_reset, Rekey!TypeOK
<1>7. CASE Rekey!RecvNewkeys
  BY <1>7
  DEF Rekey!RecvNewkeys, Rekey!dts_reset, Rekey!BeginKeyExchange, Rekey!TimerUpdate,
      Rekey!TypeOK
<1>8. CASE Rekey!RecvPacket
  BY <1>8
  DEF Rekey!RecvPacket, Rekey!dts_consume, Rekey!Count, Rekey!Capped, Rekey!TypeOK
<1>9. CASE Rekey!HigherLayerSend
  BY <1>9 DEF Rekey!HigherLayerSend, Rekey!TypeOK
<1>10. CASE Rekey!HandleOutput
  BY <1>10
  DEF Rekey!HandleOutput, Rekey!dts_consume, Rekey!Count, Rekey!Capped, Rekey!TypeOK
<1>11. CASE Rekey!NotifyAuthDone
  BY <1>11 DEF Rekey!NotifyAuthDone, Rekey!TypeOK
<1>12. CASE Rekey!SpecialCmdRekey
  BY <1>12 DEF Rekey!SpecialCmdRekey, Rekey!UserActs, Rekey!QueueRekey, Rekey!TypeOK
<1>13. CASE \E new \in [time : Times, data : Limits], m \in BOOLEAN : Rekey!Reconfigure(new, m)
  <2> PICK new \in [time : Times, data : Limits], m \in BOOLEAN : Rekey!Reconfigure(new, m)
    BY <1>13
  <2> QED
    BY DEF Rekey!Reconfigure, Rekey!QueueRekey, Rekey!TypeOK
<1> QED
  BY <1>1, <1>2, <1>3, <1>4, <1>5, <1>6, <1>7, <1>8, <1>9, <1>10, <1>11, <1>12,
     <1>13
  DEF Rekey!Next

\* The types of the flags.
LEMMA FlagsStep ==
    ASSUME Rekey!ParamAssumption, Rekey!TypeOK, queued \in Nat, sending \in Nat,
           login = "done" => ~compression, Rekey!Next
    PROVE  ({deferred, compression, remote_bug, callback, stale, asked} \subseteq BOOLEAN)'
<1> USE Largests DEF Rekey!rekey, Rekey!history, Rekey!queues, Rekey!fixed
<1>1. CASE Rekey!Timer
  BY <1>1 DEF Rekey!Timer, Rekey!QueueRekey, Rekey!TimerUpdate, Rekey!TypeOK
<1>2. CASE Rekey!Tick
  BY <1>2 DEF Rekey!Tick, Rekey!Capped, Rekey!TypeOK
<1>3. CASE Rekey!StartHigherLayer
  BY <1>3 DEF Rekey!StartHigherLayer, Rekey!TypeOK
<1>4. CASE Rekey!ProcessQueue
  BY <1>4
  DEF Rekey!ProcessQueue, Rekey!Waiting, Rekey!Idle, Rekey!Decided,
      Rekey!BeginKeyExchange, Rekey!TimerUpdate, Rekey!dts_reset, Rekey!TypeOK
<1>5. CASE Rekey!RecvKexinit
  BY <1>5
  DEF Rekey!RecvKexinit, Rekey!Waiting, Rekey!Idle, Rekey!Decided,
      Rekey!BeginKeyExchange, Rekey!TimerUpdate, Rekey!dts_reset, Rekey!TypeOK
<1>6. CASE Rekey!SendNewkeys
  BY <1>6 DEF Rekey!SendNewkeys, Rekey!dts_consume, Rekey!dts_reset, Rekey!TypeOK
<1>7. CASE Rekey!RecvNewkeys
  BY <1>7
  DEF Rekey!RecvNewkeys, Rekey!dts_reset, Rekey!BeginKeyExchange, Rekey!TimerUpdate,
      Rekey!TypeOK
<1>8. CASE Rekey!RecvPacket
  BY <1>8
  DEF Rekey!RecvPacket, Rekey!dts_consume, Rekey!Count, Rekey!Capped, Rekey!TypeOK
<1>9. CASE Rekey!HigherLayerSend
  BY <1>9 DEF Rekey!HigherLayerSend, Rekey!TypeOK
<1>10. CASE Rekey!HandleOutput
  BY <1>10
  DEF Rekey!HandleOutput, Rekey!dts_consume, Rekey!Count, Rekey!Capped, Rekey!TypeOK
<1>11. CASE Rekey!NotifyAuthDone
  BY <1>11 DEF Rekey!NotifyAuthDone, Rekey!TypeOK
<1>12. CASE Rekey!SpecialCmdRekey
  BY <1>12 DEF Rekey!SpecialCmdRekey, Rekey!UserActs, Rekey!QueueRekey, Rekey!TypeOK
<1>13. CASE \E new \in [time : Times, data : Limits], m \in BOOLEAN : Rekey!Reconfigure(new, m)
  BY <1>13
  DEF Rekey!Reconfigure, Rekey!UserActs, Rekey!TimerUpdate, Rekey!Adjusted,
      Rekey!dts_consume, Rekey!QueueRekey, Rekey!TypeOK
<1> QED
  BY <1>1, <1>2, <1>3, <1>4, <1>5, <1>6, <1>7, <1>8, <1>9, <1>10, <1>11, <1>12,
     <1>13
  DEF Rekey!Next

\* The types of the counters.
LEMMA StatsStep ==
    ASSUME Rekey!ParamAssumption, Rekey!TypeOK, queued \in Nat, sending \in Nat,
           login = "done" => ~compression, Rekey!Next
    PROVE  (stats \in [Rekey!Directions -> Stat])'
<1>t. /\ stats \in [Rekey!Directions -> Stat] /\ max_data_size \in Nat /\ conf.data \in Nat
      /\ sending \in Nat
  BY Largests DEF Rekey!TypeOK, Stat
<1> USE <1>t, ResetType, ConsumeType, AdjustedType DEF Rekey!rekey, Rekey!history, Rekey!queues, Rekey!fixed
<1>1. CASE Rekey!Timer
  BY <1>1 DEF Rekey!Timer, Rekey!Directions
<1>2. CASE Rekey!Tick
  BY <1>2 DEF Rekey!Tick, Rekey!Capped, Rekey!Directions
<1>3. CASE Rekey!StartHigherLayer
  BY <1>3 DEF Rekey!StartHigherLayer, Rekey!Directions
<1>4. CASE Rekey!ProcessQueue
  BY <1>4
  DEF Rekey!ProcessQueue, Rekey!Waiting, Rekey!Idle, Rekey!Decided,
      Rekey!BeginKeyExchange, Rekey!Directions
<1>5. CASE Rekey!RecvKexinit
  BY <1>5
  DEF Rekey!RecvKexinit, Rekey!Waiting, Rekey!Idle, Rekey!Decided,
      Rekey!BeginKeyExchange, Rekey!Directions
<1>6. CASE Rekey!SendNewkeys
  BY <1>6 DEF Rekey!SendNewkeys, Rekey!Directions
<1>7. CASE Rekey!RecvNewkeys
  BY <1>7 DEF Rekey!RecvNewkeys, Rekey!BeginKeyExchange, Rekey!Directions
<1>8. CASE Rekey!RecvPacket
  BY <1>8 DEF Rekey!RecvPacket, Rekey!Count, Rekey!Capped, Rekey!Directions
<1>9. CASE Rekey!HigherLayerSend
  BY <1>9 DEF Rekey!HigherLayerSend, Rekey!Directions
<1>10. CASE Rekey!HandleOutput
  BY <1>10 DEF Rekey!HandleOutput, Rekey!Count, Rekey!Capped, Rekey!Directions
<1>11. CASE Rekey!NotifyAuthDone
  BY <1>11 DEF Rekey!NotifyAuthDone, Rekey!Directions
<1>12. CASE Rekey!SpecialCmdRekey
  BY <1>12 DEF Rekey!SpecialCmdRekey, Rekey!UserActs, Rekey!Directions
<1>13. CASE \E new \in [time : Times, data : Limits], m \in BOOLEAN : Rekey!Reconfigure(new, m)
  BY <1>13 DEF Rekey!Reconfigure, Rekey!UserActs, Rekey!Directions
<1> QED
  BY <1>1, <1>2, <1>3, <1>4, <1>5, <1>6, <1>7, <1>8, <1>9, <1>10, <1>11, <1>12,
     <1>13
  DEF Rekey!Next

\* The queues stay within their bound.
LEMMA QueuesStep ==
    ASSUME Rekey!ParamAssumption, Rekey!TypeOK, queued \in Nat, sending \in Nat,
           login = "done" => ~compression, Rekey!Next
    PROVE  (queued \in Nat /\ sending \in Nat /\ queued + sending \in 0 .. MaxQueued /\ batch \in 0 .. MaxQueued)'
<1> USE Largests DEF Rekey!rekey, Rekey!history, Rekey!queues, Rekey!fixed
<1>1. CASE Rekey!Timer
  BY <1>1 DEF Rekey!Timer, Rekey!QueueRekey, Rekey!TimerUpdate, Rekey!TypeOK
<1>2. CASE Rekey!Tick
  BY <1>2 DEF Rekey!Tick, Rekey!Capped, Rekey!TypeOK
<1>3. CASE Rekey!StartHigherLayer
  BY <1>3 DEF Rekey!StartHigherLayer, Rekey!TypeOK
<1>4. CASE Rekey!ProcessQueue
  BY <1>4
  DEF Rekey!ProcessQueue, Rekey!Waiting, Rekey!Idle, Rekey!Decided,
      Rekey!BeginKeyExchange, Rekey!TimerUpdate, Rekey!dts_reset, Rekey!TypeOK
<1>5. CASE Rekey!RecvKexinit
  BY <1>5
  DEF Rekey!RecvKexinit, Rekey!Waiting, Rekey!Idle, Rekey!Decided,
      Rekey!BeginKeyExchange, Rekey!TimerUpdate, Rekey!dts_reset, Rekey!TypeOK
<1>6. CASE Rekey!SendNewkeys
  BY <1>6 DEF Rekey!SendNewkeys, Rekey!dts_consume, Rekey!dts_reset, Rekey!TypeOK
<1>7. CASE Rekey!RecvNewkeys
  BY <1>7
  DEF Rekey!RecvNewkeys, Rekey!dts_reset, Rekey!BeginKeyExchange, Rekey!TimerUpdate,
      Rekey!TypeOK
<1>8. CASE Rekey!RecvPacket
  BY <1>8
  DEF Rekey!RecvPacket, Rekey!dts_consume, Rekey!Count, Rekey!Capped, Rekey!TypeOK
<1>9. CASE Rekey!HigherLayerSend
  BY <1>9 DEF Rekey!HigherLayerSend, Rekey!TypeOK
<1>10. CASE Rekey!HandleOutput
  BY <1>10
  DEF Rekey!HandleOutput, Rekey!dts_consume, Rekey!Count, Rekey!Capped, Rekey!TypeOK
<1>11. CASE Rekey!NotifyAuthDone
  BY <1>11 DEF Rekey!NotifyAuthDone, Rekey!TypeOK
<1>12. CASE Rekey!SpecialCmdRekey
  BY <1>12 DEF Rekey!SpecialCmdRekey, Rekey!UserActs, Rekey!QueueRekey, Rekey!TypeOK
<1>13. CASE \E new \in [time : Times, data : Limits], m \in BOOLEAN : Rekey!Reconfigure(new, m)
  BY <1>13
  DEF Rekey!Reconfigure, Rekey!UserActs, Rekey!TimerUpdate, Rekey!Adjusted,
      Rekey!dts_consume, Rekey!QueueRekey, Rekey!TypeOK
<1> QED
  BY <1>1, <1>2, <1>3, <1>4, <1>5, <1>6, <1>7, <1>8, <1>9, <1>10, <1>11, <1>12,
     <1>13
  DEF Rekey!Next

\* The types of the times.
LEMMA ClockStep ==
    ASSUME Rekey!ParamAssumption, Rekey!TypeOK, queued \in Nat, sending \in Nat,
           login = "done" => ~compression, Rekey!Next
    PROVE  (since \in 0 .. Rekey!MaxSince /\ left \in -1 .. Rekey!Longest)'
<1> USE Largests DEF Rekey!rekey, Rekey!history, Rekey!queues, Rekey!fixed
<1>1. CASE Rekey!Timer
  BY <1>1
  DEF Rekey!Timer, Rekey!QueueRekey, Rekey!TimerUpdate, Rekey!TypeOK, Rekey!MaxSince
<1>2. CASE Rekey!Tick
  BY <1>2 DEF Rekey!Tick, Rekey!Capped, Rekey!TypeOK, Rekey!MaxSince
<1>3. CASE Rekey!StartHigherLayer
  BY <1>3 DEF Rekey!StartHigherLayer, Rekey!TypeOK, Rekey!MaxSince
<1>4. CASE Rekey!ProcessQueue
  BY <1>4
  DEF Rekey!ProcessQueue, Rekey!Waiting, Rekey!Idle, Rekey!Decided,
      Rekey!BeginKeyExchange, Rekey!TimerUpdate, Rekey!dts_reset, Rekey!TypeOK,
      Rekey!MaxSince
<1>5. CASE Rekey!RecvKexinit
  BY <1>5
  DEF Rekey!RecvKexinit, Rekey!Waiting, Rekey!Idle, Rekey!Decided,
      Rekey!BeginKeyExchange, Rekey!TimerUpdate, Rekey!dts_reset, Rekey!TypeOK,
      Rekey!MaxSince
<1>6. CASE Rekey!SendNewkeys
  BY <1>6
  DEF Rekey!SendNewkeys, Rekey!dts_consume, Rekey!dts_reset, Rekey!TypeOK,
      Rekey!MaxSince
<1>7. CASE Rekey!RecvNewkeys
  BY <1>7
  DEF Rekey!RecvNewkeys, Rekey!dts_reset, Rekey!BeginKeyExchange, Rekey!TimerUpdate,
      Rekey!TypeOK, Rekey!MaxSince
<1>8. CASE Rekey!RecvPacket
  BY <1>8
  DEF Rekey!RecvPacket, Rekey!dts_consume, Rekey!Count, Rekey!Capped, Rekey!TypeOK,
      Rekey!MaxSince
<1>9. CASE Rekey!HigherLayerSend
  BY <1>9 DEF Rekey!HigherLayerSend, Rekey!TypeOK, Rekey!MaxSince
<1>10. CASE Rekey!HandleOutput
  BY <1>10
  DEF Rekey!HandleOutput, Rekey!dts_consume, Rekey!Count, Rekey!Capped,
      Rekey!TypeOK, Rekey!MaxSince
<1>11. CASE Rekey!NotifyAuthDone
  BY <1>11 DEF Rekey!NotifyAuthDone, Rekey!TypeOK, Rekey!MaxSince
<1>12. CASE Rekey!SpecialCmdRekey
  BY <1>12
  DEF Rekey!SpecialCmdRekey, Rekey!UserActs, Rekey!QueueRekey, Rekey!TypeOK,
      Rekey!MaxSince
<1>13. CASE \E new \in [time : Times, data : Limits], m \in BOOLEAN : Rekey!Reconfigure(new, m)
  <2> PICK new \in [time : Times, data : Limits], m \in BOOLEAN : Rekey!Reconfigure(new, m)
    BY <1>13
  <2>1. since' = since /\ (left' = left \/ left' = Rekey!TimerUpdate(new.time))
    BY DEF Rekey!Reconfigure
  <2> QED
    BY <2>1 DEF Rekey!TimerUpdate, Rekey!TypeOK, Rekey!MaxSince
<1> QED
  BY <1>1, <1>2, <1>3, <1>4, <1>5, <1>6, <1>7, <1>8, <1>9, <1>10, <1>11, <1>12,
     <1>13
  DEF Rekey!Next

\* The type of the counts.
LEMMA CountStep ==
    ASSUME Rekey!ParamAssumption, Rekey!TypeOK, queued \in Nat, sending \in Nat,
           login = "done" => ~compression, Rekey!Next
    PROVE  (count \in [Rekey!Directions -> 0 .. Rekey!MaxCount])'
<1> USE Largests DEF Rekey!rekey, Rekey!history, Rekey!queues, Rekey!fixed
<1>1. CASE Rekey!Timer
  BY <1>1
  DEF Rekey!Timer, Rekey!QueueRekey, Rekey!TimerUpdate, Rekey!TypeOK,
      Rekey!MaxCount, Rekey!Directions
<1>2. CASE Rekey!Tick
  BY <1>2
  DEF Rekey!Tick, Rekey!Capped, Rekey!TypeOK, Rekey!MaxCount, Rekey!Directions
<1>3. CASE Rekey!StartHigherLayer
  BY <1>3 DEF Rekey!StartHigherLayer, Rekey!TypeOK, Rekey!MaxCount, Rekey!Directions
<1>4. CASE Rekey!ProcessQueue
  BY <1>4
  DEF Rekey!ProcessQueue, Rekey!Waiting, Rekey!Idle, Rekey!Decided,
      Rekey!BeginKeyExchange, Rekey!TimerUpdate, Rekey!dts_reset, Rekey!TypeOK,
      Rekey!MaxCount, Rekey!Directions
<1>5. CASE Rekey!RecvKexinit
  BY <1>5
  DEF Rekey!RecvKexinit, Rekey!Waiting, Rekey!Idle, Rekey!Decided,
      Rekey!BeginKeyExchange, Rekey!TimerUpdate, Rekey!dts_reset, Rekey!TypeOK,
      Rekey!MaxCount, Rekey!Directions
<1>6. CASE Rekey!SendNewkeys
  BY <1>6
  DEF Rekey!SendNewkeys, Rekey!dts_consume, Rekey!dts_reset, Rekey!TypeOK,
      Rekey!MaxCount, Rekey!Directions
<1>7. CASE Rekey!RecvNewkeys
  BY <1>7
  DEF Rekey!RecvNewkeys, Rekey!dts_reset, Rekey!BeginKeyExchange, Rekey!TimerUpdate,
      Rekey!TypeOK, Rekey!MaxCount, Rekey!Directions
<1>8. CASE Rekey!RecvPacket
  BY <1>8
  DEF Rekey!RecvPacket, Rekey!dts_consume, Rekey!Count, Rekey!Capped, Rekey!TypeOK,
      Rekey!MaxCount, Rekey!Directions
<1>9. CASE Rekey!HigherLayerSend
  BY <1>9 DEF Rekey!HigherLayerSend, Rekey!TypeOK, Rekey!MaxCount, Rekey!Directions
<1>10. CASE Rekey!HandleOutput
  BY <1>10
  DEF Rekey!HandleOutput, Rekey!dts_consume, Rekey!Count, Rekey!Capped,
      Rekey!TypeOK, Rekey!MaxCount, Rekey!Directions
<1>11. CASE Rekey!NotifyAuthDone
  BY <1>11 DEF Rekey!NotifyAuthDone, Rekey!TypeOK, Rekey!MaxCount, Rekey!Directions
<1>12. CASE Rekey!SpecialCmdRekey
  BY <1>12
  DEF Rekey!SpecialCmdRekey, Rekey!UserActs, Rekey!QueueRekey, Rekey!TypeOK,
      Rekey!MaxCount, Rekey!Directions
<1>13. CASE \E new \in [time : Times, data : Limits], m \in BOOLEAN : Rekey!Reconfigure(new, m)
  BY <1>13
  DEF Rekey!Reconfigure, Rekey!UserActs, Rekey!TimerUpdate, Rekey!Adjusted,
      Rekey!dts_consume, Rekey!QueueRekey, Rekey!TypeOK, Rekey!MaxCount,
      Rekey!Directions
<1> QED
  BY <1>1, <1>2, <1>3, <1>4, <1>5, <1>6, <1>7, <1>8, <1>9, <1>10, <1>11, <1>12,
     <1>13
  DEF Rekey!Next

\* A rekey that is wanted, or deferred, stays so until it happens.
LEMMA WantedStep ==
    ASSUME Rekey!ParamAssumption, Rekey!TypeOK, queued \in Nat, sending \in Nat,
           login = "done" => ~compression,
           ~DuringLogin, Wanted, Rekey!Next
    PROVE  Wanted'
<1> USE Largests DEF Rekey!rekey, Rekey!history, Rekey!queues, Rekey!fixed
<1>1. CASE Rekey!Timer
  BY <1>1 DEF Rekey!Timer, Rekey!QueueRekey, Rekey!TimerUpdate, Wanted, Rekey!TypeOK
<1>2. CASE Rekey!Tick
  BY <1>2 DEF Rekey!Tick, Rekey!Capped, Wanted, Rekey!TypeOK
<1>3. CASE Rekey!StartHigherLayer
  BY <1>3 DEF Rekey!StartHigherLayer, Wanted, Rekey!TypeOK
<1>4. CASE Rekey!ProcessQueue
  BY <1>4
  DEF Rekey!ProcessQueue, Rekey!Waiting, Rekey!Idle, Rekey!Decided,
      Rekey!BeginKeyExchange, Rekey!TimerUpdate, Rekey!dts_reset, Wanted,
      Rekey!TypeOK
<1>5. CASE Rekey!RecvKexinit
  BY <1>5
  DEF Rekey!RecvKexinit, Rekey!Waiting, Rekey!Idle, Rekey!Decided,
      Rekey!BeginKeyExchange, Rekey!TimerUpdate, Rekey!dts_reset, Wanted,
      Rekey!TypeOK
<1>6. CASE Rekey!SendNewkeys
  BY <1>6
  DEF Rekey!SendNewkeys, Rekey!dts_consume, Rekey!dts_reset, Wanted, Rekey!TypeOK
<1>7. CASE Rekey!RecvNewkeys
  BY <1>7
  DEF Rekey!RecvNewkeys, Rekey!dts_reset, Rekey!BeginKeyExchange, Rekey!TimerUpdate,
      Wanted, Rekey!TypeOK
<1>8. CASE Rekey!RecvPacket
  BY <1>8
  DEF Rekey!RecvPacket, Rekey!dts_consume, Rekey!Count, Rekey!Capped, Wanted,
      Rekey!TypeOK
<1>9. CASE Rekey!HigherLayerSend
  BY <1>9 DEF Rekey!HigherLayerSend, Wanted, Rekey!TypeOK
<1>10. CASE Rekey!HandleOutput
  BY <1>10
  DEF Rekey!HandleOutput, Rekey!dts_consume, Rekey!Count, Rekey!Capped, Wanted,
      Rekey!TypeOK
<1>11. CASE Rekey!NotifyAuthDone
  BY <1>11 DEF Rekey!NotifyAuthDone, Wanted, Rekey!TypeOK
<1>12. CASE Rekey!SpecialCmdRekey
  BY <1>12
  DEF Rekey!SpecialCmdRekey, Rekey!UserActs, Rekey!QueueRekey, Wanted, Rekey!TypeOK
<1>13. CASE \E new \in [time : Times, data : Limits], m \in BOOLEAN : Rekey!Reconfigure(new, m)
  <2> PICK new \in [time : Times, data : Limits], m \in BOOLEAN : Rekey!Reconfigure(new, m)
    BY <1>13
  <2> QED
    BY DEF Rekey!Reconfigure, Rekey!UserActs, Rekey!QueueRekey, Wanted, Rekey!TypeOK
<1> QED
  BY <1>1, <1>2, <1>3, <1>4, <1>5, <1>6, <1>7, <1>8, <1>9, <1>10, <1>11, <1>12,
     <1>13
  DEF Rekey!Next

\* The time of the next rekey stays the one that the settings call for.
LEMMA ExactStep ==
    ASSUME Rekey!ParamAssumption, Rekey!TypeOK, queued \in Nat, sending \in Nat,
           login = "done" => ~compression,
           ~DuringLogin, ~SameTime, Wanted, Exact, Rekey!Next
    PROVE  Exact'
<1> USE Largests DEF Rekey!rekey, Rekey!history, Rekey!queues, Rekey!fixed
<1>1. CASE Rekey!Timer
  BY <1>1
  DEF Rekey!Timer, Rekey!QueueRekey, Rekey!TimerUpdate, Wanted, Exact,
      Rekey!Underway, Rekey!MaxSince, Rekey!TypeOK
<1>2. CASE Rekey!Tick
  BY <1>2
  DEF Rekey!Tick, Rekey!Capped, Wanted, Exact, Rekey!Underway, Rekey!MaxSince,
      Rekey!TypeOK
<1>3. CASE Rekey!StartHigherLayer
  BY <1>3
  DEF Rekey!StartHigherLayer, Wanted, Exact, Rekey!Underway, Rekey!MaxSince,
      Rekey!TypeOK
<1>4. CASE Rekey!ProcessQueue
  BY <1>4
  DEF Rekey!ProcessQueue, Rekey!Waiting, Rekey!Idle, Rekey!Decided,
      Rekey!BeginKeyExchange, Rekey!TimerUpdate, Rekey!dts_reset, Wanted, Exact,
      Rekey!Underway, Rekey!MaxSince, Rekey!TypeOK
<1>5. CASE Rekey!RecvKexinit
  BY <1>5
  DEF Rekey!RecvKexinit, Rekey!Waiting, Rekey!Idle, Rekey!Decided,
      Rekey!BeginKeyExchange, Rekey!TimerUpdate, Rekey!dts_reset, Wanted, Exact,
      Rekey!Underway, Rekey!MaxSince, Rekey!TypeOK
<1>6. CASE Rekey!SendNewkeys
  BY <1>6
  DEF Rekey!SendNewkeys, Rekey!dts_consume, Rekey!dts_reset, Wanted, Exact,
      Rekey!Underway, Rekey!MaxSince, Rekey!TypeOK
<1>7. CASE Rekey!RecvNewkeys
  BY <1>7
  DEF Rekey!RecvNewkeys, Rekey!dts_reset, Rekey!BeginKeyExchange, Rekey!TimerUpdate,
      Wanted, Exact, Rekey!Underway, Rekey!MaxSince, Rekey!TypeOK
<1>8. CASE Rekey!RecvPacket
  BY <1>8
  DEF Rekey!RecvPacket, Rekey!dts_consume, Rekey!Count, Rekey!Capped, Wanted, Exact,
      Rekey!Underway, Rekey!MaxSince, Rekey!TypeOK
<1>9. CASE Rekey!HigherLayerSend
  BY <1>9
  DEF Rekey!HigherLayerSend, Wanted, Exact, Rekey!Underway, Rekey!MaxSince,
      Rekey!TypeOK
<1>10. CASE Rekey!HandleOutput
  BY <1>10
  DEF Rekey!HandleOutput, Rekey!dts_consume, Rekey!Count, Rekey!Capped, Wanted,
      Exact, Rekey!Underway, Rekey!MaxSince, Rekey!TypeOK
<1>11. CASE Rekey!NotifyAuthDone
  BY <1>11
  DEF Rekey!NotifyAuthDone, Wanted, Exact, Rekey!Underway, Rekey!MaxSince,
      Rekey!TypeOK
<1>12. CASE Rekey!SpecialCmdRekey
  BY <1>12
  DEF Rekey!SpecialCmdRekey, Rekey!UserActs, Rekey!QueueRekey, Wanted, Exact,
      Rekey!Underway, Rekey!MaxSince, Rekey!TypeOK
<1>13. CASE \E new \in [time : Times, data : Limits], m \in BOOLEAN : Rekey!Reconfigure(new, m)
  <2> PICK new \in [time : Times, data : Limits], m \in BOOLEAN : Rekey!Reconfigure(new, m)
    BY <1>13
  <2> QED
    BY DEF Rekey!Reconfigure, Rekey!UserActs, Rekey!TimerUpdate, Rekey!QueueRekey,
           Wanted, Exact, Rekey!Underway, Rekey!MaxSince, Rekey!TypeOK
<1> QED
  BY <1>1, <1>2, <1>3, <1>4, <1>5, <1>6, <1>7, <1>8, <1>9, <1>10, <1>11, <1>12,
     <1>13
  DEF Rekey!Next

\* What remains and what was counted stay the limit.
LEMMA CountingStep ==
    ASSUME Rekey!ParamAssumption, Rekey!TypeOK, queued \in Nat, sending \in Nat,
           login = "done" => ~compression,
           0 \notin Limits, Counting, Rekey!Next
    PROVE  Counting'
<1> USE Largests DEF Rekey!rekey, Rekey!history, Rekey!queues, Rekey!fixed
<1>1. CASE Rekey!Timer
  BY <1>1
  DEF Rekey!Timer, Rekey!QueueRekey, Rekey!TimerUpdate, Counting,
      Rekey!CountersExact, Rekey!MaxCount, Rekey!Directions, Rekey!TypeOK
<1>2. CASE Rekey!Tick
  BY <1>2
  DEF Rekey!Tick, Rekey!Capped, Counting, Rekey!CountersExact, Rekey!MaxCount,
      Rekey!Directions, Rekey!TypeOK
<1>3. CASE Rekey!StartHigherLayer
  BY <1>3
  DEF Rekey!StartHigherLayer, Counting, Rekey!CountersExact, Rekey!MaxCount,
      Rekey!Directions, Rekey!TypeOK
<1>4. CASE Rekey!ProcessQueue
  BY <1>4
  DEF Rekey!ProcessQueue, Rekey!Waiting, Rekey!Idle, Rekey!Decided,
      Rekey!BeginKeyExchange, Rekey!TimerUpdate, Rekey!dts_reset, Counting,
      Rekey!CountersExact, Rekey!MaxCount, Rekey!Directions, Rekey!TypeOK
<1>5. CASE Rekey!RecvKexinit
  BY <1>5
  DEF Rekey!RecvKexinit, Rekey!Waiting, Rekey!Idle, Rekey!Decided,
      Rekey!BeginKeyExchange, Rekey!TimerUpdate, Rekey!dts_reset, Counting,
      Rekey!CountersExact, Rekey!MaxCount, Rekey!Directions, Rekey!TypeOK
<1>6. CASE Rekey!SendNewkeys
  BY <1>6
  DEF Rekey!SendNewkeys, Rekey!dts_consume, Rekey!dts_reset, Counting,
      Rekey!CountersExact, Rekey!MaxCount, Rekey!Directions, Rekey!TypeOK
<1>7. CASE Rekey!RecvNewkeys
  BY <1>7
  DEF Rekey!RecvNewkeys, Rekey!dts_reset, Rekey!BeginKeyExchange, Rekey!TimerUpdate,
      Counting, Rekey!CountersExact, Rekey!MaxCount, Rekey!Directions, Rekey!TypeOK
<1>8. CASE Rekey!RecvPacket
  BY <1>8
  DEF Rekey!RecvPacket, Rekey!dts_consume, Rekey!Count, Rekey!Capped, Counting,
      Rekey!CountersExact, Rekey!MaxCount, Rekey!Directions, Rekey!TypeOK
<1>9. CASE Rekey!HigherLayerSend
  BY <1>9
  DEF Rekey!HigherLayerSend, Counting, Rekey!CountersExact, Rekey!MaxCount,
      Rekey!Directions, Rekey!TypeOK
<1>10. CASE Rekey!HandleOutput
  BY <1>10
  DEF Rekey!HandleOutput, Rekey!dts_consume, Rekey!Count, Rekey!Capped, Counting,
      Rekey!CountersExact, Rekey!MaxCount, Rekey!Directions, Rekey!TypeOK
<1>11. CASE Rekey!NotifyAuthDone
  BY <1>11
  DEF Rekey!NotifyAuthDone, Counting, Rekey!CountersExact, Rekey!MaxCount,
      Rekey!Directions, Rekey!TypeOK
<1>12. CASE Rekey!SpecialCmdRekey
  BY <1>12
  DEF Rekey!SpecialCmdRekey, Rekey!UserActs, Rekey!QueueRekey, Counting,
      Rekey!CountersExact, Rekey!MaxCount, Rekey!Directions, Rekey!TypeOK
<1>13. CASE \E new \in [time : Times, data : Limits], m \in BOOLEAN : Rekey!Reconfigure(new, m)
  BY <1>13
  DEF Rekey!Reconfigure, Rekey!UserActs, Rekey!TimerUpdate, Rekey!Adjusted,
      Rekey!dts_consume, Rekey!QueueRekey, Counting, Rekey!CountersExact,
      Rekey!MaxCount, Rekey!Directions, Rekey!TypeOK
<1> QED
  BY <1>1, <1>2, <1>3, <1>4, <1>5, <1>6, <1>7, <1>8, <1>9, <1>10, <1>11, <1>12,
     <1>13
  DEF Rekey!Next

\* What was counted stays within the limit and what one pass lets through.
LEMMA BoundedStep ==
    ASSUME Rekey!ParamAssumption, Rekey!TypeOK, queued \in Nat, sending \in Nat,
           login = "done" => ~compression,
           0 \notin Limits, ~DuringLogin, Wanted, Counting, Bounded, Rekey!Next
    PROVE  Bounded'
<1> USE Largests DEF Rekey!rekey, Rekey!history, Rekey!queues, Rekey!fixed
<1>1. CASE Rekey!Timer
  BY <1>1
  DEF Rekey!Timer, Rekey!QueueRekey, Rekey!TimerUpdate, Wanted, Counting,
      Rekey!CountersExact, Bounded, Rekey!MaxCount, Rekey!Directions, Rekey!TypeOK
<1>2. CASE Rekey!Tick
  BY <1>2
  DEF Rekey!Tick, Rekey!Capped, Wanted, Counting, Rekey!CountersExact, Bounded,
      Rekey!MaxCount, Rekey!Directions, Rekey!TypeOK
<1>3. CASE Rekey!StartHigherLayer
  BY <1>3
  DEF Rekey!StartHigherLayer, Wanted, Counting, Rekey!CountersExact, Bounded,
      Rekey!MaxCount, Rekey!Directions, Rekey!TypeOK
<1>4. CASE Rekey!ProcessQueue
  BY <1>4
  DEF Rekey!ProcessQueue, Rekey!Waiting, Rekey!Idle, Rekey!Decided,
      Rekey!BeginKeyExchange, Rekey!TimerUpdate, Rekey!dts_reset, Wanted, Counting,
      Rekey!CountersExact, Bounded, Rekey!MaxCount, Rekey!Directions, Rekey!TypeOK
<1>5. CASE Rekey!RecvKexinit
  BY <1>5
  DEF Rekey!RecvKexinit, Rekey!Waiting, Rekey!Idle, Rekey!Decided,
      Rekey!BeginKeyExchange, Rekey!TimerUpdate, Rekey!dts_reset, Wanted, Counting,
      Rekey!CountersExact, Bounded, Rekey!MaxCount, Rekey!Directions, Rekey!TypeOK
<1>6. CASE Rekey!SendNewkeys
  BY <1>6
  DEF Rekey!SendNewkeys, Rekey!dts_consume, Rekey!dts_reset, Wanted, Counting,
      Rekey!CountersExact, Bounded, Rekey!MaxCount, Rekey!Directions, Rekey!TypeOK
<1>7. CASE Rekey!RecvNewkeys
  BY <1>7
  DEF Rekey!RecvNewkeys, Rekey!dts_reset, Rekey!BeginKeyExchange, Rekey!TimerUpdate,
      Wanted, Counting, Rekey!CountersExact, Bounded, Rekey!MaxCount,
      Rekey!Directions, Rekey!TypeOK
<1>8. CASE Rekey!RecvPacket
  BY <1>8
  DEF Rekey!RecvPacket, Rekey!dts_consume, Rekey!Count, Rekey!Capped, Wanted,
      Counting, Rekey!CountersExact, Bounded, Rekey!MaxCount, Rekey!Directions,
      Rekey!TypeOK
<1>9. CASE Rekey!HigherLayerSend
  BY <1>9
  DEF Rekey!HigherLayerSend, Wanted, Counting, Rekey!CountersExact, Bounded,
      Rekey!MaxCount, Rekey!Directions, Rekey!TypeOK
<1>10. CASE Rekey!HandleOutput
  BY <1>10
  DEF Rekey!HandleOutput, Rekey!dts_consume, Rekey!Count, Rekey!Capped, Wanted,
      Counting, Rekey!CountersExact, Bounded, Rekey!MaxCount, Rekey!Directions,
      Rekey!TypeOK
<1>11. CASE Rekey!NotifyAuthDone
  BY <1>11
  DEF Rekey!NotifyAuthDone, Wanted, Counting, Rekey!CountersExact, Bounded,
      Rekey!MaxCount, Rekey!Directions, Rekey!TypeOK
<1>12. CASE Rekey!SpecialCmdRekey
  BY <1>12
  DEF Rekey!SpecialCmdRekey, Rekey!UserActs, Rekey!QueueRekey, Wanted, Counting,
      Rekey!CountersExact, Bounded, Rekey!MaxCount, Rekey!Directions, Rekey!TypeOK
<1>13. CASE \E new \in [time : Times, data : Limits], m \in BOOLEAN : Rekey!Reconfigure(new, m)
  BY <1>13
  DEF Rekey!Reconfigure, Rekey!UserActs, Rekey!TimerUpdate, Rekey!Adjusted,
      Rekey!dts_consume, Rekey!QueueRekey, Wanted, Counting, Rekey!CountersExact,
      Bounded, Rekey!MaxCount, Rekey!Directions, Rekey!TypeOK
<1> QED
  BY <1>1, <1>2, <1>3, <1>4, <1>5, <1>6, <1>7, <1>8, <1>9, <1>10, <1>11, <1>12,
     <1>13
  DEF Rekey!Next

\* RekeysKept is part of the invariant.
LEMMA InvImplies ==
    ASSUME Rekey!ParamAssumption, RekeyInv
    PROVE  Rekey!RekeysKept
<1> USE Largests
<1>1. ~DuringLogin /\ ~SameTime => Rekey!RekeyInTime
  BY DEF RekeyInv, Exact, Rekey!RekeyInTime, Rekey!TypeOK
<1>2. ~DuringLogin => Rekey!ChangedSettingsKept
  BY DEF RekeyInv, Wanted, Rekey!ChangedSettingsKept
<1>3. ASSUME 0 \notin Limits, ~DuringLogin
      PROVE  Rekey!DataLimitKept
  <2>1. SUFFICES ASSUME ~Rekey!Underway, ~callback
                 PROVE  \A d \in Rekey!Directions : count[d] <= max_data_size + MaxQueued
    BY DEF Rekey!DataLimitKept
  <2>2. kex = "none" /\ class # "NORMAL"
    BY <2>1 DEF Rekey!Underway
  <2>3. count["out"] <= max_data_size + MaxQueued
    BY <1>3, <2>2
    DEF RekeyInv, Bounded, Rekey!TypeOK, Rekey!Directions, Rekey!MaxCount
  <2>4. stats["in"].running
    BY <1>3, <2>1, <2>2 DEF RekeyInv, Bounded, Counting, Rekey!Directions
  <2>5. count["in"] <= max_data_size + MaxQueued
    BY <1>3, <2>4
    DEF RekeyInv, Counting, Rekey!CountersExact, Rekey!TypeOK, Rekey!Directions,
        Rekey!MaxCount
  <2> QED
    BY <2>3, <2>5 DEF Rekey!Directions
<1> QED
  BY <1>1, <1>2, <1>3 DEF RekeyInv, Counting, Rekey!RekeysKept

\* The rekey timer names the moment at which the configured time is up, changed
\* settings are not forgotten, and the counters are exact and keep the data
\* limit, for any settings, limits and lengths of the queues, in whatever order
\* the timer, key exchanges, data and the user come (ssh2_transport_timer,
\* ssh2_transport_reconfigure, dts_consume).
THEOREM RekeysAreKept ==
    ASSUME Rekey!ParamAssumption
    PROVE  Rekey!Spec => []RekeysKept
<1>1. Rekey!Init => RekeyInv
  <2> SUFFICES ASSUME Rekey!Init PROVE RekeyInv
    OBVIOUS
  <2> USE Largests
  <2>1. Rekey!TypeOK
    <3>1. conf.data \in Nat /\ stats \in [Rekey!Directions -> Stat]
      BY ResetType DEF Rekey!Init
    <3>2. count \in [Rekey!Directions -> 0 .. Rekey!MaxCount] /\ left \in -1 .. Rekey!Longest
      BY DEF Rekey!Init, Rekey!MaxCount
    <3>3. since \in 0 .. Rekey!MaxSince /\ queued + sending \in 0 .. MaxQueued /\ batch \in 0 .. MaxQueued
      BY DEF Rekey!Init, Rekey!MaxSince
    <3>4. {deferred, compression, remote_bug, callback, stale, asked} \subseteq BOOLEAN
      BY DEF Rekey!Init
    <3> QED
      BY <3>1, <3>2, <3>3, <3>4 DEF Rekey!Init, Rekey!TypeOK, Stat
  <2>2. Counting \/ 0 \in Limits
    <3> SUFFICES ASSUME 0 \notin Limits PROVE Counting
      OBVIOUS
    <3>1. conf.data \in Nat \ {0} /\ max_data_size = conf.data
      BY DEF Rekey!Init
    <3>2. \A d \in Rekey!Directions : count[d] = 0 /\ stats[d] = Rekey!dts_reset(conf.data)
      BY DEF Rekey!Init
    <3>3. Rekey!dts_reset(conf.data).running /\ Rekey!dts_reset(conf.data).remaining = conf.data
      BY <3>1 DEF Rekey!dts_reset
    <3> QED
      BY <3>1, <3>2, <3>3 DEF Counting, Rekey!CountersExact
  <2> QED
    BY <2>1, <2>2
    DEF Rekey!Init, RekeyInv, Wanted, Exact, Bounded, Rekey!dts_reset,
        Rekey!Directions
<1>2. RekeyInv /\ [Rekey!Next]_(Rekey!vars) => RekeyInv'
  <2> SUFFICES ASSUME RekeyInv, [Rekey!Next]_(Rekey!vars)
               PROVE  RekeyInv'
    OBVIOUS
  <2>1. CASE Rekey!Next
    <3>1. /\ Rekey!ParamAssumption /\ Rekey!TypeOK /\ queued \in Nat /\ sending \in Nat
          /\ login = "done" => ~compression
      BY DEF RekeyInv
    <3>2. /\ Rekey!TypeOK' /\ queued' \in Nat /\ sending' \in Nat
          /\ login' = "done" => ~compression'
      BY <2>1, <3>1, SettingsStep, StatesStep, FlagsStep, StatsStep, QueuesStep,
         ClockStep, CountStep
      DEF Rekey!TypeOK, Stat
    <3> QED
      BY <2>1, <3>1, <3>2, WantedStep, ExactStep, CountingStep, BoundedStep
      DEF RekeyInv
  <2>2. CASE UNCHANGED Rekey!vars
    BY <2>2
    DEF Rekey!vars, Rekey!rekey, Rekey!fixed, Rekey!queues, Rekey!history, RekeyInv,
        Rekey!TypeOK, Wanted, Exact, Rekey!Underway, Counting,
                Rekey!CountersExact, Bounded
  <2> QED
    BY <2>1, <2>2
<1>3. RekeyInv => RekeysKept
  BY InvImplies DEF RekeysKept
<1> QED
  BY <1>1, <1>2, <1>3, PTL DEF Rekey!Spec
=============================================================================
