--------------------------- MODULE Timers_proofs ---------------------------
(***************************************************************************)
(* Keepalives never stall, for any number of pingers and any intervals, as *)
(* long as no address is allocated again while timers still name it. The   *)
(* invariant adds to PingerNeverStalls that every pending ping has its     *)
(* timer, and that run_timers takes no timer of a live pinger for one of   *)
(* an expired context. Nothing is assumed of the order in which run_timers *)
(* takes the timers: that it is the tree's order is not needed here.       *)
(***************************************************************************)
EXTENDS Timers, NatFacts

Timer == [ctx : Contexts, left : Int]

\* What has to hold of the tree T and the pinger p at c.
Kept(T, c, p) ==
    /\ p.alive => \A t \in T : t.ctx = c => c \in timer_contexts
    /\ p.alive /\ p.pending => [ctx |-> c, left |-> p.next] \in T /\ c \in timer_contexts
    /\ p.alive /\ p.interval > 0 => p.pending

\* The inductive invariant.
IInv ==
    /\ timers \in SUBSET Timer
    /\ timer_contexts \subseteq Contexts
    /\ pingers \in [Contexts -> Pinger]
    /\ \A c \in Contexts : Kept(timers, c, pingers[c])

\* The longest interval exists.
LEMMA LongestType == Longest \in Nat
BY ParamAssumption DEF Longest

\* Intervals are numbers.
LEMMA IntervalType == \A n \in Intervals : n \in Int /\ n >= 0
<1>1. Intervals \subseteq Nat
  BY ParamAssumption, Zenon
<1> QED BY <1>1

\* The fields of a pinger can be set on their own.
LEMMA SetPending ==
    ASSUME NEW p \in Pinger, NEW b \in BOOLEAN, NEW n \in Int
    PROVE  LET r == [p EXCEPT !.pending = b, !.next = n]
           IN  /\ r \in Pinger /\ r.alive = p.alive /\ r.interval = p.interval
               /\ r.pending = b /\ r.next = n
BY Zenon DEF Pinger

\* The same for the interval, and for being there at all.
LEMMA SetInterval ==
    ASSUME NEW p \in Pinger, NEW n \in Intervals
    PROVE  /\ LET r == [p EXCEPT !.interval = n]
              IN  r \in Pinger /\ r.alive = p.alive /\ r.interval = n
                  /\ r.pending = p.pending /\ r.next = p.next
           /\ LET r == [p EXCEPT !.alive = TRUE, !.interval = n]
              IN  r \in Pinger /\ r.alive /\ r.interval = n
                  /\ r.pending = p.pending /\ r.next = p.next
BY Zenon DEF Pinger

\* The pinger that is not there.
LEMMA FreeType == Free \in Pinger /\ ~Free.alive /\ ~Free.pending
BY ParamAssumption, LongestType DEF Free, Pinger

\* pinger_schedule gives the pinger its timer and takes none from the others,
\* if the tree it is called with has all of theirs.
LEMMA ScheduleKeeps ==
    ASSUME pingers \in [Contexts -> Pinger], timer_contexts \subseteq Contexts,
           NEW T \in SUBSET Timer, NEW c \in Contexts, NEW p \in Pinger,
           \A t \in T : t.ctx = c => c \in timer_contexts,
           p.pending => [ctx |-> c, left |-> p.next] \in T,
           \A d \in Contexts \ {c} : Kept(T, d, pingers[d]),
           pinger_schedule(T, c, p)
    PROVE  IInv'
<1> DEFINE t == [ctx |-> c, left |-> p.interval]
<1>1. CASE p.interval = 0
  <2> DEFINE r == [p EXCEPT !.pending = FALSE, !.next = 0]
  <2>1. /\ timers' = T
        /\ timer_contexts' = timer_contexts
        /\ pingers' = [pingers EXCEPT ![c] = r]
    BY <1>1 DEF pinger_schedule
  <2>2. r \in Pinger /\ ~r.pending /\ r.interval = 0
    <3>1. 0 \in Int
      OBVIOUS
    <3>2. r \in Pinger /\ r.pending = FALSE /\ r.interval = p.interval
      BY <3>1, SetPending
    <3> HIDE DEF r
    <3> QED BY <1>1, <3>2
  <2>3. pingers' \in [Contexts -> Pinger] /\ pingers'[c] = r
    BY <2>1, <2>2
  <2>4. Kept(timers, c, pingers[c])'
    <3> HIDE DEF r
    <3> QED BY <2>1, <2>2, <2>3 DEF Kept
  <2>5. ASSUME NEW d \in Contexts \ {c} PROVE Kept(timers, d, pingers[d])'
    <3>1. pingers'[d] = pingers[d]
      BY <2>1
    <3> QED BY <2>1, <3>1 DEF Kept
  <2> QED BY <2>1, <2>3, <2>4, <2>5 DEF IInv
<1>2. CASE p.interval # 0
  <2> DEFINE r == IF ~p.pending \/ p.interval < p.next
                  THEN [p EXCEPT !.pending = TRUE, !.next = p.interval]
                  ELSE p
  <2>1. pingers' = [pingers EXCEPT ![c] = r] /\ schedule_timer(T, t)
    BY <1>2 DEF pinger_schedule
  <2>2. p.interval \in Int /\ t \in Timer /\ t.ctx = c
    <3>1. p.interval \in Intervals
      BY DEF Pinger
    <3>2. p.interval \in Int
      BY <3>1, IntervalType
    <3> QED BY <3>2 DEF Timer
  <2>3. /\ timers' = T \cup {t}
        /\ timers' \in SUBSET Timer
    BY <2>1, <2>2 DEF schedule_timer
  <2>4. /\ timer_contexts \subseteq timer_contexts' /\ c \in timer_contexts'
        /\ timer_contexts' \subseteq Contexts
    BY <2>1, <2>2 DEF schedule_timer
  <2>5. r \in Pinger /\ r.pending /\ [ctx |-> c, left |-> r.next] \in T \cup {t}
    <3>1. CASE ~p.pending \/ p.interval < p.next
      <4> DEFINE q == [p EXCEPT !.pending = TRUE, !.next = p.interval]
      <4>1. r = q
        BY <3>1
      <4>2. q \in Pinger /\ q.pending = TRUE /\ q.next = p.interval
        <5> HIDE DEF r, t
        <5> QED BY <2>2, SetPending
      <4> HIDE DEF r, q
      <4> QED BY <4>1, <4>2
    <3>2. CASE ~(~p.pending \/ p.interval < p.next)
      <4>1. r = p /\ p.pending
        BY <3>2
      <4> QED BY <4>1
    <3> QED BY <3>1, <3>2
  <2>6. pingers' \in [Contexts -> Pinger] /\ pingers'[c] = r
    <3> HIDE DEF r
    <3> QED BY <2>1, <2>5
  <2>7. Kept(timers, c, pingers[c])'
    <3> HIDE DEF r, t
    <3> QED BY <2>3, <2>4, <2>5, <2>6 DEF Kept
  <2>8. ASSUME NEW d \in Contexts \ {c} PROVE Kept(timers, d, pingers[d])'
    <3> HIDE DEF r, t
    <3>1. pingers'[d] = pingers[d]
      BY <2>1
    <3>2. \A u \in T \cup {t} : u.ctx = d => u \in T
      BY <2>2
    <3> QED BY <2>3, <2>4, <3>1, <3>2 DEF Kept
  <2> QED BY <2>3, <2>4, <2>6, <2>7, <2>8 DEF IInv
<1> QED BY <1>1, <1>2

\* A new pinger at an address that no timer names.
LEMMA NewKeeps ==
    ASSUME IInv, ~Reuse, NEW c \in Contexts, NEW n \in Intervals, pinger_new(c, n)
    PROVE  IInv'
<1> DEFINE p == [Free EXCEPT !.alive = TRUE, !.interval = n]
<1>1. p \in Pinger /\ ~p.pending
  <2> HIDE DEF Free
  <2>1. p \in Pinger /\ p.pending = Free.pending
    BY FreeType, SetInterval
  <2> HIDE DEF p
  <2> QED BY <2>1, FreeType
<1>2. \A t \in timers : t.ctx # c
  BY DEF pinger_new
<1>3. pinger_schedule(timers, c, p)
  BY DEF pinger_new
<1> HIDE DEF p
<1> QED BY <1>1, <1>2, <1>3, ScheduleKeeps DEF IInv

\* A new interval for a live pinger.
LEMMA ReconfigKeeps ==
    ASSUME IInv, NEW c \in Contexts, NEW n \in Intervals, pinger_reconfig(c, n)
    PROVE  IInv'
<1> DEFINE p == [pingers[c] EXCEPT !.interval = n]
<1>1. pingers[c] \in Pinger /\ pingers[c].alive /\ Kept(timers, c, pingers[c])
  BY DEF IInv, pinger_reconfig
<1>2. p \in Pinger /\ p.pending = pingers[c].pending /\ p.next = pingers[c].next
  BY <1>1 DEF Pinger
<1>3. pinger_schedule(timers, c, p)
  BY DEF pinger_reconfig
<1>4. p.pending => [ctx |-> c, left |-> p.next] \in timers
  <2> HIDE DEF p
  <2> QED BY <1>1, <1>2 DEF Kept
<1>5. \A t \in timers : t.ctx = c => c \in timer_contexts
  BY <1>1 DEF Kept
<1> HIDE DEF p
<1> QED BY <1>2, <1>3, <1>4, <1>5, ScheduleKeeps DEF IInv

\* Freeing a pinger expires its own timers only.
LEMMA FreeKeeps ==
    ASSUME IInv, NEW c \in Contexts, pinger_free(c)
    PROVE  IInv'
<1>1. Free \in Pinger /\ ~Free.alive
  BY FreeType
<1>2. pingers' = [pingers EXCEPT ![c] = Free] /\ timers' = timers
      /\ timer_contexts' = timer_contexts \ {c}
  BY DEF pinger_free, expire_timer_context
<1>3. pingers' \in [Contexts -> Pinger] /\ pingers'[c] = Free
  BY <1>1, <1>2 DEF IInv
<1>4. Kept(timers, c, pingers[c])'
  BY <1>1, <1>3 DEF Kept
<1>5. ASSUME NEW d \in Contexts \ {c} PROVE Kept(timers, d, pingers[d])'
  <2>1. pingers'[d] = pingers[d]
    BY <1>2 DEF IInv
  <2> QED BY <1>2, <2>1 DEF IInv, Kept
<1> QED BY <1>2, <1>3, <1>4, <1>5 DEF IInv

\* Running a timer: the next ping is scheduled if this one was due, and a
\* timer that was superseded is nobody's pending ping.
LEMMA RunKeeps ==
    ASSUME IInv, NEW t, t.ctx \in timer_contexts,
           pinger_timer(timers \ {t}, t)
    PROVE  IInv'
<1> DEFINE T == timers \ {t}
           c == t.ctx
           p == pingers[c]
<1>1. c \in Contexts /\ p \in Pinger /\ T \in SUBSET Timer
  BY DEF IInv, Timer
<1>2. \A d \in Contexts \ {c} : Kept(T, d, pingers[d])
  <2> SUFFICES ASSUME NEW d \in Contexts \ {c} PROVE Kept(T, d, pingers[d])
    OBVIOUS
  <2>1. Kept(timers, d, pingers[d])
    BY DEF IInv
  <2>2. [ctx |-> d, left |-> pingers[d].next] # t
    OBVIOUS
  <2> HIDE DEF c, p
  <2> QED BY <2>1, <2>2 DEF Kept
<1>3. CASE Due(p, t.left)
  <2> DEFINE q == [p EXCEPT !.pending = FALSE, !.since = 0]
  <2>1. pinger_schedule(T, c, q)
    BY <1>3 DEF pinger_timer
  <2>2. q \in Pinger /\ q.pending = FALSE
    <3>1. 0 \in 0 .. Longest
      BY LongestType
    <3> HIDE DEF p, c, T
    <3> QED BY <1>1, <3>1, Zenon DEF Pinger
  <2> HIDE DEF q, p, T
  <2> QED BY <1>1, <1>2, <2>1, <2>2, ScheduleKeeps DEF IInv
<1>4. CASE ~Due(p, t.left)
  <2>1. timers' = T /\ timer_contexts' = timer_contexts /\ pingers' = pingers
    BY <1>4 DEF pinger_timer
  <2>2. Kept(timers, c, p)
    BY <1>1 DEF IInv
  <2>3. p.pending => [ctx |-> c, left |-> p.next] # t
    BY <1>4 DEF Due
  <2>4. Kept(T, c, p)
    <3> HIDE DEF p, c
    <3> QED BY <2>2, <2>3 DEF Kept
  <2>5. ASSUME NEW d \in Contexts PROVE Kept(timers, d, pingers[d])'
    <3>1. Kept(T, d, pingers[d])
      BY <1>2, <2>4
    <3> HIDE DEF T
    <3> QED BY <2>1, <3>1 DEF Kept
  <2> QED BY <1>1, <2>1, <2>5 DEF IInv
<1> QED BY <1>3, <1>4

\* A timer of an expired context is nobody's pending ping.
LEMMA DropKeeps ==
    ASSUME IInv, NEW t, t.ctx \notin timer_contexts,
           timers' = timers \ {t}, UNCHANGED <<timer_contexts, pingers>>
    PROVE  IInv'
<1>1. ASSUME NEW c \in Contexts PROVE Kept(timers, c, pingers[c])'
  <2>1. Kept(timers, c, pingers[c])
    BY DEF IInv
  <2>2. c \in timer_contexts => [ctx |-> c, left |-> pingers[c].next] # t
    OBVIOUS
  <2> QED BY <2>1, <2>2 DEF Kept
<1> QED BY <1>1 DEF IInv

\* The clock counts a pending ping and its timer down together.
LEMMA TickKeeps ==
    ASSUME IInv, Tick
    PROVE  IInv'
<1>1. timers' = {[u EXCEPT !.left = @ - 1] : u \in timers}
  BY DEF Tick
<1>2. \A t \in timers : /\ t.ctx \in Contexts /\ t.left \in Int
                        /\ [t EXCEPT !.left = @ - 1] = [ctx |-> t.ctx, left |-> t.left - 1]
  BY DEF IInv, Timer
<1>3. timers' \in SUBSET Timer
  <2>1. ASSUME NEW u \in timers' PROVE u \in Timer
    <3>1. PICK t \in timers : u = [t EXCEPT !.left = @ - 1]
      BY <1>1
    <3>2. u = [ctx |-> t.ctx, left |-> t.left - 1] /\ t.ctx \in Contexts /\ t.left - 1 \in Int
      BY <1>2, <3>1
    <3> QED BY <3>2 DEF Timer
  <2> QED BY <2>1
<1>4. ASSUME NEW c \in Contexts
      PROVE  /\ pingers'[c] \in Pinger
             /\ pingers'[c].alive = pingers[c].alive
             /\ pingers'[c].interval = pingers[c].interval
             /\ pingers'[c].pending = pingers[c].pending
             /\ pingers[c].pending => pingers'[c].next = pingers[c].next - 1
  <2> DEFINE p == pingers[c]
             n == IF p.pending THEN p.next - 1 ELSE p.next
             s == IF p.alive /\ p.since < Longest THEN p.since + 1 ELSE p.since
             q == [p EXCEPT !.next = n, !.since = s]
  <2>1. pingers'[c] = q
    BY DEF Tick
  <2>2. p \in Pinger
    BY DEF IInv
  <2>3. p.next \in Int /\ p.since \in 0 .. Longest
    BY <2>2 DEF Pinger
  <2>4. n \in Int /\ s \in 0 .. Longest
    BY <2>3, LongestType
  <2>5. q \in Pinger /\ q.alive = p.alive /\ q.interval = p.interval
        /\ q.pending = p.pending /\ q.next = n
    <3> HIDE DEF p, n, s
    <3> QED BY <2>2, <2>4, Zenon DEF Pinger
  <2>6. p.pending => n = p.next - 1
    OBVIOUS
  <2> HIDE DEF n, q
  <2> QED BY <2>1, <2>5, <2>6
<1>5. pingers' \in [Contexts -> Pinger]
  <2>1. \A c \in Contexts : pingers'[c] \in Pinger
    BY <1>4
  <2>2. pingers' = [c \in Contexts |-> pingers'[c]]
    BY DEF Tick
  <2> QED BY <2>1, <2>2
<1>6. \A u \in timers' : \E t \in timers : t.ctx = u.ctx
  BY <1>1, <1>2
<1>7. ASSUME NEW c \in Contexts, NEW n \in Int, [ctx |-> c, left |-> n] \in timers
      PROVE  [ctx |-> c, left |-> n - 1] \in timers'
  <2> DEFINE t == [ctx |-> c, left |-> n]
  <2>1. [t EXCEPT !.left = @ - 1] \in timers'
    BY <1>1, <1>7
  <2>2. [t EXCEPT !.left = @ - 1] = [ctx |-> c, left |-> n - 1]
    BY <1>2, <1>7
  <2> QED BY <2>1, <2>2
<1>8. ASSUME NEW c \in Contexts PROVE Kept(timers, c, pingers[c])'
  <2>1. Kept(timers, c, pingers[c]) /\ pingers[c].next \in Int
    BY DEF IInv, Pinger
  <2>2. timer_contexts' = timer_contexts
    BY DEF Tick
  <2> QED BY <1>4, <1>6, <1>7, <2>1, <2>2 DEF Kept
<1>9. timer_contexts' \subseteq Contexts
  BY DEF IInv, Tick
<1> QED BY <1>3, <1>5, <1>8, <1>9 DEF IInv

\* The rest of run_timers and of the front end leaves the timers alone.
LEMMA FrontEndKeeps ==
    ASSUME IInv, UNCHANGED <<timers, timer_contexts, pingers>>
    PROVE  IInv'
BY DEF IInv, Kept

\* Every step keeps the invariant.
LEMMA NextKeeps ==
    ASSUME IInv, ~Reuse, [Next]_vars
    PROVE  IInv'
<1>1. ASSUME NEW c \in Contexts, NEW n \in Intervals, pinger_new(c, n) PROVE IInv'
  BY <1>1, NewKeeps
<1>2. ASSUME NEW c \in Contexts, NEW n \in Intervals, pinger_reconfig(c, n) PROVE IInv'
  BY <1>2, ReconfigKeeps
<1>3. ASSUME NEW c \in Contexts, pinger_free(c) PROVE IInv'
  BY <1>3, FreeKeeps
<1>4. CASE TimerTriggered \/ NextTimer \/ NoTimer \/ UNCHANGED vars
  BY <1>4, FrontEndKeeps DEF TimerTriggered, NextTimer, NoTimer, vars
<1>5. CASE DropExpired
  BY <1>5, DropKeeps DEF DropExpired
<1>6. CASE RunTimer
  BY <1>6, RunKeeps DEF RunTimer
<1>7. CASE Tick
  BY <1>7, TickKeeps
<1> QED BY <1>1, <1>2, <1>3, <1>4, <1>5, <1>6, <1>7 DEF Next, run_timers

\* The invariant says what PingerNeverStalls does.
LEMMA KeptIsEnough == IInv => PingerNeverStalls
BY DEF IInv, Kept, PingerNeverStalls

\* However often pingers come and go and are reconfigured, and however late
\* timers run, every live pinger of pinger.c with an interval has its next
\* ping in timing.c's tree under a context that is not expired, if the
\* allocator gives no address away while old timers name it.
THEOREM KeepalivesNeverStall ==
    ASSUME ~Reuse
    PROVE  Spec => []PingerNeverStalls
<1>1. Init => IInv
  BY FreeType DEF Init, IInv, Kept
<1>2. IInv /\ [Next]_vars => IInv'
  BY NextKeeps
<1> QED BY <1>1, <1>2, KeptIsEnough, PTL DEF Spec

-----------------------------------------------------------------------------
(***************************************************************************)
(* Timers are neither late nor early. While run_timers is not on the       *)
(* stack, the front end's timer goes off at most MaxLate + 1 ticks after   *)
(* any timer of the tree is due; while it is, the lateness grows only with *)
(* the ticks it has been running. A pending ping is so far in the future   *)
(* that the ticks since the last one and the ticks to come make an         *)
(* interval.                                                               *)
(***************************************************************************)

\* The ticks since the last ping and those until the next.
Spaced(p) ==
    /\ p.pending => p.alive
    /\ p.pending => p.since = Longest \/ p.since + p.next >= Shortest

\* Every timer of T has a wakeup to come while timerTriggered is not running.
Awaited(T) == ~running => \A t \in T : armed /\ wake <= t.left + MaxLate + 1

\* No timer of T is late by more than the ticks run_timers has been running.
Late(T) == running => \A t \in T : t.left >= -(2 * MaxLate + 1) - anow

\* The inductive invariant.
PunctualInv ==
    /\ TypeOK
    /\ Awaited(timers)
    /\ Late(timers)
    /\ \A c \in Contexts : Spaced(pingers[c])
    /\ ~early

\* The longest interval and the shortest that is not off.
LEMMA Extremes ==
    /\ Longest \in Nat /\ \A n \in Intervals : n <= Longest
    /\ Shortest \in Nat /\ \A n \in Intervals : n # 0 => Shortest <= n
    /\ Shortest <= Longest
<1>1. Intervals \subseteq Nat /\ \E n \in Intervals : n > 0
  BY ParamAssumption
<1>2. \E n \in Intervals : \A m \in Intervals : m <= n
  BY ParamAssumption
<1>3. Longest \in Intervals /\ \A n \in Intervals : n <= Longest
  BY <1>2 DEF Longest
<1>4. Intervals \ {0} \in SUBSET Nat /\ Intervals \ {0} # {}
  BY <1>1
<1>5. \E n \in Intervals \ {0} : \A m \in Intervals \ {0} : n <= m
  BY <1>4, LeastNat
<1>6. Shortest \in Intervals \ {0} /\ \A n \in Intervals \ {0} : Shortest <= n
  BY <1>5 DEF Shortest
<1> QED BY <1>1, <1>3, <1>6

\* The tree has a first element, as long as no timer is late without bound.
LEMMA FirstFacts ==
    ASSUME NEW T \in SUBSET Timer, T # {}, NEW b \in Int, \A t \in T : b <= t.left
    PROVE  First(T) \in T /\ \A u \in T : First(T).left <= u.left
<1> DEFINE L == {t.left : t \in T}
<1>1. \A t \in T : t.left \in Int /\ t.ctx \in Contexts /\ t.ctx \in Nat
  BY ParamAssumption DEF Timer
<1>2. L \in SUBSET Int /\ L # {} /\ \A n \in L : b <= n
  BY <1>1
<1>3. PICK l \in L : \A m \in L : l <= m
  <2> HIDE DEF L
  <2> QED BY <1>2, LeastInt
<1> DEFINE C == {c \in Nat : \E t \in T : t.left = l /\ t.ctx = c}
<1>4. C \in SUBSET Nat /\ C # {}
  BY <1>1, <1>3
<1>5. PICK c \in C : \A d \in C : c <= d
  <2> HIDE DEF C
  <2> QED BY <1>4, LeastNat
<1>6. PICK f \in T : f.left = l /\ f.ctx = c
  BY <1>5
<1>7. ASSUME NEW u \in T PROVE compare_timers(f, u)
  <2>1. u.left \in L /\ u.left \in Int /\ u.ctx \in Nat
    BY <1>1
  <2>2. l <= u.left /\ (u.left = l => u.ctx \in C)
    BY <1>3, <2>1
  <2>3. u.left = l => c <= u.ctx
    BY <1>5, <2>2
  <2>4. l \in Int
    BY <1>2
  <2> QED BY <1>6, <2>1, <2>2, <2>3, <2>4 DEF compare_timers
<1>8. First(T) \in T /\ \A u \in T : compare_timers(First(T), u)
  BY <1>7 DEF First
<1>9. ASSUME NEW u \in T PROVE First(T).left <= u.left
  BY <1>1, <1>8 DEF compare_timers
<1> QED BY <1>8, <1>9

\* What the types and the two bounds say of the tree T.
Bounded(T) ==
    /\ T \in SUBSET Timer
    /\ \A t \in T : t.left <= Longest
    /\ Awaited(T)
    /\ Late(T)

\* A tree that is bounded is not late.
LEMMA BoundedLate ==
    ASSUME TypeOK, NEW T, Bounded(T)
    PROVE  \A t \in T : t.left \in Int /\ t.left >= -(3 * MaxLate + 1)
<1>1. MaxLate \in Nat /\ \A t \in T : t.left \in Int
  BY ParamAssumption DEF Bounded, Timer
<1>2. wake \in Int /\ wake >= -MaxLate /\ anow \in Nat /\ anow <= MaxLate
  BY <1>1, Extremes DEF TypeOK
<1>3. CASE running
  BY <1>1, <1>2, <1>3 DEF Bounded, Late
<1>4. CASE ~running
  BY <1>1, <1>2, <1>4 DEF Bounded, Awaited
<1> QED BY <1>3, <1>4

\* pinger_schedule adds a timer of a whole interval and sees that the front
\* end knows if it is the first.
LEMMA ScheduleInTime ==
    ASSUME TypeOK, NEW T, Bounded(T), NEW c \in Contexts,
           NEW p \in Pinger, p.alive, Spaced(p),
           pinger_schedule(T, c, p), running' = running, anow' = anow
    PROVE  /\ Bounded(timers)'
           /\ timer_contexts' \subseteq Contexts
           /\ armed' \in BOOLEAN /\ wake' \in -MaxLate .. Longest + MaxLate
           /\ \E r \in Pinger : pingers' = [pingers EXCEPT ![c] = r] /\ Spaced(r)
<1> DEFINE t == [ctx |-> c, left |-> p.interval]
<1>0. MaxLate \in Nat /\ MaxLate > 0 /\ Longest \in Nat /\ Shortest \in Nat
  BY ParamAssumption, Extremes
<1>1. p.interval \in Intervals /\ p.interval \in Nat /\ p.interval <= Longest
      /\ p.next \in Int /\ p.since \in Nat /\ p.since <= Longest
  <2>1. p.interval \in Intervals /\ p.next \in Int /\ p.since \in 0 .. Longest
    BY Zenon DEF Pinger
  <2> QED BY <2>1, <1>0, IntervalType, Extremes
<1>2. CASE p.interval = 0
  <2> DEFINE r == [p EXCEPT !.pending = FALSE, !.next = 0]
  <2>1. /\ timers' = T
        /\ UNCHANGED <<timer_contexts, armed, wake>>
        /\ pingers' = [pingers EXCEPT ![c] = r]
    BY <1>2 DEF pinger_schedule
  <2>2. r \in Pinger /\ ~r.pending
    <3>1. 0 \in Int
      OBVIOUS
    <3>2. r \in Pinger /\ r.pending = FALSE
      BY <3>1, SetPending
    <3> QED BY <3>2
  <2>3. Bounded(timers)'
    BY <2>1 DEF Bounded, Awaited, Late
  <2>4. Spaced(r)
    BY <2>2 DEF Spaced
  <2> QED BY <2>1, <2>2, <2>3, <2>4 DEF TypeOK
<1>3. CASE p.interval # 0
  <2> DEFINE r == IF ~p.pending \/ p.interval < p.next
                  THEN [p EXCEPT !.pending = TRUE, !.next = p.interval]
                  ELSE p
  <2>1. pingers' = [pingers EXCEPT ![c] = r] /\ schedule_timer(T, t)
    BY <1>3 DEF pinger_schedule
  <2>2. r \in Pinger /\ Spaced(r)
    <3>1. CASE ~p.pending \/ p.interval < p.next
      <4> DEFINE q == [p EXCEPT !.pending = TRUE, !.next = p.interval]
      <4>1. q \in Pinger /\ q.alive = p.alive /\ q.next = p.interval /\ q.since = p.since
        <5>1. p.interval \in Int
          BY <1>1
        <5> QED BY <5>1, Zenon DEF Pinger
      <4>2. p.since + p.interval >= Shortest
        BY <1>0, <1>1, <1>3, Extremes
      <4>3. r = q
        BY <3>1
      <4> HIDE DEF q, r
      <4> QED BY <4>1, <4>2, <4>3 DEF Spaced
    <3>2. CASE ~(~p.pending \/ p.interval < p.next)
      BY <3>2
    <3> QED BY <3>1, <3>2
  <2>3. t \in Timer /\ t.left = p.interval /\ t.ctx = c
    BY <1>1 DEF Timer
  <2> HIDE DEF t, r
  <2>4. timers' = T \cup {t} /\ timers' \in SUBSET Timer
        /\ \A u \in timers' : u.left <= Longest
    BY <1>1, <2>1, <2>3 DEF schedule_timer, Bounded
  <2>5. timer_contexts' \subseteq Contexts
    BY <2>1, <2>3 DEF schedule_timer, TypeOK
  <2>6. Late(timers)'
    <3>1. t.left >= -(2 * MaxLate + 1) - anow
      BY <1>0, <1>1, <2>3 DEF TypeOK
    <3> QED BY <2>4, <3>1 DEF Bounded, Late
  <2>7. CASE t \notin T /\ First(T \cup {t}) = t
    <3>1. armed' = TRUE /\ wake' = p.interval
      BY <1>1, <1>3, <2>1, <2>3, <2>7 DEF schedule_timer, armTimer
    <3>2. \A u \in T \cup {t} : p.interval <= u.left /\ u.left \in Int
      <4>1. \A u \in T \cup {t} : u.left \in Int /\ -(3 * MaxLate + 1) <= u.left
        BY <1>0, <1>1, <2>3, BoundedLate
      <4>2. -(3 * MaxLate + 1) \in Int
        BY <1>0
      <4>3. \A u \in T \cup {t} : First(T \cup {t}).left <= u.left
        BY <2>4, <4>1, <4>2, FirstFacts
      <4> QED BY <2>3, <2>7, <4>1, <4>3
    <3>3. Awaited(timers)'
      BY <1>0, <1>1, <2>4, <3>1, <3>2 DEF Awaited
    <3>4. wake' \in -MaxLate .. Longest + MaxLate
      BY <1>0, <1>1, <3>1
    <3> QED BY <2>1, <2>2, <2>4, <2>5, <2>6, <3>1, <3>3, <3>4 DEF Bounded
  <2>8. CASE ~(t \notin T /\ First(T \cup {t}) = t)
    <3>1. UNCHANGED <<armed, wake>>
      BY <2>1, <2>8 DEF schedule_timer
    <3>2. \E u \in T : u.left <= t.left
      <4>1. CASE t \in T
        BY <1>1, <2>3, <4>1
      <4>2. CASE t \notin T
        <5>1. \A u \in T \cup {t} : u.left \in Int /\ -(3 * MaxLate + 1) <= u.left
          BY <1>0, <1>1, <2>3, BoundedLate
        <5>2. -(3 * MaxLate + 1) \in Int
          BY <1>0
        <5>3. /\ First(T \cup {t}) \in T \cup {t}
              /\ \A u \in T \cup {t} : First(T \cup {t}).left <= u.left
          BY <2>4, <5>1, <5>2, FirstFacts
        <5> QED BY <2>8, <4>2, <5>3
      <4> QED BY <4>1, <4>2
    <3>3. Awaited(timers)'
      <4>1. \A u \in T : u.left \in Int
        BY BoundedLate
      <4>2. wake \in Int
        BY <1>0 DEF TypeOK
      <4> QED BY <1>0, <1>1, <2>3, <2>4, <3>1, <3>2, <4>1, <4>2 DEF Awaited, Bounded
    <3> QED BY <2>1, <2>2, <2>4, <2>5, <2>6, <3>1, <3>3 DEF Bounded, TypeOK
  <2> QED BY <2>7, <2>8
<1> QED BY <1>2, <1>3

\* What PunctualInv needs of a step that calls pinger_schedule for c.
LEMMA ScheduleStep ==
    ASSUME PunctualInv, NEW T, Bounded(T), NEW c \in Contexts,
           NEW p \in Pinger, p.alive, Spaced(p),
           pinger_schedule(T, c, p), UNCHANGED <<running, anow>>,
           now' \in 0 .. anow, early' = early
    PROVE  PunctualInv'
<1>1. TypeOK
  BY DEF PunctualInv
<1>2. /\ Bounded(timers)'
      /\ timer_contexts' \subseteq Contexts
      /\ armed' \in BOOLEAN /\ wake' \in -MaxLate .. Longest + MaxLate
  BY <1>1, ScheduleInTime
<1>3. PICK r \in Pinger : pingers' = [pingers EXCEPT ![c] = r] /\ Spaced(r)
  BY <1>1, ScheduleInTime
<1>4. pingers \in [Contexts -> Pinger]
  BY <1>1 DEF TypeOK
<1>5. pingers' \in [Contexts -> Pinger]
  BY <1>3, <1>4
<1>6. ASSUME NEW d \in Contexts PROVE Spaced(pingers[d])'
  <2>1. CASE d = c
    <3>1. pingers'[d] = r
      BY <1>3, <1>4, <2>1
    <3> QED BY <1>3, <3>1 DEF Spaced
  <2>2. CASE d # c
    <3>1. pingers'[d] = pingers[d]
      BY <1>3, <1>4, <2>2
    <3>2. Spaced(pingers[d])
      BY DEF PunctualInv
    <3> QED BY <3>1, <3>2 DEF Spaced
  <2> QED BY <2>1, <2>2
<1>7. /\ timers' \subseteq [ctx : Contexts, left : Int]
      /\ \A t \in timers' : t.left <= Longest
      /\ Awaited(timers)' /\ Late(timers)'
  BY <1>2 DEF Bounded, Timer
<1>8. running' \in BOOLEAN /\ anow' \in 0 .. MaxLate /\ now' \in 0 .. anow' /\ ~early'
      /\ early' \in BOOLEAN
  BY <1>1 DEF TypeOK, PunctualInv
<1>9. TypeOK'
  BY <1>2, <1>5, <1>7, <1>8 DEF TypeOK
<1>10. \A d \in Contexts : Spaced(pingers[d])'
  BY <1>6
<1> QED BY <1>7, <1>8, <1>9, <1>10 DEF PunctualInv

\* The invariant bounds the tree, and every tree that is part of it.
LEMMA PartBounded ==
    ASSUME PunctualInv, NEW T \in SUBSET timers
    PROVE  Bounded(T)
BY DEF PunctualInv, TypeOK, Bounded, Timer, Awaited, Late

\* A new pinger has a whole interval before its first ping.
LEMMA NewInTime ==
    ASSUME PunctualInv, NEW c \in Contexts, NEW n \in Intervals, pinger_new(c, n)
    PROVE  PunctualInv'
<1> DEFINE p == [Free EXCEPT !.alive = TRUE, !.interval = n]
<1>1. p \in Pinger /\ p.alive /\ ~p.pending
  <2> HIDE DEF Free
  <2>1. p \in Pinger /\ p.pending = Free.pending /\ p.alive
    BY FreeType, SetInterval
  <2> HIDE DEF p
  <2> QED BY <2>1, FreeType
<1>2. pinger_schedule(timers, c, p) /\ UNCHANGED <<running, anow, now, early>>
  BY DEF pinger_new
<1>3. now' \in 0 .. anow
  BY <1>2 DEF PunctualInv, TypeOK
<1>4. Bounded(timers)
  BY PartBounded
<1> HIDE DEF p
<1>5. Spaced(p)
  BY <1>1 DEF Spaced
<1> QED BY <1>1, <1>2, <1>3, <1>4, <1>5, ScheduleStep

\* A new interval replaces a ping only by an earlier one that is a whole
\* interval away.
LEMMA ReconfigInTime ==
    ASSUME PunctualInv, NEW c \in Contexts, NEW n \in Intervals, pinger_reconfig(c, n)
    PROVE  PunctualInv'
<1> DEFINE p == [pingers[c] EXCEPT !.interval = n]
<1>1. pingers[c] \in Pinger /\ pingers[c].alive /\ Spaced(pingers[c])
  BY DEF PunctualInv, TypeOK, pinger_reconfig
<1>2. p \in Pinger /\ p.pending = pingers[c].pending /\ p.next = pingers[c].next
      /\ p.alive = pingers[c].alive /\ p.since = pingers[c].since
  BY <1>1, Zenon DEF Pinger
<1>3. pinger_schedule(timers, c, p) /\ UNCHANGED <<running, anow, now, early>>
  BY DEF pinger_reconfig
<1>4. now' \in 0 .. anow
  BY <1>3 DEF PunctualInv, TypeOK
<1>5. Bounded(timers)
  BY PartBounded
<1> HIDE DEF p
<1>6. Spaced(p) /\ p.alive
  BY <1>1, <1>2 DEF Spaced
<1> QED BY <1>2, <1>3, <1>4, <1>5, <1>6, ScheduleStep

\* A pinger that is freed leaves its timers to run_timers.
LEMMA FreeInTime ==
    ASSUME PunctualInv, NEW c \in Contexts, pinger_free(c)
    PROVE  PunctualInv'
<1>1. Free \in Pinger /\ ~Free.pending
  BY FreeType
<1>2. pingers' = [pingers EXCEPT ![c] = Free] /\ timer_contexts' = timer_contexts \ {c}
      /\ UNCHANGED <<timers, armed, wake, running, anow, now, early>>
  BY DEF pinger_free, expire_timer_context
<1>3. pingers \in [Contexts -> Pinger]
  BY DEF PunctualInv, TypeOK
<1>4. ASSUME NEW d \in Contexts PROVE Spaced(pingers[d])'
  <2>1. pingers'[d] = IF d = c THEN Free ELSE pingers[d]
    BY <1>2, <1>3
  <2>2. Spaced(pingers[d])
    BY DEF PunctualInv
  <2> QED BY <1>1, <2>1, <2>2 DEF Spaced
<1>5. TypeOK'
  <2>1. pingers' \in [Contexts -> Pinger] /\ timer_contexts' \subseteq Contexts
    BY <1>1, <1>2, <1>3 DEF PunctualInv, TypeOK
  <2> QED BY <1>2, <2>1 DEF PunctualInv, TypeOK
<1>6. Awaited(timers)' /\ Late(timers)' /\ ~early'
  BY <1>2 DEF PunctualInv, Awaited, Late
<1> QED BY <1>4, <1>5, <1>6 DEF PunctualInv

\* When the front end's timer goes off, no timer of the tree is later than the
\* timer itself was set late and served late.
LEMMA TriggeredInTime ==
    ASSUME PunctualInv, TimerTriggered
    PROVE  PunctualInv'
<1>1. /\ armed' = FALSE /\ wake' = 0 /\ running' = TRUE /\ anow' = 0 /\ now' = 0
      /\ UNCHANGED <<timers, timer_contexts, pingers, early>> /\ ~running
  BY DEF TimerTriggered
<1>2. MaxLate \in Nat /\ Longest \in Nat
  BY ParamAssumption, Extremes
<1>3. \A t \in timers : t.left \in Int
  BY DEF PunctualInv, TypeOK
<1>4. TypeOK'
  <2>1. 0 \in -MaxLate .. Longest + MaxLate /\ 0 \in 0 .. MaxLate /\ 0 \in 0 .. 0
    BY <1>2
  <2>2. wake' \in -MaxLate .. Longest + MaxLate /\ anow' \in 0 .. MaxLate /\ now' \in 0 .. anow'
    BY <1>1, <2>1, Zenon
  <2>3. armed' \in BOOLEAN /\ running' \in BOOLEAN
    BY <1>1, Zenon
  <2> QED BY <1>1, <2>2, <2>3, Zenon DEF PunctualInv, TypeOK
<1>5. Late(timers)'
  <2>1. wake \in Int /\ wake >= -MaxLate
    BY <1>2 DEF PunctualInv, TypeOK
  <2>2. ASSUME NEW t \in timers PROVE t.left >= -(2 * MaxLate + 1) - 0
    <3>1. wake <= t.left + MaxLate + 1
      BY <1>1 DEF PunctualInv, Awaited
    <3> QED BY <1>2, <1>3, <2>1, <3>1
  <2> QED BY <1>1, <2>2 DEF Late
<1>6. Awaited(timers)' /\ ~early' /\ \A c \in Contexts : Spaced(pingers[c])'
  BY <1>1 DEF PunctualInv, Awaited, Spaced
<1> QED BY <1>4, <1>5, <1>6 DEF PunctualInv

\* A timer that is dropped changes nothing for the others.
LEMMA DropInTime ==
    ASSUME PunctualInv, DropExpired
    PROVE  PunctualInv'
<1>1. timers' \subseteq timers
      /\ UNCHANGED <<timer_contexts, armed, wake, running, anow, now, pingers, early>>
  BY DEF DropExpired
<1>2. TypeOK'
  BY <1>1 DEF PunctualInv, TypeOK
<1>3. Awaited(timers)' /\ Late(timers)' /\ ~early' /\ \A c \in Contexts : Spaced(pingers[c])'
  BY <1>1 DEF PunctualInv, Awaited, Late, Spaced
<1> QED BY <1>2, <1>3 DEF PunctualInv

\* A ping that is sent is one whose time has come, a whole interval after the
\* one before it.
LEMMA RunInTime ==
    ASSUME PunctualInv, RunTimer
    PROVE  PunctualInv'
<1> DEFINE t == First(timers)
           T == timers \ {t}
           c == t.ctx
           p == pingers[c]
<1>1. /\ t.ctx \in timer_contexts /\ t.left < -now
      /\ pinger_timer(T, t) /\ UNCHANGED <<running, anow>>
  BY DEF RunTimer
<1>2. c \in Contexts /\ p \in Pinger /\ Spaced(p)
  BY <1>1 DEF PunctualInv, TypeOK
<1>3. now \in Nat /\ anow \in Nat /\ now <= anow
  BY ParamAssumption DEF PunctualInv, TypeOK
<1>4. Bounded(T)
  BY PartBounded
<1> HIDE DEF t, T, c, p
<1>5. CASE Due(p, t.left)
  <2> DEFINE q == [p EXCEPT !.pending = FALSE, !.since = 0]
  <2>1. pinger_schedule(T, c, q) /\ early' = (early \/ p.since < Shortest) /\ now' = 0
    BY <1>1, <1>5 DEF pinger_timer, c, p
  <2>2. q \in Pinger /\ q.pending = FALSE /\ q.alive = p.alive
    <3>1. 0 \in 0 .. Longest
      BY LongestType
    <3> QED BY <1>2, <3>1, Zenon DEF Pinger
  <2>3. p.since >= Shortest
    <3>1. p.next \in Int /\ p.since \in 0 .. Longest
      BY <1>2, Zenon DEF Pinger
    <3>2. p.next < 0 /\ p.pending
      BY <1>1, <1>3, <1>5, <3>1 DEF Due
    <3>3. p.since = Longest \/ p.since + p.next >= Shortest
      BY <1>2, <3>2 DEF Spaced
    <3> QED BY <3>1, <3>2, <3>3, Extremes
  <2>4. early' = early
    <3>1. ~(p.since < Shortest) /\ ~early
      <4>1. p.since \in 0 .. Longest
        BY <1>2, Zenon DEF Pinger
      <4> QED BY <2>3, <4>1, Extremes DEF PunctualInv
    <3> QED BY <2>1, <3>1, Zenon DEF PunctualInv, TypeOK
  <2>5. now' \in 0 .. anow
    BY <1>3, <2>1
  <2> HIDE DEF q
  <2>6. q.alive /\ Spaced(q)
    BY <1>2, <1>5, <2>2 DEF Spaced, Due
  <2> QED BY <1>1, <1>2, <1>4, <2>1, <2>2, <2>4, <2>5, <2>6, ScheduleStep
<1>6. CASE ~Due(p, t.left)
  <2>1. timers' = T /\ UNCHANGED <<timer_contexts, armed, wake, now, pingers, early>>
    BY <1>1, <1>6 DEF pinger_timer, c, p
  <2>2. timers' \subseteq timers
    BY <2>1 DEF T
  <2>3. TypeOK'
    BY <1>1, <2>1, <2>2 DEF PunctualInv, TypeOK
  <2>4. Awaited(timers)' /\ Late(timers)' /\ ~early' /\ \A d \in Contexts : Spaced(pingers[d])'
    BY <1>1, <2>1, <2>2 DEF PunctualInv, Awaited, Late, Spaced
  <2> QED BY <2>3, <2>4 DEF PunctualInv
<1> QED BY <1>5, <1>6

\* run_timers returns with the first timer, for which the front end arms its
\* own, late by no more than the ticks run_timers took and the tick by which
\* it was too soon.
LEMMA NextInTime ==
    ASSUME PunctualInv, NextTimer
    PROVE  PunctualInv'
<1> DEFINE t == First(timers)
<1>1. /\ timers # {} /\ t.left >= -now
      /\ armTimer(t.left + anow)
      /\ running' = FALSE /\ anow' = 0 /\ now' = 0
      /\ UNCHANGED <<timers, timer_contexts, pingers, early>>
  BY DEF NextTimer
<1>2. MaxLate \in Nat /\ MaxLate > 0 /\ Longest \in Nat
  BY ParamAssumption, Extremes
<1>3. now \in Nat /\ anow \in Nat /\ now <= anow /\ anow <= MaxLate
  BY <1>2 DEF PunctualInv, TypeOK
<1>4. /\ t \in timers /\ t.left \in Int /\ t.left <= Longest
      /\ \A u \in timers : t.left <= u.left /\ u.left \in Int
  <2>1. Bounded(timers) /\ TypeOK
    BY PartBounded DEF PunctualInv
  <2>2. \A u \in timers : u.left \in Int /\ -(3 * MaxLate + 1) <= u.left
    BY <1>2, <2>1, BoundedLate
  <2>3. timers \in SUBSET Timer /\ -(3 * MaxLate + 1) \in Int
    BY <1>2, <2>1 DEF Bounded
  <2>4. t \in timers /\ \A u \in timers : t.left <= u.left
    BY <1>1, <2>2, <2>3, FirstFacts
  <2> QED BY <2>1, <2>2, <2>4 DEF Bounded
<1> HIDE DEF t
<1>5. armed' = TRUE /\ wake' \in Int /\ wake' >= 1
      /\ wake' <= t.left + anow + 1 /\ wake' <= Longest + MaxLate
  BY <1>1, <1>2, <1>3, <1>4 DEF armTimer
<1>6. TypeOK'
  <2>1. wake' \in -MaxLate .. Longest + MaxLate
    BY <1>2, <1>5
  <2>2. anow' \in 0 .. MaxLate /\ now' \in 0 .. anow'
    BY <1>1, <1>2
  <2>3. armed' \in BOOLEAN /\ running' \in BOOLEAN
    BY <1>1, <1>5, Zenon
  <2> QED BY <1>1, <2>1, <2>2, <2>3, Zenon DEF PunctualInv, TypeOK
<1>7. Awaited(timers)'
  BY <1>1, <1>2, <1>3, <1>4, <1>5 DEF Awaited
<1>8. Late(timers)' /\ ~early' /\ \A c \in Contexts : Spaced(pingers[c])'
  BY <1>1 DEF PunctualInv, Late, Spaced
<1> QED BY <1>6, <1>7, <1>8 DEF PunctualInv

\* run_timers returns with the tree empty.
LEMMA NoneInTime ==
    ASSUME PunctualInv, NoTimer
    PROVE  PunctualInv'
<1>1. /\ timers = {} /\ running' = FALSE /\ anow' = 0 /\ now' = 0
      /\ UNCHANGED <<timers, timer_contexts, armed, wake, pingers, early>>
  BY DEF NoTimer
<1>2. TypeOK'
  <2>1. MaxLate \in Nat
    BY ParamAssumption
  <2>2. anow' \in 0 .. MaxLate /\ now' \in 0 .. anow'
    BY <1>1, <2>1
  <2>3. running' \in BOOLEAN
    BY <1>1, Zenon
  <2> QED BY <1>1, <2>2, <2>3, Zenon DEF PunctualInv, TypeOK
<1>3. Awaited(timers)' /\ Late(timers)'
  BY <1>1 DEF Awaited, Late
<1>4. ~early' /\ \A c \in Contexts : Spaced(pingers[c])'
  BY <1>1 DEF PunctualInv, Spaced
<1> QED BY <1>2, <1>3, <1>4 DEF PunctualInv

\* A tick brings every timer, every ping and the wakeup nearer by one.
LEMMA TickInTime ==
    ASSUME PunctualInv, Tick
    PROVE  PunctualInv'
<1>1. MaxLate \in Nat /\ Longest \in Nat /\ Shortest \in Nat
  BY ParamAssumption, Extremes
<1>2. /\ armed => wake > -MaxLate
      /\ running => anow < MaxLate
      /\ wake' = IF armed THEN wake - 1 ELSE wake
      /\ anow' = IF running THEN anow + 1 ELSE 0
      /\ now' = IF running THEN now + 1 ELSE 0
      /\ UNCHANGED <<timer_contexts, armed, running, early>>
  BY DEF Tick
<1>3. /\ wake \in Int /\ wake >= -MaxLate /\ wake <= Longest + MaxLate
      /\ anow \in Nat /\ anow <= MaxLate /\ now \in Nat /\ now <= anow
  BY <1>1 DEF PunctualInv, TypeOK
<1>4. ASSUME NEW u \in timers'
      PROVE  /\ u \in Timer /\ u.left <= Longest
             /\ \E t \in timers : t.left \in Int /\ u.left = t.left - 1
  <2>1. PICK t \in timers : u = [t EXCEPT !.left = @ - 1]
    BY DEF Tick
  <2>2. t \in Timer /\ t.left <= Longest
    BY DEF PunctualInv, TypeOK, Timer
  <2>3. t.ctx \in Contexts /\ t.left \in Int /\ u = [ctx |-> t.ctx, left |-> t.left - 1]
    BY <2>1, <2>2 DEF Timer
  <2> QED BY <1>1, <2>2, <2>3 DEF Timer
<1>5. ASSUME NEW c \in Contexts
      PROVE  pingers'[c] \in Pinger /\ Spaced(pingers[c])'
  <2> DEFINE p == pingers[c]
             n == IF p.pending THEN p.next - 1 ELSE p.next
             s == IF p.alive /\ p.since < Longest THEN p.since + 1 ELSE p.since
             q == [p EXCEPT !.next = n, !.since = s]
  <2>1. pingers'[c] = q
    BY DEF Tick
  <2>2. p \in Pinger /\ Spaced(p)
    BY DEF PunctualInv, TypeOK
  <2>3. p.next \in Int /\ p.since \in 0 .. Longest
    BY <2>2, Zenon DEF Pinger
  <2>4. n \in Int /\ s \in 0 .. Longest
    BY <1>1, <2>3
  <2>5. q \in Pinger /\ q.alive = p.alive /\ q.pending = p.pending /\ q.next = n /\ q.since = s
    <3> HIDE DEF p, n, s
    <3> QED BY <2>2, <2>4, Zenon DEF Pinger
  <2>6. p.pending => s = Longest \/ s + n >= Shortest
    <3> HIDE DEF p
    <3> QED BY <1>1, <2>2, <2>3 DEF Spaced
  <2>7. Spaced(q)
    <3> HIDE DEF p, n, s, q
    <3> QED BY <2>2, <2>5, <2>6 DEF Spaced
  <2> HIDE DEF q
  <2> QED BY <2>1, <2>5, <2>7 DEF Spaced
<1>6. pingers' \in [Contexts -> Pinger]
  <2>1. pingers' = [c \in Contexts |-> pingers'[c]]
    BY DEF Tick
  <2> QED BY <1>5, <2>1
<1>7. TypeOK'
  <2>1. timers' \subseteq [ctx : Contexts, left : Int] /\ \A u \in timers' : u.left <= Longest
    BY <1>4 DEF Timer
  <2>2. wake' \in -MaxLate .. Longest + MaxLate
    BY <1>1, <1>2, <1>3
  <2>3. anow' \in 0 .. MaxLate /\ now' \in 0 .. anow'
    BY <1>1, <1>2, <1>3
  <2> QED BY <1>2, <1>6, <2>1, <2>2, <2>3 DEF PunctualInv, TypeOK
<1>8. Awaited(timers)'
  <2>1. ASSUME NEW u \in timers', ~running PROVE armed /\ wake' <= u.left + MaxLate + 1
    <3>1. PICK t \in timers : t.left \in Int /\ u.left = t.left - 1
      BY <1>4
    <3>2. armed /\ wake <= t.left + MaxLate + 1
      BY <2>1 DEF PunctualInv, Awaited
    <3> QED BY <1>1, <1>2, <1>3, <3>1, <3>2
  <2> QED BY <1>2, <2>1 DEF Awaited
<1>9. Late(timers)'
  <2>1. ASSUME NEW u \in timers', running PROVE u.left >= -(2 * MaxLate + 1) - anow'
    <3>1. PICK t \in timers : t.left \in Int /\ u.left = t.left - 1
      BY <1>4
    <3>2. t.left >= -(2 * MaxLate + 1) - anow
      BY <2>1 DEF PunctualInv, Late
    <3> QED BY <1>1, <1>2, <1>3, <2>1, <3>1, <3>2
  <2> QED BY <1>2, <2>1 DEF Late
<1>10. ~early'
  BY <1>2 DEF PunctualInv
<1> QED BY <1>5, <1>7, <1>8, <1>9, <1>10 DEF PunctualInv

\* No timer waits in timing.c's tree for longer than 3 * MaxLate + 1 ticks
\* after it was due, if the event loop and run_timers take at most MaxLate
\* ticks each, and no ping of pinger.c follows another by less than the
\* shortest interval: for any number of pingers, any intervals and even when
\* addresses are allocated again while old timers name them.
THEOREM TimersArePunctual == Spec => []TimersPunctual
<1>1. Init => PunctualInv
  <2> SUFFICES ASSUME Init PROVE PunctualInv
    OBVIOUS
  <2>1. MaxLate \in Nat /\ Longest \in Nat
    BY ParamAssumption, Extremes
  <2>2. TypeOK
    <3>1. 0 \in -MaxLate .. Longest + MaxLate /\ 0 \in 0 .. MaxLate /\ 0 \in 0 .. 0
      BY <2>1
    <3>2. pingers \in [Contexts -> Pinger]
      BY FreeType DEF Init
    <3>3. armed \in BOOLEAN /\ running \in BOOLEAN /\ early \in BOOLEAN
      BY Zenon DEF Init
    <3> QED BY <3>1, <3>2, <3>3 DEF Init, TypeOK
  <2>3. \A c \in Contexts : Spaced(pingers[c])
    BY FreeType DEF Init, Spaced
  <2> QED BY <2>2, <2>3 DEF Init, PunctualInv, Awaited, Late
<1>2. PunctualInv /\ [Next]_vars => PunctualInv'
  <2> SUFFICES ASSUME PunctualInv, [Next]_vars PROVE PunctualInv'
    OBVIOUS
  <2>1. ASSUME NEW c \in Contexts, NEW n \in Intervals, pinger_new(c, n) PROVE PunctualInv'
    BY <2>1, NewInTime
  <2>2. ASSUME NEW c \in Contexts, NEW n \in Intervals, pinger_reconfig(c, n) PROVE PunctualInv'
    BY <2>2, ReconfigInTime
  <2>3. ASSUME NEW c \in Contexts, pinger_free(c) PROVE PunctualInv'
    BY <2>3, FreeInTime
  <2>4. CASE TimerTriggered
    BY <2>4, TriggeredInTime
  <2>5. CASE DropExpired
    BY <2>5, DropInTime
  <2>6. CASE RunTimer
    BY <2>6, RunInTime
  <2>7. CASE NextTimer
    BY <2>7, NextInTime
  <2>8. CASE NoTimer
    BY <2>8, NoneInTime
  <2>9. CASE Tick
    BY <2>9, TickInTime
  <2>10. CASE UNCHANGED vars
    BY <2>10 DEF vars, PunctualInv, TypeOK, Awaited, Late, Spaced
  <2> QED BY <2>1, <2>2, <2>3, <2>4, <2>5, <2>6, <2>7, <2>8, <2>9, <2>10 DEF Next, run_timers
<1>3. PunctualInv => TimersPunctual
  <2> SUFFICES ASSUME PunctualInv PROVE TimersPunctual
    OBVIOUS
  <2>1. Bounded(timers)
    BY PartBounded
  <2>2. TypeOK /\ ~early
    BY DEF PunctualInv
  <2>3. \A t \in timers : t.left >= -(3 * MaxLate + 1)
    BY <2>1, <2>2, BoundedLate
  <2> QED BY <2>2, <2>3 DEF TimersPunctual, TimersServedInTime, NoEarlyPing
<1> QED BY <1>1, <1>2, <1>3, PTL DEF Spec
=============================================================================
