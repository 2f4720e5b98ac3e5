------------------------------- MODULE Timers -------------------------------
(***************************************************************************)
(* The timers of _LEGACY/timing.c, the single TQTimer that drives them     *)
(* (tqt/tqtcomm.cpp) and the keepalive sender that uses them               *)
(* (_LEGACY/pinger.c).                                                     *)
(*                                                                         *)
(* Times are relative to the clock (GETTICKCOUNT, which is monotonic and   *)
(* does not wrap in the life of the program): a timer is kept with the     *)
(* ticks left until it is due, negative once that has passed, and every    *)
(* tick of the clock counts them all down.                                 *)
(***************************************************************************)
EXTENDS Integers, FiniteSets

CONSTANTS
    Contexts,   \* addresses at which pingers are allocated
    Intervals,  \* ping intervals the user may configure, in ticks, 0 for none
    Reuse,      \* an address may be allocated again while old timers name it
    Early,      \* ticks by which the TQTimer may go off early
    MaxLate     \* bound: ticks by which the event loop serves a timer late

ASSUME ParamAssumption ==
    /\ Contexts \subseteq Nat
    /\ Intervals \subseteq Nat
    /\ 0 \in Intervals
    /\ \E n \in Intervals : n > 0
    /\ \E n \in Intervals : \A m \in Intervals : m <= n
    /\ Reuse \in BOOLEAN
    /\ Early \in Nat
    /\ MaxLate \in Nat \ {0}

VARIABLES
    timers,          \* the tree of timers: set of [ctx, left]
    timer_contexts,  \* contexts with timers that have not been expired
    armed, wake,     \* m_timer: whether it is active, and its ticks left
    running,         \* timerTriggered is on the stack, inside run_timers
    anow,            \* ticks since timerTriggered read the clock
    now,             \* ticks since timing.c's now was read
    pingers,         \* the struct Pinger at each address
    early            \* history: a ping was sent too early

vars == <<timers, timer_contexts, armed, wake, running, anow, now, pingers, early>>

Longest == CHOOSE n \in Intervals : \A m \in Intervals : m <= n

Shortest == CHOOSE n \in Intervals \ {0} : \A m \in Intervals \ {0} : n <= m

\* next is the ticks left until the ping that is pending; since counts the
\* ticks since the pinger was created or last sent a ping (history).
Pinger == [alive : BOOLEAN, interval : Intervals, pending : BOOLEAN, next : Int,
           since : 0 .. Longest]

Free == [alive |-> FALSE, interval |-> 0, pending |-> FALSE, next |-> 0, since |-> 0]

TypeOK ==
    /\ timers \subseteq [ctx : Contexts, left : Int]
    /\ \A t \in timers : t.left <= Longest
    /\ timer_contexts \subseteq Contexts
    /\ armed \in BOOLEAN
    /\ wake \in -MaxLate .. Longest + MaxLate
    /\ running \in BOOLEAN
    /\ anow \in 0 .. MaxLate
    /\ now \in 0 .. anow
    /\ pingers \in [Contexts -> Pinger]
    /\ early \in BOOLEAN

Init ==
    /\ timers = {}
    /\ timer_contexts = {}
    /\ armed = FALSE
    /\ wake = 0
    /\ running = FALSE
    /\ anow = 0
    /\ now = 0
    /\ pingers = [c \in Contexts |-> Free]
    /\ early = FALSE

-----------------------------------------------------------------------------
(* timing.c. A BUG definition is the one below it with a plausible slip. *)

\* The order of the tree: by time, then by context.
compare_timers(a, b) == a.left < b.left \/ (a.left = b.left /\ a.ctx <= b.ctx)

First(T) == CHOOSE t \in T : \A u \in T : compare_timers(t, u)

\* armTimer, for the front end's timer_change_notify and timerTriggered.
armTimer(ticks) ==
    /\ armed' = TRUE
    /\ wake' = IF ticks <= 0 THEN 1 ELSE ticks

\* schedule_timer, when the tree holds T. Of two timers with the same time
\* and context only the first is kept, and its context is not looked at again.
schedule_timer(T, t) ==
    /\ timers' = T \cup {t}
    /\ timer_contexts' = IF t \in T THEN timer_contexts ELSE timer_contexts \cup {t.ctx}
    /\ IF t \notin T /\ First(T \cup {t}) = t THEN armTimer(t.left) ELSE UNCHANGED <<armed, wake>>

\* expire_timer_context leaves the timers in the tree.
expire_timer_context(c) == timer_contexts' = timer_contexts \ {c}

-----------------------------------------------------------------------------
(* pinger.c *)

\* pinger_schedule for the pinger p at c. An earlier ping stays pending.
pinger_schedule(T, c, p) ==
    IF p.interval = 0
    THEN /\ pingers' = [pingers EXCEPT ![c] = [p EXCEPT !.pending = FALSE, !.next = 0]]
         /\ timers' = T
         /\ UNCHANGED <<timer_contexts, armed, wake>>
    ELSE /\ schedule_timer(T, [ctx |-> c, left |-> p.interval])
         /\ pingers' = [pingers EXCEPT ![c] =
                           IF ~p.pending \/ p.interval < p.next
                           THEN [p EXCEPT !.pending = TRUE, !.next = p.interval]
                           ELSE p]

pinger_new(c, n) ==
    /\ ~running
    /\ ~pingers[c].alive
    /\ Reuse \/ \A t \in timers : t.ctx # c
    /\ pinger_schedule(timers, c, [Free EXCEPT !.alive = TRUE, !.interval = n])
    /\ UNCHANGED <<running, anow, now, early>>

pinger_reconfig(c, n) ==
    /\ ~running
    /\ pingers[c].alive
    /\ n # pingers[c].interval
    /\ pinger_schedule(timers, c, [pingers[c] EXCEPT !.interval = n])
    /\ UNCHANGED <<running, anow, now, early>>

pinger_free(c) ==
    /\ ~running
    /\ pingers[c].alive
    /\ expire_timer_context(c)
    /\ pingers' = [pingers EXCEPT ![c] = Free]
    /\ UNCHANGED <<timers, armed, wake, running, anow, now, early>>

BUGDue(p, left) == p.pending

\* A timer that the pinger no longer waits for is ignored.
Due(p, left) == p.pending /\ left = p.next

BUGpinger_timer(T, t) ==
    LET p == pingers[t.ctx]
    IN  IF Due(p, t.left)
        THEN /\ pingers' = [pingers EXCEPT ![t.ctx] =
                               [p EXCEPT !.pending = FALSE, !.next = 0, !.since = 0]]
             /\ timers' = T
             /\ UNCHANGED <<timer_contexts, armed, wake>>
             /\ early' = (early \/ p.since < Shortest)
             /\ now' = 0
        ELSE /\ timers' = T
             /\ UNCHANGED <<timer_contexts, armed, wake, now, pingers, early>>

\* pinger_timer: SS_PING, and the next ping is scheduled.
pinger_timer(T, t) ==
    LET p == pingers[t.ctx]
    IN  IF Due(p, t.left)
        THEN /\ pinger_schedule(T, t.ctx, [p EXCEPT !.pending = FALSE, !.since = 0])
             /\ early' = (early \/ p.since < Shortest)
             /\ now' = 0
        ELSE /\ timers' = T
             /\ UNCHANGED <<timer_contexts, armed, wake, now, pingers, early>>

-----------------------------------------------------------------------------
(* The front end *)

\* m_timer goes off: timerTriggered reads the clock and calls run_timers.
TimerTriggered ==
    /\ ~running
    /\ armed
    /\ wake <= Early
    /\ armed' = FALSE
    /\ wake' = 0
    /\ running' = TRUE
    /\ anow' = 0
    /\ now' = 0
    /\ UNCHANGED <<timers, timer_contexts, pingers, early>>

\* run_timers deletes a timer whose context has been expired,
DropExpired ==
    /\ running
    /\ timers # {}
    /\ First(timers).ctx \notin timer_contexts
    /\ timers' = timers \ {First(timers)}
    /\ UNCHANGED <<timer_contexts, armed, wake, running, anow, now, pingers, early>>

\* runs one whose time is before the present, as timing.c knows it,
RunTimer ==
    /\ running
    /\ timers # {}
    /\ First(timers).ctx \in timer_contexts
    /\ First(timers).left < -now
    /\ pinger_timer(timers \ {First(timers)}, First(timers))
    /\ UNCHANGED <<running, anow>>

\* and returns with the first one that is still to come, for which
\* timerTriggered arms m_timer,
NextTimer ==
    /\ running
    /\ timers # {}
    /\ First(timers).ctx \in timer_contexts
    /\ First(timers).left >= -now
    /\ armTimer(First(timers).left + anow)
    /\ running' = FALSE
    /\ anow' = 0
    /\ now' = 0
    /\ UNCHANGED <<timers, timer_contexts, pingers, early>>

\* or when there is none.
NoTimer ==
    /\ running
    /\ timers = {}
    /\ running' = FALSE
    /\ anow' = 0
    /\ now' = 0
    /\ UNCHANGED <<timers, timer_contexts, armed, wake, pingers, early>>

\* A millisecond passes.
Tick ==
    /\ armed => wake > -MaxLate
    /\ running => anow < MaxLate
    /\ timers' = {[t EXCEPT !.left = @ - 1] : t \in timers}
    /\ wake' = IF armed THEN wake - 1 ELSE wake
    /\ anow' = IF running THEN anow + 1 ELSE 0
    /\ now' = IF running THEN now + 1 ELSE 0
    /\ pingers' = [c \in Contexts |->
                      [pingers[c] EXCEPT !.next = IF pingers[c].pending THEN @ - 1 ELSE @,
                                         !.since = IF pingers[c].alive /\ @ < Longest
                                                   THEN @ + 1 ELSE @]]
    /\ UNCHANGED <<timer_contexts, armed, running, early>>

run_timers == DropExpired \/ RunTimer \/ NextTimer \/ NoTimer

Next ==
    \/ \E c \in Contexts : \/ \E n \in Intervals : pinger_new(c, n) \/ pinger_reconfig(c, n)
                           \/ pinger_free(c)
    \/ TimerTriggered
    \/ run_timers
    \/ Tick

Spec == Init /\ [][Next]_vars

\* Time passes, the event loop serves an expired timer, and run_timers, which
\* waits for nothing, returns.
FairSpec == Spec /\ WF_vars(Tick) /\ WF_vars(TimerTriggered) /\ WF_vars(run_timers)

-----------------------------------------------------------------------------
(* Properties *)

\* The front end only hears of a timer that is the first of all, and asks for
\* the next one only when it runs timers: none may be forgotten. If the event
\* loop and the handlers take at most MaxLate ticks each, no timer is left in
\* the tree for longer than this after it was due, in spite of the wakeup that
\* comes a tick too soon because run_timers wants the time to have passed.
TimersServedInTime == \A t \in timers : t.left >= -(3 * MaxLate + 1)

\* A pinger with an interval always has its next ping scheduled, through
\* reconfigurations that keep an earlier ping, and with a timer that
\* run_timers will not take for one of an expired context.
PingerNeverStalls ==
    \A c \in Contexts :
        pingers[c].alive /\ pingers[c].interval > 0
        => /\ pingers[c].pending
           /\ [ctx |-> c, left |-> pingers[c].next] \in timers
           /\ c \in timer_contexts

\* No two pings are closer than the shortest interval, although timers that
\* were superseded, or belong to a freed pinger at the same address, still go
\* off.
NoEarlyPing == ~early

\* Timers are neither late nor early: none is left in the tree when it should
\* have run, and no ping comes too soon (run_timers, pinger_timer).
TimersPunctual == TypeOK /\ TimersServedInTime /\ NoEarlyPing

\* Keepalives keep coming: a pinger that is not switched off sends pings for
\* ever.
PingsKeepComing ==
    \A c \in Contexts :
        <>[](pingers[c].alive /\ pingers[c].interval > 0) => []<>(pingers[c].since = 0)
=============================================================================
