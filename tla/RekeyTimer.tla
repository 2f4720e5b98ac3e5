----------------------------- MODULE RekeyTimer -----------------------------
(***************************************************************************)
(* When the SSH-2 transport layer of _LEGACY/ssh2transport.c starts a key  *)
(* exchange again: the rekey timer, the limits on data, the user's         *)
(* request, changed settings, and what login does to all of them.          *)
(*                                                                         *)
(* The key exchange itself is in Transport.  Times are relative to the     *)
(* clock, in units of 30 seconds, the slack that the timer allows itself.  *)
(* The session is a client without GSSAPI key exchange.                    *)
(***************************************************************************)
EXTENDS Integers

CONSTANTS
    Times,        \* settings of CONF_ssh_rekey_time, 0 for never
    Limits,       \* settings of CONF_ssh_rekey_data in packets, 0 for none
    MaxQueued,    \* bound: packets under way between two runs of the coroutine
    SameTime,     \* the user may change settings other than the rekey time
    DuringLogin   \* the user may act, or the timer run, before login has succeeded

ParamAssumption ==
    /\ Times \subseteq Nat /\ \E n \in Times : \A m \in Times : m <= n
    /\ Limits \subseteq Nat /\ \E n \in Limits : \A m \in Limits : m <= n
    /\ MaxQueued \in Nat \ {0}
    /\ SameTime \in BOOLEAN
    /\ DuringLogin \in BOOLEAN

VARIABLES
    conf,          \* s->conf: [time, data]
    max_data_size,
    stats,         \* per direction [running, expired, remaining]
    rekey_class,   \* RK_*
    deferred,      \* whether deferred_rekey_reason is set
    kex,           \* "none", "kexinit" (ours is sent), "newkeys" (ours is sent)
    login,         \* "service", "auth", "done"
    compression,   \* pending_compression of the BPP
    remote_bug,    \* BUG_SSH2_REKEY
    callback,      \* ic_process_queue of the transport layer is queued
    higher, bpp,   \* packets in pq_out_higher, and in out_pq
    batch,         \* packets received since the coroutine last ran
    since,         \* ticks since last_rekey
    left,          \* ticks until next_rekey, -1 once that timer has run
    count,         \* history: packets counted under the current keys
    stale,         \* history: cipher settings changed since our last KEXINIT
    asked          \* history: the user asked for a key exchange since then

rekey == <<rekey_class, deferred, callback>>
history == <<count, stale, asked>>
queues == <<higher, bpp, batch>>
fixed == <<login, compression, remote_bug>>
vars == <<conf, max_data_size, stats, rekey, kex, fixed, queues, since, left, history>>

Longest == CHOOSE n \in Times : \A m \in Times : m <= n
Largest == CHOOSE n \in Limits : \A m \in Limits : m <= n
MaxSince == Longest + 1
MaxCount == 2 * Largest + 2 * MaxQueued
Directions == {"in", "out"}
Capped(n, max) == IF n > max THEN max ELSE n

TypeOK ==
    /\ conf \in [time : Times, data : Limits]
    /\ max_data_size \in Limits
    /\ stats \in [Directions -> [running : BOOLEAN, expired : BOOLEAN, remaining : Nat]]
    /\ rekey_class \in {"NONE", "NORMAL", "SERVER", "POST_USERAUTH"}
    /\ kex \in {"none", "kexinit", "newkeys"}
    /\ login \in {"service", "auth", "done"}
    /\ {deferred, compression, remote_bug, callback, stale, asked} \subseteq BOOLEAN
    /\ higher + bpp \in 0 .. MaxQueued
    /\ batch \in 0 .. MaxQueued
    /\ since \in 0 .. MaxSince
    /\ left \in -1 .. Longest
    /\ count \in [Directions -> 0 .. MaxCount]

-----------------------------------------------------------------------------
(* sshbpp.h.                                                               *)

dts_consume(s, size) ==
    IF ~s.running THEN s
    ELSE IF s.remaining <= size
         THEN [s EXCEPT !.running = FALSE, !.expired = TRUE]
         ELSE [s EXCEPT !.remaining = @ - size]

dts_reset(size) == [running |-> size # 0, expired |-> FALSE, remaining |-> size]

Count(d, size) == count' = [count EXCEPT ![d] = Capped(@ + size, MaxCount)]

-----------------------------------------------------------------------------
(* The timer. A BUG definition is the one below it with a plausible slip.  *)

\* ssh2_transport_timer_update: the ticks after which the timer is to run, or
\* -1 if the rekey is overdue and nothing is scheduled.
TimerUpdate(time) ==
    IF time # 0 /\ time # conf.time
    THEN IF since > time THEN -1 ELSE time - since
    ELSE conf.time

QueueRekey == rekey_class' = "NORMAL" /\ callback' = TRUE

Timer ==
    /\ left = 0
    /\ IF kex # "none" \/ conf.time = 0
       THEN left' = -1 /\ UNCHANGED <<rekey_class, callback>>
       ELSE IF since > conf.time - 1
            THEN left' = -1 /\ QueueRekey
            ELSE left' = TimerUpdate(0) /\ UNCHANGED <<rekey_class, callback>>
    /\ UNCHANGED <<conf, max_data_size, stats, deferred, kex, fixed, queues, since, history>>

\* The coroutine waits outside key exchanges.
Waiting == kex = "none" /\ login # "service"

\* The clock. The event loop serves timers and callbacks before it idles.
Tick ==
    /\ left # 0 /\ ~(callback /\ Waiting)
    /\ DuringLogin \/ login = "done" \/ left # 1
    /\ since' = Capped(since + 1, MaxSince)
    /\ left' = IF left > 0 THEN left - 1 ELSE left
    /\ UNCHANGED <<conf, max_data_size, stats, rekey, kex, fixed, queues, history>>

-----------------------------------------------------------------------------
(* The coroutine.                                                          *)

\* The first key exchange has just ended.
Init ==
    /\ conf \in [time : Times, data : Limits]
    /\ max_data_size = conf.data
    /\ stats = [d \in Directions |-> dts_reset(conf.data)]
    /\ rekey_class = "NONE"
    /\ deferred = FALSE
    /\ kex = "none"
    /\ login = "service"
    /\ compression \in BOOLEAN
    /\ remote_bug \in BOOLEAN
    /\ callback = FALSE
    /\ higher = 0 /\ bpp = 0 /\ batch = 0
    /\ since = 0
    /\ left = conf.time
    /\ count = [d \in Directions |-> 0]
    /\ stale = FALSE
    /\ asked = FALSE

\* SERVICE_ACCEPT arrives; the coroutine then waits outside any key exchange.
StartHigherLayer ==
    /\ login = "service" /\ kex = "none"
    /\ login' = "auth"
    /\ rekey_class' = "NONE"
    /\ callback' = FALSE
    /\ UNCHANGED <<conf, max_data_size, stats, deferred, kex, compression, remote_bug, queues, since,
                   left, history>>

BeginKeyExchange ==
    /\ kex' = "kexinit"
    /\ stale' = FALSE
    /\ asked' = FALSE

\* What the main loop makes of rekey_class before it acts on it.
Decided(class) ==
    LET c == IF class = "POST_USERAUTH" THEN "NONE" ELSE class IN
    IF c = "NONE" /\ \E d \in Directions : stats[d].expired THEN "NORMAL" ELSE c

\* One pass of the main loop outside key exchanges.
Idle(class) ==
    /\ bpp' = bpp + higher /\ higher' = 0 /\ batch' = 0
    /\ callback' = FALSE
    /\ IF Decided(class) = "NORMAL" /\ remote_bug
       THEN /\ stats' = [d \in Directions |-> dts_reset(max_data_size)]
            /\ count' = [d \in Directions |-> 0]
            /\ left' = TimerUpdate(0)
            /\ rekey_class' = "NONE"
            /\ UNCHANGED <<kex, stale, asked>>
       ELSE /\ rekey_class' = Decided(class)
            /\ IF Decided(class) = "NONE"
               THEN UNCHANGED <<kex, stale, asked>>
               ELSE BeginKeyExchange
            /\ UNCHANGED <<stats, left, count>>
    /\ UNCHANGED <<conf, max_data_size, deferred, fixed, since>>

ProcessQueue == Waiting /\ callback /\ Idle(rekey_class)

\* The server sends KEXINIT.
RecvKexinit == Waiting /\ Idle("SERVER")

\* The rest of the key exchange up to our NEWKEYS, which the BPP marshals at
\* once with all before it; then the queued packets follow.
SendNewkeys ==
    /\ kex = "kexinit"
    /\ kex' = "newkeys"
    /\ stats' = [stats EXCEPT !["out"] = dts_consume(dts_reset(max_data_size), bpp)]
    /\ count' = [count EXCEPT !["out"] = bpp]
    /\ bpp' = higher /\ higher' = 0
    /\ UNCHANGED <<conf, max_data_size, rekey, fixed, batch, since, left, stale, asked>>

\* The server's NEWKEYS ends the key exchange.
RecvNewkeys ==
    /\ kex = "newkeys"
    /\ stats' = [stats EXCEPT !["in"] = dts_reset(max_data_size)]
    /\ count' = [count EXCEPT !["in"] = 0]
    /\ batch' = 0
    /\ deferred' = FALSE
    /\ callback' = FALSE
    /\ IF deferred
       THEN BeginKeyExchange /\ UNCHANGED <<since, left, rekey_class>>
       ELSE /\ kex' = "none" /\ since' = 0 /\ left' = TimerUpdate(0)
            /\ rekey_class' = "NONE"
            /\ UNCHANGED <<stale, asked>>
    /\ UNCHANGED <<conf, max_data_size, fixed, higher, bpp>>

-----------------------------------------------------------------------------
(* Data.                                                                   *)

\* A packet arrives; the server sends none of these once its KEXINIT is out.
RecvPacket ==
    /\ login # "service" /\ kex # "newkeys"
    /\ batch < MaxQueued
    /\ batch' = batch + 1
    /\ stats' = [stats EXCEPT !["in"] = dts_consume(@, 1)]
    /\ Count("in", 1)
    /\ callback' = TRUE
    /\ UNCHANGED <<conf, max_data_size, rekey_class, deferred, kex, fixed, higher, bpp, since, left,
                   stale, asked>>

HigherLayerSend ==
    /\ login # "service"
    /\ higher + bpp < MaxQueued
    /\ higher' = higher + 1
    /\ callback' = TRUE
    /\ UNCHANGED <<conf, max_data_size, stats, rekey_class, deferred, kex, fixed, bpp, batch, since,
                   left, history>>

\* The BPP sends what is in out_pq.
HandleOutput ==
    /\ bpp > 0
    /\ bpp' = 0
    /\ stats' = [stats EXCEPT !["out"] = dts_consume(@, bpp)]
    /\ Count("out", bpp)
    /\ UNCHANGED <<conf, max_data_size, rekey, kex, fixed, higher, batch, since, left, stale, asked>>

-----------------------------------------------------------------------------
(* Login and the user.                                                     *)

\* USERAUTH_SUCCESS, at which the BPP starts delayed compression.
NotifyAuthDone ==
    /\ login = "auth"
    /\ DuringLogin \/ rekey_class = "NONE"
    /\ login' = "done"
    /\ compression' = FALSE
    /\ rekey_class' = "POST_USERAUTH"
    /\ callback' = TRUE
    /\ UNCHANGED <<conf, max_data_size, stats, deferred, kex, remote_bug, queues, since, left, history>>

UserActs == DuringLogin \/ login = "done"

\* The menu does not offer this with a remote that cannot rekey.
SpecialCmdRekey ==
    /\ UserActs /\ ~remote_bug
    /\ kex = "none"
    /\ QueueRekey
    /\ asked' = TRUE
    /\ UNCHANGED <<conf, max_data_size, stats, deferred, kex, fixed, queues, since, left, count, stale>>

\* What a change of max_data_size does to a counter.
BUGAdjusted(s, old, new) == s

Adjusted(s, old, new) ==
    IF new = 0 \/ new = old THEN s
    ELSE IF new < old THEN dts_consume(s, old - new)
    ELSE IF s.running THEN [s EXCEPT !.remaining = @ + (new - old)]
    ELSE s

\* ssh2_transport_reconfigure; mandatory if cipher or compression settings
\* change. The data limit is read from the old settings (line 1946).
Reconfigure(new, mandatory) ==
    LET overdue == TimerUpdate(new.time) = -1
        data == conf.data
        after == [d \in Directions |-> Adjusted(stats[d], max_data_size, data)]
        lowered == /\ data # 0 /\ data < max_data_size
                   /\ \E d \in Directions : after[d].expired
        now == kex = "none" /\ ~compression
    IN
    /\ UserActs
    /\ SameTime \/ new.time # conf.time
    /\ left' = IF overdue THEN left ELSE TimerUpdate(new.time)
    /\ max_data_size' = data
    /\ stats' = after
    /\ conf' = new
    /\ IF (overdue \/ lowered \/ mandatory) /\ now
       THEN QueueRekey ELSE UNCHANGED <<rekey_class, callback>>
    /\ deferred' = (deferred \/ (mandatory /\ ~now))
    /\ stale' = (stale \/ mandatory)
    /\ UNCHANGED <<kex, fixed, queues, since, count, asked>>

-----------------------------------------------------------------------------
Next ==
    \/ Timer
    \/ Tick
    \/ StartHigherLayer
    \/ ProcessQueue
    \/ RecvKexinit
    \/ SendNewkeys
    \/ RecvNewkeys
    \/ RecvPacket
    \/ HigherLayerSend
    \/ HandleOutput
    \/ NotifyAuthDone
    \/ SpecialCmdRekey
    \/ \E new \in [time : Times, data : Limits], m \in BOOLEAN : Reconfigure(new, m)

Spec == Init /\ [][Next]_vars

\* The event loop runs callbacks and timers, and the server answers.
Fairness ==
    /\ WF_vars(ProcessQueue)
    /\ WF_vars(Timer)
    /\ WF_vars(StartHigherLayer)
    /\ WF_vars(SendNewkeys)
    /\ WF_vars(RecvNewkeys)

FairSpec == Spec /\ Fairness

-----------------------------------------------------------------------------
(* Properties.                                                             *)

Underway == kex # "none" \/ rekey_class \in {"NORMAL", "SERVER"}

\* A timer is one of a kind: while the settings ask for timed rekeys, the
\* timer that next_rekey names runs within the configured time of the last key
\* exchange, or one is wanted already (ssh2_transport_timer and its callers).
RekeyInTime ==
    ~remote_bug /\ conf.time # 0 /\ ~Underway => left >= 0 /\ since + left <= conf.time

\* Settings of ciphers and compression that have changed since our last
\* KEXINIT are never forgotten: a key exchange is wanted, or will follow the
\* one in progress (ssh2_transport_reconfigure).
ChangedSettingsKept ==
    stale /\ ~remote_bug => deferred \/ (rekey_class = "NORMAL" /\ callback)

\* While a direction's counter runs, what remains and what has been sent under
\* the keys add up to the limit, whatever changes of the limit came between
\* (dts_consume, dts_reset, ssh2_transport_reconfigure).
CountersExact ==
    \A d \in Directions : stats[d].running => stats[d].remaining + count[d] = max_data_size

\* Outside key exchanges no more than the data limit has gone under the
\* current keys, but for what one pass of the coroutine lets through.
DataLimitKept ==
    ~Underway /\ ~callback =>
        \A d \in Directions : max_data_size # 0 => count[d] <= max_data_size + MaxQueued

\* No reason to rekey is lost: timed rekeys are in time, changed settings are
\* remembered, and the counters, which stay exact, keep the data limit.  A
\* limit that is switched off and on again, and a user who acts during login,
\* are under Deviations in README.md.
RekeysKept ==
    /\ TypeOK
    /\ ~DuringLogin /\ ~SameTime => RekeyInTime
    /\ ~DuringLogin => ChangedSettingsKept
    /\ 0 \notin Limits => CountersExact
    /\ 0 \notin Limits /\ ~DuringLogin => DataLimitKept

\* A key exchange that the user asks for is carried out.
RequestHonoured == asked ~> ~asked

\* Changed cipher settings come into use.
ChangedSettingsUsed == (stale /\ ~remote_bug) ~> ~stale

-----------------------------------------------------------------------------
(* What the code is meant to do and does not: see Deviations in README.md. *)

\* The same for the limit that the user has configured, as the documentation
\* of "Max data before rekey" has it.
DataLimitHonoured ==
    ~Underway /\ ~callback =>
        \A d \in Directions : conf.data # 0 => count[d] <= conf.data + MaxQueued
=============================================================================
