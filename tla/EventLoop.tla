----------------------------- MODULE EventLoop -----------------------------
(***************************************************************************)
(* The top-level callback queue of _LEGACY/callback.c, driven by the TQt   *)
(* event bridge of tqt/tqtcomm.cpp.                                        *)
(*                                                                         *)
(* Everything runs on one thread, but it is not sequential: the front end  *)
(* opens modal dialogs (TQDialog::exec, TQMessageBox) from inside event    *)
(* handlers and from inside callbacks, and each dialog runs a nested event *)
(* loop that dispatches further events on top of the suspended handler.    *)
(* The variable stack is that call stack; the loop may dispatch only when  *)
(* nothing runs or a dialog is on top.                                     *)
(***************************************************************************)
EXTENDS Naturals, Sequences

CONSTANTS
    Contexts,   \* addresses the core uses as callback contexts
    None,       \* the NULL of cbcurr
    MaxQueue,   \* bound: callbacks waiting in the queue
    MaxDepth,   \* bound: frames on the stack (nested dialogs)
    MaxOps      \* bound: core operations one handler performs

ASSUME BoundsAssumption ==
    /\ MaxQueue \in Nat
    /\ MaxDepth \in Nat
    /\ MaxOps \in Nat

VARIABLES
    cbhead,               \* the queue, oldest callback first
    cbcurr,               \* the callback being executed, or None
    queued,               \* IdempotentCallback.queued of each context
    alive,                \* contexts currently allocated
    m_callbacksPending,   \* TQtEventBridge's flag
    shots,                \* singleShot(0) events posted to the TQt loop
    stack                 \* suspended and running handlers, outermost first

vars == <<cbhead, cbcurr, queued, alive, m_callbacksPending, shots, stack>>

(***************************************************************************)
(* A callback is a function with its context, or the run of the            *)
(* IdempotentCallback that is a member of the context.                     *)
(***************************************************************************)
Callback == [ctx : Contexts, idem : BOOLEAN]

NoCallback == None \notin Callback

ASSUME NoneAssumption == NoCallback

\* A frame remembers how many operations its handler may still perform.
Frame == [kind : {"event", "callback", "modal"}, ops : 0 .. MaxOps]

Top == stack[Len(stack)]

LoopOnTop == IF stack = <<>> THEN TRUE ELSE Top.kind = "modal"

HandlerOnTop == IF stack = <<>> THEN FALSE ELSE Top.kind # "modal"

Push(kind) == Append(stack, [kind |-> kind, ops |-> MaxOps])

Pop == SubSeq(stack, 1, Len(stack) - 1)

TypeOK ==
    /\ cbhead \in Seq(Callback)
    /\ cbcurr \in Callback \cup {None}
    /\ queued \in [Contexts -> BOOLEAN]
    /\ alive \subseteq Contexts
    /\ m_callbacksPending \in BOOLEAN
    /\ shots \in 0 .. 1
    /\ stack \in Seq(Frame)

\* tqtcomm_setup has run; no session exists yet.
Init ==
    /\ cbhead = <<>>
    /\ cbcurr = None
    /\ queued = [c \in Contexts |-> FALSE]
    /\ alive = {}
    /\ m_callbacksPending = FALSE
    /\ shots = 0
    /\ stack = <<>>

-----------------------------------------------------------------------------
(* The bridge *)

\* Variants of the definitions below with a plausible slip in the code.
BUGscheduleToplevelCallbacks ==
    /\ m_callbacksPending' = TRUE
    /\ shots' = shots + 1

scheduleToplevelCallbacks ==
    /\ m_callbacksPending' = TRUE
    /\ shots' = IF m_callbacksPending THEN shots ELSE shots + 1

BUGneeds_notification == cbhead = <<>>

\* The condition under which queue_toplevel_callback notifies the front end.
needs_notification == cbhead = <<>> /\ cbcurr = None

BUGqueue_toplevel_callback(cb) ==
    /\ IF needs_notification
       THEN scheduleToplevelCallbacks
       ELSE UNCHANGED <<m_callbacksPending, shots>>
    /\ cbhead' = <<cb>> \o cbhead

queue_toplevel_callback(cb) ==
    /\ IF needs_notification
       THEN scheduleToplevelCallbacks
       ELSE UNCHANGED <<m_callbacksPending, shots>>
    /\ cbhead' = Append(cbhead, cb)

-----------------------------------------------------------------------------
(* What a running handler may do *)

\* One operation of the handler on top, charged to its budget.
Operation ==
    /\ HandlerOnTop
    /\ Top.ops > 0
    /\ stack' = [stack EXCEPT ![Len(stack)].ops = @ - 1]

QueueCallback(c) ==
    /\ Operation
    /\ Len(cbhead) < MaxQueue
    /\ c \in alive
    /\ queue_toplevel_callback([ctx |-> c, idem |-> FALSE])
    /\ UNCHANGED <<cbcurr, queued, alive>>

QueueIdempotent(c) ==
    /\ Operation
    /\ Len(cbhead) < MaxQueue
    /\ c \in alive
    /\ IF queued[c]
       THEN UNCHANGED <<queued, cbhead, m_callbacksPending, shots>>
       ELSE /\ queued' = [queued EXCEPT ![c] = TRUE]
            /\ queue_toplevel_callback([ctx |-> c, idem |-> TRUE])
    /\ UNCHANGED <<cbcurr, alive>>

\* A new object at address c: its IdempotentCallback starts unqueued.
Allocate(c) ==
    /\ Operation
    /\ c \notin alive
    /\ alive' = alive \cup {c}
    /\ queued' = [queued EXCEPT ![c] = FALSE]
    /\ UNCHANGED <<cbhead, cbcurr, m_callbacksPending, shots>>

BUGsurvivors(c) == {i \in DOMAIN cbhead : cbhead[i].ctx # c \/ cbhead[i].idem}

\* Positions of the queue that delete_callbacks_for_context keeps.
survivors(c) == {i \in DOMAIN cbhead : cbhead[i].ctx # c}

\* The queue is relinked from the survivors in their order: f enumerates them.
delete_callbacks_for_context(c) ==
    \E n \in 0 .. Len(cbhead) : \E f \in [1 .. n -> survivors(c)] :
        /\ \A i, j \in 1 .. n : i < j => f[i] < f[j]
        /\ \A p \in survivors(c) : \E i \in 1 .. n : f[i] = p
        /\ cbhead' = [i \in 1 .. n |-> cbhead[f[i]]]

\* The owner frees the object at c. ic->queued is left as it was.
FreeContext(c) ==
    /\ Operation
    /\ c \in alive
    /\ delete_callbacks_for_context(c)
    /\ alive' = alive \ {c}
    /\ UNCHANGED <<cbcurr, queued, m_callbacksPending, shots>>

\* The handler opens a dialog: a nested event loop runs on top of it.
OpenModal ==
    /\ HandlerOnTop
    /\ Top.ops > 0
    /\ Len(stack) + 1 < MaxDepth    \* leaves room for what the dialog's loop runs
    /\ stack' = Append([stack EXCEPT ![Len(stack)].ops = @ - 1],
                       [kind |-> "modal", ops |-> 0])
    /\ UNCHANGED <<cbhead, cbcurr, queued, alive, m_callbacksPending, shots>>

-----------------------------------------------------------------------------
(* The event loop *)

\* A socket, timer or user event starts its handler.
DispatchEvent ==
    /\ LoopOnTop
    /\ Len(stack) < MaxDepth
    /\ stack' = Push("event")
    /\ UNCHANGED <<cbhead, cbcurr, queued, alive, m_callbacksPending, shots>>

ReturnFromEvent ==
    /\ HandlerOnTop
    /\ Top.kind = "event"
    /\ stack' = Pop
    /\ UNCHANGED <<cbhead, cbcurr, queued, alive, m_callbacksPending, shots>>

\* The user answers the dialog on top.
CloseModal ==
    /\ stack # <<>>
    /\ Top.kind = "modal"
    /\ stack' = Pop
    /\ UNCHANGED <<cbhead, cbcurr, queued, alive, m_callbacksPending, shots>>

BUGqueued_when_run(cb) == queued

\* run_idempotent_callback clears the flag before it calls the function.
queued_when_run(cb) == IF cb.idem THEN [queued EXCEPT ![cb.ctx] = FALSE] ELSE queued

(***************************************************************************)
(* processToplevelCallbacks up to the call of the callback's function, and *)
(* (ReturnFromCallback) from its return: the single callback that          *)
(* run_toplevel_callbacks runs may open dialogs in between.                *)
(***************************************************************************)
ProcessToplevelCallbacks ==
    /\ LoopOnTop
    /\ shots > 0
    /\ \/ /\ cbhead # <<>>
          /\ Len(stack) < MaxDepth
          /\ shots' = shots - 1
          /\ m_callbacksPending' = FALSE
          /\ cbcurr' = Head(cbhead)
          /\ cbhead' = Tail(cbhead)
          /\ queued' = queued_when_run(Head(cbhead))
          /\ stack' = Push("callback")
          /\ UNCHANGED alive
       \/ /\ cbhead = <<>>
          /\ IF cbcurr = None
             THEN shots' = shots - 1 /\ m_callbacksPending' = FALSE
             ELSE shots' = shots /\ m_callbacksPending' = TRUE
          /\ UNCHANGED <<cbhead, cbcurr, queued, alive, stack>>

BUGReturnFromCallback ==
    /\ HandlerOnTop
    /\ Top.kind = "callback"
    /\ stack' = Pop
    /\ cbcurr' = None
    /\ UNCHANGED <<m_callbacksPending, shots>>
    /\ UNCHANGED <<cbhead, queued, alive>>

ReturnFromCallback ==
    /\ HandlerOnTop
    /\ Top.kind = "callback"
    /\ stack' = Pop
    /\ cbcurr' = None
    /\ IF cbhead # <<>>
       THEN scheduleToplevelCallbacks
       ELSE UNCHANGED <<m_callbacksPending, shots>>
    /\ UNCHANGED <<cbhead, queued, alive>>

Next ==
    \/ \E c \in Contexts : \/ QueueCallback(c)
                           \/ QueueIdempotent(c)
                           \/ Allocate(c)
                           \/ FreeContext(c)
    \/ OpenModal
    \/ CloseModal
    \/ DispatchEvent
    \/ ReturnFromEvent
    \/ ProcessToplevelCallbacks
    \/ ReturnFromCallback

(***************************************************************************)
(* Handlers return, and the TQt loop serves an expired timer in every      *)
(* iteration, whatever else is ready. Nothing makes the user answer a      *)
(* dialog.                                                                 *)
(***************************************************************************)
Fairness ==
    /\ WF_vars(ReturnFromEvent)
    /\ WF_vars(ReturnFromCallback)
    /\ SF_vars(ProcessToplevelCallbacks)

Spec == Init /\ [][Next]_vars

FairSpec == Spec /\ Fairness

-----------------------------------------------------------------------------
(* Properties *)

Waiting(c, idem) == \E i \in DOMAIN cbhead : cbhead[i] = [ctx |-> c, idem |-> idem]

\* The front end is told of a queued callback only when the queue was empty
\* and none was running, so the bridge must look again when a callback ends:
\* whenever callbacks wait and none is running, a processToplevelCallbacks
\* call is posted to the loop.
NoLostWakeup == cbhead # <<>> /\ cbcurr = None => shots = 1

\* cbcurr is a single static: a callback dispatched by the nested loop of a
\* dialog that another callback opened would overwrite it and free it twice.
\* No two callbacks are ever on the call stack, and cbcurr is set exactly
\* while one is.
NoNestedCallback ==
    /\ \A i, j \in DOMAIN stack :
           stack[i].kind = "callback" /\ stack[j].kind = "callback" => i = j
    /\ (cbcurr # None) <=> (\E i \in DOMAIN stack : stack[i].kind = "callback")

\* delete_callbacks_for_context also drops the runs of a freed object's
\* IdempotentCallback, whose queue entry points into the object.
NoStaleCallback == \A i \in DOMAIN cbhead : cbhead[i].ctx \in alive

\* The queued flag of a live IdempotentCallback never drifts from the queue:
\* set without an entry, its function would never run again; clear with one,
\* it would be queued twice.
IdempotentFlagExact ==
    /\ \A c \in alive : queued[c] <=> Waiting(c, TRUE)
    /\ \A i, j \in DOMAIN cbhead : cbhead[i] = cbhead[j] /\ cbhead[i].idem => i = j

\* Callbacks are started in the order they were queued: a step only removes
\* the head, drops callbacks of a context being freed, or appends one.
QueueIsFifo ==
    [][\/ cbhead' = cbhead
       \/ \E cb \in Callback : cbhead' = Append(cbhead, cb)
       \/ cbcurr = None /\ cbcurr' = Head(cbhead) /\ cbhead' = Tail(cbhead)
       \/ \E c \in alive \ alive' : cbhead' = SelectSeq(cbhead, LAMBDA cb : cb.ctx # c)]_vars

\* The inductive invariant: the properties above need the bridge's flag to
\* say exactly whether a call is posted, and no call to be posted while a
\* callback runs.
BridgeFlagExact == shots = (IF m_callbacksPending THEN 1 ELSE 0)

QuietWhileRunning == cbcurr # None => shots = 0

IInv ==
    /\ TypeOK
    /\ BridgeFlagExact
    /\ QuietWhileRunning
    /\ NoLostWakeup
    /\ NoNestedCallback
    /\ NoStaleCallback
    /\ IdempotentFlagExact

\* As long as no dialog opened by a callback stays up for ever, every queued
\* IdempotentCallback of a live object eventually runs, although the
\* notifications for it may have been suppressed while another one ran.
QueuedEventuallyRuns ==
    []<>(cbcurr = None) =>
        \A c \in Contexts : (c \in alive /\ queued[c]) ~> (c \notin alive \/ ~queued[c])

\* Callbacks run in the order in which they were queued, all of them
\* (queue_toplevel_callback, run_toplevel_callbacks).
QueuedRunInOrder == QueueIsFifo /\ QueuedEventuallyRuns

=============================================================================
