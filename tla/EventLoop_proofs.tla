-------------------------- MODULE EventLoop_proofs --------------------------
(* Proofs that the callback queue and the event bridge keep their           *)
(* invariants for any set of contexts and any bounds.                       *)
EXTENDS EventLoop, SequenceTheorems, TLAPS

\* Pushing a frame, charging an operation to the top one and popping it keep
\* the stack a sequence of frames.
LEMMA StackType ==
    ASSUME TypeOK
    PROVE  /\ \A k \in {"event", "callback"} : Push(k) \in Seq(Frame)
           /\ stack # <<>> => Pop \in Seq(Frame)
           /\ HandlerOnTop /\ Top.ops > 0 =>
                 [stack EXCEPT ![Len(stack)].ops = @ - 1] \in Seq(Frame)
<1> USE BoundsAssumption
<1>1. \A k \in {"event", "callback"} : Push(k) \in Seq(Frame)
  BY DEF Push, TypeOK, Frame
<1>2. stack # <<>> => Pop \in Seq(Frame)
  BY DEF Pop, TypeOK
<1>3. ASSUME HandlerOnTop, Top.ops > 0
      PROVE  [stack EXCEPT ![Len(stack)].ops = @ - 1] \in Seq(Frame)
  <2>1. stack \in Seq(Frame) /\ Len(stack) \in 1 .. Len(stack)
    BY <1>3 DEF HandlerOnTop, TypeOK
  <2>2. stack[Len(stack)] \in Frame /\ stack[Len(stack)].ops > 0
    BY <1>3, <2>1 DEF Top
  <2>3. \A fr \in Frame : fr.ops > 0 => [fr EXCEPT !.ops = @ - 1] \in Frame
    BY DEF Frame
  <2>4. [stack[Len(stack)] EXCEPT !.ops = @ - 1] \in Frame
    BY <2>2, <2>3
  <2> QED BY <2>1, <2>4
<1> QED BY <1>1, <1>2, <1>3

\* The kinds of the frames after an operation, a push and a pop.
LEMMA StackKinds ==
    ASSUME TypeOK
    PROVE  /\ HandlerOnTop /\ Top.ops > 0 =>
                 LET s == [stack EXCEPT ![Len(stack)].ops = @ - 1]
                 IN  /\ DOMAIN s = DOMAIN stack
                     /\ \A i \in DOMAIN stack : s[i].kind = stack[i].kind
           /\ \A k \in {"event", "callback"} :
                 /\ DOMAIN Push(k) = DOMAIN stack \cup {Len(stack) + 1}
                 /\ Len(stack) + 1 \notin DOMAIN stack
                 /\ Push(k)[Len(stack) + 1].kind = k
                 /\ \A i \in DOMAIN stack : Push(k)[i] = stack[i]
           /\ stack # <<>> =>
                 /\ DOMAIN stack = DOMAIN Pop \cup {Len(stack)}
                 /\ Len(stack) \notin DOMAIN Pop
                 /\ \A i \in DOMAIN Pop : Pop[i] = stack[i]
<1>0. stack \in Seq(Frame)
  BY DEF TypeOK
<1>1. ASSUME HandlerOnTop
      PROVE  LET s == [stack EXCEPT ![Len(stack)].ops = @ - 1]
             IN  /\ DOMAIN s = DOMAIN stack
                 /\ \A i \in DOMAIN stack : s[i].kind = stack[i].kind
  <2>1. \A fr \in Frame : [fr EXCEPT !.ops = @ - 1].kind = fr.kind
    BY DEF Frame
  <2>2. DOMAIN stack = 1 .. Len(stack) /\ Len(stack) \in DOMAIN stack
    BY <1>0, <1>1 DEF HandlerOnTop
  <2>3. \A i \in DOMAIN stack : stack[i] \in Frame
    BY <1>0, <2>2
  <2> QED BY <2>1, <2>2, <2>3
<1>2. ASSUME NEW k \in {"event", "callback"}
      PROVE  /\ DOMAIN Push(k) = DOMAIN stack \cup {Len(stack) + 1}
             /\ Len(stack) + 1 \notin DOMAIN stack
             /\ Push(k)[Len(stack) + 1].kind = k
             /\ \A i \in DOMAIN stack : Push(k)[i] = stack[i]
  BY <1>0 DEF Push
<1>3. ASSUME stack # <<>>
      PROVE  /\ DOMAIN stack = DOMAIN Pop \cup {Len(stack)}
             /\ Len(stack) \notin DOMAIN Pop
             /\ \A i \in DOMAIN Pop : Pop[i] = stack[i]
  <2>1. Len(stack) \in Nat \ {0} /\ DOMAIN stack = 1 .. Len(stack)
    BY <1>0, <1>3
  <2>2. /\ Len(Pop) = Len(stack) - 1
        /\ DOMAIN Pop = 1 .. (Len(stack) - 1)
        /\ \A i \in 1 .. (Len(stack) - 1) : Pop[i] = stack[i]
    BY <1>0, <2>1, SubSeqProperties DEF Pop
  <2> QED BY <2>1, <2>2
<1> QED BY <1>1, <1>2, <1>3

\* An operation of a handler leaves the frames' kinds alone.
LEMMA OperationKeepsNesting ==
    ASSUME TypeOK, NoNestedCallback, Operation, UNCHANGED cbcurr
    PROVE  NoNestedCallback' /\ stack' \in Seq(Frame)
<1>1. DOMAIN stack' = DOMAIN stack
  BY StackKinds DEF Operation
<1>2. \A i \in DOMAIN stack : stack'[i].kind = stack[i].kind
  BY StackKinds DEF Operation
<1>3. NoNestedCallback'
  BY <1>1, <1>2 DEF NoNestedCallback
<1>4. stack' \in Seq(Frame)
  BY StackType DEF Operation
<1> QED BY <1>3, <1>4

\* What the bridge's flag and the posted call say after scheduling.
LEMMA ScheduleExact ==
    ASSUME TypeOK, BridgeFlagExact, scheduleToplevelCallbacks
    PROVE  m_callbacksPending' = TRUE /\ shots' = 1
BY DEF TypeOK, BridgeFlagExact, scheduleToplevelCallbacks

\* Queueing a callback of a live object keeps the queue typed, the wakeup
\* posted and every entry's object alive.
LEMMA QueueKeeps ==
    ASSUME IInv, NEW cb \in Callback, cb.ctx \in alive,
           queue_toplevel_callback(cb), UNCHANGED <<cbcurr, alive>>
    PROVE  /\ cbhead' \in Seq(Callback)
           /\ cbhead' = Append(cbhead, cb)
           /\ m_callbacksPending' \in BOOLEAN
           /\ shots' \in 0 .. 1
           /\ BridgeFlagExact'
           /\ QuietWhileRunning'
           /\ NoLostWakeup'
           /\ NoStaleCallback'
<1> USE DEF IInv
<1>1. cbhead' = Append(cbhead, cb) /\ cbhead' \in Seq(Callback)
  BY DEF queue_toplevel_callback, TypeOK
<1>2. NoStaleCallback'
  BY <1>1 DEF NoStaleCallback, TypeOK
<1>3. CASE needs_notification
  <2>1. m_callbacksPending' = TRUE /\ shots' = 1
    BY <1>3, ScheduleExact DEF queue_toplevel_callback
  <2>2. cbcurr' = None
    BY <1>3 DEF needs_notification
  <2> QED BY <1>1, <1>2, <2>1, <2>2
          DEF BridgeFlagExact, QuietWhileRunning, NoLostWakeup
<1>4. CASE ~needs_notification
  <2>1. UNCHANGED <<m_callbacksPending, shots>>
    BY <1>4 DEF queue_toplevel_callback
  <2>2. NoLostWakeup'
    BY <1>4, <2>1 DEF NoLostWakeup, needs_notification
  <2> QED BY <1>1, <1>2, <2>1, <2>2
          DEF BridgeFlagExact, QuietWhileRunning, TypeOK
<1> QED BY <1>3, <1>4

\* Appending a callback changes only whether that callback waits.
LEMMA AppendWaits ==
    ASSUME NEW s \in Seq(Callback), NEW cb \in Callback, NEW w, w # cb
    PROVE  (\E i \in DOMAIN Append(s, cb) : Append(s, cb)[i] = w)
              <=> (\E i \in DOMAIN s : s[i] = w)
<1>1. /\ DOMAIN Append(s, cb) = 1 .. (Len(s) + 1)
      /\ DOMAIN s = 1 .. Len(s) /\ Len(s) \in Nat
      /\ \A i \in DOMAIN s : Append(s, cb)[i] = s[i]
      /\ Append(s, cb)[Len(s) + 1] = cb
  OBVIOUS
<1>2. \A i \in DOMAIN Append(s, cb) : i \in DOMAIN s \/ i = Len(s) + 1
  BY <1>1
<1>3. \A i \in DOMAIN s : i \in DOMAIN Append(s, cb)
  BY <1>1
<1> HIDE <1>1
<1> QED BY <1>1, <1>2, <1>3, Zenon

\* Queueing a plain callback keeps every part of the invariant.
LEMMA QueueCallbackKeeps ==
    ASSUME IInv, NEW c \in Contexts, QueueCallback(c)
    PROVE  IInv'
<1> USE DEF IInv
<1> DEFINE cb == [ctx |-> c, idem |-> FALSE]
<1>1. cb \in Callback /\ cb.ctx \in alive /\ UNCHANGED <<cbcurr, queued, alive>>
  BY DEF QueueCallback, Callback
<1>2. queue_toplevel_callback(cb) /\ Operation
  BY DEF QueueCallback
<1> HIDE DEF cb
<1>3. /\ cbhead' \in Seq(Callback)
      /\ cbhead' = Append(cbhead, cb)
      /\ m_callbacksPending' \in BOOLEAN
      /\ shots' \in 0 .. 1
      /\ BridgeFlagExact' /\ QuietWhileRunning' /\ NoLostWakeup' /\ NoStaleCallback'
  BY <1>1, <1>2, QueueKeeps
<1>4. NoNestedCallback' /\ stack' \in Seq(Frame)
  BY <1>1, <1>2, OperationKeepsNesting
<1>5. TypeOK'
  BY <1>1, <1>3, <1>4 DEF TypeOK
<1>6. IdempotentFlagExact'
  <2>1. /\ DOMAIN cbhead' = 1 .. (Len(cbhead) + 1)
        /\ DOMAIN cbhead = 1 .. Len(cbhead)
        /\ Len(cbhead) \in Nat
        /\ \A i \in DOMAIN cbhead : cbhead'[i] = cbhead[i]
        /\ cbhead'[Len(cbhead) + 1] = cb
    BY <1>1, <1>3 DEF TypeOK
  <2>2. cb.idem = FALSE
    BY DEF cb
  <2>3. \A d \in alive : [ctx |-> d, idem |-> TRUE] # cb
    BY <2>2
  <2>4. \A d \in alive : Waiting(d, TRUE)' <=> Waiting(d, TRUE)
    <3> SUFFICES ASSUME NEW d \in alive PROVE Waiting(d, TRUE)' <=> Waiting(d, TRUE)
      OBVIOUS
    <3> DEFINE w == [ctx |-> d, idem |-> TRUE]
    <3>1. w # cb /\ cbhead \in Seq(Callback)
      BY <2>3 DEF TypeOK
    <3>2. (\E i \in DOMAIN cbhead' : cbhead'[i] = w) <=> (\E i \in DOMAIN cbhead : cbhead[i] = w)
      <4>1. cb \in Callback /\ cbhead' = Append(cbhead, cb)
        BY <1>1, <1>3
      <4> HIDE DEF w
      <4>2. (\E i \in DOMAIN Append(cbhead, cb) : Append(cbhead, cb)[i] = w)
               <=> (\E i \in DOMAIN cbhead : cbhead[i] = w)
        BY ONLY <3>1, <4>1, AppendWaits
      <4> QED BY ONLY <4>1, <4>2
    <3> QED BY <3>2 DEF Waiting
  <2>5. \A i, j \in DOMAIN cbhead' : cbhead'[i] = cbhead'[j] /\ cbhead'[i].idem => i = j
    BY <2>1, <2>2 DEF IdempotentFlagExact
  <2> QED BY <1>1, <2>4, <2>5 DEF IdempotentFlagExact
<1> QED BY <1>3, <1>4, <1>5, <1>6

\* So does queueing an idempotent one: its flag and its entry appear together.
LEMMA QueueIdempotentKeeps ==
    ASSUME IInv, NEW c \in Contexts, QueueIdempotent(c)
    PROVE  IInv'
<1> USE DEF IInv
<1>0. NoNestedCallback' /\ stack' \in Seq(Frame)
  BY OperationKeepsNesting DEF QueueIdempotent
<1>1. CASE queued[c]
  <2>1. UNCHANGED <<queued, cbhead, m_callbacksPending, shots, cbcurr, alive>>
    BY <1>1 DEF QueueIdempotent
  <2> QED BY <1>0, <2>1 DEF TypeOK, BridgeFlagExact, QuietWhileRunning, NoLostWakeup,
             NoStaleCallback, IdempotentFlagExact, Waiting
<1>2. CASE ~queued[c]
  <2> DEFINE cb == [ctx |-> c, idem |-> TRUE]
  <2>1. /\ cb \in Callback /\ cb.ctx \in alive /\ UNCHANGED <<cbcurr, alive>>
        /\ queued' = [queued EXCEPT ![c] = TRUE]
        /\ queue_toplevel_callback(cb)
    BY <1>2 DEF QueueIdempotent, Callback
  <2>2. cb.ctx = c /\ cb.idem = TRUE
    OBVIOUS
  <2>3. \A d : [ctx |-> d, idem |-> TRUE] = cb => d = c
    OBVIOUS
  <2> HIDE DEF cb
  <2>4. /\ cbhead' \in Seq(Callback)
        /\ cbhead' = Append(cbhead, cb)
        /\ m_callbacksPending' \in BOOLEAN
        /\ shots' \in 0 .. 1
        /\ BridgeFlagExact' /\ QuietWhileRunning' /\ NoLostWakeup' /\ NoStaleCallback'
    BY <2>1, QueueKeeps
  <2>5. TypeOK'
    BY <1>0, <2>1, <2>4 DEF TypeOK
  <2>6. /\ DOMAIN cbhead' = 1 .. (Len(cbhead) + 1)
        /\ DOMAIN cbhead = 1 .. Len(cbhead)
        /\ Len(cbhead) \in Nat
        /\ \A i \in DOMAIN cbhead : cbhead'[i] = cbhead[i]
        /\ cbhead'[Len(cbhead) + 1] = cb
    BY <2>1, <2>4 DEF TypeOK
  <2>7. cb = [ctx |-> c, idem |-> TRUE]
    BY DEF cb
  <2>8. \A i \in DOMAIN cbhead : cbhead[i] # cb
    BY <1>2, <2>1, <2>2, <2>7 DEF IdempotentFlagExact, Waiting, TypeOK
  <2>9. \A d \in alive : queued'[d] <=> Waiting(d, TRUE)'
    <3> SUFFICES ASSUME NEW d \in alive PROVE queued'[d] <=> Waiting(d, TRUE)'
      OBVIOUS
    <3>1. d \in Contexts
      BY DEF TypeOK
    <3>2. CASE d = c
      <4>1. Len(cbhead) + 1 \in DOMAIN cbhead' /\ cbhead'[Len(cbhead) + 1] = [ctx |-> d, idem |-> TRUE]
        BY <2>6, <2>7, <3>2
      <4>2. Waiting(d, TRUE)'
        BY <4>1 DEF Waiting
      <4> QED BY <2>1, <3>1, <3>2, <4>2 DEF TypeOK, Waiting
    <3>3. CASE d # c
      <4>1. [ctx |-> d, idem |-> TRUE] # cb
        BY <2>3, <3>3
      <4>2. Waiting(d, TRUE)' <=> Waiting(d, TRUE)
        <5> DEFINE w == [ctx |-> d, idem |-> TRUE]
        <5>1. w # cb /\ cbhead \in Seq(Callback)
          BY <4>1 DEF TypeOK
        <5>2. (\E i \in DOMAIN cbhead' : cbhead'[i] = w) <=> (\E i \in DOMAIN cbhead : cbhead[i] = w)
          <6>1. cb \in Callback /\ cbhead' = Append(cbhead, cb)
            BY <2>1, <2>4
          <6> HIDE DEF w
          <6>2. (\E i \in DOMAIN Append(cbhead, cb) : Append(cbhead, cb)[i] = w)
                   <=> (\E i \in DOMAIN cbhead : cbhead[i] = w)
            BY ONLY <5>1, <6>1, AppendWaits
          <6> QED BY ONLY <6>1, <6>2
        <5> QED BY <5>2 DEF Waiting
      <4>3. queued'[d] = queued[d]
        BY <2>1, <3>1, <3>3 DEF TypeOK
      <4> QED BY <4>2, <4>3 DEF IdempotentFlagExact
    <3> QED BY <3>2, <3>3
  <2>10. \A i, j \in DOMAIN cbhead' : cbhead'[i] = cbhead'[j] /\ cbhead'[i].idem => i = j
    BY <2>6, <2>8 DEF IdempotentFlagExact
  <2>11. IdempotentFlagExact'
    BY <2>1, <2>9, <2>10 DEF IdempotentFlagExact
  <2> QED BY <1>0, <2>4, <2>5, <2>11
<1> QED BY <1>1, <1>2

\* A new object starts with its flag clear, and no entry names its address.
LEMMA AllocateKeeps ==
    ASSUME IInv, NEW c \in Contexts, Allocate(c)
    PROVE  IInv'
<1> USE DEF IInv
<1>1. /\ UNCHANGED <<cbhead, cbcurr, m_callbacksPending, shots>>
      /\ alive' = alive \cup {c} /\ c \notin alive
      /\ queued' = [queued EXCEPT ![c] = FALSE]
  BY DEF Allocate
<1>2. NoNestedCallback' /\ stack' \in Seq(Frame)
  BY <1>1, OperationKeepsNesting DEF Allocate
<1>3. TypeOK'
  BY <1>1, <1>2 DEF TypeOK
<1>4. NoStaleCallback'
  BY <1>1 DEF NoStaleCallback
<1>5. ~Waiting(c, TRUE)
  BY <1>1 DEF NoStaleCallback, Waiting
<1>6. \A d \in alive' : queued'[d] <=> Waiting(d, TRUE)'
  BY <1>1, <1>5 DEF IdempotentFlagExact, Waiting, TypeOK
<1>7. IdempotentFlagExact'
  BY <1>1, <1>6 DEF IdempotentFlagExact
<1> QED BY <1>1, <1>2, <1>3, <1>4, <1>7 DEF BridgeFlagExact, QuietWhileRunning, NoLostWakeup

\* delete_callbacks_for_context leaves no entry of the freed object and moves
\* no other.
LEMMA FreeContextKeeps ==
    ASSUME IInv, NEW c \in Contexts, FreeContext(c)
    PROVE  IInv'
<1> USE DEF IInv
<1>1. /\ UNCHANGED <<cbcurr, queued, m_callbacksPending, shots>>
      /\ alive' = alive \ {c}
      /\ delete_callbacks_for_context(c)
  BY DEF FreeContext
<1>2. NoNestedCallback' /\ stack' \in Seq(Frame)
  BY <1>1, OperationKeepsNesting DEF FreeContext
<1>3. PICK n \in 0 .. Len(cbhead) : \E f \in [1 .. n -> survivors(c)] :
          /\ \A i, j \in 1 .. n : i < j => f[i] < f[j]
          /\ \A p \in survivors(c) : \E i \in 1 .. n : f[i] = p
          /\ cbhead' = [i \in 1 .. n |-> cbhead[f[i]]]
  BY <1>1 DEF delete_callbacks_for_context
<1>4. PICK f \in [1 .. n -> survivors(c)] :
          /\ \A i, j \in 1 .. n : i < j => f[i] < f[j]
          /\ \A p \in survivors(c) : \E i \in 1 .. n : f[i] = p
          /\ cbhead' = [i \in 1 .. n |-> cbhead[f[i]]]
  BY <1>3
<1>5. /\ n \in Nat
      /\ DOMAIN cbhead' = 1 .. n
      /\ \A i \in 1 .. n : /\ f[i] \in DOMAIN cbhead
                           /\ cbhead'[i] = cbhead[f[i]]
                           /\ cbhead[f[i]].ctx # c
  BY <1>4 DEF survivors, TypeOK
<1>6. cbhead' \in Seq(Callback)
  <2>1. \A i \in 1 .. n : cbhead'[i] \in Callback
    BY <1>5 DEF TypeOK
  <2>2. cbhead' = [i \in 1 .. n |-> cbhead'[i]]
    BY <1>4, <1>5
  <2> QED BY <1>5, <2>1, <2>2, IsASeq
<1>7. TypeOK'
  BY <1>1, <1>2, <1>6 DEF TypeOK
<1>8. NoStaleCallback'
  BY <1>1, <1>5 DEF NoStaleCallback
<1>9. NoLostWakeup'
  <2>1. cbhead' # <<>> => cbhead # <<>>
    <3> SUFFICES ASSUME cbhead = <<>> PROVE cbhead' = <<>>
      OBVIOUS
    <3>1. n = 0
      BY <1>3
    <3> QED BY <1>6, <1>5, <3>1
  <2> QED BY <1>1, <2>1 DEF NoLostWakeup
<1>10. \A i, j \in 1 .. n : f[i] = f[j] => i = j
  <2>1. \A i, j \in 1 .. n : i < j \/ j < i \/ i = j
    BY <1>5
  <2>2. \A i \in 1 .. n : f[i] \in Nat
    BY <1>5 DEF TypeOK
  <2>3. \A i, j \in 1 .. n : i < j => f[i] # f[j]
    BY <1>4, <2>2
  <2> QED BY <2>1, <2>3
<1>11. \A i, j \in DOMAIN cbhead' : cbhead'[i] = cbhead'[j] /\ cbhead'[i].idem => i = j
  BY <1>5, <1>10 DEF IdempotentFlagExact
<1>12. \A d \in alive' : queued'[d] <=> Waiting(d, TRUE)'
  <2> SUFFICES ASSUME NEW d \in alive' PROVE Waiting(d, TRUE)' <=> Waiting(d, TRUE)
    BY <1>1 DEF IdempotentFlagExact
  <2> DEFINE w == [ctx |-> d, idem |-> TRUE]
  <2>1. w.ctx # c
    BY <1>1
  <2>2. ASSUME NEW i \in DOMAIN cbhead, cbhead[i] = w
        PROVE  \E k \in DOMAIN cbhead' : cbhead'[k] = w
    <3>1. i \in survivors(c)
      BY <2>1, <2>2 DEF survivors
    <3>2. PICK k \in 1 .. n : f[k] = i
      BY <1>4, <3>1
    <3> QED BY <1>5, <2>2, <3>2
  <2>3. ASSUME NEW k \in DOMAIN cbhead', cbhead'[k] = w
        PROVE  \E i \in DOMAIN cbhead : cbhead[i] = w
    BY <1>5, <2>3
  <2> QED BY <2>2, <2>3 DEF Waiting
<1>13. IdempotentFlagExact'
  BY <1>11, <1>12 DEF IdempotentFlagExact
<1> QED BY <1>1, <1>2, <1>7, <1>8, <1>9, <1>13 DEF BridgeFlagExact, QuietWhileRunning

\* Opening and answering a dialog, and an event handler's start and return,
\* touch only the stack and move no callback frame.
LEMMA StackStepKeeps ==
    ASSUME IInv, OpenModal \/ CloseModal \/ DispatchEvent \/ ReturnFromEvent
    PROVE  IInv'
<1> USE DEF IInv
<1>1. UNCHANGED <<cbhead, cbcurr, queued, alive, m_callbacksPending, shots>>
  BY DEF OpenModal, CloseModal, DispatchEvent, ReturnFromEvent
<1> SUFFICES NoNestedCallback' /\ stack' \in Seq(Frame)
  BY <1>1 DEF TypeOK, BridgeFlagExact, QuietWhileRunning, NoLostWakeup,
              NoStaleCallback, IdempotentFlagExact, Waiting
<1>3. CASE OpenModal
  <2> DEFINE s == [stack EXCEPT ![Len(stack)].ops = @ - 1]
             m == [kind |-> "modal", ops |-> 0]
  <2>1. s \in Seq(Frame) /\ stack' = Append(s, m)
    BY <1>3, StackType DEF OpenModal
  <2>2. m \in Frame
    BY BoundsAssumption DEF Frame
  <2>3. DOMAIN s = DOMAIN stack /\ \A i \in DOMAIN stack : s[i].kind = stack[i].kind
    BY <1>3, StackKinds DEF OpenModal
  <2>4. m.kind # "callback"
    OBVIOUS
  <2> HIDE DEF s, m
  <2>5. /\ stack' \in Seq(Frame)
        /\ DOMAIN stack' = DOMAIN s \cup {Len(s) + 1}
        /\ Len(s) + 1 \notin DOMAIN s
        /\ stack'[Len(s) + 1] = m
        /\ \A i \in DOMAIN s : stack'[i] = s[i]
    BY <2>1, <2>2
  <2> QED BY <1>1, <2>3, <2>4, <2>5 DEF NoNestedCallback
<1>4. CASE CloseModal \/ ReturnFromEvent
  <2>1. stack # <<>> /\ stack' = Pop /\ stack[Len(stack)].kind # "callback"
    BY <1>4 DEF CloseModal, ReturnFromEvent, HandlerOnTop, Top
  <2>2. stack' \in Seq(Frame)
    BY <2>1, StackType
  <2>3. /\ DOMAIN stack = DOMAIN stack' \cup {Len(stack)}
        /\ Len(stack) \notin DOMAIN stack'
        /\ \A i \in DOMAIN stack' : stack'[i] = stack[i]
    BY <2>1, StackKinds
  <2> QED BY <1>1, <2>1, <2>2, <2>3 DEF NoNestedCallback
<1>5. CASE DispatchEvent
  <2>1. stack' = Push("event")
    BY <1>5 DEF DispatchEvent
  <2>2. stack' \in Seq(Frame)
    BY <2>1, StackType
  <2>3. /\ DOMAIN stack' = DOMAIN stack \cup {Len(stack) + 1}
        /\ stack'[Len(stack) + 1].kind = "event"
        /\ \A i \in DOMAIN stack : stack'[i] = stack[i]
    BY <2>1, StackKinds
  <2> QED BY <1>1, <2>2, <2>3 DEF NoNestedCallback
<1> QED BY <1>3, <1>4, <1>5

\* A callback is taken from the queue only when none runs, because no call
\* of processToplevelCallbacks is posted while one does.
LEMMA ProcessKeeps ==
    ASSUME IInv, ProcessToplevelCallbacks
    PROVE  IInv'
<1> USE DEF IInv
<1>1. shots = 1 /\ m_callbacksPending = TRUE /\ cbcurr = None
  BY DEF ProcessToplevelCallbacks, TypeOK, BridgeFlagExact, QuietWhileRunning
<1>2. CASE cbhead = <<>>
  <2>1. /\ shots' = 0 /\ m_callbacksPending' = FALSE
        /\ UNCHANGED <<cbhead, cbcurr, queued, alive, stack>>
    BY <1>1, <1>2 DEF ProcessToplevelCallbacks
  <2>2. TypeOK'
    <3>1. m_callbacksPending' \in BOOLEAN
      BY <2>1
    <3>2. shots' \in 0 .. 1
      BY <2>1
    <3> QED BY <2>1, <3>1, <3>2 DEF TypeOK
  <2>4. BridgeFlagExact' /\ QuietWhileRunning' /\ NoLostWakeup'
    BY <1>1, <1>2, <2>1 DEF BridgeFlagExact, QuietWhileRunning, NoLostWakeup
  <2>3. NoNestedCallback' /\ NoStaleCallback' /\ IdempotentFlagExact'
    BY <2>1 DEF NoNestedCallback, NoStaleCallback, IdempotentFlagExact, Waiting
  <2> QED BY <2>2, <2>3, <2>4
<1>3. CASE cbhead # <<>>
  <2> DEFINE cb == Head(cbhead)
  <2>1. /\ shots' = 0 /\ m_callbacksPending' = FALSE
        /\ cbcurr' = cb /\ cbhead' = Tail(cbhead)
        /\ queued' = queued_when_run(cb)
        /\ stack' = Push("callback")
        /\ UNCHANGED alive
    BY <1>1, <1>3 DEF ProcessToplevelCallbacks
  <2>2. /\ cb \in Callback /\ cb # None
        /\ cb = cbhead[1] /\ 1 \in DOMAIN cbhead
        /\ cb.ctx \in alive /\ cb.ctx \in Contexts
    BY <1>3, NoneAssumption DEF TypeOK, NoStaleCallback, NoCallback
  <2>3. /\ cbhead' \in Seq(Callback)
        /\ DOMAIN cbhead' = 1 .. (Len(cbhead) - 1)
        /\ DOMAIN cbhead = 1 .. Len(cbhead)
        /\ Len(cbhead) \in Nat \ {0}
        /\ \A i \in DOMAIN cbhead' : cbhead'[i] = cbhead[i + 1]
    BY <1>3, <2>1 DEF TypeOK
  <2>4. queued' \in [Contexts -> BOOLEAN]
    BY <2>1, <2>2 DEF queued_when_run, TypeOK
  <2>5. TypeOK'
    <3>1. stack' \in Seq(Frame)
      BY <2>1, StackType
    <3>2. alive' \subseteq Contexts
      BY <2>1 DEF TypeOK
    <3>3. m_callbacksPending' \in BOOLEAN
      BY <2>1
    <3>4. shots' \in 0 .. 1
      BY <2>1
    <3>5. cbcurr' \in Callback \cup {None}
      BY <2>1, <2>2
    <3> QED BY <2>3, <2>4, <3>1, <3>2, <3>3, <3>4, <3>5 DEF TypeOK
  <2>6. NoNestedCallback'
    <3>1. /\ DOMAIN stack' = DOMAIN stack \cup {Len(stack) + 1}
          /\ stack'[Len(stack) + 1].kind = "callback"
          /\ \A i \in DOMAIN stack : stack'[i] = stack[i]
      BY <2>1, StackKinds
    <3>2. \A i \in DOMAIN stack : stack[i].kind # "callback"
      BY <1>1 DEF NoNestedCallback
    <3> QED BY <2>1, <2>2, <3>1, <3>2 DEF NoNestedCallback
  <2>7. NoStaleCallback'
    <3>1. \A i \in DOMAIN cbhead' : i + 1 \in DOMAIN cbhead
      BY <2>3
    <3> QED BY <2>1, <2>3, <3>1 DEF NoStaleCallback
  <2>8. \A i, j \in DOMAIN cbhead' : cbhead'[i] = cbhead'[j] /\ cbhead'[i].idem => i = j
    <3>1. \A i \in DOMAIN cbhead' : i \in Nat /\ i + 1 \in DOMAIN cbhead
      BY <2>3
    <3>2. \A i, j \in DOMAIN cbhead' : cbhead'[i] = cbhead'[j] /\ cbhead'[i].idem => i + 1 = j + 1
      BY <2>3, <3>1 DEF IdempotentFlagExact
    <3> QED BY <3>1, <3>2
  <2>9. \A d \in alive : queued'[d] <=> Waiting(d, TRUE)'
    <3> SUFFICES ASSUME NEW d \in alive PROVE queued'[d] <=> Waiting(d, TRUE)'
      OBVIOUS
    <3> DEFINE w == [ctx |-> d, idem |-> TRUE]
    <3>0. d \in Contexts
      BY DEF TypeOK
    <3>1. \A i \in DOMAIN cbhead : i # 1 => i - 1 \in DOMAIN cbhead' /\ cbhead'[i - 1] = cbhead[i]
      BY <2>3
    <3>2. \A i \in DOMAIN cbhead' : i + 1 \in DOMAIN cbhead /\ i + 1 # 1
      BY <2>3
    <3>3. CASE cb = w
      <4>1. queued'[d] = FALSE
        BY <2>1, <2>2, <3>0, <3>3 DEF queued_when_run, TypeOK
      <4>2. \A i \in DOMAIN cbhead' : cbhead'[i] # w
        <5>1. w.idem = TRUE
          OBVIOUS
        <5>2. \A i \in DOMAIN cbhead : cbhead[i] = w => i = 1
          BY <2>2, <3>3, <5>1 DEF IdempotentFlagExact
        <5> HIDE DEF w
        <5> QED BY <2>3, <3>2, <5>2
      <4> QED BY <4>1, <4>2 DEF Waiting
    <3>4. CASE cb # w
      <4>1. (\E i \in DOMAIN cbhead : cbhead[i] = w) <=> (\E i \in DOMAIN cbhead' : cbhead'[i] = w)
        <5> HIDE DEF w
        <5>1. ASSUME NEW i \in DOMAIN cbhead, cbhead[i] = w
              PROVE  \E k \in DOMAIN cbhead' : cbhead'[k] = w
          BY <2>2, <3>1, <3>4, <5>1
        <5>2. ASSUME NEW k \in DOMAIN cbhead', cbhead'[k] = w
              PROVE  \E i \in DOMAIN cbhead : cbhead[i] = w
          BY <2>3, <3>2, <5>2
        <5> QED BY <5>1, <5>2
      <4>2. queued'[d] = queued[d]
        <5>1. CASE cb.idem = FALSE
          BY <2>1, <5>1 DEF queued_when_run
        <5>2. CASE cb.idem = TRUE
          <6>1. cb.ctx # d
            BY <2>2, <3>4, <5>2 DEF Callback
          <6> QED BY <2>1, <3>0, <5>2, <6>1 DEF queued_when_run, TypeOK
        <5> QED BY <2>2, <5>1, <5>2 DEF Callback
      <4> QED BY <4>1, <4>2 DEF Waiting, IdempotentFlagExact
    <3> QED BY <3>3, <3>4
  <2>10. IdempotentFlagExact'
    BY <2>1, <2>8, <2>9 DEF IdempotentFlagExact
  <2>11. BridgeFlagExact' /\ QuietWhileRunning' /\ NoLostWakeup'
    BY <2>1, <2>2 DEF BridgeFlagExact, QuietWhileRunning, NoLostWakeup
  <2> QED BY <2>5, <2>6, <2>7, <2>10, <2>11
<1> QED BY <1>2, <1>3

\* When the callback returns, the bridge looks at the queue again.
LEMMA ReturnKeeps ==
    ASSUME IInv, ReturnFromCallback
    PROVE  IInv'
<1> USE DEF IInv
<1>1. /\ stack # <<>> /\ stack[Len(stack)].kind = "callback"
      /\ stack' = Pop /\ cbcurr' = None
      /\ UNCHANGED <<cbhead, queued, alive>>
  BY DEF ReturnFromCallback, HandlerOnTop, Top
<1>2. stack' \in Seq(Frame)
  BY <1>1, StackType
<1>3. NoNestedCallback'
  <2>1. /\ DOMAIN stack = DOMAIN stack' \cup {Len(stack)}
        /\ Len(stack) \notin DOMAIN stack'
        /\ \A i \in DOMAIN stack' : stack'[i] = stack[i]
    BY <1>1, StackKinds
  <2>2. \A i \in DOMAIN stack' : stack'[i].kind # "callback"
    BY <1>1, <2>1 DEF NoNestedCallback
  <2> QED BY <1>1, <2>2 DEF NoNestedCallback
<1>4. CASE cbhead # <<>>
  <2>1. m_callbacksPending' = TRUE /\ shots' = 1
    BY <1>4, ScheduleExact DEF ReturnFromCallback
  <2> QED BY <1>1, <1>2, <1>3, <2>1 DEF TypeOK, BridgeFlagExact, QuietWhileRunning,
             NoLostWakeup, NoStaleCallback, IdempotentFlagExact, Waiting
<1>5. CASE cbhead = <<>>
  <2>1. UNCHANGED <<m_callbacksPending, shots>>
    BY <1>5 DEF ReturnFromCallback
  <2> QED BY <1>1, <1>2, <1>3, <1>5, <2>1 DEF TypeOK, BridgeFlagExact, QuietWhileRunning,
             NoLostWakeup, NoStaleCallback, IdempotentFlagExact, Waiting
<1> QED BY <1>4, <1>5

\* Every behaviour of the queue and the bridge satisfies the inductive
\* invariant.
THEOREM InvariantHolds == Spec => []IInv
<1>1. Init => IInv
  <2> SUFFICES ASSUME Init PROVE IInv
    OBVIOUS
  <2> USE DEF Init
  <2>1. TypeOK
    <3>1. m_callbacksPending \in BOOLEAN
      OBVIOUS
    <3>2. shots \in 0 .. 1
      OBVIOUS
    <3>3. queued \in [Contexts -> BOOLEAN]
      OBVIOUS
    <3>4. cbhead \in Seq(Callback) /\ stack \in Seq(Frame)
      OBVIOUS
    <3>5. cbcurr \in Callback \cup {None} /\ alive \subseteq Contexts
      OBVIOUS
    <3> QED BY <3>1, <3>2, <3>3, <3>4, <3>5 DEF TypeOK
  <2>2. BridgeFlagExact /\ QuietWhileRunning /\ NoLostWakeup
    BY DEF BridgeFlagExact, QuietWhileRunning, NoLostWakeup
  <2>3. NoNestedCallback /\ NoStaleCallback /\ IdempotentFlagExact
    BY DEF NoNestedCallback, NoStaleCallback, IdempotentFlagExact, Waiting
  <2> QED BY <2>1, <2>2, <2>3 DEF IInv
<1>2. IInv /\ [Next]_vars => IInv'
  <2> SUFFICES ASSUME IInv, [Next]_vars PROVE IInv'
    OBVIOUS
  <2>1. ASSUME NEW c \in Contexts, QueueCallback(c) PROVE IInv'
    BY <2>1, QueueCallbackKeeps
  <2>2. ASSUME NEW c \in Contexts, QueueIdempotent(c) PROVE IInv'
    BY <2>2, QueueIdempotentKeeps
  <2>3. ASSUME NEW c \in Contexts, Allocate(c) PROVE IInv'
    BY <2>3, AllocateKeeps
  <2>4. ASSUME NEW c \in Contexts, FreeContext(c) PROVE IInv'
    BY <2>4, FreeContextKeeps
  <2>5. CASE OpenModal \/ CloseModal \/ DispatchEvent \/ ReturnFromEvent
    BY <2>5, StackStepKeeps
  <2>6. CASE ProcessToplevelCallbacks
    BY <2>6, ProcessKeeps
  <2>7. CASE ReturnFromCallback
    BY <2>7, ReturnKeeps
  <2>8. CASE UNCHANGED vars
    BY <2>8 DEF vars, IInv, TypeOK, BridgeFlagExact, QuietWhileRunning, NoLostWakeup,
       NoNestedCallback, NoStaleCallback, IdempotentFlagExact, Waiting
  <2> QED BY <2>1, <2>2, <2>3, <2>4, <2>5, <2>6, <2>7, <2>8 DEF Next
<1> QED BY <1>1, <1>2, PTL DEF Spec

\* The state of the queue and of the bridge is always well typed, and at most
\* one call of processToplevelCallbacks is ever posted.
THEOREM TypeCorrect == Spec => []TypeOK
<1>1. IInv => TypeOK
  BY DEF IInv
<1> QED BY <1>1, InvariantHolds, PTL

\* A waiting callback is never forgotten: if none is running, the bridge has a
\* processToplevelCallbacks call posted.
THEOREM WakeupNeverLost == Spec => []NoLostWakeup
<1>1. IInv => NoLostWakeup
  BY DEF IInv
<1> QED BY <1>1, InvariantHolds, PTL

\* However dialogs nest, no callback runs inside another one, so cbcurr is
\* never overwritten.
THEOREM CallbacksNeverNest == Spec => []NoNestedCallback
<1>1. IInv => NoNestedCallback
  BY DEF IInv
<1> QED BY <1>1, InvariantHolds, PTL

\* The queue never holds a callback of a freed object.
THEOREM CallbacksNeverStale == Spec => []NoStaleCallback
<1>1. IInv => NoStaleCallback
  BY DEF IInv
<1> QED BY <1>1, InvariantHolds, PTL

\* The queued flag of every live IdempotentCallback agrees with the queue.
THEOREM IdempotentFlagAgrees == Spec => []IdempotentFlagExact
<1>1. IInv => IdempotentFlagExact
  BY DEF IInv
<1> QED BY <1>1, InvariantHolds, PTL

=============================================================================
