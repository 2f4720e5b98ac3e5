-------------------------- MODULE SshSocket_proofs --------------------------
(***************************************************************************)
(* Proofs about SshSocket, for every server stream and every limit. IInv   *)
(* adds to the four properties the types of the variables they speak of;   *)
(* what the stream looks like plays no part.  Two sections at the end are  *)
(* about ShareSocket, where a process finds the connection that it shares, *)
(* and about UserAuth, the login.                                          *)
(***************************************************************************)
EXTENDS SshSocket, Upstreams, Logins, FiniteSetTheorems, SequenceTheorems, NatFacts

Kinds == {Packets[k].kind : k \in Int}

Types ==
    /\ callbacks \in Seq(Callback)
    /\ in_pq \in Seq(Kinds)
    /\ out_raw \in Nat
    /\ output_data \in Nat
    /\ throttled_all \in BOOLEAN
    /\ open \in BOOLEAN
    /\ pending_close \in BOOLEAN

\* The inductive invariant.
IInv ==
    /\ Types
    /\ SocketFrozenExact
    /\ PacketsNeverStranded
    /\ OutputNeverStranded
    /\ ThrottleFollowsBacklog

\* What queue_idempotent_callback does to the queue.
LEMMA QueueFacts ==
    ASSUME NEW q \in Seq(Callback), NEW ic \in Callback
    PROVE  /\ Queue(q, ic) \in Seq(Callback)
           /\ Queued(Queue(q, ic), ic)
           /\ \A other \in Callback : Queued(q, other) => Queued(Queue(q, ic), other)
<1>1. CASE Queued(q, ic)
  BY <1>1 DEF Queue
<1>2. CASE ~Queued(q, ic)
  <2>1. Queue(q, ic) = Append(q, ic)
    BY <1>2 DEF Queue
  <2>2. Append(q, ic) \in Seq(Callback) /\ Len(Append(q, ic)) = Len(q) + 1
    OBVIOUS
  <2>3. Len(q) + 1 \in DOMAIN Append(q, ic) /\ Append(q, ic)[Len(q) + 1] = ic
    OBVIOUS
  <2>4. \A i \in DOMAIN q : i \in DOMAIN Append(q, ic) /\ Append(q, ic)[i] = q[i]
    OBVIOUS
  <2> QED BY <2>1, <2>2, <2>3, <2>4 DEF Queued
<1> QED BY <1>1, <1>2

\* Taking the callback that runs off the queue leaves the others.
LEMMA TailFacts ==
    ASSUME NEW q \in Seq(Callback), q # <<>>
    PROVE  /\ Tail(q) \in Seq(Callback)
           /\ \A ic \in Callback : Queued(q, ic) /\ Head(q) # ic => Queued(Tail(q), ic)
<1>1. Tail(q) \in Seq(Callback)
  OBVIOUS
<1>2. ASSUME NEW ic \in Callback, Queued(q, ic), Head(q) # ic
      PROVE  Queued(Tail(q), ic)
  <2>1. PICK i \in DOMAIN q : q[i] = ic
    BY <1>2 DEF Queued
  <2>2. i \in 2 .. Len(q)
    BY <2>1, <1>2
  <2>3. i - 1 \in DOMAIN Tail(q) /\ Tail(q)[i - 1] = ic
    BY <2>1, <2>2
  <2> QED BY <2>3 DEF Queued
<1> QED BY <1>1, <1>2

\* Deleting one context's callback leaves the others.
LEMMA DeleteFacts ==
    ASSUME NEW q \in Seq(Callback), NEW ic \in Callback
    PROVE  /\ Delete(q, ic) \in Seq(Callback)
           /\ \A other \in Callback \ {ic} : Queued(q, other) => Queued(Delete(q, ic), other)
<1>1. CASE ~Queued(q, ic)
  BY <1>1 DEF Delete
<1>2. CASE Queued(q, ic)
  <2> DEFINE i == CHOOSE j \in DOMAIN q : q[j] = ic
             a == SubSeq(q, 1, i - 1)
             b == SubSeq(q, i + 1, Len(q))
  <2>1. i \in DOMAIN q /\ q[i] = ic
    BY <1>2 DEF Queued
  <2>2. Delete(q, ic) = a \o b
    BY <1>2 DEF Delete
  <2> HIDE DEF i
  <2>3. i \in 1 .. Len(q)
    BY <2>1
  <2>4. a \in Seq(Callback) /\ Len(a) = i - 1 /\ \A j \in 1 .. i - 1 : a[j] = q[j]
    BY <2>3
  <2>5. b \in Seq(Callback) /\ Len(b) = Len(q) - i /\ \A j \in 1 .. Len(q) - i : b[j] = q[j + i]
    BY <2>3
  <2> HIDE DEF a, b
  <2>6. a \o b \in Seq(Callback)
    BY <2>4, <2>5
  <2>7. ASSUME NEW other \in Callback \ {ic}, Queued(q, other)
        PROVE  Queued(a \o b, other)
    <3>1. PICK k \in DOMAIN q : q[k] = other
      BY <2>7 DEF Queued
    <3>2. CASE k < i
      <4>1. k \in DOMAIN (a \o b) /\ (a \o b)[k] = other
        BY <2>3, <2>4, <2>5, <3>1, <3>2
      <4> QED BY <4>1 DEF Queued
    <3>3. CASE k > i
      <4>a. k - i \in 1 .. Len(q) - i /\ (k - i) + i = k
        BY <2>3, <3>1, <3>3
      <4>b. b[k - i] = q[(k - i) + i]
        BY <2>5, <4>a
      <4>1. k - i \in 1 .. Len(q) - i /\ b[k - i] = other
        BY <3>1, <4>a, <4>b
      <4>2. k - 1 \in DOMAIN (a \o b) /\ (a \o b)[k - 1] = other
        BY <2>3, <2>4, <2>5, <4>1
      <4> QED BY <4>2 DEF Queued
    <3>4. k # i
      BY <2>1, <2>7, <3>1
    <3> QED BY <2>3, <3>1, <3>2, <3>3, <3>4
  <2> QED BY <2>2, <2>6, <2>7
<1> QED BY <1>1, <1>2

\* ssh_check_frozen never drops a callback.
LEMMA UnfrozenFacts ==
    ASSUME NEW q \in Seq(Callback), NEW count, NEW raw
    PROVE  /\ Unfrozen(count, raw, q) \in Seq(Callback)
           /\ \A ic \in Callback : Queued(q, ic) => Queued(Unfrozen(count, raw, q), ic)
<1>1. "ic_in_raw" \in Callback
  BY DEF Callback
<1> QED BY <1>1, QueueFacts DEF Unfrozen

\* Pushing packets on in_pq never drops a callback, and queues the layer's.
LEMMA PushedFacts ==
    ASSUME NEW q \in Seq(Callback)
    PROVE  /\ Pushed(q) \in Seq(Callback)
           /\ \A ic \in Callback : Queued(q, ic) => Queued(Pushed(q), ic)
           /\ layers /\ NewPackets # <<>> => Queued(Pushed(q), "ic_process_queue")
<1>1. "ic_process_queue" \in Callback
  BY DEF Callback
<1> QED BY <1>1, QueueFacts DEF Pushed

\* The packets the BPP completes form a sequence.
LEMMA NewPacketsType == NewPackets \in Seq(Kinds)
<1>1. ASSUME NEW p PROVE Complete(p) \in Nat
  <2>1. DOMAIN Packets = 1 .. Len(Packets) /\ Len(Packets) \in Nat
    BY ParamAssumption
  <2>2. IsFiniteSet(DOMAIN Packets)
    BY <2>1, FS_Interval
  <2>3. IsFiniteSet({j \in DOMAIN Packets : End[j] <= p})
    BY <2>2, FS_Subset
  <2> QED BY <2>3, FS_CardinalityType DEF Complete
<1> DEFINE c == Complete(consumed)
           n == Complete(Furthest) - c
<1>2. c \in Int /\ n \in Int
  BY <1>1
<1>3. NewPackets = [i \in 1 .. n |-> Packets[c + i].kind]
  BY DEF NewPackets
<1> HIDE DEF c, n
<1>4. \A i \in 1 .. n : Packets[c + i].kind \in Kinds
  BY <1>2 DEF Kinds
<1>5. CASE n >= 0
  <2>1. [i \in 1 .. n |-> Packets[c + i].kind] \in [1 .. n -> Kinds]
    BY <1>4
  <2>2. n \in Nat
    BY <1>2, <1>5
  <2> QED BY <1>3, <2>1, <2>2
<1>6. CASE n < 0
  <2>1. 1 .. n = {}
    BY <1>2, <1>6
  <2>2. NewPackets = << >>
    BY <1>3, <2>1
  <2> QED BY <2>2
<1> QED BY <1>2, <1>5, <1>6

\* The callback record of each part is a callback.
LEMMA CallbackNames ==
    /\ "ic_in_raw" \in Callback
    /\ "ic_process_queue" \in Callback
    /\ "ic_out_raw" \in Callback
    /\ "ic_in_raw" # "ic_process_queue"
    /\ "ic_in_raw" # "ic_out_raw"
    /\ "ic_process_queue" # "ic_out_raw"
BY DEF Callback

\* ssh_receive: only the input side and the freezing change.
LEMMA ReceiveKeeps == IInv /\ ssh_receive => IInv'
<1> SUFFICES ASSUME IInv, ssh_receive PROVE IInv'
  OBVIOUS
<1> USE CallbackNames
<1>1. PICK n \in 1 .. ReadSize :
         /\ received' = received + n
         /\ ssh_check_frozen(conn_throttle_count, received' - consumed,
                  IF logically_frozen THEN callbacks ELSE Queue(callbacks, "ic_in_raw"))
  BY DEF ssh_receive
<1> DEFINE q == IF logically_frozen THEN callbacks ELSE Queue(callbacks, "ic_in_raw")
<1>2. q \in Seq(Callback) /\ \A ic \in Callback : Queued(callbacks, ic) => Queued(q, ic)
  BY QueueFacts DEF IInv, Types
<1>3. callbacks' = Unfrozen(conn_throttle_count, received' - consumed, q)
  BY <1>1 DEF ssh_check_frozen
<1> HIDE DEF q
<1>4. callbacks' \in Seq(Callback) /\ \A ic \in Callback : Queued(callbacks, ic) => Queued(callbacks', ic)
  BY <1>2, <1>3, UnfrozenFacts
<1>5. SocketFrozenExact'
  BY <1>1 DEF ssh_receive, ssh_check_frozen, Frozen, SocketFrozenExact, in_raw, logically_frozen
<1>6. Types' /\ PacketsNeverStranded' /\ OutputNeverStranded' /\ ThrottleFollowsBacklog'
  BY <1>4 DEF IInv, Types, ssh_receive, PacketsNeverStranded, OutputNeverStranded, ThrottleFollowsBacklog
<1> QED BY <1>5, <1>6 DEF IInv

\* ssh_shutdown, from any queue of callbacks: there is no socket and no layer
\* left to speak of.
LEMMA ShutdownKeeps ==
    ASSUME IInv, NEW q \in Seq(Callback), ssh_shutdown(q)
    PROVE  IInv'
<1> USE CallbackNames
<1>1. callbacks' \in Seq(Callback)
  BY DeleteFacts DEF ssh_shutdown
<1>2. Types'
  <2>1. in_pq' \in Seq(Kinds) /\ out_raw' \in Nat /\ output_data' \in Nat
    BY DEF ssh_shutdown
  <2>2. throttled_all' \in BOOLEAN /\ open' \in BOOLEAN /\ pending_close' \in BOOLEAN
    BY Zenon DEF IInv, Types, ssh_shutdown
  <2> QED BY <1>1, <2>1, <2>2 DEF Types
<1>3. ~open' /\ ~layers'
  BY DEF ssh_shutdown
<1> QED BY <1>2, <1>3 DEF IInv, SocketFrozenExact, PacketsNeverStranded, OutputNeverStranded,
                          ThrottleFollowsBacklog

\* ssh_closing only adds a callback.
LEMMA ClosingKeeps == IInv /\ ssh_closing => IInv'
<1> SUFFICES ASSUME IInv, ssh_closing PROVE IInv'
  OBVIOUS
<1>1. callbacks' \in Seq(Callback) /\ \A ic \in Callback : Queued(callbacks, ic) => Queued(callbacks', ic)
  BY QueueFacts, CallbackNames DEF IInv, Types, ssh_closing
<1> QED BY <1>1, CallbackNames DEF IInv, Types, ssh_closing, SocketFrozenExact, in_raw,
                logically_frozen, PacketsNeverStranded, OutputNeverStranded, ThrottleFollowsBacklog

\* The input callback ends the session, or moves packets from in_raw to in_pq
\* and queues the layer's callback.
LEMMA InputCallbackKeeps == IInv /\ ssh_bpp_input_raw_data_callback => IInv'
<1> SUFFICES ASSUME IInv, ssh_bpp_input_raw_data_callback PROVE IInv'
  OBVIOUS
<1> USE CallbackNames
<1> DEFINE t == Tail(callbacks)
           raw == received - Furthest
<1>1. /\ t \in Seq(Callback)
      /\ \A ic \in Callback \ {"ic_in_raw"} : Queued(callbacks, ic) => Queued(t, ic)
  BY TailFacts DEF IInv, Types, ssh_bpp_input_raw_data_callback, Running
<1>2. CASE ssh_shutdown(t)
  BY <1>1, <1>2, ShutdownKeeps
<1>3. CASE ~ssh_shutdown(t)
  <2>1. /\ consumed' = Furthest
        /\ in_pq' = in_pq \o NewPackets
        /\ socket_frozen' = Frozen(conn_throttle_count, raw)
        /\ callbacks' = IF UnfrozenFirst THEN Pushed(Unfrozen(conn_throttle_count, raw, t))
                        ELSE Unfrozen(conn_throttle_count, raw, Pushed(t))
        /\ fault' = fault \/ fault' = "freed_layer"
        /\ UNCHANGED <<received, conn_throttle_count, out_raw, output_data, throttled_all, layers,
                       open, pending_close>>
    BY <1>3 DEF ssh_bpp_input_raw_data_callback
  <2>2. /\ callbacks' \in Seq(Callback)
        /\ \A ic \in Callback : Queued(t, ic) => Queued(callbacks', ic)
        /\ layers /\ NewPackets # <<>> => Queued(callbacks', "ic_process_queue")
    <3> HIDE DEF t, raw
    <3>1. CASE UnfrozenFirst
      <4>1. /\ Unfrozen(conn_throttle_count, raw, t) \in Seq(Callback)
            /\ \A ic \in Callback : Queued(t, ic) => Queued(Unfrozen(conn_throttle_count, raw, t), ic)
        BY <1>1, UnfrozenFacts
      <4> QED BY <2>1, <3>1, <4>1, PushedFacts
    <3>2. CASE ~UnfrozenFirst
      <4>1. /\ Pushed(t) \in Seq(Callback)
            /\ \A ic \in Callback : Queued(t, ic) => Queued(Pushed(t), ic)
            /\ layers /\ NewPackets # <<>> => Queued(Pushed(t), "ic_process_queue")
        BY <1>1, PushedFacts
      <4> QED BY <2>1, <3>2, <4>1, UnfrozenFacts
    <3> QED BY <3>1, <3>2
  <2>3. in_pq' \in Seq(Kinds) /\ (NewPackets = <<>> => in_pq' = in_pq)
    <3>1. in_pq \in Seq(Kinds)
      BY DEF IInv, Types
    <3> QED BY <2>1, <3>1, NewPacketsType
  <2>4. Types'
    BY <2>1, <2>2, <2>3 DEF IInv, Types
  <2>5. SocketFrozenExact'
    BY <2>1 DEF Frozen, SocketFrozenExact, in_raw, logically_frozen
  <2>6. PacketsNeverStranded'
    BY <1>1, <2>1, <2>2, <2>3 DEF IInv, PacketsNeverStranded
  <2>7. OutputNeverStranded'
    BY <1>1, <2>1, <2>2 DEF IInv, OutputNeverStranded
  <2>8. ThrottleFollowsBacklog'
    BY <2>1 DEF IInv, ThrottleFollowsBacklog
  <2> QED BY <2>4, <2>5, <2>6, <2>7, <2>8 DEF IInv
<1> QED BY <1>2, <1>3

\* The layers empty in_pq.
LEMMA ProcessQueueKeeps == IInv /\ ssh_ppl_process_queue => IInv'
<1> SUFFICES ASSUME IInv, ssh_ppl_process_queue PROVE IInv'
  OBVIOUS
<1> USE CallbackNames
<1> DEFINE t == Tail(callbacks)
<1>1. /\ t \in Seq(Callback)
      /\ Queued(callbacks, "ic_out_raw") => Queued(t, "ic_out_raw")
  BY TailFacts DEF IInv, Types, ssh_ppl_process_queue, ssh2_bpp_new_incoming_crypto, Running
<1>2. /\ callbacks' \in Seq(Callback)
      /\ Queued(t, "ic_out_raw") => Queued(callbacks', "ic_out_raw")
  BY <1>1, QueueFacts DEF ssh_ppl_process_queue, ssh2_bpp_new_incoming_crypto
<1>3. in_pq' = <<>> /\ in_pq' \in Seq(Kinds)
  BY DEF ssh_ppl_process_queue, ssh2_bpp_new_incoming_crypto
<1> HIDE DEF t
<1> QED BY <1>1, <1>2, <1>3 DEF IInv, Types, ssh_ppl_process_queue, ssh2_bpp_new_incoming_crypto, SocketFrozenExact, in_raw,
                logically_frozen, PacketsNeverStranded, OutputNeverStranded, ThrottleFollowsBacklog

\* ssh_throttle_conn recomputes the freezing whenever logically_frozen changes.
LEMMA ThrottleConnKeeps ==
    ASSUME IInv, NEW adjust \in {-1, 1}, ssh_throttle_conn(adjust)
    PROVE  IInv'
<1> USE CallbackNames
<1>1. /\ callbacks' \in Seq(Callback)
      /\ \A ic \in Callback : Queued(callbacks, ic) => Queued(callbacks', ic)
  BY UnfrozenFacts DEF IInv, Types, ssh_throttle_conn, ssh_check_frozen
<1>2. SocketFrozenExact'
  <2>1. CASE logically_frozen # (conn_throttle_count' > 0)
    BY <2>1 DEF ssh_throttle_conn, ssh_check_frozen, Frozen, SocketFrozenExact, in_raw, logically_frozen
  <2>2. CASE logically_frozen = (conn_throttle_count' > 0)
    BY <2>2 DEF IInv, ssh_throttle_conn, SocketFrozenExact, in_raw, logically_frozen
  <2> QED BY <2>1, <2>2
<1>3. Types' /\ PacketsNeverStranded' /\ OutputNeverStranded' /\ ThrottleFollowsBacklog'
  BY <1>1 DEF IInv, Types, ssh_throttle_conn, PacketsNeverStranded, OutputNeverStranded,
              ThrottleFollowsBacklog
<1> QED BY <1>2, <1>3 DEF IInv

\* New output is announced by its callback.
LEMMA HandleOutputKeeps == IInv /\ ssh2_bpp_handle_output => IInv'
<1> SUFFICES ASSUME IInv, ssh2_bpp_handle_output PROVE IInv'
  OBVIOUS
<1> USE CallbackNames
<1>1. /\ callbacks' \in Seq(Callback)
      /\ Queued(callbacks', "ic_out_raw")
      /\ \A ic \in Callback : Queued(callbacks, ic) => Queued(callbacks', ic)
  BY QueueFacts DEF IInv, Types, ssh2_bpp_handle_output
<1> QED BY <1>1 DEF IInv, Types, ssh2_bpp_handle_output, SocketFrozenExact, in_raw,
                logically_frozen, PacketsNeverStranded, OutputNeverStranded, ThrottleFollowsBacklog

\* The local close queues the output callback and removes the layers.
LEMMA InitiateCloseKeeps == IInv /\ ssh_initiate_connection_close => IInv'
<1> SUFFICES ASSUME IInv, ssh_initiate_connection_close PROVE IInv'
  OBVIOUS
<1> USE CallbackNames
<1>1. Delete(callbacks, "ic_process_queue") \in Seq(Callback)
  BY DeleteFacts DEF IInv, Types
<1>2. callbacks' \in Seq(Callback) /\ Queued(callbacks', "ic_out_raw")
  BY <1>1, QueueFacts DEF ssh_initiate_connection_close
<1>3. out_raw' \in Nat
  BY DEF IInv, Types, ssh_initiate_connection_close
<1>4. throttled_all' \in BOOLEAN /\ open' \in BOOLEAN /\ pending_close' \in BOOLEAN
  BY Zenon DEF IInv, Types, ssh_initiate_connection_close
<1>5. Types'
  BY <1>2, <1>3, <1>4 DEF IInv, Types, ssh_initiate_connection_close
<1> QED BY <1>2, <1>5 DEF IInv, ssh_initiate_connection_close, SocketFrozenExact, in_raw,
                logically_frozen, PacketsNeverStranded, OutputNeverStranded, ThrottleFollowsBacklog

\* A blocked write leaves more than MaxBacklog with the socket, and throttles.
LEMMA OutputBlockedKeeps == IInv /\ OutputBlocked => IInv'
<1> SUFFICES ASSUME IInv, OutputBlocked PROVE IInv'
  OBVIOUS
<1> USE CallbackNames, ParamAssumption
<1>1. /\ callbacks' \in Seq(Callback)
      /\ Queued(callbacks, "ic_process_queue") => Queued(callbacks', "ic_process_queue")
  BY TailFacts DEF IInv, Types, OutputBlocked, Running
<1>2. out_raw' \in Nat /\ output_data' \in Nat /\ output_data' > MaxBacklog
  BY DEF IInv, Types, OutputBlocked, Backlogs
<1>3. throttled_all' = TRUE
  BY DEF OutputBlocked, ssh_throttle_all
<1>4. open' \in BOOLEAN /\ pending_close' \in BOOLEAN
  BY Zenon DEF IInv, Types, OutputBlocked
<1>5. Types'
  BY <1>1, <1>2, <1>3, <1>4 DEF IInv, Types, OutputBlocked
<1> QED BY <1>1, <1>2, <1>3, <1>5 DEF IInv, OutputBlocked, SocketFrozenExact, in_raw,
                logically_frozen, PacketsNeverStranded, OutputNeverStranded, ThrottleFollowsBacklog

\* A complete write leaves nothing in out_raw; a throttled socket is not
\* writable, so its backlog has not shrunk.
LEMMA OutputWrittenKeeps == IInv /\ OutputWritten => IInv'
<1> SUFFICES ASSUME IInv, OutputWritten PROVE IInv'
  OBVIOUS
<1> USE CallbackNames, ParamAssumption
<1> DEFINE t == Tail(callbacks)
<1>1. /\ t \in Seq(Callback)
      /\ Queued(callbacks, "ic_process_queue") => Queued(t, "ic_process_queue")
  BY TailFacts DEF IInv, Types, OutputWritten, Running
<1>2. /\ callbacks' \in Seq(Callback)
      /\ Queued(t, "ic_process_queue") => Queued(callbacks', "ic_process_queue")
  BY <1>1, UnfrozenFacts DEF OutputWritten, ssh_check_frozen
<1> HIDE DEF t
<1>3. PICK backlog \in Backlogs(out_raw) :
         /\ out_raw > 0 => backlog <= MaxBacklog
         /\ out_raw' = 0
         /\ output_data' = IF pending_close THEN 0 ELSE backlog
  BY DEF OutputWritten
<1>4. backlog \in Nat /\ (out_raw = 0 => backlog = output_data)
  BY DEF IInv, Types, Backlogs
<1>5. throttled_all' \in BOOLEAN /\ open' \in BOOLEAN /\ pending_close' \in BOOLEAN
  BY Zenon DEF IInv, Types, OutputWritten
<1>6. Types'
  BY <1>2, <1>3, <1>4, <1>5 DEF IInv, Types, OutputWritten
<1>7. SocketFrozenExact'
  BY DEF OutputWritten, ssh_check_frozen, Frozen, SocketFrozenExact, in_raw, logically_frozen
<1>8. PacketsNeverStranded'
  BY <1>1, <1>2 DEF IInv, OutputWritten, PacketsNeverStranded
<1>9. OutputNeverStranded'
  BY <1>3 DEF OutputNeverStranded
<1>10. ThrottleFollowsBacklog'
  <2>1. SUFFICES ASSUME open', fault' = "none", ~pending_close
                 PROVE  /\ backlog > MaxBacklog => throttled_all
                        /\ throttled_all => backlog >= MaxBacklog
    BY <1>3 DEF OutputWritten, ThrottleFollowsBacklog
  <2>2. /\ output_data > MaxBacklog => throttled_all
        /\ throttled_all => output_data >= MaxBacklog
    BY <2>1 DEF IInv, OutputWritten, ThrottleFollowsBacklog
  <2>3. output_data >= MaxBacklog => backlog >= output_data
    BY <1>4 DEF IInv, Types, Backlogs
  <2> QED BY <1>3, <1>4, <2>2, <2>3 DEF IInv, Types
<1> QED BY <1>6, <1>7, <1>8, <1>9, <1>10 DEF IInv

\* A callback that finds no socket only leaves the queue.
LEMMA OutputTooLateKeeps == IInv /\ OutputTooLate => IInv'
<1> SUFFICES ASSUME IInv, OutputTooLate PROVE IInv'
  OBVIOUS
<1> USE CallbackNames
<1>1. /\ callbacks' \in Seq(Callback)
      /\ Queued(callbacks, "ic_process_queue") => Queued(callbacks', "ic_process_queue")
  BY TailFacts DEF IInv, Types, OutputTooLate, Running
<1> QED BY <1>1 DEF IInv, Types, OutputTooLate, SocketFrozenExact, PacketsNeverStranded,
                OutputNeverStranded, ThrottleFollowsBacklog

\* ssh_sent resumes output once less than MaxBacklog is left.
LEMMA SentKeeps == IInv /\ fault = "none" /\ ssh_sent => IInv'
<1> SUFFICES ASSUME IInv, fault = "none", ssh_sent PROVE IInv'
  OBVIOUS
<1> USE CallbackNames, ParamAssumption
<1>1. PICK bufsize \in 0 .. output_data - 1 :
         /\ output_data' = bufsize
         /\ IF bufsize < MaxBacklog
            THEN ssh_throttle_all(FALSE) /\ callbacks' = Queue(callbacks, "ic_out_raw")
            ELSE UNCHANGED <<throttled_all, fault, callbacks>>
  BY DEF ssh_sent, Remaining
<1>2. /\ callbacks' \in Seq(Callback)
      /\ bufsize < MaxBacklog => Queued(callbacks', "ic_out_raw")
      /\ \A ic \in Callback : Queued(callbacks, ic) => Queued(callbacks', ic)
  BY <1>1, QueueFacts DEF IInv, Types
<1>3. output_data' \in Nat /\ output_data' < output_data
  BY <1>1 DEF IInv, Types
<1>4. throttled_all' = IF bufsize < MaxBacklog THEN FALSE ELSE throttled_all
  BY <1>1 DEF ssh_throttle_all
<1>5. throttled_all' \in BOOLEAN
  BY Zenon, <1>4 DEF IInv, Types
<1>6. open' \in BOOLEAN /\ pending_close' \in BOOLEAN
  BY Zenon DEF IInv, Types, ssh_sent, Remaining
<1>7. Types'
  BY <1>2, <1>3, <1>5, <1>6 DEF IInv, Types, ssh_sent, Remaining
<1>8. SocketFrozenExact' /\ PacketsNeverStranded'
  BY <1>2 DEF IInv, ssh_sent, Remaining, SocketFrozenExact, in_raw, logically_frozen, PacketsNeverStranded
<1>9. OutputNeverStranded'
  BY <1>1, <1>2, <1>3 DEF OutputNeverStranded
<1>10. ThrottleFollowsBacklog'
  BY <1>1, <1>3, <1>4 DEF IInv, Types, ssh_sent, Remaining, ThrottleFollowsBacklog
<1> QED BY <1>7, <1>8, <1>9, <1>10 DEF IInv

\* The inductive invariant holds of every behaviour of ssh.c's socket handling.
THEOREM SocketInvariant == Spec => []IInv
<1>1. Init => IInv
  <2> SUFFICES ASSUME Init PROVE IInv
    OBVIOUS
  <2>1. callbacks \in Seq(Callback) /\ in_pq \in Seq(Kinds) /\ in_pq = <<>>
    BY CallbackNames DEF Init
  <2>2. Types
    BY <2>1 DEF Init, Types
  <2>3. (logically_frozen \/ in_raw > MaxBacklog) = FALSE
    BY ParamAssumption DEF Init, in_raw, logically_frozen
  <2>4. SocketFrozenExact
    BY <2>3 DEF Init, SocketFrozenExact
  <2>5. PacketsNeverStranded /\ OutputNeverStranded /\ ThrottleFollowsBacklog
    BY ParamAssumption DEF Init, PacketsNeverStranded, OutputNeverStranded, ThrottleFollowsBacklog
  <2> QED BY <2>2, <2>4, <2>5 DEF IInv
<1>2. IInv /\ [Next]_vars => IInv'
  <2> SUFFICES ASSUME IInv, [Next]_vars PROVE IInv'
    OBVIOUS
  <2>1. CASE UNCHANGED vars
    BY <2>1 DEF IInv, vars, Types, SocketFrozenExact, in_raw, logically_frozen,
             PacketsNeverStranded, OutputNeverStranded, ThrottleFollowsBacklog
  <2>2. CASE ssh_receive
    BY <2>2, ReceiveKeeps
  <2>3. CASE ssh_closing
    BY <2>3, ClosingKeeps
  <2>4. CASE ssh_remote_error
    BY <2>4, ShutdownKeeps DEF ssh_remote_error, IInv, Types
  <2>5. CASE RunCallback
    BY <2>5, InputCallbackKeeps, ProcessQueueKeeps, OutputBlockedKeeps, OutputWrittenKeeps,
       OutputTooLateKeeps DEF RunCallback
  <2>6. CASE \E adjust \in {-1, 1} : ssh_throttle_conn(adjust)
    BY <2>6, ThrottleConnKeeps
  <2>7. CASE ssh2_bpp_handle_output
    BY <2>7, HandleOutputKeeps
  <2>8. CASE ssh_initiate_connection_close
    BY <2>8, InitiateCloseKeeps
  <2>9. CASE ssh_sent /\ fault = "none"
    BY <2>9, SentKeeps
  <2> QED BY <2>1, <2>2, <2>3, <2>4, <2>5, <2>6, <2>7, <2>8, <2>9 DEF Next
<1> QED BY <1>1, <1>2, PTL DEF Spec

\* The socket is frozen exactly while a channel throttles the connection or
\* in_raw holds more than SSH_MAX_BACKLOG.
THEOREM FreezingIsExact == Spec => []SocketFrozenExact
<1>1. IInv => SocketFrozenExact
  BY DEF IInv
<1> QED BY <1>1, SocketInvariant, PTL

\* A packet in in_pq always has its layer's callback queued.
THEOREM PacketsReachLayers == Spec => []PacketsNeverStranded
<1>1. IInv => PacketsNeverStranded
  BY DEF IInv
<1> QED BY <1>1, SocketInvariant, PTL

\* Output always has a callback queued, or a backlog whose end resumes it.
THEOREM OutputIsResumed == Spec => []OutputNeverStranded
<1>1. IInv => OutputNeverStranded
  BY DEF IInv
<1> QED BY <1>1, SocketInvariant, PTL

\* Local input is throttled when, and only when, the socket's backlog is large.
THEOREM ThrottlingIsExact == Spec => []ThrottleFollowsBacklog
<1>1. IInv => ThrottleFollowsBacklog
  BY DEF IInv
<1> QED BY <1>1, SocketInvariant, PTL

\* Both together: nothing is read, and no local input taken, without room.
THEOREM FlowControl == Spec => []FlowControlExact
<1>1. SocketFrozenExact /\ ThrottleFollowsBacklog => FlowControlExact
  BY DEF FlowControlExact
<1> QED BY <1>1, FreezingIsExact, ThrottlingIsExact, PTL

-----------------------------------------------------------------------------
(***************************************************************************)
(* Input is never stranded, whatever the server's stream looks like. What  *)
(* ssh2_bpp_handle_input can reach from where it stopped is nothing unless *)
(* it stopped at NEWKEYS, and then it waits for the new keys.              *)
(***************************************************************************)

\* The inductive invariant of the input side.
StreamInv ==
    /\ TypeOK
    /\ conn_throttle_count <= throttles
    /\ InputNeverStranded

\* The positions of the packets in the stream.
LEMMA EndIs ==
    /\ Len(Packets) \in Nat /\ DOMAIN Packets = 1 .. Len(Packets)
    /\ \A i \in 1 .. Len(Packets) : Packets[i].len \in Nat \ {0} /\ Packets[i].kind \in {"data", "newkeys"}
    /\ End \in [0 .. Len(Packets) -> Nat]
    /\ End[0] = 0
    /\ \A i \in 1 .. Len(Packets) : End[i] = End[i - 1] + Packets[i].len
<1> DEFINE n == Len(Packets)
           lens == [i \in 1 .. n |-> Packets[i].len]
           Def(g) == [i \in 0 .. n |-> IF i = 0 THEN 0 ELSE g[i - 1] + Packets[i].len]
<1>1. n \in Nat /\ DOMAIN Packets = 1 .. n
  BY ParamAssumption
<1>2. \A i \in 1 .. n : Packets[i] \in [len : Nat \ {0}, kind : {"data", "newkeys"}]
  <2> DEFINE P == [len : Nat \ {0}, kind : {"data", "newkeys"}]
  <2>1. Packets \in Seq(P)
    BY ParamAssumption
  <2> HIDE DEF P
  <2>2. \A i \in 1 .. n : Packets[i] \in P
    BY <2>1
  <2> QED BY <2>2 DEF P
<1>3. \A i \in 1 .. n : Packets[i].len \in Nat \ {0} /\ Packets[i].kind \in {"data", "newkeys"}
  BY <1>2
<1>4. lens \in [1 .. n -> Int] /\ lens \in [1 .. n -> Nat]
  BY <1>3
<1>5. PICK f : Sums(f, n, lens)
  BY <1>1, <1>4, SumsExist
<1>6. f = Def(f)
  <2>1. \A i \in 1 .. n : lens[i] = Packets[i].len
    OBVIOUS
  <2> HIDE DEF lens
  <2> QED BY <1>1, <1>5, <2>1 DEF Sums
<1>7. End = Def(End)
  <2>1. End = CHOOSE g : g = Def(g)
    BY DEF End
  <2> HIDE DEF Def
  <2> QED BY <1>6, <2>1
<1>8. Sums(End, n, lens)
  <2> DEFINE S == {i \in Nat : i <= n => End[i] = f[i]}
  <2>1. 0 \in S
    BY <1>1, <1>5, <1>7 DEF Sums
  <2>2. ASSUME NEW i \in S PROVE i + 1 \in S
    <3>1. CASE i + 1 <= n
      <4>1. i + 1 \in 1 .. n /\ i + 1 \in 0 .. n /\ (i + 1) - 1 = i /\ i + 1 # 0
        BY <1>1, <3>1
      <4>2. End[i + 1] = End[i] + Packets[i + 1].len
        BY <1>7, <4>1
      <4>3. f[i + 1] = f[i] + lens[i + 1] /\ lens[i + 1] = Packets[i + 1].len
        BY <1>5, <4>1 DEF Sums
      <4> QED BY <1>1, <3>1, <4>2, <4>3
    <3>2. CASE ~(i + 1 <= n)
      BY <3>2
    <3> QED BY <3>1, <3>2
  <2> HIDE DEF S
  <2>3. S = Nat
    <3>1. S \in SUBSET Nat
      BY DEF S
    <3> QED BY <2>1, <2>2, <3>1, NatSetInduction
  <2>4. \A i \in 0 .. n : End[i] = f[i]
    BY <1>1, <2>3 DEF S
  <2>5. End = [i \in 0 .. n |-> End[i]] /\ f = [i \in 0 .. n |-> f[i]]
    BY <1>5, <1>7 DEF Sums
  <2>6. End = f
    BY <2>4, <2>5
  <2> QED BY <1>5, <2>6
<1>9. \A i \in 0 .. n : End[i] \in Nat
  <2> HIDE DEF lens, n
  <2> QED BY <1>1, <1>4, <1>8, SumsNat
<1>10. \A i \in 1 .. n : End[i] = End[i - 1] + Packets[i].len
  BY <1>8 DEF Sums
<1>11. End \in [0 .. n -> Nat] /\ End[0] = 0
  <2>1. End \in [0 .. n -> Int] /\ End[0] = 0
    BY <1>8 DEF Sums
  <2> QED BY <1>9, <2>1
<1> QED BY <1>1, <1>3, <1>10, <1>11

\* Every packet ends after the one before it.
LEMMA EndsIncrease ==
    \A i, j \in 0 .. Len(Packets) : i < j => End[i] < End[j]
<1> DEFINE n == Len(Packets)
           S == {k \in Nat : \A i \in 0 .. n : i + k + 1 <= n => End[i] < End[i + k + 1]}
<1>1. n \in Nat
  BY EndIs
<1>2. \A i \in 1 .. n : End[i - 1] < End[i] /\ End[i - 1] \in Nat /\ End[i] \in Nat
  BY EndIs
<1>3. 0 \in S
  <2>1. ASSUME NEW i \in 0 .. n, i + 0 + 1 <= n PROVE End[i] < End[i + 0 + 1]
    <3>1. i + 1 \in 1 .. n /\ (i + 1) - 1 = i /\ i + 0 + 1 = i + 1
      BY <1>1, <2>1
    <3> QED BY <1>2, <3>1
  <2> QED BY <2>1
<1>4. ASSUME NEW k \in S PROVE k + 1 \in S
  <2>1. ASSUME NEW i \in 0 .. n, i + (k + 1) + 1 <= n PROVE End[i] < End[i + (k + 1) + 1]
    <3>1. k \in Nat /\ i + k + 1 <= n /\ i + k + 1 \in 0 .. n
      BY <1>1, <2>1
    <3>2. End[i] < End[i + k + 1]
      BY <3>1
    <3>3. i + (k + 1) + 1 \in 1 .. n /\ (i + (k + 1) + 1) - 1 = i + k + 1
      BY <1>1, <2>1, <3>1
    <3>4. End[i + k + 1] < End[i + (k + 1) + 1]
          /\ End[i + k + 1] \in Nat /\ End[i + (k + 1) + 1] \in Nat
      BY <1>2, <3>3
    <3>5. End[i] \in Nat
      BY EndIs
    <3> QED BY <3>2, <3>4, <3>5
  <2> QED BY <2>1
<1> HIDE DEF S
<1>5. S = Nat
  <2>1. S \in SUBSET Nat
    BY DEF S
  <2> QED BY <1>3, <1>4, <2>1, NatSetInduction
<1>6. ASSUME NEW i \in 0 .. n, NEW j \in 0 .. n, i < j PROVE End[i] < End[j]
  <2>1. j - i - 1 \in Nat /\ i + (j - i - 1) + 1 = j
    BY <1>1, <1>6
  <2>2. j - i - 1 \in S
    BY <1>5, <2>1
  <2> QED BY <1>1, <2>1, <2>2 DEF S
<1> QED BY <1>6

\* The packets that are complete somewhere.
LEMMA CompleteFacts ==
    /\ \A p : Complete(p) \in 0 .. Len(Packets)
    /\ \A j \in 0 .. Len(Packets) : Complete(End[j]) = j
<1> DEFINE n == Len(Packets)
           Done(p) == {j \in DOMAIN Packets : End[j] <= p}
<1>1. n \in Nat /\ DOMAIN Packets = 1 .. n
  BY EndIs
<1>2. IsFiniteSet(1 .. n) /\ Cardinality(1 .. n) = n
  <2>1. IsFiniteSet(1 .. n) /\ Cardinality(1 .. n) = IF 1 > n THEN 0 ELSE n - 1 + 1
    BY <1>1, FS_Interval
  <2> HIDE DEF n
  <2> QED BY <1>1, <2>1
<1>3. ASSUME NEW p PROVE Complete(p) \in 0 .. n
  <2>1. Done(p) \subseteq 1 .. n
    BY <1>1
  <2>2. Cardinality(Done(p)) <= n /\ IsFiniteSet(Done(p))
    <3> HIDE DEF Done
    <3> QED BY <1>2, <2>1, FS_Subset
  <2>3. Cardinality(Done(p)) \in Nat
    BY <2>2, FS_CardinalityType
  <2>4. Complete(p) = Cardinality(Done(p))
    BY DEF Complete
  <2> QED BY <1>1, <2>2, <2>3, <2>4
<1>4. ASSUME NEW j \in 0 .. n PROVE Complete(End[j]) = j
  <2>1. \A i \in 0 .. n : End[i] \in Nat
    BY EndIs
  <2>2. Done(End[j]) = 1 .. j
    <3>1. ASSUME NEW i \in 1 .. n PROVE End[i] <= End[j] <=> i <= j
      <4>1. i \in 0 .. n
        BY <1>1
      <4>2. (i < j => End[i] < End[j]) /\ (j < i => End[j] < End[i])
        BY <4>1, EndsIncrease
      <4> QED BY <1>1, <2>1, <4>1, <4>2
    <3> QED BY <1>1, <3>1
  <2>3. Cardinality(1 .. j) = j
    BY <1>1, FS_Interval
  <2> QED BY <2>2, <2>3 DEF Complete
<1> QED BY <1>3, <1>4

\* How far the BPP gets from position c with r units received, while it is not
\* waiting for new keys.
ReachIn(c, r) == {p \in ReadPoints \cup {c} :
                      /\ c <= p /\ p <= r
                      /\ \A j \in DOMAIN Packets :
                             Packets[j].kind = "newkeys" /\ c < End[j] => p <= End[j]}

Greatest(c, r) == CHOOSE p \in ReachIn(c, r) : \A q \in ReachIn(c, r) : q <= p

\* Furthest in these terms.
LEMMA FurthestIs ==
    /\ Furthest = IF reader = "reading" THEN Greatest(consumed, received) ELSE consumed
    /\ Furthest' = IF reader' = "reading" THEN Greatest(consumed', received') ELSE consumed'
BY DEF Furthest, Greatest, Reachable, ReachIn

\* There is a furthest point.
LEMMA GreatestFacts ==
    ASSUME NEW c \in Int, NEW r \in Int, c <= r
    PROVE  /\ Greatest(c, r) \in ReachIn(c, r)
           /\ \A q \in ReachIn(c, r) : q <= Greatest(c, r)
           /\ Greatest(c, r) \in Int /\ c <= Greatest(c, r) /\ Greatest(c, r) <= r
<1>1. \A p \in ReadPoints : p \in Int
  <2>1. \A i \in DOMAIN Packets : i \in 0 .. Len(Packets) /\ i - 1 \in 0 .. Len(Packets)
    BY EndIs
  <2>2. \A i \in DOMAIN Packets : End[i] \in Int /\ End[i - 1] + 1 \in Int
    BY <2>1, EndIs
  <2> QED BY <2>2 DEF ReadPoints
<1>2. c \in ReachIn(c, r)
  <2>1. \A j \in DOMAIN Packets : c < End[j] => c <= End[j]
    BY EndIs
  <2> QED BY <2>1 DEF ReachIn
<1>3. ReachIn(c, r) \in SUBSET Int /\ \A p \in ReachIn(c, r) : c <= p /\ p <= r
  BY <1>1 DEF ReachIn
<1>4. \E p \in ReachIn(c, r) : \A q \in ReachIn(c, r) : q <= p
  BY <1>2, <1>3, GreatestInt
<1>5. Greatest(c, r) \in ReachIn(c, r) /\ \A q \in ReachIn(c, r) : q <= Greatest(c, r)
  BY <1>4 DEF Greatest
<1> QED BY <1>3, <1>5

\* From the furthest point there is nothing further, unless it is the end of a
\* NEWKEYS packet that was not complete before.
LEMMA NoFurther ==
    ASSUME NEW c \in Int, NEW r \in Int, c <= r,
           Greatest(Greatest(c, r), r) # Greatest(c, r)
    PROVE  /\ Complete(c) < Complete(Greatest(c, r))
           /\ Packets[Complete(Greatest(c, r))].kind = "newkeys"
<1> DEFINE f == Greatest(c, r)
           q == Greatest(f, r)
<1>1. f \in ReachIn(c, r) /\ f \in Int /\ c <= f /\ f <= r /\ \A p \in ReachIn(c, r) : p <= f
  BY GreatestFacts
<1> HIDE DEF f
<1>2. q \in ReachIn(f, r) /\ q \in Int /\ f <= q /\ q <= r
  BY <1>1, GreatestFacts
<1>3. q # f
  BY DEF f
<1> HIDE DEF q
<1>4. q \in ReadPoints /\ f < q
  BY <1>1, <1>2, <1>3 DEF ReachIn
<1>5. q \notin ReachIn(c, r)
  BY <1>1, <1>2, <1>4
<1>6. c <= q
  BY <1>1, <1>2
<1>7. PICK j \in DOMAIN Packets : Packets[j].kind = "newkeys" /\ c < End[j] /\ ~(q <= End[j])
  BY <1>2, <1>4, <1>5, <1>6 DEF ReachIn
<1>8. j \in 1 .. Len(Packets) /\ End[j] \in Nat
  BY EndIs
<1>9. ~(f < End[j])
  BY <1>2, <1>7 DEF ReachIn
<1>10. f <= End[j]
  BY <1>1, <1>7 DEF ReachIn
<1>11. f = End[j]
  BY <1>1, <1>8, <1>9, <1>10
<1>12. Complete(f) = j
  BY <1>8, <1>11, CompleteFacts
<1>13. Complete(c) < j
  <2> DEFINE Done == {i \in DOMAIN Packets : End[i] <= c}
  <2>1. ASSUME NEW i \in Done PROVE i \in 1 .. j - 1
    <3>1. i \in 1 .. Len(Packets) /\ End[i] <= c
      BY EndIs
    <3>2. End[i] \in Nat /\ i \in 0 .. Len(Packets) /\ j \in 0 .. Len(Packets)
      BY <1>8, <3>1, EndIs
    <3>3. ~(i = j) /\ ~(j < i)
      BY <1>7, <1>8, <3>1, <3>2, EndsIncrease
    <3> QED BY <1>8, <3>1, <3>3
  <2> HIDE DEF Done
  <2>2. Done \subseteq 1 .. j - 1
    BY <2>1
  <2>3. IsFiniteSet(1 .. j - 1) /\ Cardinality(1 .. j - 1) = j - 1
    <3>1. IsFiniteSet(1 .. j - 1)
          /\ Cardinality(1 .. j - 1) = IF 1 > j - 1 THEN 0 ELSE (j - 1) - 1 + 1
      <4>1. j - 1 \in Int /\ 1 \in Int
        BY <1>8
      <4> HIDE DEF Done
      <4> QED BY <4>1, FS_Interval
    <3> QED BY <1>8, <3>1
  <2>4. Cardinality(Done) <= j - 1 /\ IsFiniteSet(Done)
    BY <2>2, <2>3, FS_Subset
  <2>5. Cardinality(Done) \in Nat
    BY <2>4, FS_CardinalityType
  <2>6. Complete(c) = Cardinality(Done)
    BY DEF Complete, Done
  <2> QED BY <1>8, <2>4, <2>5, <2>6
<1> QED BY <1>7, <1>12, <1>13 DEF f

\* The packets the BPP completes, in terms of their numbers.
LEMMA NewPacketsAre ==
    LET a == Complete(consumed)
        b == Complete(Furthest)
    IN  /\ NewPackets \in Seq({"data", "newkeys"})
        /\ a < b => NewPackets # <<>> /\ NewPackets[Len(NewPackets)] = Packets[b].kind
<1> DEFINE a == Complete(consumed)
           b == Complete(Furthest)
           n == Len(Packets)
<1>1. a \in 0 .. n /\ b \in 0 .. n /\ n \in Nat
  BY CompleteFacts, EndIs
<1>2. NewPackets = [i \in 1 .. b - a |-> Packets[a + i].kind]
  BY DEF NewPackets
<1>3. \A i \in 1 .. n : Packets[i].kind \in {"data", "newkeys"}
  BY EndIs
<1> HIDE DEF a, b, n
<1>4. \A i \in 1 .. b - a : a + i \in 1 .. n
  BY <1>1
<1>5. CASE a < b
  <2>1. b - a \in Nat /\ b - a \in 1 .. b - a /\ a + (b - a) = b
    BY <1>1, <1>5
  <2>2. [i \in 1 .. b - a |-> Packets[a + i].kind] \in [1 .. b - a -> {"data", "newkeys"}]
    BY <1>3, <1>4
  <2>3. NewPackets \in Seq({"data", "newkeys"}) /\ Len(NewPackets) = b - a
    BY <1>2, <2>1, <2>2
  <2>4. NewPackets[b - a] = Packets[b].kind
    BY <1>2, <2>1
  <2>5. NewPackets # <<>>
    BY <2>1, <2>3
  <2> QED BY <2>3, <2>4, <2>5 DEF a, b
<1>6. CASE ~(a < b)
  <2>1. 1 .. b - a = {}
    BY <1>1, <1>6
  <2>2. NewPackets = << >>
    BY <1>2, <2>1
  <2> QED BY <1>6, <2>2 DEF a, b
<1> QED BY <1>5, <1>6

\* What ssh2_bpp_handle_input leaves it could not have taken.
LEMMA NothingLeft ==
    ASSUME consumed \in Int, received \in Int, consumed <= received,
           consumed' = Furthest, received' = received, reader' = NextReader
    PROVE  Furthest' = consumed'
<1>1. CASE reader' # "reading"
  BY <1>1, FurthestIs
<1>2. CASE reader' = "reading"
  <2>1. reader = "reading" /\ ~(NewPackets # <<>> /\ NewPackets[Len(NewPackets)] = "newkeys")
    BY <1>2 DEF NextReader
  <2>2. Furthest = Greatest(consumed, received) /\ Furthest' = Greatest(Furthest, received)
    BY <1>2, <2>1, FurthestIs
  <2>3. ASSUME Furthest' # Furthest PROVE FALSE
    <3>1. Complete(consumed) < Complete(Furthest) /\ Packets[Complete(Furthest)].kind = "newkeys"
      BY <2>2, <2>3, NoFurther
    <3> QED BY <2>1, <3>1, NewPacketsAre
  <2> QED BY <2>3
<1> QED BY <1>1, <1>2

\* The types that IInv does not have.
StreamTypes ==
    /\ received \in 0 .. StreamLength
    /\ consumed \in 0 .. received
    /\ reader \in {"reading", "newkeys", "eof"}
    /\ in_pq \in Seq({"data", "newkeys"})
    /\ input_eof \in BOOLEAN
    /\ conn_throttle_count \in 0 .. MaxThrottles
    /\ socket_frozen \in BOOLEAN
    /\ layers \in BOOLEAN
    /\ fault \in {"none", "freed_layer", "null_layer"}
    /\ produced \in 0 .. MaxOutput
    /\ throttles \in 0 .. MaxThrottles

\* Together they are all.
LEMMA TypesMeet ==
    /\ TypeOK => StreamTypes
    /\ IInv' /\ StreamTypes' => TypeOK'
BY Zenon DEF TypeOK, StreamTypes, IInv, Types

\* The numbers among them.
LEMMA StreamNumbers ==
    ASSUME StreamTypes
    PROVE  /\ StreamLength \in Nat
           /\ received \in Nat /\ received <= StreamLength
           /\ consumed \in Nat /\ consumed <= received
           /\ Furthest \in Nat /\ consumed <= Furthest /\ Furthest <= received
<1>1. StreamLength \in Nat
  BY EndIs DEF StreamLength
<1>2. /\ received \in Nat /\ received <= StreamLength
      /\ consumed \in Nat /\ consumed <= received
  BY <1>1 DEF StreamTypes
<1>3. Furthest = consumed \/ Furthest = Greatest(consumed, received)
  BY FurthestIs
<1>4. /\ Greatest(consumed, received) \in Int
      /\ consumed <= Greatest(consumed, received) /\ Greatest(consumed, received) <= received
  BY <1>2, GreatestFacts
<1> QED BY <1>1, <1>2, <1>3, <1>4

\* ssh_check_frozen decides one way or the other.
LEMMA FrozenType ==
    ASSUME socket_frozen \in BOOLEAN, NEW count, NEW raw
    PROVE  Frozen(count, raw) \in BOOLEAN
<1>1. (count > 0 \/ raw > MaxBacklog) \in BOOLEAN
  BY Zenon
<1> QED BY <1>1, Zenon DEF Frozen

\* A step that reads nothing, takes nothing and does not restart the BPP only
\* has to keep the callback.
LEMMA QuietKeeps ==
    ASSUME InputNeverStranded, UNCHANGED <<received, consumed, reader>>,
           open' => open, Queued(callbacks, "ic_in_raw") => Queued(callbacks', "ic_in_raw")
    PROVE  InputNeverStranded'
<1>1. Furthest' = Furthest
  BY FurthestIs
<1> QED BY <1>1 DEF InputNeverStranded

\* Whatever has been read is announced to the BPP: while a channel throttles
\* the connection the socket is frozen, and nothing is read.
LEMMA ReceiveStream ==
    ASSUME IInv, StreamInv, ssh_receive
    PROVE  StreamTypes' /\ conn_throttle_count' <= throttles' /\ InputNeverStranded'
<1> USE CallbackNames
<1>1. PICK n \in 1 .. ReadSize :
         /\ received + n <= StreamLength
         /\ received' = received + n
         /\ ssh_check_frozen(conn_throttle_count, received' - consumed,
                  IF logically_frozen THEN callbacks ELSE Queue(callbacks, "ic_in_raw"))
  BY DEF ssh_receive
<1>2. StreamTypes
  BY TypesMeet DEF StreamInv
<1>3. ~logically_frozen
  BY DEF ssh_receive, Readable, IInv, SocketFrozenExact
<1>4. Queued(callbacks', "ic_in_raw")
  <2>1. callbacks' = Unfrozen(conn_throttle_count, received' - consumed,
                              Queue(callbacks, "ic_in_raw"))
    BY <1>1, <1>3 DEF ssh_check_frozen
  <2>2. Queue(callbacks, "ic_in_raw") \in Seq(Callback)
        /\ Queued(Queue(callbacks, "ic_in_raw"), "ic_in_raw")
    BY QueueFacts DEF IInv, Types
  <2> QED BY <2>1, <2>2, UnfrozenFacts
<1>5. received' \in 0 .. StreamLength /\ consumed' \in 0 .. received'
  <2>1. ReadSize \in Nat
    BY ParamAssumption
  <2>2. consumed' = consumed
    BY DEF ssh_receive
  <2> QED BY <1>1, <1>2, <2>1, <2>2, StreamNumbers
<1>6. socket_frozen' \in BOOLEAN
  BY <1>1, <1>2, FrozenType DEF ssh_check_frozen, StreamTypes
<1>7. UNCHANGED <<reader, in_pq, input_eof, conn_throttle_count, layers, fault, produced, throttles>>
  BY DEF ssh_receive
<1>8. StreamTypes'
  BY <1>2, <1>5, <1>6, <1>7, Zenon DEF StreamTypes
<1> QED BY <1>4, <1>7, <1>8 DEF InputNeverStranded, StreamInv

\* The end of the session.
LEMMA ShutdownStream ==
    ASSUME StreamInv, NEW q \in Seq(Callback), ssh_shutdown(q)
    PROVE  StreamTypes' /\ conn_throttle_count' <= throttles' /\ InputNeverStranded'
<1>1. StreamTypes
  BY TypesMeet DEF StreamInv
<1>2. /\ layers' = FALSE /\ open' = FALSE /\ reader' = "eof" /\ consumed' = received
      /\ in_pq' = <<>>
      /\ UNCHANGED <<received, input_eof, conn_throttle_count, socket_frozen, fault, produced,
                     throttles>>
  BY DEF ssh_shutdown
<1>3. consumed' \in 0 .. received'
  BY <1>1, <1>2, StreamNumbers
<1>4. in_pq' \in Seq({"data", "newkeys"})
  BY <1>2
<1>5. StreamTypes'
  BY <1>1, <1>2, <1>3, <1>4, Zenon DEF StreamTypes
<1> QED BY <1>2, <1>5 DEF InputNeverStranded, StreamInv

\* The EOF of the socket.
LEMMA ClosingStream ==
    ASSUME IInv, StreamInv, ssh_closing
    PROVE  StreamTypes' /\ conn_throttle_count' <= throttles' /\ InputNeverStranded'
<1>1. StreamTypes
  BY TypesMeet DEF StreamInv
<1>2. /\ input_eof' = TRUE
      /\ callbacks' = Queue(callbacks, "ic_in_raw")
      /\ UNCHANGED <<received, consumed, reader, in_pq, conn_throttle_count, socket_frozen, layers,
                     open, fault, produced, throttles>>
  BY DEF ssh_closing
<1>3. StreamTypes'
  BY <1>1, <1>2, Zenon DEF StreamTypes
<1>4. Queued(callbacks', "ic_in_raw")
  BY <1>2, QueueFacts, CallbackNames DEF IInv, Types
<1>5. InputNeverStranded'
  BY <1>2, <1>4, QuietKeeps DEF StreamInv
<1> QED BY <1>2, <1>3, <1>5 DEF StreamInv

\* The BPP's callback leaves nothing that it could have taken.
LEMMA InputCallbackStream ==
    ASSUME IInv, StreamInv, ssh_bpp_input_raw_data_callback
    PROVE  StreamTypes' /\ conn_throttle_count' <= throttles' /\ InputNeverStranded'
<1> DEFINE t == Tail(callbacks)
<1>1. t \in Seq(Callback)
  BY TailFacts DEF IInv, Types, ssh_bpp_input_raw_data_callback, Running
<1>2. CASE ssh_shutdown(t)
  BY <1>1, <1>2, ShutdownStream
<1>3. CASE ~ssh_shutdown(t)
  <2>1. /\ reader' = NextReader
        /\ consumed' = Furthest
        /\ in_pq' = in_pq \o NewPackets
        /\ socket_frozen' = Frozen(conn_throttle_count, received - Furthest)
        /\ fault' = fault \/ fault' = "freed_layer"
        /\ UNCHANGED <<received, input_eof, conn_throttle_count, layers, open, produced, throttles>>
    BY <1>3 DEF ssh_bpp_input_raw_data_callback
  <2>2. StreamTypes
    BY TypesMeet DEF StreamInv
  <2>3. consumed' \in 0 .. received'
    BY <2>1, <2>2, StreamNumbers
  <2>4. reader' \in {"reading", "newkeys", "eof"}
    BY <2>1, <2>2 DEF NextReader, StreamTypes
  <2>5. in_pq' \in Seq({"data", "newkeys"})
    <3> DEFINE K == {"data", "newkeys"}
    <3>1. in_pq \in Seq(K) /\ NewPackets \in Seq(K)
      BY <2>2, NewPacketsAre DEF StreamTypes
    <3> HIDE DEF K
    <3>2. in_pq' \in Seq(K)
      BY <2>1, <3>1
    <3> QED BY <3>2 DEF K
  <2>6. socket_frozen' \in BOOLEAN
    BY <2>1, <2>2, FrozenType DEF StreamTypes
  <2>7. fault' \in {"none", "freed_layer", "null_layer"}
    BY <2>1, <2>2, Zenon DEF StreamTypes
  <2>8. StreamTypes'
    BY <2>1, <2>2, <2>3, <2>4, <2>5, <2>6, <2>7, Zenon DEF StreamTypes
  <2>9. Furthest' = consumed'
    <3>1. consumed \in Int /\ received \in Int /\ consumed <= received
      BY <2>2, StreamNumbers
    <3> QED BY <2>1, <3>1, NothingLeft
  <2>10. consumed' \in Nat
    BY <2>1, <2>2, StreamNumbers
  <2>11. ~(Furthest' > consumed')
    BY <2>9, <2>10
  <2> QED BY <2>1, <2>8, <2>11 DEF InputNeverStranded, StreamInv
<1> QED BY <1>2, <1>3

\* New keys restart the BPP, with a callback for what has come in meanwhile.
LEMMA ProcessQueueStream ==
    ASSUME IInv, StreamInv, ssh_ppl_process_queue
    PROVE  StreamTypes' /\ conn_throttle_count' <= throttles' /\ InputNeverStranded'
<1> USE CallbackNames
<1>1. StreamTypes
  BY TypesMeet DEF StreamInv
<1>2. /\ in_pq' = <<>>
      /\ UNCHANGED <<received, consumed, input_eof, conn_throttle_count, socket_frozen, layers,
                     open, fault, produced, throttles>>
  BY DEF ssh_ppl_process_queue
<1>3. Tail(callbacks) \in Seq(Callback)
      /\ (Queued(callbacks, "ic_in_raw") => Queued(Tail(callbacks), "ic_in_raw"))
  BY TailFacts DEF IInv, Types, ssh_ppl_process_queue, Running
<1>4. in_pq' \in Seq({"data", "newkeys"})
  BY <1>2
<1>5. CASE reader' = "reading" /\ callbacks' = Queue(Tail(callbacks), "ic_in_raw")
  <2>1. Queued(callbacks', "ic_in_raw")
    BY <1>3, <1>5, QueueFacts
  <2>2. StreamTypes'
    BY <1>1, <1>2, <1>4, <1>5, Zenon DEF StreamTypes
  <2> QED BY <1>2, <2>1, <2>2 DEF InputNeverStranded, StreamInv
<1>6. CASE reader' = reader /\ callbacks' = Tail(callbacks)
  <2>1. InputNeverStranded'
    BY <1>2, <1>3, <1>6, QuietKeeps DEF StreamInv
  <2>2. StreamTypes'
    BY <1>1, <1>2, <1>4, <1>6, Zenon DEF StreamTypes
  <2> QED BY <1>2, <2>1, <2>2 DEF StreamInv
<1> QED BY <1>5, <1>6 DEF ssh_ppl_process_queue, ssh2_bpp_new_incoming_crypto

\* A channel throttles or releases the connection: it releases only what it
\* had throttled.
LEMMA ThrottleConnStream ==
    ASSUME IInv, StreamInv, NEW adjust \in {-1, 1}, ssh_throttle_conn(adjust)
    PROVE  StreamTypes' /\ conn_throttle_count' <= throttles' /\ InputNeverStranded'
<1> USE CallbackNames
<1>1. StreamTypes
  BY TypesMeet DEF StreamInv
<1>2. /\ conn_throttle_count + adjust >= 0
      /\ conn_throttle_count' = conn_throttle_count + adjust
      /\ throttles' = IF adjust > 0 THEN throttles + 1 ELSE throttles
      /\ throttles' <= MaxThrottles
      /\ \/ ssh_check_frozen(conn_throttle_count', in_raw, callbacks)
         \/ UNCHANGED <<socket_frozen, callbacks>>
      /\ UNCHANGED <<received, consumed, reader, in_pq, input_eof, layers, open, fault, produced>>
  BY DEF ssh_throttle_conn
<1>3. /\ conn_throttle_count' <= throttles'
      /\ conn_throttle_count' \in 0 .. MaxThrottles /\ throttles' \in 0 .. MaxThrottles
  <2>1. MaxThrottles \in Nat /\ conn_throttle_count \in Nat /\ throttles \in Nat
        /\ conn_throttle_count <= throttles
    BY <1>1, ParamAssumption DEF StreamTypes, StreamInv
  <2> QED BY <1>2, <2>1
<1>4. socket_frozen' \in BOOLEAN
  BY <1>1, <1>2, FrozenType DEF ssh_check_frozen, StreamTypes
<1>5. StreamTypes'
  BY <1>1, <1>2, <1>3, <1>4, Zenon DEF StreamTypes
<1>6. Queued(callbacks, "ic_in_raw") => Queued(callbacks', "ic_in_raw")
  BY <1>2, UnfrozenFacts DEF ssh_check_frozen, IInv, Types
<1>7. InputNeverStranded'
  BY <1>2, <1>6, QuietKeeps DEF StreamInv
<1> QED BY <1>3, <1>5, <1>7

\* Output and the local close do not touch the input side, nor its callback.
LEMMA OutputStream ==
    ASSUME IInv, StreamInv,
           \/ ssh2_bpp_handle_output \/ ssh_initiate_connection_close
           \/ OutputBlocked \/ OutputWritten \/ OutputTooLate \/ ssh_sent
    PROVE  StreamTypes' /\ conn_throttle_count' <= throttles' /\ InputNeverStranded'
<1> USE CallbackNames
<1>1. StreamTypes
  BY TypesMeet DEF StreamInv
<1>2. UNCHANGED <<received, consumed, reader, in_pq, input_eof, conn_throttle_count, throttles>>
  BY DEF ssh2_bpp_handle_output, ssh_initiate_connection_close, OutputBlocked, OutputWritten,
         OutputTooLate, ssh_sent
<1>3. produced' \in 0 .. MaxOutput
  <2>1. MaxOutput \in Nat /\ produced \in 0 .. MaxOutput
    BY <1>1, ParamAssumption DEF StreamTypes
  <2>2. CASE ssh2_bpp_handle_output
    BY <2>1, <2>2 DEF ssh2_bpp_handle_output
  <2>3. CASE ssh_initiate_connection_close
    <3>1. PICK n \in {0, 1} : produced + n <= MaxOutput /\ produced' = produced + n
      BY <2>3 DEF ssh_initiate_connection_close
    <3> QED BY <2>1, <3>1
  <2>4. CASE OutputBlocked \/ OutputWritten \/ OutputTooLate \/ ssh_sent
    <3>1. produced' = produced
      BY <2>4 DEF OutputBlocked, OutputWritten, OutputTooLate, ssh_sent
    <3> QED BY <2>1, <3>1
  <2> QED BY <2>2, <2>3, <2>4
<1>4. socket_frozen' \in BOOLEAN
  BY <1>1, FrozenType DEF StreamTypes, ssh_check_frozen, ssh2_bpp_handle_output,
      ssh_initiate_connection_close, OutputBlocked, OutputWritten, OutputTooLate, ssh_sent
<1>5. layers' = layers \/ layers' = FALSE
  BY DEF ssh2_bpp_handle_output, ssh_initiate_connection_close, OutputBlocked, OutputWritten,
         OutputTooLate, ssh_sent
<1>6. fault' = fault \/ fault' = "null_layer"
  BY DEF ssh2_bpp_handle_output, ssh_initiate_connection_close, OutputBlocked, OutputWritten,
         OutputTooLate, ssh_sent, ssh_throttle_all
<1>7. open' => open
  BY DEF ssh2_bpp_handle_output, ssh_initiate_connection_close, OutputBlocked, OutputWritten,
         OutputTooLate, ssh_sent
<1>8. StreamTypes'
  <2>1. layers' \in BOOLEAN /\ fault' \in {"none", "freed_layer", "null_layer"}
    BY <1>1, <1>5, <1>6, Zenon DEF StreamTypes
  <2> QED BY <1>1, <1>2, <1>3, <1>4, <2>1, Zenon DEF StreamTypes
<1>9. Queued(callbacks, "ic_in_raw") => Queued(callbacks', "ic_in_raw")
  <2> SUFFICES ASSUME Queued(callbacks, "ic_in_raw") PROVE Queued(callbacks', "ic_in_raw")
    OBVIOUS
  <2>1. callbacks \in Seq(Callback)
    BY DEF IInv, Types
  <2>2. CASE ssh2_bpp_handle_output
    BY <2>1, <2>2, QueueFacts DEF ssh2_bpp_handle_output
  <2>3. CASE ssh_initiate_connection_close
    <3>1. Delete(callbacks, "ic_process_queue") \in Seq(Callback)
          /\ Queued(Delete(callbacks, "ic_process_queue"), "ic_in_raw")
      BY <2>1, DeleteFacts
    <3>2. callbacks' = Queue(Delete(callbacks, "ic_process_queue"), "ic_out_raw")
      BY <2>3 DEF ssh_initiate_connection_close
    <3> QED BY <3>1, <3>2, QueueFacts
  <2>4. CASE OutputBlocked \/ OutputTooLate
    <3>1. callbacks' = Tail(callbacks) /\ callbacks # <<>> /\ Head(callbacks) = "ic_out_raw"
      BY <2>4 DEF OutputBlocked, OutputTooLate, Running
    <3> QED BY <2>1, <3>1, TailFacts
  <2>5. CASE OutputWritten
    <3>1. callbacks # <<>> /\ Head(callbacks) = "ic_out_raw"
      BY <2>5 DEF OutputWritten, Running
    <3>2. Tail(callbacks) \in Seq(Callback) /\ Queued(Tail(callbacks), "ic_in_raw")
      BY <2>1, <3>1, TailFacts
    <3>3. callbacks' = Unfrozen(conn_throttle_count, in_raw, Tail(callbacks))
      BY <2>5 DEF OutputWritten, ssh_check_frozen
    <3> QED BY <3>2, <3>3, UnfrozenFacts
  <2>6. CASE ssh_sent
    <3>1. callbacks' = callbacks \/ callbacks' = Queue(callbacks, "ic_out_raw")
      BY <2>6 DEF ssh_sent
    <3> QED BY <2>1, <3>1, QueueFacts
  <2> QED BY <2>2, <2>3, <2>4, <2>5, <2>6
<1>10. InputNeverStranded'
  BY <1>2, <1>7, <1>9, QuietKeeps DEF StreamInv
<1> QED BY <1>2, <1>8, <1>10 DEF StreamInv

\* Whatever is in a buffer of ssh.c's socket handling has a callback queued, or
\* a report of the socket to come, that moves it on: for every server stream,
\* through freezing and unfreezing, key exchanges and closes from both sides.
THEOREM NothingIsStranded == Spec => []NothingStranded
<1>1. Init => StreamInv
  <2> SUFFICES ASSUME Init PROVE StreamInv
    OBVIOUS
  <2>1. StreamLength \in Nat /\ MaxThrottles \in Nat /\ MaxOutput \in Nat
    BY EndIs, ParamAssumption DEF StreamLength
  <2>2. 0 \in 0 .. StreamLength /\ 0 \in 0 .. 0 /\ 0 \in 0 .. MaxThrottles /\ 0 \in 0 .. MaxOutput
    BY <2>1
  <2>3. <<>> \in Seq({"data", "newkeys"}) /\ 0 \in Nat /\ <<"ic_in_raw">> \in Seq(Callback)
    BY CallbackNames
  <2>4. TypeOK
    BY <2>2, <2>3, Zenon DEF Init, TypeOK
  <2>5. Queued(callbacks, "ic_in_raw")
    BY DEF Init, Queued
  <2> QED BY <2>4, <2>5 DEF Init, StreamInv, InputNeverStranded
<1>2. IInv /\ IInv' /\ StreamInv /\ [Next]_vars => StreamInv'
  <2> SUFFICES ASSUME IInv, IInv', StreamInv, [Next]_vars PROVE StreamInv'
    OBVIOUS
  <2>1. CASE UNCHANGED vars
    <3>1. TypeOK' /\ conn_throttle_count' <= throttles'
      BY <2>1 DEF vars, StreamInv, TypeOK
    <3>2. InputNeverStranded'
      BY <2>1, QuietKeeps DEF vars, StreamInv
    <3> QED BY <3>1, <3>2 DEF StreamInv
  <2>2. CASE Next
    <3>1. StreamTypes' /\ conn_throttle_count' <= throttles' /\ InputNeverStranded'
      <4>1. CASE ssh_receive
        BY <4>1, ReceiveStream
      <4>2. CASE ssh_closing
        BY <4>2, ClosingStream
      <4>3. CASE ssh_remote_error
        BY <4>3, ShutdownStream DEF ssh_remote_error, IInv, Types
      <4>4. CASE ssh_bpp_input_raw_data_callback
        BY <4>4, InputCallbackStream
      <4>5. CASE ssh_ppl_process_queue
        BY <4>5, ProcessQueueStream
      <4>6. CASE \E adjust \in {-1, 1} : ssh_throttle_conn(adjust)
        BY <4>6, ThrottleConnStream
      <4>7. CASE \/ ssh2_bpp_handle_output \/ ssh_initiate_connection_close
                 \/ OutputBlocked \/ OutputWritten \/ OutputTooLate \/ ssh_sent
        BY <4>7, OutputStream
      <4> QED BY <2>2, <4>1, <4>2, <4>3, <4>4, <4>5, <4>6, <4>7 DEF Next, RunCallback
    <3> QED BY <3>1, TypesMeet DEF StreamInv
  <2> QED BY <2>1, <2>2
<1>3. IInv /\ StreamInv => NothingStranded
  BY DEF IInv, StreamInv, NothingStranded
<1> QED BY <1>1, <1>2, <1>3, SocketInvariant, PTL DEF Spec

-----------------------------------------------------------------------------
(* How processes that share a connection find each other (ShareSocket):    *)
(* for any set of processes.                                               *)

\* The instance counts as this module does.
LEMMA CountsAgree ==
    /\ \A S : Sharing!IsFiniteSet(S) <=> IsFiniteSet(S)
    /\ \A S : Sharing!Cardinality(S) = Cardinality(S)
<1>1. \A S : Sharing!IsFiniteSet(S) <=> IsFiniteSet(S)
  BY DEF Sharing!IsFiniteSet, IsFiniteSet
<1>2. \A S : Sharing!Cardinality(S) = Cardinality(S)
  BY Zenon DEF Sharing!Cardinality, Cardinality
<1> QED
  BY <1>1, <1>2

CleaningUp == {"rmsock", "rmlock", "rmdir", "close"}

\* Where a process has the lock, and where it has the lock file open.
HoldsLock == {"connect", "unlink", "bind", "listen"}
LockOpened == HoldsLock \union {"flock"}

\* Whatever happens: salts are never changed, and peers are what they seem.
Meeting ==
    /\ \A p \in Processes : salt[p] # Sharing!None => salt[p] = fs.salt
    /\ \A p \in Processes : pc[p] = "down" <=> peer[p] # Sharing!None
    /\ \A p \in Processes : pc[p] = "down" => pc[peer[p]] \in Sharing!Listening

\* As long as no upstream ends, the directory and the lock file stay: the lock
\* has one holder, and it alone changes the socket, which is the upstream's.
Exclusion ==
    /\ \A p \in Processes : pc[p] \notin CleaningUp
    /\ \A p \in Processes :
           pc[p] \in LockOpened \union {"open", "up"} => fs.dir
    /\ \A p \in Processes : pc[p] \in LockOpened => lockfd[p] = fs.lock /\ fs.lock # 0
    /\ \A p \in Processes : p \in locked <=> pc[p] \in HoldsLock
    /\ \A p, q \in locked : p = q
    /\ \A p \in Processes : pc[p] = "up" => fs.sock = p
    /\ \A p \in Processes : pc[p] \in {"unlink", "bind", "listen"} =>
           p \in CanUpstream /\ \A q \in Processes : pc[q] # "up"
    /\ \A p \in Processes : pc[p] = "bind" => fs.sock = Sharing!None
    /\ \A p \in Processes : pc[p] = "listen" => fs.sock = p
    /\ \A p \in CanUpstream : pc[p] # "alone"

Undisturbed == ~ended /\ CanDownstream = Processes

SharingInv == Sharing!TypeOK /\ Meeting /\ (Undisturbed => Exclusion)

\* There is always an inode that no process has open.
LEMMA InodeIsFree ==
    ASSUME Sharing!ProcessesAssumption, Sharing!TypeOK
    PROVE  /\ Sharing!NewInode \in Sharing!Inodes \ {0}
           /\ \A q \in Processes : lockfd[q] # Sharing!NewInode
<1> DEFINE Taken == {lockfd[q] : q \in Processes}
           n == Cardinality(Processes)
<1>1. IsFiniteSet(Processes) /\ n \in Nat
  BY FS_CardinalityType, CountsAgree DEF Sharing!ProcessesAssumption
<1>2. lockfd \in Surjection(Processes, Taken)
  BY DEF Sharing!TypeOK, Surjection
<1>3. IsFiniteSet(Taken) /\ Cardinality(Taken) <= n
  BY <1>1, <1>2, FS_Surjection
<1>4. IsFiniteSet(Sharing!Inodes) /\ Cardinality(Sharing!Inodes) = n + 1
  <2>1. 1 \in Int /\ n + 1 \in Int /\ ~(1 > n + 1) /\ (n + 1) - 1 + 1 = n + 1
    BY <1>1
  <2> HIDE DEF n
  <2> QED
    BY <2>1, FS_Interval, CountsAgree DEF Sharing!Inodes, n
<1>5. ~(Sharing!Inodes \subseteq Taken)
  <2>1. SUFFICES ASSUME Sharing!Inodes \subseteq Taken PROVE FALSE
    OBVIOUS
  <2>2. Cardinality(Sharing!Inodes) <= Cardinality(Taken)
    BY <1>3, <2>1, FS_Subset
  <2>3. Cardinality(Taken) \in Nat
    BY <1>3, FS_CardinalityType
  <2> HIDE DEF n, Taken
  <2> QED
    BY <1>1, <1>3, <1>4, <2>2, <2>3
<1>6. \E i \in Sharing!Inodes : \A q \in Processes : lockfd[q] # i
  BY <1>5
<1>7. Sharing!NewInode \in Sharing!Inodes /\ \A q \in Processes : lockfd[q] # Sharing!NewInode
  BY <1>6 DEF Sharing!NewInode
<1> QED
  BY <1>1, <1>7 DEF Sharing!Inodes

\* Every step keeps the types.
LEMMA SharingTypes ==
    ASSUME Sharing!ProcessesAssumption, Sharing!TypeOK, Sharing!Next
    PROVE  Sharing!TypeOK'
<1>p. PICK p \in Processes : \/ Sharing!Start(p) \/ Sharing!Share(p) \/ Sharing!Accept(p)
                            \/ Sharing!Leave(p) \/ Sharing!End(p) \/ Sharing!Cleanup(p)
                             \/ Sharing!Crash(p)
  BY DEF Sharing!Next
<1> USE DEF Sharing!locks, Sharing!session, Sharing!None, Sharing!ProcessesAssumption
<1>1. CASE Sharing!Start(p)
  BY <1>1 DEF Sharing!Start, Sharing!Goto, Sharing!TypeOK, Sharing!Listening
<1>2. CASE Sharing!OpenSalt(p)
  BY <1>2 DEF Sharing!OpenSalt, Sharing!Goto, Sharing!TypeOK, Sharing!Listening
<1>3. CASE Sharing!LinkSalt(p)
  BY <1>3 DEF Sharing!LinkSalt, Sharing!Goto, Sharing!TypeOK, Sharing!Listening
<1>4. CASE Sharing!ReadSalt(p)
  BY <1>4 DEF Sharing!ReadSalt, Sharing!Goto, Sharing!TypeOK, Sharing!Listening
<1>5. CASE Sharing!Mkdir(p)
  BY <1>5 DEF Sharing!Mkdir, Sharing!Goto, Sharing!TypeOK, Sharing!Listening
<1>6. CASE Sharing!OpenLock(p)
  BY <1>6, InodeIsFree
  DEF Sharing!OpenLock, Sharing!Goto, Sharing!TypeOK, Sharing!Listening
<1>7. CASE Sharing!Flock(p)
  BY <1>7 DEF Sharing!Flock, Sharing!Goto, Sharing!TypeOK, Sharing!Listening
<1>8. CASE Sharing!Connect(p)
  BY <1>8
  DEF Sharing!Connect, Sharing!Goto, Sharing!Unlock, Sharing!TypeOK,
      Sharing!Listening
<1>9. CASE Sharing!NobodyThere(p)
  BY <1>9
  DEF Sharing!NobodyThere, Sharing!Goto, Sharing!Unlock, Sharing!TypeOK,
      Sharing!Listening
<1>10. CASE Sharing!Unlink(p)
  BY <1>10 DEF Sharing!Unlink, Sharing!Goto, Sharing!TypeOK, Sharing!Listening
<1>11. CASE Sharing!Bind(p)
  BY <1>11 DEF Sharing!Bind, Sharing!Goto, Sharing!TypeOK, Sharing!Listening
<1>12. CASE Sharing!BindFails(p)
  BY <1>12
  DEF Sharing!BindFails, Sharing!Goto, Sharing!Unlock, Sharing!TypeOK,
      Sharing!Listening
<1>13. CASE Sharing!Listen(p)
  BY <1>13
  DEF Sharing!Listen, Sharing!Goto, Sharing!Unlock, Sharing!TypeOK,
      Sharing!Listening
<1>14. CASE Sharing!Accept(p)
  BY <1>14 DEF Sharing!Accept, Sharing!TypeOK, Sharing!Listening
<1>15. CASE Sharing!Leave(p)
  BY <1>15 DEF Sharing!Leave, Sharing!TypeOK, Sharing!Listening
<1>16. CASE Sharing!End(p)
  BY <1>16 DEF Sharing!End, Sharing!Goto, Sharing!TypeOK, Sharing!Listening
<1>17. CASE Sharing!RemoveSocket(p)
  BY <1>17 DEF Sharing!RemoveSocket, Sharing!Goto, Sharing!TypeOK, Sharing!Listening
<1>18. CASE Sharing!RemoveLock(p)
  BY <1>18 DEF Sharing!RemoveLock, Sharing!Goto, Sharing!TypeOK, Sharing!Listening
<1>19. CASE Sharing!RemoveDirectory(p)
  BY <1>19
  DEF Sharing!RemoveDirectory, Sharing!Goto, Sharing!TypeOK, Sharing!Listening
<1>20. CASE Sharing!Close(p)
  BY <1>20 DEF Sharing!Close, Sharing!Gone, Sharing!TypeOK, Sharing!Listening
<1>21. CASE Sharing!Crash(p)
  BY <1>21
  DEF Sharing!Crash, Sharing!Gone, Sharing!Unlock, Sharing!TypeOK, Sharing!Listening
<1> QED
  BY <1>p, <1>1, <1>2, <1>3, <1>4, <1>5, <1>6, <1>7, <1>8, <1>9, <1>10, <1>11,
     <1>12, <1>13, <1>14, <1>15, <1>16, <1>17, <1>18, <1>19, <1>20, <1>21
  DEF Sharing!Share, Sharing!Cleanup

\* Every step keeps the salt and the peers.
LEMMA MeetingStep ==
    ASSUME Sharing!ProcessesAssumption, Sharing!TypeOK, Meeting, Sharing!Next
    PROVE  Meeting'
<1>p. PICK p \in Processes : \/ Sharing!Start(p) \/ Sharing!Share(p) \/ Sharing!Accept(p)
                            \/ Sharing!Leave(p) \/ Sharing!End(p) \/ Sharing!Cleanup(p)
                             \/ Sharing!Crash(p)
  BY DEF Sharing!Next
<1> USE DEF Sharing!locks, Sharing!session, Sharing!None, Sharing!ProcessesAssumption
<1>1. CASE Sharing!Start(p)
  BY <1>1
  DEF Sharing!Start, Sharing!Goto, Meeting, Sharing!TypeOK, Sharing!Listening
<1>2. CASE Sharing!OpenSalt(p)
  BY <1>2
  DEF Sharing!OpenSalt, Sharing!Goto, Meeting, Sharing!TypeOK, Sharing!Listening
<1>3. CASE Sharing!LinkSalt(p)
  BY <1>3
  DEF Sharing!LinkSalt, Sharing!Goto, Meeting, Sharing!TypeOK, Sharing!Listening
<1>4. CASE Sharing!ReadSalt(p)
  BY <1>4
  DEF Sharing!ReadSalt, Sharing!Goto, Meeting, Sharing!TypeOK, Sharing!Listening
<1>5. CASE Sharing!Mkdir(p)
  BY <1>5
  DEF Sharing!Mkdir, Sharing!Goto, Meeting, Sharing!TypeOK, Sharing!Listening
<1>6. CASE Sharing!OpenLock(p)
  BY <1>6, InodeIsFree
  DEF Sharing!OpenLock, Sharing!Goto, Meeting, Sharing!TypeOK, Sharing!Listening
<1>7. CASE Sharing!Flock(p)
  BY <1>7
  DEF Sharing!Flock, Sharing!Goto, Meeting, Sharing!TypeOK, Sharing!Listening
<1>8. CASE Sharing!Connect(p)
  BY <1>8
  DEF Sharing!Connect, Sharing!Goto, Sharing!Unlock, Meeting, Sharing!TypeOK,
      Sharing!Listening
<1>9. CASE Sharing!NobodyThere(p)
  BY <1>9
  DEF Sharing!NobodyThere, Sharing!Goto, Sharing!Unlock, Meeting, Sharing!TypeOK,
      Sharing!Listening
<1>10. CASE Sharing!Unlink(p)
  BY <1>10
  DEF Sharing!Unlink, Sharing!Goto, Meeting, Sharing!TypeOK, Sharing!Listening
<1>11. CASE Sharing!Bind(p)
  BY <1>11
  DEF Sharing!Bind, Sharing!Goto, Meeting, Sharing!TypeOK, Sharing!Listening
<1>12. CASE Sharing!BindFails(p)
  BY <1>12
  DEF Sharing!BindFails, Sharing!Goto, Sharing!Unlock, Meeting, Sharing!TypeOK,
      Sharing!Listening
<1>13. CASE Sharing!Listen(p)
  BY <1>13
  DEF Sharing!Listen, Sharing!Goto, Sharing!Unlock, Meeting, Sharing!TypeOK,
      Sharing!Listening
<1>14. CASE Sharing!Accept(p)
  BY <1>14 DEF Sharing!Accept, Meeting, Sharing!TypeOK, Sharing!Listening
<1>15. CASE Sharing!Leave(p)
  BY <1>15 DEF Sharing!Leave, Meeting, Sharing!TypeOK, Sharing!Listening
<1>16. CASE Sharing!End(p)
  BY <1>16 DEF Sharing!End, Sharing!Goto, Meeting, Sharing!TypeOK, Sharing!Listening
<1>17. CASE Sharing!RemoveSocket(p)
  BY <1>17
  DEF Sharing!RemoveSocket, Sharing!Goto, Meeting, Sharing!TypeOK, Sharing!Listening
<1>18. CASE Sharing!RemoveLock(p)
  BY <1>18
  DEF Sharing!RemoveLock, Sharing!Goto, Meeting, Sharing!TypeOK, Sharing!Listening
<1>19. CASE Sharing!RemoveDirectory(p)
  BY <1>19
  DEF Sharing!RemoveDirectory, Sharing!Goto, Meeting, Sharing!TypeOK,
      Sharing!Listening
<1>20. CASE Sharing!Close(p)
  BY <1>20
  DEF Sharing!Close, Sharing!Gone, Meeting, Sharing!TypeOK, Sharing!Listening
<1>21. CASE Sharing!Crash(p)
  BY <1>21
  DEF Sharing!Crash, Sharing!Gone, Sharing!Unlock, Meeting, Sharing!TypeOK,
      Sharing!Listening
<1> QED
  BY <1>p, <1>1, <1>2, <1>3, <1>4, <1>5, <1>6, <1>7, <1>8, <1>9, <1>10, <1>11,
     <1>12, <1>13, <1>14, <1>15, <1>16, <1>17, <1>18, <1>19, <1>20, <1>21
  DEF Sharing!Share, Sharing!Cleanup

\* What has ended stays so.
LEMMA EndedStays ==
    ASSUME Sharing!TypeOK, Sharing!Next, ended
    PROVE  ended'
BY DEF Sharing!TypeOK, Sharing!Next, Sharing!Start, Sharing!Share, Sharing!Accept,
       Sharing!Leave, Sharing!End, Sharing!Cleanup, Sharing!Crash, Sharing!Goto, Sharing!Gone,
       Sharing!OpenSalt, Sharing!LinkSalt, Sharing!ReadSalt, Sharing!Mkdir, Sharing!OpenLock,
       Sharing!Flock, Sharing!Connect, Sharing!NobodyThere, Sharing!Unlink, Sharing!Bind,
       Sharing!BindFails, Sharing!Listen, Sharing!RemoveSocket, Sharing!RemoveLock,
       Sharing!RemoveDirectory, Sharing!Close

\* Unless a process ends while another starts, every step keeps the lock
\* exclusive and the upstream where it can be found.
LEMMA ExclusionStep ==
    ASSUME Sharing!ProcessesAssumption, Sharing!TypeOK, Meeting, Exclusion, Sharing!Next,
           Undisturbed, Undisturbed'
    PROVE  Exclusion'
<1>p. PICK p \in Processes : \/ Sharing!Start(p) \/ Sharing!Share(p) \/ Sharing!Accept(p)
                            \/ Sharing!Leave(p) \/ Sharing!End(p) \/ Sharing!Cleanup(p)
                             \/ Sharing!Crash(p)
  BY DEF Sharing!Next
<1> USE DEF Sharing!locks, Sharing!session, Sharing!None, Sharing!ProcessesAssumption
<1>1. CASE Sharing!Start(p)
  BY <1>1
  DEF Sharing!Start, Sharing!Goto, Exclusion, Undisturbed, Sharing!TypeOK,
      Sharing!Listening, CleaningUp, HoldsLock, LockOpened
<1>2. CASE Sharing!OpenSalt(p)
  BY <1>2
  DEF Sharing!OpenSalt, Sharing!Goto, Exclusion, Undisturbed, Sharing!TypeOK,
      Sharing!Listening, CleaningUp, HoldsLock, LockOpened
<1>3. CASE Sharing!LinkSalt(p)
  BY <1>3
  DEF Sharing!LinkSalt, Sharing!Goto, Exclusion, Undisturbed, Sharing!TypeOK,
      Sharing!Listening, CleaningUp, HoldsLock, LockOpened
<1>4. CASE Sharing!ReadSalt(p)
  BY <1>4
  DEF Sharing!ReadSalt, Sharing!Goto, Exclusion, Undisturbed, Sharing!TypeOK,
      Sharing!Listening, CleaningUp, HoldsLock, LockOpened
<1>5. CASE Sharing!Mkdir(p)
  BY <1>5
  DEF Sharing!Mkdir, Sharing!Goto, Exclusion, Undisturbed, Sharing!TypeOK,
      Sharing!Listening, CleaningUp, HoldsLock, LockOpened
<1>6. CASE Sharing!OpenLock(p)
  <2>1. (\A q \in Processes : pc[q] \notin CleaningUp)'
    BY <1>6, InodeIsFree
    DEF Sharing!OpenLock, Sharing!Goto, Exclusion, Undisturbed, Sharing!TypeOK,
        Sharing!Listening, CleaningUp, HoldsLock,
        LockOpened
  <2>2. (\A q \in Processes : pc[q] \in LockOpened \union {"open", "up"} => fs.dir)'
    BY <1>6, InodeIsFree
    DEF Sharing!OpenLock, Sharing!Goto, Exclusion, Undisturbed, Sharing!TypeOK,
        Sharing!Listening, CleaningUp, HoldsLock,
        LockOpened
  <2>3. (\A q \in Processes : pc[q] \in LockOpened => lockfd[q] = fs.lock /\ fs.lock # 0)'
    BY <1>6, InodeIsFree
    DEF Sharing!OpenLock, Sharing!Goto, Exclusion, Undisturbed, Sharing!TypeOK,
        Sharing!Listening, CleaningUp, HoldsLock,
        LockOpened
  <2>4. (\A q \in Processes : q \in locked <=> pc[q] \in HoldsLock)'
    BY <1>6, InodeIsFree
    DEF Sharing!OpenLock, Sharing!Goto, Exclusion, Undisturbed, Sharing!TypeOK,
        Sharing!Listening, CleaningUp, HoldsLock,
        LockOpened
  <2>5. (\A r, q \in locked : r = q)'
    BY <1>6, InodeIsFree
    DEF Sharing!OpenLock, Sharing!Goto, Exclusion, Undisturbed, Sharing!TypeOK,
        Sharing!Listening, CleaningUp, HoldsLock,
        LockOpened
  <2>6. (\A q \in Processes : pc[q] = "up" => fs.sock = q)'
    BY <1>6, InodeIsFree
    DEF Sharing!OpenLock, Sharing!Goto, Exclusion, Undisturbed, Sharing!TypeOK,
        Sharing!Listening, CleaningUp, HoldsLock,
        LockOpened
  <2>7. (\A q \in Processes : pc[q] \in {"unlink", "bind", "listen"} =>
            q \in CanUpstream /\ \A r \in Processes : pc[r] # "up")'
    BY <1>6, InodeIsFree
    DEF Sharing!OpenLock, Sharing!Goto, Exclusion, Undisturbed, Sharing!TypeOK,
        Sharing!Listening, CleaningUp, HoldsLock,
        LockOpened
  <2>8. (\A q \in Processes : pc[q] = "bind" => fs.sock = Sharing!None)'
    BY <1>6, InodeIsFree
    DEF Sharing!OpenLock, Sharing!Goto, Exclusion, Undisturbed, Sharing!TypeOK,
        Sharing!Listening, CleaningUp, HoldsLock,
        LockOpened
  <2>9. (\A q \in Processes : pc[q] = "listen" => fs.sock = q)'
    BY <1>6, InodeIsFree
    DEF Sharing!OpenLock, Sharing!Goto, Exclusion, Undisturbed, Sharing!TypeOK,
        Sharing!Listening, CleaningUp, HoldsLock,
        LockOpened
  <2>10. (\A q \in CanUpstream : pc[q] # "alone")'
    BY <1>6, InodeIsFree
    DEF Sharing!OpenLock, Sharing!Goto, Exclusion, Undisturbed, Sharing!TypeOK,
        Sharing!Listening, CleaningUp, HoldsLock,
        LockOpened
  <2> QED
    BY <2>1, <2>2, <2>3, <2>4, <2>5, <2>6, <2>7, <2>8, <2>9, <2>10 DEF Exclusion
<1>7. CASE Sharing!Flock(p)
  BY <1>7
  DEF Sharing!Flock, Sharing!Goto, Exclusion, Undisturbed, Sharing!TypeOK,
      Sharing!Listening, CleaningUp, HoldsLock, LockOpened
<1>8. CASE Sharing!Connect(p)
  BY <1>8
  DEF Sharing!Connect, Sharing!Goto, Sharing!Unlock, Exclusion, Undisturbed,
      Sharing!TypeOK, Sharing!Listening, CleaningUp, HoldsLock,
      LockOpened
<1>9. CASE Sharing!NobodyThere(p)
  BY <1>9
  DEF Sharing!NobodyThere, Sharing!Goto, Sharing!Unlock, Exclusion, Undisturbed,
      Sharing!TypeOK, Sharing!Listening, CleaningUp,
      HoldsLock, LockOpened
<1>10. CASE Sharing!Unlink(p)
  BY <1>10
  DEF Sharing!Unlink, Sharing!Goto, Exclusion, Undisturbed, Sharing!TypeOK,
      Sharing!Listening, CleaningUp, HoldsLock, LockOpened
<1>11. CASE Sharing!Bind(p)
  BY <1>11
  DEF Sharing!Bind, Sharing!Goto, Exclusion, Undisturbed, Sharing!TypeOK,
      Sharing!Listening, CleaningUp, HoldsLock, LockOpened
<1>12. CASE Sharing!BindFails(p)
  BY <1>12
  DEF Sharing!BindFails, Sharing!Goto, Sharing!Unlock, Exclusion, Undisturbed,
      Sharing!TypeOK, Sharing!Listening, CleaningUp,
      HoldsLock, LockOpened
<1>13. CASE Sharing!Listen(p)
  BY <1>13
  DEF Sharing!Listen, Sharing!Goto, Sharing!Unlock, Exclusion, Undisturbed,
      Sharing!TypeOK, Sharing!Listening, CleaningUp, HoldsLock,
      LockOpened
<1>14. CASE Sharing!Accept(p)
  BY <1>14
  DEF Sharing!Accept, Exclusion, Undisturbed, Sharing!TypeOK, Sharing!Listening,
      CleaningUp, HoldsLock, LockOpened
<1>15. CASE Sharing!Leave(p)
  BY <1>15
  DEF Sharing!Leave, Exclusion, Undisturbed, Sharing!TypeOK, Sharing!Listening,
      CleaningUp, HoldsLock, LockOpened
<1>16. CASE Sharing!End(p)
  BY <1>16
  DEF Sharing!End, Sharing!Goto, Exclusion, Undisturbed, Sharing!TypeOK,
      Sharing!Listening, CleaningUp, HoldsLock, LockOpened
<1>17. CASE Sharing!RemoveSocket(p)
  BY <1>17
  DEF Sharing!RemoveSocket, Sharing!Goto, Exclusion, Undisturbed, Sharing!TypeOK,
      Sharing!Listening, CleaningUp, HoldsLock,
      LockOpened
<1>18. CASE Sharing!RemoveLock(p)
  BY <1>18
  DEF Sharing!RemoveLock, Sharing!Goto, Exclusion, Undisturbed, Sharing!TypeOK,
      Sharing!Listening, CleaningUp, HoldsLock,
      LockOpened
<1>19. CASE Sharing!RemoveDirectory(p)
  BY <1>19
  DEF Sharing!RemoveDirectory, Sharing!Goto, Exclusion, Undisturbed, Sharing!TypeOK,
      Sharing!Listening, CleaningUp, HoldsLock,
      LockOpened
<1>20. CASE Sharing!Close(p)
  BY <1>20
  DEF Sharing!Close, Sharing!Gone, Exclusion, Undisturbed, Sharing!TypeOK,
      Sharing!Listening, CleaningUp, HoldsLock, LockOpened
<1>21. CASE Sharing!Crash(p)
  <2>1. (\A q \in Processes : pc[q] \notin CleaningUp)'
    BY <1>21
    DEF Sharing!Crash, Sharing!Gone, Sharing!Unlock, Meeting, Exclusion,
        Undisturbed, Sharing!TypeOK, Sharing!Listening, CleaningUp,
        HoldsLock, LockOpened
  <2>2. (\A q \in Processes : pc[q] \in LockOpened \union {"open", "up"} => fs.dir)'
    BY <1>21
    DEF Sharing!Crash, Sharing!Gone, Sharing!Unlock, Meeting, Exclusion,
        Undisturbed, Sharing!TypeOK, Sharing!Listening, CleaningUp,
        HoldsLock, LockOpened
  <2>3. (\A q \in Processes : pc[q] \in LockOpened => lockfd[q] = fs.lock /\ fs.lock # 0)'
    BY <1>21
    DEF Sharing!Crash, Sharing!Gone, Sharing!Unlock, Meeting, Exclusion,
        Undisturbed, Sharing!TypeOK, Sharing!Listening, CleaningUp,
        HoldsLock, LockOpened
  <2>4. (\A q \in Processes : q \in locked <=> pc[q] \in HoldsLock)'
    BY <1>21
    DEF Sharing!Crash, Sharing!Gone, Sharing!Unlock, Meeting, Exclusion,
        Undisturbed, Sharing!TypeOK, Sharing!Listening, CleaningUp,
        HoldsLock, LockOpened
  <2>5. (\A r, q \in locked : r = q)'
    BY <1>21
    DEF Sharing!Crash, Sharing!Gone, Sharing!Unlock, Meeting, Exclusion,
        Undisturbed, Sharing!TypeOK, Sharing!Listening, CleaningUp,
        HoldsLock, LockOpened
  <2>6. (\A q \in Processes : pc[q] = "up" => fs.sock = q)'
    BY <1>21
    DEF Sharing!Crash, Sharing!Gone, Sharing!Unlock, Meeting, Exclusion,
        Undisturbed, Sharing!TypeOK, Sharing!Listening, CleaningUp,
        HoldsLock, LockOpened
  <2>7. (\A q \in Processes : pc[q] \in {"unlink", "bind", "listen"} =>
            q \in CanUpstream /\ \A r \in Processes : pc[r] # "up")'
    BY <1>21
    DEF Sharing!Crash, Sharing!Gone, Sharing!Unlock, Meeting, Exclusion,
        Undisturbed, Sharing!TypeOK, Sharing!Listening, CleaningUp,
        HoldsLock, LockOpened
  <2>8. (\A q \in Processes : pc[q] = "bind" => fs.sock = Sharing!None)'
    BY <1>21
    DEF Sharing!Crash, Sharing!Gone, Sharing!Unlock, Meeting, Exclusion,
        Undisturbed, Sharing!TypeOK, Sharing!Listening, CleaningUp,
        HoldsLock, LockOpened
  <2>9. (\A q \in Processes : pc[q] = "listen" => fs.sock = q)'
    BY <1>21
    DEF Sharing!Crash, Sharing!Gone, Sharing!Unlock, Meeting, Exclusion,
        Undisturbed, Sharing!TypeOK, Sharing!Listening, CleaningUp,
        HoldsLock, LockOpened
  <2>10. (\A q \in CanUpstream : pc[q] # "alone")'
    BY <1>21
    DEF Sharing!Crash, Sharing!Gone, Sharing!Unlock, Meeting, Exclusion,
        Undisturbed, Sharing!TypeOK, Sharing!Listening, CleaningUp,
        HoldsLock, LockOpened
  <2> QED
    BY <2>1, <2>2, <2>3, <2>4, <2>5, <2>6, <2>7, <2>8, <2>9, <2>10 DEF Exclusion
<1> QED
  BY <1>p, <1>1, <1>2, <1>3, <1>4, <1>5, <1>6, <1>7, <1>8, <1>9, <1>10, <1>11,
     <1>12, <1>13, <1>14, <1>15, <1>16, <1>17, <1>18, <1>19, <1>20, <1>21
  DEF Sharing!Share, Sharing!Cleanup

\* UpstreamFound is what the invariant says.
LEMMA SharingImplies ==
    ASSUME Sharing!ProcessesAssumption, SharingInv
    PROVE  Sharing!UpstreamFound
<1>1. Sharing!SaltsAgree /\ Sharing!PeerListens
  BY DEF SharingInv, Meeting, Sharing!SaltsAgree, Sharing!PeerListens
<1>2. ASSUME Undisturbed
      PROVE  Sharing!OneUpstream /\ Sharing!UpstreamReachable /\ Sharing!SharingWorks
  <2>1. Sharing!UpstreamReachable /\ Sharing!SharingWorks
    BY <1>2
    DEF SharingInv, Exclusion, Sharing!Upstreams, Sharing!UpstreamReachable,
        Sharing!SharingWorks, Sharing!ProcessesAssumption
  <2>2. Sharing!Upstreams = {} \/ \E p \in Processes : Sharing!Upstreams = {p}
    BY <2>1 DEF Sharing!UpstreamReachable, Sharing!Upstreams
  <2>3. Sharing!OneUpstream
    <3>1. Cardinality(Sharing!Upstreams) = 0 \/ Cardinality(Sharing!Upstreams) = 1
      BY <2>2, FS_EmptySet, FS_Singleton
    <3> QED
      BY <3>1, CountsAgree DEF Sharing!OneUpstream
  <2> QED
    BY <2>1, <2>3
<1> QED
  BY <1>1, <1>2 DEF SharingInv, Sharing!UpstreamFound, Undisturbed

\* Any number of processes that share a connection to the same host, and start,
\* die and end at any moment, look in the same directory, and a downstream's
\* peer is running; until an upstream ends in good order, and where the settings
\* allow all of them to be downstream, there is at most one upstream, the socket
\* in the directory is its own, and sharing never fails (platform_ssh_share).
THEOREM UpstreamIsFound ==
    ASSUME Sharing!ProcessesAssumption
    PROVE  Sharing!Spec => []UpstreamFound
<1>1. ASSUME Sharing!Init PROVE SharingInv
  <2>1. Sharing!TypeOK
    BY <1>1 DEF Sharing!Init, Sharing!TypeOK, Sharing!Inodes, Sharing!None
  <2>2. Meeting
    BY <1>1 DEF Sharing!Init, Meeting
  <2>3. Exclusion
    BY <1>1
    DEF Sharing!Init, Exclusion, CleaningUp, LockOpened, HoldsLock, Sharing!ProcessesAssumption
  <2> QED
    BY <2>1, <2>2, <2>3 DEF SharingInv
<1>2. SharingInv /\ [Sharing!Next]_(Sharing!vars) => SharingInv'
  <2> SUFFICES ASSUME SharingInv, [Sharing!Next]_(Sharing!vars)
               PROVE  SharingInv'
    OBVIOUS
  <2>1. CASE Sharing!Next
    BY <2>1, SharingTypes, MeetingStep, EndedStays, ExclusionStep
    DEF SharingInv, Undisturbed
  <2>2. CASE UNCHANGED Sharing!vars
    BY <2>2
    DEF Sharing!vars, SharingInv, Undisturbed, Sharing!TypeOK, Meeting, Exclusion
  <2> QED
    BY <2>1, <2>2
<1>3. SharingInv => UpstreamFound
  BY SharingImplies DEF UpstreamFound
<1> QED
  BY <1>1, <1>2, <1>3, PTL DEF Sharing!Spec

-----------------------------------------------------------------------------
(* The login (UserAuth).  LoginInv says for every place where the          *)
(* coroutine may be what is on its way to the server and, but for banners, *)
(* from it: a request that is not answered yet, an answer to it, or        *)
(* nothing.                                                                *)

\* The places of the coroutine.
Pcs == {"start", "username", "none", "choose", "gss_init", "granted", "ended"}
           \cup Login!Prompts \cup Login!AgentWaits \cup Login!PacketWaits

\* The requests of the layer.
Requests == {"none", "keyex", "offer", "sign", "gssapi", "ki", "password", "change"}

\* What the layer keeps.
LoginState ==
    [pc : Pcs, running : BOOLEAN, asked : Requests \cup {"nothing"},
     type : {"none", "gssapi", "offer", "publickey", "ki", "ki_quiet", "password"},
     can : SUBSET Login!Methods, tried : SUBSET {"keyex", "gssapi", "file", "ki"},
     got_username : BOOLEAN, key : Nat, limit : Nat, done_agent : BOOLEAN,
     suppress_wait : BOOLEAN, want_user_input : BOOLEAN, need : 0 .. 3, header : BOOLEAN,
     gss : {"first", "more", "last"}]

\* Where the coroutine may stand while it does not run.
Rests == Login!PacketWaits \cup Login!AgentWaits \cup Login!Prompts \cup {"start", "granted",
  "ended"}

\* The coroutine: it stops only where it waits, asks for what it waits for, and
\* ignores no reply but where it goes on at once.
Steady(t) ==
    /\ t \in LoginState
    /\ ~t.running => t.pc \in Rests
    /\ t.pc \in {"granted", "ended"} => ~t.running
    /\ t.suppress_wait => t.pc = "response" /\ t.running
    /\ ~t.running /\ t.pc \in Login!Prompts => t.want_user_input

\* The agent's keys, in their order.
Keys(t) ==
    /\ t.limit <= conf.agent /\ t.key <= conf.agent + 1
    /\ t.pc \in {"agent_offer", "sign"} => t.key < t.limit
    /\ ~conf.change =>
           /\ t.limit > 0 /\ ~t.done_agent => t.key < t.limit
           /\ t.pc \in {"start", "identities", "username", "login", "none"} =>
                  t.limit = 0 \/ t.key < t.limit
           /\ t.pc = "password" /\ "publickey" \in t.can /\ t.limit > 0 => t.done_agent

\* Only between the server's prompts is text not ours.
Trusted(t, ours) == ours \/ (t.header /\ t.pc \in {"ki_prompt", "ki_reply", "ended"})

\* Everything but the packets.
Control ==
    /\ conf \in Settings /\ wake \in BOOLEAN /\ trust \in BOOLEAN
    /\ user_input \in Seq({"line", "abort"}) /\ Len(user_input) <= MaxTyped
    /\ agent \in {"idle", "pending", "good", "failed"}
    /\ Steady(state) /\ Keys(state) /\ Trusted(state, trust) /\ Login!AgentHeard

\* The last packet of GSSAPI, the replies, and the requests of keyboard-interactive.
Mic == [type |-> "mic"]

Result(w, m) == w.type \in {"success", "failure"} /\ w.to = m
Refusal(w, m) == w.type = "failure" /\ w.to = m
Info(w) == w.type = "info_request" /\ w.prompts \in {0, 1}

\* The conversation with the server: what is on its way up and, of what is not a
\* banner, down, for each place where the coroutine may be.
Silent(w, u) == w = <<>> /\ u = <<>>

Asking(w, u, p) == w = <<>> /\ u = <<p>>

Told(w, u) == Len(w) = 1 /\ u = <<>>

Quiet == {"start", "identities", "username", "none", "choose", "sign",
  "gss_init"} \cup Login!Prompts

Talk(t, w, u, sv) ==
    /\ t.pc \in Quiet \/ t.suppress_wait => Silent(w, u)
    /\ t.pc = "response" /\ ~t.suppress_wait =>
           \/ Asking(w, u, Login!Request(t.asked)) /\ t.asked \in {"none", "keyex", "sign"}
           \/ t.asked = "gssapi" /\ w = <<>> /\ u = <<Login!Token(TRUE), Mic>> /\ sv = "gssapi"
           \/ t.asked = "gssapi" /\ Asking(w, u, Mic) /\ sv = "mic"
           \/ Told(w, u) /\ (Result(w[1], t.asked) \/ w[1].type = "token")
    /\ t.pc \in {"agent_offer", "file_offer"} =>
           /\ t.asked = "offer"
           /\ \/ Asking(w, u, Login!Request("offer"))
              \/ Told(w, u) /\ (w[1].type = "pk_ok" \/ Refusal(w[1], "offer"))
    /\ t.pc \in {"gss_request", "gss_init", "gss_token", "gss_errtok"} => t.asked = "gssapi"
    /\ t.pc = "gss_request" =>
           /\ t.gss = "first"
           /\ \/ Asking(w, u, Login!Request("gssapi"))
              \/ Told(w, u) /\ ((w[1].type = "gss_response" /\ sv = "gssapi") \/ Refusal(w[1],
                   "gssapi"))
    /\ t.pc = "gss_init" => sv = IF t.gss = "last" THEN "mic" ELSE "gssapi"
    /\ t.pc = "gss_token" =>
           \/ Asking(w, u, Login!Token(FALSE)) /\ sv = "gssapi"
           \/ Told(w, u) /\ ((w[1] = Login!Token(FALSE) /\ sv = "gssapi") \/
                (w[1] = Login!Token(TRUE) /\ sv = "mic"))
           \/ Told(w, u) /\ Refusal(w[1], "gssapi")
           \/ Len(w) = 2 /\ u = <<>> /\ w[1].type = "errtok" /\ Refusal(w[2], "gssapi")
    /\ t.pc = "gss_errtok" => Told(w, u) /\ Refusal(w[1], "gssapi")
    /\ t.pc \in {"ki_request", "ki_reply", "ki_prompt"} => t.asked = "ki"
    /\ t.pc \in {"ki_request", "ki_reply"} =>
           \/ Asking(w, u,
                IF t.pc = "ki_request" THEN Login!Request("ki") ELSE [type |-> "info"])
           \/ Told(w, u) /\ (Info(w[1]) \/ Result(w[1], "ki"))
    /\ t.pc = "pw_reply" =>
           /\ t.asked \in {"password", "change"}
           /\ \/ Asking(w, u, Login!Request(t.asked))
              \/ Told(w, u) /\ (w[1].type = "changereq" \/ Result(w[1], t.asked))

\* Packets that come down.
Downs ==
    {[type |-> k] : k \in {"banner", "pk_ok", "gss_response", "changereq", "errtok"}}
        \cup Login!InfoRequests \cup {Login!Token(b) : b \in BOOLEAN}
        \cup {Login!Success(m) : m \in Requests} \cup UNION {Login!Failures(m,
          BOOLEAN) : m \in Requests}

\* Packets that go up.
Ups == {Login!Request(m) : m \in Requests} \cup {Login!Token(b) : b \in BOOLEAN} \cup {Mic,
  [type |-> "info"]}

\* w is what q says but for banners: f gives the places.
Places(q, w, f) ==
    /\ f \in [1 .. Len(w) -> 1 .. Len(q)]
    /\ \A i, j \in 1 .. Len(w) : i < j => f[i] < f[j]
    /\ \A i \in 1 .. Len(w) : q[f[i]] = w[i] /\ ~Login!IsBanner(w[i])
    /\ \A k \in 1 .. Len(q) : Login!IsBanner(q[k]) \/ \E i \in 1 .. Len(w) : k = f[i]

Says(q, w) == \E f : Places(q, w, f)

\* The packets, and the banners that have been collected from them.
Traffic ==
    /\ queue \in Seq(Downs) /\ down \in Seq(Downs) /\ up \in Seq(Ups) /\ Len(up) <= 2
    /\ server \in {"idle", "ki", "gssapi", "mic"}
    /\ banner \in 0 .. BannerLimit /\ banners \in 0 .. Banners
    /\ state.pc = "granted" => banner = 0

\* As long as the login goes on, what is said fits where the coroutine is.
Hears(w) == w \in Seq(Downs) /\ Says(queue \o down, w) /\ Talk(state, w, up, server)

\* The inductive invariant.
LoginInv == Control /\ Traffic /\ Login!Woken /\ (Login!Over \/ \E w : Hears(w))

-----------------------------------------------------------------------------
\* Banners that are taken off a queue leave what it says.
LEMMA Dropped ==
    ASSUME NEW X, NEW q \in Seq(X), NEW p \in Seq(X), NEW w \in Seq(X), NEW k \in Nat,
           Says(q, w), Len(q) = Len(p) + k, \A i \in 1 .. Len(p) : p[i] = q[i + k],
           \A i \in 1 .. k : Login!IsBanner(q[i])
    PROVE  Says(p, w)
<1>1. Len(q) \in Nat /\ Len(p) \in Nat /\ Len(w) \in Nat
  BY LenProperties
<1>2. PICK f : Places(q, w, f)
  BY DEF Says
<1>3. \A i \in 1 .. Len(w) : f[i] \in 1 .. Len(q) /\ f[i] \notin 1 .. k
  BY <1>2 DEF Places
<1>4. \A i \in 1 .. Len(w) : f[i] - k \in 1 .. Len(p) /\ (f[i] - k) + k = f[i]
  BY <1>1, <1>3
<1> DEFINE g == [i \in 1 .. Len(w) |-> f[i] - k]
<1>5. g \in [1 .. Len(w) -> 1 .. Len(p)]
  BY <1>4
<1>6. \A i \in 1 .. Len(w) : g[i] = f[i] - k
  OBVIOUS
<1> HIDE DEF g
<1>7. \A i, j \in 1 .. Len(w) : i < j => g[i] < g[j]
  BY <1>1, <1>2, <1>3, <1>6 DEF Places
<1>8. \A i \in 1 .. Len(w) : p[g[i]] = w[i] /\ ~Login!IsBanner(w[i])
  BY <1>2, <1>4, <1>6 DEF Places
<1>9. ASSUME NEW j \in 1 .. Len(p), ~Login!IsBanner(p[j]) PROVE \E i \in 1 .. Len(w) : j = g[i]
  <2>1. j + k \in 1 .. Len(q) /\ p[j] = q[j + k] /\ (j + k) - k = j
    BY <1>1
  <2>2. ~Login!IsBanner(q[j + k])
    BY <1>9, <2>1
  <2>3. PICK i \in 1 .. Len(w) : j + k = f[i]
    BY <1>2, <2>1, <2>2 DEF Places
  <2> QED BY <1>6, <2>1, <2>3
<1> QED BY <1>5, <1>7, <1>8, <1>9 DEF Says, Places

\* Of a queue that does not start with a banner the first packet is the first word.
LEMMA Popped ==
    ASSUME NEW X, NEW q \in Seq(X), NEW p \in Seq(X), NEW w \in Seq(X),
           Says(q, w), Len(q) = Len(p) + 1, \A i \in 1 .. Len(p) : p[i] = q[i + 1],
           ~Login!IsBanner(q[1])
    PROVE  /\ w # <<>> /\ Len(w) > 0 /\ w[1] = q[1] /\ Tail(w) \in Seq(X)
           /\ Len(Tail(w)) = Len(w) - 1 /\ \A i \in 1 .. Len(w) - 1 : Tail(w)[i] = w[i + 1]
           /\ Says(p, Tail(w))
<1>1. Len(q) \in Nat /\ Len(p) \in Nat /\ Len(w) \in Nat
  BY LenProperties
<1>2. PICK f : Places(q, w, f)
  BY DEF Says
<1>3. \A i \in 1 .. Len(w) : f[i] \in 1 .. Len(q)
  BY <1>2 DEF Places
<1>4. 1 \in 1 .. Len(q)
  BY <1>1
<1>5. PICK i0 \in 1 .. Len(w) : f[i0] = 1
  BY <1>2, <1>4 DEF Places
<1>6. i0 = 1
  <2>1. ~(1 < i0)
    <3>1. SUFFICES ASSUME 1 < i0 PROVE FALSE
      OBVIOUS
    <3>2. 1 \in 1 .. Len(w) /\ f[1] < f[i0]
      BY <1>1, <1>2, <3>1 DEF Places
    <3> QED BY <1>3, <1>5, <3>2
  <2> QED BY <2>1
<1>7. Len(w) > 0 /\ 1 \in 1 .. Len(w) /\ f[1] = 1 /\ w[1] = q[1]
  BY <1>1, <1>2, <1>5, <1>6 DEF Places
<1>8. w # <<>>
  BY <1>7
<1> DEFINE v == Tail(w)
<1>9. v \in Seq(X) /\ Len(v) = Len(w) - 1 /\ \A i \in 1 .. Len(v) : v[i] = w[i + 1]
  BY <1>8, HeadTailProperties
<1> HIDE DEF v
<1>10. \A i \in 1 .. Len(v) : i + 1 \in 1 .. Len(w) /\ 1 < i + 1
  BY <1>1, <1>9
<1>11. \A i \in 1 .. Len(v) : f[i + 1] \in 1 .. Len(q) /\ f[i + 1] > 1
  BY <1>2, <1>3, <1>7, <1>10 DEF Places
<1>12. \A i \in 1 .. Len(v) : f[i + 1] - 1 \in 1 .. Len(p) /\ (f[i + 1] - 1) + 1 = f[i + 1]
  BY <1>1, <1>11
<1> DEFINE g == [i \in 1 .. Len(v) |-> f[i + 1] - 1]
<1>13. g \in [1 .. Len(v) -> 1 .. Len(p)] /\ \A i \in 1 .. Len(v) : g[i] = f[i + 1] - 1
  BY <1>12
<1> HIDE DEF g
<1>14. \A i, j \in 1 .. Len(v) : i < j => g[i] < g[j]
  <2> SUFFICES ASSUME NEW i \in 1 .. Len(v), NEW j \in 1 .. Len(v), i < j PROVE g[i] < g[j]
    OBVIOUS
  <2>1. i + 1 \in 1 .. Len(w) /\ j + 1 \in 1 .. Len(w) /\ i + 1 < j + 1
    BY <1>10
  <2>2. f[i + 1] < f[j + 1]
    BY <1>2, <2>1 DEF Places
  <2> QED BY <1>11, <1>13, <2>2
<1>15. \A i \in 1 .. Len(v) : p[g[i]] = v[i] /\ ~Login!IsBanner(v[i])
  <2> SUFFICES ASSUME NEW i \in 1 .. Len(v) PROVE p[g[i]] = v[i] /\ ~Login!IsBanner(v[i])
    OBVIOUS
  <2>1. g[i] \in 1 .. Len(p) /\ g[i] + 1 = f[i + 1]
    BY <1>12, <1>13
  <2>2. p[g[i]] = q[f[i + 1]]
    BY <2>1
  <2> QED BY <1>2, <1>9, <1>10, <2>2 DEF Places
<1>16. ASSUME NEW j \in 1 .. Len(p), ~Login!IsBanner(p[j]) PROVE \E i \in 1 .. Len(v) : j = g[i]
  <2>1. j + 1 \in 1 .. Len(q) /\ p[j] = q[j + 1] /\ (j + 1) - 1 = j /\ j + 1 # 1
    BY <1>1
  <2>2. PICK i \in 1 .. Len(w) : j + 1 = f[i]
    BY <1>2, <1>16, <2>1 DEF Places
  <2>3. i # 1
    BY <1>7, <2>1, <2>2
  <2>4. i - 1 \in 1 .. Len(v) /\ (i - 1) + 1 = i
    BY <1>1, <1>9, <2>3
  <2>5. g[i - 1] = f[i] - 1
    BY <1>13, <2>4
  <2> QED BY <2>1, <2>2, <2>4, <2>5
<1>17. Says(p, v)
  BY <1>13, <1>14, <1>15, <1>16 DEF Says, Places
<1>18. Len(v) = Len(w) - 1 /\ \A i \in 1 .. Len(w) - 1 : v[i] = w[i + 1]
  BY <1>9
<1> QED BY <1>7, <1>8, <1>9, <1>17, <1>18 DEF v

\* Two queues, one behind the other, say what the one says and then the other.
LEMMA Joined ==
    ASSUME NEW X, NEW q \in Seq(X), NEW r \in Seq(X), NEW w \in Seq(X), NEW v \in Seq(X),
           Says(q, w), Says(r, v)
    PROVE  Says(q \o r, w \o v)
<1>1. Len(q) \in Nat /\ Len(r) \in Nat /\ Len(w) \in Nat /\ Len(v) \in Nat
  BY LenProperties
<1>2. PICK f : Places(q, w, f)
  BY DEF Says
<1>3. PICK g : Places(r, v, g)
  BY DEF Says
<1> DEFINE a == q \o r
           b == w \o v
<1>4. /\ Len(a) = Len(q) + Len(r) /\ \A i \in 1 .. Len(q) : a[i] = q[i]
      /\ \A i \in 1 .. Len(r) : a[Len(q) + i] = r[i]
  <2>1. a \in Seq(X) /\ Len(a) = Len(q) + Len(r)
        /\ \A i \in 1 .. Len(a) : a[i] = IF i <= Len(q) THEN q[i] ELSE r[i - Len(q)]
    BY ConcatProperties
  <2> HIDE DEF a
  <2>2. ASSUME NEW i \in 1 .. Len(q) PROVE a[i] = q[i]
    <3>1. i \in 1 .. Len(a) /\ i <= Len(q)
      BY <1>1, <2>1
    <3> QED BY <2>1, <3>1
  <2>3. ASSUME NEW i \in 1 .. Len(r) PROVE a[Len(q) + i] = r[i]
    <3>1. Len(q) + i \in 1 .. Len(a) /\ ~(Len(q) + i <= Len(q)) /\ (Len(q) + i) - Len(q) = i
      BY <1>1, <2>1
    <3> QED BY <2>1, <3>1
  <2> QED BY <2>1, <2>2, <2>3
<1>5. /\ Len(b) = Len(w) + Len(v) /\ \A i \in 1 .. Len(w) : b[i] = w[i]
      /\ \A i \in 1 .. Len(v) : b[Len(w) + i] = v[i]
  <2>1. b \in Seq(X) /\ Len(b) = Len(w) + Len(v)
        /\ \A i \in 1 .. Len(b) : b[i] = IF i <= Len(w) THEN w[i] ELSE v[i - Len(w)]
    BY ConcatProperties
  <2> HIDE DEF b
  <2>2. ASSUME NEW i \in 1 .. Len(w) PROVE b[i] = w[i]
    <3>1. i \in 1 .. Len(b) /\ i <= Len(w)
      BY <1>1, <2>1
    <3> QED BY <2>1, <3>1
  <2>3. ASSUME NEW i \in 1 .. Len(v) PROVE b[Len(w) + i] = v[i]
    <3>1. Len(w) + i \in 1 .. Len(b) /\ ~(Len(w) + i <= Len(w)) /\ (Len(w) + i) - Len(w) = i
      BY <1>1, <2>1
    <3> QED BY <2>1, <3>1
  <2> QED BY <2>1, <2>2, <2>3
<1> HIDE DEF a, b
<1>6. \A i \in 1 .. Len(b) : i \in 1 .. Len(w) \/ (i \notin 1 .. Len(w) /\
        i - Len(w) \in 1 .. Len(v) /\ Len(w) + (i - Len(w)) = i)
  BY <1>1, <1>5
<1>7. \A i \in 1 .. Len(w) : f[i] \in 1 .. Len(q) /\ q[f[i]] = w[i] /\ ~Login!IsBanner(w[i])
  BY <1>2 DEF Places
<1>8. \A i \in 1 .. Len(v) : g[i] \in 1 .. Len(r) /\ r[g[i]] = v[i] /\ ~Login!IsBanner(v[i])
  BY <1>3 DEF Places
<1> DEFINE h == [i \in 1 .. Len(b) |-> IF i \in 1 .. Len(w) THEN f[i] ELSE Len(q) + g[i - Len(w)]]
<1>9. \A i \in 1 .. Len(w) : i \in 1 .. Len(b)
  BY <1>1, <1>5
<1>10. \A i \in 1 .. Len(v) : Len(w) + i \in 1 .. Len(b) /\ Len(w) + i \notin 1 .. Len(w) /\
         (Len(w) + i) - Len(w) = i
  BY <1>1, <1>5
<1>11. \A i \in 1 .. Len(w) : h[i] = f[i]
  BY <1>9
<1>12. \A i \in 1 .. Len(b) : i \notin 1 .. Len(w) => h[i] = Len(q) + g[i - Len(w)]
  OBVIOUS
<1>13. \A i \in 1 .. Len(b) : h[i] \in 1 .. Len(a)
  <2> SUFFICES ASSUME NEW i \in 1 .. Len(b) PROVE h[i] \in 1 .. Len(a)
    OBVIOUS
  <2> HIDE DEF h
  <2>1. CASE i \in 1 .. Len(w)
    <3>1. h[i] = f[i] /\ f[i] \in 1 .. Len(q)
      BY <1>7, <1>11, <2>1
    <3> QED BY <1>1, <1>4, <3>1
  <2>2. CASE i \notin 1 .. Len(w)
    <3>1. h[i] = Len(q) + g[i - Len(w)] /\ g[i - Len(w)] \in 1 .. Len(r)
      BY <1>6, <1>8, <1>12, <2>2
    <3> QED BY <1>1, <1>4, <3>1
  <2> QED BY <2>1, <2>2
<1>14. h \in [1 .. Len(b) -> 1 .. Len(a)]
  <2>1. h = [i \in 1 .. Len(b) |-> h[i]]
    OBVIOUS
  <2> HIDE DEF h
  <2> QED BY <1>13, <2>1
<1> HIDE DEF h
<1>15. \A i, j \in 1 .. Len(b) : i < j => h[i] < h[j]
  <2> SUFFICES ASSUME NEW i \in 1 .. Len(b), NEW j \in 1 .. Len(b), i < j PROVE h[i] < h[j]
    OBVIOUS
  <2>1. CASE i \in 1 .. Len(w) /\ j \in 1 .. Len(w)
    BY <1>2, <1>11, <2>1 DEF Places
  <2>2. CASE i \in 1 .. Len(w) /\ j \notin 1 .. Len(w)
    <3>1. h[i] = f[i] /\ f[i] \in 1 .. Len(q)
      BY <1>7, <1>11, <2>2
    <3>2. h[j] = Len(q) + g[j - Len(w)] /\ g[j - Len(w)] \in 1 .. Len(r)
      BY <1>6, <1>8, <1>12, <2>2
    <3> QED BY <1>1, <3>1, <3>2
  <2>3. CASE i \notin 1 .. Len(w)
    <3>1. j \notin 1 .. Len(w)
      BY <1>1, <2>3
    <3>2. i - Len(w) \in 1 .. Len(v) /\ j - Len(w) \in 1 .. Len(v)
      BY <1>6, <2>3, <3>1
    <3>3. i - Len(w) < j - Len(w)
      BY <1>1
    <3>4. g[i - Len(w)] < g[j - Len(w)]
      BY <1>3, <3>2, <3>3 DEF Places
    <3>5. h[i] = Len(q) + g[i - Len(w)] /\ g[i - Len(w)] \in 1 .. Len(r)
      BY <1>8, <1>12, <2>3, <3>2
    <3>6. h[j] = Len(q) + g[j - Len(w)] /\ g[j - Len(w)] \in 1 .. Len(r)
      BY <1>8, <1>12, <3>1, <3>2
    <3> QED BY <1>1, <3>4, <3>5, <3>6
  <2> QED BY <2>1, <2>2, <2>3
<1>16. \A i \in 1 .. Len(b) : a[h[i]] = b[i] /\ ~Login!IsBanner(b[i])
  <2> SUFFICES ASSUME NEW i \in 1 .. Len(b) PROVE a[h[i]] = b[i] /\ ~Login!IsBanner(b[i])
    OBVIOUS
  <2>1. CASE i \in 1 .. Len(w)
    BY <1>4, <1>5, <1>7, <1>11, <2>1
  <2>2. CASE i \notin 1 .. Len(w)
    <3>1. i - Len(w) \in 1 .. Len(v) /\ Len(w) + (i - Len(w)) = i
      BY <1>6, <2>2
    <3>2. h[i] = Len(q) + g[i - Len(w)] /\ g[i - Len(w)] \in 1 .. Len(r)
      BY <1>8, <1>12, <2>2, <3>1
    <3>3. a[h[i]] = r[g[i - Len(w)]]
      BY <1>4, <3>2
    <3>4. b[i] = v[i - Len(w)]
      BY <1>5, <3>1
    <3> QED BY <1>8, <3>1, <3>3, <3>4
  <2> QED BY <2>1, <2>2
<1>17. ASSUME NEW k \in 1 .. Len(a), ~Login!IsBanner(a[k]) PROVE \E i \in 1 .. Len(b) : k = h[i]
  <2>1. CASE k \in 1 .. Len(q)
    <3>1. ~Login!IsBanner(q[k])
      BY <1>4, <1>17, <2>1
    <3>2. PICK i \in 1 .. Len(w) : k = f[i]
      BY <1>2, <2>1, <3>1 DEF Places
    <3> QED BY <1>9, <1>11, <3>2
  <2>2. CASE k \notin 1 .. Len(q)
    <3>1. k - Len(q) \in 1 .. Len(r) /\ Len(q) + (k - Len(q)) = k
      BY <1>1, <1>4, <2>2
    <3>2. ~Login!IsBanner(r[k - Len(q)])
      BY <1>4, <1>17, <3>1
    <3>3. PICK i \in 1 .. Len(v) : k - Len(q) = g[i]
      BY <1>3, <3>1, <3>2 DEF Places
    <3>4. h[Len(w) + i] = Len(q) + g[i]
      BY <1>10, <1>12
    <3> QED BY <1>10, <3>1, <3>3, <3>4
  <2> QED BY <2>1, <2>2
<1>18. Says(a, b)
  BY <1>14, <1>15, <1>16, <1>17 DEF Says, Places
<1> QED BY <1>18 DEF a, b

-----------------------------------------------------------------------------

\* Leading counts the banners at the head of a queue.
LEMMA LeadingIs ==
    ASSUME NEW X, NEW q \in Seq(X)
    PROVE  /\ Login!Leading(q) \in 0 .. Len(q) /\
                \A i \in 1 .. Login!Leading(q) : Login!IsBanner(q[i])
           /\ Login!Leading(q) < Len(q) => ~Login!IsBanner(q[Login!Leading(q) + 1])
<1> DEFINE T == {i \in 1 .. Len(q) : ~Login!IsBanner(q[i])}
           P(n) == /\ \A i \in 1 .. n : Login!IsBanner(q[i])
                   /\ n < Len(q) => ~Login!IsBanner(q[n + 1])
<1>1. Len(q) \in Nat
  BY LenProperties
<1>2. \E n \in 0 .. Len(q) : P(n)
  <2>1. CASE T = {}
    <3>1. \A i \in 1 .. Len(q) : Login!IsBanner(q[i])
      BY <2>1
    <3>2. Len(q) \in 0 .. Len(q) /\ ~(Len(q) < Len(q))
      BY <1>1
    <3> QED BY <3>1, <3>2
  <2>2. CASE T # {}
    <3>1. T \in SUBSET Nat
      BY <1>1
    <3> HIDE DEF T
    <3>2. PICK k \in T : \A j \in T : k <= j
      BY <2>2, <3>1, LeastNat
    <3>3. k \in 1 .. Len(q) /\ ~Login!IsBanner(q[k])
      BY DEF T
    <3>4. k - 1 \in 0 .. Len(q) /\ (k - 1) + 1 = k
      BY <1>1, <3>3
    <3>5. ASSUME NEW i \in 1 .. k - 1 PROVE Login!IsBanner(q[i])
      <4>1. i \in 1 .. Len(q) /\ ~(k <= i)
        BY <1>1, <3>3
      <4>2. i \notin T
        BY <3>2, <4>1
      <4> QED BY <4>1, <4>2 DEF T
    <3> QED BY <3>3, <3>4, <3>5
  <2> QED BY <2>1, <2>2
<1>3. Login!Leading(q) = CHOOSE n \in 0 .. Len(q) : P(n)
  BY DEF Login!Leading
<1> HIDE DEF P
<1>4. Login!Leading(q) \in 0 .. Len(q) /\ P(Login!Leading(q))
  BY <1>2, <1>3
<1> QED BY <1>4 DEF P

\* Behind them is the next word, and the queue without it says the rest.
LEMMA QueueIs ==
    ASSUME queue \in Seq(Downs), down \in Seq(Downs), NEW w \in Seq(Downs),
           Says(queue \o down, w)
    PROVE  /\ Login!Leading(queue) \in Nat /\ Login!Filtered \in Seq(Downs)
           /\ Says(Login!Filtered \o down, w)
           /\ Login!Filtered # <<>> =>
                  /\ Len(w) > 0 /\ Login!pktin = w[1] /\ Tail(Login!Filtered) \in Seq(Downs)
                  /\ Tail(w) \in Seq(Downs) /\ Len(Tail(w)) = Len(w) - 1
                  /\ \A i \in 1 .. Len(w) - 1 : Tail(w)[i] = w[i + 1]
                  /\ Says(Tail(Login!Filtered) \o down, Tail(w))
<1> DEFINE k == Login!Leading(queue)
           l == Login!Filtered
           q == queue \o down
           p == l \o down
<1>1. Len(queue) \in Nat /\ Len(down) \in Nat /\ \A i \in 1 .. Len(queue) : queue[i] \in Downs
  BY LenProperties, ElementOfSeq
<1>2. /\ k \in 0 .. Len(queue) /\ \A i \in 1 .. k : Login!IsBanner(queue[i])
      /\ k < Len(queue) => ~Login!IsBanner(queue[k + 1])
  BY LeadingIs
<1> HIDE DEF k
<1>3. l \in Seq(Downs) /\ Len(l) = Len(queue) - k /\ \A i \in 1 .. Len(l) : l[i] = queue[i + k]
  <2>1. l = SubSeq(queue, k + 1, Len(queue))
    BY DEF Login!Filtered, k
  <2> HIDE DEF l
  <2>2. \A i \in k + 1 .. Len(queue) : queue[i] \in Downs
    BY <1>1, <1>2
  <2>3. /\ l \in Seq(Downs) /\
             Len(l) = (IF k + 1 <= Len(queue) THEN Len(queue) - (k + 1) + 1 ELSE 0)
        /\ \A i \in 1 .. Len(queue) - (k + 1) + 1 : l[i] = queue[k + 1 + i - 1]
    BY <1>1, <1>2, <2>1, <2>2, SubSeqProperties, Z3
  <2>4. k \in Nat /\ k <= Len(queue)
    BY <1>1, <1>2
  <2>5. Len(l) = Len(queue) - k
    BY <1>1, <2>3, <2>4
  <2>6. ASSUME NEW i \in 1 .. Len(l) PROVE l[i] = queue[i + k]
    <3>1. i \in 1 .. Len(queue) - (k + 1) + 1 /\ k + 1 + i - 1 = i + k
      BY <1>1, <2>4, <2>5
    <3> QED BY <2>3, <3>1
  <2> QED BY <2>3, <2>5, <2>6
<1> HIDE DEF l
<1>4. /\ q \in Seq(Downs) /\ Len(q) = Len(queue) + Len(down)
      /\ \A i \in 1 .. Len(queue) + Len(down) : q[i] = IF i <= Len(queue) THEN queue[i] ELSE down[i - Len(queue)]
  BY ConcatProperties
<1>5. /\ p \in Seq(Downs) /\ Len(p) = Len(l) + Len(down)
      /\ \A i \in 1 .. Len(l) + Len(down) : p[i] = IF i <= Len(l) THEN l[i] ELSE down[i - Len(l)]
  BY <1>3, ConcatProperties
<1> HIDE DEF q, p
<1>6. k \in Nat /\ k <= Len(queue) /\ Len(l) \in Nat
  BY <1>1, <1>2, <1>3
<1>7. Len(q) = Len(p) + k /\ \A i \in 1 .. Len(p) : p[i] = q[i + k]
  <2>1. Len(q) = Len(p) + k
    BY <1>1, <1>3, <1>4, <1>5, <1>6
  <2>2. ASSUME NEW i \in 1 .. Len(p) PROVE p[i] = q[i + k]
    <3>1. i \in 1 .. Len(l) + Len(down) /\ i + k \in 1 .. Len(queue) + Len(down)
      BY <1>1, <1>3, <1>5, <1>6
    <3>2. CASE i <= Len(l)
      <4>1. i \in 1 .. Len(l) /\ i + k <= Len(queue)
        BY <1>1, <1>3, <1>6, <3>2
      <4> QED BY <1>3, <1>4, <1>5, <3>1, <3>2, <4>1
    <3>3. CASE ~(i <= Len(l))
      <4>1. ~(i + k <= Len(queue)) /\ (i + k) - Len(queue) = i - Len(l)
        BY <1>1, <1>3, <1>6, <3>3
      <4> QED BY <1>4, <1>5, <3>1, <3>3, <4>1
    <3> QED BY <3>2, <3>3
  <2> QED BY <2>1, <2>2
<1>8. \A i \in 1 .. k : Login!IsBanner(q[i])
  <2> SUFFICES ASSUME NEW i \in 1 .. k PROVE Login!IsBanner(q[i])
    OBVIOUS
  <2>1. i \in 1 .. Len(queue) + Len(down) /\ i <= Len(queue)
    BY <1>1, <1>6
  <2> QED BY <1>2, <1>4, <2>1
<1>9. Says(q, w)
  BY DEF q
<1>10. Says(p, w)
  BY <1>4, <1>5, <1>6, <1>7, <1>8, <1>9, Dropped
<1>11. ASSUME l # <<>>
       PROVE  /\ Len(w) > 0 /\ Head(l) = w[1] /\ Tail(l) \in Seq(Downs)
              /\ Tail(w) \in Seq(Downs) /\ Len(Tail(w)) = Len(w) - 1
              /\ \A i \in 1 .. Len(w) - 1 : Tail(w)[i] = w[i + 1]
              /\ Says(Tail(l) \o down, Tail(w))
  <2> DEFINE m == Tail(l)
             r == m \o down
  <2>1. /\ Head(l) = l[1] /\ m \in Seq(Downs) /\ Len(m) = Len(l) - 1
        /\ \A i \in 1 .. Len(m) : m[i] = l[i + 1]
    BY <1>3, <1>11, HeadTailProperties
  <2>2. Len(l) > 0
    BY <1>3, <1>6, <1>11, EmptySeq
  <2> HIDE DEF m
  <2>3. /\ r \in Seq(Downs) /\ Len(r) = Len(m) + Len(down)
        /\ \A i \in 1 .. Len(m) + Len(down) : r[i] = IF i <= Len(m) THEN m[i] ELSE down[i - Len(m)]
    BY <2>1, ConcatProperties
  <2> HIDE DEF r
  <2>4. Len(p) = Len(r) + 1
    BY <1>1, <1>5, <1>6, <2>1, <2>2, <2>3
  <2>5. ASSUME NEW i \in 1 .. Len(r) PROVE r[i] = p[i + 1]
    <3>1. i \in 1 .. Len(m) + Len(down) /\ i + 1 \in 1 .. Len(l) + Len(down)
      BY <1>1, <1>6, <2>1, <2>2, <2>3
    <3>2. CASE i <= Len(m)
      <4>1. i \in 1 .. Len(m) /\ i + 1 <= Len(l)
        BY <1>6, <2>1, <2>2, <3>2
      <4> QED BY <1>5, <2>1, <2>3, <3>1, <3>2, <4>1
    <3>3. CASE ~(i <= Len(m))
      <4>1. ~(i + 1 <= Len(l)) /\ (i + 1) - Len(l) = i - Len(m)
        BY <1>6, <2>1, <2>2, <3>3
      <4> QED BY <1>5, <2>3, <3>1, <3>3, <4>1
    <3> QED BY <3>2, <3>3
  <2>6. p[1] = l[1] /\ ~Login!IsBanner(l[1])
    <3>1. 1 \in 1 .. Len(l) /\ 1 \in 1 .. Len(l) + Len(down) /\ 1 <= Len(l) /\ 1 + k = k + 1 /\
            k < Len(queue)
      BY <1>1, <1>3, <1>6, <2>2
    <3>2. l[1] = queue[k + 1]
      BY <1>3, <3>1
    <3> QED BY <1>2, <1>5, <3>1, <3>2
  <2>8. /\ Len(w) > 0 /\ w[1] = p[1] /\ Tail(w) \in Seq(Downs)
        /\ Len(Tail(w)) = Len(w) - 1 /\ \A i \in 1 .. Len(w) - 1 : Tail(w)[i] = w[i + 1]
        /\ Says(r, Tail(w))
    <3>1. p \in Seq(Downs) /\ r \in Seq(Downs) /\ w \in Seq(Downs)
      BY <1>5, <2>3
    <3>2. ~Login!IsBanner(p[1])
      BY <2>6
    <3>3. \A i \in 1 .. Len(r) : r[i] = p[i + 1]
      BY <2>5
    <3> QED BY <1>10, <2>4, <3>1, <3>2, <3>3, Popped
  <2> QED BY <2>1, <2>6, <2>8 DEF m, r
<1> QED BY <1>3, <1>6, <1>10, <1>11 DEF p, l, k, Login!pktin

\* A packet that is delivered leaves what is said as it is.
LEMMA DeliverIs ==
    ASSUME queue \in Seq(Downs), down \in Seq(Downs), down # <<>>
    PROVE  /\ Append(queue, Head(down)) \in Seq(Downs) /\ Tail(down) \in Seq(Downs)
           /\ Append(queue, Head(down)) \o Tail(down) = queue \o down
<1>1. Head(down) \in Downs /\ Tail(down) \in Seq(Downs) /\ down = <<Head(down)>> \o Tail(down)
  BY HeadTailProperties
<1>2. Append(queue, Head(down)) = queue \o <<Head(down)>> /\ Append(queue,
        Head(down)) \in Seq(Downs)
  BY <1>1, AppendProperties, AppendIsConcat
<1>3. <<Head(down)>> \in Seq(Downs)
  BY <1>1
<1>4. (queue \o <<Head(down)>>) \o Tail(down) = queue \o (<<Head(down)>> \o Tail(down))
  BY <1>1, <1>3, ConcatAssociative
<1> QED BY <1>1, <1>2, <1>4

-----------------------------------------------------------------------------

\* The places of the coroutine, one by one.
LEMMA PcNames ==
    {"start", "username", "none", "choose", "gss_init", "granted", "ended", "login",
      "passphrase",
     "ki_prompt", "password", "new_password", "identities", "sign", "response", "agent_offer",
     "file_offer", "gss_request", "gss_token", "gss_errtok", "ki_request", "ki_reply",
       "pw_reply"} = Pcs
BY DEF Pcs, Login!Prompts, Login!AgentWaits, Login!PacketWaits

\* It goes to p; m is what was asked for, g the state of GSSAPI, h the header of
\* the server's prompts, and b says whether there is no reply to wait for.
Goes(p, m, g, h, b) ==
    /\ state' \in LoginState /\ state'.running /\ state'.pc = p /\ state'.asked = m /\
         state'.gss = g
    /\ state'.header = h /\ state'.suppress_wait = b

\* The keys of the agent are left alone.
SameKeys == state'.key = state.key /\ state'.limit = state.limit /\
  state'.done_agent = state.done_agent

\* The places before the first request of a username.
Early == {"start", "identities", "username", "login", "none"}

\* What a step has to show of the coroutine's state.
Moved == Steady(state') /\ Keys(state)' /\ Trusted(state', trust') /\ Login!AgentHeard'

\* A step that leaves the agent's keys alone keeps them in their order.
LEMMA KeysStay ==
    ASSUME Control, SameKeys, conf' = conf,
           state'.pc \in {"agent_offer", "sign"} => state.key < state.limit,
           state'.pc \in Early => conf.change \/ state.pc \in Early,
           state'.pc = "password" /\ ~conf.change /\ "publickey" \in state'.can /\
             state.limit > 0 => state.done_agent
    PROVE  Keys(state)'
BY DEF SameKeys, Keys, Control, Early

\* Where the coroutine goes, it is steady.
LEMMA GoesMoves ==
    ASSUME NEW p, NEW m, NEW g, NEW h, NEW b, Goes(p, m, g, h, b), Keys(state)',
             agent' = "idle",
           p \notin {"granted", "ended"}, b => p = "response",
           trust' \/ (h /\ p \in {"ki_prompt", "ki_reply"})
    PROVE  Moved
<1>1. Steady(state')
  BY DEF Goes, Steady
<1>2. Trusted(state', trust')
  BY DEF Goes, Trusted
<1>3. Login!AgentHeard'
  BY DEF Login!AgentHeard
<1> QED BY <1>1, <1>2, <1>3 DEF Moved

\* The coroutine is stopped for good.
LEMMA EndMoves ==
    ASSUME Control, state' = Login!Ended, ~state.suppress_wait, UNCHANGED <<conf, trust>>,
             agent' = "idle"
    PROVE  Moved /\ state'.pc = "ended"
<1>1. state \in LoginState
  BY DEF Control, Steady
<1>2. /\ state' \in LoginState /\ state'.pc = "ended" /\ ~state'.running /\
           state'.suppress_wait = state.suppress_wait
      /\ state'.key = state.key /\ state'.limit = state.limit /\
           state'.done_agent = state.done_agent /\ state'.header = state.header
  BY <1>1, PcNames DEF Login!Ended, LoginState
<1>3. Steady(state')
  BY <1>2 DEF Steady, Rests, Login!Prompts
<1>4. Keys(state)'
  BY <1>2 DEF Keys, Control
<1>5. Trusted(state', trust')
  BY <1>2 DEF Trusted, Control
<1>6. Login!AgentHeard'
  BY DEF Login!AgentHeard
<1> QED BY <1>2, <1>3, <1>4, <1>5, <1>6 DEF Moved

\* A coroutine that runs is not over, and has heard something.
LEMMA StillLogin ==
    ASSUME LoginInv, state.running
    PROVE  Control /\ Traffic /\ ~Login!Over /\ state \in LoginState /\ \E w : Hears(w)
BY DEF LoginInv, Control, Steady, Login!Over

\* The banners that are collected stay within the limit (ssh2_userauth_filter_queue).
LEMMA BannerKept ==
    ASSUME Login!LoginAssumption, Control, Traffic
    PROVE  (IF conf.banner THEN Login!Least(banner + Login!Leading(queue),
             BannerLimit) ELSE banner) \in 0 .. BannerLimit
<1>1. Login!Leading(queue) \in Nat /\ banner \in Nat /\ BannerLimit \in Nat
  <2>1. Login!Leading(queue) \in 0 .. Len(queue) /\ Len(queue) \in Nat
    BY LeadingIs, LenProperties DEF Traffic
  <2> QED BY <2>1 DEF Traffic, Login!LoginAssumption
<1>2. Login!Least(banner + Login!Leading(queue), BannerLimit) \in 0 .. BannerLimit
  <2> DEFINE n == banner + Login!Leading(queue)
  <2>1. n \in Nat
    BY <1>1
  <2> HIDE DEF n
  <2>2. Login!Least(n, BannerLimit) \in 0 .. BannerLimit
    BY <1>1, <2>1 DEF Login!Least
  <2> QED BY <2>2 DEF n
<1> QED BY <1>2 DEF Traffic

\* The filter takes nothing but banners.
LEMMA FilterKeeps ==
    ASSUME Login!LoginAssumption, Control, Traffic, NEW w, Hears(w),
             Login!ssh2_userauth_filter_queue,
           UNCHANGED Login!wire
    PROVE  /\ queue' \in Seq(Downs) /\ banner' \in 0 .. BannerLimit
           /\ Says(queue' \o down', w)
           /\ Login!Filtered # <<>> => Len(w) > 0 /\ Login!pktin = w[1]
<1>1. queue' = Login!Filtered /\ down' = down
  BY DEF Login!ssh2_userauth_filter_queue, Login!wire
<1>2. banner' \in 0 .. BannerLimit
  BY BannerKept DEF Login!ssh2_userauth_filter_queue
<1>3. queue \in Seq(Downs) /\ down \in Seq(Downs) /\ w \in Seq(Downs) /\ Says(queue \o down, w)
  BY DEF Traffic, Hears
<1>4. /\ Login!Filtered \in Seq(Downs) /\ Says(Login!Filtered \o down, w)
      /\ Login!Filtered # <<>> => Len(w) > 0 /\ Login!pktin = w[1]
  BY <1>3, QueueIs
<1> QED BY <1>1, <1>2, <1>4

\* The next packet that is not a banner is the next word.
LEMMA TakeKeeps ==
    ASSUME Traffic, NEW w, Hears(w), queue' = Tail(Login!Filtered), Login!Filtered # <<>>,
             down' = down
    PROVE  /\ queue' \in Seq(Downs)
           /\ Tail(w) \in Seq(Downs) /\ Says(queue' \o down', Tail(w))
           /\ Len(w) > 0 /\ Login!pktin = w[1]
           /\ Len(w) = 1 => Tail(w) = <<>>
           /\ Len(w) = 2 => Len(Tail(w)) = 1 /\ Tail(w)[1] = w[2]
<1>3. queue \in Seq(Downs) /\ down \in Seq(Downs) /\ w \in Seq(Downs) /\ Says(queue \o down, w)
  BY DEF Traffic, Hears
<1>4. /\ Len(w) > 0 /\ Login!pktin = w[1] /\ Tail(Login!Filtered) \in Seq(Downs)
      /\ Tail(w) \in Seq(Downs) /\ Len(Tail(w)) = Len(w) - 1
      /\ \A i \in 1 .. Len(w) - 1 : Tail(w)[i] = w[i + 1]
      /\ Says(Tail(Login!Filtered) \o down, Tail(w))
  BY <1>3, QueueIs
<1>5. ASSUME Len(w) = 1 PROVE Tail(w) = <<>>
  <2> DEFINE v == Tail(w)
  <2>1. v \in Seq(Downs) /\ Len(v) = 0
    BY <1>4, <1>5
  <2> HIDE DEF v
  <2>2. v = <<>>
    BY <2>1, EmptySeq
  <2> QED BY <2>2 DEF v
<1>6. ASSUME Len(w) = 2 PROVE Len(Tail(w)) = 1 /\ Tail(w)[1] = w[2]
  <2>1. 1 \in 1 .. Len(w) - 1 /\ 1 + 1 = 2 /\ Len(w) - 1 = 1
    BY <1>6
  <2> QED BY <1>4, <2>1
<1> QED BY <1>4, <1>5, <1>6

\* ssh2_userauth_pop takes the next packet, and the banners before it.
LEMMA PopKeeps ==
    ASSUME Login!LoginAssumption, Control, Traffic, NEW w, Hears(w), Login!ssh2_userauth_pop,
             Login!Filtered # <<>>,
           UNCHANGED Login!wire
    PROVE  /\ queue' \in Seq(Downs) /\ banner' \in 0 .. BannerLimit
           /\ Tail(w) \in Seq(Downs) /\ Says(queue' \o down', Tail(w))
           /\ Len(w) > 0 /\ Login!pktin = w[1]
           /\ Len(w) = 1 => Tail(w) = <<>>
           /\ Len(w) = 2 => Len(Tail(w)) = 1 /\ Tail(w)[1] = w[2]
<1>1. queue' = Tail(Login!Filtered) /\ down' = down
  BY DEF Login!ssh2_userauth_pop, Login!wire
<1>2. banner' \in 0 .. BannerLimit
  BY BannerKept DEF Login!ssh2_userauth_pop
<1> QED BY <1>1, <1>2, TakeKeeps

\* All that a step of the coroutine has to show.
LEMMA Assembled ==
    ASSUME Login!LoginAssumption, LoginInv, Moved, UNCHANGED <<conf, wake, Login!wire>>,
             trust' \in BOOLEAN,
           user_input' \in Seq({"line", "abort"}), Len(user_input') <= MaxTyped,
           agent' \in {"idle", "pending", "good", "failed"},
           queue' \in Seq(Downs), up' \in Seq(Ups), Len(up') <= 2, banner' \in 0 .. BannerLimit,
           state'.pc = "granted" => banner' = 0,
           state'.running \/ Login!Over' \/ Login!Woken',
           NEW v, Login!Over' \/ Hears(v)'
    PROVE  LoginInv'
<1>1. Control'
  BY DEF LoginInv, Control, Moved
<1>2. Traffic'
  BY DEF LoginInv, Traffic, Login!wire
<1>3. Login!Woken'
  BY DEF Login!Woken, Login!Over, Login!PacketWaits, Login!AgentWaits, Login!Prompts
<1> QED BY <1>1, <1>2, <1>3 DEF LoginInv

\* The coroutine goes on.
LEMMA GoesOn ==
    ASSUME Login!LoginAssumption, LoginInv, NEW p, NEW m, NEW g, NEW h, NEW b, Goes(p, m, g, h,
             b),
           Keys(state)', agent' = "idle", UNCHANGED <<conf, wake, Login!wire>>,
             trust' \in BOOLEAN,
           user_input' \in Seq({"line", "abort"}), Len(user_input') <= MaxTyped,
           p \notin {"granted", "ended"}, b => p = "response",
           trust' \/ (h /\ p \in {"ki_prompt", "ki_reply"}),
           queue' \in Seq(Downs), banner' \in 0 .. BannerLimit, up' \in Seq(Ups), Len(up') <= 2,
           NEW v, v \in Seq(Downs), Says(queue' \o down', v), Talk(state', v, up', server)
    PROVE  LoginInv'
<1>1. Moved
  BY GoesMoves
<1>2. state'.running /\ state'.pc # "granted"
  BY DEF Goes
<1>3. Hears(v)'
  BY DEF Hears, Login!wire
<1> QED BY <1>1, <1>2, <1>3, Assembled

\* What is sent when nothing was.
LEMMA SendOne ==
    ASSUME up = <<>>, NEW p \in Ups, Login!Send(p)
    PROVE  up' = <<p>> /\ up' \in Seq(Ups) /\ Len(up') <= 2
BY DEF Login!Send

\* The requests that are sent.
LEMMA RequestNames == \A m \in Requests : Login!Request(m) \in Ups
BY DEF Ups

\* The coroutine comes to its end.
LEMMA EndsHere ==
    ASSUME Login!LoginAssumption, LoginInv, state.running, ~state.suppress_wait,
             state' = Login!Ended,
           UNCHANGED <<conf, wake, trust, Login!wire>>, agent' = "idle",
           user_input' \in Seq({"line", "abort"}), Len(user_input') <= MaxTyped,
           queue' \in Seq(Downs), up' \in Seq(Ups), Len(up') <= 2, banner' \in 0 .. BannerLimit
    PROVE  LoginInv'
<1>1. Control
  BY DEF LoginInv
<1>2. Moved /\ state'.pc = "ended"
  BY <1>1, EndMoves
<1>3. Login!Over'
  BY <1>2 DEF Login!Over
<1>4. trust' \in BOOLEAN
  BY <1>1 DEF Control
<1> QED BY <1>2, <1>3, <1>4, Assembled

\* Two packets are a sequence.
LEMMA TwoSeq == \A S : \A a, b \in S : <<a, b>> \in Seq(S) /\ Len(<<a, b>>) <= 2
OBVIOUS

\* Two packets, one after the other.
LEMMA TwoWords == \A a, b : <<a>> \o <<b>> = <<a, b>> /\ <<>> \o <<a>> = <<a>>
<1> SUFFICES ASSUME NEW a, NEW b PROVE <<a>> \o <<b>> = <<a, b>> /\ <<>> \o <<a>> = <<a>>
  OBVIOUS
<1>1. <<>> \o <<a>> = <<a>>
  OBVIOUS
<1> DEFINE S == {a, b}
           x == <<a>> \o <<b>>
           y == <<a, b>>
<1>2. x \in Seq(S) /\ Len(x) = 2 /\ x[1] = a /\ x[2] = b
  OBVIOUS
<1>3. y \in Seq(S) /\ Len(y) = 2 /\ y[1] = a /\ y[2] = b
  OBVIOUS
<1> HIDE DEF x, y, S
<1>4. \A i \in 1 .. Len(x) : x[i] = y[i]
  BY <1>2, <1>3
<1>5. x = y
  BY <1>2, <1>3, <1>4, SeqEqual
<1> QED BY <1>1, <1>5 DEF x, y

\* What the result of the last request looks like.
LEMMA ResultHeard ==
    ASSUME NEW w, Hears(w), state.pc = "response", ~state.suppress_wait, Len(w) > 0
    PROVE  Len(w) = 1 /\ up = <<>> /\ (Result(w[1], state.asked) \/ w[1].type = "token")
<1>1. w # <<>>
  <2>1. w = <<>> => Len(w) = 0
    OBVIOUS
  <2> QED BY <2>1
<1> QED BY <1>1 DEF Hears, Talk, Asking, Told

\* The same, from the state that the coroutine comes to.
LEMMA Stays ==
    ASSUME Login!LoginAssumption, LoginInv, state' \in LoginState, state'.running,
             state'.pc \notin {"granted", "ended"},
           state'.suppress_wait => state'.pc = "response", Keys(state)', agent' = "idle",
           UNCHANGED <<conf, wake, Login!wire>>, trust' \in BOOLEAN,
           user_input' \in Seq({"line", "abort"}), Len(user_input') <= MaxTyped,
           trust' \/ (state'.header /\ state'.pc \in {"ki_prompt", "ki_reply"}),
           queue' \in Seq(Downs), banner' \in 0 .. BannerLimit, up' \in Seq(Ups), Len(up') <= 2,
           NEW v, v \in Seq(Downs), Says(queue' \o down', v), Talk(state', v, up', server)
    PROVE  LoginInv'
<1>1. Moved
  BY DEF Moved, Steady, Trusted, Login!AgentHeard
<1>2. state'.running /\ state'.pc # "granted"
  OBVIOUS
<1>3. Hears(v)'
  BY DEF Hears, Login!wire
<1> QED BY <1>1, <1>2, <1>3, Assembled

\* The username is known or has to be asked for.
LEMMA UsernameKeeps ==
    ASSUME Login!LoginAssumption, LoginInv, Login!Username
    PROVE  LoginInv'
<1>1. state.running /\ state.pc = "username"
  BY DEF Login!Username, Login!At, Login!Prompts
<1>2. Control /\ Traffic /\ state \in LoginState /\ ~Login!Over
  BY <1>1, StillLogin
<1>3. PICK w : Hears(w)
  BY <1>1, StillLogin
<1>4. ~state.suppress_wait /\ agent = "idle" /\ trust
  BY <1>1, <1>2 DEF Control, Steady, Login!AgentHeard, Login!AgentWaits, Trusted, Login!Prompts
<1>5. UNCHANGED <<conf, wake, Login!wire>> /\ down' = down /\ server' = server /\
        UNCHANGED user_input
  BY DEF Login!Username, Login!At, Login!wire, Login!InfoRequest, Login!Try
<1>6. \/ (state' = [state EXCEPT !.pc = "none"] /\ UNCHANGED <<queue, banner, trust, agent,
           up>>)
      \/ (state' = [state EXCEPT !.pc = "login", !.need = 1] /\ UNCHANGED <<queue, banner,
           trust, agent, up>>)
  BY <1>1, <1>2, <1>4 DEF Login!Username, Login!At, Login!Got, Login!Try, Login!Request
<1>7. CASE state' = [state EXCEPT !.pc = "none"] /\ UNCHANGED <<queue, banner, trust, agent,
             up>>
  <2>1. state' \in LoginState
    <3>1. "none" \in Pcs
      BY <1>2, PcNames DEF LoginState, Requests
    <3> QED BY <1>2, <1>7, <3>1 DEF LoginState, Login!At
  <2>2. Goes("none", state.asked, state.gss, state.header, state.suppress_wait)
    BY <1>1, <1>2, <1>7, <2>1 DEF LoginState, Goes, Login!At
  <2>3. Keys(state)'
    <3>1. SameKeys /\ state'.pc = "none" /\ state'.can = state.can
      BY <1>2, <1>7, <2>1, <2>2 DEF LoginState, SameKeys, Goes, Login!At
    <3> QED BY <1>1, <1>2, <1>5, <3>1, KeysStay DEF Early
  <2>4. queue' \in Seq(Downs) /\ banner' \in 0 .. BannerLimit /\ w \in Seq(Downs) /\
          Says(queue' \o down', w)
    BY <1>2, <1>3, <1>5, <1>7 DEF Traffic, Hears
  <2>5. Silent(w, up)
    BY <1>1, <1>3, <1>4, <1>7, <2>4 DEF Hears, Talk, Silent, Asking, Told, Quiet, Login!Prompts
  <2>6. up' = up /\ up' \in Seq(Ups) /\ Len(up') <= 2
    BY <1>2, <1>7 DEF Traffic
  <2>7. Talk(state', w, up', server)
    BY <1>1, <1>4, <1>7, <2>2, <2>4, <2>5, <2>6 DEF Goes, Talk, Silent, Asking, Told, Quiet,
       Login!Prompts
  <2>8. trust' \in BOOLEAN /\ agent' = "idle" /\ user_input' \in Seq({"line", "abort"}) /\
          Len(user_input') <= MaxTyped
    BY <1>2, <1>4, <1>5, <1>7 DEF Control
  <2>9. trust'
    BY <1>1, <1>2, <1>4, <1>7, <2>4, <2>5, <2>2 DEF Control, Trusted
  <2> QED BY <1>1, <1>4, <1>5, <2>2, <2>3, <2>4, <2>6, <2>7, <2>8, <2>9, GoesOn DEF Goes
<1>8. CASE state' = [state EXCEPT !.pc = "login", !.need = 1] /\ UNCHANGED <<queue, banner,
             trust, agent, up>>
  <2>1. state' \in LoginState
    <3>1. "login" \in Pcs /\ 1 \in 0 .. 3
      BY <1>2, PcNames DEF LoginState, Requests
    <3> QED BY <1>2, <1>8, <3>1 DEF LoginState, Login!At
  <2>2. Goes("login", state.asked, state.gss, state.header, state.suppress_wait)
    BY <1>1, <1>2, <1>8, <2>1 DEF LoginState, Goes, Login!At
  <2>3. Keys(state)'
    <3>1. SameKeys /\ state'.pc = "login" /\ state'.can = state.can
      BY <1>2, <1>8, <2>1, <2>2 DEF LoginState, SameKeys, Goes, Login!At
    <3> QED BY <1>1, <1>2, <1>5, <3>1, KeysStay DEF Early
  <2>4. queue' \in Seq(Downs) /\ banner' \in 0 .. BannerLimit /\ w \in Seq(Downs) /\
          Says(queue' \o down', w)
    BY <1>2, <1>3, <1>5, <1>8 DEF Traffic, Hears
  <2>5. Silent(w, up)
    BY <1>1, <1>3, <1>4, <1>8, <2>4 DEF Hears, Talk, Silent, Asking, Told, Quiet, Login!Prompts
  <2>6. up' = up /\ up' \in Seq(Ups) /\ Len(up') <= 2
    BY <1>2, <1>8 DEF Traffic
  <2>7. Talk(state', w, up', server)
    BY <1>1, <1>4, <1>8, <2>2, <2>4, <2>5, <2>6 DEF Goes, Talk, Silent, Asking, Told, Quiet,
       Login!Prompts
  <2>8. trust' \in BOOLEAN /\ agent' = "idle" /\ user_input' \in Seq({"line", "abort"}) /\
          Len(user_input') <= MaxTyped
    BY <1>2, <1>4, <1>5, <1>8 DEF Control
  <2>9. trust'
    BY <1>1, <1>2, <1>4, <1>8, <2>4, <2>5, <2>2 DEF Control, Trusted
  <2> QED BY <1>1, <1>4, <1>5, <2>2, <2>3, <2>4, <2>6, <2>7, <2>8, <2>9, GoesOn DEF Goes
<1> QED BY <1>6, <1>7, <1>8

\* GSSAPI key exchange is tried.
LEMMA TryKeyExKeeps ==
    ASSUME Login!LoginAssumption, LoginInv, Login!TryKeyEx
    PROVE  LoginInv'
<1>1. state.running /\ state.pc = "choose"
  BY DEF Login!TryKeyEx, Login!At, Login!Try, Login!Prompts
<1>2. Control /\ Traffic /\ state \in LoginState /\ ~Login!Over
  BY <1>1, StillLogin
<1>3. PICK w : Hears(w)
  BY <1>1, StillLogin
<1>4. ~state.suppress_wait /\ agent = "idle" /\ trust
  BY <1>1, <1>2 DEF Control, Steady, Login!AgentHeard, Login!AgentWaits, Trusted, Login!Prompts
<1>5. UNCHANGED <<conf, wake, Login!wire>> /\ down' = down /\ server' = server /\
        UNCHANGED user_input
  BY DEF Login!TryKeyEx, Login!At, Login!Try, Login!wire, Login!InfoRequest, Login!Try
<1>6. \/ (state' = [[state EXCEPT !.type = "gssapi",
           !.tried = @ \cup {"keyex"}] EXCEPT !.pc = "response", !.asked = "keyex"] /\
           UNCHANGED <<queue, banner, trust, agent>> /\ Login!Send(Login!Request("keyex")))
  BY <1>1, <1>2, <1>4 DEF Login!TryKeyEx, Login!At, Login!Try, Login!Got, Login!Try,
     Login!Request
<1>7. CASE state' = [[state EXCEPT !.type = "gssapi",
             !.tried = @ \cup {"keyex"}] EXCEPT !.pc = "response", !.asked = "keyex"] /\
             UNCHANGED <<queue, banner, trust, agent>> /\ Login!Send(Login!Request("keyex"))
  <2>1. state' \in LoginState
    <3>1. "response" \in Pcs /\ "keyex" \in Requests \cup {"nothing"} /\
            state.tried \cup {"keyex"} \in SUBSET {"keyex", "gssapi", "file", "ki"}
      BY <1>2, PcNames DEF LoginState, Requests
    <3> QED BY <1>2, <1>7, <3>1 DEF LoginState, Login!At
  <2>2. Goes("response", "keyex", state.gss, state.header, state.suppress_wait)
    BY <1>1, <1>2, <1>7, <2>1 DEF LoginState, Goes, Login!At
  <2>3. Keys(state)'
    <3>1. SameKeys /\ state'.pc = "response" /\ state'.can = state.can
      BY <1>2, <1>7, <2>1, <2>2 DEF LoginState, SameKeys, Goes, Login!At
    <3> QED BY <1>1, <1>2, <1>5, <3>1, KeysStay DEF Early
  <2>4. queue' \in Seq(Downs) /\ banner' \in 0 .. BannerLimit /\ w \in Seq(Downs) /\
          Says(queue' \o down', w)
    BY <1>2, <1>3, <1>5, <1>7 DEF Traffic, Hears
  <2>5. Silent(w, up)
    BY <1>1, <1>3, <1>4, <1>7, <2>4 DEF Hears, Talk, Silent, Asking, Told, Quiet,
       Login!Prompts, Login!Request
  <2>6. up' = <<Login!Request("keyex")>> /\ up' \in Seq(Ups) /\ Len(up') <= 2
    <3>1. up = <<>> /\ Login!Request("keyex") \in Ups
      BY <2>5, RequestNames DEF Silent, Requests, Ups
    <3> QED BY <1>7, <3>1, SendOne
  <2>7. Talk(state', w, up', server)
    BY <1>1, <1>4, <1>7, <2>2, <2>4, <2>5, <2>6 DEF Goes, Talk, Silent, Asking, Told, Quiet,
       Login!Prompts, Login!Request
  <2>8. trust' \in BOOLEAN /\ agent' = "idle" /\ user_input' \in Seq({"line", "abort"}) /\
          Len(user_input') <= MaxTyped
    BY <1>2, <1>4, <1>5, <1>7 DEF Control
  <2>9. trust'
    BY <1>1, <1>2, <1>4, <1>7, <2>4, <2>5, <2>2 DEF Control, Trusted, Login!Request
  <2> QED BY <1>1, <1>4, <1>5, <2>2, <2>3, <2>4, <2>6, <2>7, <2>8, <2>9, GoesOn DEF Goes
<1> QED BY <1>6, <1>7

\* One of the agent's keys is offered.
LEMMA TryAgentKeyKeeps ==
    ASSUME Login!LoginAssumption, LoginInv, Login!TryAgentKey
    PROVE  LoginInv'
<1>1. state.running /\ state.pc = "choose"
  BY DEF Login!TryAgentKey, Login!At, Login!Try, Login!Prompts
<1>2. Control /\ Traffic /\ state \in LoginState /\ ~Login!Over
  BY <1>1, StillLogin
<1>3. PICK w : Hears(w)
  BY <1>1, StillLogin
<1>4. ~state.suppress_wait /\ agent = "idle" /\ trust
  BY <1>1, <1>2 DEF Control, Steady, Login!AgentHeard, Login!AgentWaits, Trusted, Login!Prompts
<1>5. UNCHANGED <<conf, wake, Login!wire>> /\ down' = down /\ server' = server /\
        UNCHANGED user_input
  BY DEF Login!TryAgentKey, Login!At, Login!Try, Login!wire, Login!InfoRequest, Login!Try
<1>6. \/ (state' = [[state EXCEPT !.type = "offer"] EXCEPT !.pc = "agent_offer",
           !.asked = "offer"] /\ UNCHANGED <<queue, banner, trust, agent>> /\
           Login!Send(Login!Request("offer")) /\ Login!Chosen = "agent")
  BY <1>1, <1>2, <1>4 DEF Login!TryAgentKey, Login!At, Login!Try, Login!Got, Login!Try,
     Login!Request
<1>7. CASE state' = [[state EXCEPT !.type = "offer"] EXCEPT !.pc = "agent_offer",
             !.asked = "offer"] /\ UNCHANGED <<queue, banner, trust, agent>> /\
             Login!Send(Login!Request("offer")) /\ Login!Chosen = "agent"
  <2>1. state' \in LoginState
    <3>1. "agent_offer" \in Pcs /\ "offer" \in Requests \cup {"nothing"}
      BY <1>2, PcNames DEF LoginState, Requests
    <3> QED BY <1>2, <1>7, <3>1 DEF LoginState, Login!At
  <2>2. Goes("agent_offer", "offer", state.gss, state.header, state.suppress_wait)
    BY <1>1, <1>2, <1>7, <2>1 DEF LoginState, Goes, Login!At
  <2>3. Keys(state)'
    <3>1. SameKeys /\ state'.pc = "agent_offer" /\ state'.can = state.can
      BY <1>2, <1>7, <2>1, <2>2 DEF LoginState, SameKeys, Goes, Login!At
    <3>2. state.key < state.limit
      BY <1>7 DEF Login!Chosen, Login!AgentKey
    <3> QED BY <1>1, <1>2, <1>5, <3>1, <3>2, KeysStay DEF Early
  <2>4. queue' \in Seq(Downs) /\ banner' \in 0 .. BannerLimit /\ w \in Seq(Downs) /\
          Says(queue' \o down', w)
    BY <1>2, <1>3, <1>5, <1>7 DEF Traffic, Hears
  <2>5. Silent(w, up)
    BY <1>1, <1>3, <1>4, <1>7, <2>4 DEF Hears, Talk, Silent, Asking, Told, Quiet,
       Login!Prompts, Login!Request
  <2>6. up' = <<Login!Request("offer")>> /\ up' \in Seq(Ups) /\ Len(up') <= 2
    <3>1. up = <<>> /\ Login!Request("offer") \in Ups
      BY <2>5, RequestNames DEF Silent, Requests, Ups
    <3> QED BY <1>7, <3>1, SendOne
  <2>7. Talk(state', w, up', server)
    BY <1>1, <1>4, <1>7, <2>2, <2>4, <2>5, <2>6 DEF Goes, Talk, Silent, Asking, Told, Quiet,
       Login!Prompts, Login!Request
  <2>8. trust' \in BOOLEAN /\ agent' = "idle" /\ user_input' \in Seq({"line", "abort"}) /\
          Len(user_input') <= MaxTyped
    BY <1>2, <1>4, <1>5, <1>7 DEF Control
  <2>9. trust'
    BY <1>1, <1>2, <1>4, <1>7, <2>4, <2>5, <2>2 DEF Control, Trusted, Login!Request
  <2> QED BY <1>1, <1>4, <1>5, <2>2, <2>3, <2>4, <2>6, <2>7, <2>8, <2>9, GoesOn DEF Goes
<1> QED BY <1>6, <1>7

\* The key file is offered.
LEMMA TryFileKeyKeeps ==
    ASSUME Login!LoginAssumption, LoginInv, Login!TryFileKey
    PROVE  LoginInv'
<1>1. state.running /\ state.pc = "choose"
  BY DEF Login!TryFileKey, Login!At, Login!Try, Login!Prompts
<1>2. Control /\ Traffic /\ state \in LoginState /\ ~Login!Over
  BY <1>1, StillLogin
<1>3. PICK w : Hears(w)
  BY <1>1, StillLogin
<1>4. ~state.suppress_wait /\ agent = "idle" /\ trust
  BY <1>1, <1>2 DEF Control, Steady, Login!AgentHeard, Login!AgentWaits, Trusted, Login!Prompts
<1>5. UNCHANGED <<conf, wake, Login!wire>> /\ down' = down /\ server' = server /\
        UNCHANGED user_input
  BY DEF Login!TryFileKey, Login!At, Login!Try, Login!wire, Login!InfoRequest, Login!Try
<1>6. \/ (state' = [[state EXCEPT !.tried = @ \cup {"file"}] EXCEPT !.pc = "file_offer",
           !.asked = "offer"] /\ UNCHANGED <<queue, banner, trust, agent>> /\
           Login!Send(Login!Request("offer")))
  BY <1>1, <1>2, <1>4 DEF Login!TryFileKey, Login!At, Login!Try, Login!Got, Login!Try,
     Login!Request
<1>7. CASE state' = [[state EXCEPT !.tried = @ \cup {"file"}] EXCEPT !.pc = "file_offer",
             !.asked = "offer"] /\ UNCHANGED <<queue, banner, trust, agent>> /\
             Login!Send(Login!Request("offer"))
  <2>1. state' \in LoginState
    <3>1. "file_offer" \in Pcs /\ "offer" \in Requests \cup {"nothing"} /\
            state.tried \cup {"file"} \in SUBSET {"keyex", "gssapi", "file", "ki"}
      BY <1>2, PcNames DEF LoginState, Requests
    <3> QED BY <1>2, <1>7, <3>1 DEF LoginState, Login!At
  <2>2. Goes("file_offer", "offer", state.gss, state.header, state.suppress_wait)
    BY <1>1, <1>2, <1>7, <2>1 DEF LoginState, Goes, Login!At
  <2>3. Keys(state)'
    <3>1. SameKeys /\ state'.pc = "file_offer" /\ state'.can = state.can
      BY <1>2, <1>7, <2>1, <2>2 DEF LoginState, SameKeys, Goes, Login!At
    <3> QED BY <1>1, <1>2, <1>5, <3>1, KeysStay DEF Early
  <2>4. queue' \in Seq(Downs) /\ banner' \in 0 .. BannerLimit /\ w \in Seq(Downs) /\
          Says(queue' \o down', w)
    BY <1>2, <1>3, <1>5, <1>7 DEF Traffic, Hears
  <2>5. Silent(w, up)
    BY <1>1, <1>3, <1>4, <1>7, <2>4 DEF Hears, Talk, Silent, Asking, Told, Quiet,
       Login!Prompts, Login!Request
  <2>6. up' = <<Login!Request("offer")>> /\ up' \in Seq(Ups) /\ Len(up') <= 2
    <3>1. up = <<>> /\ Login!Request("offer") \in Ups
      BY <2>5, RequestNames DEF Silent, Requests, Ups
    <3> QED BY <1>7, <3>1, SendOne
  <2>7. Talk(state', w, up', server)
    BY <1>1, <1>4, <1>7, <2>2, <2>4, <2>5, <2>6 DEF Goes, Talk, Silent, Asking, Told, Quiet,
       Login!Prompts, Login!Request
  <2>8. trust' \in BOOLEAN /\ agent' = "idle" /\ user_input' \in Seq({"line", "abort"}) /\
          Len(user_input') <= MaxTyped
    BY <1>2, <1>4, <1>5, <1>7 DEF Control
  <2>9. trust'
    BY <1>1, <1>2, <1>4, <1>7, <2>4, <2>5, <2>2 DEF Control, Trusted, Login!Request
  <2> QED BY <1>1, <1>4, <1>5, <2>2, <2>3, <2>4, <2>6, <2>7, <2>8, <2>9, GoesOn DEF Goes
<1> QED BY <1>6, <1>7

\* GSSAPI is tried.
LEMMA TryGssKeeps ==
    ASSUME Login!LoginAssumption, LoginInv, Login!TryGss
    PROVE  LoginInv'
<1>1. state.running /\ state.pc = "choose"
  BY DEF Login!TryGss, Login!At, Login!Try, Login!Prompts
<1>2. Control /\ Traffic /\ state \in LoginState /\ ~Login!Over
  BY <1>1, StillLogin
<1>3. PICK w : Hears(w)
  BY <1>1, StillLogin
<1>4. ~state.suppress_wait /\ agent = "idle" /\ trust
  BY <1>1, <1>2 DEF Control, Steady, Login!AgentHeard, Login!AgentWaits, Trusted, Login!Prompts
<1>5. UNCHANGED <<conf, wake, Login!wire>> /\ down' = down /\ server' = server /\
        UNCHANGED user_input
  BY DEF Login!TryGss, Login!At, Login!Try, Login!wire, Login!InfoRequest, Login!Try
<1>6. \/ (state' = [[state EXCEPT !.type = "gssapi", !.tried = @ \cup {"gssapi"},
           !.gss = "first"] EXCEPT !.pc = "gss_request", !.asked = "gssapi"] /\
           UNCHANGED <<queue, banner, trust, agent>> /\ Login!Send(Login!Request("gssapi")))
  BY <1>1, <1>2, <1>4 DEF Login!TryGss, Login!At, Login!Try, Login!Got, Login!Try, Login!Request
<1>7. CASE state' = [[state EXCEPT !.type = "gssapi", !.tried = @ \cup {"gssapi"},
             !.gss = "first"] EXCEPT !.pc = "gss_request", !.asked = "gssapi"] /\
             UNCHANGED <<queue, banner, trust, agent>> /\ Login!Send(Login!Request("gssapi"))
  <2>1. state' \in LoginState
    <3>1. "gss_request" \in Pcs /\ "gssapi" \in Requests \cup {"nothing"} /\
            state.tried \cup {"gssapi"} \in SUBSET {"keyex", "gssapi", "file", "ki"}
      BY <1>2, PcNames DEF LoginState, Requests
    <3> QED BY <1>2, <1>7, <3>1 DEF LoginState, Login!At
  <2>2. Goes("gss_request", "gssapi", "first", state.header, state.suppress_wait)
    BY <1>1, <1>2, <1>7, <2>1 DEF LoginState, Goes, Login!At
  <2>3. Keys(state)'
    <3>1. SameKeys /\ state'.pc = "gss_request" /\ state'.can = state.can
      BY <1>2, <1>7, <2>1, <2>2 DEF LoginState, SameKeys, Goes, Login!At
    <3> QED BY <1>1, <1>2, <1>5, <3>1, KeysStay DEF Early
  <2>4. queue' \in Seq(Downs) /\ banner' \in 0 .. BannerLimit /\ w \in Seq(Downs) /\
          Says(queue' \o down', w)
    BY <1>2, <1>3, <1>5, <1>7 DEF Traffic, Hears
  <2>5. Silent(w, up)
    BY <1>1, <1>3, <1>4, <1>7, <2>4 DEF Hears, Talk, Silent, Asking, Told, Quiet,
       Login!Prompts, Login!Request
  <2>6. up' = <<Login!Request("gssapi")>> /\ up' \in Seq(Ups) /\ Len(up') <= 2
    <3>1. up = <<>> /\ Login!Request("gssapi") \in Ups
      BY <2>5, RequestNames DEF Silent, Requests, Ups
    <3> QED BY <1>7, <3>1, SendOne
  <2>7. Talk(state', w, up', server)
    BY <1>1, <1>4, <1>7, <2>2, <2>4, <2>5, <2>6 DEF Goes, Talk, Silent, Asking, Told, Quiet,
       Login!Prompts, Login!Request
  <2>8. trust' \in BOOLEAN /\ agent' = "idle" /\ user_input' \in Seq({"line", "abort"}) /\
          Len(user_input') <= MaxTyped
    BY <1>2, <1>4, <1>5, <1>7 DEF Control
  <2>9. trust'
    BY <1>1, <1>2, <1>4, <1>7, <2>4, <2>5, <2>2 DEF Control, Trusted, Login!Request
  <2> QED BY <1>1, <1>4, <1>5, <2>2, <2>3, <2>4, <2>6, <2>7, <2>8, <2>9, GoesOn DEF Goes
<1> QED BY <1>6, <1>7

\* Keyboard-interactive is tried.
LEMMA TryKbdInterKeeps ==
    ASSUME Login!LoginAssumption, LoginInv, Login!TryKbdInter
    PROVE  LoginInv'
<1>1. state.running /\ state.pc = "choose"
  BY DEF Login!TryKbdInter, Login!At, Login!Try, Login!Prompts
<1>2. Control /\ Traffic /\ state \in LoginState /\ ~Login!Over
  BY <1>1, StillLogin
<1>3. PICK w : Hears(w)
  BY <1>1, StillLogin
<1>4. ~state.suppress_wait /\ agent = "idle" /\ trust
  BY <1>1, <1>2 DEF Control, Steady, Login!AgentHeard, Login!AgentWaits, Trusted, Login!Prompts
<1>5. UNCHANGED <<conf, wake, Login!wire>> /\ down' = down /\ server' = server /\
        UNCHANGED user_input
  BY DEF Login!TryKbdInter, Login!At, Login!Try, Login!wire, Login!InfoRequest, Login!Try
<1>6. \/ (state' = [[state EXCEPT !.type = "ki", !.header = FALSE] EXCEPT !.pc = "ki_request",
           !.asked = "ki"] /\ UNCHANGED <<queue, banner, trust, agent>> /\
           Login!Send(Login!Request("ki")))
  BY <1>1, <1>2, <1>4 DEF Login!TryKbdInter, Login!At, Login!Try, Login!Got, Login!Try,
     Login!Request
<1>7. CASE state' = [[state EXCEPT !.type = "ki", !.header = FALSE] EXCEPT !.pc = "ki_request",
             !.asked = "ki"] /\ UNCHANGED <<queue, banner, trust, agent>> /\
             Login!Send(Login!Request("ki"))
  <2>1. state' \in LoginState
    <3>1. "ki_request" \in Pcs /\ "ki" \in Requests \cup {"nothing"}
      BY <1>2, PcNames DEF LoginState, Requests
    <3> QED BY <1>2, <1>7, <3>1 DEF LoginState, Login!At
  <2>2. Goes("ki_request", "ki", state.gss, FALSE, state.suppress_wait)
    BY <1>1, <1>2, <1>7, <2>1 DEF LoginState, Goes, Login!At
  <2>3. Keys(state)'
    <3>1. SameKeys /\ state'.pc = "ki_request" /\ state'.can = state.can
      BY <1>2, <1>7, <2>1, <2>2 DEF LoginState, SameKeys, Goes, Login!At
    <3> QED BY <1>1, <1>2, <1>5, <3>1, KeysStay DEF Early
  <2>4. queue' \in Seq(Downs) /\ banner' \in 0 .. BannerLimit /\ w \in Seq(Downs) /\
          Says(queue' \o down', w)
    BY <1>2, <1>3, <1>5, <1>7 DEF Traffic, Hears
  <2>5. Silent(w, up)
    BY <1>1, <1>3, <1>4, <1>7, <2>4 DEF Hears, Talk, Silent, Asking, Told, Quiet,
       Login!Prompts, Login!Request
  <2>6. up' = <<Login!Request("ki")>> /\ up' \in Seq(Ups) /\ Len(up') <= 2
    <3>1. up = <<>> /\ Login!Request("ki") \in Ups
      BY <2>5, RequestNames DEF Silent, Requests, Ups
    <3> QED BY <1>7, <3>1, SendOne
  <2>7. Talk(state', w, up', server)
    BY <1>1, <1>4, <1>7, <2>2, <2>4, <2>5, <2>6 DEF Goes, Talk, Silent, Asking, Told, Quiet,
       Login!Prompts, Login!Request
  <2>8. trust' \in BOOLEAN /\ agent' = "idle" /\ user_input' \in Seq({"line", "abort"}) /\
          Len(user_input') <= MaxTyped
    BY <1>2, <1>4, <1>5, <1>7 DEF Control
  <2>9. trust'
    BY <1>1, <1>2, <1>4, <1>7, <2>4, <2>5, <2>2 DEF Control, Trusted, Login!Request
  <2> QED BY <1>1, <1>4, <1>5, <2>2, <2>3, <2>4, <2>6, <2>7, <2>8, <2>9, GoesOn DEF Goes
<1> QED BY <1>6, <1>7

\* The methods are asked for.
LEMMA RequestNoneKeeps ==
    ASSUME Login!LoginAssumption, LoginInv, Login!RequestNone
    PROVE  LoginInv'
<1>1. state.running /\ state.pc \in {"login", "none"}
  BY DEF Login!RequestNone, Login!At, Login!Answered, Login!Prompts
<1>2. Control /\ Traffic /\ state \in LoginState /\ ~Login!Over
  BY <1>1, StillLogin
<1>3. PICK w : Hears(w)
  BY <1>1, StillLogin
<1>4. ~state.suppress_wait /\ agent = "idle" /\ trust
  BY <1>1, <1>2 DEF Control, Steady, Login!AgentHeard, Login!AgentWaits, Trusted, Login!Prompts
<1>5. UNCHANGED <<conf, wake, Login!wire>> /\ down' = down /\ server' = server /\
        UNCHANGED user_input
  BY DEF Login!RequestNone, Login!At, Login!Answered, Login!wire, Login!InfoRequest, Login!Try
<1>6. \/ (state' = [state EXCEPT !.pc = "response", !.asked = "none", !.type = "none",
           !.need = 0, !.got_username = TRUE, !.done_agent = FALSE, !.tried = @ \ {"file",
           "ki"}] /\ UNCHANGED <<queue, banner, trust, agent>> /\
           Login!Send(Login!Request("none")))
  BY <1>1, <1>2, <1>4 DEF Login!RequestNone, Login!At, Login!Answered, Login!Got, Login!Try,
     Login!Request
<1>7. CASE state' = [state EXCEPT !.pc = "response", !.asked = "none", !.type = "none",
             !.need = 0, !.got_username = TRUE, !.done_agent = FALSE, !.tried = @ \ {"file",
             "ki"}] /\ UNCHANGED <<queue, banner, trust, agent>> /\
             Login!Send(Login!Request("none"))
  <2>1. state' \in LoginState
    <3>1. "response" \in Pcs /\ "none" \in Requests \cup {"nothing"} /\ 0 \in 0 .. 3 /\
            state.tried \ {"file", "ki"} \in SUBSET {"keyex", "gssapi", "file", "ki"}
      BY <1>2, PcNames DEF LoginState, Requests
    <3> QED BY <1>2, <1>7, <3>1 DEF LoginState, Login!At
  <2>2. Goes("response", "none", state.gss, state.header, state.suppress_wait)
    BY <1>1, <1>2, <1>7, <2>1 DEF LoginState, Goes, Login!At
  <2>3. Keys(state)'
    <3>1. state'.key = state.key /\ state'.limit = state.limit /\ state'.pc = "response"
      BY <1>2, <1>7, <2>1 DEF LoginState
    <3> QED BY <1>1, <1>2, <1>5, <3>1 DEF Control, Keys
  <2>4. queue' \in Seq(Downs) /\ banner' \in 0 .. BannerLimit /\ w \in Seq(Downs) /\
          Says(queue' \o down', w)
    BY <1>2, <1>3, <1>5, <1>7 DEF Traffic, Hears
  <2>5. Silent(w, up)
    BY <1>1, <1>3, <1>4, <1>7, <2>4 DEF Hears, Talk, Silent, Asking, Told, Quiet,
       Login!Prompts, Login!Request
  <2>6. up' = <<Login!Request("none")>> /\ up' \in Seq(Ups) /\ Len(up') <= 2
    <3>1. up = <<>> /\ Login!Request("none") \in Ups
      BY <2>5, RequestNames DEF Silent, Requests, Ups
    <3> QED BY <1>7, <3>1, SendOne
  <2>7. Talk(state', w, up', server)
    BY <1>1, <1>4, <1>7, <2>2, <2>4, <2>5, <2>6 DEF Goes, Talk, Silent, Asking, Told, Quiet,
       Login!Prompts, Login!Request
  <2>8. trust' \in BOOLEAN /\ agent' = "idle" /\ user_input' \in Seq({"line", "abort"}) /\
          Len(user_input') <= MaxTyped
    BY <1>2, <1>4, <1>5, <1>7 DEF Control
  <2>9. trust'
    BY <1>1, <1>2, <1>4, <1>7, <2>4, <2>5, <2>2 DEF Control, Trusted, Login!Request
  <2> QED BY <1>1, <1>4, <1>5, <2>2, <2>3, <2>4, <2>6, <2>7, <2>8, <2>9, GoesOn DEF Goes
<1> QED BY <1>6, <1>7

\* The password is asked for, or no method is left.
LEMMA TryPasswordKeeps ==
    ASSUME Login!LoginAssumption, LoginInv, Login!TryPassword
    PROVE  LoginInv'
<1>1. state.running /\ state.pc = "choose"
  BY DEF Login!TryPassword, Login!At, Login!Prompts
<1>2. Control /\ Traffic /\ state \in LoginState /\ ~Login!Over
  BY <1>1, StillLogin
<1>3. PICK w : Hears(w)
  BY <1>1, StillLogin
<1>4. ~state.suppress_wait /\ agent = "idle" /\ trust
  BY <1>1, <1>2 DEF Control, Steady, Login!AgentHeard, Login!AgentWaits, Trusted, Login!Prompts
<1>5. UNCHANGED <<conf, wake, Login!wire>> /\ down' = down /\ server' = server /\
        UNCHANGED user_input
  BY DEF Login!TryPassword, Login!At, Login!wire, Login!InfoRequest, Login!Try
<1>6. \/ (Login!Chosen = "password" /\ state' = [state EXCEPT !.pc = "password", !.need = 1] /\
           UNCHANGED <<queue, banner, trust, agent, up>>)
      \/ (state' = Login!Ended /\ UNCHANGED <<queue, banner, trust, agent, up>>)
  BY <1>1, <1>2, <1>4 DEF Login!TryPassword, Login!At, Login!Got, Login!Try, Login!Request
<1>7. CASE Login!Chosen = "password" /\ state' = [state EXCEPT !.pc = "password",
             !.need = 1] /\ UNCHANGED <<queue, banner, trust, agent, up>>
  <2>1. state' \in LoginState
    <3>1. "password" \in Pcs /\ 1 \in 0 .. 3
      BY <1>2, PcNames DEF LoginState, Requests
    <3> QED BY <1>2, <1>7, <3>1 DEF LoginState, Login!At
  <2>2. Goes("password", state.asked, state.gss, state.header, state.suppress_wait)
    BY <1>1, <1>2, <1>7, <2>1 DEF LoginState, Goes, Login!At
  <2>3. Keys(state)'
    <3>1. SameKeys /\ state'.pc = "password" /\ state'.can = state.can
      BY <1>2, <1>7, <2>1, <2>2 DEF LoginState, SameKeys, Goes, Login!At
    <3>2. ~conf.change /\ "publickey" \in state.can /\ state.limit > 0 => state.done_agent
      BY <1>2, <1>7 DEF Login!Chosen, Login!AgentKey, Control, Keys
    <3> QED BY <1>1, <1>2, <1>5, <3>1, <3>2, KeysStay DEF Early
  <2>4. queue' \in Seq(Downs) /\ banner' \in 0 .. BannerLimit /\ w \in Seq(Downs) /\
          Says(queue' \o down', w)
    BY <1>2, <1>3, <1>5, <1>7 DEF Traffic, Hears
  <2>5. Silent(w, up)
    BY <1>1, <1>3, <1>4, <1>7, <2>4 DEF Hears, Talk, Silent, Asking, Told, Quiet, Login!Prompts
  <2>6. up' = up /\ up' \in Seq(Ups) /\ Len(up') <= 2
    BY <1>2, <1>7 DEF Traffic
  <2>7. Talk(state', w, up', server)
    BY <1>1, <1>4, <1>7, <2>2, <2>4, <2>5, <2>6 DEF Goes, Talk, Silent, Asking, Told, Quiet,
       Login!Prompts
  <2>8. trust' \in BOOLEAN /\ agent' = "idle" /\ user_input' \in Seq({"line", "abort"}) /\
          Len(user_input') <= MaxTyped
    BY <1>2, <1>4, <1>5, <1>7 DEF Control
  <2>9. trust'
    BY <1>1, <1>2, <1>4, <1>7, <2>4, <2>5, <2>2 DEF Control, Trusted
  <2> QED BY <1>1, <1>4, <1>5, <2>2, <2>3, <2>4, <2>6, <2>7, <2>8, <2>9, GoesOn DEF Goes
<1>8. CASE state' = Login!Ended /\ UNCHANGED <<queue, banner, trust, agent, up>>
  <2>1. queue' \in Seq(Downs) /\ banner' \in 0 .. BannerLimit
    BY <1>2, <1>8 DEF Traffic
  <2>2. up' \in Seq(Ups) /\ Len(up') <= 2
    BY <1>2, <1>8 DEF Traffic
  <2>3. agent' = "idle" /\ trust' = trust /\ user_input' \in Seq({"line", "abort"}) /\
          Len(user_input') <= MaxTyped
    BY <1>2, <1>4, <1>5, <1>8 DEF Control
  <2> QED BY <1>1, <1>4, <1>5, <1>8, <2>1, <2>2, <2>3, EndsHere
<1> QED BY <1>6, <1>7, <1>8

\* The server takes the key of the file, or does not.
LEMMA FileOfferKeeps ==
    ASSUME Login!LoginAssumption, LoginInv, Login!FileOffer
    PROVE  LoginInv'
<1>1. state.running /\ state.pc = "file_offer"
  BY DEF Login!FileOffer, Login!At, Login!Got, Login!Prompts
<1>2. Control /\ Traffic /\ state \in LoginState /\ ~Login!Over
  BY <1>1, StillLogin
<1>3. PICK w : Hears(w)
  BY <1>1, StillLogin
<1>4. ~state.suppress_wait /\ agent = "idle" /\ trust
  BY <1>1, <1>2 DEF Control, Steady, Login!AgentHeard, Login!AgentWaits, Trusted, Login!Prompts
<1>5. UNCHANGED <<conf, wake, Login!wire>> /\ down' = down /\ server' = server /\
        UNCHANGED user_input
  BY DEF Login!FileOffer, Login!At, Login!Got, Login!wire, Login!InfoRequest, Login!Try
<1>6. \/ (Login!Filtered # <<>> /\ Login!pktin.type = "pk_ok" /\ Login!ssh2_userauth_pop /\
           state' = Login!Passphrase /\ UNCHANGED <<trust, agent, up>>)
      \/ (Login!Filtered # <<>> /\ Login!pktin.type # "pk_ok" /\
           Login!ssh2_userauth_filter_queue /\ state' = [state EXCEPT !.pc = "response",
           !.type = "offer"] /\ UNCHANGED <<trust, agent, up>>)
  BY <1>1, <1>2, <1>4 DEF Login!FileOffer, Login!At, Login!Got, Login!Got, Login!Try,
     Login!Request
<1>7. CASE Login!Filtered # <<>> /\ Login!pktin.type = "pk_ok" /\ Login!ssh2_userauth_pop /\
             state' = Login!Passphrase /\ UNCHANGED <<trust, agent, up>>
  <2>1. state' \in LoginState
    <3>1. "passphrase" \in Pcs /\ 0 \in 0 .. 3 /\ 1 \in 0 .. 3
      BY <1>2, PcNames DEF LoginState, Requests
    <3> QED BY <1>2, <1>7, <3>1 DEF LoginState, Login!Passphrase
  <2>2. Goes("passphrase", state.asked, state.gss, state.header, state.suppress_wait)
    BY <1>1, <1>2, <1>7, <2>1 DEF LoginState, Goes, Login!Passphrase
  <2>3. Keys(state)'
    <3>1. SameKeys /\ state'.pc = "passphrase" /\ state'.can = state.can
      BY <1>2, <1>7, <2>1, <2>2 DEF LoginState, SameKeys, Goes, Login!Passphrase
    <3> QED BY <1>1, <1>2, <1>5, <3>1, KeysStay DEF Early
  <2>4. PICK v : /\ queue' \in Seq(Downs) /\ banner' \in 0 .. BannerLimit /\ v \in Seq(Downs)
                 /\ Says(queue' \o down', v) /\ Len(w) > 0 /\ Login!pktin = w[1]
                 /\ Len(w) = 1 => v = <<>>
                 /\ Len(w) = 2 => Len(v) = 1 /\ v[1] = w[2]
    BY <1>2, <1>3, <1>5, <1>7, PopKeeps
  <2>5. Len(w) = 1 /\ up = <<>>
    BY <1>1, <1>3, <1>4, <1>7, <2>4 DEF Hears, Talk, Silent, Asking, Told, Quiet, Login!Prompts
  <2>6. up' = up /\ up' \in Seq(Ups) /\ Len(up') <= 2
    BY <1>2, <1>7 DEF Traffic
  <2>7. Talk(state', v, up', server)
    BY <1>1, <1>4, <1>7, <2>2, <2>4, <2>5, <2>6 DEF Goes, Talk, Silent, Asking, Told, Quiet,
       Login!Prompts
  <2>8. trust' \in BOOLEAN /\ agent' = "idle" /\ user_input' \in Seq({"line", "abort"}) /\
          Len(user_input') <= MaxTyped
    BY <1>2, <1>4, <1>5, <1>7 DEF Control
  <2>9. trust'
    BY <1>1, <1>2, <1>4, <1>7, <2>4, <2>5, <2>2 DEF Control, Trusted
  <2> QED BY <1>1, <1>4, <1>5, <2>2, <2>3, <2>4, <2>6, <2>7, <2>8, <2>9, GoesOn DEF Goes
<1>8. CASE Login!Filtered # <<>> /\ Login!pktin.type # "pk_ok" /\
             Login!ssh2_userauth_filter_queue /\ state' = [state EXCEPT !.pc = "response",
             !.type = "offer"] /\ UNCHANGED <<trust, agent, up>>
  <2>1. state' \in LoginState
    <3>1. "response" \in Pcs
      BY <1>2, PcNames DEF LoginState, Requests
    <3> QED BY <1>2, <1>8, <3>1 DEF LoginState, Login!At
  <2>2. Goes("response", state.asked, state.gss, state.header, state.suppress_wait)
    BY <1>1, <1>2, <1>8, <2>1 DEF LoginState, Goes, Login!At
  <2>3. Keys(state)'
    <3>1. SameKeys /\ state'.pc = "response" /\ state'.can = state.can
      BY <1>2, <1>8, <2>1, <2>2 DEF LoginState, SameKeys, Goes, Login!At
    <3> QED BY <1>1, <1>2, <1>5, <3>1, KeysStay DEF Early
  <2>4. /\ queue' \in Seq(Downs) /\ banner' \in 0 .. BannerLimit /\ w \in Seq(Downs) /\
             Says(queue' \o down', w)
        /\ Len(w) > 0 /\ Login!pktin = w[1]
    BY <1>2, <1>3, <1>5, <1>8, FilterKeeps DEF Hears
  <2>5. Len(w) = 1 /\ up = <<>> /\ state.asked = "offer" /\ Refusal(w[1], "offer")
    BY <1>1, <1>3, <1>4, <1>8, <2>4 DEF Hears, Talk, Silent, Asking, Told, Quiet,
       Login!Prompts, Refusal, Result
  <2>6. up' = up /\ up' \in Seq(Ups) /\ Len(up') <= 2
    BY <1>2, <1>8 DEF Traffic
  <2>7. Talk(state', w, up', server)
    BY <1>1, <1>4, <1>8, <2>2, <2>4, <2>5, <2>6 DEF Goes, Talk, Silent, Asking, Told, Quiet,
       Login!Prompts, Refusal, Result
  <2>8. trust' \in BOOLEAN /\ agent' = "idle" /\ user_input' \in Seq({"line", "abort"}) /\
          Len(user_input') <= MaxTyped
    BY <1>2, <1>4, <1>5, <1>8 DEF Control
  <2>9. trust'
    BY <1>1, <1>2, <1>4, <1>8, <2>4, <2>5, <2>2 DEF Control, Trusted, Refusal, Result
  <2> QED BY <1>1, <1>4, <1>5, <2>2, <2>3, <2>4, <2>6, <2>7, <2>8, <2>9, GoesOn DEF Goes
<1> QED BY <1>6, <1>7, <1>8

\* The private key is loaded and signs, or cannot be used.
LEMMA LoadKeyKeeps ==
    ASSUME Login!LoginAssumption, LoginInv, Login!LoadKey
    PROVE  LoginInv'
<1>1. state.running /\ state.pc = "passphrase"
  BY DEF Login!LoadKey, Login!At, Login!Answered, Login!Prompts
<1>2. Control /\ Traffic /\ state \in LoginState /\ ~Login!Over
  BY <1>1, StillLogin
<1>3. PICK w : Hears(w)
  BY <1>1, StillLogin
<1>4. ~state.suppress_wait /\ agent = "idle" /\ trust
  BY <1>1, <1>2 DEF Control, Steady, Login!AgentHeard, Login!AgentWaits, Trusted, Login!Prompts
<1>5. UNCHANGED <<conf, wake, Login!wire>> /\ down' = down /\ server' = server /\
        UNCHANGED user_input
  BY DEF Login!LoadKey, Login!At, Login!Answered, Login!wire, Login!InfoRequest, Login!Try
<1>6. \/ (state' = [state EXCEPT !.pc = "response", !.type = "publickey", !.asked = "sign"] /\
           UNCHANGED <<queue, banner, trust, agent>> /\ Login!Send(Login!Request("sign")))
      \/ (state' = Login!Passphrase /\ UNCHANGED <<queue, banner, trust, agent, up>>)
      \/ (state' = [state EXCEPT !.pc = "response", !.suppress_wait = TRUE] /\
           UNCHANGED <<queue, banner, trust, agent, up>>)
  BY <1>1, <1>2, <1>4 DEF Login!LoadKey, Login!At, Login!Answered, Login!Got, Login!Try,
     Login!Request
<1>7. CASE state' = [state EXCEPT !.pc = "response", !.type = "publickey", !.asked = "sign"] /\
             UNCHANGED <<queue, banner, trust, agent>> /\ Login!Send(Login!Request("sign"))
  <2>1. state' \in LoginState
    <3>1. "response" \in Pcs /\ "sign" \in Requests \cup {"nothing"}
      BY <1>2, PcNames DEF LoginState, Requests
    <3> QED BY <1>2, <1>7, <3>1 DEF LoginState, Login!At
  <2>2. Goes("response", "sign", state.gss, state.header, state.suppress_wait)
    BY <1>1, <1>2, <1>7, <2>1 DEF LoginState, Goes, Login!At
  <2>3. Keys(state)'
    <3>1. SameKeys /\ state'.pc = "response" /\ state'.can = state.can
      BY <1>2, <1>7, <2>1, <2>2 DEF LoginState, SameKeys, Goes, Login!At
    <3> QED BY <1>1, <1>2, <1>5, <3>1, KeysStay DEF Early
  <2>4. queue' \in Seq(Downs) /\ banner' \in 0 .. BannerLimit /\ w \in Seq(Downs) /\
          Says(queue' \o down', w)
    BY <1>2, <1>3, <1>5, <1>7 DEF Traffic, Hears
  <2>5. Silent(w, up)
    BY <1>1, <1>3, <1>4, <1>7, <2>4 DEF Hears, Talk, Silent, Asking, Told, Quiet,
       Login!Prompts, Login!Request
  <2>6. up' = <<Login!Request("sign")>> /\ up' \in Seq(Ups) /\ Len(up') <= 2
    <3>1. up = <<>> /\ Login!Request("sign") \in Ups
      BY <2>5, RequestNames DEF Silent, Requests, Ups
    <3> QED BY <1>7, <3>1, SendOne
  <2>7. Talk(state', w, up', server)
    BY <1>1, <1>4, <1>7, <2>2, <2>4, <2>5, <2>6 DEF Goes, Talk, Silent, Asking, Told, Quiet,
       Login!Prompts, Login!Request
  <2>8. trust' \in BOOLEAN /\ agent' = "idle" /\ user_input' \in Seq({"line", "abort"}) /\
          Len(user_input') <= MaxTyped
    BY <1>2, <1>4, <1>5, <1>7 DEF Control
  <2>9. trust'
    BY <1>1, <1>2, <1>4, <1>7, <2>4, <2>5, <2>2 DEF Control, Trusted, Login!Request
  <2> QED BY <1>1, <1>4, <1>5, <2>2, <2>3, <2>4, <2>6, <2>7, <2>8, <2>9, GoesOn DEF Goes
<1>8. CASE state' = Login!Passphrase /\ UNCHANGED <<queue, banner, trust, agent, up>>
  <2>1. state' \in LoginState
    <3>1. "passphrase" \in Pcs /\ 0 \in 0 .. 3 /\ 1 \in 0 .. 3
      BY <1>2, PcNames DEF LoginState, Requests
    <3> QED BY <1>2, <1>8, <3>1 DEF LoginState, Login!Passphrase
  <2>2. Goes("passphrase", state.asked, state.gss, state.header, state.suppress_wait)
    BY <1>1, <1>2, <1>8, <2>1 DEF LoginState, Goes, Login!Passphrase
  <2>3. Keys(state)'
    <3>1. SameKeys /\ state'.pc = "passphrase" /\ state'.can = state.can
      BY <1>2, <1>8, <2>1, <2>2 DEF LoginState, SameKeys, Goes, Login!Passphrase
    <3> QED BY <1>1, <1>2, <1>5, <3>1, KeysStay DEF Early
  <2>4. queue' \in Seq(Downs) /\ banner' \in 0 .. BannerLimit /\ w \in Seq(Downs) /\
          Says(queue' \o down', w)
    BY <1>2, <1>3, <1>5, <1>8 DEF Traffic, Hears
  <2>5. Silent(w, up)
    BY <1>1, <1>3, <1>4, <1>8, <2>4 DEF Hears, Talk, Silent, Asking, Told, Quiet, Login!Prompts
  <2>6. up' = up /\ up' \in Seq(Ups) /\ Len(up') <= 2
    BY <1>2, <1>8 DEF Traffic
  <2>7. Talk(state', w, up', server)
    BY <1>1, <1>4, <1>8, <2>2, <2>4, <2>5, <2>6 DEF Goes, Talk, Silent, Asking, Told, Quiet,
       Login!Prompts
  <2>8. trust' \in BOOLEAN /\ agent' = "idle" /\ user_input' \in Seq({"line", "abort"}) /\
          Len(user_input') <= MaxTyped
    BY <1>2, <1>4, <1>5, <1>8 DEF Control
  <2>9. trust'
    BY <1>1, <1>2, <1>4, <1>8, <2>4, <2>5, <2>2 DEF Control, Trusted
  <2> QED BY <1>1, <1>4, <1>5, <2>2, <2>3, <2>4, <2>6, <2>7, <2>8, <2>9, GoesOn DEF Goes
<1>9. CASE state' = [state EXCEPT !.pc = "response", !.suppress_wait = TRUE] /\
             UNCHANGED <<queue, banner, trust, agent, up>>
  <2>1. state' \in LoginState
    <3>1. "response" \in Pcs
      BY <1>2, PcNames DEF LoginState, Requests
    <3> QED BY <1>2, <1>9, <3>1 DEF LoginState, Login!At
  <2>2. Goes("response", state.asked, state.gss, state.header, TRUE)
    BY <1>1, <1>2, <1>9, <2>1 DEF LoginState, Goes, Login!At
  <2>3. Keys(state)'
    <3>1. SameKeys /\ state'.pc = "response" /\ state'.can = state.can
      BY <1>2, <1>9, <2>1, <2>2 DEF LoginState, SameKeys, Goes, Login!At
    <3> QED BY <1>1, <1>2, <1>5, <3>1, KeysStay DEF Early
  <2>4. queue' \in Seq(Downs) /\ banner' \in 0 .. BannerLimit /\ w \in Seq(Downs) /\
          Says(queue' \o down', w)
    BY <1>2, <1>3, <1>5, <1>9 DEF Traffic, Hears
  <2>5. Silent(w, up)
    BY <1>1, <1>3, <1>4, <1>9, <2>4 DEF Hears, Talk, Silent, Asking, Told, Quiet, Login!Prompts
  <2>6. up' = up /\ up' \in Seq(Ups) /\ Len(up') <= 2
    BY <1>2, <1>9 DEF Traffic
  <2>7. Talk(state', w, up', server)
    BY <1>1, <1>4, <1>9, <2>2, <2>4, <2>5, <2>6 DEF Goes, Talk, Silent, Asking, Told, Quiet,
       Login!Prompts
  <2>8. trust' \in BOOLEAN /\ agent' = "idle" /\ user_input' \in Seq({"line", "abort"}) /\
          Len(user_input') <= MaxTyped
    BY <1>2, <1>4, <1>5, <1>9 DEF Control
  <2>9. trust'
    BY <1>1, <1>2, <1>4, <1>9, <2>4, <2>5, <2>2 DEF Control, Trusted
  <2> QED BY <1>1, <1>4, <1>5, <2>2, <2>3, <2>4, <2>6, <2>7, <2>8, <2>9, GoesOn DEF Goes
<1> QED BY <1>6, <1>7, <1>8, <1>9

\* The server takes GSSAPI up, or does not.
LEMMA GssRequestKeeps ==
    ASSUME Login!LoginAssumption, ~GssFaults, LoginInv, Login!GssRequest
    PROVE  LoginInv'
<1>1. state.running /\ state.pc = "gss_request"
  BY DEF Login!GssRequest, Login!At, Login!Got, Login!Prompts
<1>2. Control /\ Traffic /\ state \in LoginState /\ ~Login!Over
  BY <1>1, StillLogin
<1>3. PICK w : Hears(w)
  BY <1>1, StillLogin
<1>4. ~state.suppress_wait /\ agent = "idle" /\ trust
  BY <1>1, <1>2 DEF Control, Steady, Login!AgentHeard, Login!AgentWaits, Trusted, Login!Prompts
<1>5. UNCHANGED <<conf, wake, Login!wire>> /\ down' = down /\ server' = server /\
        UNCHANGED user_input
  BY DEF Login!GssRequest, Login!At, Login!Got, Login!wire, Login!InfoRequest, Login!Try
<1>6. \/ (Login!Filtered # <<>> /\ Login!pktin.type = "gss_response" /\
           Login!ssh2_userauth_pop /\ state' = [state EXCEPT !.pc = "gss_init"] /\
           UNCHANGED <<trust, agent, up>>)
      \/ (Login!Filtered # <<>> /\ Login!pktin.type = "gss_response" /\
           Login!ssh2_userauth_pop /\ state' = [state EXCEPT !.pc = "response",
           !.suppress_wait = TRUE] /\ UNCHANGED <<trust, agent, up>>)
      \/ (Login!Filtered # <<>> /\ Login!pktin.type # "gss_response" /\
           Login!ssh2_userauth_filter_queue /\ state' = [state EXCEPT !.pc = "response"] /\
           UNCHANGED <<trust, agent, up>>)
  BY <1>1, <1>2, <1>4 DEF Login!GssRequest, Login!At, Login!Got, Login!Got, Login!Try,
     Login!Request
<1>7. CASE Login!Filtered # <<>> /\ Login!pktin.type = "gss_response" /\
             Login!ssh2_userauth_pop /\ state' = [state EXCEPT !.pc = "gss_init"] /\
             UNCHANGED <<trust, agent, up>>
  <2>1. state' \in LoginState
    <3>1. "gss_init" \in Pcs
      BY <1>2, PcNames DEF LoginState, Requests
    <3> QED BY <1>2, <1>7, <3>1 DEF LoginState, Login!At
  <2>2. Goes("gss_init", state.asked, state.gss, state.header, state.suppress_wait)
    BY <1>1, <1>2, <1>7, <2>1 DEF LoginState, Goes, Login!At
  <2>3. Keys(state)'
    <3>1. SameKeys /\ state'.pc = "gss_init" /\ state'.can = state.can
      BY <1>2, <1>7, <2>1, <2>2 DEF LoginState, SameKeys, Goes, Login!At
    <3> QED BY <1>1, <1>2, <1>5, <3>1, KeysStay DEF Early
  <2>4. PICK v : /\ queue' \in Seq(Downs) /\ banner' \in 0 .. BannerLimit /\ v \in Seq(Downs)
                 /\ Says(queue' \o down', v) /\ Len(w) > 0 /\ Login!pktin = w[1]
                 /\ Len(w) = 1 => v = <<>>
                 /\ Len(w) = 2 => Len(v) = 1 /\ v[1] = w[2]
    BY <1>2, <1>3, <1>5, <1>7, PopKeeps
  <2>5. Len(w) = 1 /\ up = <<>> /\ state.asked = "gssapi" /\ state.gss = "first" /\
          server = "gssapi"
    BY <1>1, <1>3, <1>4, <1>7, <2>4 DEF Hears, Talk, Silent, Asking, Told, Quiet,
       Login!Prompts, Refusal
  <2>6. up' = up /\ up' \in Seq(Ups) /\ Len(up') <= 2
    BY <1>2, <1>7 DEF Traffic
  <2>7. Talk(state', v, up', server)
    BY <1>1, <1>4, <1>7, <2>2, <2>4, <2>5, <2>6 DEF Goes, Talk, Silent, Asking, Told, Quiet,
       Login!Prompts, Refusal
  <2>8. trust' \in BOOLEAN /\ agent' = "idle" /\ user_input' \in Seq({"line", "abort"}) /\
          Len(user_input') <= MaxTyped
    BY <1>2, <1>4, <1>5, <1>7 DEF Control
  <2>9. trust'
    BY <1>1, <1>2, <1>4, <1>7, <2>4, <2>5, <2>2 DEF Control, Trusted, Refusal
  <2> QED BY <1>1, <1>4, <1>5, <2>2, <2>3, <2>4, <2>6, <2>7, <2>8, <2>9, GoesOn DEF Goes
<1>8. CASE Login!Filtered # <<>> /\ Login!pktin.type = "gss_response" /\
             Login!ssh2_userauth_pop /\ state' = [state EXCEPT !.pc = "response",
             !.suppress_wait = TRUE] /\ UNCHANGED <<trust, agent, up>>
  <2>1. state' \in LoginState
    <3>1. "response" \in Pcs
      BY <1>2, PcNames DEF LoginState, Requests
    <3> QED BY <1>2, <1>8, <3>1 DEF LoginState, Login!At
  <2>2. Goes("response", state.asked, state.gss, state.header, TRUE)
    BY <1>1, <1>2, <1>8, <2>1 DEF LoginState, Goes, Login!At
  <2>3. Keys(state)'
    <3>1. SameKeys /\ state'.pc = "response" /\ state'.can = state.can
      BY <1>2, <1>8, <2>1, <2>2 DEF LoginState, SameKeys, Goes, Login!At
    <3> QED BY <1>1, <1>2, <1>5, <3>1, KeysStay DEF Early
  <2>4. PICK v : /\ queue' \in Seq(Downs) /\ banner' \in 0 .. BannerLimit /\ v \in Seq(Downs)
                 /\ Says(queue' \o down', v) /\ Len(w) > 0 /\ Login!pktin = w[1]
                 /\ Len(w) = 1 => v = <<>>
                 /\ Len(w) = 2 => Len(v) = 1 /\ v[1] = w[2]
    BY <1>2, <1>3, <1>5, <1>8, PopKeeps
  <2>5. Len(w) = 1 /\ up = <<>>
    BY <1>1, <1>3, <1>4, <1>8, <2>4 DEF Hears, Talk, Silent, Asking, Told, Quiet, Login!Prompts
  <2>6. up' = up /\ up' \in Seq(Ups) /\ Len(up') <= 2
    BY <1>2, <1>8 DEF Traffic
  <2>7. Talk(state', v, up', server)
    BY <1>1, <1>4, <1>8, <2>2, <2>4, <2>5, <2>6 DEF Goes, Talk, Silent, Asking, Told, Quiet,
       Login!Prompts
  <2>8. trust' \in BOOLEAN /\ agent' = "idle" /\ user_input' \in Seq({"line", "abort"}) /\
          Len(user_input') <= MaxTyped
    BY <1>2, <1>4, <1>5, <1>8 DEF Control
  <2>9. trust'
    BY <1>1, <1>2, <1>4, <1>8, <2>4, <2>5, <2>2 DEF Control, Trusted
  <2> QED BY <1>1, <1>4, <1>5, <2>2, <2>3, <2>4, <2>6, <2>7, <2>8, <2>9, GoesOn DEF Goes
<1>9. CASE Login!Filtered # <<>> /\ Login!pktin.type # "gss_response" /\
             Login!ssh2_userauth_filter_queue /\ state' = [state EXCEPT !.pc = "response"] /\
             UNCHANGED <<trust, agent, up>>
  <2>1. state' \in LoginState
    <3>1. "response" \in Pcs
      BY <1>2, PcNames DEF LoginState, Requests
    <3> QED BY <1>2, <1>9, <3>1 DEF LoginState, Login!At
  <2>2. Goes("response", state.asked, state.gss, state.header, state.suppress_wait)
    BY <1>1, <1>2, <1>9, <2>1 DEF LoginState, Goes, Login!At
  <2>3. Keys(state)'
    <3>1. SameKeys /\ state'.pc = "response" /\ state'.can = state.can
      BY <1>2, <1>9, <2>1, <2>2 DEF LoginState, SameKeys, Goes, Login!At
    <3> QED BY <1>1, <1>2, <1>5, <3>1, KeysStay DEF Early
  <2>4. /\ queue' \in Seq(Downs) /\ banner' \in 0 .. BannerLimit /\ w \in Seq(Downs) /\
             Says(queue' \o down', w)
        /\ Len(w) > 0 /\ Login!pktin = w[1]
    BY <1>2, <1>3, <1>5, <1>9, FilterKeeps DEF Hears
  <2>5. Len(w) = 1 /\ up = <<>> /\ state.asked = "gssapi" /\ Refusal(w[1], "gssapi")
    BY <1>1, <1>3, <1>4, <1>9, <2>4 DEF Hears, Talk, Silent, Asking, Told, Quiet,
       Login!Prompts, Refusal, Result
  <2>6. up' = up /\ up' \in Seq(Ups) /\ Len(up') <= 2
    BY <1>2, <1>9 DEF Traffic
  <2>7. Talk(state', w, up', server)
    BY <1>1, <1>4, <1>9, <2>2, <2>4, <2>5, <2>6 DEF Goes, Talk, Silent, Asking, Told, Quiet,
       Login!Prompts, Refusal, Result
  <2>8. trust' \in BOOLEAN /\ agent' = "idle" /\ user_input' \in Seq({"line", "abort"}) /\
          Len(user_input') <= MaxTyped
    BY <1>2, <1>4, <1>5, <1>9 DEF Control
  <2>9. trust'
    BY <1>1, <1>2, <1>4, <1>9, <2>4, <2>5, <2>2 DEF Control, Trusted, Refusal, Result
  <2> QED BY <1>1, <1>4, <1>5, <2>2, <2>3, <2>4, <2>6, <2>7, <2>8, <2>9, GoesOn DEF Goes
<1> QED BY <1>6, <1>7, <1>8, <1>9

\* The agent is asked, and the coroutine stops until it answers.
LEMMA AsksAgent ==
    ASSUME Login!LoginAssumption, LoginInv, state' \in LoginState, ~state'.running,
             state'.pc \in Login!AgentWaits,
           ~state'.suppress_wait, agent' = "pending", Keys(state)', trust,
           UNCHANGED <<conf, wake, user_input, trust, up, Login!wire>>,
           queue' \in Seq(Downs), banner' \in 0 .. BannerLimit,
           NEW v, v \in Seq(Downs), Says(queue' \o down', v), Silent(v, up)
    PROVE  LoginInv'
<1>1. state'.pc \in {"identities", "sign"}
  BY DEF Login!AgentWaits
<1>2. Steady(state')
  BY <1>1 DEF Steady, Rests, Login!AgentWaits, Login!Prompts
<1>3. Trusted(state', trust') /\ Login!AgentHeard'
  BY DEF Trusted, Login!AgentHeard
<1>4. Moved
  BY <1>2, <1>3 DEF Moved
<1>5. Control /\ Traffic
  BY DEF LoginInv
<1>6. /\ trust' \in BOOLEAN /\ user_input' \in Seq({"line", "abort"}) /\
           Len(user_input') <= MaxTyped
      /\ up' \in Seq(Ups) /\ Len(up') <= 2 /\ agent' \in {"idle", "pending", "good", "failed"}
  BY <1>5 DEF Control, Traffic
<1>7. Login!Woken'
  BY <1>1 DEF Login!Woken, Login!PacketWaits, Login!Prompts
<1>8. Talk(state', v, up', server')
  BY <1>1 DEF Talk, Silent, Quiet, Login!Prompts, Login!wire
<1>9. Hears(v)'
  BY <1>8 DEF Hears, Login!wire
<1>10. state'.pc # "granted"
  BY <1>1
<1> QED BY <1>4, <1>6, <1>7, <1>9, <1>10, Assembled

\* The server takes the agent's key, or does not.
LEMMA AgentOfferKeeps ==
    ASSUME Login!LoginAssumption, LoginInv, Login!AgentOffer
    PROVE  LoginInv'
<1>1. state.running /\ state.pc = "agent_offer"
  BY DEF Login!AgentOffer, Login!At, Login!Got, Login!AskAgent, Login!Prompts
<1>2. Control /\ Traffic /\ state \in LoginState /\ ~Login!Over
  BY <1>1, StillLogin
<1>3. PICK w : Hears(w)
  BY <1>1, StillLogin
<1>4. ~state.suppress_wait /\ agent = "idle" /\ trust
  BY <1>1, <1>2 DEF Control, Steady, Login!AgentHeard, Login!AgentWaits, Trusted, Login!Prompts
<1>5. UNCHANGED <<conf, wake, Login!wire>> /\ down' = down /\ server' = server /\
        UNCHANGED user_input
  BY DEF Login!AgentOffer, Login!At, Login!Got, Login!AskAgent, Login!wire, Login!InfoRequest,
         Login!Try
<1>6. \/ (Login!Filtered # <<>> /\ Login!pktin.type = "pk_ok" /\ Login!ssh2_userauth_pop /\
           state' = [[state EXCEPT !.pc = "sign"] EXCEPT !.running = FALSE] /\
           agent' = "pending" /\ UNCHANGED <<trust, up>>)
      \/ (Login!Filtered # <<>> /\ Login!pktin.type # "pk_ok" /\
           Login!ssh2_userauth_filter_queue /\ state' = Login!NextKey(state) /\
           UNCHANGED <<trust, agent, up>>)
  BY <1>1, <1>2, <1>4 DEF Login!AgentOffer, Login!At, Login!Got, Login!AskAgent, Login!Got,
     Login!Try, Login!Request
<1>7. CASE Login!Filtered # <<>> /\ Login!pktin.type = "pk_ok" /\ Login!ssh2_userauth_pop /\
             state' = [[state EXCEPT !.pc = "sign"] EXCEPT !.running = FALSE] /\
             agent' = "pending" /\ UNCHANGED <<trust, up>>
  <2>1. state' \in LoginState
    <3>1. "sign" \in Pcs
      BY PcNames
    <3> QED BY <1>2, <1>7, <3>1 DEF LoginState
  <2>2. ~state'.running /\ state'.pc = "sign" /\ SameKeys /\
          state'.suppress_wait = state.suppress_wait
    BY <1>2, <1>7, <2>1 DEF LoginState, SameKeys
  <2>3. Keys(state)'
    <3>1. state.key < state.limit
      BY <1>1, <1>2 DEF Control, Keys
    <3> QED BY <1>2, <1>5, <2>2, <3>1, KeysStay DEF Early
  <2>4. PICK v : /\ queue' \in Seq(Downs) /\ banner' \in 0 .. BannerLimit /\ v \in Seq(Downs)
                 /\ Says(queue' \o down', v) /\ Len(w) > 0 /\ Login!pktin = w[1]
                 /\ Len(w) = 1 => v = <<>>
                 /\ Len(w) = 2 => Len(v) = 1 /\ v[1] = w[2]
    BY <1>2, <1>3, <1>5, <1>7, PopKeeps
  <2>5. Silent(v, up)
    BY <1>1, <1>3, <1>4, <1>7, <2>4 DEF Hears, Talk, Silent, Asking, Told
  <2> QED BY <1>4, <1>5, <1>7, <2>1, <2>2, <2>3, <2>4, <2>5, AsksAgent DEF Login!AgentWaits
<1>8. CASE Login!Filtered # <<>> /\ Login!pktin.type # "pk_ok" /\
             Login!ssh2_userauth_filter_queue /\ state' = Login!NextKey(state) /\
             UNCHANGED <<trust, agent, up>>
  <2>1. state' \in LoginState
    <3>1. "response" \in Pcs /\ state.key + 1 \in Nat /\
            (state.key + 1 >= state.limit) \in BOOLEAN
      BY <1>2, PcNames DEF LoginState, Requests
    <3> QED BY <1>2, <1>8, <3>1 DEF LoginState, Login!NextKey
  <2>2. Goes("response", state.asked, state.gss, state.header, state.suppress_wait)
    BY <1>1, <1>2, <1>8, <2>1 DEF LoginState, Goes, Login!NextKey
  <2>3. Keys(state)'
    <3>1. state'.key = state.key + 1 /\ state'.limit = state.limit /\
            state'.done_agent = (state.key + 1 >= state.limit)
      BY <1>2, <1>8 DEF LoginState, Login!NextKey
    <3>2. state'.pc = "response" /\ conf' = conf /\ state.key \in Nat /\ state.limit \in Nat
      BY <1>2, <1>5, <2>2 DEF Goes, LoginState
    <3>3. state.limit <= conf.agent /\ state.key < state.limit
      BY <1>1, <1>2 DEF Control, Keys
    <3>4. conf.agent \in Nat
      BY <1>2 DEF Control, Login!LoginAssumption, Login!SettingsType
    <3>5. ~state'.done_agent => ~(state.key + 1 >= state.limit)
      BY <3>1, Zenon
    <3>6. state'.key <= conf.agent + 1 /\ (~(state.key + 1 >= state.limit) =>
            state'.key < state'.limit)
      <4>1. state'.key = state.key + 1 /\ state'.limit = state.limit
        BY <3>1
      <4> QED BY <4>1, <3>2, <3>3, <3>4
    <3>7. state'.limit <= conf.agent
      BY <3>1, <3>3
    <3> QED BY <3>2, <3>5, <3>6, <3>7 DEF Keys
  <2>4. /\ queue' \in Seq(Downs) /\ banner' \in 0 .. BannerLimit /\ w \in Seq(Downs) /\
             Says(queue' \o down', w)
        /\ Len(w) > 0 /\ Login!pktin = w[1]
    BY <1>2, <1>3, <1>5, <1>8, FilterKeeps DEF Hears
  <2>5. Len(w) = 1 /\ up = <<>> /\ state.asked = "offer" /\ Refusal(w[1], "offer")
    BY <1>1, <1>3, <1>4, <1>8, <2>4 DEF Hears, Talk, Silent, Asking, Told, Quiet,
       Login!Prompts, Refusal, Result
  <2>6. up' = up /\ up' \in Seq(Ups) /\ Len(up') <= 2
    BY <1>2, <1>8 DEF Traffic
  <2>7. Talk(state', w, up', server)
    BY <1>1, <1>4, <1>8, <2>2, <2>4, <2>5, <2>6 DEF Goes, Talk, Silent, Asking, Told, Quiet,
       Login!Prompts, Refusal, Result
  <2>8. trust' \in BOOLEAN /\ agent' = "idle" /\ user_input' \in Seq({"line", "abort"}) /\
          Len(user_input') <= MaxTyped
    BY <1>2, <1>4, <1>5, <1>8 DEF Control
  <2>9. trust'
    BY <1>1, <1>2, <1>4, <1>8, <2>4, <2>5, <2>2 DEF Control, Trusted, Refusal, Result
  <2> QED BY <1>1, <1>4, <1>5, <2>2, <2>3, <2>4, <2>6, <2>7, <2>8, <2>9, GoesOn DEF Goes
<1> QED BY <1>6, <1>7, <1>8

\* The agent signs, or does not.
LEMMA SignedKeeps ==
    ASSUME Login!LoginAssumption, LoginInv, Login!Signed
    PROVE  LoginInv'
<1>1. state.running /\ state.pc = "sign"
  BY DEF Login!Signed, Login!At, Login!Prompts
<1>2. Control /\ Traffic /\ state \in LoginState /\ ~Login!Over
  BY <1>1, StillLogin
<1>3. PICK w : Hears(w)
  BY <1>1, StillLogin
<1>4. ~state.suppress_wait /\ agent' = "idle" /\ trust
  BY <1>1, <1>2 DEF Control, Steady, Trusted, Login!Signed, Login!At
<1>5. UNCHANGED <<conf, wake, Login!wire>> /\ down' = down /\ server' = server /\
        UNCHANGED user_input
  BY DEF Login!Signed, Login!At, Login!wire, Login!InfoRequest, Login!Try
<1>6. \/ (state' = Login!NextKey([state EXCEPT !.type = "publickey", !.asked = "sign"]) /\
           UNCHANGED <<queue, banner, trust>> /\ Login!Send(Login!Request("sign")))
      \/ (state' = Login!NextKey([state EXCEPT !.suppress_wait = TRUE]) /\ UNCHANGED <<queue,
           banner, trust, up>>)
  BY <1>1, <1>2, <1>4 DEF Login!Signed, Login!At, Login!Got, Login!Try, Login!Request
<1>7. CASE state' = Login!NextKey([state EXCEPT !.type = "publickey", !.asked = "sign"]) /\
             UNCHANGED <<queue, banner, trust>> /\ Login!Send(Login!Request("sign"))
  <2>1. state' \in LoginState
    <3>1. "response" \in Pcs /\ state.key + 1 \in Nat /\
            (state.key + 1 >= state.limit) \in BOOLEAN /\ "sign" \in Requests \cup {"nothing"}
      BY <1>2, PcNames DEF LoginState, Requests
    <3> QED BY <1>2, <1>7, <3>1 DEF LoginState, Login!NextKey
  <2>2. Goes("response", "sign", state.gss, state.header, state.suppress_wait)
    BY <1>1, <1>2, <1>7, <2>1 DEF LoginState, Goes, Login!NextKey
  <2>3. Keys(state)'
    <3>1. state'.key = state.key + 1 /\ state'.limit = state.limit /\
            state'.done_agent = (state.key + 1 >= state.limit)
      BY <1>2, <1>7 DEF LoginState, Login!NextKey
    <3>2. state'.pc = "response" /\ conf' = conf /\ state.key \in Nat /\ state.limit \in Nat
      BY <1>2, <1>5, <2>2 DEF Goes, LoginState
    <3>3. state.limit <= conf.agent /\ state.key < state.limit
      BY <1>1, <1>2 DEF Control, Keys
    <3>4. conf.agent \in Nat
      BY <1>2 DEF Control, Login!LoginAssumption, Login!SettingsType
    <3>5. ~state'.done_agent => ~(state.key + 1 >= state.limit)
      BY <3>1, Zenon
    <3>6. state'.key <= conf.agent + 1 /\ (~(state.key + 1 >= state.limit) =>
            state'.key < state'.limit)
      <4>1. state'.key = state.key + 1 /\ state'.limit = state.limit
        BY <3>1
      <4> QED BY <4>1, <3>2, <3>3, <3>4
    <3>7. state'.limit <= conf.agent
      BY <3>1, <3>3
    <3> QED BY <3>2, <3>5, <3>6, <3>7 DEF Keys
  <2>4. queue' \in Seq(Downs) /\ banner' \in 0 .. BannerLimit /\ w \in Seq(Downs) /\
          Says(queue' \o down', w)
    BY <1>2, <1>3, <1>5, <1>7 DEF Traffic, Hears
  <2>5. Silent(w, up)
    BY <1>1, <1>3, <1>4, <1>7, <2>4 DEF Hears, Talk, Silent, Asking, Told, Quiet,
       Login!Prompts, Login!Request
  <2>6. up' = <<Login!Request("sign")>> /\ up' \in Seq(Ups) /\ Len(up') <= 2
    <3>1. up = <<>> /\ Login!Request("sign") \in Ups
      BY <2>5, RequestNames DEF Silent, Requests, Ups
    <3> QED BY <1>7, <3>1, SendOne
  <2>7. Talk(state', w, up', server)
    BY <1>1, <1>4, <1>7, <2>2, <2>4, <2>5, <2>6 DEF Goes, Talk, Silent, Asking, Told, Quiet,
       Login!Prompts, Login!Request
  <2>8. trust' \in BOOLEAN /\ agent' = "idle" /\ user_input' \in Seq({"line", "abort"}) /\
          Len(user_input') <= MaxTyped
    BY <1>2, <1>4, <1>5, <1>7 DEF Control
  <2>9. trust'
    BY <1>1, <1>2, <1>4, <1>7, <2>4, <2>5, <2>2 DEF Control, Trusted, Login!Request
  <2> QED BY <1>1, <1>4, <1>5, <2>2, <2>3, <2>4, <2>6, <2>7, <2>8, <2>9, GoesOn DEF Goes
<1>8. CASE state' = Login!NextKey([state EXCEPT !.suppress_wait = TRUE]) /\ UNCHANGED <<queue,
             banner, trust, up>>
  <2>1. state' \in LoginState
    <3>1. "response" \in Pcs /\ state.key + 1 \in Nat /\
            (state.key + 1 >= state.limit) \in BOOLEAN
      BY <1>2, PcNames DEF LoginState, Requests
    <3> QED BY <1>2, <1>8, <3>1 DEF LoginState, Login!NextKey
  <2>2. Goes("response", state.asked, state.gss, state.header, TRUE)
    BY <1>1, <1>2, <1>8, <2>1 DEF LoginState, Goes, Login!NextKey
  <2>3. Keys(state)'
    <3>1. state'.key = state.key + 1 /\ state'.limit = state.limit /\
            state'.done_agent = (state.key + 1 >= state.limit)
      BY <1>2, <1>8 DEF LoginState, Login!NextKey
    <3>2. state'.pc = "response" /\ conf' = conf /\ state.key \in Nat /\ state.limit \in Nat
      BY <1>2, <1>5, <2>2 DEF Goes, LoginState
    <3>3. state.limit <= conf.agent /\ state.key < state.limit
      BY <1>1, <1>2 DEF Control, Keys
    <3>4. conf.agent \in Nat
      BY <1>2 DEF Control, Login!LoginAssumption, Login!SettingsType
    <3>5. ~state'.done_agent => ~(state.key + 1 >= state.limit)
      BY <3>1, Zenon
    <3>6. state'.key <= conf.agent + 1 /\ (~(state.key + 1 >= state.limit) =>
            state'.key < state'.limit)
      <4>1. state'.key = state.key + 1 /\ state'.limit = state.limit
        BY <3>1
      <4> QED BY <4>1, <3>2, <3>3, <3>4
    <3>7. state'.limit <= conf.agent
      BY <3>1, <3>3
    <3> QED BY <3>2, <3>5, <3>6, <3>7 DEF Keys
  <2>4. queue' \in Seq(Downs) /\ banner' \in 0 .. BannerLimit /\ w \in Seq(Downs) /\
          Says(queue' \o down', w)
    BY <1>2, <1>3, <1>5, <1>8 DEF Traffic, Hears
  <2>5. Silent(w, up)
    BY <1>1, <1>3, <1>4, <1>8, <2>4 DEF Hears, Talk, Silent, Asking, Told, Quiet, Login!Prompts
  <2>6. up' = up /\ up' \in Seq(Ups) /\ Len(up') <= 2
    BY <1>2, <1>8 DEF Traffic
  <2>7. Talk(state', w, up', server)
    BY <1>1, <1>4, <1>8, <2>2, <2>4, <2>5, <2>6 DEF Goes, Talk, Silent, Asking, Told, Quiet,
       Login!Prompts
  <2>8. trust' \in BOOLEAN /\ agent' = "idle" /\ user_input' \in Seq({"line", "abort"}) /\
          Len(user_input') <= MaxTyped
    BY <1>2, <1>4, <1>5, <1>8 DEF Control
  <2>9. trust'
    BY <1>1, <1>2, <1>4, <1>8, <2>4, <2>5, <2>2 DEF Control, Trusted
  <2> QED BY <1>1, <1>4, <1>5, <2>2, <2>3, <2>4, <2>6, <2>7, <2>8, <2>9, GoesOn DEF Goes
<1> QED BY <1>6, <1>7, <1>8

\* The login starts, with or without the agent.
LEMMA StartKeeps ==
    ASSUME Login!LoginAssumption, LoginInv, Login!Start
    PROVE  LoginInv'
<1>1. state.running /\ state.pc = "start"
  BY DEF Login!Start, Login!At, Login!AskAgent, Login!Prompts
<1>2. Control /\ Traffic /\ state \in LoginState /\ ~Login!Over
  BY <1>1, StillLogin
<1>3. PICK w : Hears(w)
  BY <1>1, StillLogin
<1>4. ~state.suppress_wait /\ agent = "idle" /\ trust
  BY <1>1, <1>2 DEF Control, Steady, Login!AgentHeard, Login!AgentWaits, Trusted, Login!Prompts
<1>5. UNCHANGED <<conf, wake, Login!wire>> /\ down' = down /\ server' = server /\
        UNCHANGED user_input
  BY DEF Login!Start, Login!At, Login!AskAgent, Login!wire, Login!InfoRequest, Login!Try
<1>6. \/ (state' = [[state EXCEPT !.pc = "identities"] EXCEPT !.running = FALSE] /\
           agent' = "pending" /\ UNCHANGED <<queue, banner, trust, up>>)
      \/ (state' = [state EXCEPT !.pc = "username"] /\ UNCHANGED <<queue, banner, trust, agent,
           up>>)
  BY <1>1, <1>2, <1>4 DEF Login!Start, Login!At, Login!AskAgent, Login!Got, Login!Try,
     Login!Request
<1>7. CASE state' = [[state EXCEPT !.pc = "identities"] EXCEPT !.running = FALSE] /\
             agent' = "pending" /\ UNCHANGED <<queue, banner, trust, up>>
  <2>1. state' \in LoginState
    <3>1. "identities" \in Pcs
      BY PcNames
    <3> QED BY <1>2, <1>7, <3>1 DEF LoginState
  <2>2. ~state'.running /\ state'.pc = "identities" /\ SameKeys /\
          state'.suppress_wait = state.suppress_wait
    BY <1>2, <1>7, <2>1 DEF LoginState, SameKeys
  <2>3. Keys(state)'
    BY <1>1, <1>2, <1>5, <2>2, KeysStay DEF Early
  <2>4. queue' \in Seq(Downs) /\ banner' \in 0 .. BannerLimit /\ w \in Seq(Downs) /\
          Says(queue' \o down', w)
    BY <1>2, <1>3, <1>5, <1>7 DEF Traffic, Hears
  <2>5. Silent(w, up)
    BY <1>1, <1>3 DEF Hears, Talk, Quiet
  <2> QED BY <1>4, <1>5, <1>7, <2>1, <2>2, <2>3, <2>4, <2>5, AsksAgent DEF Login!AgentWaits
<1>8. CASE state' = [state EXCEPT !.pc = "username"] /\ UNCHANGED <<queue, banner, trust,
             agent, up>>
  <2>1. state' \in LoginState
    <3>1. "username" \in Pcs
      BY <1>2, PcNames DEF LoginState, Requests
    <3> QED BY <1>2, <1>8, <3>1 DEF LoginState, Login!At
  <2>2. Goes("username", state.asked, state.gss, state.header, state.suppress_wait)
    BY <1>1, <1>2, <1>8, <2>1 DEF LoginState, Goes, Login!At
  <2>3. Keys(state)'
    <3>1. SameKeys /\ state'.pc = "username" /\ state'.can = state.can
      BY <1>2, <1>8, <2>1, <2>2 DEF LoginState, SameKeys, Goes, Login!At
    <3> QED BY <1>1, <1>2, <1>5, <3>1, KeysStay DEF Early
  <2>4. queue' \in Seq(Downs) /\ banner' \in 0 .. BannerLimit /\ w \in Seq(Downs) /\
          Says(queue' \o down', w)
    BY <1>2, <1>3, <1>5, <1>8 DEF Traffic, Hears
  <2>5. Silent(w, up)
    BY <1>1, <1>3, <1>4, <1>8, <2>4 DEF Hears, Talk, Silent, Asking, Told, Quiet, Login!Prompts
  <2>6. up' = up /\ up' \in Seq(Ups) /\ Len(up') <= 2
    BY <1>2, <1>8 DEF Traffic
  <2>7. Talk(state', w, up', server)
    BY <1>1, <1>4, <1>8, <2>2, <2>4, <2>5, <2>6 DEF Goes, Talk, Silent, Asking, Told, Quiet,
       Login!Prompts
  <2>8. trust' \in BOOLEAN /\ agent' = "idle" /\ user_input' \in Seq({"line", "abort"}) /\
          Len(user_input') <= MaxTyped
    BY <1>2, <1>4, <1>5, <1>8 DEF Control
  <2>9. trust'
    BY <1>1, <1>2, <1>4, <1>8, <2>4, <2>5, <2>2 DEF Control, Trusted
  <2> QED BY <1>1, <1>4, <1>5, <2>2, <2>3, <2>4, <2>6, <2>7, <2>8, <2>9, GoesOn DEF Goes
<1> QED BY <1>6, <1>7, <1>8

\* A packet that is not a banner says itself.
LEMMA SaysItself == \A p : ~Login!IsBanner(p) => Says(<<p>>, <<p>>)
<1> SUFFICES ASSUME NEW p, ~Login!IsBanner(p) PROVE Says(<<p>>, <<p>>)
  OBVIOUS
<1> DEFINE q == <<p>>
           f == [i \in 1 .. 1 |-> 1]
<1>1. Len(q) = 1 /\ q[1] = p
  OBVIOUS
<1> HIDE DEF q
<1>2. f \in [1 .. Len(q) -> 1 .. Len(q)] /\ f[1] = 1
  BY <1>1
<1> HIDE DEF f
<1>3. \A i \in 1 .. Len(q) : i = 1
  BY <1>1
<1>4. Places(q, q, f)
  <2>1. \A i, j \in 1 .. Len(q) : ~(i < j)
    BY <1>3
  <2>2. \A i \in 1 .. Len(q) : q[f[i]] = q[i] /\ ~Login!IsBanner(q[i])
    BY <1>1, <1>2, <1>3
  <2>3. \A k \in 1 .. Len(q) : \E i \in 1 .. Len(q) : k = f[i]
    BY <1>2, <1>3
  <2> QED BY <1>2, <2>1, <2>2, <2>3 DEF Places
<1> QED BY <1>4 DEF Says, q

\* A GSSAPI token is made, and the MIC with the last one.
LEMMA GssInitKeeps ==
    ASSUME Login!LoginAssumption, LoginInv, Login!GssInit
    PROVE  LoginInv'
<1>1. state.running /\ state.pc = "gss_init"
  BY DEF Login!GssInit, Login!At, Login!Prompts
<1>2. Control /\ Traffic /\ state \in LoginState /\ ~Login!Over
  BY <1>1, StillLogin
<1>3. PICK w : Hears(w)
  BY <1>1, StillLogin
<1>4. ~state.suppress_wait /\ agent = "idle" /\ trust
  BY <1>1, <1>2 DEF Control, Steady, Login!AgentHeard, Login!AgentWaits, Trusted, Login!Prompts
<1>5. UNCHANGED <<conf, wake, Login!wire>> /\ down' = down /\ server' = server /\
        UNCHANGED user_input
  BY DEF Login!GssInit, Login!At, Login!wire, Login!InfoRequest, Login!Try
<1>6. \/ (state.gss = "first" /\ state' = [state EXCEPT !.pc = "gss_token"] /\
           UNCHANGED <<queue, banner, trust, agent>> /\ Login!Send(Login!Token(FALSE)))
      \/ (state.gss = "last" /\ state' = [state EXCEPT !.pc = "response"] /\ UNCHANGED <<queue,
           banner, trust, agent>> /\ up' = up \o <<>> \o <<[type |-> "mic"]>>)
      \/ (state.gss # "last" /\ state' = [state EXCEPT !.pc = "response"] /\ UNCHANGED <<queue,
           banner, trust, agent>> /\ up' = up \o <<Login!Token(TRUE)>> \o <<[type |-> "mic"]>>)
      \/ (queue' = <<Login!Token(FALSE)>> \o queue /\
           state' = [state EXCEPT !.pc = "response"] /\ UNCHANGED <<banner, trust, agent, up>>)
  BY <1>1, <1>2, <1>4 DEF Login!GssInit, Login!At, Login!Got, Login!Try, Login!Request,
     Login!Token
<1>7. CASE state.gss = "first" /\ state' = [state EXCEPT !.pc = "gss_token"] /\
             UNCHANGED <<queue, banner, trust, agent>> /\ Login!Send(Login!Token(FALSE))
  <2>1. state' \in LoginState
    <3>1. "gss_token" \in Pcs
      BY <1>2, PcNames DEF LoginState, Requests
    <3> QED BY <1>2, <1>7, <3>1 DEF LoginState, Login!At
  <2>2. Goes("gss_token", state.asked, state.gss, state.header, state.suppress_wait)
    BY <1>1, <1>2, <1>7, <2>1 DEF LoginState, Goes, Login!At
  <2>3. Keys(state)'
    <3>1. SameKeys /\ state'.pc = "gss_token" /\ state'.can = state.can
      BY <1>2, <1>7, <2>1, <2>2 DEF LoginState, SameKeys, Goes, Login!At
    <3> QED BY <1>1, <1>2, <1>5, <3>1, KeysStay DEF Early
  <2>4. queue' \in Seq(Downs) /\ banner' \in 0 .. BannerLimit /\ w \in Seq(Downs) /\
          Says(queue' \o down', w)
    BY <1>2, <1>3, <1>5, <1>7 DEF Traffic, Hears
  <2>5. Silent(w, up) /\ state.asked = "gssapi" /\
          server = IF state.gss = "last" THEN "mic" ELSE "gssapi"
    BY <1>1, <1>3, <1>4, <1>7, <2>4 DEF Hears, Talk, Silent, Asking, Told, Quiet, Login!Prompts
  <2>6. up' = <<Login!Token(FALSE)>> /\ up' \in Seq(Ups) /\ Len(up') <= 2
    <3>1. up = <<>> /\ Login!Token(FALSE) \in Ups
      BY <2>5, RequestNames DEF Silent, Requests, Ups
    <3> QED BY <1>7, <3>1, SendOne
  <2>7. Talk(state', w, up', server)
    BY <1>1, <1>4, <1>7, <2>2, <2>4, <2>5, <2>6 DEF Goes, Talk, Silent, Asking, Told, Quiet,
       Login!Prompts
  <2>8. trust' \in BOOLEAN /\ agent' = "idle" /\ user_input' \in Seq({"line", "abort"}) /\
          Len(user_input') <= MaxTyped
    BY <1>2, <1>4, <1>5, <1>7 DEF Control
  <2>9. trust'
    BY <1>1, <1>2, <1>4, <1>7, <2>4, <2>5, <2>2 DEF Control, Trusted
  <2>10. state'.running /\ state'.pc = "gss_token" /\ ~state'.suppress_wait
    BY <1>4, <2>2 DEF Goes
  <2> QED BY <1>5, <2>1, <2>3, <2>4, <2>6, <2>7, <2>8, <2>9, <2>10, Stays
<1>8. CASE state.gss = "last" /\ state' = [state EXCEPT !.pc = "response"] /\
             UNCHANGED <<queue, banner, trust, agent>> /\
             up' = up \o <<>> \o <<[type |-> "mic"]>>
  <2>1. state' \in LoginState
    <3>1. "response" \in Pcs
      BY <1>2, PcNames DEF LoginState, Requests
    <3> QED BY <1>2, <1>8, <3>1 DEF LoginState, Login!At
  <2>2. Goes("response", state.asked, state.gss, state.header, state.suppress_wait)
    BY <1>1, <1>2, <1>8, <2>1 DEF LoginState, Goes, Login!At
  <2>3. Keys(state)'
    <3>1. SameKeys /\ state'.pc = "response" /\ state'.can = state.can
      BY <1>2, <1>8, <2>1, <2>2 DEF LoginState, SameKeys, Goes, Login!At
    <3> QED BY <1>1, <1>2, <1>5, <3>1, KeysStay DEF Early
  <2>4. queue' \in Seq(Downs) /\ banner' \in 0 .. BannerLimit /\ w \in Seq(Downs) /\
          Says(queue' \o down', w)
    BY <1>2, <1>3, <1>5, <1>8 DEF Traffic, Hears
  <2>5. Silent(w, up) /\ state.asked = "gssapi" /\
          server = IF state.gss = "last" THEN "mic" ELSE "gssapi"
    BY <1>1, <1>3, <1>4, <1>8, <2>4 DEF Hears, Talk, Silent, Asking, Told, Quiet, Login!Prompts
  <2>6. up' = <<Mic>> /\ up' \in Seq(Ups) /\ Len(up') <= 2
    <3>1. up' = <<>> \o <<>> \o <<Mic>>
      BY <1>8, <2>5 DEF Silent, Mic
    <3>2. Mic \in Ups
      BY DEF Ups
    <3>3. up' = <<Mic>>
      BY <3>1, TwoWords
    <3> QED BY <3>2, <3>3
  <2>7. Talk(state', w, up', server)
    BY <1>1, <1>4, <1>8, <2>2, <2>4, <2>5, <2>6 DEF Goes, Talk, Silent, Asking, Told, Quiet,
       Login!Prompts
  <2>8. trust' \in BOOLEAN /\ agent' = "idle" /\ user_input' \in Seq({"line", "abort"}) /\
          Len(user_input') <= MaxTyped
    BY <1>2, <1>4, <1>5, <1>8 DEF Control
  <2>9. trust'
    BY <1>1, <1>2, <1>4, <1>8, <2>4, <2>5, <2>2 DEF Control, Trusted
  <2> QED BY <1>1, <1>4, <1>5, <2>2, <2>3, <2>4, <2>6, <2>7, <2>8, <2>9, GoesOn DEF Goes
<1>9. CASE state.gss # "last" /\ state' = [state EXCEPT !.pc = "response"] /\
             UNCHANGED <<queue, banner, trust, agent>> /\
             up' = up \o <<Login!Token(TRUE)>> \o <<[type |-> "mic"]>>
  <2>1. state' \in LoginState
    <3>1. "response" \in Pcs
      BY <1>2, PcNames DEF LoginState, Requests
    <3> QED BY <1>2, <1>9, <3>1 DEF LoginState, Login!At
  <2>2. Goes("response", state.asked, state.gss, state.header, state.suppress_wait)
    BY <1>1, <1>2, <1>9, <2>1 DEF LoginState, Goes, Login!At
  <2>3. Keys(state)'
    <3>1. SameKeys /\ state'.pc = "response" /\ state'.can = state.can
      BY <1>2, <1>9, <2>1, <2>2 DEF LoginState, SameKeys, Goes, Login!At
    <3> QED BY <1>1, <1>2, <1>5, <3>1, KeysStay DEF Early
  <2>4. queue' \in Seq(Downs) /\ banner' \in 0 .. BannerLimit /\ w \in Seq(Downs) /\
          Says(queue' \o down', w)
    BY <1>2, <1>3, <1>5, <1>9 DEF Traffic, Hears
  <2>5. Silent(w, up) /\ state.asked = "gssapi" /\
          server = IF state.gss = "last" THEN "mic" ELSE "gssapi"
    BY <1>1, <1>3, <1>4, <1>9, <2>4 DEF Hears, Talk, Silent, Asking, Told, Quiet, Login!Prompts
  <2>6. up' = <<Login!Token(TRUE), Mic>> /\ up' \in Seq(Ups) /\ Len(up') <= 2
    <3>1. up' = <<>> \o <<Login!Token(TRUE)>> \o <<Mic>>
      BY <1>9, <2>5 DEF Silent, Mic
    <3>2. Mic \in Ups /\ Login!Token(TRUE) \in Ups
      BY DEF Ups
    <3>3. up' = <<Login!Token(TRUE), Mic>>
      <4>1. <<>> \o <<Login!Token(TRUE)>> = <<Login!Token(TRUE)>> /\
              <<Login!Token(TRUE)>> \o <<Mic>> = <<Login!Token(TRUE), Mic>>
        BY TwoWords, Zenon
      <4> QED BY <3>1, <4>1, Zenon
    <3>4. <<Login!Token(TRUE), Mic>> \in Seq(Ups) /\ Len(<<Login!Token(TRUE), Mic>>) <= 2
      BY <3>2, TwoSeq, Zenon
    <3> QED BY <3>3, <3>4, Zenon
  <2>7. Talk(state', w, up', server)
    BY <1>1, <1>4, <1>9, <2>2, <2>4, <2>5, <2>6 DEF Goes, Talk, Silent, Asking, Told, Quiet,
       Login!Prompts
  <2>8. trust' \in BOOLEAN /\ agent' = "idle" /\ user_input' \in Seq({"line", "abort"}) /\
          Len(user_input') <= MaxTyped
    BY <1>2, <1>4, <1>5, <1>9 DEF Control
  <2>9. trust'
    BY <1>1, <1>2, <1>4, <1>9, <2>4, <2>5, <2>2 DEF Control, Trusted
  <2> QED BY <1>1, <1>4, <1>5, <2>2, <2>3, <2>4, <2>6, <2>7, <2>8, <2>9, GoesOn DEF Goes
<1>10. CASE queue' = <<Login!Token(FALSE)>> \o queue /\
              state' = [state EXCEPT !.pc = "response"] /\ UNCHANGED <<banner, trust, agent,
              up>>
  <2>1. state' \in LoginState
    <3>1. "response" \in Pcs
      BY <1>2, PcNames DEF LoginState, Requests
    <3> QED BY <1>2, <1>10, <3>1 DEF LoginState, Login!At
  <2>2. Goes("response", state.asked, state.gss, state.header, state.suppress_wait)
    BY <1>1, <1>2, <1>10, <2>1 DEF LoginState, Goes, Login!At
  <2>3. Keys(state)'
    <3>1. SameKeys /\ state'.pc = "response" /\ state'.can = state.can
      BY <1>2, <1>10, <2>1, <2>2 DEF LoginState, SameKeys, Goes, Login!At
    <3> QED BY <1>1, <1>2, <1>5, <3>1, KeysStay DEF Early
  <2>4. /\ queue' \in Seq(Downs) /\ banner' \in 0 .. BannerLimit /\
             <<Login!Token(FALSE)>> \in Seq(Downs)
        /\ Says(queue' \o down', <<Login!Token(FALSE)>>)
    <3> DEFINE k == Login!Token(FALSE)
    <3>1. w = <<>> /\ w \in Seq(Downs) /\ Says(queue \o down, w)
      BY <1>1, <1>3 DEF Hears, Talk, Silent, Quiet
    <3>2. k \in Downs /\ ~Login!IsBanner(k)
      BY DEF Downs, Login!IsBanner, Login!Token
    <3>3. queue' = <<k>> \o queue
      BY <1>10 DEF Login!Token
    <3> HIDE DEF k
    <3>4. <<k>> \in Seq(Downs) /\ queue \in Seq(Downs) /\ down \in Seq(Downs) /\
            banner' \in 0 .. BannerLimit
      BY <1>2, <1>10, <3>2 DEF Traffic
    <3>5. Says(<<k>>, <<k>>)
      BY <3>2, SaysItself
    <3>6. queue \o down \in Seq(Downs) /\ queue' \in Seq(Downs)
      BY <3>3, <3>4
    <3>7. Says(<<k>> \o (queue \o down), <<k>> \o w)
      BY <3>1, <3>4, <3>5, <3>6, Joined
    <3>8. <<k>> \o (queue \o down) = (<<k>> \o queue) \o down
      BY <3>4, ConcatAssociative
    <3>9. <<k>> \o w = <<k>>
      BY <3>1
    <3> QED BY <1>5, <3>3, <3>4, <3>6, <3>7, <3>8, <3>9 DEF k
  <2>5. up = <<>>
    BY <1>1, <1>3, <1>4, <1>10, <2>4 DEF Hears, Talk, Silent, Asking, Told, Quiet,
       Login!Prompts, Login!Token
  <2>6. up' = up /\ up' \in Seq(Ups) /\ Len(up') <= 2
    BY <1>2, <1>10 DEF Traffic
  <2>7. Talk(state', <<Login!Token(FALSE)>>, up', server)
    BY <1>1, <1>4, <1>10, <2>2, <2>4, <2>5, <2>6 DEF Goes, Talk, Silent, Asking, Told, Quiet,
       Login!Prompts, Login!Token
  <2>8. trust' \in BOOLEAN /\ agent' = "idle" /\ user_input' \in Seq({"line", "abort"}) /\
          Len(user_input') <= MaxTyped
    BY <1>2, <1>4, <1>5, <1>10 DEF Control
  <2>9. trust'
    BY <1>1, <1>2, <1>4, <1>10, <2>4, <2>5, <2>2 DEF Control, Trusted, Login!Token
  <2> QED BY <1>1, <1>4, <1>5, <2>2, <2>3, <2>4, <2>6, <2>7, <2>8, <2>9, GoesOn DEF Goes
<1> QED BY <1>6, <1>7, <1>8, <1>9, <1>10

\* The server answers a token.
LEMMA GssTokenKeeps ==
    ASSUME Login!LoginAssumption, LoginInv, Login!GssToken
    PROVE  LoginInv'
<1>1. state.running /\ state.pc = "gss_token"
  BY DEF Login!GssToken, Login!At, Login!Got, Login!Prompts
<1>2. Control /\ Traffic /\ state \in LoginState /\ ~Login!Over
  BY <1>1, StillLogin
<1>3. PICK w : Hears(w)
  BY <1>1, StillLogin
<1>4. ~state.suppress_wait /\ agent = "idle" /\ trust
  BY <1>1, <1>2 DEF Control, Steady, Login!AgentHeard, Login!AgentWaits, Trusted, Login!Prompts
<1>5. UNCHANGED <<conf, wake, Login!wire>> /\ down' = down /\ server' = server /\
        UNCHANGED user_input
  BY DEF Login!GssToken, Login!At, Login!Got, Login!wire, Login!InfoRequest, Login!Try
<1>6. \/ (Login!Filtered # <<>> /\ Login!pktin.type = "token" /\ Login!pktin.last /\
           Login!ssh2_userauth_pop /\ state' = [state EXCEPT !.pc = "gss_init",
           !.gss = "last"] /\ UNCHANGED <<trust, agent, up>>)
      \/ (Login!Filtered # <<>> /\ Login!pktin.type = "token" /\ ~Login!pktin.last /\
           Login!ssh2_userauth_pop /\ state' = [state EXCEPT !.pc = "gss_init",
           !.gss = "more"] /\ UNCHANGED <<trust, agent, up>>)
      \/ (Login!Filtered # <<>> /\ Login!pktin.type = "errtok" /\ Login!ssh2_userauth_pop /\
           state' = [state EXCEPT !.pc = "gss_errtok"] /\ UNCHANGED <<trust, agent, up>>)
      \/ (Login!Filtered # <<>> /\ Login!pktin.type = "failure" /\
           Login!ssh2_userauth_filter_queue /\ state' = [state EXCEPT !.pc = "response"] /\
           UNCHANGED <<trust, agent, up>>)
      \/ (Login!Filtered # <<>> /\ Login!pktin.type \notin {"token", "errtok", "failure"} /\
           Login!ssh2_userauth_pop)
  BY <1>1, <1>2, <1>4 DEF Login!GssToken, Login!At, Login!Got, Login!Got, Login!Try,
     Login!Request
<1>7. CASE Login!Filtered # <<>> /\ Login!pktin.type = "token" /\ Login!pktin.last /\
             Login!ssh2_userauth_pop /\ state' = [state EXCEPT !.pc = "gss_init",
             !.gss = "last"] /\ UNCHANGED <<trust, agent, up>>
  <2>1. state' \in LoginState
    <3>1. "gss_init" \in Pcs
      BY <1>2, PcNames DEF LoginState, Requests
    <3> QED BY <1>2, <1>7, <3>1 DEF LoginState, Login!At
  <2>2. Goes("gss_init", state.asked, "last", state.header, state.suppress_wait)
    BY <1>1, <1>2, <1>7, <2>1 DEF LoginState, Goes, Login!At
  <2>3. Keys(state)'
    <3>1. SameKeys /\ state'.pc = "gss_init" /\ state'.can = state.can
      BY <1>2, <1>7, <2>1, <2>2 DEF LoginState, SameKeys, Goes, Login!At
    <3> QED BY <1>1, <1>2, <1>5, <3>1, KeysStay DEF Early
  <2>4. PICK v : /\ queue' \in Seq(Downs) /\ banner' \in 0 .. BannerLimit /\ v \in Seq(Downs)
                 /\ Says(queue' \o down', v) /\ Len(w) > 0 /\ Login!pktin = w[1]
                 /\ Len(w) = 1 => v = <<>>
                 /\ Len(w) = 2 => Len(v) = 1 /\ v[1] = w[2]
    BY <1>2, <1>3, <1>5, <1>7, PopKeeps
  <2>5. Len(w) = 1 /\ up = <<>> /\ state.asked = "gssapi" /\ server = "mic"
    BY <1>1, <1>3, <1>4, <1>7, <2>4 DEF Hears, Talk, Silent, Asking, Told, Quiet,
       Login!Prompts, Refusal, Login!Token
  <2>6. up' = up /\ up' \in Seq(Ups) /\ Len(up') <= 2
    BY <1>2, <1>7 DEF Traffic
  <2>7. Talk(state', v, up', server)
    BY <1>1, <1>4, <1>7, <2>2, <2>4, <2>5, <2>6 DEF Goes, Talk, Silent, Asking, Told, Quiet,
       Login!Prompts, Refusal, Login!Token
  <2>8. trust' \in BOOLEAN /\ agent' = "idle" /\ user_input' \in Seq({"line", "abort"}) /\
          Len(user_input') <= MaxTyped
    BY <1>2, <1>4, <1>5, <1>7 DEF Control
  <2>9. trust'
    BY <1>1, <1>2, <1>4, <1>7, <2>4, <2>5, <2>2 DEF Control, Trusted, Refusal, Login!Token
  <2> QED BY <1>1, <1>4, <1>5, <2>2, <2>3, <2>4, <2>6, <2>7, <2>8, <2>9, GoesOn DEF Goes
<1>8. CASE Login!Filtered # <<>> /\ Login!pktin.type = "token" /\ ~Login!pktin.last /\
             Login!ssh2_userauth_pop /\ state' = [state EXCEPT !.pc = "gss_init",
             !.gss = "more"] /\ UNCHANGED <<trust, agent, up>>
  <2>1. state' \in LoginState
    <3>1. "gss_init" \in Pcs
      BY <1>2, PcNames DEF LoginState, Requests
    <3> QED BY <1>2, <1>8, <3>1 DEF LoginState, Login!At
  <2>2. Goes("gss_init", state.asked, "more", state.header, state.suppress_wait)
    BY <1>1, <1>2, <1>8, <2>1 DEF LoginState, Goes, Login!At
  <2>3. Keys(state)'
    <3>1. SameKeys /\ state'.pc = "gss_init" /\ state'.can = state.can
      BY <1>2, <1>8, <2>1, <2>2 DEF LoginState, SameKeys, Goes, Login!At
    <3> QED BY <1>1, <1>2, <1>5, <3>1, KeysStay DEF Early
  <2>4. PICK v : /\ queue' \in Seq(Downs) /\ banner' \in 0 .. BannerLimit /\ v \in Seq(Downs)
                 /\ Says(queue' \o down', v) /\ Len(w) > 0 /\ Login!pktin = w[1]
                 /\ Len(w) = 1 => v = <<>>
                 /\ Len(w) = 2 => Len(v) = 1 /\ v[1] = w[2]
    BY <1>2, <1>3, <1>5, <1>8, PopKeeps
  <2>5. Len(w) = 1 /\ up = <<>> /\ state.asked = "gssapi" /\ server = "gssapi"
    BY <1>1, <1>3, <1>4, <1>8, <2>4 DEF Hears, Talk, Silent, Asking, Told, Quiet,
       Login!Prompts, Refusal, Login!Token
  <2>6. up' = up /\ up' \in Seq(Ups) /\ Len(up') <= 2
    BY <1>2, <1>8 DEF Traffic
  <2>7. Talk(state', v, up', server)
    BY <1>1, <1>4, <1>8, <2>2, <2>4, <2>5, <2>6 DEF Goes, Talk, Silent, Asking, Told, Quiet,
       Login!Prompts, Refusal, Login!Token
  <2>8. trust' \in BOOLEAN /\ agent' = "idle" /\ user_input' \in Seq({"line", "abort"}) /\
          Len(user_input') <= MaxTyped
    BY <1>2, <1>4, <1>5, <1>8 DEF Control
  <2>9. trust'
    BY <1>1, <1>2, <1>4, <1>8, <2>4, <2>5, <2>2 DEF Control, Trusted, Refusal, Login!Token
  <2> QED BY <1>1, <1>4, <1>5, <2>2, <2>3, <2>4, <2>6, <2>7, <2>8, <2>9, GoesOn DEF Goes
<1>9. CASE Login!Filtered # <<>> /\ Login!pktin.type = "errtok" /\ Login!ssh2_userauth_pop /\
             state' = [state EXCEPT !.pc = "gss_errtok"] /\ UNCHANGED <<trust, agent, up>>
  <2>1. state' \in LoginState
    <3>1. "gss_errtok" \in Pcs
      BY <1>2, PcNames DEF LoginState, Requests
    <3> QED BY <1>2, <1>9, <3>1 DEF LoginState, Login!At
  <2>2. Goes("gss_errtok", state.asked, state.gss, state.header, state.suppress_wait)
    BY <1>1, <1>2, <1>9, <2>1 DEF LoginState, Goes, Login!At
  <2>3. Keys(state)'
    <3>1. SameKeys /\ state'.pc = "gss_errtok" /\ state'.can = state.can
      BY <1>2, <1>9, <2>1, <2>2 DEF LoginState, SameKeys, Goes, Login!At
    <3> QED BY <1>1, <1>2, <1>5, <3>1, KeysStay DEF Early
  <2>4. PICK v : /\ queue' \in Seq(Downs) /\ banner' \in 0 .. BannerLimit /\ v \in Seq(Downs)
                 /\ Says(queue' \o down', v) /\ Len(w) > 0 /\ Login!pktin = w[1]
                 /\ Len(w) = 1 => v = <<>>
                 /\ Len(w) = 2 => Len(v) = 1 /\ v[1] = w[2]
    BY <1>2, <1>3, <1>5, <1>9, PopKeeps
  <2>5. Len(w) = 2 /\ Refusal(w[2], "gssapi") /\ up = <<>> /\ state.asked = "gssapi"
    BY <1>1, <1>3, <1>4, <1>9, <2>4 DEF Hears, Talk, Silent, Asking, Told, Quiet,
       Login!Prompts, Refusal, Login!Token
  <2>6. up' = up /\ up' \in Seq(Ups) /\ Len(up') <= 2
    BY <1>2, <1>9 DEF Traffic
  <2>7. Talk(state', v, up', server)
    BY <1>1, <1>4, <1>9, <2>2, <2>4, <2>5, <2>6 DEF Goes, Talk, Silent, Asking, Told, Quiet,
       Login!Prompts, Refusal, Login!Token
  <2>8. trust' \in BOOLEAN /\ agent' = "idle" /\ user_input' \in Seq({"line", "abort"}) /\
          Len(user_input') <= MaxTyped
    BY <1>2, <1>4, <1>5, <1>9 DEF Control
  <2>9. trust'
    BY <1>1, <1>2, <1>4, <1>9, <2>4, <2>5, <2>2 DEF Control, Trusted, Refusal, Login!Token
  <2> QED BY <1>1, <1>4, <1>5, <2>2, <2>3, <2>4, <2>6, <2>7, <2>8, <2>9, GoesOn DEF Goes
<1>10. CASE Login!Filtered # <<>> /\ Login!pktin.type = "failure" /\
              Login!ssh2_userauth_filter_queue /\ state' = [state EXCEPT !.pc = "response"] /\
              UNCHANGED <<trust, agent, up>>
  <2>1. state' \in LoginState
    <3>1. "response" \in Pcs
      BY <1>2, PcNames DEF LoginState, Requests
    <3> QED BY <1>2, <1>10, <3>1 DEF LoginState, Login!At
  <2>2. Goes("response", state.asked, state.gss, state.header, state.suppress_wait)
    BY <1>1, <1>2, <1>10, <2>1 DEF LoginState, Goes, Login!At
  <2>3. Keys(state)'
    <3>1. SameKeys /\ state'.pc = "response" /\ state'.can = state.can
      BY <1>2, <1>10, <2>1, <2>2 DEF LoginState, SameKeys, Goes, Login!At
    <3> QED BY <1>1, <1>2, <1>5, <3>1, KeysStay DEF Early
  <2>4. /\ queue' \in Seq(Downs) /\ banner' \in 0 .. BannerLimit /\ w \in Seq(Downs) /\
             Says(queue' \o down', w)
        /\ Len(w) > 0 /\ Login!pktin = w[1]
    BY <1>2, <1>3, <1>5, <1>10, FilterKeeps DEF Hears
  <2>5. Len(w) = 1 /\ up = <<>> /\ state.asked = "gssapi" /\ Refusal(w[1], "gssapi")
    BY <1>1, <1>3, <1>4, <1>10, <2>4 DEF Hears, Talk, Silent, Asking, Told, Quiet,
       Login!Prompts, Refusal, Result, Login!Token
  <2>6. up' = up /\ up' \in Seq(Ups) /\ Len(up') <= 2
    BY <1>2, <1>10 DEF Traffic
  <2>7. Talk(state', w, up', server)
    BY <1>1, <1>4, <1>10, <2>2, <2>4, <2>5, <2>6 DEF Goes, Talk, Silent, Asking, Told, Quiet,
       Login!Prompts, Refusal, Result, Login!Token
  <2>8. trust' \in BOOLEAN /\ agent' = "idle" /\ user_input' \in Seq({"line", "abort"}) /\
          Len(user_input') <= MaxTyped
    BY <1>2, <1>4, <1>5, <1>10 DEF Control
  <2>9. trust'
    BY <1>1, <1>2, <1>4, <1>10, <2>4, <2>5, <2>2 DEF Control, Trusted, Refusal, Result,
       Login!Token
  <2> QED BY <1>1, <1>4, <1>5, <2>2, <2>3, <2>4, <2>6, <2>7, <2>8, <2>9, GoesOn DEF Goes
<1>11. CASE Login!Filtered # <<>> /\ Login!pktin.type \notin {"token", "errtok", "failure"} /\
              Login!ssh2_userauth_pop
  <2>4. PICK v : /\ queue' \in Seq(Downs) /\ banner' \in 0 .. BannerLimit /\ v \in Seq(Downs)
                 /\ Says(queue' \o down', v) /\ Len(w) > 0 /\ Login!pktin = w[1]
                 /\ Len(w) = 1 => v = <<>>
                 /\ Len(w) = 2 => Len(v) = 1 /\ v[1] = w[2]
    BY <1>2, <1>3, <1>5, <1>11, PopKeeps
  <2> QED BY <1>1, <1>3, <1>4, <1>11, <2>4 DEF Hears, Talk, Asking, Told, Refusal, Login!Token
<1> QED BY <1>6, <1>7, <1>8, <1>9, <1>10, <1>11

\* The refusal comes after the error token.
LEMMA GssErrtokKeeps ==
    ASSUME Login!LoginAssumption, LoginInv, Login!GssErrtok
    PROVE  LoginInv'
<1>1. state.running /\ state.pc = "gss_errtok"
  BY DEF Login!GssErrtok, Login!At, Login!Got, Login!Prompts
<1>2. Control /\ Traffic /\ state \in LoginState /\ ~Login!Over
  BY <1>1, StillLogin
<1>3. PICK w : Hears(w)
  BY <1>1, StillLogin
<1>4. ~state.suppress_wait /\ agent = "idle" /\ trust
  BY <1>1, <1>2 DEF Control, Steady, Login!AgentHeard, Login!AgentWaits, Trusted, Login!Prompts
<1>5. UNCHANGED <<conf, wake, Login!wire>> /\ down' = down /\ server' = server /\
        UNCHANGED user_input
  BY DEF Login!GssErrtok, Login!At, Login!Got, Login!wire, Login!InfoRequest, Login!Try
<1>6. \/ (Login!Filtered # <<>> /\ Login!ssh2_userauth_filter_queue /\
           state' = [state EXCEPT !.pc = "response"] /\ UNCHANGED <<trust, agent, up>>)
      \/ (state' = Login!Ended /\ Login!ssh2_userauth_filter_queue /\ UNCHANGED <<trust, agent,
           up>>)
  BY <1>1, <1>2, <1>4 DEF Login!GssErrtok, Login!At, Login!Got, Login!Got, Login!Try,
     Login!Request
<1>7. CASE Login!Filtered # <<>> /\ Login!ssh2_userauth_filter_queue /\
             state' = [state EXCEPT !.pc = "response"] /\ UNCHANGED <<trust, agent, up>>
  <2>1. state' \in LoginState
    <3>1. "response" \in Pcs
      BY <1>2, PcNames DEF LoginState, Requests
    <3> QED BY <1>2, <1>7, <3>1 DEF LoginState, Login!At
  <2>2. Goes("response", state.asked, state.gss, state.header, state.suppress_wait)
    BY <1>1, <1>2, <1>7, <2>1 DEF LoginState, Goes, Login!At
  <2>3. Keys(state)'
    <3>1. SameKeys /\ state'.pc = "response" /\ state'.can = state.can
      BY <1>2, <1>7, <2>1, <2>2 DEF LoginState, SameKeys, Goes, Login!At
    <3> QED BY <1>1, <1>2, <1>5, <3>1, KeysStay DEF Early
  <2>4. /\ queue' \in Seq(Downs) /\ banner' \in 0 .. BannerLimit /\ w \in Seq(Downs) /\
             Says(queue' \o down', w)
        /\ Len(w) > 0 /\ Login!pktin = w[1]
    BY <1>2, <1>3, <1>5, <1>7, FilterKeeps DEF Hears
  <2>5. Len(w) = 1 /\ up = <<>> /\ state.asked = "gssapi" /\ Refusal(w[1], "gssapi")
    BY <1>1, <1>3, <1>4, <1>7, <2>4 DEF Hears, Talk, Silent, Asking, Told, Quiet,
       Login!Prompts, Refusal, Result
  <2>6. up' = up /\ up' \in Seq(Ups) /\ Len(up') <= 2
    BY <1>2, <1>7 DEF Traffic
  <2>7. Talk(state', w, up', server)
    BY <1>1, <1>4, <1>7, <2>2, <2>4, <2>5, <2>6 DEF Goes, Talk, Silent, Asking, Told, Quiet,
       Login!Prompts, Refusal, Result
  <2>8. trust' \in BOOLEAN /\ agent' = "idle" /\ user_input' \in Seq({"line", "abort"}) /\
          Len(user_input') <= MaxTyped
    BY <1>2, <1>4, <1>5, <1>7 DEF Control
  <2>9. trust'
    BY <1>1, <1>2, <1>4, <1>7, <2>4, <2>5, <2>2 DEF Control, Trusted, Refusal, Result
  <2> QED BY <1>1, <1>4, <1>5, <2>2, <2>3, <2>4, <2>6, <2>7, <2>8, <2>9, GoesOn DEF Goes
<1>8. CASE state' = Login!Ended /\ Login!ssh2_userauth_filter_queue /\ UNCHANGED <<trust,
             agent, up>>
  <2>1. queue' \in Seq(Downs) /\ banner' \in 0 .. BannerLimit
    BY <1>2, <1>3, <1>5, <1>8, FilterKeeps
  <2>2. up' \in Seq(Ups) /\ Len(up') <= 2
    BY <1>2, <1>8 DEF Traffic
  <2>3. agent' = "idle" /\ trust' = trust /\ user_input' \in Seq({"line", "abort"}) /\
          Len(user_input') <= MaxTyped
    BY <1>2, <1>4, <1>5, <1>8 DEF Control
  <2> QED BY <1>1, <1>4, <1>5, <1>8, <2>1, <2>2, <2>3, EndsHere
<1> QED BY <1>6, <1>7, <1>8

\* The server takes keyboard-interactive up, or does not.
LEMMA KiRequestKeeps ==
    ASSUME Login!LoginAssumption, LoginInv, Login!KiRequest
    PROVE  LoginInv'
<1>1. state.running /\ state.pc = "ki_request"
  BY DEF Login!KiRequest, Login!At, Login!Got, Login!InfoRequest, Login!Prompts
<1>2. Control /\ Traffic /\ state \in LoginState /\ ~Login!Over
  BY <1>1, StillLogin
<1>3. PICK w : Hears(w)
  BY <1>1, StillLogin
<1>4. ~state.suppress_wait /\ agent = "idle" /\ trust
  BY <1>1, <1>2 DEF Control, Steady, Login!AgentHeard, Login!AgentWaits, Trusted, Login!Prompts
<1>5. UNCHANGED <<conf, wake, Login!wire>> /\ down' = down /\ server' = server /\
        UNCHANGED user_input
  BY DEF Login!KiRequest, Login!At, Login!Got, Login!InfoRequest, Login!wire,
         Login!InfoRequest, Login!Try
<1>6. \/ (Login!Filtered # <<>> /\ Login!pktin.type = "info_request" /\
           Login!ssh2_userauth_pop /\ state' = [state EXCEPT !.pc = "ki_prompt",
           !.need = Login!pktin.prompts, !.header = @ \/ Login!pktin.prompts > 0] /\
           trust' = (trust /\ (state.header \/ Login!pktin.prompts = 0)) /\ UNCHANGED <<agent,
           up>>)
      \/ (Login!Filtered # <<>> /\ Login!pktin.type # "info_request" /\
           Login!ssh2_userauth_filter_queue /\ state' = [state EXCEPT !.pc = "response",
           !.type = "ki_quiet", !.tried = @ \cup {"ki"}] /\ UNCHANGED <<trust, agent, up>>)
  BY <1>1, <1>2, <1>4 DEF Login!KiRequest, Login!At, Login!Got, Login!InfoRequest, Login!Got,
     Login!Try, Login!Request
<1>7. CASE Login!Filtered # <<>> /\ Login!pktin.type = "info_request" /\
             Login!ssh2_userauth_pop /\ state' = [state EXCEPT !.pc = "ki_prompt",
             !.need = Login!pktin.prompts, !.header = @ \/ Login!pktin.prompts > 0] /\
             trust' = (trust /\ (state.header \/ Login!pktin.prompts = 0)) /\
             UNCHANGED <<agent, up>>
  <2>4. PICK v : /\ queue' \in Seq(Downs) /\ banner' \in 0 .. BannerLimit /\ v \in Seq(Downs)
                 /\ Says(queue' \o down', v) /\ Len(w) > 0 /\ Login!pktin = w[1]
                 /\ Len(w) = 1 => v = <<>>
                 /\ Len(w) = 2 => Len(v) = 1 /\ v[1] = w[2]
    BY <1>2, <1>3, <1>5, <1>7, PopKeeps
  <2>1. Len(w) = 1 /\ up = <<>> /\ state.asked = "ki" /\ Login!pktin.prompts \in {0, 1}
    BY <1>1, <1>3, <1>4, <1>7, <2>4 DEF Hears, Talk, Asking, Told, Info, Result
  <2>2. /\ Login!pktin.prompts \in 0 .. 3 /\ (state.header \/
             Login!pktin.prompts > 0) \in BOOLEAN /\ "ki_prompt" \in Pcs
        /\ Login!pktin.prompts # 0 => Login!pktin.prompts > 0
    BY <2>1, PcNames
  <2>3. state' \in LoginState
    BY <1>2, <1>7, <2>2 DEF LoginState
  <2> DEFINE h == state.header \/ Login!pktin.prompts > 0
  <2>5. Goes("ki_prompt", state.asked, state.gss, h, state.suppress_wait)
    BY <1>1, <1>2, <1>7, <2>3 DEF LoginState, Goes
  <2>6. Keys(state)'
    <3>1. SameKeys /\ state'.pc = "ki_prompt"
      BY <1>2, <1>7, <2>3, <2>5 DEF LoginState, SameKeys, Goes
    <3> QED BY <1>1, <1>2, <1>5, <3>1, KeysStay DEF Early
  <2>7. up' = up /\ up' \in Seq(Ups) /\ Len(up') <= 2
    BY <1>2, <1>7 DEF Traffic
  <2>8. Talk(state', v, up', server)
    BY <1>4, <2>1, <2>4, <2>5, <2>7 DEF Goes, Talk, Silent, Quiet, Login!Prompts
  <2>9. trust' \in BOOLEAN /\ agent' = "idle" /\ user_input' \in Seq({"line", "abort"}) /\
          Len(user_input') <= MaxTyped
    BY <1>2, <1>4, <1>5, <1>7 DEF Control
  <2>10. trust' \/ h
    <3>1. trust \/ state.header
      BY <1>1, <1>2 DEF Control, Trusted
    <3> QED BY <1>7, <2>2, <3>1
  <2> HIDE DEF h
  <2> QED BY <1>4, <1>5, <2>4, <2>5, <2>6, <2>7, <2>8, <2>9, <2>10, GoesOn
<1>8. CASE Login!Filtered # <<>> /\ Login!pktin.type # "info_request" /\
             Login!ssh2_userauth_filter_queue /\ state' = [state EXCEPT !.pc = "response",
             !.type = "ki_quiet", !.tried = @ \cup {"ki"}] /\ UNCHANGED <<trust, agent, up>>
  <2>1. state' \in LoginState
    <3>1. "response" \in Pcs /\ state.tried \cup {"ki"} \in SUBSET {"keyex", "gssapi", "file",
            "ki"}
      BY <1>2, PcNames DEF LoginState, Requests
    <3> QED BY <1>2, <1>8, <3>1 DEF LoginState, Login!At
  <2>2. Goes("response", state.asked, state.gss, state.header, state.suppress_wait)
    BY <1>1, <1>2, <1>8, <2>1 DEF LoginState, Goes, Login!At
  <2>3. Keys(state)'
    <3>1. SameKeys /\ state'.pc = "response" /\ state'.can = state.can
      BY <1>2, <1>8, <2>1, <2>2 DEF LoginState, SameKeys, Goes, Login!At
    <3> QED BY <1>1, <1>2, <1>5, <3>1, KeysStay DEF Early
  <2>4. /\ queue' \in Seq(Downs) /\ banner' \in 0 .. BannerLimit /\ w \in Seq(Downs) /\
             Says(queue' \o down', w)
        /\ Len(w) > 0 /\ Login!pktin = w[1]
    BY <1>2, <1>3, <1>5, <1>8, FilterKeeps DEF Hears
  <2>5. Len(w) = 1 /\ up = <<>> /\ state.asked = "ki" /\ Result(w[1], "ki")
    BY <1>1, <1>3, <1>4, <1>8, <2>4 DEF Hears, Talk, Silent, Asking, Told, Quiet,
       Login!Prompts, Info, Result
  <2>6. up' = up /\ up' \in Seq(Ups) /\ Len(up') <= 2
    BY <1>2, <1>8 DEF Traffic
  <2>7. Talk(state', w, up', server)
    BY <1>1, <1>4, <1>8, <2>2, <2>4, <2>5, <2>6 DEF Goes, Talk, Silent, Asking, Told, Quiet,
       Login!Prompts, Info, Result
  <2>8. trust' \in BOOLEAN /\ agent' = "idle" /\ user_input' \in Seq({"line", "abort"}) /\
          Len(user_input') <= MaxTyped
    BY <1>2, <1>4, <1>5, <1>8 DEF Control
  <2>9. trust'
    BY <1>1, <1>2, <1>4, <1>8, <2>4, <2>5, <2>2 DEF Control, Trusted, Info, Result
  <2> QED BY <1>1, <1>4, <1>5, <2>2, <2>3, <2>4, <2>6, <2>7, <2>8, <2>9, GoesOn DEF Goes
<1> QED BY <1>6, <1>7, <1>8

\* The server asks again, or has made up its mind.
LEMMA KiReplyKeeps ==
    ASSUME Login!LoginAssumption, LoginInv, Login!KiReply
    PROVE  LoginInv'
<1>1. state.running /\ state.pc = "ki_reply"
  BY DEF Login!KiReply, Login!At, Login!Got, Login!InfoRequest, Login!Prompts
<1>2. Control /\ Traffic /\ state \in LoginState /\ ~Login!Over
  BY <1>1, StillLogin
<1>3. PICK w : Hears(w)
  BY <1>1, StillLogin
<1>4. ~state.suppress_wait /\ agent = "idle"
  BY <1>1, <1>2 DEF Control, Steady, Login!AgentHeard, Login!AgentWaits, Trusted, Login!Prompts
<1>5. UNCHANGED <<conf, wake, Login!wire>> /\ down' = down /\ server' = server /\
        UNCHANGED user_input
  BY DEF Login!KiReply, Login!At, Login!Got, Login!InfoRequest, Login!wire, Login!InfoRequest,
         Login!Try
<1>6. \/ (Login!Filtered # <<>> /\ Login!pktin.type = "info_request" /\
           Login!ssh2_userauth_pop /\ state' = [state EXCEPT !.pc = "ki_prompt",
           !.need = Login!pktin.prompts, !.header = @ \/ Login!pktin.prompts > 0] /\
           trust' = (trust /\ (state.header \/ Login!pktin.prompts = 0)) /\ UNCHANGED <<agent,
           up>>)
      \/ (Login!Filtered # <<>> /\ Login!pktin.type # "info_request" /\
           Login!ssh2_userauth_filter_queue /\ state' = [state EXCEPT !.pc = "response"] /\
           trust' = (trust \/ state.header) /\ UNCHANGED <<agent, up>>)
  BY <1>1, <1>2, <1>4 DEF Login!KiReply, Login!At, Login!Got, Login!InfoRequest, Login!Got,
     Login!Try, Login!Request
<1>7. CASE Login!Filtered # <<>> /\ Login!pktin.type = "info_request" /\
             Login!ssh2_userauth_pop /\ state' = [state EXCEPT !.pc = "ki_prompt",
             !.need = Login!pktin.prompts, !.header = @ \/ Login!pktin.prompts > 0] /\
             trust' = (trust /\ (state.header \/ Login!pktin.prompts = 0)) /\
             UNCHANGED <<agent, up>>
  <2>4. PICK v : /\ queue' \in Seq(Downs) /\ banner' \in 0 .. BannerLimit /\ v \in Seq(Downs)
                 /\ Says(queue' \o down', v) /\ Len(w) > 0 /\ Login!pktin = w[1]
                 /\ Len(w) = 1 => v = <<>>
                 /\ Len(w) = 2 => Len(v) = 1 /\ v[1] = w[2]
    BY <1>2, <1>3, <1>5, <1>7, PopKeeps
  <2>1. Len(w) = 1 /\ up = <<>> /\ state.asked = "ki" /\ Login!pktin.prompts \in {0, 1}
    BY <1>1, <1>3, <1>4, <1>7, <2>4 DEF Hears, Talk, Asking, Told, Info, Result
  <2>2. /\ Login!pktin.prompts \in 0 .. 3 /\ (state.header \/
             Login!pktin.prompts > 0) \in BOOLEAN /\ "ki_prompt" \in Pcs
        /\ Login!pktin.prompts # 0 => Login!pktin.prompts > 0
    BY <2>1, PcNames
  <2>3. state' \in LoginState
    BY <1>2, <1>7, <2>2 DEF LoginState
  <2> DEFINE h == state.header \/ Login!pktin.prompts > 0
  <2>5. Goes("ki_prompt", state.asked, state.gss, h, state.suppress_wait)
    BY <1>1, <1>2, <1>7, <2>3 DEF LoginState, Goes
  <2>6. Keys(state)'
    <3>1. SameKeys /\ state'.pc = "ki_prompt"
      BY <1>2, <1>7, <2>3, <2>5 DEF LoginState, SameKeys, Goes
    <3> QED BY <1>1, <1>2, <1>5, <3>1, KeysStay DEF Early
  <2>7. up' = up /\ up' \in Seq(Ups) /\ Len(up') <= 2
    BY <1>2, <1>7 DEF Traffic
  <2>8. Talk(state', v, up', server)
    BY <1>4, <2>1, <2>4, <2>5, <2>7 DEF Goes, Talk, Silent, Quiet, Login!Prompts
  <2>9. trust' \in BOOLEAN /\ agent' = "idle" /\ user_input' \in Seq({"line", "abort"}) /\
          Len(user_input') <= MaxTyped
    BY <1>2, <1>4, <1>5, <1>7 DEF Control
  <2>10. trust' \/ h
    <3>1. trust \/ state.header
      BY <1>1, <1>2 DEF Control, Trusted
    <3> QED BY <1>7, <2>2, <3>1
  <2> HIDE DEF h
  <2> QED BY <1>4, <1>5, <2>4, <2>5, <2>6, <2>7, <2>8, <2>9, <2>10, GoesOn
<1>8. CASE Login!Filtered # <<>> /\ Login!pktin.type # "info_request" /\
             Login!ssh2_userauth_filter_queue /\ state' = [state EXCEPT !.pc = "response"] /\
             trust' = (trust \/ state.header) /\ UNCHANGED <<agent, up>>
  <2>1. state' \in LoginState
    <3>1. "response" \in Pcs
      BY <1>2, PcNames DEF LoginState, Requests
    <3> QED BY <1>2, <1>8, <3>1 DEF LoginState, Login!At
  <2>2. Goes("response", state.asked, state.gss, state.header, state.suppress_wait)
    BY <1>1, <1>2, <1>8, <2>1 DEF LoginState, Goes, Login!At
  <2>3. Keys(state)'
    <3>1. SameKeys /\ state'.pc = "response" /\ state'.can = state.can
      BY <1>2, <1>8, <2>1, <2>2 DEF LoginState, SameKeys, Goes, Login!At
    <3> QED BY <1>1, <1>2, <1>5, <3>1, KeysStay DEF Early
  <2>4. /\ queue' \in Seq(Downs) /\ banner' \in 0 .. BannerLimit /\ w \in Seq(Downs) /\
             Says(queue' \o down', w)
        /\ Len(w) > 0 /\ Login!pktin = w[1]
    BY <1>2, <1>3, <1>5, <1>8, FilterKeeps DEF Hears
  <2>5. Len(w) = 1 /\ up = <<>> /\ state.asked = "ki" /\ Result(w[1], "ki")
    BY <1>1, <1>3, <1>4, <1>8, <2>4 DEF Hears, Talk, Silent, Asking, Told, Quiet,
       Login!Prompts, Info, Result
  <2>6. up' = up /\ up' \in Seq(Ups) /\ Len(up') <= 2
    BY <1>2, <1>8 DEF Traffic
  <2>7. Talk(state', w, up', server)
    BY <1>1, <1>4, <1>8, <2>2, <2>4, <2>5, <2>6 DEF Goes, Talk, Silent, Asking, Told, Quiet,
       Login!Prompts, Info, Result
  <2>8. trust' \in BOOLEAN /\ agent' = "idle" /\ user_input' \in Seq({"line", "abort"}) /\
          Len(user_input') <= MaxTyped
    BY <1>2, <1>4, <1>5, <1>8 DEF Control
  <2>9. trust'
    BY <1>1, <1>2, <1>4, <1>8, <2>4, <2>5, <2>2 DEF Control, Trusted, Info, Result
  <2> QED BY <1>1, <1>4, <1>5, <2>2, <2>3, <2>4, <2>6, <2>7, <2>8, <2>9, GoesOn DEF Goes
<1> QED BY <1>6, <1>7, <1>8

\* The answers go to the server.
LEMMA KiResponseKeeps ==
    ASSUME Login!LoginAssumption, LoginInv, Login!KiResponse
    PROVE  LoginInv'
<1>1. state.running /\ state.pc = "ki_prompt"
  BY DEF Login!KiResponse, Login!At, Login!Answered, Login!Prompts
<1>2. Control /\ Traffic /\ state \in LoginState /\ ~Login!Over
  BY <1>1, StillLogin
<1>3. PICK w : Hears(w)
  BY <1>1, StillLogin
<1>4. ~state.suppress_wait /\ agent = "idle"
  BY <1>1, <1>2 DEF Control, Steady, Login!AgentHeard, Login!AgentWaits, Trusted, Login!Prompts
<1>5. UNCHANGED <<conf, wake, Login!wire>> /\ down' = down /\ server' = server /\
        UNCHANGED user_input
  BY DEF Login!KiResponse, Login!At, Login!Answered, Login!wire, Login!InfoRequest, Login!Try
<1>6. \/ (state' = [state EXCEPT !.pc = "ki_reply"] /\ UNCHANGED <<queue, banner, trust,
           agent>> /\ Login!Send([type |-> "info"]))
  BY <1>1, <1>2, <1>4 DEF Login!KiResponse, Login!At, Login!Answered, Login!Got, Login!Try,
     Login!Request
<1>7. CASE state' = [state EXCEPT !.pc = "ki_reply"] /\ UNCHANGED <<queue, banner, trust,
             agent>> /\ Login!Send([type |-> "info"])
  <2>1. state' \in LoginState
    <3>1. "ki_reply" \in Pcs
      BY <1>2, PcNames DEF LoginState, Requests
    <3> QED BY <1>2, <1>7, <3>1 DEF LoginState, Login!At
  <2>2. Goes("ki_reply", state.asked, state.gss, state.header, state.suppress_wait)
    BY <1>1, <1>2, <1>7, <2>1 DEF LoginState, Goes, Login!At
  <2>3. Keys(state)'
    <3>1. SameKeys /\ state'.pc = "ki_reply" /\ state'.can = state.can
      BY <1>2, <1>7, <2>1, <2>2 DEF LoginState, SameKeys, Goes, Login!At
    <3> QED BY <1>1, <1>2, <1>5, <3>1, KeysStay DEF Early
  <2>4. queue' \in Seq(Downs) /\ banner' \in 0 .. BannerLimit /\ w \in Seq(Downs) /\
          Says(queue' \o down', w)
    BY <1>2, <1>3, <1>5, <1>7 DEF Traffic, Hears
  <2>5. Silent(w, up) /\ state.asked = "ki"
    BY <1>1, <1>3, <1>4, <1>7, <2>4 DEF Hears, Talk, Silent, Asking, Told, Quiet, Login!Prompts
  <2>6. up' = <<[type |-> "info"]>> /\ up' \in Seq(Ups) /\ Len(up') <= 2
    <3>1. up = <<>> /\ [type |-> "info"] \in Ups
      BY <2>5, RequestNames DEF Silent, Requests, Ups
    <3> QED BY <1>7, <3>1, SendOne
  <2>7. Talk(state', w, up', server)
    BY <1>1, <1>4, <1>7, <2>2, <2>4, <2>5, <2>6 DEF Goes, Talk, Silent, Asking, Told, Quiet,
       Login!Prompts
  <2>8. trust' \in BOOLEAN /\ agent' = "idle" /\ user_input' \in Seq({"line", "abort"}) /\
          Len(user_input') <= MaxTyped
    BY <1>2, <1>4, <1>5, <1>7 DEF Control
  <2>9. trust' \/ state.header
    BY <1>1, <1>2, <1>4, <1>7, <2>4, <2>5, <2>2 DEF Control, Trusted
  <2> QED BY <1>1, <1>4, <1>5, <2>2, <2>3, <2>4, <2>6, <2>7, <2>8, <2>9, GoesOn DEF Goes
<1> QED BY <1>6, <1>7

\* The password goes to the server.
LEMMA SendPasswordKeeps ==
    ASSUME Login!LoginAssumption, LoginInv, Login!SendPassword
    PROVE  LoginInv'
<1>1. state.running /\ state.pc = "password"
  BY DEF Login!SendPassword, Login!At, Login!Answered, Login!Prompts
<1>2. Control /\ Traffic /\ state \in LoginState /\ ~Login!Over
  BY <1>1, StillLogin
<1>3. PICK w : Hears(w)
  BY <1>1, StillLogin
<1>4. ~state.suppress_wait /\ agent = "idle" /\ trust
  BY <1>1, <1>2 DEF Control, Steady, Login!AgentHeard, Login!AgentWaits, Trusted, Login!Prompts
<1>5. UNCHANGED <<conf, wake, Login!wire>> /\ down' = down /\ server' = server /\
        UNCHANGED user_input
  BY DEF Login!SendPassword, Login!At, Login!Answered, Login!wire, Login!InfoRequest, Login!Try
<1>6. \/ (state' = [state EXCEPT !.pc = "pw_reply", !.type = "password",
           !.asked = "password"] /\ UNCHANGED <<queue, banner, trust, agent>> /\
           Login!Send(Login!Request("password")))
  BY <1>1, <1>2, <1>4 DEF Login!SendPassword, Login!At, Login!Answered, Login!Got, Login!Try,
     Login!Request
<1>7. CASE state' = [state EXCEPT !.pc = "pw_reply", !.type = "password",
             !.asked = "password"] /\ UNCHANGED <<queue, banner, trust, agent>> /\
             Login!Send(Login!Request("password"))
  <2>1. state' \in LoginState
    <3>1. "pw_reply" \in Pcs /\ "password" \in Requests \cup {"nothing"}
      BY <1>2, PcNames DEF LoginState, Requests
    <3> QED BY <1>2, <1>7, <3>1 DEF LoginState, Login!At
  <2>2. Goes("pw_reply", "password", state.gss, state.header, state.suppress_wait)
    BY <1>1, <1>2, <1>7, <2>1 DEF LoginState, Goes, Login!At
  <2>3. Keys(state)'
    <3>1. SameKeys /\ state'.pc = "pw_reply" /\ state'.can = state.can
      BY <1>2, <1>7, <2>1, <2>2 DEF LoginState, SameKeys, Goes, Login!At
    <3> QED BY <1>1, <1>2, <1>5, <3>1, KeysStay DEF Early
  <2>4. queue' \in Seq(Downs) /\ banner' \in 0 .. BannerLimit /\ w \in Seq(Downs) /\
          Says(queue' \o down', w)
    BY <1>2, <1>3, <1>5, <1>7 DEF Traffic, Hears
  <2>5. Silent(w, up)
    BY <1>1, <1>3, <1>4, <1>7, <2>4 DEF Hears, Talk, Silent, Asking, Told, Quiet,
       Login!Prompts, Login!Request
  <2>6. up' = <<Login!Request("password")>> /\ up' \in Seq(Ups) /\ Len(up') <= 2
    <3>1. up = <<>> /\ Login!Request("password") \in Ups
      BY <2>5, RequestNames DEF Silent, Requests, Ups
    <3> QED BY <1>7, <3>1, SendOne
  <2>7. Talk(state', w, up', server)
    BY <1>1, <1>4, <1>7, <2>2, <2>4, <2>5, <2>6 DEF Goes, Talk, Silent, Asking, Told, Quiet,
       Login!Prompts, Login!Request
  <2>8. trust' \in BOOLEAN /\ agent' = "idle" /\ user_input' \in Seq({"line", "abort"}) /\
          Len(user_input') <= MaxTyped
    BY <1>2, <1>4, <1>5, <1>7 DEF Control
  <2>9. trust'
    BY <1>1, <1>2, <1>4, <1>7, <2>4, <2>5, <2>2 DEF Control, Trusted, Login!Request
  <2> QED BY <1>1, <1>4, <1>5, <2>2, <2>3, <2>4, <2>6, <2>7, <2>8, <2>9, GoesOn DEF Goes
<1> QED BY <1>6, <1>7

\* The server takes the password, refuses it or wants a new one.
LEMMA PasswordReplyKeeps ==
    ASSUME Login!LoginAssumption, LoginInv, Login!PasswordReply
    PROVE  LoginInv'
<1>1. state.running /\ state.pc = "pw_reply"
  BY DEF Login!PasswordReply, Login!At, Login!Got, Login!Prompts
<1>2. Control /\ Traffic /\ state \in LoginState /\ ~Login!Over
  BY <1>1, StillLogin
<1>3. PICK w : Hears(w)
  BY <1>1, StillLogin
<1>4. ~state.suppress_wait /\ agent = "idle" /\ trust
  BY <1>1, <1>2 DEF Control, Steady, Login!AgentHeard, Login!AgentWaits, Trusted, Login!Prompts
<1>5. UNCHANGED <<conf, wake, Login!wire>> /\ down' = down /\ server' = server /\
        UNCHANGED user_input
  BY DEF Login!PasswordReply, Login!At, Login!Got, Login!wire, Login!InfoRequest, Login!Try
<1>6. \/ (Login!Filtered # <<>> /\ Login!pktin.type = "changereq" /\ Login!ssh2_userauth_pop /\
           state' = [state EXCEPT !.pc = "new_password", !.need = 3] /\ UNCHANGED <<trust,
           agent, up>>)
      \/ (Login!Filtered # <<>> /\ Login!pktin.type # "changereq" /\
           Login!ssh2_userauth_filter_queue /\ state' = [state EXCEPT !.pc = "response"] /\
           UNCHANGED <<trust, agent, up>>)
  BY <1>1, <1>2, <1>4 DEF Login!PasswordReply, Login!At, Login!Got, Login!Got, Login!Try,
     Login!Request
<1>7. CASE Login!Filtered # <<>> /\ Login!pktin.type = "changereq" /\
             Login!ssh2_userauth_pop /\ state' = [state EXCEPT !.pc = "new_password",
             !.need = 3] /\ UNCHANGED <<trust, agent, up>>
  <2>1. state' \in LoginState
    <3>1. "new_password" \in Pcs /\ 3 \in 0 .. 3
      BY <1>2, PcNames DEF LoginState, Requests
    <3> QED BY <1>2, <1>7, <3>1 DEF LoginState, Login!At
  <2>2. Goes("new_password", state.asked, state.gss, state.header, state.suppress_wait)
    BY <1>1, <1>2, <1>7, <2>1 DEF LoginState, Goes, Login!At
  <2>3. Keys(state)'
    <3>1. SameKeys /\ state'.pc = "new_password" /\ state'.can = state.can
      BY <1>2, <1>7, <2>1, <2>2 DEF LoginState, SameKeys, Goes, Login!At
    <3> QED BY <1>1, <1>2, <1>5, <3>1, KeysStay DEF Early
  <2>4. PICK v : /\ queue' \in Seq(Downs) /\ banner' \in 0 .. BannerLimit /\ v \in Seq(Downs)
                 /\ Says(queue' \o down', v) /\ Len(w) > 0 /\ Login!pktin = w[1]
                 /\ Len(w) = 1 => v = <<>>
                 /\ Len(w) = 2 => Len(v) = 1 /\ v[1] = w[2]
    BY <1>2, <1>3, <1>5, <1>7, PopKeeps
  <2>5. Len(w) = 1 /\ up = <<>>
    BY <1>1, <1>3, <1>4, <1>7, <2>4 DEF Hears, Talk, Silent, Asking, Told, Quiet,
       Login!Prompts, Result
  <2>6. up' = up /\ up' \in Seq(Ups) /\ Len(up') <= 2
    BY <1>2, <1>7 DEF Traffic
  <2>7. Talk(state', v, up', server)
    BY <1>1, <1>4, <1>7, <2>2, <2>4, <2>5, <2>6 DEF Goes, Talk, Silent, Asking, Told, Quiet,
       Login!Prompts, Result
  <2>8. trust' \in BOOLEAN /\ agent' = "idle" /\ user_input' \in Seq({"line", "abort"}) /\
          Len(user_input') <= MaxTyped
    BY <1>2, <1>4, <1>5, <1>7 DEF Control
  <2>9. trust'
    BY <1>1, <1>2, <1>4, <1>7, <2>4, <2>5, <2>2 DEF Control, Trusted, Result
  <2> QED BY <1>1, <1>4, <1>5, <2>2, <2>3, <2>4, <2>6, <2>7, <2>8, <2>9, GoesOn DEF Goes
<1>8. CASE Login!Filtered # <<>> /\ Login!pktin.type # "changereq" /\
             Login!ssh2_userauth_filter_queue /\ state' = [state EXCEPT !.pc = "response"] /\
             UNCHANGED <<trust, agent, up>>
  <2>1. state' \in LoginState
    <3>1. "response" \in Pcs
      BY <1>2, PcNames DEF LoginState, Requests
    <3> QED BY <1>2, <1>8, <3>1 DEF LoginState, Login!At
  <2>2. Goes("response", state.asked, state.gss, state.header, state.suppress_wait)
    BY <1>1, <1>2, <1>8, <2>1 DEF LoginState, Goes, Login!At
  <2>3. Keys(state)'
    <3>1. SameKeys /\ state'.pc = "response" /\ state'.can = state.can
      BY <1>2, <1>8, <2>1, <2>2 DEF LoginState, SameKeys, Goes, Login!At
    <3> QED BY <1>1, <1>2, <1>5, <3>1, KeysStay DEF Early
  <2>4. /\ queue' \in Seq(Downs) /\ banner' \in 0 .. BannerLimit /\ w \in Seq(Downs) /\
             Says(queue' \o down', w)
        /\ Len(w) > 0 /\ Login!pktin = w[1]
    BY <1>2, <1>3, <1>5, <1>8, FilterKeeps DEF Hears
  <2>5. Len(w) = 1 /\ up = <<>> /\ Result(w[1], state.asked)
    BY <1>1, <1>3, <1>4, <1>8, <2>4 DEF Hears, Talk, Silent, Asking, Told, Quiet,
       Login!Prompts, Result
  <2>6. up' = up /\ up' \in Seq(Ups) /\ Len(up') <= 2
    BY <1>2, <1>8 DEF Traffic
  <2>7. Talk(state', w, up', server)
    BY <1>1, <1>4, <1>8, <2>2, <2>4, <2>5, <2>6 DEF Goes, Talk, Silent, Asking, Told, Quiet,
       Login!Prompts, Result
  <2>8. trust' \in BOOLEAN /\ agent' = "idle" /\ user_input' \in Seq({"line", "abort"}) /\
          Len(user_input') <= MaxTyped
    BY <1>2, <1>4, <1>5, <1>8 DEF Control
  <2>9. trust'
    BY <1>1, <1>2, <1>4, <1>8, <2>4, <2>5, <2>2 DEF Control, Trusted, Result
  <2> QED BY <1>1, <1>4, <1>5, <2>2, <2>3, <2>4, <2>6, <2>7, <2>8, <2>9, GoesOn DEF Goes
<1> QED BY <1>6, <1>7, <1>8

\* The new password goes to the server, or is asked for again.
LEMMA NewPasswordKeeps ==
    ASSUME Login!LoginAssumption, LoginInv, Login!NewPassword
    PROVE  LoginInv'
<1>1. state.running /\ state.pc = "new_password"
  BY DEF Login!NewPassword, Login!At, Login!Answered, Login!Prompts
<1>2. Control /\ Traffic /\ state \in LoginState /\ ~Login!Over
  BY <1>1, StillLogin
<1>3. PICK w : Hears(w)
  BY <1>1, StillLogin
<1>4. ~state.suppress_wait /\ agent = "idle" /\ trust
  BY <1>1, <1>2 DEF Control, Steady, Login!AgentHeard, Login!AgentWaits, Trusted, Login!Prompts
<1>5. UNCHANGED <<conf, wake, Login!wire>> /\ down' = down /\ server' = server /\
        UNCHANGED user_input
  BY DEF Login!NewPassword, Login!At, Login!Answered, Login!wire, Login!InfoRequest, Login!Try
<1>6. \/ (state' = [state EXCEPT !.pc = "pw_reply", !.asked = "change"] /\ UNCHANGED <<queue,
           banner, trust, agent>> /\ Login!Send(Login!Request("change")))
      \/ (state' = [state EXCEPT !.need = 3] /\ UNCHANGED <<queue, banner, trust, agent, up>>)
  BY <1>1, <1>2, <1>4 DEF Login!NewPassword, Login!At, Login!Answered, Login!Got, Login!Try,
     Login!Request
<1>7. CASE state' = [state EXCEPT !.pc = "pw_reply", !.asked = "change"] /\ UNCHANGED <<queue,
             banner, trust, agent>> /\ Login!Send(Login!Request("change"))
  <2>1. state' \in LoginState
    <3>1. "pw_reply" \in Pcs /\ "change" \in Requests \cup {"nothing"}
      BY <1>2, PcNames DEF LoginState, Requests
    <3> QED BY <1>2, <1>7, <3>1 DEF LoginState, Login!At
  <2>2. Goes("pw_reply", "change", state.gss, state.header, state.suppress_wait)
    BY <1>1, <1>2, <1>7, <2>1 DEF LoginState, Goes, Login!At
  <2>3. Keys(state)'
    <3>1. SameKeys /\ state'.pc = "pw_reply" /\ state'.can = state.can
      BY <1>2, <1>7, <2>1, <2>2 DEF LoginState, SameKeys, Goes, Login!At
    <3> QED BY <1>1, <1>2, <1>5, <3>1, KeysStay DEF Early
  <2>4. queue' \in Seq(Downs) /\ banner' \in 0 .. BannerLimit /\ w \in Seq(Downs) /\
          Says(queue' \o down', w)
    BY <1>2, <1>3, <1>5, <1>7 DEF Traffic, Hears
  <2>5. Silent(w, up)
    BY <1>1, <1>3, <1>4, <1>7, <2>4 DEF Hears, Talk, Silent, Asking, Told, Quiet,
       Login!Prompts, Login!Request
  <2>6. up' = <<Login!Request("change")>> /\ up' \in Seq(Ups) /\ Len(up') <= 2
    <3>1. up = <<>> /\ Login!Request("change") \in Ups
      BY <2>5, RequestNames DEF Silent, Requests, Ups
    <3> QED BY <1>7, <3>1, SendOne
  <2>7. Talk(state', w, up', server)
    BY <1>1, <1>4, <1>7, <2>2, <2>4, <2>5, <2>6 DEF Goes, Talk, Silent, Asking, Told, Quiet,
       Login!Prompts, Login!Request
  <2>8. trust' \in BOOLEAN /\ agent' = "idle" /\ user_input' \in Seq({"line", "abort"}) /\
          Len(user_input') <= MaxTyped
    BY <1>2, <1>4, <1>5, <1>7 DEF Control
  <2>9. trust'
    BY <1>1, <1>2, <1>4, <1>7, <2>4, <2>5, <2>2 DEF Control, Trusted, Login!Request
  <2> QED BY <1>1, <1>4, <1>5, <2>2, <2>3, <2>4, <2>6, <2>7, <2>8, <2>9, GoesOn DEF Goes
<1>8. CASE state' = [state EXCEPT !.need = 3] /\ UNCHANGED <<queue, banner, trust, agent, up>>
  <2>1. state' \in LoginState
    <3>1. "new_password" \in Pcs /\ 3 \in 0 .. 3
      BY <1>2, PcNames DEF LoginState, Requests
    <3> QED BY <1>2, <1>8, <3>1 DEF LoginState, Login!At
  <2>2. Goes("new_password", state.asked, state.gss, state.header, state.suppress_wait)
    BY <1>1, <1>2, <1>8, <2>1 DEF LoginState, Goes, Login!At
  <2>3. Keys(state)'
    <3>1. SameKeys /\ state'.pc = "new_password" /\ state'.can = state.can
      BY <1>2, <1>8, <2>1, <2>2 DEF LoginState, SameKeys, Goes, Login!At
    <3> QED BY <1>1, <1>2, <1>5, <3>1, KeysStay DEF Early
  <2>4. queue' \in Seq(Downs) /\ banner' \in 0 .. BannerLimit /\ w \in Seq(Downs) /\
          Says(queue' \o down', w)
    BY <1>2, <1>3, <1>5, <1>8 DEF Traffic, Hears
  <2>5. Silent(w, up)
    BY <1>1, <1>3, <1>4, <1>8, <2>4 DEF Hears, Talk, Silent, Asking, Told, Quiet, Login!Prompts
  <2>6. up' = up /\ up' \in Seq(Ups) /\ Len(up') <= 2
    BY <1>2, <1>8 DEF Traffic
  <2>7. Talk(state', w, up', server)
    BY <1>1, <1>4, <1>8, <2>2, <2>4, <2>5, <2>6 DEF Goes, Talk, Silent, Asking, Told, Quiet,
       Login!Prompts
  <2>8. trust' \in BOOLEAN /\ agent' = "idle" /\ user_input' \in Seq({"line", "abort"}) /\
          Len(user_input') <= MaxTyped
    BY <1>2, <1>4, <1>5, <1>8 DEF Control
  <2>9. trust'
    BY <1>1, <1>2, <1>4, <1>8, <2>4, <2>5, <2>2 DEF Control, Trusted
  <2> QED BY <1>1, <1>4, <1>5, <2>2, <2>3, <2>4, <2>6, <2>7, <2>8, <2>9, GoesOn DEF Goes
<1> QED BY <1>6, <1>7, <1>8

\* The result of the last request decides how the login goes on.
LEMMA ResponseKeeps ==
    ASSUME Login!LoginAssumption, LoginInv, Login!Response
    PROVE  LoginInv'
<1>1. state.running /\ state.pc = "response"
  BY DEF Login!Response, Login!At, Login!Prompts
<1>2. Control /\ Traffic /\ state \in LoginState /\ ~Login!Over
  BY <1>1, StillLogin
<1>3. PICK w : Hears(w)
  BY <1>1, StillLogin
<1>4. agent = "idle" /\ trust
  BY <1>1, <1>2 DEF Control, Steady, Login!AgentHeard, Login!AgentWaits, Trusted, Login!Prompts
<1>5. UNCHANGED <<conf, wake, Login!wire>> /\ down' = down /\ server' = server /\
        UNCHANGED user_input
  BY DEF Login!Response, Login!At, Login!wire, Login!InfoRequest, Login!Try
<1>6. \/ (state.suppress_wait /\ state' = [state EXCEPT !.suppress_wait = FALSE,
           !.pc = "choose"] /\ queue' = queue /\ banner' = 0 /\ UNCHANGED <<trust, agent, up>>)
      \/ (~state.suppress_wait /\ Login!Filtered # <<>> /\ queue' = Tail(Login!Filtered) /\
           state' = [state EXCEPT !.pc = "granted", !.running = FALSE] /\ banner' = 0 /\
           UNCHANGED <<trust, agent, up>>)
      \/ (~state.suppress_wait /\ Login!Filtered # <<>> /\ queue' = Tail(Login!Filtered) /\
           conf.change /\ state' = [state EXCEPT !.pc = "username"] /\ banner' = 0 /\
           UNCHANGED <<trust, agent, up>>)
      \/ (~state.suppress_wait /\ Login!Filtered # <<>> /\ queue' = Tail(Login!Filtered) /\
           Login!pktin.type = "failure" /\ state' = [state EXCEPT !.pc = "choose",
           !.can = Login!CanTry(Login!pktin.methods)] /\ banner' = 0 /\ UNCHANGED <<trust,
           agent, up>>)
      \/ (~state.suppress_wait /\ Login!Filtered # <<>> /\ queue' = Tail(Login!Filtered) /\
           state' = [state EXCEPT !.pc = "choose"] /\ banner' = 0 /\ UNCHANGED <<trust, agent,
           up>>)
      \/ (~state.suppress_wait /\ Login!Filtered # <<>> /\ queue' = Tail(Login!Filtered) /\
           state' = Login!Ended /\ banner' = 0 /\ UNCHANGED <<trust, agent, up>>)
  BY <1>1, <1>2, <1>4 DEF Login!Response, Login!At, Login!Got, Login!Try, Login!Request
<1>7. CASE state.suppress_wait /\ state' = [state EXCEPT !.suppress_wait = FALSE,
             !.pc = "choose"] /\ queue' = queue /\ banner' = 0 /\ UNCHANGED <<trust, agent, up>>
  <2>1. state' \in LoginState
    <3>1. "choose" \in Pcs
      BY <1>2, PcNames DEF LoginState, Requests
    <3> QED BY <1>2, <1>7, <3>1 DEF LoginState, Login!At
  <2>2. Goes("choose", state.asked, state.gss, state.header, FALSE)
    BY <1>1, <1>2, <1>7, <2>1 DEF LoginState, Goes, Login!At
  <2>3. Keys(state)'
    <3>1. SameKeys /\ state'.pc = "choose" /\ state'.can = state.can
      BY <1>2, <1>7, <2>1, <2>2 DEF LoginState, SameKeys, Goes, Login!At
    <3> QED BY <1>1, <1>2, <1>5, <3>1, KeysStay DEF Early
  <2>4. queue' \in Seq(Downs) /\ banner' \in 0 .. BannerLimit /\ w \in Seq(Downs) /\
          Says(queue' \o down', w)
    BY <1>2, <1>3, <1>5, <1>7 DEF Traffic, Hears, Login!LoginAssumption
  <2>5. Silent(w, up)
    BY <1>1, <1>3, <1>4, <1>7, <2>4 DEF Hears, Talk, Silent, Asking, Told, Quiet, Login!Prompts
  <2>6. up' = up /\ up' \in Seq(Ups) /\ Len(up') <= 2
    BY <1>2, <1>7 DEF Traffic
  <2>7. Talk(state', w, up', server)
    BY <1>1, <1>4, <1>7, <2>2, <2>4, <2>5, <2>6 DEF Goes, Talk, Silent, Asking, Told, Quiet,
       Login!Prompts
  <2>8. trust' \in BOOLEAN /\ agent' = "idle" /\ user_input' \in Seq({"line", "abort"}) /\
          Len(user_input') <= MaxTyped
    BY <1>2, <1>4, <1>5, <1>7 DEF Control
  <2>9. trust'
    BY <1>1, <1>2, <1>4, <1>7, <2>4, <2>5, <2>2 DEF Control, Trusted
  <2> QED BY <1>1, <1>4, <1>5, <2>2, <2>3, <2>4, <2>6, <2>7, <2>8, <2>9, GoesOn DEF Goes
<1>8. CASE ~state.suppress_wait /\ Login!Filtered # <<>> /\ queue' = Tail(Login!Filtered) /\
             state' = [state EXCEPT !.pc = "granted", !.running = FALSE] /\ banner' = 0 /\
             UNCHANGED <<trust, agent, up>>
  <2>4. PICK v : /\ queue' \in Seq(Downs) /\ banner' \in 0 .. BannerLimit /\ v \in Seq(Downs)
                 /\ Says(queue' \o down', v) /\ Len(w) > 0 /\ Login!pktin = w[1]
                 /\ Len(w) = 1 => v = <<>>
    <3>1. banner' \in 0 .. BannerLimit
      BY <1>8 DEF Login!LoginAssumption
    <3> QED BY <1>2, <1>3, <1>5, <1>8, <3>1, TakeKeeps
  <2>1. state' \in LoginState
    <3>1. "granted" \in Pcs
      BY PcNames
    <3> QED BY <1>2, <1>8, <3>1 DEF LoginState
  <2>2. state'.pc = "granted" /\ ~state'.running /\ SameKeys /\
          state'.suppress_wait = state.suppress_wait
    BY <1>2, <1>8, <2>1 DEF LoginState, SameKeys
  <2>3. Moved
    <3>1. Keys(state)'
      BY <1>2, <1>5, <2>2, KeysStay DEF Early
    <3>2. Steady(state')
      BY <1>8, <2>1, <2>2 DEF Steady, Rests, Login!Prompts
    <3> QED BY <1>4, <1>8, <3>1, <3>2 DEF Moved, Trusted, Login!AgentHeard
  <2>5. /\ trust' \in BOOLEAN /\ agent' \in {"idle", "pending", "good", "failed"}
        /\ user_input' \in Seq({"line", "abort"}) /\ Len(user_input') <= MaxTyped
        /\ up' \in Seq(Ups) /\ Len(up') <= 2 /\ Login!Over'
    BY <1>2, <1>4, <1>5, <1>8, <2>2 DEF Control, Traffic, Login!Over
  <2> QED BY <1>5, <1>8, <2>3, <2>4, <2>5, Assembled
<1>9. CASE ~state.suppress_wait /\ Login!Filtered # <<>> /\ queue' = Tail(Login!Filtered) /\
             conf.change /\ state' = [state EXCEPT !.pc = "username"] /\ banner' = 0 /\
             UNCHANGED <<trust, agent, up>>
  <2>1. state' \in LoginState
    <3>1. "username" \in Pcs
      BY <1>2, PcNames DEF LoginState, Requests
    <3> QED BY <1>2, <1>9, <3>1 DEF LoginState, Login!At
  <2>2. Goes("username", state.asked, state.gss, state.header, FALSE)
    BY <1>1, <1>2, <1>9, <2>1 DEF LoginState, Goes, Login!At
  <2>3. Keys(state)'
    <3>1. SameKeys /\ state'.pc = "username" /\ state'.can = state.can
      BY <1>2, <1>9, <2>1, <2>2 DEF LoginState, SameKeys, Goes, Login!At
    <3> QED BY <1>1, <1>2, <1>5, <3>1, KeysStay, <1>9 DEF Early
  <2>4. PICK v : /\ queue' \in Seq(Downs) /\ banner' \in 0 .. BannerLimit /\ v \in Seq(Downs)
                 /\ Says(queue' \o down', v) /\ Len(w) > 0 /\ Login!pktin = w[1]
                 /\ Len(w) = 1 => v = <<>>
    <3>1. banner' \in 0 .. BannerLimit
      BY <1>9 DEF Login!LoginAssumption
    <3> QED BY <1>2, <1>3, <1>5, <1>9, <3>1, TakeKeeps
  <2>5. Len(w) = 1 /\ up = <<>>
    BY <1>1, <1>3, <1>9, <2>4, ResultHeard
  <2>6. up' = up /\ up' \in Seq(Ups) /\ Len(up') <= 2
    BY <1>2, <1>9 DEF Traffic
  <2>7. Talk(state', v, up', server)
    BY <1>1, <1>4, <1>9, <2>2, <2>4, <2>5, <2>6 DEF Goes, Talk, Silent, Asking, Told, Quiet,
       Login!Prompts
  <2>8. trust' \in BOOLEAN /\ agent' = "idle" /\ user_input' \in Seq({"line", "abort"}) /\
          Len(user_input') <= MaxTyped
    BY <1>2, <1>4, <1>5, <1>9 DEF Control
  <2>9. trust'
    BY <1>1, <1>2, <1>4, <1>9, <2>4, <2>5, <2>2 DEF Control, Trusted
  <2> QED BY <1>1, <1>4, <1>5, <2>2, <2>3, <2>4, <2>6, <2>7, <2>8, <2>9, GoesOn DEF Goes
<1>10. CASE ~state.suppress_wait /\ Login!Filtered # <<>> /\ queue' = Tail(Login!Filtered) /\
              Login!pktin.type = "failure" /\ state' = [state EXCEPT !.pc = "choose",
              !.can = Login!CanTry(Login!pktin.methods)] /\ banner' = 0 /\ UNCHANGED <<trust,
              agent, up>>
  <2>1. state' \in LoginState
    <3>1. "choose" \in Pcs /\ Login!CanTry(Login!pktin.methods) \in SUBSET Login!Methods
      <4>1. conf.can \in SUBSET Login!Methods
        BY <1>2 DEF Control, Login!LoginAssumption, Login!SettingsType
      <4> QED BY <4>1, PcNames DEF Login!CanTry, Login!Methods
    <3> QED BY <1>2, <1>10, <3>1 DEF LoginState, Login!At
  <2>2. Goes("choose", state.asked, state.gss, state.header, FALSE)
    BY <1>1, <1>2, <1>10, <2>1 DEF LoginState, Goes, Login!At
  <2>3. Keys(state)'
    <3>1. SameKeys /\ state'.pc = "choose"
      BY <1>2, <1>10, <2>1, <2>2 DEF LoginState, SameKeys, Goes
    <3> QED BY <1>1, <1>2, <1>5, <3>1, KeysStay DEF Early
  <2>4. PICK v : /\ queue' \in Seq(Downs) /\ banner' \in 0 .. BannerLimit /\ v \in Seq(Downs)
                 /\ Says(queue' \o down', v) /\ Len(w) > 0 /\ Login!pktin = w[1]
                 /\ Len(w) = 1 => v = <<>>
    <3>1. banner' \in 0 .. BannerLimit
      BY <1>10 DEF Login!LoginAssumption
    <3> QED BY <1>2, <1>3, <1>5, <1>10, <3>1, TakeKeeps
  <2>5. Len(w) = 1 /\ up = <<>>
    BY <1>1, <1>3, <1>10, <2>4, ResultHeard
  <2>6. up' = up /\ up' \in Seq(Ups) /\ Len(up') <= 2
    BY <1>2, <1>10 DEF Traffic
  <2>7. Talk(state', v, up', server)
    BY <1>1, <1>4, <1>10, <2>2, <2>4, <2>5, <2>6 DEF Goes, Talk, Silent, Asking, Told, Quiet,
       Login!Prompts
  <2>8. trust' \in BOOLEAN /\ agent' = "idle" /\ user_input' \in Seq({"line", "abort"}) /\
          Len(user_input') <= MaxTyped
    BY <1>2, <1>4, <1>5, <1>10 DEF Control
  <2>9. trust'
    BY <1>1, <1>2, <1>4, <1>10, <2>4, <2>5, <2>2 DEF Control, Trusted
  <2> QED BY <1>1, <1>4, <1>5, <2>2, <2>3, <2>4, <2>6, <2>7, <2>8, <2>9, GoesOn DEF Goes
<1>11. CASE ~state.suppress_wait /\ Login!Filtered # <<>> /\ queue' = Tail(Login!Filtered) /\
              state' = [state EXCEPT !.pc = "choose"] /\ banner' = 0 /\ UNCHANGED <<trust,
              agent, up>>
  <2>1. state' \in LoginState
    <3>1. "choose" \in Pcs
      BY <1>2, PcNames DEF LoginState, Requests
    <3> QED BY <1>2, <1>11, <3>1 DEF LoginState, Login!At
  <2>2. Goes("choose", state.asked, state.gss, state.header, FALSE)
    BY <1>1, <1>2, <1>11, <2>1 DEF LoginState, Goes, Login!At
  <2>3. Keys(state)'
    <3>1. SameKeys /\ state'.pc = "choose" /\ state'.can = state.can
      BY <1>2, <1>11, <2>1, <2>2 DEF LoginState, SameKeys, Goes, Login!At
    <3> QED BY <1>1, <1>2, <1>5, <3>1, KeysStay DEF Early
  <2>4. PICK v : /\ queue' \in Seq(Downs) /\ banner' \in 0 .. BannerLimit /\ v \in Seq(Downs)
                 /\ Says(queue' \o down', v) /\ Len(w) > 0 /\ Login!pktin = w[1]
                 /\ Len(w) = 1 => v = <<>>
    <3>1. banner' \in 0 .. BannerLimit
      BY <1>11 DEF Login!LoginAssumption
    <3> QED BY <1>2, <1>3, <1>5, <1>11, <3>1, TakeKeeps
  <2>5. Len(w) = 1 /\ up = <<>>
    BY <1>1, <1>3, <1>11, <2>4, ResultHeard
  <2>6. up' = up /\ up' \in Seq(Ups) /\ Len(up') <= 2
    BY <1>2, <1>11 DEF Traffic
  <2>7. Talk(state', v, up', server)
    BY <1>1, <1>4, <1>11, <2>2, <2>4, <2>5, <2>6 DEF Goes, Talk, Silent, Asking, Told, Quiet,
       Login!Prompts
  <2>8. trust' \in BOOLEAN /\ agent' = "idle" /\ user_input' \in Seq({"line", "abort"}) /\
          Len(user_input') <= MaxTyped
    BY <1>2, <1>4, <1>5, <1>11 DEF Control
  <2>9. trust'
    BY <1>1, <1>2, <1>4, <1>11, <2>4, <2>5, <2>2 DEF Control, Trusted
  <2> QED BY <1>1, <1>4, <1>5, <2>2, <2>3, <2>4, <2>6, <2>7, <2>8, <2>9, GoesOn DEF Goes
<1>12. CASE ~state.suppress_wait /\ Login!Filtered # <<>> /\ queue' = Tail(Login!Filtered) /\
              state' = Login!Ended /\ banner' = 0 /\ UNCHANGED <<trust, agent, up>>
  <2>4. PICK v : /\ queue' \in Seq(Downs) /\ banner' \in 0 .. BannerLimit /\ v \in Seq(Downs)
                 /\ Says(queue' \o down', v) /\ Len(w) > 0 /\ Login!pktin = w[1]
                 /\ Len(w) = 1 => v = <<>>
    <3>1. banner' \in 0 .. BannerLimit
      BY <1>12 DEF Login!LoginAssumption
    <3> QED BY <1>2, <1>3, <1>5, <1>12, <3>1, TakeKeeps
  <2>1. queue' \in Seq(Downs) /\ banner' \in 0 .. BannerLimit
    BY <2>4
  <2>2. up' \in Seq(Ups) /\ Len(up') <= 2
    BY <1>2, <1>12 DEF Traffic
  <2>3. agent' = "idle" /\ trust' = trust /\ user_input' \in Seq({"line", "abort"}) /\
          Len(user_input') <= MaxTyped
    BY <1>2, <1>4, <1>5, <1>12 DEF Control
  <2> QED BY <1>1, <1>4, <1>5, <1>12, <2>4, <2>1, <2>2, <2>3, EndsHere
<1> QED BY <1>6, <1>7, <1>8, <1>9, <1>10, <1>11, <1>12

\* The conversation does not depend on the rest of the state.
LEMMA TalkSame ==
    ASSUME state'.pc = state.pc, state'.asked = state.asked, state'.gss = state.gss,
             state'.suppress_wait = state.suppress_wait,
           NEW w, NEW u, NEW sv, Talk(state, w, u, sv)
    PROVE  Talk(state', w, u, sv)
BY DEF Talk

\* A prompt is answered, in part or all of it.
LEMMA PromptKeeps ==
    ASSUME Login!LoginAssumption, LoginInv, state.running, state.pc \in Login!Prompts,
             NEW n \in 0 .. 3,
           state' = [state EXCEPT !.need = n], user_input' \in Seq({"line", "abort"}),
             Len(user_input') <= MaxTyped,
           UNCHANGED <<conf, wake, queue, banner, trust, agent, up, Login!wire>>
    PROVE  LoginInv'
<1>1. Control /\ Traffic /\ state \in LoginState /\ ~Login!Over
  BY StillLogin
<1>2. PICK w : Hears(w)
  BY StillLogin
<1>3. ~state.suppress_wait /\ agent = "idle" /\ state.pc \notin {"granted", "ended",
        "agent_offer", "sign"}
  BY <1>1 DEF Control, Steady, Login!AgentHeard, Login!AgentWaits, Login!Prompts
<1>4. state' \in LoginState
  BY <1>1 DEF LoginState
<1>5. Goes(state.pc, state.asked, state.gss, state.header, state.suppress_wait) /\ SameKeys /\
        state'.can = state.can
  BY <1>1, <1>4 DEF LoginState, Goes, SameKeys
<1>6. Keys(state)'
  BY <1>1, <1>3, <1>5, KeysStay DEF Goes, Early, Control, Keys
<1>7. Talk(state', w, up', server)
  BY <1>2, <1>5, TalkSame DEF Goes, Hears
<1>8. /\ queue' \in Seq(Downs) /\ banner' \in 0 .. BannerLimit /\ up' \in Seq(Ups) /\
           Len(up') <= 2
      /\ w \in Seq(Downs) /\ Says(queue' \o down', w)
  BY <1>1, <1>2 DEF Traffic, Hears, Login!wire
<1>9. trust' \in BOOLEAN /\ agent' = "idle" /\ (trust' \/ (state.header /\
        state.pc \in {"ki_prompt", "ki_reply"}))
  BY <1>1, <1>3 DEF Control, Trusted
<1>10. UNCHANGED <<conf, wake, Login!wire>> /\ ~state'.suppress_wait /\ state'.running /\
         state'.pc = state.pc /\ state'.header = state.header
  BY <1>3, <1>5 DEF Goes
<1> QED BY <1>3, <1>4, <1>6, <1>7, <1>8, <1>9, <1>10, Stays

\* The user abandons a prompt.
LEMMA AbandonKeeps ==
    ASSUME Login!LoginAssumption, LoginInv, state.running, state.pc \in Login!Prompts,
           state' = Login!Ended, user_input' \in Seq({"line", "abort"}),
             Len(user_input') <= MaxTyped,
           UNCHANGED <<conf, wake, queue, banner, trust, agent, up, Login!wire>>
    PROVE  LoginInv'
<1>1. Control /\ Traffic
  BY StillLogin
<1>2. ~state.suppress_wait /\ agent = "idle"
  BY <1>1 DEF Control, Steady, Login!AgentHeard, Login!AgentWaits, Login!Prompts
<1>3. queue' \in Seq(Downs) /\ banner' \in 0 .. BannerLimit /\ up' \in Seq(Ups) /\ Len(up') <= 2
  BY <1>1 DEF Traffic
<1> QED BY <1>2, <1>3, EndsHere

\* A dialog answers the prompt at once, or the user cancels it.
LEMMA DialogKeeps ==
    ASSUME Login!LoginAssumption, LoginInv, Login!Dialog
    PROVE  LoginInv'
<1>1. state.running /\ state.pc \in Login!Prompts /\ UNCHANGED <<conf, wake, queue, banner,
        trust, agent, up, Login!wire>>
  BY DEF Login!Dialog
<1>2. user_input' \in Seq({"line", "abort"}) /\ Len(user_input') <= MaxTyped
  BY DEF Login!Dialog, LoginInv, Control
<1>3. state' = [state EXCEPT !.need = 0] \/ state' = Login!Ended
  BY DEF Login!Dialog
<1>4. 0 \in 0 .. 3
  OBVIOUS
<1> QED BY <1>1, <1>2, <1>3, <1>4, PromptKeeps, AbandonKeeps

\* A line that was typed answers the prompt, or the user gives up.
LEMMA ReadLineKeeps ==
    ASSUME Login!LoginAssumption, LoginInv, Login!ReadLine
    PROVE  LoginInv'
<1>1. state.running /\ state.pc \in Login!Prompts /\ UNCHANGED <<conf, wake, queue, banner,
        trust, agent, up, Login!wire>>
  BY DEF Login!ReadLine
<1>2. user_input' \in Seq({"line", "abort"}) /\ Len(user_input') <= MaxTyped
  <2>1. user_input \in Seq({"line", "abort"}) /\ Len(user_input) <= MaxTyped /\
          user_input # <<>> /\ MaxTyped \in Nat
    BY DEF Login!ReadLine, LoginInv, Control, Login!LoginAssumption
  <2>2. Tail(user_input) \in Seq({"line", "abort"}) /\
          Len(Tail(user_input)) = Len(user_input) - 1 /\ Len(user_input) \in Nat
    BY <2>1, HeadTailProperties, LenProperties
  <2>3. user_input' = Tail(user_input)
    BY DEF Login!ReadLine
  <2> QED BY <2>1, <2>2, <2>3
<1>3. state' = [state EXCEPT !.need = state.need - 1] \/ state' = Login!Ended
  BY DEF Login!ReadLine
<1>4. state.need - 1 \in 0 .. 3
  <2>1. state.need \in 0 .. 3 /\ state.need > 0
    BY <1>1, StillLogin DEF Login!ReadLine, LoginState
  <2> QED BY <2>1
<1> QED BY <1>1, <1>2, <1>3, <1>4, PromptKeeps, AbandonKeeps

\* The agent's keys arrive.
LEMMA IdentitiesKeeps ==
    ASSUME Login!LoginAssumption, LoginInv, Login!Identities
    PROVE  LoginInv'
<1>1. state.running /\ state.pc = "identities"
  BY DEF Login!Identities, Login!At
<1>2. Control /\ Traffic /\ state \in LoginState /\ ~Login!Over
  BY <1>1, StillLogin
<1>3. PICK w : Hears(w)
  BY <1>1, StillLogin
<1>4. ~state.suppress_wait /\ trust /\ conf.agent \in Nat
  BY <1>1, <1>2 DEF Control, Steady, Trusted, Login!LoginAssumption, Login!SettingsType
<1>5. /\ agent' = "idle" /\ UNCHANGED <<conf, wake, queue, user_input, banner, trust, up,
           Login!wire>>
      /\ down' = down /\ server' = server
  BY DEF Login!Identities, Login!wire
<1>6. PICK k, l : /\ state' = [state EXCEPT !.pc = "username", !.key = k, !.limit = l]
                  /\ \/ k = 0 /\ l = 0
                     \/ k = 0 /\ l = conf.agent
                     \/ k \in 0 .. (conf.agent - 1) /\ l = k + 1
  <2>1. PICK r \in IF agent = "failed" THEN {<<0, 0>>}
                    ELSE IF conf.file = "none" THEN {<<0, conf.agent>>}
                    ELSE {<<i, i + 1>> : i \in 0..(conf.agent - 1)} \cup {<<0, 0>>} :
                 state' = [state EXCEPT !.pc = "username", !.key = r[1], !.limit = r[2]]
    BY DEF Login!Identities
  <2>2. \/ r = <<0, 0>> \/ r = <<0, conf.agent>>
        \/ \E i \in 0..(conf.agent - 1) : r = <<i, i + 1>>
    OBVIOUS
  <2>3. \/ r[1] = 0 /\ r[2] = 0
        \/ r[1] = 0 /\ r[2] = conf.agent
        \/ r[1] \in 0 .. (conf.agent - 1) /\ r[2] = r[1] + 1
    BY <2>2
  <2> QED BY <2>1, <2>3
<1>7. /\ k \in Nat /\ l \in Nat /\ l <= conf.agent /\ k <= conf.agent + 1 /\ (l = 0 \/ k < l)
      /\ l > 0 => k < l
  BY <1>4, <1>6
<1>8. state' \in LoginState
  <2>1. "username" \in Pcs
    BY PcNames
  <2> QED BY <1>2, <1>6, <1>7, <2>1 DEF LoginState
<1>9. Goes("username", state.asked, state.gss, state.header, state.suppress_wait)
  BY <1>1, <1>2, <1>6, <1>8 DEF LoginState, Goes
<1>10. Keys(state)'
  <2>1. state'.key = k /\ state'.limit = l /\ state'.pc = "username"
    BY <1>2, <1>6 DEF LoginState
  <2> QED BY <1>5, <1>7, <2>1 DEF Keys
<1>11. Silent(w, up)
  BY <1>1, <1>3 DEF Hears, Talk, Quiet
<1>12. /\ queue' \in Seq(Downs) /\ banner' \in 0 .. BannerLimit /\ up' \in Seq(Ups) /\
            Len(up') <= 2
       /\ w \in Seq(Downs) /\ Says(queue' \o down', w)
  BY <1>2, <1>3, <1>5 DEF Traffic, Hears
<1>13. Talk(state', w, up', server)
  BY <1>4, <1>5, <1>9, <1>11 DEF Goes, Talk, Quiet, Silent, Login!Prompts
<1>14. trust' /\ trust' \in BOOLEAN /\ user_input' \in Seq({"line", "abort"}) /\
         Len(user_input') <= MaxTyped
  BY <1>2, <1>4, <1>5 DEF Control
<1> QED BY <1>4, <1>5, <1>9, <1>10, <1>12, <1>13, <1>14, GoesOn

\* No packet is left of an empty queue.
LEMMA EmptyQueue == SubSeq(<<>>, Login!Leading(<<>>) + 1, Len(<<>>)) = <<>>
<1> DEFINE q == <<>>
<1>1. q \in Seq(Downs) /\ Len(q) = 0
  OBVIOUS
<1>2. Login!Leading(q) \in 0 .. Len(q)
  BY <1>1, LeadingIs
<1>3. SubSeq(q, 1, 0) = <<>>
  OBVIOUS
<1> HIDE DEF q
<1>4. Login!Leading(q) + 1 = 1
  BY <1>1, <1>2
<1>5. SubSeq(q, Login!Leading(q) + 1, Len(q)) = <<>>
  BY <1>1, <1>3, <1>4
<1> QED BY <1>5 DEF q

\* The coroutine returns to its caller where it has to wait.
LEMMA WaitKeeps ==
    ASSUME Login!LoginAssumption, LoginInv, Login!Wait
    PROVE  LoginInv'
<1>1. state.running /\ UNCHANGED <<conf, wake, user_input, trust, agent, up, Login!wire>> /\
        Login!ssh2_userauth_filter_queue
  BY DEF Login!Wait
<1>2. Control /\ Traffic /\ state \in LoginState /\ ~Login!Over
  BY <1>1, StillLogin
<1>3. PICK w : Hears(w)
  BY <1>1, StillLogin
<1>4. state' = [state EXCEPT !.running = FALSE, !.want_user_input = state.pc \in Login!Prompts]
  BY DEF Login!Wait
<1>5. \/ state.pc \in Login!PacketWaits /\ Login!Filtered = <<>> /\ ~(state.pc = "response" /\
           state.suppress_wait)
      \/ state.pc \in Login!AgentWaits /\ agent = "pending"
      \/ state.pc \in Login!Prompts /\ user_input = <<>>
  BY DEF Login!Wait
<1>6. state' \in LoginState
  <2>1. (state.pc \in Login!Prompts) \in BOOLEAN
    OBVIOUS
  <2> QED BY <1>2, <1>4, <2>1 DEF LoginState
<1>7. /\ state'.pc = state.pc /\ state'.asked = state.asked /\ state'.gss = state.gss /\
           state'.suppress_wait = state.suppress_wait
      /\ state'.header = state.header /\ SameKeys /\ state'.can = state.can /\
           ~state'.running /\ state'.want_user_input = (state.pc \in Login!Prompts)
  BY <1>2, <1>4 DEF LoginState, SameKeys
<1>8. ~state.suppress_wait
  BY <1>2, <1>5 DEF Control, Steady, Login!AgentWaits, Login!Prompts
<1>9. state'.pc \in Rests
  BY <1>5, <1>7 DEF Rests
<1>10. Steady(state')
  BY <1>6, <1>7, <1>8, <1>9 DEF Steady
<1>11. Keys(state)'
  <2>1. state.pc \in {"agent_offer", "sign"} => state.key < state.limit
    BY <1>2 DEF Control, Keys
  <2>2. state.pc = "password" /\ ~conf.change /\ "publickey" \in state.can /\
          state.limit > 0 => state.done_agent
    BY <1>2 DEF Control, Keys
  <2> QED BY <1>1, <1>2, <1>7, <2>1, <2>2, KeysStay
<1>12. Moved
  <2>1. Trusted(state', trust')
    BY <1>1, <1>2, <1>7 DEF Control, Trusted
  <2>2. Login!AgentHeard'
    BY <1>1, <1>2, <1>7 DEF Control, Login!AgentHeard
  <2> QED BY <1>10, <1>11, <2>1, <2>2 DEF Moved
<1>13. Login!Woken'
  <2>1. CASE state.pc \in Login!PacketWaits /\ Login!Filtered = <<>>
    <3>1. queue' = <<>>
      BY <1>1, <2>1 DEF Login!ssh2_userauth_filter_queue
    <3>2. Login!Filtered' = <<>>
      BY <3>1, EmptyQueue DEF Login!Filtered
    <3>3. state'.pc \notin Login!AgentWaits /\ state'.pc \notin Login!Prompts
      BY <1>7, <2>1 DEF Login!PacketWaits, Login!AgentWaits, Login!Prompts
    <3> QED BY <3>2, <3>3 DEF Login!Woken
  <2>2. CASE state.pc \in Login!AgentWaits /\ agent = "pending"
    <3>1. state'.pc \notin Login!PacketWaits /\ state'.pc \notin Login!Prompts
      BY <1>7, <2>2 DEF Login!PacketWaits, Login!AgentWaits, Login!Prompts
    <3> QED BY <1>1, <2>2, <3>1 DEF Login!Woken
  <2>3. CASE state.pc \in Login!Prompts /\ user_input = <<>>
    <3>1. state'.pc \notin Login!PacketWaits /\ state'.pc \notin Login!AgentWaits
      BY <1>7, <2>3 DEF Login!PacketWaits, Login!AgentWaits, Login!Prompts
    <3> QED BY <1>1, <2>3, <3>1 DEF Login!Woken
  <2> QED BY <1>5, <2>1, <2>2, <2>3
<1>14. /\ queue' \in Seq(Downs) /\ banner' \in 0 .. BannerLimit /\ Says(queue' \o down', w)
  BY <1>1, <1>2, <1>3, FilterKeeps
<1>15. Hears(w)'
  <2>1. Talk(state', w, up, server)
    BY <1>3, <1>7, TalkSame DEF Hears
  <2> QED BY <1>1, <1>3, <1>14, <2>1 DEF Hears, Login!wire
<1>16. /\ trust' \in BOOLEAN /\ user_input' \in Seq({"line", "abort"}) /\
            Len(user_input') <= MaxTyped
       /\ up' \in Seq(Ups) /\ Len(up') <= 2 /\ agent' \in {"idle", "pending", "good", "failed"}
  BY <1>1, <1>2 DEF Control, Traffic
<1>17. state'.pc # "granted"
  BY <1>2, <1>7 DEF Login!Over
<1> QED BY <1>1, <1>12, <1>13, <1>14, <1>15, <1>16, <1>17, Assembled

\* The callback of the layer runs the coroutine (ssh2_userauth_process_queue).
LEMMA LoginQueueKeeps ==
    ASSUME Login!LoginAssumption, LoginInv, Login!ProcessQueue
    PROVE  LoginInv'
<1>1. ~state.running /\ ~Login!Over /\ UNCHANGED <<conf, user_input, trust, agent, up,
        Login!wire>> /\ Login!ssh2_userauth_filter_queue
      /\ wake' = FALSE
  BY DEF Login!ProcessQueue
<1>2. Control /\ Traffic /\ state \in LoginState
  BY DEF LoginInv, Control, Steady
<1>3. PICK w : Hears(w)
  BY <1>1 DEF LoginInv
<1>4. state' = [state EXCEPT !.running = TRUE, !.want_user_input = FALSE]
  BY DEF Login!ProcessQueue
<1>5. state' \in LoginState
  BY <1>2, <1>4 DEF LoginState
<1>6. /\ state'.pc = state.pc /\ state'.asked = state.asked /\ state'.gss = state.gss /\
           state'.suppress_wait = state.suppress_wait
      /\ state'.header = state.header /\ SameKeys /\ state'.can = state.can /\ state'.running
  BY <1>2, <1>4 DEF LoginState, SameKeys
<1>7. ~state.suppress_wait /\ state.pc \notin {"granted", "ended"}
  BY <1>1, <1>2 DEF Control, Steady, Login!Over
<1>8. Steady(state')
  BY <1>5, <1>6, <1>7 DEF Steady
<1>9. Keys(state)'
  <2>1. state.pc \in {"agent_offer", "sign"} => state.key < state.limit
    BY <1>2 DEF Control, Keys
  <2>2. state.pc = "password" /\ ~conf.change /\ "publickey" \in state.can /\
          state.limit > 0 => state.done_agent
    BY <1>2 DEF Control, Keys
  <2> QED BY <1>1, <1>2, <1>6, <2>1, <2>2, KeysStay
<1>10. Control'
  <2>1. Trusted(state', trust')
    BY <1>1, <1>2, <1>6 DEF Control, Trusted
  <2>2. Login!AgentHeard'
    BY <1>1, <1>2, <1>6 DEF Control, Login!AgentHeard
  <2> QED BY <1>1, <1>2, <1>8, <1>9, <2>1, <2>2 DEF Control
<1>11. /\ queue' \in Seq(Downs) /\ banner' \in 0 .. BannerLimit /\ Says(queue' \o down', w)
  BY <1>1, <1>2, <1>3, FilterKeeps
<1>12. Traffic'
  BY <1>1, <1>2, <1>6, <1>7, <1>11 DEF Traffic, Login!wire
<1>13. Hears(w)'
  <2>1. Talk(state', w, up, server)
    BY <1>3, <1>6, TalkSame DEF Hears
  <2> QED BY <1>1, <1>3, <1>11, <2>1 DEF Hears, Login!wire
<1>14. Login!Woken'
  BY <1>6 DEF Login!Woken
<1> QED BY <1>10, <1>12, <1>13, <1>14 DEF LoginInv

-----------------------------------------------------------------------------
(* Everybody else. *)

\* The agent answers, and wakes the layer (ssh2_userauth_agent_callback).
LEMMA AgentAnswersKeeps ==
    ASSUME Login!LoginAssumption, LoginInv, Login!AgentAnswers
    PROVE  LoginInv'
<1>1. /\ agent = "pending" /\ agent' \in {"good", "failed"} /\ wake' = TRUE
      /\ UNCHANGED <<conf, state, queue, user_input, banner, trust, up, Login!wire>>
  BY DEF Login!AgentAnswers
<1>2. Control /\ Traffic
  BY DEF LoginInv
<1>3. Control'
  <2>1. Keys(state)'
    BY <1>1, <1>2 DEF Control, Keys
  <2>2. Login!AgentHeard'
    BY <1>1, <1>2 DEF Control, Login!AgentHeard
  <2> QED BY <1>1, <1>2, <2>1, <2>2 DEF Control
<1>4. Traffic'
  BY <1>1, <1>2 DEF Traffic, Login!wire
<1>5. Login!Woken'
  BY <1>1 DEF Login!Woken
<1>6. ASSUME NEW w, Hears(w) PROVE Hears(w)'
  BY <1>1, <1>6 DEF Hears, Login!wire
<1>7. Login!Over => Login!Over'
  BY <1>1 DEF Login!Over
<1> QED BY <1>3, <1>4, <1>5, <1>6, <1>7 DEF LoginInv

\* The user types, and wakes the layer if it wants that.
LEMMA UserTypesKeeps ==
    ASSUME Login!LoginAssumption, LoginInv, Login!UserTypes
    PROVE  LoginInv'
<1>1. /\ Len(user_input) < MaxTyped /\ wake' = (wake \/ state.want_user_input) /\ ~state.running
      /\ UNCHANGED <<conf, state, queue, banner, trust, agent, up, Login!wire>>
  BY DEF Login!UserTypes
<1>2. Control /\ Traffic /\ state \in LoginState
  BY DEF LoginInv, Control, Steady
<1>3. PICK key \in {"line", "abort"} : user_input' = Append(user_input, key)
  BY DEF Login!UserTypes
<1>4. user_input' \in Seq({"line", "abort"}) /\ Len(user_input') <= MaxTyped
  <2>1. user_input \in Seq({"line", "abort"}) /\ MaxTyped \in Nat
    BY <1>2 DEF Control, Login!LoginAssumption
  <2>2. /\ Append(user_input, key) \in Seq({"line", "abort"}) /\ Len(user_input) \in Nat
        /\ Len(Append(user_input, key)) = Len(user_input) + 1
    BY <2>1, AppendProperties, LenProperties
  <2> QED BY <1>1, <1>3, <2>1, <2>2
<1>5. Control'
  <2>1. Keys(state)'
    BY <1>1, <1>2 DEF Control, Keys
  <2>2. Login!AgentHeard'
    BY <1>1, <1>2 DEF Control, Login!AgentHeard
  <2>3. wake' \in BOOLEAN
    BY <1>1
  <2> QED BY <1>1, <1>2, <1>4, <2>1, <2>2, <2>3 DEF Control
<1>6. Traffic'
  BY <1>1, <1>2 DEF Traffic, Login!wire
<1>7. Login!Woken'
  <2>1. state.pc \in Login!Prompts => state.want_user_input
    BY <1>1, <1>2 DEF Control, Steady
  <2>2. /\ state.pc \in Login!PacketWaits /\ Login!Filtered # <<>> => wake
        /\ state.pc \in Login!AgentWaits /\ agent # "pending" => wake
    BY <1>1 DEF LoginInv, Login!Woken
  <2>3. Login!Filtered' = Login!Filtered
    BY <1>1 DEF Login!Filtered
  <2> QED BY <1>1, <2>1, <2>2, <2>3 DEF Login!Woken
<1>8. ASSUME NEW w, Hears(w) PROVE Hears(w)'
  BY <1>1, <1>8 DEF Hears, Login!wire
<1>9. Login!Over => Login!Over'
  BY <1>1 DEF Login!Over
<1> QED BY <1>5, <1>6, <1>7, <1>8, <1>9 DEF LoginInv

\* A packet arrives, and wakes the layer.
LEMMA DeliverKeeps ==
    ASSUME Login!LoginAssumption, LoginInv, Login!Deliver
    PROVE  LoginInv'
<1>1. /\ queue' = Append(queue, Head(down)) /\ down' = Tail(down) /\ wake' = TRUE /\ down # <<>>
      /\ UNCHANGED <<conf, state, user_input, banner, trust, agent, up, server, banners>>
  BY DEF Login!Deliver
<1>2. Control /\ Traffic
  BY DEF LoginInv
<1>3. queue' \in Seq(Downs) /\ down' \in Seq(Downs) /\ queue' \o down' = queue \o down
  BY <1>1, <1>2, DeliverIs DEF Traffic
<1>4. Control'
  <2>1. Keys(state)'
    BY <1>1, <1>2 DEF Control, Keys
  <2>2. Login!AgentHeard'
    BY <1>1, <1>2 DEF Control, Login!AgentHeard
  <2> QED BY <1>1, <1>2, <2>1, <2>2 DEF Control
<1>5. Traffic'
  BY <1>1, <1>2, <1>3 DEF Traffic
<1>6. Login!Woken'
  BY <1>1 DEF Login!Woken
<1>7. ASSUME NEW w, Hears(w) PROVE Hears(w)'
  BY <1>1, <1>3, <1>7 DEF Hears
<1>8. Login!Over => Login!Over'
  BY <1>1 DEF Login!Over
<1> QED BY <1>4, <1>5, <1>6, <1>7, <1>8 DEF LoginInv

\* The layer is freed (ssh2_userauth_free).
LEMMA FreeKeeps ==
    ASSUME Login!LoginAssumption, LoginInv, Login!ssh2_userauth_free
    PROVE  LoginInv'
<1>1. /\ state' = Login!Ended /\ agent' = "idle" /\ wake' = FALSE /\ ~state.running
      /\ UNCHANGED <<conf, queue, user_input, banner, trust, up, Login!wire>>
  BY DEF Login!ssh2_userauth_free
<1>2. Control /\ Traffic
  BY DEF LoginInv
<1>3. ~state.suppress_wait
  BY <1>1, <1>2 DEF Control, Steady
<1>4. Moved /\ state'.pc = "ended"
  BY <1>1, <1>2, <1>3, EndMoves
<1>5. Control'
  BY <1>1, <1>2, <1>4 DEF Control, Moved
<1>6. Traffic'
  BY <1>1, <1>2, <1>4 DEF Traffic, Login!wire
<1>7. Login!Woken' /\ Login!Over'
  BY <1>4 DEF Login!Woken, Login!Over, Login!PacketWaits, Login!AgentWaits, Login!Prompts
<1> QED BY <1>5, <1>6, <1>7 DEF LoginInv

\* A banner says nothing.
LEMMA SaysNothing == \A p : Login!IsBanner(p) => Says(<<p>>, <<>>)
<1> SUFFICES ASSUME NEW p, Login!IsBanner(p) PROVE Says(<<p>>, <<>>)
  OBVIOUS
<1> DEFINE q == <<p>>
           w == <<>>
           f == [i \in {} |-> 1]
<1>1. Len(q) = 1 /\ q[1] = p /\ Len(w) = 0
  OBVIOUS
<1> HIDE DEF q, w
<1>2. 1 .. Len(w) = {} /\ \A k \in 1 .. Len(q) : k = 1
  BY <1>1
<1>3. f \in [1 .. Len(w) -> 1 .. Len(q)]
  BY <1>2
<1>4. Places(q, w, f)
  BY <1>1, <1>2, <1>3 DEF Places
<1> QED BY <1>4 DEF Says, q, w

\* More comes down.
LEMMA SaysLonger ==
    ASSUME NEW q \in Seq(Downs), NEW d \in Seq(Downs), NEW w \in Seq(Downs),
             NEW r \in Seq(Downs), NEW v \in Seq(Downs),
           Says(q \o d, w), Says(r, v)
    PROVE  d \o r \in Seq(Downs) /\ w \o v \in Seq(Downs) /\ Says(q \o (d \o r), w \o v)
<1>1. q \o d \in Seq(Downs) /\ d \o r \in Seq(Downs) /\ w \o v \in Seq(Downs)
  BY ConcatProperties
<1>2. Says((q \o d) \o r, w \o v)
  BY <1>1, Joined
<1>3. (q \o d) \o r = q \o (d \o r)
  BY ConcatAssociative
<1> QED BY <1>1, <1>2, <1>3

\* The same, for what is on its way here.
LEMMA SaysMore ==
    ASSUME queue \in Seq(Downs), down \in Seq(Downs), NEW w \in Seq(Downs),
             NEW r \in Seq(Downs), NEW v \in Seq(Downs),
           Says(queue \o down, w), Says(r, v)
    PROVE  down \o r \in Seq(Downs) /\ w \o v \in Seq(Downs) /\ Says(queue \o (down \o r),
             w \o v)
BY SaysLonger, Zenon

\* The server sends a banner.
LEMMA ServerBannerKeeps ==
    ASSUME Login!LoginAssumption, LoginInv, Login!ServerBanner
    PROVE  LoginInv'
<1> DEFINE b == [type |-> "banner"]
<1>1. /\ banners > 0 /\ banners' = banners - 1 /\ down' = Append(down, b) /\ ~Login!Over
      /\ UNCHANGED <<conf, state, wake, queue, user_input, banner, trust, agent, up, server>>
  BY DEF Login!ServerBanner
<1>2. Control /\ Traffic /\ queue \in Seq(Downs) /\ down \in Seq(Downs)
  BY DEF LoginInv, Traffic
<1>3. PICK w : Hears(w)
  BY <1>1 DEF LoginInv
<1>4. b \in Downs /\ Login!IsBanner(b)
  BY DEF Downs, Login!IsBanner
<1> HIDE DEF b
<1>5. <<b>> \in Seq(Downs) /\ <<>> \in Seq(Downs) /\ Says(<<b>>, <<>>)
  BY <1>4, SaysNothing
<1>6. down' = down \o <<b>>
  BY <1>1, <1>2, <1>4, AppendIsConcat
<1>7. w \in Seq(Downs) /\ Says(queue \o down, w) /\ w \o <<>> = w
  BY <1>3 DEF Hears
<1>8. down' \in Seq(Downs) /\ Says(queue' \o down', w)
  <2>1. down \o <<b>> \in Seq(Downs) /\ Says(queue \o (down \o <<b>>), w \o <<>>)
    BY <1>2, <1>5, <1>7, SaysMore
  <2> QED BY <1>1, <1>6, <1>7, <2>1
<1>9. Control'
  <2>1. Keys(state)'
    BY <1>1, <1>2 DEF Control, Keys
  <2>2. Login!AgentHeard'
    BY <1>1, <1>2 DEF Control, Login!AgentHeard
  <2> QED BY <1>1, <1>2, <2>1, <2>2 DEF Control
<1>10. Traffic'
  <2>1. banners' \in 0 .. Banners
    BY <1>1, <1>2 DEF Traffic, Login!LoginAssumption
  <2> QED BY <1>1, <1>2, <1>8, <2>1 DEF Traffic
<1>11. Login!Woken'
  <2>1. Login!Filtered' = Login!Filtered
    BY <1>1 DEF Login!Filtered
  <2> QED BY <1>1, <2>1 DEF LoginInv, Login!Woken
<1>12. Hears(w)'
  BY <1>1, <1>3, <1>7, <1>8 DEF Hears
<1> QED BY <1>9, <1>10, <1>11, <1>12 DEF LoginInv

-----------------------------------------------------------------------------

\* The exchanges that the server may be in.
Exchanges == {"idle", "ki", "gssapi", "mic"}

\* What the server says to a request m, and the exchange x that it is in then.
Replies(m, r, x) ==
    \/ x = "idle" /\ r \in Login!Failures(m, BOOLEAN)
    \/ x = "idle" /\ m \notin {"offer", "gssapi"} /\ r = Login!Success(m)
    \/ x = "idle" /\ m = "offer" /\ r = [type |-> "pk_ok"]
    \/ x = "ki" /\ m = "ki" /\ r \in Login!InfoRequests
    \/ x = "gssapi" /\ m = "gssapi" /\ r = [type |-> "gss_response"]
    \/ x = "idle" /\ m \in {"password", "change"} /\ r = [type |-> "changereq"]

\* A failure is a refusal of what was asked for.
LEMMA FailuresAre ==
    ASSUME NEW m \in Requests, NEW b \in SUBSET BOOLEAN, NEW r \in Login!Failures(m, b)
    PROVE  r.type = "failure" /\ r.to = m /\ r \in Login!Failures(m, BOOLEAN) /\ r \in Downs
<1>1. PICK k \in MethodSets, p \in b : r = [type |-> "failure", to |-> m, methods |-> k,
        partial |-> p]
  BY DEF Login!Failures
<1>2. r \in Login!Failures(m, BOOLEAN)
  BY <1>1 DEF Login!Failures
<1>3. r \in Downs
  <2>1. r \in UNION {Login!Failures(n, BOOLEAN) : n \in Requests}
    BY <1>2
  <2> HIDE DEF Login!Failures
  <2> QED BY <2>1 DEF Downs
<1> QED BY <1>1, <1>2, <1>3

\* The plain packets that come down.
LEMMA DownsAre ==
    /\ \A k \in {"banner", "pk_ok", "gss_response", "changereq",
         "errtok"} : [type |-> k] \in Downs
    /\ \A r \in Login!InfoRequests : r \in Downs /\ Info(r)
    /\ \A b \in BOOLEAN : Login!Token(b) \in Downs
    /\ \A m \in Requests : Login!Success(m) \in Downs /\ Result(Login!Success(m), m)
<1>1. \A r \in Login!InfoRequests : r \in Downs /\ Info(r)
  BY DEF Downs, Login!InfoRequests, Info
<1>2. \A m \in Requests : Login!Success(m) \in Downs /\ Result(Login!Success(m), m)
  <2>1. \A m \in Requests : Login!Success(m) \in Downs
    BY DEF Downs
  <2> QED BY <2>1 DEF Login!Success, Result
<1> QED BY <1>1, <1>2 DEF Downs

\* The answers to a request, from Outcomes.
LEMMA RequestCases ==
    ASSUME NEW p, p.type = "request", NEW o \in Login!Outcomes(p)
    PROVE  \/ \E r \in Login!Failures(p.method, IF p.method \in {"none",
                "offer"} THEN {FALSE} ELSE BOOLEAN) :
                  o = <<<<r>>, "idle">>
           \/ o = <<<<Login!Success(p.method)>>, "idle">> /\ p.method \notin {"offer", "gssapi"}
           \/ o = <<<<[type |-> "pk_ok"]>>, "idle">> /\ p.method = "offer"
           \/ p.method = "ki" /\ \E r \in Login!InfoRequests : o = <<<<r>>, "ki">>
           \/ p.method = "gssapi" /\ o = <<<<[type |-> "gss_response"]>>, "gssapi">>
           \/ p.method \in {"password", "change"} /\ o = <<<<[type |-> "changereq"]>>, "idle">>
<1> DEFINE f == {<<<<r>>, "idle">> : r \in Login!Failures(p.method, IF p.method \in {"none",
      "offer"}
                                                              THEN {FALSE} ELSE BOOLEAN)}
           ok == {<<<<Login!Success(p.method)>>, "idle">>}
           c == CASE p.method = "offer" -> f \cup {<<<<[type |-> "pk_ok"]>>, "idle">>}
                  [] p.method = "ki" -> f \cup ok \cup {<<<<r>>,
                    "ki">> : r \in Login!InfoRequests}
                  [] p.method = "gssapi" -> f \cup {<<<<[type |-> "gss_response"]>>, "gssapi">>}
                  [] p.method \in {"password", "change"} ->
                         f \cup ok \cup {<<<<[type |-> "changereq"]>>, "idle">>}
                  [] OTHER -> f \cup ok
<1>1. o \in c
  <2>1. o \in Login!RequestReplies(p)
    BY DEF Login!Outcomes
  <2> QED BY <2>1, Zenon DEF Login!RequestReplies
<1>2. \A y \in f : \E r \in Login!Failures(p.method, IF p.method \in {"none",
        "offer"} THEN {FALSE} ELSE BOOLEAN) :
          y = <<<<r>>, "idle">>
  BY Zenon
<1>3. \A y \in ok : y = <<<<Login!Success(p.method)>>, "idle">>
  OBVIOUS
<1> HIDE DEF f, ok
<1>4. CASE p.method = "offer"
  <2>1. o \in f \cup {<<<<[type |-> "pk_ok"]>>, "idle">>}
    BY <1>1, <1>4
  <2> QED BY <1>2, <1>4, <2>1, Zenon
<1>5. CASE p.method = "ki"
  <2>1. o \in f \cup ok \cup {<<<<r>>, "ki">> : r \in Login!InfoRequests}
    BY <1>1, <1>5
  <2>2. "ki" \notin {"offer", "gssapi"}
    OBVIOUS
  <2> QED BY <1>2, <1>3, <1>5, <2>1, <2>2, Zenon
<1>6. CASE p.method = "gssapi"
  <2>1. o \in f \cup {<<<<[type |-> "gss_response"]>>, "gssapi">>}
    BY <1>1, <1>6
  <2> QED BY <1>2, <1>6, <2>1, Zenon
<1>7. CASE p.method \in {"password", "change"}
  <2>1. o \in f \cup ok \cup {<<<<[type |-> "changereq"]>>, "idle">>}
    BY <1>1, <1>7
  <2>2. p.method \notin {"offer", "gssapi"}
    BY <1>7
  <2> QED BY <1>2, <1>3, <1>7, <2>1, <2>2, Zenon
<1>8. CASE p.method \notin {"offer", "ki", "gssapi", "password", "change"}
  <2>1. o \in f \cup ok
    BY <1>1, <1>8
  <2>2. p.method \notin {"offer", "gssapi"}
    BY <1>8
  <2> QED BY <1>2, <1>3, <2>1, <2>2, Zenon
<1> QED BY <1>4, <1>5, <1>6, <1>7, <1>8

\* What the server may answer to a request.
LEMMA RequestOutcomes ==
    ASSUME NEW m \in Requests, NEW o \in Login!Outcomes(Login!Request(m))
    PROVE  \E r \in Downs : Replies(m, r, o[2]) /\ o[1] = <<r>> /\ ~Login!IsBanner(r)
<1> DEFINE p == Login!Request(m)
           b == IF m \in {"none", "offer"} THEN {FALSE} ELSE BOOLEAN
<1>1. p.type = "request" /\ p.method = m
  BY DEF Login!Request
<1>2. \/ \E r \in Login!Failures(m, b) : o = <<<<r>>, "idle">>
      \/ o = <<<<Login!Success(m)>>, "idle">> /\ m \notin {"offer", "gssapi"}
      \/ o = <<<<[type |-> "pk_ok"]>>, "idle">> /\ m = "offer"
      \/ m = "ki" /\ \E r \in Login!InfoRequests : o = <<<<r>>, "ki">>
      \/ m = "gssapi" /\ o = <<<<[type |-> "gss_response"]>>, "gssapi">>
      \/ m \in {"password", "change"} /\ o = <<<<[type |-> "changereq"]>>, "idle">>
  <2>1. o \in Login!Outcomes(p)
    OBVIOUS
  <2> HIDE DEF p
  <2> QED BY <1>1, <2>1, RequestCases
<1>3. CASE \E r \in Login!Failures(m, b) : o = <<<<r>>, "idle">>
  <2>1. PICK r \in Login!Failures(m, b) : o = <<<<r>>, "idle">>
    BY <1>3
  <2>2. b \in SUBSET BOOLEAN
    OBVIOUS
  <2> HIDE DEF b
  <2>3. r.type = "failure" /\ r \in Login!Failures(m, BOOLEAN) /\ r \in Downs
    BY <2>2, FailuresAre
  <2>4. o[1] = <<r>> /\ o[2] = "idle"
    BY <2>1
  <2> QED BY <2>3, <2>4 DEF Replies, Login!IsBanner
<1>4. CASE o = <<<<Login!Success(m)>>, "idle">> /\ m \notin {"offer", "gssapi"}
  <2>1. o[1] = <<Login!Success(m)>> /\ o[2] = "idle"
    BY <1>4
  <2>2. Login!Success(m) \in Downs /\ ~Login!IsBanner(Login!Success(m))
    BY DownsAre DEF Login!IsBanner, Login!Success
  <2> QED BY <1>4, <2>1, <2>2 DEF Replies
<1>5. CASE o = <<<<[type |-> "pk_ok"]>>, "idle">> /\ m = "offer"
  BY <1>5, DownsAre DEF Replies, Login!IsBanner
<1>6. CASE m = "ki" /\ \E r \in Login!InfoRequests : o = <<<<r>>, "ki">>
  <2>1. PICK r \in Login!InfoRequests : o = <<<<r>>, "ki">>
    BY <1>6
  <2>2. r \in Downs /\ ~Login!IsBanner(r)
    BY DownsAre DEF Login!IsBanner, Info
  <2> QED BY <1>6, <2>1, <2>2 DEF Replies
<1>7. CASE m = "gssapi" /\ o = <<<<[type |-> "gss_response"]>>, "gssapi">>
  BY <1>7, DownsAre DEF Replies, Login!IsBanner
<1>8. CASE m \in {"password", "change"} /\ o = <<<<[type |-> "changereq"]>>, "idle">>
  BY <1>8, DownsAre DEF Replies, Login!IsBanner
<1> QED BY <1>2, <1>3, <1>4, <1>5, <1>6, <1>7, <1>8

\* What the server may answer to the user's answers.
LEMMA InfoOutcomes ==
    ASSUME NEW o \in Login!Outcomes([type |-> "info"])
    PROVE  \E r \in Downs : (Info(r) \/ Result(r, "ki")) /\ o[1] = <<r>> /\
             ~Login!IsBanner(r) /\ o[2] \in {"idle", "ki"}
<1> DEFINE p == [type |-> "info"]
<1>1. p.type = "info"
  OBVIOUS
<1>2. o \in {<<<<r>>, "idle">> : r \in Login!Failures("ki", BOOLEAN) \cup {Login!Success("ki")}}
            \cup {<<<<r>>, "ki">> : r \in Login!InfoRequests}
  <2>1. o \in Login!InfoReplies
    BY <1>1 DEF Login!Outcomes
  <2> QED BY <2>1, Zenon DEF Login!InfoReplies
<1>3. PICK r \in Login!Failures("ki",
        BOOLEAN) \cup {Login!Success("ki")} \cup Login!InfoRequests :
          o = <<<<r>>, "idle">> \/ o = <<<<r>>, "ki">>
  BY <1>2
<1>4. "ki" \in Requests /\ BOOLEAN \in SUBSET BOOLEAN
  BY DEF Requests
<1>5. r \in Downs /\ (Info(r) \/ Result(r, "ki")) /\ ~Login!IsBanner(r)
  <2>1. CASE r \in Login!Failures("ki", BOOLEAN)
    BY <1>4, <2>1, FailuresAre DEF Result, Login!IsBanner
  <2>2. CASE r = Login!Success("ki")
    BY <1>4, <2>2, DownsAre DEF Result, Login!IsBanner
  <2>3. CASE r \in Login!InfoRequests
    BY <2>3, DownsAre DEF Info, Login!IsBanner
  <2> QED BY <2>1, <2>2, <2>3
<1> QED BY <1>3, <1>5

\* A refusal, after an error token or not.
Refused(o) ==
    /\ o[2] = "idle"
    /\ \E r \in Downs : /\ Refusal(r, "gssapi")
                        /\ o[1] = <<r>> \/ o[1] = <<[type |-> "errtok"], r>>

\* What the server may answer to a GSSAPI token, if it reports no error for the last.
LEMMA TokenOutcomes ==
    ASSUME NEW b \in BOOLEAN, NEW o \in Login!Outcomes(Login!Token(b)), server \in {"gssapi",
             "mic"}, ~LateErrtok
    PROVE  /\ b => o[1] = <<>> /\ o[2] = "mic"
           /\ ~b => \/ Refused(o)
                    \/ o[1] = <<Login!Token(FALSE)>> /\ o[2] = "gssapi"
                    \/ o[1] = <<Login!Token(TRUE)>> /\ o[2] = "mic"
<1>1. PICK p : p = Login!Token(b)
  OBVIOUS
<1>2. p.type = "token" /\ p.last = b /\ o \in Login!Outcomes(p)
  BY <1>1 DEF Login!Token
<1>3. o \in IF p.last THEN {<<<<>>,
        "mic">>} \cup (IF LateErrtok THEN Login!TokenRefusals ELSE {})
            ELSE Login!TokenRefusals \cup {<<<<Login!Token(FALSE)>>, "gssapi">>,
                   <<<<Login!Token(TRUE)>>, "mic">>}
  <2>1. p.type # "request" /\ p.type # "info" /\ ~(server # "gssapi" /\ server # "mic")
    BY <1>2
  <2>2. Login!Outcomes(p) = IF p.type = "token" THEN Login!TokenReplies(p.last) ELSE Login!MicReplies
    BY <2>1, Zenon DEF Login!Outcomes
  <2>3. o \in Login!TokenReplies(p.last)
    BY <1>2, <2>2, Zenon
  <2> QED BY <2>3, Zenon DEF Login!TokenReplies
<1>4. CASE b
  <2>1. o = <<<<>>, "mic">>
    BY <1>2, <1>3, <1>4
  <2> QED BY <1>4, <2>1
<1>5. CASE ~b
  <2>1. o \in Login!TokenRefusals \/ o = <<<<Login!Token(FALSE)>>, "gssapi">> \/
          o = <<<<Login!Token(TRUE)>>, "mic">>
    <3>1. ~p.last
      BY <1>2, <1>5, Zenon
    <3> QED BY <1>3, <3>1, Zenon
  <2>2. CASE o \in Login!TokenRefusals
    <3>1. PICK r \in Login!Failures("gssapi", {FALSE}) :
              o = <<<<r>>, "idle">> \/ o = <<<<[type |-> "errtok"], r>>, "idle">>
      BY <2>2 DEF Login!TokenRefusals
    <3>2. "gssapi" \in Requests /\ {FALSE} \in SUBSET BOOLEAN
      BY DEF Requests
    <3>3. r \in Downs /\ Refusal(r, "gssapi")
      BY <3>1, <3>2, FailuresAre DEF Refusal
    <3>4. o[1] = <<r>> \/ o[1] = <<[type |-> "errtok"], r>>
      BY <3>1
    <3>5. o[2] = "idle"
      BY <3>1
    <3>6. Refused(o)
      BY <3>3, <3>4, <3>5 DEF Refused
    <3> QED BY <1>5, <3>6
  <2>3. CASE o = <<<<Login!Token(FALSE)>>, "gssapi">>
    <3>1. o[1] = <<Login!Token(FALSE)>> /\ o[2] = "gssapi"
      BY <2>3
    <3> QED BY <1>5, <3>1
  <2>4. CASE o = <<<<Login!Token(TRUE)>>, "mic">>
    <3>1. o[1] = <<Login!Token(TRUE)>> /\ o[2] = "mic"
      BY <2>4
    <3> QED BY <1>5, <3>1
  <2> QED BY <2>1, <2>2, <2>3, <2>4, Zenon
<1> QED BY <1>4, <1>5

\* What the server may answer to the MIC.
LEMMA MicOutcomes ==
    ASSUME NEW o \in Login!Outcomes(Mic), server \in {"gssapi", "mic"}
    PROVE  \E r \in Downs : Result(r, "gssapi") /\ o[1] = <<r>> /\ ~Login!IsBanner(r) /\
             o[2] = "idle"
<1>1. Mic.type = "mic"
  BY DEF Mic
<1>2. o \in {<<<<r>>, "idle">> : r \in Login!Failures("gssapi",
        BOOLEAN) \cup {Login!Success("gssapi")}}
  <2>1. o \in Login!MicReplies
    BY <1>1 DEF Login!Outcomes
  <2> QED BY <2>1, Zenon DEF Login!MicReplies
<1>3. PICK r \in Login!Failures("gssapi",
        BOOLEAN) \cup {Login!Success("gssapi")} : o = <<<<r>>, "idle">>
  BY <1>2
<1>4. "gssapi" \in Requests /\ BOOLEAN \in SUBSET BOOLEAN
  BY DEF Requests
<1>5. r \in Downs /\ Result(r, "gssapi") /\ ~Login!IsBanner(r)
  BY <1>4, FailuresAre, DownsAre DEF Result, Login!IsBanner
<1> QED BY <1>3, <1>5

\* Nobody listens to the rest of an exchange that was abandoned.
LEMMA LateOutcomes ==
    ASSUME NEW p \in Ups, p.type \in {"token", "mic"}, NEW o \in Login!Outcomes(p),
             server \notin {"gssapi", "mic"}
    PROVE  o[1] = <<>> /\ o[2] = server
<1>1. p.type # "request" /\ p.type # "info" /\ server # "gssapi" /\ server # "mic"
  OBVIOUS
<1>2. o \in {<<<<>>, server>>}
  BY <1>1 DEF Login!Outcomes
<1>3. o = <<<<>>, server>>
  BY <1>2
<1> QED BY <1>3

\* Whatever the server says has its form.
LEMMA OutcomesAre ==
    ASSUME NEW p \in Ups, NEW o \in Login!Outcomes(p), server \in Exchanges, ~LateErrtok
    PROVE  o[1] \in Seq(Downs) /\ o[2] \in Exchanges
<1>0. <<>> \in Seq(Downs) /\ \A r \in Downs : <<r>> \in Seq(Downs)
  OBVIOUS
<1>1. CASE p \in {Login!Request(m) : m \in Requests}
  <2>1. PICK m \in Requests : p = Login!Request(m)
    BY <1>1
  <2>2. PICK r \in Downs : Replies(m, r, o[2]) /\ o[1] = <<r>>
    BY <2>1, RequestOutcomes
  <2> QED BY <1>0, <2>2 DEF Replies, Exchanges
<1>2. CASE p = [type |-> "info"]
  BY <1>0, <1>2, InfoOutcomes DEF Exchanges
<1>3. CASE p \in {Login!Token(b) : b \in BOOLEAN} /\ server \in {"gssapi", "mic"}
  <2>1. PICK b \in BOOLEAN : p = Login!Token(b)
    BY <1>3
  <2>2. /\ b => o[1] = <<>> /\ o[2] = "mic"
        /\ ~b => \/ Refused(o)
                 \/ o[1] = <<Login!Token(FALSE)>> /\ o[2] = "gssapi"
                 \/ o[1] = <<Login!Token(TRUE)>> /\ o[2] = "mic"
    BY <1>3, <2>1, TokenOutcomes
  <2>3. Refused(o) => o[1] \in Seq(Downs) /\ o[2] = "idle"
    <3>1. [type |-> "errtok"] \in Downs
      BY DownsAre
    <3>2. \A r \in Downs : <<[type |-> "errtok"], r>> \in Seq(Downs)
      BY <3>1
    <3> QED BY <1>0, <3>2 DEF Refused
  <2>4. <<Login!Token(FALSE)>> \in Seq(Downs) /\ <<Login!Token(TRUE)>> \in Seq(Downs)
    BY <1>0, DownsAre
  <2> QED BY <1>0, <2>2, <2>3, <2>4 DEF Exchanges
<1>4. CASE p = Mic /\ server \in {"gssapi", "mic"}
  BY <1>0, <1>4, MicOutcomes DEF Exchanges
<1>5. CASE p \in {Login!Token(b) : b \in BOOLEAN} \cup {Mic} /\ server \notin {"gssapi", "mic"}
  <2>1. p.type \in {"token", "mic"}
    BY <1>5 DEF Login!Token, Mic
  <2> QED BY <1>0, <1>5, <2>1, LateOutcomes
<1> QED BY <1>1, <1>2, <1>3, <1>4, <1>5 DEF Ups

\* Nothing says nothing.
LEMMA SaysEmpty == Says(<<>>, <<>>) /\ <<>> \in Seq(Downs)
<1> DEFINE w == <<>>
           f == [i \in {} |-> 1]
<1>1. Len(w) = 0 /\ w \in Seq(Downs)
  OBVIOUS
<1> HIDE DEF w
<1>2. 1 .. Len(w) = {}
  BY <1>1
<1>3. f \in [1 .. Len(w) -> 1 .. Len(w)]
  BY <1>2
<1>4. Places(w, w, f)
  BY <1>2, <1>3 DEF Places
<1> QED BY <1>1, <1>4 DEF Says, w

\* One packet that is not a banner.
LEMMA OneWord ==
    ASSUME NEW r \in Downs, ~Login!IsBanner(r)
    PROVE  <<r>> \in Seq(Downs) /\ Says(<<r>>, <<r>>) /\ Told(<<r>>, <<>>) /\ <<r>>[1] = r
BY SaysItself DEF Told

\* Where the server owes an answer, and to what.
LEMMA Owed ==
    ASSUME Control, ~Login!Over, up # <<>>, NEW w, Hears(w)
    PROVE  /\ w = <<>> /\ state.pc \in Login!PacketWaits /\ ~state.suppress_wait
           /\ \/ \E m \in Requests : up = <<Login!Request(m)>> /\ state.asked = m
              \/ state.pc = "response" /\ state.asked = "gssapi" /\ up = <<Login!Token(TRUE),
                   Mic>> /\ server = "gssapi"
              \/ state.pc = "response" /\ state.asked = "gssapi" /\ up = <<Mic>> /\
                   server = "mic"
              \/ state.pc = "gss_token" /\ state.asked = "gssapi" /\
                   up = <<Login!Token(FALSE)>> /\ server = "gssapi"
              \/ state.pc = "ki_reply" /\ state.asked = "ki" /\ up = <<[type |-> "info"]>>
<1>1. Talk(state, w, up, server) /\ state.pc \in Pcs /\ state.pc \notin {"granted", "ended"}
  BY DEF Hears, Control, Steady, LoginState, Login!Over
<1>2. state.pc \notin Quiet /\ ~state.suppress_wait
  BY <1>1 DEF Talk, Silent
<1>3. state.pc \in Login!PacketWaits
  BY <1>1, <1>2 DEF Pcs, Quiet, Login!Prompts, Login!AgentWaits
<1>4. CASE state.pc = "response"
  BY <1>1, <1>2, <1>3, <1>4 DEF Talk, Asking, Told, Requests
<1>5. CASE state.pc \in {"agent_offer", "file_offer"}
  BY <1>1, <1>2, <1>3, <1>5 DEF Talk, Asking, Told, Requests
<1>6. CASE state.pc \in {"gss_request", "gss_token", "gss_errtok"}
  BY <1>1, <1>2, <1>3, <1>6 DEF Talk, Asking, Told, Requests
<1>7. CASE state.pc \in {"ki_request", "ki_reply"}
  BY <1>1, <1>2, <1>3, <1>7 DEF Talk, Asking, Told, Requests
<1>8. CASE state.pc = "pw_reply"
  BY <1>1, <1>2, <1>3, <1>8 DEF Talk, Asking, Told, Requests
<1> QED BY <1>3, <1>4, <1>5, <1>6, <1>7, <1>8 DEF Login!PacketWaits

\* Which requests are answered where.
LEMMA OwedRequest ==
    ASSUME Control, ~Login!Over, NEW m \in Requests, up = <<Login!Request(m)>>,
             state.asked = m, NEW w, Hears(w)
    PROVE  \/ state.pc = "response" /\ m \in {"none", "keyex", "sign"}
           \/ state.pc \in {"agent_offer", "file_offer"} /\ m = "offer"
           \/ state.pc = "gss_request" /\ m = "gssapi" /\ state.gss = "first"
           \/ state.pc = "ki_request" /\ m = "ki"
           \/ state.pc = "pw_reply" /\ m \in {"password", "change"}
<1>1. up # <<>>
  OBVIOUS
<1>2. state.pc \in Login!PacketWaits /\ ~state.suppress_wait /\ w = <<>>
  BY <1>1, Owed
<1>3. Talk(state, w, up, server)
  BY DEF Hears
<1>4. up # <<Mic>> /\ up # <<Login!Token(TRUE), Mic>> /\ up # <<Login!Token(FALSE)>> /\
        up # <<[type |-> "info"]>>
  <2>1. up[1].type = "request"
    BY DEF Login!Request
  <2>2. Mic.type # "request" /\ Login!Token(TRUE).type # "request" /\
          Login!Token(FALSE).type # "request" /\ [type |-> "info"].type # "request"
    BY DEF Mic, Login!Token
  <2> HIDE DEF Mic, Login!Token, Login!Request
  <2> QED BY <2>1, <2>2
<1>5. CASE state.pc = "response"
  BY <1>1, <1>2, <1>3, <1>4, <1>5 DEF Talk, Asking, Told
<1>6. CASE state.pc \in {"agent_offer", "file_offer"}
  BY <1>1, <1>3, <1>6 DEF Talk
<1>7. CASE state.pc \in {"gss_request", "gss_token", "gss_errtok"}
  BY <1>1, <1>3, <1>4, <1>7 DEF Talk, Asking, Told
<1>8. CASE state.pc \in {"ki_request", "ki_reply"}
  BY <1>1, <1>3, <1>4, <1>8 DEF Talk, Asking, Told
<1>9. CASE state.pc = "pw_reply"
  BY <1>1, <1>3, <1>9 DEF Talk
<1> QED BY <1>2, <1>5, <1>6, <1>7, <1>8, <1>9 DEF Login!PacketWaits

\* What the server answers fits where the coroutine waits.
LEMMA AnswerFits ==
    ASSUME ~LateErrtok, Control, ~Login!Over, up # <<>>, NEW w, Hears(w),
             NEW o \in Login!Outcomes(Head(up))
    PROVE  \E v \in Seq(Downs) : Says(o[1], v) /\ Talk(state, v, Tail(up), o[2])
<1>1. state.pc \in Login!PacketWaits /\ ~state.suppress_wait
  BY Owed
<1>2. state.pc \notin Quiet
  BY <1>1 DEF Login!PacketWaits, Quiet, Login!Prompts
<1>3. CASE \E m \in Requests : up = <<Login!Request(m)>> /\ state.asked = m
  <2>1. PICK m \in Requests : up = <<Login!Request(m)>> /\ state.asked = m
    BY <1>3
  <2>2. Head(up) = Login!Request(m) /\ Tail(up) = <<>>
    BY <2>1
  <2>3. PICK r \in Downs : Replies(m, r, o[2]) /\ o[1] = <<r>> /\ ~Login!IsBanner(r)
    BY <2>2, RequestOutcomes
  <2>4. <<r>> \in Seq(Downs) /\ Says(<<r>>, <<r>>) /\ Told(<<r>>, <<>>) /\ <<r>>[1] = r
    BY <2>3, OneWord
  <2>5. r \in Login!Failures(m, BOOLEAN) => Result(r, m) /\ Refusal(r, m)
    <3>1. BOOLEAN \in SUBSET BOOLEAN
      OBVIOUS
    <3> QED BY <3>1, FailuresAre DEF Result, Refusal
  <2>6. r = Login!Success(m) => Result(r, m)
    BY DownsAre
  <2> DEFINE v == <<r>>
             x == o[2]
  <2>7. Told(v, <<>>) /\ v[1] = r /\ Replies(m, r, x)
    BY <2>3, <2>4
  <2> HIDE DEF v, x
  <2>8. Talk(state, v, <<>>, x)
    <3>1. CASE state.pc = "response" /\ m \in {"none", "keyex", "sign"}
      <4>1. Result(r, m)
        BY <2>5, <2>6, <2>7, <3>1 DEF Replies
      <4> QED BY <1>1, <2>1, <2>7, <3>1, <4>1 DEF Talk, Quiet, Login!Prompts
    <3>2. CASE state.pc \in {"agent_offer", "file_offer"} /\ m = "offer"
      <4>1. Refusal(r, "offer") \/ r.type = "pk_ok"
        BY <2>5, <2>7, <3>2 DEF Replies
      <4> QED BY <1>1, <2>1, <2>7, <3>2, <4>1 DEF Talk, Quiet, Login!Prompts
    <3>3. CASE state.pc = "gss_request" /\ m = "gssapi" /\ state.gss = "first"
      <4>1. Refusal(r, "gssapi") \/ (r.type = "gss_response" /\ x = "gssapi")
        BY <2>5, <2>7, <3>3 DEF Replies
      <4> QED BY <1>1, <2>1, <2>7, <3>3, <4>1 DEF Talk, Quiet, Login!Prompts
    <3>4. CASE state.pc = "ki_request" /\ m = "ki"
      <4>1. Info(r) \/ Result(r, "ki")
        BY <2>5, <2>6, <2>7, <3>4, DownsAre DEF Replies
      <4> QED BY <1>1, <2>1, <2>7, <3>4, <4>1 DEF Talk, Quiet, Login!Prompts
    <3>5. CASE state.pc = "pw_reply" /\ m \in {"password", "change"}
      <4>1. r.type = "changereq" \/ Result(r, m)
        BY <2>5, <2>6, <2>7, <3>5 DEF Replies
      <4> QED BY <1>1, <2>1, <2>7, <3>5, <4>1 DEF Talk, Quiet, Login!Prompts
    <3> QED BY <2>1, <3>1, <3>2, <3>3, <3>4, <3>5, OwedRequest
  <2> QED BY <2>2, <2>3, <2>4, <2>8 DEF v, x
<1>4. CASE state.pc = "response" /\ state.asked = "gssapi" /\ up = <<Login!Token(TRUE),
             Mic>> /\ server = "gssapi"
  <2>1. Head(up) = Login!Token(TRUE) /\ Tail(up) = <<Mic>>
    BY <1>4
  <2>2. o[1] = <<>> /\ o[2] = "mic"
    BY <1>4, <2>1, TokenOutcomes
  <2>3. Says(<<>>, <<>>) /\ <<>> \in Seq(Downs)
    BY SaysEmpty
  <2>4. Talk(state, <<>>, <<Mic>>, "mic")
    BY <1>1, <1>4 DEF Talk, Asking, Quiet, Login!Prompts
  <2> QED BY <2>1, <2>2, <2>3, <2>4
<1>5. CASE state.pc = "response" /\ state.asked = "gssapi" /\ up = <<Mic>> /\ server = "mic"
  <2>1. Head(up) = Mic /\ Tail(up) = <<>>
    BY <1>5
  <2>2. PICK r \in Downs : Result(r, "gssapi") /\ o[1] = <<r>> /\ ~Login!IsBanner(r)
    BY <1>5, <2>1, MicOutcomes
  <2>3. <<r>> \in Seq(Downs) /\ Says(<<r>>, <<r>>) /\ Told(<<r>>, <<>>) /\ <<r>>[1] = r
    BY <2>2, OneWord
  <2> DEFINE v == <<r>>
  <2>4. Told(v, <<>>) /\ Result(v[1], "gssapi")
    BY <2>2, <2>3
  <2> HIDE DEF v
  <2>5. Talk(state, v, <<>>, o[2])
    BY <1>1, <1>5, <2>4 DEF Talk, Quiet, Login!Prompts
  <2> QED BY <2>1, <2>2, <2>3, <2>5 DEF v
<1>6. CASE state.pc = "gss_token" /\ state.asked = "gssapi" /\ up = <<Login!Token(FALSE)>> /\
             server = "gssapi"
  <2>1. Head(up) = Login!Token(FALSE) /\ Tail(up) = <<>>
    BY <1>6
  <2>2. \/ Refused(o)
        \/ o[1] = <<Login!Token(FALSE)>> /\ o[2] = "gssapi"
        \/ o[1] = <<Login!Token(TRUE)>> /\ o[2] = "mic"
    BY <1>6, <2>1, TokenOutcomes
  <2>3. ASSUME NEW r \in Downs, ~Login!IsBanner(r), o[1] = <<r>>,
               \/ Refusal(r, "gssapi")
               \/ r = Login!Token(FALSE) /\ o[2] = "gssapi"
               \/ r = Login!Token(TRUE) /\ o[2] = "mic"
        PROVE  \E v \in Seq(Downs) : Says(o[1], v) /\ Talk(state, v, Tail(up), o[2])
    <3>1. <<r>> \in Seq(Downs) /\ Says(<<r>>, <<r>>) /\ Told(<<r>>, <<>>) /\ <<r>>[1] = r
      BY <2>3, OneWord
    <3> DEFINE v == <<r>>
    <3>2. Told(v, <<>>) /\ v[1] = r
      BY <3>1
    <3> HIDE DEF v
    <3>3. Talk(state, v, <<>>, o[2])
      BY <1>1, <1>6, <2>3, <3>2 DEF Talk, Quiet, Login!Prompts
    <3> QED BY <2>1, <2>3, <3>1, <3>3 DEF v
  <2>4. \A b \in BOOLEAN : Login!Token(b) \in Downs /\ ~Login!IsBanner(Login!Token(b))
    BY DownsAre DEF Login!Token, Login!IsBanner
  <2>5. CASE Refused(o)
    <3>1. PICK r \in Downs : /\ Refusal(r, "gssapi")
                             /\ o[1] = <<r>> \/ o[1] = <<[type |-> "errtok"], r>>
      BY <2>5 DEF Refused
    <3>2. ~Login!IsBanner(r)
      BY <3>1 DEF Refusal, Login!IsBanner
    <3>3. CASE o[1] = <<[type |-> "errtok"], r>>
      <4> DEFINE e == [type |-> "errtok"]
      <4>1. e \in Downs /\ ~Login!IsBanner(e) /\ e.type = "errtok"
        BY DownsAre DEF Login!IsBanner
      <4> HIDE DEF e
      <4>2. <<e>> \in Seq(Downs) /\ <<r>> \in Seq(Downs) /\ Says(<<e>>, <<e>>) /\ Says(<<r>>,
              <<r>>)
        BY <3>2, <4>1, OneWord
      <4>3. Says(<<e>> \o <<r>>, <<e>> \o <<r>>)
        BY <4>2, Joined
      <4> DEFINE v == <<e, r>>
      <4>4. <<e>> \o <<r>> = v /\ v \in Seq(Downs) /\ Len(v) = 2 /\ v[1] = e /\ v[2] = r
        <5>1. <<e>> \o <<r>> = v
          BY TwoWords, Zenon
        <5>2. v \in Seq(Downs) /\ Len(v) = 2 /\ v[1] = e /\ v[2] = r
          BY <4>1
        <5> QED BY <5>1, <5>2
      <4> HIDE DEF v
      <4>5. Talk(state, v, <<>>, o[2])
        BY <1>1, <1>6, <3>1, <4>1, <4>4 DEF Talk, Quiet, Login!Prompts
      <4>6. o[1] = v
        BY <3>3 DEF v, e
      <4> QED BY <2>1, <4>3, <4>4, <4>5, <4>6
    <3> QED BY <2>3, <3>1, <3>2, <3>3
  <2> QED BY <2>2, <2>3, <2>4, <2>5
<1>7. CASE state.pc = "ki_reply" /\ state.asked = "ki" /\ up = <<[type |-> "info"]>>
  <2>1. Head(up) = [type |-> "info"] /\ Tail(up) = <<>>
    BY <1>7
  <2>2. PICK r \in Downs : (Info(r) \/ Result(r, "ki")) /\ o[1] = <<r>> /\ ~Login!IsBanner(r)
    BY <2>1, InfoOutcomes
  <2>3. <<r>> \in Seq(Downs) /\ Says(<<r>>, <<r>>) /\ Told(<<r>>, <<>>) /\ <<r>>[1] = r
    BY <2>2, OneWord
  <2> DEFINE v == <<r>>
  <2>4. Told(v, <<>>) /\ (Info(v[1]) \/ Result(v[1], "ki"))
    BY <2>2, <2>3
  <2> HIDE DEF v
  <2>5. Talk(state, v, <<>>, o[2])
    BY <1>1, <1>7, <2>4 DEF Talk, Quiet, Login!Prompts
  <2> QED BY <2>1, <2>2, <2>3, <2>5 DEF v
<1> QED BY <1>3, <1>4, <1>5, <1>6, <1>7, Owed

\* The server answers.
LEMMA ServerAnswersKeeps ==
    ASSUME Login!LoginAssumption, ~LateErrtok, LoginInv, Login!ServerAnswers
    PROVE  LoginInv'
<1>1. up # <<>> /\ up' = Tail(up) /\ UNCHANGED <<conf, state, wake, queue, user_input, banner,
        trust, agent, banners>>
  BY DEF Login!ServerAnswers
<1>2. PICK o \in Login!Outcomes(Head(up)) : down' = down \o o[1] /\ server' = o[2]
  BY DEF Login!ServerAnswers
<1>3. Control /\ Traffic /\ queue \in Seq(Downs) /\ down \in Seq(Downs) /\ up \in Seq(Ups) /\
        Len(up) <= 2
      /\ server \in Exchanges
  BY DEF LoginInv, Traffic, Exchanges
<1>4. Head(up) \in Ups /\ Tail(up) \in Seq(Ups) /\ Len(Tail(up)) <= 2
  <2>1. Head(up) \in Ups /\ Tail(up) \in Seq(Ups) /\ Len(Tail(up)) = Len(up) - 1 /\
          Len(up) \in Nat
    BY <1>1, <1>3, HeadTailProperties, LenProperties
  <2> QED BY <1>3, <2>1
<1>5. o[1] \in Seq(Downs) /\ o[2] \in Exchanges
  BY <1>3, <1>4, OutcomesAre
<1>6. down' \in Seq(Downs)
  BY <1>2, <1>3, <1>5, ConcatProperties
<1>7. Control'
  <2>1. Keys(state)'
    BY <1>1, <1>3 DEF Control, Keys
  <2>2. Login!AgentHeard'
    BY <1>1, <1>3 DEF Control, Login!AgentHeard
  <2> QED BY <1>1, <1>3, <2>1, <2>2 DEF Control
<1>8. Traffic'
  BY <1>1, <1>2, <1>3, <1>4, <1>5, <1>6 DEF Traffic, Exchanges
<1>9. Login!Woken'
  <2>1. Login!Filtered' = Login!Filtered
    BY <1>1 DEF Login!Filtered
  <2> QED BY <1>1, <2>1 DEF LoginInv, Login!Woken
<1>10. CASE Login!Over
  BY <1>1, <1>7, <1>8, <1>9, <1>10 DEF LoginInv, Login!Over
<1>11. CASE ~Login!Over
  <2>1. PICK w : Hears(w)
    BY <1>11 DEF LoginInv
  <2>2. PICK v \in Seq(Downs) : Says(o[1], v) /\ Talk(state, v, Tail(up), o[2])
    BY <1>1, <1>3, <1>11, <2>1, AnswerFits
  <2>3. w = <<>> /\ w \in Seq(Downs) /\ Says(queue \o down, w)
    BY <1>1, <1>3, <1>11, <2>1, Owed DEF Hears
  <2>4. Says(queue \o (down \o o[1]), w \o v)
    BY <1>3, <1>5, <2>2, <2>3, SaysMore
  <2>5. w \o v = v
    BY <2>2, <2>3
  <2>6. Hears(v)'
    BY <1>1, <1>2, <2>2, <2>4, <2>5 DEF Hears
  <2> QED BY <1>7, <1>8, <1>9, <2>6 DEF LoginInv
<1> QED BY <1>10, <1>11

-----------------------------------------------------------------------------
(* The invariant, and what it means. *)

\* The invariant holds when the layer starts.
LEMMA LoginInit == ASSUME Login!LoginAssumption, Login!Init PROVE LoginInv
<1>1. state \in LoginState
  <2>1. "start" \in Pcs /\ 0 \in Nat /\ 0 \in 0 .. 3
    BY PcNames
  <2> QED BY <2>1 DEF Login!Init, LoginState
<1>2. state.pc = "start" /\ ~state.running /\ ~state.suppress_wait /\ state.key = 0 /\
        state.limit = 0
  BY DEF Login!Init
<1>3. conf.agent \in Nat
  BY DEF Login!Init, Login!LoginAssumption, Login!SettingsType
<1>4. Control
  <2>1. Steady(state)
    BY <1>1, <1>2 DEF Steady, Rests, Login!Prompts
  <2>2. Keys(state)
    BY <1>2, <1>3 DEF Keys
  <2>3. user_input \in Seq({"line", "abort"}) /\ Len(user_input) <= MaxTyped
    BY DEF Login!Init, Login!LoginAssumption
  <2> QED BY <2>1, <2>2, <2>3 DEF Login!Init, Control, Trusted, Login!AgentHeard
<1>5. Traffic
  <2>1. banner \in 0 .. BannerLimit /\ banners \in 0 .. Banners
    BY DEF Login!Init, Login!LoginAssumption
  <2>2. queue \in Seq(Downs) /\ down \in Seq(Downs) /\ up \in Seq(Ups) /\ Len(up) <= 2
    BY DEF Login!Init
  <2> QED BY <1>2, <2>1, <2>2 DEF Login!Init, Traffic
<1>6. Login!Woken
  BY DEF Login!Init, Login!Woken
<1>7. Hears(<<>>)
  <2>1. queue \o down = <<>> /\ up = <<>> /\ <<>> \in Seq(Downs)
    BY DEF Login!Init
  <2>2. Says(queue \o down, <<>>)
    BY <2>1, SaysEmpty
  <2>3. Talk(state, <<>>, up, server)
    BY <1>2, <2>1 DEF Talk, Silent
  <2> QED BY <2>1, <2>2, <2>3 DEF Hears
<1> QED BY <1>4, <1>5, <1>6, <1>7 DEF LoginInv

\* It does not depend on anything else.
LEMMA LoginStutters == ASSUME LoginInv, UNCHANGED Login!vars PROVE LoginInv'
<1>1. UNCHANGED <<conf, state, wake, queue, user_input, banner, trust, agent, up, down, server,
        banners>>
  BY DEF Login!vars
<1>2. Control'
  <2>1. Keys(state)'
    BY <1>1 DEF LoginInv, Control, Keys
  <2>2. Login!AgentHeard'
    BY <1>1 DEF LoginInv, Control, Login!AgentHeard
  <2> QED BY <1>1, <2>1, <2>2 DEF LoginInv, Control
<1>3. Traffic'
  BY <1>1 DEF LoginInv, Traffic
<1>4. Login!Woken'
  <2>1. Login!Filtered' = Login!Filtered
    BY <1>1 DEF Login!Filtered
  <2> QED BY <1>1, <2>1 DEF LoginInv, Login!Woken
<1>5. ASSUME NEW w, Hears(w) PROVE Hears(w)'
  BY <1>1, <1>5 DEF Hears
<1>6. Login!Over => Login!Over'
  BY <1>1 DEF Login!Over
<1> QED BY <1>2, <1>3, <1>4, <1>5, <1>6 DEF LoginInv

\* Every step keeps it.
LEMMA LoginNext ==
    ASSUME Login!LoginAssumption, ~GssFaults, ~LateErrtok, LoginInv, [Login!Next]_(Login!vars)
    PROVE  LoginInv'
<1>1. CASE Login!Coroutine
  BY <1>1, WaitKeeps, StartKeeps, IdentitiesKeeps, UsernameKeeps, DialogKeeps, ReadLineKeeps,
     RequestNoneKeeps,
     ResponseKeeps, TryKeyExKeeps, TryAgentKeyKeeps, TryFileKeyKeeps, TryGssKeeps,
       TryKbdInterKeeps,
     TryPasswordKeeps, AgentOfferKeeps, SignedKeeps, FileOfferKeeps, LoadKeyKeeps,
     GssRequestKeeps, GssInitKeeps, GssTokenKeeps, GssErrtokKeeps,
     KiRequestKeeps, KiResponseKeeps, KiReplyKeeps, SendPasswordKeeps, PasswordReplyKeeps,
       NewPasswordKeeps
     DEF Login!Coroutine
<1>2. CASE Login!Next /\ ~Login!Coroutine
  BY <1>2, LoginQueueKeeps, AgentAnswersKeeps, UserTypesKeeps, DeliverKeeps, FreeKeeps,
     ServerAnswersKeeps, ServerBannerKeeps DEF Login!Next
<1> QED BY <1>1, <1>2, LoginStutters

\* Where the coroutine waits for a packet and none has come, one was asked for.
LEMMA Unanswered ==
    ASSUME Control, NEW w, w = <<>>, Hears(w), state.pc \in Login!PacketWaits, ~state.running
    PROVE  up # <<>>
<1>1. Talk(state, w, up, server) /\ ~state.suppress_wait
  BY DEF Hears, Control, Steady
<1>2. ~Told(w, up) /\ Len(w) # 2
  BY DEF Told
<1>3. \A p : Asking(w, up, p) => up # <<>>
  BY DEF Asking
<1>9. \A a, b : <<a, b>> # <<>>
  OBVIOUS
<1>4. CASE state.pc = "response"
  BY <1>1, <1>2, <1>3, <1>4, <1>9 DEF Talk
<1>5. CASE state.pc \in {"agent_offer", "file_offer"}
  BY <1>1, <1>2, <1>3, <1>5 DEF Talk
<1>6. CASE state.pc \in {"gss_request", "gss_token", "gss_errtok"}
  BY <1>1, <1>2, <1>3, <1>6 DEF Talk
<1>7. CASE state.pc \in {"ki_request", "ki_reply"}
  BY <1>1, <1>2, <1>3, <1>7 DEF Talk
<1>8. CASE state.pc = "pw_reply"
  BY <1>1, <1>2, <1>3, <1>8 DEF Talk
<1> QED BY <1>4, <1>5, <1>6, <1>7, <1>8 DEF Login!PacketWaits

\* It is stronger than the property.
LEMMA LoginImplies == ASSUME Login!LoginAssumption, LoginInv PROVE Login!LoginSound
<1>1. Control /\ Traffic /\ state \in LoginState /\ Login!Woken /\ conf \in Login!SettingsType
  BY DEF LoginInv, Control, Steady, Login!LoginAssumption
<1>2. Login!TypeOK
  <2>1. state.key \in Nat /\ state.limit \in Nat /\ conf.agent \in Nat /\ state.need \in 0 .. 3
    BY <1>1 DEF LoginState, Login!SettingsType
  <2>2. state.limit <= conf.agent /\ state.key <= conf.agent + 1
    BY <1>1 DEF Control, Keys
  <2>3. state.key \in 0..(conf.agent + 1) /\ state.limit \in 0..conf.agent
    BY <2>1, <2>2
  <2>4. state.pc \in {"start", "username", "none", "choose", "gss_init", "granted", "ended"}
                  \cup Login!Prompts \cup Login!AgentWaits \cup Login!PacketWaits
    BY <1>1 DEF LoginState, Pcs
  <2>5. state.can \subseteq Login!Methods /\ state.tried \subseteq {"keyex", "gssapi", "file",
          "ki"} /\ state.running \in BOOLEAN
    BY <1>1 DEF LoginState
  <2> QED BY <1>1, <2>1, <2>3, <2>4, <2>5 DEF Login!TypeOK, Control, Traffic
<1>3. Login!AnswersMatch
  <2> SUFFICES ASSUME Login!At("response"), ~state.suppress_wait, Login!Filtered # <<>>,
                        Login!pktin.type \in {"success", "failure"}
               PROVE  Login!pktin.to = state.asked
    BY DEF Login!AnswersMatch
  <2>1. state.running /\ state.pc = "response"
    BY DEF Login!At
  <2>2. PICK w : Hears(w)
    BY <2>1, StillLogin
  <2>3. Len(w) > 0 /\ Login!pktin = w[1]
    BY <1>1, <2>2, QueueIs DEF Traffic, Hears
  <2>4. Result(w[1], state.asked) \/ w[1].type = "token"
    BY <2>1, <2>2, <2>3, ResultHeard
  <2> QED BY <2>3, <2>4 DEF Result
<1>4. Login!WaitsAnswered
  <2> SUFFICES ASSUME state.pc \in Login!PacketWaits, ~state.running, up = <<>>
               PROVE  \E i \in 1..Len(queue \o down) : ~Login!IsBanner((queue \o down)[i])
    BY DEF Login!WaitsAnswered
  <2>1. ~Login!Over
    BY DEF Login!Over, Login!PacketWaits
  <2>2. PICK w : Hears(w)
    BY <2>1 DEF LoginInv
  <2>3. w # <<>> /\ w \in Seq(Downs)
    BY <1>1, <2>2, Unanswered DEF Hears
  <2>4. 1 \in 1 .. Len(w)
    BY <2>3, EmptySeq, LenProperties
  <2>5. PICK f : Places(queue \o down, w, f)
    BY <2>2 DEF Hears, Says
  <2>6. f[1] \in 1 .. Len(queue \o down) /\ (queue \o down)[f[1]] = w[1] /\
          ~Login!IsBanner(w[1])
    BY <2>4, <2>5 DEF Places
  <2> QED BY <2>6
<1>5. Login!PromptsTrusted
  BY <1>1 DEF Login!PromptsTrusted, Control, Trusted, Login!Prompts
<1>6. Login!BannersShown
  BY <1>1 DEF Login!BannersShown, Traffic
<1>7. Login!KeysFirst
  BY <1>1 DEF Login!KeysFirst, Login!KeysBeforePassword, Control, Keys
<1>8. Login!AgentHeard
  BY <1>1 DEF Control
<1> QED BY <1>1, <1>2, <1>3, <1>4, <1>5, <1>6, <1>7, <1>8 DEF Login!LoginSound

\* For all settings of users, servers that let them go on with any methods, and
\* any number of banners, the login stays sound (ssh2userauth.c): unless GSSAPI
\* fails on our side in a way that leaves the coroutine without a reply to wait
\* for, or the server reports an error for the last token, both of which the code
\* mishandles.
THEOREM LoginIsSound ==
    Login!LoginAssumption /\ ~GssFaults /\ ~LateErrtok => (Login!Spec => []LoginSound)
<1> SUFFICES ASSUME Login!LoginAssumption, ~GssFaults, ~LateErrtok
             PROVE  Login!Spec => []LoginSound
  OBVIOUS
<1>1. Login!Init => LoginInv
  BY LoginInit
<1>2. LoginInv /\ [Login!Next]_(Login!vars) => LoginInv'
  BY LoginNext
<1>3. LoginInv => LoginSound
  BY LoginImplies DEF LoginSound
<1> QED BY <1>1, <1>2, <1>3, PTL DEF Login!Spec
=============================================================================
