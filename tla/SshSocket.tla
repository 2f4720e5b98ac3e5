----------------------------- MODULE SshSocket -----------------------------
(***************************************************************************)
(* The SSH socket as _LEGACY/ssh.c drives it: bytes from the network go to *)
(* in_raw, from where the binary packet protocol (ssh2bpp.c) takes whole   *)
(* packets to in_pq for the protocol layers; output goes from out_raw to   *)
(* the socket's own buffer (uxnet.c). Reading is stopped by freezing the   *)
(* socket, local input by throttling all channels. Everything is glued     *)
(* together by idempotent callbacks that run one at a time in the order in *)
(* which they were queued (EventLoop).                                     *)
(*                                                                         *)
(* The server's stream is the constant Packets. Since the bytes are read   *)
(* in order, positions in it stand for the buffers: in_raw holds what lies *)
(* between consumed and received.                                          *)
(***************************************************************************)
EXTENDS Integers, Sequences, FiniteSets

CONSTANTS
    Packets,        \* what the server sends: sequence of [len, kind]
    ReadSize,       \* most units one recv() returns
    MaxBacklog,     \* SSH_MAX_BACKLOG, in units
    RemoteCloses,   \* the server closes the connection after Packets
    LocalCloses,    \* the session may be ended from this side
    MaxOutput,      \* bound: units of output the session produces
    MaxThrottles    \* bound: times a channel throttles the connection

ASSUME ParamAssumption ==
    /\ Packets \in Seq([len : Nat \ {0}, kind : {"data", "newkeys"}])
    /\ ReadSize \in Nat \ {0}
    /\ MaxBacklog \in Nat \ {0}
    /\ RemoteCloses \in BOOLEAN
    /\ LocalCloses \in BOOLEAN
    /\ MaxOutput \in Nat
    /\ MaxThrottles \in Nat

VARIABLES
    received,               \* position up to which the socket has been read
    consumed,               \* position up to which the BPP has taken in_raw
    reader,                 \* where ssh2_bpp_handle_input waits
    in_pq,                  \* packets for the layers, by kind
    input_eof,              \* bpp->input_eof
    conn_throttle_count,
    socket_frozen,
    out_raw,
    output_data,            \* the socket's own output buffer
    throttled_all,
    layers,                 \* base_layer and cl exist
    open,                   \* ssh->s # NULL
    pending_close,
    callbacks,              \* queued idempotent callbacks, next one first
    fault,                  \* the program has left defined behaviour
    produced, throttles     \* history, against MaxOutput and MaxThrottles

vars == <<received, consumed, reader, in_pq, input_eof, conn_throttle_count, socket_frozen,
          out_raw, output_data, throttled_all, layers, open, pending_close, callbacks, fault,
          produced, throttles>>

Callback == {"ic_in_raw", "ic_process_queue", "ic_out_raw"}

\* Position after packet i.
End[i \in 0 .. Len(Packets)] == IF i = 0 THEN 0 ELSE End[i - 1] + Packets[i].len

StreamLength == End[Len(Packets)]

\* ssh2_bpp_handle_input reads the packet length, then the rest of the packet.
ReadPoints == {End[i - 1] + 1 : i \in DOMAIN Packets} \cup {End[i] : i \in DOMAIN Packets}

TypeOK ==
    /\ received \in 0 .. StreamLength
    /\ consumed \in 0 .. received
    /\ reader \in {"reading", "newkeys", "eof"}
    /\ in_pq \in Seq({"data", "newkeys"})
    /\ input_eof \in BOOLEAN
    /\ conn_throttle_count \in 0 .. MaxThrottles
    /\ socket_frozen \in BOOLEAN
    /\ out_raw \in Nat
    /\ output_data \in Nat
    /\ throttled_all \in BOOLEAN
    /\ layers \in BOOLEAN
    /\ open \in BOOLEAN
    /\ pending_close \in BOOLEAN
    /\ callbacks \in Seq(Callback)
    /\ fault \in {"none", "freed_layer", "null_layer"}
    /\ produced \in 0 .. MaxOutput
    /\ throttles \in 0 .. MaxThrottles

in_raw == received - consumed

logically_frozen == conn_throttle_count > 0

\* The session is set up: keys are exchanged and the layers are in place.
Init ==
    /\ received = 0
    /\ consumed = 0
    /\ reader = "reading"
    /\ in_pq = <<>>
    /\ input_eof = FALSE
    /\ conn_throttle_count = 0
    /\ socket_frozen = FALSE
    /\ out_raw = 0
    /\ output_data = 0
    /\ throttled_all = FALSE
    /\ layers = TRUE
    /\ open = TRUE
    /\ pending_close = FALSE
    /\ callbacks = <<"ic_in_raw">>
    /\ fault = "none"
    /\ produced = 0
    /\ throttles = 0

-----------------------------------------------------------------------------

\* queue_idempotent_callback
Queued(q, ic) == \E i \in DOMAIN q : q[i] = ic

Queue(q, ic) == IF Queued(q, ic) THEN q ELSE Append(q, ic)

\* delete_callbacks_for_context, for the context that owns ic.
Delete(q, ic) ==
    IF Queued(q, ic)
    THEN LET i == CHOOSE j \in DOMAIN q : q[j] = ic
         IN SubSeq(q, 1, i - 1) \o SubSeq(q, i + 1, Len(q))
    ELSE q

Running(ic) == callbacks # <<>> /\ Head(callbacks) = ic

\* What ssh_check_frozen makes of socket_frozen. Without a socket it does
\* nothing.
Frozen(count, raw) == IF open THEN count > 0 \/ raw > MaxBacklog ELSE socket_frozen

\* Data that came in while the socket was frozen is processed once it is not.
Unfrozen(count, raw, q) ==
    IF socket_frozen /\ ~Frozen(count, raw) THEN Queue(q, "ic_in_raw") ELSE q

ssh_check_frozen(count, raw, q) ==
    /\ socket_frozen' = Frozen(count, raw)
    /\ callbacks' = Unfrozen(count, raw, q)

\* uxsel_tell: the event loop watches a socket for input while it is neither
\* frozen nor at EOF.
Readable == open /\ ~socket_frozen /\ ~input_eof

BUGssh_receive ==
    /\ Readable
    /\ \E n \in 1 .. ReadSize :
           /\ received + n <= StreamLength
           /\ received' = received + n
           /\ callbacks' = IF logically_frozen THEN callbacks ELSE Queue(callbacks, "ic_in_raw")
    /\ UNCHANGED <<consumed, reader, in_pq, input_eof, conn_throttle_count, socket_frozen, out_raw,
                   output_data, throttled_all, layers, open, pending_close, fault, produced,
                   throttles>>

\* net_select_result passes on what recv() returned.
ssh_receive ==
    /\ Readable
    /\ \E n \in 1 .. ReadSize :
           /\ received + n <= StreamLength
           /\ received' = received + n
           /\ ssh_check_frozen(conn_throttle_count, received' - consumed,
                  IF logically_frozen THEN callbacks ELSE Queue(callbacks, "ic_in_raw"))
    /\ UNCHANGED <<consumed, reader, in_pq, input_eof, conn_throttle_count, out_raw, output_data,
                   throttled_all, layers, open, pending_close, fault, produced, throttles>>

\* recv() returns 0, once.
ssh_closing ==
    /\ Readable
    /\ RemoteCloses /\ received = StreamLength
    /\ input_eof' = TRUE
    /\ callbacks' = Queue(callbacks, "ic_in_raw")
    /\ UNCHANGED <<received, consumed, reader, in_pq, conn_throttle_count, socket_frozen, out_raw,
                   output_data, throttled_all, layers, open, pending_close, fault, produced,
                   throttles>>

\* ssh_shutdown: the layers, the BPP and the socket are freed, and with them
\* their callbacks; q is the callback queue before that.
ssh_shutdown(q) ==
    /\ layers' = FALSE
    /\ open' = FALSE
    /\ reader' = "eof"
    /\ consumed' = received
    /\ in_pq' = <<>>
    /\ out_raw' = 0
    /\ output_data' = 0
    /\ callbacks' = Delete(Delete(q, "ic_in_raw"), "ic_process_queue")
    /\ UNCHANGED <<received, input_eof, conn_throttle_count, socket_frozen, throttled_all,
                   pending_close, fault, produced, throttles>>

\* ssh_closing with an error message (a failed recv() or send()). Once the
\* layers are gone ssh_remote_error does nothing.
ssh_remote_error ==
    /\ open
    /\ RemoteCloses
    /\ layers
    /\ ssh_shutdown(callbacks)

\* How far ssh2_bpp_handle_input gets: it reads on while the next item is in
\* in_raw, but not beyond NEWKEYS.
Reachable == {p \in ReadPoints \cup {consumed} :
                  /\ consumed <= p /\ p <= received
                  /\ \A j \in DOMAIN Packets :
                         Packets[j].kind = "newkeys" /\ consumed < End[j] => p <= End[j]}

Furthest == IF reader = "reading"
            THEN CHOOSE p \in Reachable : \A q \in Reachable : q <= p
            ELSE consumed

\* The packets that are complete at position p.
Complete(p) == Cardinality({j \in DOMAIN Packets : End[j] <= p})

NewPackets == [i \in 1 .. Complete(Furthest) - Complete(consumed) |->
                   Packets[Complete(consumed) + i].kind]

\* Where the BPP waits next: for the new keys, for in_pq to be empty before
\* it reports EOF, or for more input.
NextReader ==
    IF reader # "reading" THEN reader
    ELSE IF NewPackets # <<>> /\ NewPackets[Len(NewPackets)] = "newkeys" THEN "newkeys"
    ELSE IF input_eof THEN "eof"
    ELSE "reading"

BUGPushed(q) == q

\* Packets pushed on in_pq queue the callback of the layer that reads it.
Pushed(q) == IF layers /\ NewPackets # <<>> THEN Queue(q, "ic_process_queue") ELSE q

\* Every read from in_raw ends with ssh_check_frozen. If the first packet to
\* be completed already unfreezes the socket, ic_in_raw is queued before that
\* packet is pushed.
UnfrozenFirst ==
    /\ NewPackets # <<>>
    /\ ~Frozen(conn_throttle_count, received - End[Complete(consumed) + 1])

\* ssh_bpp_input_raw_data_callback. At EOF, with nothing left for the layers,
\* it ends the session. The callback record that in_pq names is part of the
\* layer: once that is freed, queueing it is undefined, and at best nothing
\* happens.
ssh_bpp_input_raw_data_callback ==
    /\ Running("ic_in_raw")
    /\ IF NextReader = "eof" /\ in_pq \o NewPackets = <<>>
       THEN ssh_shutdown(Tail(callbacks))
       ELSE /\ reader' = NextReader
            /\ consumed' = Furthest
            /\ in_pq' = in_pq \o NewPackets
            /\ socket_frozen' = Frozen(conn_throttle_count, received - Furthest)
            /\ callbacks' =
                  IF UnfrozenFirst
                  THEN Pushed(Unfrozen(conn_throttle_count, received - Furthest, Tail(callbacks)))
                  ELSE Unfrozen(conn_throttle_count, received - Furthest, Pushed(Tail(callbacks)))
            /\ IF layers \/ NewPackets = <<>> THEN fault' = fault
               ELSE fault' \in {fault, "freed_layer"}
            /\ UNCHANGED <<received, input_eof, conn_throttle_count, out_raw, output_data,
                           throttled_all, layers, open, pending_close, produced, throttles>>

\* pending_newkeys is cleared, and handle_input scheduled in case there is
\* already input; q is the callback queue before that.
ssh2_bpp_new_incoming_crypto(q) ==
    /\ reader' = "reading"
    /\ callbacks' = Queue(q, "ic_in_raw")

\* The transport layer takes all of in_pq; NEWKEYS makes it switch keys,
\* which restarts the BPP.
ssh_ppl_process_queue ==
    /\ Running("ic_process_queue")
    /\ in_pq' = <<>>
    /\ IF Queued(in_pq, "newkeys") THEN ssh2_bpp_new_incoming_crypto(Tail(callbacks))
       ELSE reader' = reader /\ callbacks' = Tail(callbacks)
    /\ UNCHANGED <<received, consumed, input_eof, conn_throttle_count, socket_frozen, out_raw,
                   output_data, throttled_all, layers, open, pending_close, fault, produced,
                   throttles>>

\* A channel throttles the connection (adjust = 1) or releases it (-1).
ssh_throttle_conn(adjust) ==
    /\ layers
    /\ conn_throttle_count + adjust >= 0
    /\ conn_throttle_count' = conn_throttle_count + adjust
    /\ throttles' = IF adjust > 0 THEN throttles + 1 ELSE throttles
    /\ throttles' <= MaxThrottles
    /\ IF logically_frozen # (conn_throttle_count' > 0)
       THEN ssh_check_frozen(conn_throttle_count', in_raw, callbacks)
       ELSE UNCHANGED <<socket_frozen, callbacks>>
    /\ UNCHANGED <<received, consumed, reader, in_pq, input_eof, out_raw, output_data,
                   throttled_all, layers, open, pending_close, fault, produced>>

\* The BPP formats packets into out_raw, whose bufchain callback is ic_out_raw.
ssh2_bpp_handle_output ==
    /\ layers
    /\ produced < MaxOutput
    /\ produced' = produced + 1
    /\ out_raw' = out_raw + 1
    /\ callbacks' = Queue(callbacks, "ic_out_raw")
    /\ UNCHANGED <<received, consumed, reader, in_pq, input_eof, conn_throttle_count,
                   socket_frozen, output_data, throttled_all, layers, open, pending_close, fault,
                   throttles>>

\* ssh_user_close, ssh_sw_abort or ssh_proto_error while the session is up.
ssh_initiate_connection_close ==
    /\ LocalCloses
    /\ layers
    /\ layers' = FALSE
    /\ pending_close' = TRUE
    /\ \E n \in {0, 1} : \* the BPP's last packets
           /\ produced + n <= MaxOutput
           /\ produced' = produced + n
           /\ out_raw' = out_raw + n
    /\ callbacks' = Queue(Delete(callbacks, "ic_process_queue"), "ic_out_raw")
    /\ UNCHANGED <<received, consumed, reader, in_pq, input_eof, conn_throttle_count,
                   socket_frozen, output_data, throttled_all, open, fault, throttles>>

\* ssh_throttle_all tells the connection layer, when the state changes.
ssh_throttle_all(enable) ==
    /\ throttled_all' = enable
    /\ fault' = IF enable # throttled_all /\ ~layers THEN "null_layer" ELSE fault

\* sk_write of n units: while some of the socket's buffer is unsent the socket
\* is not writable and the buffer just grows; else the kernel takes what it
\* likes.
Backlogs(n) == IF output_data > 0 THEN {output_data + n} ELSE 0 .. n

\* ssh_bpp_output_raw_data_callback that stops at a large backlog.
OutputBlocked ==
    /\ Running("ic_out_raw")
    /\ open
    /\ \E n \in 1 .. out_raw : \E backlog \in Backlogs(n) :
           /\ backlog > MaxBacklog
           /\ out_raw' = out_raw - n
           /\ output_data' = backlog
    /\ ssh_throttle_all(TRUE)
    /\ callbacks' = Tail(callbacks)
    /\ UNCHANGED <<received, consumed, reader, in_pq, input_eof, conn_throttle_count,
                   socket_frozen, layers, open, pending_close, produced, throttles>>

\* ssh_bpp_output_raw_data_callback that writes all of out_raw.
OutputWritten ==
    /\ Running("ic_out_raw")
    /\ open
    /\ \E backlog \in Backlogs(out_raw) :
           /\ out_raw > 0 => backlog <= MaxBacklog
           /\ out_raw' = 0
           /\ output_data' = IF pending_close THEN 0 ELSE backlog
    /\ ssh_check_frozen(conn_throttle_count, in_raw, Tail(callbacks))
    /\ open' = ~pending_close
    /\ UNCHANGED <<received, consumed, reader, in_pq, input_eof, conn_throttle_count,
                   throttled_all, layers, pending_close, fault, produced, throttles>>

\* A callback that finds the socket closed.
OutputTooLate ==
    /\ Running("ic_out_raw")
    /\ ~open
    /\ callbacks' = Tail(callbacks)
    /\ UNCHANGED <<received, consumed, reader, in_pq, input_eof, conn_throttle_count,
                   socket_frozen, out_raw, output_data, throttled_all, layers, open,
                   pending_close, fault, produced, throttles>>

\* net_select_result on a writable socket: plug_sent is called when try_send
\* has got some of the buffer out, with the size of the rest.
Remaining == 0 .. output_data - 1

BUGssh_sent ==
    /\ open
    /\ \E bufsize \in Remaining :
           /\ output_data' = bufsize
           /\ IF bufsize < MaxBacklog THEN ssh_throttle_all(FALSE)
              ELSE UNCHANGED <<throttled_all, fault>>
    /\ UNCHANGED <<received, consumed, reader, in_pq, input_eof, conn_throttle_count,
                   socket_frozen, out_raw, layers, open, pending_close, callbacks, produced,
                   throttles>>

\* Once little is left, local input and the rest of out_raw go on.
ssh_sent ==
    /\ open
    /\ \E bufsize \in Remaining :
           /\ output_data' = bufsize
           /\ IF bufsize < MaxBacklog
              THEN /\ ssh_throttle_all(FALSE)
                   /\ callbacks' = Queue(callbacks, "ic_out_raw")
              ELSE UNCHANGED <<throttled_all, fault, callbacks>>
    /\ UNCHANGED <<received, consumed, reader, in_pq, input_eof, conn_throttle_count,
                   socket_frozen, out_raw, layers, open, pending_close, produced, throttles>>

RunCallback ==
    \/ ssh_bpp_input_raw_data_callback
    \/ ssh_ppl_process_queue
    \/ OutputBlocked
    \/ OutputWritten
    \/ OutputTooLate

Next ==
    /\ fault = "none"
    /\ \/ ssh_receive
       \/ ssh_closing
       \/ ssh_remote_error
       \/ RunCallback
       \/ \E adjust \in {-1, 1} : ssh_throttle_conn(adjust)
       \/ ssh2_bpp_handle_output
       \/ ssh_initiate_connection_close
       \/ ssh_sent

Spec == Init /\ [][Next]_vars

Step(A) == fault = "none" /\ A

\* The event loop runs queued callbacks (EventLoop) and reports readable and
\* writable sockets; channels that throttle the connection release it again.
FairSpec ==
    /\ Spec
    /\ WF_vars(Step(RunCallback))
    /\ WF_vars(Step(ssh_receive))
    /\ WF_vars(Step(ssh_closing))
    /\ WF_vars(Step(ssh_sent))
    /\ WF_vars(Step(ssh_throttle_conn(-1)))

-----------------------------------------------------------------------------

\* ssh.c, struct Ssh: ssh_check_frozen is called "whenever either of
\* logically_frozen and the bufchain size changes", so the state of the socket
\* is never out of date.
SocketFrozenExact ==
    open => socket_frozen = (logically_frozen \/ in_raw > MaxBacklog)

\* Input that ssh2_bpp_handle_input could process always has a callback queued
\* that will process it, through freezing, unfreezing and key exchanges.
InputNeverStranded ==
    open /\ Furthest > consumed => Queued(callbacks, "ic_in_raw")

\* Packets in in_pq always have a callback queued for the layer that reads it.
PacketsNeverStranded ==
    layers /\ in_pq # <<>> => Queued(callbacks, "ic_process_queue")

\* Output that is not yet with the socket will be written by a queued callback
\* or when ssh_sent reports that the socket's backlog has gone.
OutputNeverStranded ==
    open /\ out_raw > 0 => Queued(callbacks, "ic_out_raw") \/ output_data >= MaxBacklog

\* Local input is throttled while more than SSH_MAX_BACKLOG is unsent, and only
\* while so much is unsent that ssh_sent will still end the throttling.
ThrottleFollowsBacklog ==
    open /\ fault = "none" =>
        /\ output_data > MaxBacklog => throttled_all
        /\ throttled_all => output_data >= MaxBacklog

\* Flow control: the socket is read, and local input taken, exactly while the
\* buffers have room (ssh_check_frozen, ssh_throttle_all).
FlowControlExact == SocketFrozenExact /\ ThrottleFollowsBacklog

\* Whatever is in a buffer has somebody to move it (ssh_receive, ssh_sent,
\* ssh_bpp_output_raw_data_callback).
NothingStranded == TypeOK /\ InputNeverStranded /\ PacketsNeverStranded /\ OutputNeverStranded

\* Everything the server sends reaches the layers, however the connection is
\* throttled meanwhile, unless the session is ended first.
EverythingProcessed == []layers => <>[](consumed = StreamLength /\ in_pq = <<>>)

\* Everything the session writes is sent, and local input is never left
\* throttled, unless the session is ended first.
EverythingSent == []layers => <>[](out_raw = 0 /\ output_data = 0 /\ ~throttled_all)

-----------------------------------------------------------------------------
(* What the code is meant to do and does not: see Deviations in README.md. *)

\* ssh2bpp.c, at eof: "first wait for the queue to have been processed", then
\* the session is told that the connection has gone.
EofEndsSession == input_eof ~> ~open

\* ssh_initiate_connection_close: "Wind up everything above the BPP"; nothing
\* uses the layers, or the pointer to them, after that.
NoUseOfDeadLayer == fault = "none"
=============================================================================
