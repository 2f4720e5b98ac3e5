---------------------------- MODULE Ssh2Channel ----------------------------
(***************************************************************************)
(* One SSH-2 channel of _LEGACY/ssh2connection.c, from CHANNEL_OPEN to the *)
(* exchange of CHANNEL_CLOSEs, with both of its ends running that code:    *)
(* window accounting, buffering, EOF, outstanding channel requests,        *)
(* throttling and the close handshake. The transport below delivers the    *)
(* packets of each direction in order and without loss.                    *)
(*                                                                         *)
(* The C functions are operators on a work record x: the channel x.c and   *)
(* the packets x.out that the running handler has pushed on out_pq. A      *)
(* handler is one action; nested calls are nested operators.               *)
(***************************************************************************)
EXTENDS Integers, Sequences

LOCAL INSTANCE SequencesExt

CONSTANTS
    WinSize,        \* OUR_V2_WINSIZE, in units of data
    MaxPkt,         \* OUR_V2_MAXPKT, in units of data
    WinCap,         \* bound: locmaxwin grows only below it (0x40000000)
    Setups          \* the kinds of channel: a set of Setup records

Ends == {"opener", "acceptor"}

Peer(e) == IF e = "opener" THEN "acceptor" ELSE "opener"

(***************************************************************************)
(* What kind of channel it is and what happens to it: whether the opener's *)
(* Channel is the main session channel, the initial_fixed_window_size of   *)
(* the accepting Channel, the remote_bugs flags both ends have set, the    *)
(* requests the main channel sends on OPEN_CONFIRMATION; and as bounds the *)
(* units of data each end's user writes, the later requests of the user    *)
(* (resize, signal) and the changes of all_channels_throttled.             *)
(***************************************************************************)
Setup == [
    main : BOOLEAN,
    fixed : Nat,
    bugs : SUBSET {"SENDS_LATE_REQUEST_REPLY", "CHOKES_ON_WINADJ", "MAXPKT"},
    openrequests : Nat,
    budget : [Ends -> Nat],
    requests : Nat,
    throttles : Nat]

ASSUME ParamAssumption ==
    /\ WinSize \in Nat \ {0}
    /\ MaxPkt \in Nat \ {0}
    /\ WinCap \in Nat
    /\ \A s \in Setups : s \in Setup

VARIABLES
    chan,       \* the ssh2_channel of each end
    net,        \* net[e]: packets on their way to e, oldest first
    throttled,  \* all_channels_throttled of each end's connection
    error,      \* ssh_proto_error was called at this end
    written,    \* history: units each end's user has written
    delivered,  \* history: units passed to each end's Channel
    setup       \* the channel's Setup; its bounds count down

vars == <<chan, net, throttled, error, written, delivered, setup>>

(***************************************************************************)
(* struct ssh2_channel. chanreq is the list of requests awaiting a reply:  *)
(* 0 for a request of the Channel, the size of the adjustment for a        *)
(* winadj@putty request. inbuf, fixed, wanted, srceof and zombie are the   *)
(* Channel's side: what it has buffered, whether it still has its initial  *)
(* fixed window, whether its socket is unfrozen, whether that socket has   *)
(* reached EOF, and whether the Channel is now a zombiechan.               *)
(***************************************************************************)
Closes == {"SENT_EOF", "SENT_CLOSE", "RCVD_EOF", "RCVD_CLOSE"}

Channel == [
    phase : {"none", "live", "gone"},
    halfopen : BOOLEAN,
    closes : SUBSET Closes,
    pending_eof : BOOLEAN,
    throttling_conn : BOOLEAN,
    outbuffer : Nat,
    remwindow : Nat,
    locwindow : Int,
    locmaxwin : Nat,
    remlocwin : Int,
    chanreq : Seq(Nat),
    throttle_state : {"THROTTLED", "UNTHROTTLING", "UNTHROTTLED"},
    zombie : BOOLEAN,
    fixed : BOOLEAN,
    wanted : BOOLEAN,
    srceof : BOOLEAN,
    inbuf : Nat,
    abandoned : BOOLEAN]    \* history: buffered output was thrown away

Packet == [type : {"OPEN", "OPEN_CONFIRMATION", "OPEN_FAILURE", "DATA", "WINDOW_ADJUST",
                   "REQUEST", "REPLY", "EOF", "CLOSE"},
           n : Nat]

\* The window of an OPEN, its CONFIRMATION or a WINDOW_ADJUST, the size of
\* DATA, and 1 for a REQUEST with want_reply and for a REPLY.
Pkt(type, n) == [type |-> type, n |-> n]

Smaller(a, b) == IF a < b THEN a ELSE b

\* The end whose Channel is a mainchan; the Channel of any other end forwards
\* a local socket.
IsMain(e) == setup.main /\ e = "opener"

TypeOK ==
    /\ chan \in [Ends -> Channel]
    /\ net \in [Ends -> Seq(Packet)]
    /\ throttled \in [Ends -> BOOLEAN]
    /\ error \in [Ends -> BOOLEAN]
    /\ written \in [Ends -> Nat]
    /\ delivered \in [Ends -> Nat]
    /\ setup \in Setup

ssh2_channel_init(window, isfixed) == [
    phase |-> "live", halfopen |-> FALSE, closes |-> {}, pending_eof |-> FALSE,
    throttling_conn |-> FALSE, outbuffer |-> 0, remwindow |-> 0,
    locwindow |-> window, locmaxwin |-> window, remlocwin |-> window,
    chanreq |-> <<>>, throttle_state |-> "UNTHROTTLED",
    zombie |-> FALSE, fixed |-> isfixed, wanted |-> TRUE, srceof |-> FALSE,
    inbuf |-> 0, abandoned |-> FALSE]

Init ==
    /\ chan = [e \in Ends |-> [ssh2_channel_init(WinSize, FALSE) EXCEPT !.phase = "none"]]
    /\ net = [e \in Ends |-> <<>>]
    /\ throttled = [e \in Ends |-> FALSE]
    /\ error = [e \in Ends |-> FALSE]
    /\ written = [e \in Ends |-> 0]
    /\ delivered = [e \in Ends |-> 0]
    /\ setup \in Setups

-----------------------------------------------------------------------------
(* Work records. A BUG definition is the one below it with a plausible slip. *)

Work(e) == [c |-> chan[e], out |-> <<>>]

Push(x, pkt) == [x EXCEPT !.out = Append(@, pkt)]

\* x with the channel c.
With(x, c) == [x EXCEPT !.c = c]

Closed(x, flags) == With(x, [x.c EXCEPT !.closes = @ \cup flags])

\* chan_want_close: zombies always, every Channel of the client once EOF has
\* gone both ways.
want_close(c) == c.zombie \/ {"SENT_EOF", "RCVD_EOF"} \subseteq c.closes

\* Clears what ssh2_channel_destroy frees.
ssh2_channel_destroy(x) ==
    With(x, [x.c EXCEPT !.phase = "gone", !.inbuf = 0, !.outbuffer = 0, !.zombie = TRUE,
                        !.abandoned = @ \/ x.c.outbuffer > 0])

ssh2_channel_check_close(x) ==
    LET y == IF want_close(x.c) /\ x.c.chanreq = <<>> /\ "SENT_CLOSE" \notin x.c.closes
             THEN Closed(Push(x, Pkt("CLOSE", 0)), {"SENT_EOF", "SENT_CLOSE"})
             ELSE x
    IN  IF x.c.halfopen THEN x
        ELSE IF {"SENT_CLOSE", "RCVD_CLOSE"} \subseteq y.c.closes THEN ssh2_channel_destroy(y)
        ELSE y

EofSent(x) ==
    With(Push(x, Pkt("EOF", 0)), [x.c EXCEPT !.closes = @ \cup {"SENT_EOF"}, !.pending_eof = FALSE])

BUGssh2_channel_try_eof(x) ==
    IF x.c.halfopen THEN x ELSE ssh2_channel_check_close(EofSent(x))

ssh2_channel_try_eof(x) ==
    IF x.c.halfopen \/ x.c.outbuffer > 0 THEN x ELSE ssh2_channel_check_close(EofSent(x))

\* DATA packets that carry n units, no more than MaxPkt in each.
DataPackets(n) ==
    [i \in 1 .. (n + MaxPkt - 1) \div MaxPkt |->
        Pkt("DATA", Smaller(MaxPkt, n - (i - 1) * MaxPkt))]

\* n units leave the buffer.
DataSent(x, n) ==
    [c |-> [x.c EXCEPT !.outbuffer = @ - n, !.remwindow = @ - n], out |-> x.out \o DataPackets(n)]

\* The loop sends while there is window and data; then a pending EOF.
ssh2_try_send(x) ==
    LET y == DataSent(x, IF x.c.halfopen THEN 0 ELSE Smaller(x.c.remwindow, x.c.outbuffer))
    IN  IF y.c.outbuffer = 0 /\ y.c.pending_eof THEN ssh2_channel_try_eof(y) ELSE y

\* throttled_by_backlog takes no part: no statement of the code sets it.
ssh2_channel_check_throttle(all, x) ==
    IF x.c.zombie THEN x
    ELSE With(x, [x.c EXCEPT !.wanted =
                      ~all /\ ~x.c.pending_eof /\ "SENT_EOF" \notin x.c.closes])

ssh2_try_send_and_unthrottle(all, x) ==
    LET y == ssh2_try_send(x)
    IN  IF "SENT_EOF" \in x.c.closes THEN x
        ELSE IF y.c.outbuffer = 0 THEN ssh2_channel_check_throttle(all, y)
        ELSE y

ssh2_chanreq_init(x, reply) ==
    With(Push(x, Pkt("REQUEST", IF reply = <<>> THEN 0 ELSE 1)),
         [x.c EXCEPT !.chanreq = @ \o reply])

BUGssh2_set_window(x, wantwin) ==
    IF {"RCVD_EOF", "SENT_CLOSE"} \cap x.c.closes # {} \/ x.c.fixed \/ wantwin \div 2 < x.c.locwindow
    THEN x
    ELSE With(Push(x, Pkt("WINDOW_ADJUST", wantwin)), [x.c EXCEPT !.locwindow = wantwin])

\* The window is to be newwin, size more than now. The winadj request precedes
\* the WINDOW_ADJUST whose arrival its reply proves.
Announced(x, newwin, size) ==
    IF newwin = x.c.locmaxwin /\ "CHOKES_ON_WINADJ" \notin setup.bugs
    THEN LET y == ssh2_chanreq_init(x, <<size>>)
         IN  With(y, [y.c EXCEPT !.throttle_state = IF @ = "UNTHROTTLED" THEN @ ELSE "UNTHROTTLING"])
    ELSE With(x, [x.c EXCEPT !.remlocwin = newwin, !.throttle_state = "THROTTLED"])

Adjusted(x, newwin, size) ==
    With(Push(x, Pkt("WINDOW_ADJUST", size)), [x.c EXCEPT !.locwindow = newwin])

ssh2_set_window(x, wantwin) ==
    LET newwin == IF "MAXPKT" \in setup.bugs THEN Smaller(wantwin, MaxPkt) ELSE wantwin
        size == newwin - x.c.locwindow
    IN  IF {"RCVD_EOF", "SENT_CLOSE"} \cap x.c.closes # {} \/ x.c.fixed
             \/ newwin \div 2 < x.c.locwindow
        THEN x
        ELSE Adjusted(Announced(x, newwin, size), newwin, size)

Sum(s) ==
    LET sum[i \in 0 .. Len(s)] == IF i = 0 THEN 0 ELSE sum[i - 1] + s[i]
    IN  sum[Len(s)]

\* The handlers of outstanding requests: winadj replies credit remlocwin.
RequestsAnswered(x, sizes) ==
    With(x, [x.c EXCEPT !.remlocwin = @ + Sum(sizes),
                        !.throttle_state =
                            IF @ = "UNTHROTTLING" /\ (\E i \in DOMAIN sizes : sizes[i] > 0)
                            THEN "UNTHROTTLED" ELSE @])

ssh2channel_write(x, n) == ssh2_try_send(With(x, [x.c EXCEPT !.outbuffer = @ + n]))

ssh2channel_write_eof(x) ==
    IF "SENT_EOF" \in x.c.closes THEN x
    ELSE ssh2_channel_try_eof(With(x, [x.c EXCEPT !.pending_eof = TRUE]))

\* chan_send_eof: the main channel writes EOF back, a forwarded socket is told.
chan_send_eof(e, x) == IF IsMain(e) THEN ssh2channel_write_eof(x) ELSE x

-----------------------------------------------------------------------------
(* Actions *)

\* The handler at e ends with x; rest is what it leaves in its input queue.
Commit(e, x, rest) ==
    \E done \in {x} :
        /\ chan' = [chan EXCEPT ![e] = done.c]
        /\ net' = [net EXCEPT ![e] = rest, ![Peer(e)] = @ \o done.out]

\* An API call of e's Channel, or of the user behind it.
Call(e, x) == Commit(e, x, net[e])

Live(e) == chan[e].phase = "live" /\ ~error[e]

ssh2_lportfwd_open ==
    /\ chan["opener"].phase = "none"
    /\ Call("opener", [c |-> [ssh2_channel_init(WinSize, FALSE) EXCEPT
                                  !.halfopen = TRUE, !.wanted = FALSE],
                       out |-> <<Pkt("OPEN", WinSize)>>])
    /\ UNCHANGED <<throttled, error, written, delivered, setup>>

\* User input of the main channel: nothing asks whether it is wanted.
ssh2_connection_got_user_input(e) ==
    /\ Live(e)
    /\ IsMain(e)
    /\ \E n \in 1 .. setup.budget[e] - written[e] :
           /\ Call(e, ssh2channel_write(Work(e), n))
           /\ written' = [written EXCEPT ![e] = @ + n]
    /\ UNCHANGED <<throttled, error, delivered, setup>>

\* Data from the forwarded socket, which is read while it is not frozen. The
\* forwarding drops what it is given before it is ready.
pfd_receive(e) ==
    /\ Live(e)
    /\ ~IsMain(e)
    /\ ~chan[e].zombie
    /\ chan[e].wanted /\ ~chan[e].srceof /\ ~chan[e].fixed
    /\ \E n \in 1 .. setup.budget[e] - written[e] :
           /\ Call(e, IF chan[e].halfopen THEN Work(e) ELSE ssh2channel_write(Work(e), n))
           /\ written' = [written EXCEPT ![e] = @ + n]
    /\ UNCHANGED <<throttled, error, delivered, setup>>

\* EOF: from the user once the main channel is ready, or from the socket.
SourceEof(e) ==
    /\ Live(e)
    /\ ~chan[e].zombie /\ ~chan[e].srceof
    /\ IF IsMain(e) THEN ~chan[e].halfopen /\ ~Contains(chan[e].chanreq, 0)
                    ELSE chan[e].wanted /\ ~chan[e].fixed
    /\ Call(e, LET x == ssh2channel_write_eof(Work(e)) IN With(x, [x.c EXCEPT !.srceof = TRUE]))
    /\ UNCHANGED <<throttled, error, written, delivered, setup>>

\* A local socket error turns the Channel into a zombie.
ssh2channel_initiate_close(e) ==
    /\ Live(e)
    /\ ~IsMain(e)
    /\ ~chan[e].zombie /\ ~chan[e].fixed
    /\ Call(e, ssh2_channel_check_close(
                   With(Work(e), [chan[e] EXCEPT !.zombie = TRUE, !.fixed = FALSE,
                                                 !.pending_eof = FALSE, !.inbuf = 0,
                                                 !.abandoned = TRUE])))
    /\ UNCHANGED <<throttled, error, written, delivered, setup>>

BUGssh2channel_unthrottle(e) ==
    /\ Live(e)
    /\ \E bufsize \in 0 .. chan[e].inbuf - 1 :
           Call(e, With(Work(e), [chan[e] EXCEPT !.inbuf = bufsize,
                                                 !.throttling_conn = @ /\ bufsize > chan[e].locmaxwin]))
    /\ UNCHANGED <<throttled, error, written, delivered, setup>>

\* The Channel has passed on some of what it had buffered.
ssh2channel_unthrottle(e) ==
    /\ Live(e)
    /\ \E bufsize \in 0 .. chan[e].inbuf - 1 :
           LET buflimit == chan[e].locmaxwin
               x == With(Work(e), [chan[e] EXCEPT !.inbuf = bufsize])
               y == IF bufsize < buflimit THEN ssh2_set_window(x, buflimit - bufsize) ELSE x
           IN  Call(e, With(y, [y.c EXCEPT !.throttling_conn = @ /\ bufsize > buflimit]))
    /\ UNCHANGED <<throttled, error, written, delivered, setup>>

\* A request without reply from the user of the main channel: a window size
\* change, a break or a signal. Nothing checks the state of the channel.
mainchan_terminal_size(e) ==
    /\ Live(e)
    /\ IsMain(e)
    /\ ~chan[e].halfopen
    /\ setup.requests > 0
    /\ setup' = [setup EXCEPT !.requests = @ - 1]
    /\ Call(e, ssh2_chanreq_init(Work(e), <<>>))
    /\ UNCHANGED <<throttled, error, written, delivered>>

\* ssh.c throttles all local input when the SSH socket itself backs up, and
\* releases it when the backlog clears.
ssh2_throttle_all_channels(e) ==
    /\ setup.throttles > 0
    /\ setup' = [setup EXCEPT !.throttles = @ - 1]
    /\ throttled' = [throttled EXCEPT ![e] = ~@]
    /\ IF Live(e)
       THEN chan' = [chan EXCEPT ![e] = ssh2_channel_check_throttle(~throttled[e], Work(e)).c]
       ELSE UNCHANGED chan
    /\ UNCHANGED <<net, error, written, delivered>>

-----------------------------------------------------------------------------
(* ssh2_connection_filter_queue: one action per packet type *)

Arrives(e, type) ==
    /\ net[e] # <<>>
    /\ Head(net[e]).type = type
    /\ ~error[e]

\* The packet names a channel that is open at e, as all but the answers to
\* CHANNEL_OPEN must; the answers need it half-open.
Expected(e) == chan[e].phase = "live" /\ ~chan[e].halfopen

Handled(e, x) == Commit(e, x, Tail(net[e]))

\* A packet for no channel of ours, for one in the wrong phase, or a reply
\* that no request asked for.
Unexpected(e) ==
    LET type == Head(net[e]).type
    IN  IF type \in {"OPEN_CONFIRMATION", "OPEN_FAILURE"}
        THEN chan[e].phase # "live" \/ ~chan[e].halfopen
        ELSE type # "OPEN" /\ (~Expected(e) \/ (type = "REPLY" /\ chan[e].chanreq = <<>>))

ProtoError(e) ==
    /\ net[e] # <<>>
    /\ ~error[e]
    /\ Unexpected(e)
    /\ error' = [error EXCEPT ![e] = TRUE]
    /\ UNCHANGED <<chan, net, throttled, written, delivered, setup>>

\* The accepting end refuses, or sets up its own side and confirms.
RecvOpen(e) ==
    /\ Arrives(e, "OPEN")
    /\ LET window == IF setup.fixed > 0 THEN setup.fixed ELSE WinSize
           c == [ssh2_channel_init(window, setup.fixed > 0) EXCEPT !.remwindow = Head(net[e]).n]
       IN  \/ Handled(e, [c |-> c, out |-> <<Pkt("OPEN_CONFIRMATION", window)>>])
          \/ Handled(e, [Work(e) EXCEPT !.out = <<Pkt("OPEN_FAILURE", 0)>>])
    /\ UNCHANGED <<throttled, error, written, delivered, setup>>

\* The main channel sends its requests; a forwarding unfreezes its socket.
chan_open_confirmation(e, x) ==
    IF x.c.zombie THEN x
    ELSE IF IsMain(e)
    THEN [c |-> [x.c EXCEPT !.chanreq = @ \o [i \in 1 .. setup.openrequests |-> 0]],
          out |-> x.out \o [i \in 1 .. setup.openrequests |-> Pkt("REQUEST", 1)]]
    ELSE With(x, [x.c EXCEPT !.wanted = TRUE])

RecvOpenConfirmation(e) ==
    /\ Arrives(e, "OPEN_CONFIRMATION")
    /\ chan[e].phase = "live" /\ chan[e].halfopen
    /\ LET x == ssh2_channel_check_close(chan_open_confirmation(e,
                    With(Work(e), [chan[e] EXCEPT !.halfopen = FALSE, !.remwindow = Head(net[e]).n])))
       IN  Handled(e, IF x.c.pending_eof THEN ssh2_channel_try_eof(x) ELSE x)
    /\ UNCHANGED <<throttled, error, written, delivered, setup>>

RecvOpenFailure(e) ==
    /\ Arrives(e, "OPEN_FAILURE")
    /\ chan[e].phase = "live" /\ chan[e].halfopen
    /\ Handled(e, ssh2_channel_destroy(Work(e)))
    /\ UNCHANGED <<throttled, error, written, delivered, setup>>

\* After chan_send: a larger window if the sender ran out of a wide open one,
\* the window it may use now, and the throttle on the whole connection.
WindowAfterData(x) ==
    LET bufsize == x.c.inbuf
        y == IF x.c.remlocwin <= 0 /\ x.c.throttle_state = "UNTHROTTLED" /\ x.c.locmaxwin < WinCap
             THEN With(x, [x.c EXCEPT !.locmaxwin = @ + WinSize]) ELSE x
        z == IF bufsize < y.c.locmaxwin THEN ssh2_set_window(y, y.c.locmaxwin - bufsize) ELSE y
    IN  With(z, [z.c EXCEPT !.throttling_conn = @ \/ bufsize > z.c.locmaxwin])

ssh2channel_window_override_removed(x) ==
    ssh2_set_window(With(x, [x.c EXCEPT !.fixed = FALSE]), WinSize)

\* What chan_send may leave of n units: a zombie takes them, an X11 Channel
\* takes them until it has all the authentication data and then lifts its
\* fixed window, and a socket buffers what the kernel does not take.
chan_send(x, n) ==
    LET Buffered(y) == {With(y, [y.c EXCEPT !.inbuf = bufsize]) : bufsize \in 0 .. y.c.inbuf + n}
    IN  IF x.c.zombie THEN {x}
        ELSE IF x.c.fixed THEN {x} \cup Buffered(ssh2channel_window_override_removed(x))
        ELSE Buffered(x)

RecvData(e) ==
    /\ Arrives(e, "DATA")
    /\ Expected(e)
    /\ LET n == Head(net[e]).n
           x == With(Work(e), [chan[e] EXCEPT !.locwindow = @ - n, !.remlocwin = @ - n])
       IN  /\ \E y \in chan_send(x, n) : Handled(e, WindowAfterData(y))
           /\ delivered' = [delivered EXCEPT ![e] = @ + n]
    /\ UNCHANGED <<throttled, error, written, setup>>

RecvWindowAdjust(e) ==
    /\ Arrives(e, "WINDOW_ADJUST")
    /\ Expected(e)
    /\ Handled(e, IF "SENT_EOF" \in chan[e].closes THEN Work(e)
                  ELSE ssh2_try_send_and_unthrottle(throttled[e],
                           With(Work(e), [chan[e] EXCEPT !.remwindow = @ + Head(net[e]).n])))
    /\ UNCHANGED <<throttled, error, written, delivered, setup>>

BUGRecvRequest(e) ==
    /\ Arrives(e, "REQUEST")
    /\ Expected(e)
    /\ Handled(e, IF Head(net[e]).n = 1 THEN Push(Work(e), Pkt("REPLY", 1)) ELSE Work(e))
    /\ UNCHANGED <<throttled, error, written, delivered, setup>>

\* No reply once our CLOSE is out: it could arrive after the channel is gone.
RecvRequest(e) ==
    /\ Arrives(e, "REQUEST")
    /\ Expected(e)
    /\ Handled(e, IF Head(net[e]).n = 1 /\ "SENT_CLOSE" \notin chan[e].closes
                  THEN Push(Work(e), Pkt("REPLY", 1)) ELSE Work(e))
    /\ UNCHANGED <<throttled, error, written, delivered, setup>>

RecvReply(e) ==
    /\ Arrives(e, "REPLY")
    /\ Expected(e)
    /\ chan[e].chanreq # <<>>
    /\ LET x == RequestsAnswered(Work(e), <<Head(chan[e].chanreq)>>)
       IN  Handled(e, ssh2_channel_check_close(With(x, [x.c EXCEPT !.chanreq = Tail(@)])))
    /\ UNCHANGED <<throttled, error, written, delivered, setup>>

RecvEof(e) ==
    /\ Arrives(e, "EOF")
    /\ Expected(e)
    /\ Handled(e, IF "RCVD_EOF" \in chan[e].closes THEN Work(e)
                  ELSE ssh2_channel_check_close(chan_send_eof(e, Closed(Work(e), {"RCVD_EOF"}))))
    /\ UNCHANGED <<throttled, error, written, delivered, setup>>

\* CLOSE implies EOF and the end of all replies; output still buffered is
\* dropped, our own EOF goes out, and then the close itself is processed.
RepliesOver(x) ==
    IF "SENDS_LATE_REQUEST_REPLY" \in setup.bugs THEN x
    ELSE LET y == RequestsAnswered(x, x.c.chanreq)
         IN  With(y, [y.c EXCEPT !.chanreq = <<>>])

OutputOver(all, x) ==
    IF "SENT_EOF" \in x.c.closes THEN x
    ELSE ssh2_channel_check_throttle(all, ssh2channel_write_eof(
             With(x, [x.c EXCEPT !.outbuffer = 0, !.abandoned = @ \/ x.c.outbuffer > 0])))

CloseArrived(e, x) ==
    LET y == IF "RCVD_EOF" \in x.c.closes THEN x ELSE chan_send_eof(e, Closed(x, {"RCVD_EOF"}))
        w == OutputOver(throttled[e], RepliesOver(y))
    IN  IF "RCVD_CLOSE" \in w.c.closes THEN w
        ELSE ssh2_channel_check_close(Closed(w, {"RCVD_CLOSE"}))

RecvClose(e) ==
    /\ Arrives(e, "CLOSE")
    /\ Expected(e)
    /\ Handled(e, CloseArrived(e, Work(e)))
    /\ UNCHANGED <<throttled, error, written, delivered, setup>>

Recv(e) ==
    \/ RecvOpen(e)
    \/ RecvOpenConfirmation(e)
    \/ RecvOpenFailure(e)
    \/ RecvData(e)
    \/ RecvWindowAdjust(e)
    \/ RecvRequest(e)
    \/ RecvReply(e)
    \/ RecvEof(e)
    \/ RecvClose(e)

Next ==
    \/ ssh2_lportfwd_open
    \/ \E e \in Ends : \/ Recv(e)
                       \/ ProtoError(e)
                       \/ ssh2_connection_got_user_input(e)
                       \/ pfd_receive(e)
                       \/ SourceEof(e)
                       \/ ssh2channel_initiate_close(e)
                       \/ ssh2channel_unthrottle(e)
                       \/ mainchan_terminal_size(e)
                       \/ ssh2_throttle_all_channels(e)

Spec == Init /\ [][Next]_vars

\* Recv(e) is enabled.
Ready(e) == net[e] # <<>> /\ ~error[e] /\ ~Unexpected(e)

\* Packets that have arrived are processed, and the local sockets take the
\* data that is buffered for them. The first is weak fairness of Recv(e), with
\* Ready(e) for ENABLED, which would have TLC run every handler once more.
FairSpec ==
    /\ Spec
    /\ \A e \in Ends : /\ []<>~Ready(e) \/ []<><<Recv(e)>>_vars
                      /\ WF_vars(ssh2channel_unthrottle(e))

-----------------------------------------------------------------------------
(* What the two ends promise each other *)

Total(seq, type) == Sum([i \in DOMAIN seq |-> IF seq[i].type = type THEN seq[i].n ELSE 0])

\* Both ends have the channel, and e has neither refused nor lost its peer.
BothLive(e) == chan[e].phase = "live" /\ chan[Peer(e)].phase = "live"

\* Window accounting: what the sender p of data to e believes it may still
\* send, plus the data and the window on the wire, is exactly what e believes
\* it has granted. Neither the winadj requests nor the growth of locmaxwin
\* may create or lose a unit (ssh2_set_window, ssh2_try_send, filter_queue).
WindowsAgree ==
    \A e \in Ends :
        LET p == Peer(e)
        IN  BothLive(e) /\ "SENT_EOF" \notin chan[p].closes
            => chan[e].locwindow = chan[p].remwindow + Total(net[e], "DATA")
                   + Total(net[p], "WINDOW_ADJUST") + Total(net[p], "OPEN_CONFIRMATION")

\* No end overruns the window it was given, so that no receiver ever has to
\* throttle the whole SSH connection for one channel (throttling_conn). A
\* channel that began with a fixed window is not covered: its locmaxwin stays
\* that small, and locwindow reaches it by ordinary use.
NoOverrun ==
    setup.fixed = 0 => \A e \in Ends : chan[e].locwindow >= 0 /\ ~chan[e].throttling_conn

\* A forwarding, of any kind.  The user of the main channel writes without a
\* check for EOF (ssh2connection.c:1731), its requests go out whatever its
\* state (mainchan.c:532), and what is typed ahead is not sent by
\* OPEN_CONFIRMATION itself; what follows is promised for the others only.
Forwarded == ~setup.main

\* The close handshake is exact: no packet reaches an end that has forgotten
\* the channel, or has not heard of it yet, and no reply reaches an end that
\* is not waiting for one, whatever crosses on the wire (ssh_proto_error in
\* ssh2_connection_filter_queue is never called).
NoProtoError == Forwarded => \A e \in Ends : ~error[e]

\* After CHANNEL_EOF an end sends no more data (assert in ssh2channel_write).
NoDataAfterEof ==
    Forwarded => \A e \in Ends : \A i, j \in DOMAIN net[e] :
        net[e][i].type = "EOF" /\ net[e][j].type = "DATA" => j < i

\* After CHANNEL_CLOSE an end sends nothing at all: no late request, reply,
\* data or window adjustment.
NothingAfterClose ==
    Forwarded => \A e \in Ends : \A i \in DOMAIN net[e] : net[e][i].type = "CLOSE" => i = Len(net[e])

\* EOF comes after all the data: an end that has seen EOF has been given every
\* unit its peer's user wrote, unless the peer abandoned its output.
EofAfterAllData ==
    Forwarded => \A e \in Ends :
        "RCVD_EOF" \in chan[e].closes /\ ~chan[Peer(e)].abandoned
        => delivered[e] = written[Peer(e)]

\* Output waits only for window: an open channel never sits on data that it
\* could send, so no wakeup is missing (every path that opens the window or
\* adds data runs ssh2_try_send).
NoIdleBacklog ==
    Forwarded => \A e \in Ends :
        chan[e].phase = "live" /\ ~chan[e].halfopen /\ chan[e].outbuffer > 0
        => chan[e].remwindow = 0

\* A channel on its way out is always destroyed: once an end has sent CLOSE it
\* gets the peer's CLOSE and frees the channel, in spite of outstanding
\* requests, buffered data and CLOSEs that cross.
CloseCompletes == \A e \in Ends : "SENT_CLOSE" \in chan[e].closes ~> chan[e].phase = "gone"

\* Buffered output gets out: windows are reopened whenever the receiver has
\* consumed enough, so no sender waits for ever for a WINDOW_ADJUST.
OutputDrains == \A e \in Ends : chan[e].outbuffer > 0 ~> chan[e].outbuffer = 0

\* Output gets out and channels get closed (ssh2_channel_check_close,
\* ssh2_set_window).
ChannelsFinish == CloseCompletes /\ OutputDrains

\* Flow control: no count is ever negative, both ends agree on the windows, no
\* end sends more than the other allows, and no output waits while there is
\* window for it (ssh2_set_window, ssh2_try_send).
FlowControlSound == TypeOK /\ WindowsAgree /\ NoOverrun /\ NoIdleBacklog

\* The end of a channel: whatever crosses on the wire, no packet reaches an end
\* that does not expect it, nothing follows CLOSE and no data follows EOF
\* (ssh2_channel_check_close, ssh2_channel_try_eof).
OrderlyEnd == NoProtoError /\ NothingAfterClose /\ NoDataAfterEof

=============================================================================
