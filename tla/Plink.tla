------------------------------- MODULE Plink --------------------------------
(***************************************************************************)
(* The command line client: the loop of unix/uxplink.c and uxcliloop.c     *)
(* between standard input and output and a backend, with the socket of     *)
(* unix/uxnet.c. The backend is that of raw.c, that of telnet.c, or an SSH *)
(* session reduced to what it shows here: it sends EOF once, and checks    *)
(* for a closed connection before it unthrottles.                          *)
(*                                                                         *)
(* Data is counted: each of the buffers is a queue, and what matters is    *)
(* how much is in it. One turn of the loop is Poll, SocketRead,            *)
(* SocketWrite, CheckStdin, CheckStdout and Continue.                      *)
(***************************************************************************)
EXTENDS Naturals

CONSTANTS
    Confs,              \* [backend, stdin_ends]: how plink may be called
    RemoteEnds,         \* the remote side comes to an end
    MAX_BACKLOG,        \* RAW_MAX_BACKLOG, TELNET_MAX_BACKLOG
    MAX_STDIN_BACKLOG,
    Capacity,           \* of the pipe on standard output, and of the kernel's send buffer
    MaxIn,              \* bound: data on standard input
    MaxRemote           \* bound: data from the remote side

ParamAssumption ==
    /\ Confs \subseteq [backend : {"raw", "telnet", "ssh"}, stdin_ends : BOOLEAN]
    /\ RemoteEnds \in BOOLEAN
    /\ {MAX_BACKLOG, MAX_STDIN_BACKLOG, Capacity, MaxIn, MaxRemote} \subseteq Nat
    /\ Capacity > 0 /\ MAX_STDIN_BACKLOG > 0

VARIABLES
    conf,       \* the protocol, and whether standard input comes to an end
    stage,      \* where the loop is
    ready,      \* what poll has reported: subset of {"sockR", "sockW", "stdin", "stdout"}
    stdin,      \* [data, eof]: what is there to be read
    stdout,     \* [data, eof, pipe, written]: stdout_data, outgoingeof, the pipe, history
    be,         \* the backend: [s, sent_console_eof, sent_socket_eof, error]
    sock,       \* [in, ineof, incomingeof, out, eof, kernel, frozen]
    net,        \* history: [taken : data accepted from stdin, sent : to the kernel, remote : from it, got]
    fate        \* "running", "exited", or a failure: an assertion, an unthrottled null
                \* socket, data or EOF for a closed one

vars == <<conf, stage, ready, stdin, stdout, be, sock, net, fate>>

Backend == conf.backend

StdinEnds == conf.stdin_ends

Eofs == {"NO", "PENDING", "SENT"}

TypeOK ==
    /\ conf \in Confs
    /\ stage \in {"poll", "sockR", "sockW", "stdin", "stdout", "continue"}
    /\ ready \subseteq {"sockR", "sockW", "stdin", "stdout"}
    /\ stdin \in [data : 0 .. MaxIn, eof : BOOLEAN]
    /\ stdout \in [data : 0 .. MaxRemote, eof : Eofs, pipe : 0 .. Capacity, written : 0 .. MaxRemote]
    /\ stdout.data + stdout.written = net.got
    /\ be \in [s : BOOLEAN, sent_console_eof : BOOLEAN, sent_socket_eof : BOOLEAN, error : BOOLEAN]
    /\ sock \in [in : 0 .. MaxRemote, ineof : BOOLEAN, incomingeof : BOOLEAN, out : 0 .. MaxIn,
                 eof : Eofs, kernel : 0 .. Capacity, frozen : BOOLEAN]
    /\ net \in [taken : 0 .. MaxIn, sent : 0 .. MaxIn, remote : 0 .. MaxRemote, got : 0 .. MaxRemote]
    /\ fate \in {"running", "exited", "assert", "null", "closed"}

Init ==
    /\ conf \in Confs
    /\ stage = "poll" /\ ready = {}
    /\ stdin = [data |-> MaxIn, eof |-> FALSE]
    /\ stdout = [data |-> 0, eof |-> "NO", pipe |-> 0, written |-> 0]
    /\ be = [s |-> TRUE, sent_console_eof |-> FALSE, sent_socket_eof |-> FALSE, error |-> FALSE]
    /\ sock = [in |-> 0, ineof |-> FALSE, incomingeof |-> FALSE, out |-> 0, eof |-> "NO",
               kernel |-> 0, frozen |-> FALSE]
    /\ net = [taken |-> 0, sent |-> 0, remote |-> 0, got |-> 0]
    /\ fate = "running"

Least(a, b) == IF a < b THEN a ELSE b

Goes(from, to) ==
    /\ stage = from /\ stage' = to /\ fate = "running"
    /\ UNCHANGED conf

-----------------------------------------------------------------------------
(* Output: the state is passed as [o : stdout, s : sock, b : be, f : fate,  *)
(* n : net].                                                               *)

Now == [o |-> stdout, s |-> sock, b |-> be, f |-> fate, n |-> net]

Becomes(x) == stdout' = x.o /\ sock' = x.s /\ be' = x.b /\ fate' = x.f /\ net' = x.n

\* try_output: as much as the pipe takes, and then EOF if that is due.
try_output(x) ==
    LET k == Least(x.o.data, Capacity - x.o.pipe)
    IN [x EXCEPT !.o.data = @ - k, !.o.pipe = @ + k, !.o.written = @ + k,
                 !.o.eof = IF @ = "PENDING" /\ x.o.data = k THEN "SENT" ELSE @]

\* sk_set_frozen.
SetFrozen(x, backlog) == [x EXCEPT !.s.frozen = backlog > MAX_BACKLOG]

\* sk_close: what the kernel has not taken is dropped.
sk_close(x) == [x EXCEPT !.s.out = 0, !.b.s = FALSE]

\* try_send: the kernel takes what it has room for; then EOF if that is due.
try_send(x) ==
    LET k == Least(x.s.out, Capacity - x.s.kernel)
    IN IF ~x.b.s THEN [x EXCEPT !.f = "closed"]
       ELSE [x EXCEPT !.s.out = @ - k, !.s.kernel = @ + k, !.n.sent = @ + k,
                      !.s.eof = IF @ = "PENDING" /\ x.s.out = k THEN "SENT" ELSE @]

\* sk_net_write_eof, with its assertion.
sk_write_eof(x) ==
    IF x.s.eof # "NO" THEN [x EXCEPT !.f = "assert"]
    ELSE try_send([x EXCEPT !.s.eof = "PENDING"])

\* raw_check_close.
raw_check_close(x) ==
    IF x.b.sent_console_eof /\ x.b.sent_socket_eof /\ x.b.s THEN sk_close(x) ELSE x

\* plink_eof, by which the remote EOF closes standard output.
plink_eof(x) == IF x.o.eof # "NO" THEN [x EXCEPT !.f = "assert"]
                ELSE try_output([x EXCEPT !.o.eof = "PENDING"])

\* raw_closing without an error.
raw_closing(x) ==
    raw_check_close([IF x.b.sent_console_eof THEN x ELSE plink_eof(x)
                     EXCEPT !.b.sent_console_eof = TRUE])

\* telnet_closing closes at once, and so does the reduced SSH session, which in
\* ssh_closing notes the end and has a callback wind everything up.
Closing(x) == IF Backend = "raw" THEN raw_closing(x) ELSE sk_close(x)

\* raw_special, telnet_special (whose command to the other side is not counted
\* as data) and the main channel of SSH, for SS_EOF.
SpecialEof(x) ==
    IF ~x.b.s THEN x
    ELSE IF Backend # "raw" THEN [x EXCEPT !.b.sent_socket_eof = TRUE]
    ELSE raw_check_close([sk_write_eof(x) EXCEPT !.b.sent_socket_eof = TRUE])

\* raw_unthrottle, telnet_unthrottle, ssh_unthrottle.
Unthrottle(x) ==
    IF x.b.s THEN SetFrozen(x, x.o.data)
    ELSE IF Backend = "ssh" THEN x
    ELSE [x EXCEPT !.f = "null"]

-----------------------------------------------------------------------------
(* The loop.                                                               *)

\* plink_pw_setup; sending is FALSE at all times.
WantsStdin == be.s /\ sock.out < MAX_STDIN_BACKLOG

Poll ==
    /\ Goes("poll", "sockR")
    /\ ready' = {e \in {"sockR", "sockW", "stdin", "stdout"} :
          CASE e = "sockR" -> be.s /\ ~sock.frozen /\ ~sock.incomingeof /\ (sock.in > 0 \/ sock.ineof)
            [] e = "sockW" -> be.s /\ sock.out > 0 /\ sock.kernel < Capacity
            [] e = "stdin" -> WantsStdin /\ (stdin.data > 0 \/ stdin.eof)
            [] e = "stdout" -> stdout.data > 0 /\ stdout.pipe < Capacity}
    /\ ready' # {}
    /\ UNCHANGED <<stdin, stdout, be, sock, net, fate>>

\* net_select_result for readability; plink_output for what has come.
SocketRead ==
    /\ Goes("sockR", "sockW")
    /\ IF "sockR" \notin ready \/ sock.frozen THEN UNCHANGED <<stdout, be, sock, net, fate>>
       ELSE IF sock.in > 0
       THEN \E k \in 1 .. sock.in :
               LET x == try_output([Now EXCEPT !.s.in = @ - k, !.o.data = @ + k, !.n.got = @ + k])
               IN Becomes(SetFrozen(x, x.o.data))
       ELSE Becomes(Closing([Now EXCEPT !.s.incomingeof = TRUE]))
    /\ UNCHANGED <<ready, stdin>>

SocketWrite ==
    /\ Goes("sockW", "stdin")
    /\ IF "sockW" \in ready /\ be.s THEN Becomes(try_send(Now)) ELSE UNCHANGED <<stdout, be, sock, net, fate>>
    /\ UNCHANGED <<ready, stdin>>

\* The first half of plink_pw_check. sk_write asserts that no EOF was sent.
CheckStdin ==
    /\ Goes("stdin", "stdout")
    /\ IF "stdin" \notin ready \/ ~be.s THEN UNCHANGED <<stdin, stdout, be, sock, net, fate>>
       ELSE IF stdin.data > 0
       THEN \E k \in 1 .. stdin.data :
               /\ stdin' = [stdin EXCEPT !.data = @ - k]
               /\ Becomes(IF sock.eof # "NO" THEN [Now EXCEPT !.f = "assert"]
                          ELSE try_send([Now EXCEPT !.s.out = @ + k, !.n.taken = @ + k]))
       ELSE UNCHANGED stdin /\ Becomes(SpecialEof(Now))
    /\ UNCHANGED ready

BUGCheckStdout ==
    /\ Goes("stdout", "continue")
    /\ IF "stdout" \in ready THEN Becomes(try_output(Now)) ELSE UNCHANGED <<stdout, be, sock, net, fate>>
    /\ UNCHANGED <<ready, stdin>>

\* The second half.
CheckStdout ==
    /\ Goes("stdout", "continue")
    /\ IF "stdout" \in ready THEN Becomes(Unthrottle(try_output(Now)))
       ELSE UNCHANGED <<stdout, be, sock, net, fate>>
    /\ UNCHANGED <<ready, stdin>>

\* plink_continue.
Continue ==
    /\ Goes("continue", "poll")
    /\ fate' = IF ~be.s /\ stdout.data = 0 THEN "exited" ELSE fate
    /\ ready' = {}
    /\ UNCHANGED <<stdin, stdout, be, sock, net>>

-----------------------------------------------------------------------------
(* The world around it.                                                    *)

StdinEof ==
    /\ StdinEnds /\ stdin.data = 0 /\ ~stdin.eof
    /\ stdin' = [stdin EXCEPT !.eof = TRUE]
    /\ UNCHANGED <<conf, stage, ready, stdout, be, sock, net, fate>>

ReaderReads ==
    /\ stdout.pipe > 0
    /\ stdout' = [stdout EXCEPT !.pipe = @ - 1]
    /\ UNCHANGED <<conf, stage, ready, stdin, be, sock, net, fate>>

RemoteReads ==
    /\ sock.kernel > 0
    /\ sock' = [sock EXCEPT !.kernel = @ - 1]
    /\ UNCHANGED <<conf, stage, ready, stdin, stdout, be, net, fate>>

RemoteSends ==
    /\ be.s /\ ~sock.ineof /\ net.remote < MaxRemote
    /\ sock' = [sock EXCEPT !.in = @ + 1]
    /\ net' = [net EXCEPT !.remote = @ + 1]
    /\ UNCHANGED <<conf, stage, ready, stdin, stdout, be, fate>>

RemoteEof ==
    /\ RemoteEnds /\ be.s /\ ~sock.ineof
    /\ sock' = [sock EXCEPT !.ineof = TRUE]
    /\ UNCHANGED <<conf, stage, ready, stdin, stdout, be, net, fate>>

Loop == Poll \/ SocketRead \/ SocketWrite \/ CheckStdin \/ CheckStdout \/ Continue

Next == Loop \/ StdinEof \/ ReaderReads \/ RemoteReads \/ RemoteSends \/ RemoteEof

Spec == Init /\ [][Next]_vars

\* The loop goes on, and both ends of plink's output are read.
FairSpec ==
    /\ Spec
    /\ WF_vars(Loop) /\ WF_vars(ReaderReads) /\ WF_vars(RemoteReads)
    /\ WF_vars(RemoteEof) /\ WF_vars(StdinEof)

-----------------------------------------------------------------------------
(* Properties.                                                             *)

\* No assertion fails: EOF is sent once on the socket and once on standard
\* output, and no data after it (sk_net_write, sk_net_write_eof, plink_eof).
NoAssert == fate # "assert"

\* A closed socket is not used (raw_unthrottle, telnet_unthrottle).
NoUseOfClosedSocket == fate # "null"

\* What poll has reported before the connection closed writes nothing to the
\* closed socket (net_select_result, plink_pw_check, raw_special), and EOF is
\* sent once on standard output: an assertion fails only for the socket's.
StaleEventsHarmless == fate # "closed" /\ (fate = "assert" => sock.eof # "NO")

\* Standard output is closed after all data, and plink ends only after
\* all that the remote side had sent before it closed is written.
OutputComplete ==
    /\ stdout.eof = "SENT" => stdout.data = 0
    /\ fate = "exited" => stdout.written = net.remote

\* A frozen socket has a backlog that somebody is trying to write, so that it
\* will be released (plink_pw_check, c_write).
FrozenOnlyWithBacklog == sock.frozen /\ be.s /\ fate = "running" => stdout.data > 0

\* plink passes on everything that the remote side had sent, and neither fails
\* an assertion nor uses a closed socket nor leaves one frozen on the way; two
\* exceptions, a second EOF on a raw connection and output that drains after a
\* raw or Telnet connection has closed, are under Deviations in README.md.
PlinkSound ==
    /\ TypeOK /\ OutputComplete /\ FrozenOnlyWithBacklog /\ StaleEventsHarmless
    /\ Backend = "raw" /\ ~StdinEnds => NoAssert /\ NoUseOfClosedSocket
    /\ Backend = "ssh" => NoAssert /\ NoUseOfClosedSocket
    /\ Backend = "telnet" => NoAssert

\* Once both the remote side and standard input have ended, plink writes what
\* is left and ends.
Terminates == sock.ineof /\ StdinEnds ~> fate # "running"

\* What the remote side has sent is written in the end, whatever freezes the
\* socket on the way (c_write of raw.c, plink_pw_check).
Drains == []<>(stdout.written = net.remote \/ fate # "running")

-----------------------------------------------------------------------------
(* What the code is meant to do and does not: see Deviations in README.md. *)

\* All that plink has taken from standard input is sent when it ends normally.
InputDelivered == fate = "exited" => net.sent = net.taken
=============================================================================
