---------------------------- MODULE Tools_proofs ----------------------------
(***************************************************************************)
(* Proofs about the command-line tools.  For plink: whatever the capacity  *)
(* of the pipes, the limits on backlogs and the amount of data, and on     *)
(* every backend, nothing that the remote side has sent is lost.  Good is  *)
(* what every function of the main loop keeps; a step of the loop is a     *)
(* composition of them.                                                    *)
(***************************************************************************)
EXTENDS Plink, TLAPS

Fates == {"running", "exited", "assert", "null", "closed"}

\* The state that the functions of the loop pass on.
State ==
    [o : [data : Nat, eof : Eofs, pipe : 0 .. Capacity, written : Nat],
     s : [in : Nat, ineof : BOOLEAN, incomingeof : BOOLEAN, out : Nat,
          eof : Eofs, kernel : 0 .. Capacity, frozen : BOOLEAN],
     b : [s : BOOLEAN, sent_console_eof : BOOLEAN, sent_socket_eof : BOOLEAN, error : BOOLEAN],
     f : Fates,
     n : [taken : Nat, sent : Nat, remote : Nat, got : Nat]]

\* Where the data is: nothing is lost on its way out, and nothing is made up.
Accounts(x) ==
    /\ x.o.data + x.o.written = x.n.got
    /\ x.n.got + x.s.in = x.n.remote /\ x.n.remote <= MaxRemote
    /\ x.s.out + x.n.sent <= x.n.taken

\* What an end of file means: all is read, and the console is told once.
Ended(x) ==
    /\ x.s.incomingeof => x.s.ineof /\ x.s.in = 0
    /\ ~x.b.s \/ x.b.sent_console_eof => x.s.incomingeof
    /\ x.o.eof # "NO" => x.b.sent_console_eof
    /\ x.o.eof = "SENT" => x.o.data = 0
    /\ x.f = "exited" => ~x.b.s /\ x.o.data = 0

\* The socket is frozen only for a backlog.
Flows(x) == x.s.frozen /\ x.b.s => x.o.data > 0

\* Nothing goes wrong where nothing can: there is no EOF to send on the socket.
Safe(x) ==
    /\ Backend # "raw" => x.f # "assert" /\ x.s.eof = "NO" /\ x.o.eof = "NO"
    /\ Backend = "raw" /\ ~StdinEnds =>
           x.f # "assert" /\ x.f # "null" /\ x.s.eof = "NO" /\ ~x.b.sent_socket_eof /\ x.b.s
    /\ Backend = "ssh" => x.f # "null"
    /\ x.f # "closed" /\ (x.f = "assert" => x.s.eof # "NO")

Good(x) == x \in State /\ Accounts(x) /\ Ended(x) /\ Flows(x) /\ Safe(x)

\* What poll has found is still so when it is served.
Polled ==
    /\ stage \in {"poll", "sockR", "sockW", "stdin", "stdout", "continue"}
    /\ ready \subseteq {"sockR", "sockW", "stdin", "stdout"}
    /\ stage = "sockR" /\ "sockR" \in ready =>
           be.s /\ ~sock.frozen /\ ~sock.incomingeof /\ (sock.in > 0 \/ sock.ineof)
    /\ stage \in {"sockR", "sockW", "stdin"} /\ "stdin" \in ready => stdin.data > 0 \/ stdin.eof

Typed ==
    /\ conf \in Confs
    /\ stdin \in [data : 0 .. MaxIn, eof : BOOLEAN]
    /\ ~StdinEnds => ~stdin.eof
    /\ stdin.data + net.taken <= MaxIn

Inv == Good(Now) /\ Polled /\ Typed

\* The settings stay, and so what is good for them does.
LEMMA GoodNext ==
    ASSUME Good(Now'), UNCHANGED conf
    PROVE  Good(Now)'
BY DEF Good, Accounts, Ended, Flows, Safe, Backend, StdinEnds

\* The state is made of its parts.
LEMMA NowIs ==
    /\ Now.o = stdout /\ Now.s = sock /\ Now.b = be /\ Now.f = fate /\ Now.n = net
BY DEF Now

\* A step that makes x of the state.
LEMMA BecomesIs ==
    ASSUME NEW x \in State, Becomes(x)
    PROVE  Now' = x
BY DEF Now, Becomes, State

\* try_output moves data from the buffer to the pipe, and closes it at the end.
LEMMA TryOutput ==
    ASSUME ParamAssumption, NEW x \in State, Accounts(x)
    PROVE  LET y == try_output(x) IN
           /\ y \in State /\ Accounts(y)
           /\ y.s = x.s /\ y.b = x.b /\ y.f = x.f /\ y.n = x.n
           /\ y.o.data <= x.o.data
           /\ y.o.eof # "NO" <=> x.o.eof # "NO"
           /\ y.o.eof = "SENT" => x.o.eof = "SENT" \/ y.o.data = 0
<1> DEFINE k == Least(x.o.data, Capacity - x.o.pipe)
           y == try_output(x)
<1>1. k \in Nat /\ k <= x.o.data /\ x.o.pipe + k \in 0 .. Capacity
  BY DEF Least, State, ParamAssumption
<1>2. /\ y.s = x.s /\ y.b = x.b /\ y.f = x.f /\ y.n = x.n
      /\ y.o.data = x.o.data - k /\ y.o.written = x.o.written + k
      /\ y.o.eof = IF x.o.eof = "PENDING" /\ x.o.data = k THEN "SENT" ELSE x.o.eof
  BY DEF try_output, State
<1>3. y \in State
  <2> HIDE DEF k
  <2>1. x.o.data - k \in Nat /\ x.o.written + k \in Nat
    BY <1>1 DEF State
  <2> QED
    BY <1>1, <2>1 DEF try_output, k, State, Eofs
<1> HIDE DEF k, y
<1>4. Accounts(y)
  BY <1>1, <1>2 DEF Accounts, State
<1> QED
  BY <1>1, <1>2, <1>3, <1>4 DEF State, y, Eofs

\* try_send does the same for an open socket, and leaves the rest alone.
LEMMA TrySend ==
    ASSUME ParamAssumption, NEW x \in State, Accounts(x), x.b.s
    PROVE  LET y == try_send(x) IN
           /\ y \in State /\ Accounts(y)
           /\ y.o = x.o /\ y.b = x.b /\ y.f = x.f
           /\ y.s.in = x.s.in /\ y.s.ineof = x.s.ineof /\ y.s.frozen = x.s.frozen
           /\ y.s.incomingeof = x.s.incomingeof /\ y.n.taken = x.n.taken
           /\ y.s.eof = "NO" <=> x.s.eof = "NO"
<1> DEFINE k == Least(x.s.out, Capacity - x.s.kernel)
           y == try_send(x)
<1>1. k \in Nat /\ k <= x.s.out /\ x.s.kernel + k \in 0 .. Capacity
  BY DEF Least, State, ParamAssumption
<1>2. /\ y.o = x.o /\ y.b = x.b /\ y.f = x.f
      /\ y.s.in = x.s.in /\ y.s.ineof = x.s.ineof /\ y.s.frozen = x.s.frozen
      /\ y.s.incomingeof = x.s.incomingeof /\ y.s.out = x.s.out - k
      /\ y.s.eof = IF x.s.eof = "PENDING" /\ x.s.out = k THEN "SENT" ELSE x.s.eof
      /\ y.n.sent = x.n.sent + k /\ y.n.taken = x.n.taken
      /\ y.n.remote = x.n.remote /\ y.n.got = x.n.got
  BY DEF try_send, State
<1>3. y \in State
  <2> HIDE DEF k
  <2>1. x.s.out - k \in Nat /\ x.n.sent + k \in Nat
    BY <1>1 DEF State
  <2> QED
    BY <1>1, <2>1 DEF try_send, k, State, Eofs
<1> HIDE DEF k, y
<1>4. Accounts(y)
  BY <1>1, <1>2 DEF Accounts, State
<1> QED
  BY <1>1, <1>2, <1>3, <1>4 DEF State, y, Eofs

\* sk_set_frozen changes nothing else.
LEMMA Froze ==
    ASSUME ParamAssumption, NEW x \in State
    PROVE  LET y == SetFrozen(x, x.o.data) IN
           /\ y \in State /\ y.o = x.o /\ y.b = x.b /\ y.f = x.f /\ y.n = x.n
           /\ y.s.in = x.s.in /\ y.s.ineof = x.s.ineof /\ y.s.incomingeof = x.s.incomingeof
           /\ y.s.out = x.s.out /\ y.s.eof = x.s.eof
           /\ y.s.frozen => x.o.data > 0
<1> DEFINE big == x.o.data > MAX_BACKLOG
<1>1. big \in BOOLEAN /\ (big => x.o.data > 0)
  BY DEF State, ParamAssumption
<1>2. SetFrozen(x, x.o.data) = [x EXCEPT !.s.frozen = big]
  BY DEF SetFrozen
<1> HIDE DEF big
<1> QED
  BY <1>1, <1>2 DEF State

\* A socket that is closed drops what it had to send.
LEMMA Closed ==
    ASSUME NEW x \in State
    PROVE  LET y == sk_close(x) IN
           /\ y \in State /\ y.o = x.o /\ y.f = x.f /\ y.n = x.n
           /\ y.s.in = x.s.in /\ y.s.ineof = x.s.ineof /\ y.s.incomingeof = x.s.incomingeof
           /\ y.s.out = 0 /\ y.s.eof = x.s.eof
           /\ ~y.b.s /\ y.b.sent_console_eof = x.b.sent_console_eof
           /\ y.b.sent_socket_eof = x.b.sent_socket_eof
BY DEF sk_close, State

\* Closing the socket after the end of what comes in is right.
LEMMA CloseGood ==
    ASSUME ParamAssumption, NEW x, Good(x), x.s.incomingeof, ~(Backend = "raw" /\ ~StdinEnds)
    PROVE  Good(sk_close(x))
<1> DEFINE y == sk_close(x)
<1>1. x \in State
  BY DEF Good
<1>2. /\ y \in State /\ y.o = x.o /\ y.f = x.f /\ y.n = x.n
      /\ y.s.in = x.s.in /\ y.s.ineof = x.s.ineof /\ y.s.incomingeof = x.s.incomingeof
      /\ y.s.out = 0 /\ y.s.eof = x.s.eof /\ ~y.b.s
      /\ y.b.sent_console_eof = x.b.sent_console_eof
  BY <1>1, Closed
<1> HIDE DEF y
<1>3. Accounts(y)
  BY <1>1, <1>2 DEF Good, Accounts, State
<1>4. Ended(y) /\ Flows(y) /\ Safe(y)
  BY <1>2 DEF Good, Ended, Flows, Safe
<1> QED
  BY <1>2, <1>3, <1>4 DEF Good, y

\* raw_check_close closes what both sides have ended.
LEMMA CheckCloseGood ==
    ASSUME ParamAssumption, NEW x, Good(x)
    PROVE  Good(raw_check_close(x))
<1>1. CASE x.b.sent_console_eof /\ x.b.sent_socket_eof /\ x.b.s
  <2>1. x.s.incomingeof /\ ~(Backend = "raw" /\ ~StdinEnds)
    BY <1>1 DEF Good, Ended, Safe
  <2> QED
    BY <1>1, <2>1, CloseGood DEF raw_check_close
<1>2. CASE ~(x.b.sent_console_eof /\ x.b.sent_socket_eof /\ x.b.s)
  BY <1>2 DEF raw_check_close
<1> QED
  BY <1>1, <1>2

\* Data that has come is written, as far as the pipe takes it, and the rest
\* freezes the socket if it is too much.
LEMMA ReadData ==
    ASSUME ParamAssumption, Inv, sock.in > 0, NEW k \in 1 .. sock.in, fate = "running"
    PROVE  LET x == try_output([Now EXCEPT !.s.in = @ - k, !.o.data = @ + k, !.n.got = @ + k])
           IN Good(SetFrozen(x, x.o.data)) /\ SetFrozen(x, x.o.data).n.taken = net.taken
<1> DEFINE a == [Now EXCEPT !.s.in = @ - k, !.o.data = @ + k, !.n.got = @ + k]
           x == try_output(a)
           y == SetFrozen(x, x.o.data)
<1>1. Now \in State /\ sock.in \in Nat /\ sock.in - k \in Nat
  BY NowIs DEF Inv, Good, State
<1>2. /\ a \in State /\ a.b = be /\ a.f = fate /\ a.n.taken = net.taken /\ a.n.sent = net.sent
      /\ a.n.remote = net.remote /\ a.n.got = net.got + k /\ a.o.data = stdout.data + k
      /\ a.o.eof = stdout.eof /\ a.o.written = stdout.written /\ a.s.in = sock.in - k
      /\ a.s.out = sock.out /\ a.s.eof = sock.eof /\ a.s.incomingeof = sock.incomingeof
      /\ a.s.ineof = sock.ineof
  <2>1. /\ Now.s.in - k = sock.in - k /\ Now.o.data + k \in Nat /\ Now.n.got + k \in Nat
        /\ sock.in - k \in Nat
    BY <1>1, NowIs DEF State
  <2>2. a = [Now EXCEPT !.s.in = Now.s.in - k, !.o.data = Now.o.data + k,
                        !.n.got = Now.n.got + k]
    OBVIOUS
  <2>3. a \in State
    BY <1>1, <2>1, <2>2 DEF State
  <2> QED
    BY <1>1, <2>3, NowIs DEF State
<1> HIDE DEF a
<1>3. Accounts(a)
  BY <1>1, <1>2, NowIs DEF Inv, Good, Accounts, State
<1>4. /\ x \in State /\ Accounts(x) /\ x.s = a.s /\ x.b = a.b /\ x.f = a.f /\ x.n = a.n
      /\ x.o.eof # "NO" <=> a.o.eof # "NO"
  BY <1>2, <1>3, TryOutput
<1> HIDE DEF x
<1>5. /\ y \in State /\ y.o = x.o /\ y.b = x.b /\ y.f = x.f /\ y.n = x.n
      /\ y.s.in = x.s.in /\ y.s.ineof = x.s.ineof /\ y.s.incomingeof = x.s.incomingeof
      /\ y.s.out = x.s.out /\ y.s.eof = x.s.eof /\ (y.s.frozen => x.o.data > 0)
  BY <1>4, Froze
<1> HIDE DEF y
<1>6. Accounts(y)
  BY <1>4, <1>5 DEF Accounts
<1>7. ~sock.incomingeof /\ be.s /\ ~be.sent_console_eof /\ stdout.eof = "NO"
  BY <1>1, NowIs DEF Inv, Good, Ended
<1>8. Ended(y) /\ Flows(y) /\ Safe(y)
  BY <1>2, <1>4, <1>5, <1>7, NowIs DEF Inv, Good, Ended, Flows, Safe
<1> QED
  BY <1>2, <1>4, <1>5, <1>6, <1>8 DEF Good, x, y, a

\* The end of what comes in is told to the console, or closes the socket.
LEMMA ReadEof ==
    ASSUME ParamAssumption, Inv, sock.in = 0, sock.ineof, ~sock.incomingeof, ~sock.frozen,
           fate = "running"
    PROVE  LET x == Closing([Now EXCEPT !.s.incomingeof = TRUE])
           IN Good(x) /\ x.n.taken = net.taken
<1> DEFINE a == [Now EXCEPT !.s.incomingeof = TRUE]
<1>1. Now \in State /\ be.s /\ ~be.sent_console_eof /\ stdout.eof = "NO"
  BY NowIs DEF Inv, Good, Ended
<1>2. /\ a \in State /\ a.b = be /\ a.f = fate /\ a.n = net /\ a.o = stdout /\ a.s.in = 0
      /\ a.s.incomingeof /\ a.s.ineof /\ a.s.out = sock.out /\ a.s.eof = sock.eof
      /\ ~a.s.frozen
  BY <1>1, NowIs DEF State
<1> HIDE DEF a
<1>3. Accounts(a)
  BY <1>1, <1>2, NowIs DEF Inv, Good, Accounts, State
<1>4. Ended(a) /\ Flows(a) /\ Safe(a)
  BY <1>1, <1>2, NowIs DEF Inv, Good, Ended, Flows, Safe
<1>5. Good(a)
  BY <1>2, <1>3, <1>4 DEF Good
<1>6. CASE Backend # "raw"
  <2>1. Closing(a) = sk_close(a)
    BY <1>6 DEF Closing
  <2>2. Good(sk_close(a)) /\ sk_close(a).n = a.n
    BY <1>2, <1>5, <1>6, CloseGood, Closed
  <2> QED
    BY <1>2, <2>1, <2>2 DEF a
<1>7. CASE Backend = "raw"
  <2> DEFINE b == [a EXCEPT !.o.eof = "PENDING"]
             c == try_output(b)
             d == [c EXCEPT !.b.sent_console_eof = TRUE]
  <2>1. /\ b \in State /\ b.s = a.s /\ b.b = a.b /\ b.f = a.f /\ b.n = a.n
        /\ b.o.data = stdout.data /\ b.o.written = stdout.written
    BY <1>2 DEF State, Eofs
  <2>2. plink_eof(a) = c /\ Closing(a) = raw_check_close(d)
    BY <1>1, <1>2, <1>7 DEF plink_eof, Closing, raw_closing
  <2> HIDE DEF b
  <2>3. Accounts(b)
    BY <1>2, <1>3, <2>1 DEF Accounts
  <2>4. /\ c \in State /\ Accounts(c) /\ c.s = b.s /\ c.b = b.b /\ c.f = b.f /\ c.n = b.n
        /\ c.o.eof = "SENT" => b.o.eof = "SENT" \/ c.o.data = 0
    BY <2>1, <2>3, TryOutput
  <2>5. b.o.eof = "PENDING"
    BY <1>2 DEF b, State
  <2> HIDE DEF c
  <2>6. /\ d \in State /\ d.s = c.s /\ d.o = c.o /\ d.f = c.f /\ d.n = c.n
        /\ d.b.s = c.b.s /\ d.b.sent_console_eof /\ d.b.sent_socket_eof = c.b.sent_socket_eof
    BY <2>4 DEF State
  <2> HIDE DEF d
  <2>7. Accounts(d)
    BY <2>4, <2>6 DEF Accounts
  <2>8. Ended(d) /\ Flows(d) /\ Safe(d)
    BY <1>1, <1>2, <1>4, <1>7, <2>1, <2>4, <2>5, <2>6 DEF Ended, Flows, Safe
  <2>9. Good(d)
    BY <2>6, <2>7, <2>8 DEF Good
  <2>10. Good(raw_check_close(d)) /\ raw_check_close(d).n = d.n
    BY <2>6, <2>9, CheckCloseGood, Closed DEF raw_check_close
  <2> QED
    BY <1>2, <2>1, <2>2, <2>4, <2>6, <2>10 DEF a
<1> QED
  BY <1>6, <1>7

\* try_send keeps everything in order.
LEMMA SendGood ==
    ASSUME ParamAssumption, NEW x, Good(x), x.f = "running", x.b.s
    PROVE  Good(try_send(x)) /\ try_send(x).n.taken = x.n.taken /\ try_send(x).f = x.f
<1> DEFINE y == try_send(x)
<1>1. x \in State /\ Accounts(x)
  BY DEF Good
<1>2. /\ y \in State /\ Accounts(y) /\ y.o = x.o /\ y.b = x.b /\ y.f = x.f
      /\ y.s.in = x.s.in /\ y.s.ineof = x.s.ineof /\ y.s.frozen = x.s.frozen
      /\ y.s.incomingeof = x.s.incomingeof /\ y.n.taken = x.n.taken
      /\ y.s.eof = "NO" <=> x.s.eof = "NO"
  BY <1>1, TrySend
<1> HIDE DEF y
<1>3. Ended(y) /\ Flows(y) /\ Safe(y)
  BY <1>2 DEF Good, Ended, Flows, Safe
<1> QED
  BY <1>2, <1>3 DEF Good, y

\* What is typed is taken, unless EOF was sent before.
LEMMA TakeData ==
    ASSUME ParamAssumption, Inv, fate = "running", be.s, NEW k \in 1 .. stdin.data
    PROVE  LET x == IF sock.eof # "NO" THEN [Now EXCEPT !.f = "assert"]
                    ELSE try_send([Now EXCEPT !.s.out = @ + k, !.n.taken = @ + k])
           IN Good(x) /\ x.n.taken \in {net.taken, net.taken + k}
<1>1. Now \in State /\ Good(Now) /\ k \in Nat
  BY DEF Inv, Good, Typed
<1>2. CASE sock.eof # "NO"
  <2> DEFINE a == [Now EXCEPT !.f = "assert"]
  <2>1. /\ a \in State /\ a.o = Now.o /\ a.s = Now.s /\ a.b = Now.b /\ a.n = Now.n
        /\ a.f = "assert"
    BY <1>1 DEF State, Fates
  <2> HIDE DEF a
  <2>2. Accounts(a) /\ Ended(a) /\ Flows(a) /\ Safe(a)
    BY <1>1, <1>2, <2>1, NowIs DEF Good, Accounts, Ended, Flows, Safe, Inv
  <2> QED
    BY <1>2, <2>1, <2>2, NowIs DEF Good, a
<1>3. CASE sock.eof = "NO"
  <2> DEFINE a == [Now EXCEPT !.s.out = @ + k, !.n.taken = @ + k]
  <2>1. Now.s.out + k \in Nat /\ Now.n.taken + k \in Nat
    BY <1>1 DEF State
  <2>2. a = [Now EXCEPT !.s.out = Now.s.out + k, !.n.taken = Now.n.taken + k]
    OBVIOUS
  <2>3. a \in State
    BY <1>1, <2>1, <2>2 DEF State
  <2>4. /\ a.o = Now.o /\ a.b = Now.b /\ a.f = Now.f /\ a.s.in = Now.s.in
        /\ a.s.ineof = Now.s.ineof /\ a.s.incomingeof = Now.s.incomingeof
        /\ a.s.out = Now.s.out + k /\ a.s.eof = Now.s.eof /\ a.s.frozen = Now.s.frozen
        /\ a.n.taken = Now.n.taken + k /\ a.n.sent = Now.n.sent
        /\ a.n.remote = Now.n.remote /\ a.n.got = Now.n.got
    BY <1>1 DEF State
  <2> HIDE DEF a
  <2>5. Accounts(a)
    BY <1>1, <2>4 DEF Good, Accounts, State
  <2>6. Ended(a) /\ Flows(a) /\ Safe(a)
    BY <1>1, <2>4 DEF Good, Ended, Flows, Safe
  <2>7. Good(a) /\ a.f = "running" /\ a.b.s
    BY <2>3, <2>4, <2>5, <2>6, NowIs DEF Good
  <2>8. Good(try_send(a)) /\ try_send(a).n.taken = net.taken + k
    BY <2>4, <2>7, SendGood, NowIs
  <2> QED
    BY <1>3, <2>8 DEF a
<1> QED
  BY <1>2, <1>3

\* EOF of standard input goes to the other side, on a raw connection as EOF of
\* the socket: there a second one fails the assertion.
LEMMA TakeEof ==
    ASSUME ParamAssumption, Inv, fate = "running", StdinEnds
    PROVE  Good(SpecialEof(Now)) /\ SpecialEof(Now).n.taken = net.taken
<1>1. Now \in State /\ Good(Now)
  BY DEF Inv, Good
<1>2. CASE ~be.s
  BY <1>1, <1>2, NowIs DEF SpecialEof
<1>3. CASE be.s /\ Backend # "raw"
  <2> DEFINE a == [Now EXCEPT !.b.sent_socket_eof = TRUE]
  <2>1. /\ a \in State /\ a.o = Now.o /\ a.s = Now.s /\ a.n = Now.n /\ a.f = Now.f
        /\ a.b.s = Now.b.s /\ a.b.sent_console_eof = Now.b.sent_console_eof
    BY <1>1 DEF State
  <2>2. SpecialEof(Now) = a
    BY <1>3, NowIs DEF SpecialEof
  <2> HIDE DEF a
  <2>3. Accounts(a) /\ Ended(a) /\ Flows(a) /\ Safe(a)
    BY <1>1, <1>3, <2>1 DEF Good, Accounts, Ended, Flows, Safe
  <2> QED
    BY <2>1, <2>2, <2>3, NowIs DEF Good
<1>4. CASE be.s /\ Backend = "raw"
  <2> DEFINE w == sk_write_eof(Now)
             a == [w EXCEPT !.b.sent_socket_eof = TRUE]
  <2>1. SpecialEof(Now) = raw_check_close(a)
    BY <1>4, NowIs DEF SpecialEof
  <2>2. /\ w \in State /\ Accounts(w) /\ w.o = Now.o /\ w.b = Now.b
        /\ w.s.in = Now.s.in /\ w.s.ineof = Now.s.ineof /\ w.s.frozen = Now.s.frozen
        /\ w.s.incomingeof = Now.s.incomingeof /\ w.n.taken = Now.n.taken
        /\ w.f \in {"running", "assert"} /\ (w.f = "assert" => w.s.eof # "NO")
    <3>1. CASE sock.eof # "NO"
      <4>1. w = [Now EXCEPT !.f = "assert"]
        BY <3>1, NowIs DEF sk_write_eof
      <4>2. w \in State /\ w.o = Now.o /\ w.b = Now.b /\ w.s = Now.s /\ w.n = Now.n
            /\ w.f = "assert"
        BY <1>1, <4>1 DEF State, Fates
      <4> HIDE DEF w
      <4> QED
        BY <1>1, <3>1, <4>2, NowIs DEF Good, Accounts
    <3>2. CASE sock.eof = "NO"
      <4> DEFINE b == [Now EXCEPT !.s.eof = "PENDING"]
      <4>1. w = try_send(b)
        BY <3>2, NowIs DEF sk_write_eof
      <4>2. /\ b \in State /\ b.o = Now.o /\ b.b = Now.b /\ b.n = Now.n /\ b.f = Now.f
            /\ b.s.in = Now.s.in /\ b.s.ineof = Now.s.ineof /\ b.s.frozen = Now.s.frozen
            /\ b.s.incomingeof = Now.s.incomingeof /\ b.s.out = Now.s.out
        BY <1>1 DEF State, Eofs
      <4> HIDE DEF b, w
      <4>3. Accounts(b)
        BY <1>1, <4>2 DEF Good, Accounts
      <4> QED
        BY <1>4, <4>1, <4>2, <4>3, TrySend, NowIs
    <3> QED
      BY <3>1, <3>2
  <2> HIDE DEF w
  <2>3. /\ a \in State /\ a.o = w.o /\ a.s = w.s /\ a.n = w.n /\ a.f = w.f
        /\ a.b.s = w.b.s /\ a.b.sent_console_eof = w.b.sent_console_eof
    BY <2>2 DEF State
  <2> HIDE DEF a
  <2>4. Accounts(a) /\ Ended(a) /\ Flows(a) /\ Safe(a)
    BY <1>1, <1>4, <2>2, <2>3 DEF Good, Accounts, Ended, Flows, Safe
  <2>5. Good(raw_check_close(a)) /\ raw_check_close(a).n = a.n
    <3>1. Good(a)
      BY <2>3, <2>4 DEF Good
    <3> QED
      BY <2>3, <3>1, CheckCloseGood, Closed DEF raw_check_close
  <2> QED
    BY <2>1, <2>2, <2>3, <2>5, NowIs
<1> QED
  BY <1>2, <1>3, <1>4

\* Once output is written the socket may thaw; one that is closed is not
\* touched by an SSH session.
LEMMA WriteOutput ==
    ASSUME ParamAssumption, Inv, fate = "running"
    PROVE  LET x == Unthrottle(try_output(Now)) IN Good(x) /\ x.n.taken = net.taken
<1> DEFINE a == try_output(Now)
           y == SetFrozen(a, a.o.data)
           z == [a EXCEPT !.f = "null"]
<1>1. Now \in State /\ Good(Now) /\ Accounts(Now)
  BY DEF Inv, Good
<1>2. /\ a \in State /\ Accounts(a) /\ a.s = Now.s /\ a.b = Now.b /\ a.f = Now.f /\ a.n = Now.n
      /\ a.o.data <= Now.o.data /\ (a.o.eof # "NO" <=> Now.o.eof # "NO")
      /\ a.o.eof = "SENT" => Now.o.eof = "SENT" \/ a.o.data = 0
  BY <1>1, TryOutput
<1>3. Unthrottle(a) = IF a.b.s THEN y ELSE IF Backend = "ssh" THEN a ELSE z
  BY DEF Unthrottle
<1> HIDE DEF a
<1>4. Now.o.data \in Nat /\ a.o.data \in Nat
  BY <1>1, <1>2 DEF State
<1>5. Ended(a)
  BY <1>1, <1>2, <1>4, NowIs DEF Good, Ended
<1>6. CASE a.b.s
  <2>1. /\ y \in State /\ y.o = a.o /\ y.b = a.b /\ y.f = a.f /\ y.n = a.n
        /\ y.s.in = a.s.in /\ y.s.ineof = a.s.ineof /\ y.s.incomingeof = a.s.incomingeof
        /\ y.s.out = a.s.out /\ y.s.eof = a.s.eof /\ (y.s.frozen => a.o.data > 0)
    BY <1>2, Froze
  <2> HIDE DEF y
  <2>2. Accounts(y) /\ Ended(y) /\ Flows(y) /\ Safe(y)
    BY <1>1, <1>2, <1>5, <2>1 DEF Good, Accounts, Ended, Flows, Safe
  <2> QED
    BY <1>2, <1>3, <1>6, <2>1, <2>2, NowIs DEF Good, a
<1>7. CASE ~a.b.s /\ Backend = "ssh"
  <2>1. Flows(a) /\ Safe(a)
    BY <1>1, <1>2, <1>7 DEF Good, Flows, Safe
  <2> QED
    BY <1>2, <1>3, <1>5, <1>7, <2>1, NowIs DEF Good, a
<1>8. CASE ~a.b.s /\ Backend # "ssh"
  <2>1. z \in State /\ z.o = a.o /\ z.s = a.s /\ z.b = a.b /\ z.n = a.n /\ z.f = "null"
    BY <1>2 DEF State, Fates
  <2> HIDE DEF z
  <2>2. Accounts(z) /\ Ended(z) /\ Flows(z) /\ Safe(z)
    BY <1>1, <1>2, <1>5, <1>8, <2>1 DEF Good, Accounts, Ended, Flows, Safe
  <2> QED
    BY <1>2, <1>3, <1>8, <2>1, <2>2, NowIs DEF Good, a
<1> QED
  BY <1>6, <1>7, <1>8

\* A step of the world changes no more than it says.
LEMMA WorldStep ==
    ASSUME ParamAssumption, Inv,
           StdinEof \/ ReaderReads \/ RemoteReads \/ RemoteSends \/ RemoteEof
    PROVE  Inv'
<1>0. UNCHANGED conf /\ UNCHANGED StdinEnds
  BY DEF StdinEof, ReaderReads, RemoteReads, RemoteSends, RemoteEof, StdinEnds
<1>1. Now \in State /\ Good(Now) /\ Polled /\ Typed
  BY DEF Inv, Good
<1>2. CASE StdinEof
  <2>1. Now' = Now
    BY <1>2 DEF StdinEof, Now
  <2>2. Polled' /\ Typed'
    BY <1>0, <1>1, <1>2 DEF StdinEof, Polled, Typed
  <2> QED
    BY <1>0, <1>1, <2>1, <2>2, GoodNext DEF Inv
<1>3. CASE ReaderReads
  <2> DEFINE x == Now'
  <2>1. /\ x \in State /\ x.s = Now.s /\ x.b = Now.b /\ x.n = Now.n /\ x.f = Now.f
        /\ x.o.data = Now.o.data /\ x.o.eof = Now.o.eof /\ x.o.written = Now.o.written
    <3>1. stdout.pipe - 1 \in 0 .. Capacity
      BY <1>1, <1>3, NowIs DEF ReaderReads, State, ParamAssumption
    <3> QED
      BY <1>1, <1>3, <3>1 DEF ReaderReads, Now, State
  <2> HIDE DEF x
  <2>2. Good(x)
    BY <1>1, <2>1 DEF Good, Accounts, Ended, Flows, Safe
  <2>3. Polled' /\ Typed'
    BY <1>0, <1>1, <1>3 DEF ReaderReads, Polled, Typed
  <2> QED
    BY <1>0, <2>2, <2>3, GoodNext DEF Inv, x
<1>4. CASE RemoteReads
  <2> DEFINE x == Now'
  <2>1. /\ x \in State /\ x.o = Now.o /\ x.b = Now.b /\ x.n = Now.n /\ x.f = Now.f
        /\ x.s.in = Now.s.in /\ x.s.ineof = Now.s.ineof /\ x.s.frozen = Now.s.frozen
        /\ x.s.incomingeof = Now.s.incomingeof /\ x.s.out = Now.s.out /\ x.s.eof = Now.s.eof
    <3>1. sock.kernel - 1 \in 0 .. Capacity
      BY <1>1, <1>4, NowIs DEF RemoteReads, State, ParamAssumption
    <3> QED
      BY <1>1, <1>4, <3>1 DEF RemoteReads, Now, State
  <2> HIDE DEF x
  <2>2. Good(x)
    BY <1>1, <2>1 DEF Good, Accounts, Ended, Flows, Safe
  <2>3. Polled' /\ Typed'
    BY <1>0, <1>1, <1>4, NowIs DEF RemoteReads, Polled, Typed, State
  <2> QED
    BY <1>0, <2>2, <2>3, GoodNext DEF Inv, x
<1>5. CASE RemoteSends
  <2> DEFINE x == Now'
  <2>1. /\ x \in State /\ x.o = Now.o /\ x.b = Now.b /\ x.f = Now.f
        /\ x.s.in = Now.s.in + 1 /\ x.s.ineof = Now.s.ineof /\ x.s.frozen = Now.s.frozen
        /\ x.s.incomingeof = Now.s.incomingeof /\ x.s.out = Now.s.out /\ x.s.eof = Now.s.eof
        /\ x.n.remote = Now.n.remote + 1 /\ x.n.got = Now.n.got /\ x.n.sent = Now.n.sent
        /\ x.n.taken = Now.n.taken
    BY <1>1, <1>5 DEF RemoteSends, Now, State
  <2>2. Now.b.s /\ ~Now.s.ineof /\ Now.n.remote < MaxRemote
    BY <1>5, NowIs DEF RemoteSends
  <2> HIDE DEF x
  <2>3. Accounts(x)
    BY <1>1, <2>1, <2>2 DEF Good, Accounts, State, ParamAssumption
  <2>4. Ended(x) /\ Flows(x) /\ Safe(x)
    BY <1>1, <2>1, <2>2 DEF Good, Ended, Flows, Safe
  <2>5. Polled' /\ Typed'
    BY <1>0, <1>1, <1>5, NowIs DEF RemoteSends, Polled, Typed, State
  <2>6. Good(x)
    BY <2>1, <2>3, <2>4 DEF Good
  <2> QED
    BY <1>0, <2>5, <2>6, GoodNext DEF Inv, x
<1>6. CASE RemoteEof
  <2> DEFINE x == Now'
  <2>1. /\ x \in State /\ x.o = Now.o /\ x.b = Now.b /\ x.n = Now.n /\ x.f = Now.f
        /\ x.s.in = Now.s.in /\ x.s.ineof /\ x.s.frozen = Now.s.frozen
        /\ x.s.incomingeof = Now.s.incomingeof /\ x.s.out = Now.s.out /\ x.s.eof = Now.s.eof
    BY <1>1, <1>6 DEF RemoteEof, Now, State
  <2> HIDE DEF x
  <2>2. Good(x)
    BY <1>1, <2>1 DEF Good, Accounts, Ended, Flows, Safe
  <2>3. Polled' /\ Typed'
    BY <1>0, <1>1, <1>6, NowIs DEF RemoteEof, Polled, Typed, State
  <2> QED
    BY <1>0, <2>2, <2>3, GoodNext DEF Inv, x
<1> QED
  BY <1>2, <1>3, <1>4, <1>5, <1>6

\* A step of the loop that changes nothing that is passed on.
LEMMA StillGood ==
    ASSUME Good(Now), UNCHANGED <<stdout, be, sock, net, fate>>
    PROVE  Good(Now') /\ net'.taken = net.taken
<1>1. Now' = Now
  BY DEF Now
<1> QED
  BY <1>1

\* One turn of the loop.
LEMMA LoopStep ==
    ASSUME ParamAssumption, Inv, Loop
    PROVE  Inv'
<1>0. UNCHANGED conf /\ UNCHANGED StdinEnds
  BY DEF Loop, Poll, SocketRead, SocketWrite, CheckStdin, CheckStdout, Continue, Goes, StdinEnds
<1>1. Now \in State /\ Good(Now) /\ Polled /\ Typed
  BY DEF Inv, Good
<1>2. CASE Poll
  <2>1. Good(Now')
    BY <1>1, <1>2, StillGood DEF Poll
  <2>2. Polled' /\ Typed'
    BY <1>0, <1>1, <1>2 DEF Poll, Goes, WantsStdin, Polled, Typed
  <2> QED
    BY <1>0, <2>1, <2>2, GoodNext DEF Inv
<1>3. CASE SocketRead
  <2>1. fate = "running" /\ stage = "sockR" /\ stage' = "sockW" /\ UNCHANGED <<ready, stdin>>
    BY <1>3 DEF SocketRead, Goes
  <2>2. Good(Now') /\ net'.taken = net.taken
    <3>1. CASE "sockR" \notin ready \/ sock.frozen
      BY <1>1, <1>3, <3>1, StillGood DEF SocketRead
    <3>2. CASE ~("sockR" \notin ready \/ sock.frozen) /\ sock.in > 0
      <4> DEFINE x(k) == try_output([Now EXCEPT !.s.in = @ - k, !.o.data = @ + k, !.n.got = @ + k])
                 y(k) == SetFrozen(x(k), x(k).o.data)
      <4>1. PICK k \in 1 .. sock.in : Becomes(y(k))
        BY <1>3, <3>2 DEF SocketRead
      <4>2. Good(y(k)) /\ y(k).n.taken = net.taken
        BY <2>1, <3>2, ReadData
      <4> HIDE DEF y
      <4> QED
        BY <4>1, <4>2, BecomesIs DEF Good, Becomes
    <3>3. CASE ~("sockR" \notin ready \/ sock.frozen) /\ ~(sock.in > 0)
      <4> DEFINE y == Closing([Now EXCEPT !.s.incomingeof = TRUE])
      <4>1. Becomes(y)
        BY <1>3, <3>3 DEF SocketRead
      <4>2. sock.in = 0 /\ sock.ineof /\ ~sock.incomingeof
        BY <1>1, <2>1, <3>3, NowIs DEF Polled, State
      <4>3. Good(y) /\ y.n.taken = net.taken
        BY <2>1, <3>3, <4>2, ReadEof
      <4> HIDE DEF y
      <4> QED
        BY <4>1, <4>3, BecomesIs DEF Good, Becomes
    <3> QED
      BY <3>1, <3>2, <3>3
  <2>3. Polled' /\ Typed'
    BY <1>0, <1>1, <2>1, <2>2 DEF Polled, Typed
  <2> QED
    BY <1>0, <2>2, <2>3, GoodNext DEF Inv
<1>4. CASE SocketWrite
  <2>1. fate = "running" /\ stage = "sockW" /\ stage' = "stdin" /\ UNCHANGED <<ready, stdin>>
    BY <1>4 DEF SocketWrite, Goes
  <2>2. Good(Now') /\ net'.taken = net.taken
    <3>1. CASE "sockW" \in ready /\ be.s
      <4>1. Becomes(try_send(Now))
        BY <1>4, <3>1 DEF SocketWrite
      <4>2. Good(try_send(Now)) /\ try_send(Now).n.taken = net.taken
        BY <1>1, <2>1, <3>1, SendGood, NowIs
      <4> QED
        BY <4>1, <4>2, BecomesIs DEF Good, Becomes
    <3>2. CASE ~("sockW" \in ready /\ be.s)
      BY <1>1, <1>4, <3>2, StillGood DEF SocketWrite
    <3> QED
      BY <3>1, <3>2
  <2>3. Polled' /\ Typed'
    BY <1>0, <1>1, <2>1, <2>2 DEF Polled, Typed
  <2> QED
    BY <1>0, <2>2, <2>3, GoodNext DEF Inv
<1>5. CASE CheckStdin
  <2>1. fate = "running" /\ stage = "stdin" /\ stage' = "stdout" /\ UNCHANGED ready
    BY <1>5 DEF CheckStdin, Goes
  <2>2. Good(Now') /\ Typed'
    <3>1. CASE "stdin" \notin ready \/ ~be.s
      BY <1>0, <1>1, <1>5, <3>1, StillGood DEF CheckStdin, Typed
    <3>2. CASE ~("stdin" \notin ready \/ ~be.s) /\ stdin.data > 0
      <4> DEFINE y(k) == IF sock.eof # "NO" THEN [Now EXCEPT !.f = "assert"]
                         ELSE try_send([Now EXCEPT !.s.out = @ + k, !.n.taken = @ + k])
      <4>1. PICK k \in 1 .. stdin.data : stdin' = [stdin EXCEPT !.data = @ - k] /\ Becomes(y(k))
        BY <1>5, <3>2 DEF CheckStdin
      <4>2. Good(y(k)) /\ y(k).n.taken \in {net.taken, net.taken + k}
        BY <2>1, <3>2, TakeData
      <4> HIDE DEF y
      <4>3. Good(Now') /\ net'.taken \in {net.taken, net.taken + k}
        BY <4>1, <4>2, BecomesIs DEF Good, Becomes
      <4>4. Typed'
        BY <1>0, <1>1, <4>1, <4>3, NowIs DEF Typed, State, ParamAssumption
      <4> QED
        BY <4>3, <4>4
    <3>3. CASE ~("stdin" \notin ready \/ ~be.s) /\ ~(stdin.data > 0)
      <4>1. Becomes(SpecialEof(Now)) /\ UNCHANGED stdin
        BY <1>5, <3>3 DEF CheckStdin
      <4>2. StdinEnds
        BY <1>0, <1>1, <2>1, <3>3 DEF Polled, Typed
      <4>3. Good(SpecialEof(Now)) /\ SpecialEof(Now).n.taken = net.taken
        BY <2>1, <4>2, TakeEof
      <4>4. Good(Now') /\ net'.taken = net.taken
        BY <4>1, <4>3, BecomesIs DEF Good, Becomes
      <4> QED
        BY <1>0, <1>1, <4>1, <4>4 DEF Typed
    <3> QED
      BY <3>1, <3>2, <3>3
  <2>3. Polled'
    BY <1>1, <2>1 DEF Polled
  <2> QED
    BY <1>0, <2>2, <2>3, GoodNext DEF Inv
<1>6. CASE CheckStdout
  <2>1. fate = "running" /\ stage = "stdout" /\ stage' = "continue" /\ UNCHANGED <<ready, stdin>>
    BY <1>6 DEF CheckStdout, Goes
  <2>2. Good(Now') /\ net'.taken = net.taken
    <3>1. CASE "stdout" \in ready
      <4> DEFINE y == Unthrottle(try_output(Now))
      <4>1. Becomes(y)
        BY <1>6, <3>1 DEF CheckStdout
      <4>2. Good(y) /\ y.n.taken = net.taken
        BY <2>1, WriteOutput
      <4> HIDE DEF y
      <4> QED
        BY <4>1, <4>2, BecomesIs DEF Good, Becomes
    <3>2. CASE "stdout" \notin ready
      BY <1>1, <1>6, <3>2, StillGood DEF CheckStdout
    <3> QED
      BY <3>1, <3>2
  <2>3. Polled' /\ Typed'
    BY <1>0, <1>1, <2>1, <2>2 DEF Polled, Typed
  <2> QED
    BY <1>0, <2>2, <2>3, GoodNext DEF Inv
<1>7. CASE Continue
  <2>1. /\ stage' = "poll" /\ ready' = {} /\ UNCHANGED <<stdin, stdout, be, sock, net>>
        /\ fate = "running" /\ fate' = IF ~be.s /\ stdout.data = 0 THEN "exited" ELSE fate
    BY <1>7 DEF Continue, Goes
  <2> DEFINE x == Now'
  <2>2. /\ x \in State /\ x.o = Now.o /\ x.s = Now.s /\ x.b = Now.b /\ x.n = Now.n
        /\ x.f = IF ~Now.b.s /\ Now.o.data = 0 THEN "exited" ELSE "running"
    BY <1>1, <2>1 DEF Now, State, Fates
  <2> HIDE DEF x
  <2>3. Good(x)
    BY <1>1, <2>2 DEF Good, Accounts, Ended, Flows, Safe
  <2>4. Polled' /\ Typed'
    BY <1>0, <1>1, <2>1 DEF Polled, Typed
  <2> QED
    BY <1>0, <2>3, <2>4, GoodNext DEF Inv, x
<1> QED
  BY <1>2, <1>3, <1>4, <1>5, <1>6, <1>7 DEF Loop

\* For every backend, any sizes of the buffers and any amount of data: plink
\* ends only after it has written all that the remote side had sent, standard
\* output is closed after all data, and a socket that is frozen has a backlog
\* that will release it. No assertion fails and no closed socket is used, but
\* for EOF of standard input on a raw connection and for output that drains
\* after a Telnet connection has closed (plink's main loop, plink_pw_check,
\* raw_check_close, try_send).
THEOREM PlinkIsSound ==
    ASSUME ParamAssumption
    PROVE  Spec => []PlinkSound
<1>1. Init => Inv
  <2> SUFFICES ASSUME Init PROVE Inv
    OBVIOUS
  <2>1. /\ Now.o = [data |-> 0, eof |-> "NO", pipe |-> 0, written |-> 0]
        /\ Now.s = [in |-> 0, ineof |-> FALSE, incomingeof |-> FALSE, out |-> 0, eof |-> "NO",
                    kernel |-> 0, frozen |-> FALSE]
        /\ Now.b = [s |-> TRUE, sent_console_eof |-> FALSE, sent_socket_eof |-> FALSE,
                    error |-> FALSE]
        /\ Now.f = "running" /\ Now.n = [taken |-> 0, sent |-> 0, remote |-> 0, got |-> 0]
    BY NowIs DEF Init
  <2>2. Now \in State
    BY DEF Init, Now, State, Fates, Eofs, ParamAssumption
  <2>3. Accounts(Now) /\ Ended(Now) /\ Flows(Now) /\ Safe(Now)
    BY <2>1 DEF Accounts, Ended, Flows, Safe, ParamAssumption
  <2>4. Polled /\ Typed
    BY DEF Init, Polled, Typed, ParamAssumption
  <2> QED
    BY <2>2, <2>3, <2>4 DEF Inv, Good
<1>2. Inv /\ [Next]_vars => Inv'
  <2> SUFFICES ASSUME Inv, [Next]_vars PROVE Inv'
    OBVIOUS
  <2>1. CASE Next
    BY <2>1, LoopStep, WorldStep DEF Next
  <2>2. CASE UNCHANGED vars
    BY <2>2
    DEF vars, Inv, Good, Accounts, Ended, Flows, Safe, Now, Polled, Typed, Backend, StdinEnds
  <2> QED
    BY <2>1, <2>2
<1>3. Inv => PlinkSound
  <2> SUFFICES ASSUME Inv PROVE PlinkSound
    OBVIOUS
  <2>1. Now \in State /\ Accounts(Now) /\ Ended(Now) /\ Flows(Now) /\ Safe(Now) /\ Polled /\ Typed
    BY DEF Inv, Good
  <2>2. /\ stdout \in [data : Nat, eof : Eofs, pipe : 0 .. Capacity, written : Nat]
        /\ sock \in [in : Nat, ineof : BOOLEAN, incomingeof : BOOLEAN, out : Nat,
                     eof : Eofs, kernel : 0 .. Capacity, frozen : BOOLEAN]
        /\ be \in [s : BOOLEAN, sent_console_eof : BOOLEAN, sent_socket_eof : BOOLEAN,
                   error : BOOLEAN]
        /\ fate \in Fates /\ net \in [taken : Nat, sent : Nat, remote : Nat, got : Nat]
    BY <2>1, NowIs DEF State
  <2>3. /\ stdout.data + stdout.written = net.got /\ net.got + sock.in = net.remote
        /\ net.remote <= MaxRemote /\ sock.out + net.sent <= net.taken
        /\ stdin.data + net.taken <= MaxIn
    BY <2>1, NowIs DEF Accounts, Typed
  <2>4. TypeOK
    <3>1. /\ stdout.data \in 0 .. MaxRemote /\ stdout.written \in 0 .. MaxRemote
          /\ sock.in \in 0 .. MaxRemote /\ sock.out \in 0 .. MaxIn
          /\ net.taken \in 0 .. MaxIn /\ net.sent \in 0 .. MaxIn
          /\ net.remote \in 0 .. MaxRemote /\ net.got \in 0 .. MaxRemote
      BY <2>1, <2>2, <2>3 DEF Typed, ParamAssumption
    <3> QED
      BY <2>1, <2>2, <2>3, <3>1 DEF Polled, Typed, Fates, TypeOK
  <2>5. OutputComplete
    BY <2>1, <2>2, <2>3, NowIs DEF Ended, OutputComplete
  <2>6. FrozenOnlyWithBacklog /\ StaleEventsHarmless
        /\ (Backend = "raw" /\ ~StdinEnds => NoAssert /\ NoUseOfClosedSocket)
        /\ (Backend = "ssh" => NoAssert /\ NoUseOfClosedSocket) /\ (Backend = "telnet" => NoAssert)
    BY <2>1, NowIs DEF Flows, Safe, FrozenOnlyWithBacklog, StaleEventsHarmless, NoAssert, NoUseOfClosedSocket
  <2> QED
    BY <2>4, <2>5, <2>6 DEF PlinkSound
<1> QED
  BY <1>1, <1>2, <1>3, PTL DEF Spec
=============================================================================
