---------------------------- MODULE TelnetStream ----------------------------
(***************************************************************************)
(* The byte streams of a Telnet session: do_telnet_read and telnet_send of *)
(* _LEGACY/telnet.c, the in-line urgent data of unix/uxnet.c, and the      *)
(* order in which the event loop reports readability and exceptions.       *)
(*                                                                         *)
(* Bytes are IAC, SB, SE, DM, CR, LF, NUL, the four commands, the option   *)
(* codes BIN and TM (one the client does not know), and letters. What the  *)
(* client writes is a sequence of bytes and of option commands, which go   *)
(* out in one piece.                                                       *)
(***************************************************************************)
EXTENDS TelnetOpts, SequencesExt

CONSTANTS
    ExceptFirst,    \* the event loop serves exceptions before readability
    Text,           \* letters: the n-th item of the server's data is Text[n]
    Special,        \* other data the server sends: subset of {"CR", "IAC", "DM"}
    Typed,          \* what the user types: subset of {"x", "CR", "IAC", "EOL"}
    Binary,         \* the server negotiates BINARY
    MaxTyped,       \* bound: items typed
    MaxSynch,       \* bound: synchs sent by the server
    MaxNeg          \* bound: option commands sent by the server

ParamAssumption ==
    /\ {ExceptFirst, Binary} \subseteq BOOLEAN
    /\ Special \subseteq {"CR", "IAC", "DM"}
    /\ Typed \subseteq {"x", "CR", "IAC", "EOL"}
    /\ {MaxTyped, MaxSynch, MaxNeg} \subseteq Nat

Commands == {"WILL", "WONT", "DO", "DONT"}
Letters == Range(Text)
Bytes == Commands \cup {"IAC", "SB", "SE", "DM", "CR", "LF", "NUL", "BIN", "TM", "x"} \cup Letters

VARIABLES
    t,        \* the Telnet structure: options, state, in_synch, sb_opt, sb_buf; out and shown
    sock,     \* [buf, mark, oobpending, frozen, open]; mark is the place in buf of the urgent byte
    pending,  \* events of the last poll that have not been served
    srv,      \* the server: what it waits for, transmission modes, decoder, data received
    typed,    \* history: what the user has sent, as the server should understand it
    said,     \* history: data the server has sent since its last synch
    count     \* numbers of items sent, synchs and option commands

vars == <<t, sock, pending, srv, typed, said, count>>

TypeOK ==
    /\ t.opt \in [Opts -> OptStates]
    /\ t.state \in {"TOP_LEVEL", "SEENCR", "SEENIAC", "SEENWILL", "SEENWONT", "SEENDO",
                    "SEENDONT", "SEENSB", "SUBNEGOT", "SUBNEG_IAC"}
    /\ t.in_synch \in BOOLEAN
    /\ t.shown \in Seq(Bytes)
    /\ IsPrefix(t.sb_buf, <<"IAC", "SE", "x">>)
    /\ sock.buf \in Seq(Bytes) /\ sock.mark \in 0 .. Len(sock.buf)
    /\ {sock.oobpending, sock.frozen, sock.open} \subseteq BOOLEAN
    /\ pending \subseteq {"R", "X"}
    /\ typed \in Seq(Bytes \cup {"EOL"}) /\ said \in Seq(Bytes)

Init ==
    /\ t = [opt |-> [o \in Opts |-> IF o \in {"WE_BIN", "THEY_BIN"} THEN "INACTIVE"
                                   ELSE IF o = "OENV" THEN "REALLY_INACTIVE" ELSE "ACTIVE"],
            echoing |-> FALSE, editing |-> FALSE, activated |-> TRUE, size |-> 1, out |-> <<>>,
            state |-> "TOP_LEVEL", in_synch |-> FALSE, sb_opt |-> "TM", sb_buf |-> <<>>,
            shown |-> <<>>, closed |-> FALSE]
    /\ sock = [buf |-> <<>>, mark |-> 0, oobpending |-> FALSE, frozen |-> FALSE, open |-> TRUE]
    /\ pending = {}
    /\ srv = [wait |-> "no", ask |-> FALSE, bin |-> FALSE, clientBin |-> FALSE,
              dec |-> "data", got |-> <<>>]
    /\ typed = <<>> /\ said = <<>>
    /\ count = [data |-> 0, synch |-> 0, neg |-> 0]

-----------------------------------------------------------------------------
(* do_telnet_read.                                                         *)

\* proc_rec_opt, with its search of the table: BIN is known in both
\* directions, and an offer of anything else is declined.
Option(u, cmd, code) ==
    LET ours == cmd \in {"DO", "DONT"}
        on == cmd \in {"DO", "WILL"}
    IN IF code = "BIN" THEN proc_rec_opt(u, IF ours THEN "WE_BIN" ELSE "THEY_BIN", on)
       ELSE IF on THEN [u EXCEPT !.out = Append(@, [kind |-> "decline", opt |-> code])]
       ELSE u

Byte(c) == [kind |-> "byte", byte |-> c]

At(u, state) == [u EXCEPT !.state = state]

\* A byte in TOP_LEVEL or SEENCR.
TopLevel(u, c) ==
    IF c = "NUL" /\ u.state = "SEENCR" THEN At(u, "TOP_LEVEL")
    ELSE IF c = "IAC" THEN At(u, "SEENIAC")
    ELSE LET v == IF ~u.in_synch THEN [u EXCEPT !.shown = Append(@, c)]
                  ELSE IF c = "DM" THEN [u EXCEPT !.in_synch = FALSE] ELSE u
         IN At(v, IF c = "CR" /\ u.opt["THEY_BIN"] # "ACTIVE" THEN "SEENCR" ELSE "TOP_LEVEL")

BUGSeenIac(u, c) ==
    IF c \in Commands THEN At(u, "SEEN" \o c)
    ELSE IF c = "SB" THEN At(u, "SEENSB")
    ELSE IF c = "IAC" THEN At([u EXCEPT !.shown = Append(@, c)], "TOP_LEVEL")
    ELSE At(u, "TOP_LEVEL")

SeenIac(u, c) ==
    IF c \in Commands THEN At(u, "SEEN" \o c)
    ELSE IF c = "SB" THEN At(u, "SEENSB")
    ELSE IF c = "DM" THEN At([u EXCEPT !.in_synch = FALSE], "TOP_LEVEL")
    ELSE IF c = "IAC" THEN At([u EXCEPT !.shown = Append(@, c)], "TOP_LEVEL")
    ELSE At(u, "TOP_LEVEL")

Added(u, c) == At([u EXCEPT !.sb_buf = Append(@, c)], "SUBNEGOT")

\* Subnegotiation; process_subneg has no answer for the options used here.
Subneg(u, c) ==
    CASE u.state = "SEENSB" -> At([u EXCEPT !.sb_opt = c, !.sb_buf = <<>>], "SUBNEGOT")
      [] u.state = "SUBNEGOT" -> IF c = "IAC" THEN At(u, "SUBNEG_IAC") ELSE Added(u, c)
      [] u.state = "SUBNEG_IAC" -> IF c = "SE" THEN At(u, "TOP_LEVEL") ELSE Added(u, c)

ReadByte(u, c) ==
    CASE u.state \in {"TOP_LEVEL", "SEENCR"} -> TopLevel(u, c)
      [] u.state = "SEENIAC" -> SeenIac(u, c)
      [] u.state = "SEENWILL" -> At(Option(u, "WILL", c), "TOP_LEVEL")
      [] u.state = "SEENWONT" -> At(Option(u, "WONT", c), "TOP_LEVEL")
      [] u.state = "SEENDO" -> At(Option(u, "DO", c), "TOP_LEVEL")
      [] u.state = "SEENDONT" -> At(Option(u, "DONT", c), "TOP_LEVEL")
      [] OTHER -> Subneg(u, c)

\* telnet_receive.
telnet_receive(u, urgent, data) ==
    FoldLeft(ReadByte, [u EXCEPT !.in_synch = @ \/ urgent], data)

-----------------------------------------------------------------------------
(* The socket and the event loop.                                          *)

\* poll: what is ready is noted, and then served one event at a time.
Poll ==
    /\ pending = {} /\ ~t.closed
    /\ pending' = (IF sock.mark # 0 /\ ~sock.frozen THEN {"X"} ELSE {}) \cup
                  (IF sock.buf # <<>> /\ ~sock.frozen THEN {"R"} ELSE {})
    /\ pending' # {}
    /\ UNCHANGED <<t, sock, srv, typed, said, count>>

\* SELECT_X of net_select_result, on a socket with urgent data in line.
SelectX ==
    /\ "X" \in pending
    /\ pending' = pending \ {"X"}
    /\ sock' = [sock EXCEPT !.oobpending = TRUE]
    /\ UNCHANGED <<t, srv, typed, said, count>>

\* recv of n bytes, with what SELECT_R has found out about the mark.
Consumed(n, atmark) ==
    [sock EXCEPT !.buf = SubSeq(@, n + 1, Len(@)), !.mark = IF @ > n THEN @ - n ELSE 0,
                 !.oobpending = @ /\ ~atmark]

\* SELECT_R: one byte at a time before the mark, and never across it. The
\* backlog of the terminal or of plink's output decides whether c_write
\* freezes the socket.
SelectR ==
    /\ "R" \in pending /\ (ExceptFirst => "X" \notin pending)
    /\ pending' = pending \ {"R"}
    /\ IF sock.frozen \/ sock.buf = <<>> THEN UNCHANGED <<t, sock>>
       ELSE LET atmark == sock.oobpending => sock.mark = 1
                n == IF sock.oobpending /\ ~atmark THEN 1
                     ELSE IF sock.mark > 1 THEN sock.mark - 1 ELSE Len(sock.buf)
                u == telnet_receive(t, ~atmark, SubSeq(sock.buf, 1, n))
            IN /\ t' = u
               /\ \E frozen \in IF u.shown = t.shown THEN {sock.frozen} ELSE BOOLEAN :
                     sock' = [Consumed(n, atmark) EXCEPT !.frozen = frozen]
    /\ UNCHANGED <<srv, typed, said, count>>

\* telnet_unthrottle, once the backlog has gone.
telnet_unthrottle ==
    /\ sock.frozen /\ ~t.closed
    /\ sock' = [sock EXCEPT !.frozen = FALSE]
    /\ UNCHANGED <<t, pending, srv, typed, said, count>>

\* telnet_closing: the server has closed the connection and all is read.
telnet_closing ==
    /\ ~sock.open /\ sock.buf = <<>> /\ ~t.closed /\ ~sock.frozen
    /\ t' = [t EXCEPT !.closed = TRUE]
    /\ UNCHANGED <<sock, pending, srv, typed, said, count>>

-----------------------------------------------------------------------------
(* telnet_send and telnet_special.                                         *)

OursBinary == t.opt["WE_BIN"] = "ACTIVE"

\* telnet_send for characters, with iswritable; telnet_special for EOL.
Encoded(item) ==
    CASE item = "IAC" -> <<"IAC", "IAC">>
      [] item = "CR" -> IF OursBinary THEN <<"CR">> ELSE <<"CR", "NUL">>
      [] item = "EOL" -> IF OursBinary THEN <<"CR">> ELSE <<"CR", "LF">>
      [] OTHER -> <<item>>

Type(item) ==
    /\ Len(typed) < MaxTyped
    /\ IF t.closed THEN UNCHANGED <<t, typed>>
       ELSE /\ t' = [t EXCEPT !.out = @ \o [i \in 1 .. Len(Encoded(item)) |-> Byte(Encoded(item)[i])]]
            /\ typed' = Append(typed, IF item = "EOL" /\ OursBinary THEN "CR" ELSE item)
    /\ UNCHANGED <<sock, pending, srv, said, count>>

-----------------------------------------------------------------------------
(* The server.                                                             *)

Arrives(bytes, mark) ==
    sock' = [sock EXCEPT !.buf = @ \o bytes,
                         !.mark = IF mark THEN Len(sock.buf) + Len(bytes) ELSE @]

Waits(for) == srv' = [srv EXCEPT !.wait = for]

\* Data, not within a synch and not while an offer to transmit binary is open.
ServerData(d) ==
    /\ sock.open /\ srv.wait \in {"no", "withdraw"}
    /\ count.data < Len(Text)
    /\ count' = [count EXCEPT !.data = @ + 1]
    /\ said' = Append(said, d)
    /\ Arrives(CASE d = "CR" -> IF srv.bin THEN <<"CR">> ELSE <<"CR", "NUL">>
                 [] d = "IAC" -> <<"IAC", "IAC">>
                 [] OTHER -> <<d>>, FALSE)
    /\ UNCHANGED <<t, pending, srv, typed>>

\* A synch: IAC, then DM as urgent data, which may arrive later.
ServerIac ==
    /\ sock.open /\ srv.wait = "no"
    /\ count.synch < MaxSynch
    /\ count' = [count EXCEPT !.synch = @ + 1]
    /\ Waits("synch")
    /\ Arrives(<<"IAC">>, FALSE)
    /\ UNCHANGED <<t, pending, typed, said>>

ServerDm ==
    /\ srv.wait = "synch"
    /\ Waits("no")
    /\ Arrives(<<"DM">>, TRUE)
    /\ said' = <<>>
    /\ UNCHANGED <<t, pending, typed, count>>

Negotiates ==
    /\ sock.open /\ srv.wait # "synch"
    /\ count.neg < MaxNeg
    /\ count' = [count EXCEPT !.neg = @ + 1]
    /\ UNCHANGED <<t, pending, typed, said>>

\* WILL BINARY; the server starts to transmit binary data once that is agreed.
ServerOffers ==
    /\ Negotiates /\ Binary /\ srv.wait = "no" /\ ~srv.bin
    /\ Waits("offer")
    /\ Arrives(<<"IAC", "WILL", "BIN">>, FALSE)

\* WONT BINARY, in force at once.
ServerWithdraws ==
    /\ Negotiates /\ Binary /\ srv.wait = "no" /\ srv.bin
    /\ srv' = [srv EXCEPT !.wait = "withdraw", !.bin = FALSE]
    /\ Arrives(<<"IAC", "WONT", "BIN">>, FALSE)

\* DO or DONT BINARY, to change what the client transmits.
ServerAsks ==
    /\ Negotiates /\ Binary /\ ~srv.ask
    /\ srv' = [srv EXCEPT !.ask = TRUE]
    /\ Arrives(<<"IAC", IF srv.clientBin THEN "DONT" ELSE "DO", "BIN">>, FALSE)

\* A command about an unknown option, or a subnegotiation whose contents look
\* like its end.
ServerOther ==
    /\ Negotiates
    /\ \E bytes \in {<<"IAC", "DO", "TM">>, <<"IAC", "WONT", "TM">>,
                     <<"IAC", "SB", "TM", "IAC", "IAC", "SE", "x", "IAC", "SE">>} : Arrives(bytes, FALSE)
    /\ UNCHANGED srv

ServerCloses ==
    /\ sock.open /\ srv.wait # "synch"
    /\ sock' = [sock EXCEPT !.open = FALSE]
    /\ UNCHANGED <<t, pending, srv, typed, said, count>>

Got(d, dec) == [srv EXCEPT !.got = @ \o d, !.dec = dec]

\* The server's decoder of RFC 854 and 856.
Decoded(c) ==
    CASE srv.dec = "iac" -> Got(<<c>>, "data")
      [] srv.dec = "cr" /\ c = "NUL" -> Got(<<"CR">>, "data")
      [] srv.dec = "cr" /\ c = "LF" -> Got(<<"EOL">>, "data")
      [] srv.dec = "data" /\ c = "IAC" -> Got(<<>>, "iac")
      [] srv.dec = "data" /\ c = "CR" /\ ~srv.clientBin -> Got(<<>>, "cr")
      [] OTHER -> Got(<<c>>, "data")

ServerReads ==
    /\ t.out # <<>>
    /\ t' = [t EXCEPT !.out = Tail(@)]
    /\ LET m == Head(t.out) IN
       srv' = CASE m.kind = "byte" -> Decoded(m.byte)
                [] m.kind = "decline" -> srv
                [] m.kind = "opt" /\ m.opt = "WE_BIN" ->
                      [srv EXCEPT !.clientBin = m.on, !.ask = FALSE]
                [] m.kind = "opt" /\ m.opt = "THEY_BIN" ->
                      [srv EXCEPT !.bin = m.on, !.wait = IF @ = "synch" THEN @ ELSE "no"]
    /\ UNCHANGED <<sock, pending, typed, said, count>>

Next ==
    \/ Poll \/ SelectX \/ SelectR \/ telnet_unthrottle \/ telnet_closing
    \/ \E item \in Typed : Type(item)
    \/ \E d \in Special \cup (IF count.data < Len(Text) THEN {Text[count.data + 1]} ELSE {}) : ServerData(d)
    \/ ServerIac \/ ServerDm
    \/ ServerOffers \/ ServerWithdraws \/ ServerAsks \/ ServerOther
    \/ ServerCloses \/ ServerReads

Spec == Init /\ [][Next]_vars

-----------------------------------------------------------------------------
(* Properties.                                                             *)

EndsWith(s, u) == Len(s) >= Len(u) /\ SubSeq(s, Len(s) - Len(u) + 1, Len(s)) = u

\* All that has arrived has been read.
AllRead == sock.buf = <<>> /\ t.state \in {"TOP_LEVEL", "SEENCR"}

\* What the server has sent since its last synch is shown, all of it and
\* nothing else, whatever commands lie between; only what was sent before a
\* synch may be hidden (do_telnet_read, in_synch).
OutputShown ==
    AllRead => /\ EndsWith(t.shown, said)
               /\ count.synch = 0 => t.shown = said

\* What the user types reaches the server as typed, also when the binary
\* option changes in between (telnet_send, iswritable).
InputIntact ==
    /\ IsPrefix(srv.got, typed)
    /\ t.out = <<>> => srv.got = typed /\ srv.dec = "data"

\* Output is hidden only while a synch is on its way (telnet_receive).
HiddenOnlyForSynch == t.in_synch => sock.mark # 0 \/ srv.wait = "synch"
=============================================================================
