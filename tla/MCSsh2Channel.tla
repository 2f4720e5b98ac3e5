--------------------------- MODULE MCSsh2Channel ---------------------------
(* Instances of Ssh2Channel for TLC. *)
EXTENDS Ssh2Channel

\* A forwarding between two PuTTYs, throttled once.
Forwarding == [main |-> FALSE, fixed |-> 0, bugs |-> {}, openrequests |-> 0,
               budget |-> [opener |-> 3, acceptor |-> 1], requests |-> 0, throttles |-> 1]

\* The same, throttled and released while it is being opened.
Throttled == [Forwarding EXCEPT !.throttles = 2]

\* Data in one direction only, for liveness.
OneWay == [Forwarding EXCEPT !.budget.acceptor = 0, !.throttles = 0]

\* An X11 forwarding, with a peer that is slow to answer requests and limits
\* the window to one packet.
X11 == [Forwarding EXCEPT !.fixed = 1, !.bugs = {"SENDS_LATE_REQUEST_REPLY", "MAXPKT"},
                          !.throttles = 0]

\* The main session channel, with a server that cannot cope with winadj.
Session == [Forwarding EXCEPT !.main = TRUE, !.bugs = {"CHOKES_ON_WINADJ"}, !.openrequests = 1,
                              !.requests = 1, !.throttles = 0]

Channels == {Forwarding, X11, Session}

ThrottledForwardings == {Throttled}

OneWayForwardings == {OneWay}
=============================================================================
