------------------------------- MODULE MCShare ------------------------------
(***************************************************************************)
(* Connection sharing: what an upstream does for its downstreams (Share),  *)
(* and how processes find out who is which (ShareSocket).  Each model runs *)
(* by itself, from its own initial states; system says which one, and the  *)
(* others stay where they are.                                             *)
(***************************************************************************)
EXTENDS Share, Upstreams, TLC

CONSTANTS Systems,          \* the models that run
          d1, d2, p1, p2,   \* downstreams, ports
          pr1, pr2, pr3     \* processes

VARIABLE system

shareVars == <<system, st, processVars>>

\* The downstreams are alike.
Symmetry == Permutations({d1, d2})

\* Sessions only, and ids enough for three channels.
Sessions == INSTANCE Share WITH
    Ports <- {}, MaxId <- 3, MayForward <- FALSE

\* Two remote forwardings
Forwardings == INSTANCE Share WITH Ports <- {p1, p2}

\* X11, and channels that the server refuses
X11 == INSTANCE Share WITH
    Ports <- {}, MayForward <- FALSE, MayRefuse <- TRUE, MayX11 <- TRUE

\* Global requests of every kind, and downstreams that say good-bye
Requests == INSTANCE Share WITH
    MayRefuse <- TRUE, MayCancel <- TRUE, MayQueue <- TRUE, MayLater <- TRUE,
    MayDisconnect <- TRUE

\* Small ones, for liveness: sessions, and a forwarding
FewSessions == INSTANCE Share WITH Ports <- {}

OnePort == INSTANCE Share WITH MaxId <- 1

\* Two processes that end as well as crash
Pair == INSTANCE ShareSocket WITH
    Processes <- {pr1, pr2}, CanUpstream <- {pr1, pr2}, CanDownstream <- {pr1, pr2},
    MayEnd <- TRUE, MayCrash <- TRUE

ASSUME Sessions!ShareAssumption /\ Forwardings!ShareAssumption /\ X11!ShareAssumption
       /\ Requests!ShareAssumption /\ Sharing!ProcessesAssumption
       /\ Pair!ProcessesAssumption /\ FewSessions!ShareAssumption /\ OnePort!ShareAssumption

ShareInit ==
    /\ system \in Systems
    /\ CASE system = "sessions" -> Sessions!Init
         [] system = "x11" -> X11!Init
         [] system = "one port" -> OnePort!Init
         [] OTHER -> Init
    /\ IF system = "pair" THEN Pair!Init ELSE Sharing!Init

Upstream ==
    /\ \/ system = "sessions" /\ Sessions!Next
       \/ system = "forwardings" /\ Forwardings!Next
       \/ system = "x11" /\ X11!Next
       \/ system = "requests" /\ Requests!Next
       \/ system = "few" /\ FewSessions!Next
       \/ system = "one port" /\ OnePort!Next
    /\ UNCHANGED <<system, processVars>>

Socket ==
    /\ \/ system = "processes" /\ Sharing!Next
       \/ system = "pair" /\ Pair!Next
    /\ UNCHANGED <<system, st>>

ShareNext == Upstream \/ Socket

ShareSpec == ShareInit /\ [][ShareNext]_shareVars

\* The server answers, also a CLOSE, and the upstream's callbacks run; every
\* process that waits for the lock gets it in the end, and those that end clean
\* up behind them.
ShareFairSpec ==
    /\ ShareSpec
    /\ WF_st(\/ system = "few" /\ (FewSessions!ServerConfirms \/ FewSessions!ServerRefuses)
             \/ system = "one port" /\ (OnePort!ServerConfirms \/ OnePort!ServerRefuses))
    /\ WF_st(\/ system = "few" /\ FewSessions!ServerReturnsClose
             \/ system = "one port" /\ OnePort!ServerReturnsClose)
    /\ WF_st(\/ system = "few" /\ FewSessions!ServerReplies
             \/ system = "one port" /\ OnePort!ServerReplies)
    /\ WF_st(\/ system = "few" /\ FewSessions!ServerSendsX11Auth
             \/ system = "one port" /\ OnePort!ServerSendsX11Auth)
    /\ WF_st(\/ system = "few" /\ FewSessions!ssh2_check_termination
             \/ system = "one port" /\ OnePort!ssh2_check_termination)
    /\ \A p \in {pr1, pr2, pr3} : SF_processVars(system = "processes" /\ Sharing!Share(p))
    /\ \A p \in {pr1, pr2} : /\ SF_processVars(system = "pair" /\ Pair!Share(p))
                         /\ WF_processVars(system = "pair" /\ Pair!Cleanup(p))

-----------------------------------------------------------------------------
(* Properties of the models that run.                                      *)

Quiet == system \in {"sessions", "forwardings"}

\* No message from a downstream, or made up for one that has gone, is wrong at
\* the point where the server gets it, as long as the server refuses nothing.
ServerUnconfused == Quiet => ServerNotConfused

\* The connection layer knows no downstream that is freed: not as the owner of
\* a channel, of a forwarding or of a global request (share_disconnect).
NoFreedOwner == Quiet => NothingForFreed

\* Every channel is registered once, under one downstream, and its ids lead to
\* the same channel from either side (share_add_channel).
ChannelIdsAgree == Quiet => ChannelsAgree

\* The upstream knows which channels the server has closed, and only those.
ServerClosesKnown == Quiet => ClosesAgree

\* The queues of global requests of the downstreams, of the connection layer
\* and of the server match (share_got_pkt_from_server).
RequestQueuesMatch == system = "forwardings" => QueuesMatch

\* A forwarding that a request waits for exists, and every forwarding of a
\* downstream's is the connection layer's too.
ForwardingsKnown == system = "forwardings" => ForwardingsAgree

\* Whenever the server waits for an answer to its CHANNEL_OPEN, a downstream
\* that is still there has to give it.
ServerOpensHaveOwner == system = "forwardings" => OpensHaveOwner

\* When the session of the upstream has ended and the downstreams have left,
\* the connection ends (ssh2_check_termination).
ConnectionEnds ==
    (system \in {"few", "one port"} /\ ~st.main /\ \A d \in Downstreams : ~Alive(st, d)) ~>
        (st.over \/ Stopping # {} \/ \E d \in Downstreams : Alive(st, d))

\* Every process that starts finds out whether it shares, and as what, whoever
\* dies with the lock held.
EveryoneDecides ==
    \A p \in {pr1, pr2, pr3} :
        (system \in {"processes", "pair"} /\ p \in DOMAIN pc /\ pc[p] = "salt")
        ~> (p \in DOMAIN pc /\ pc[p] \in {"up", "down", "alone", "idle"})

\* The upstream keeps the channels, forwardings and requests of its downstreams
\* and of the server apart, while downstreams come and go: no message is wrong
\* where it arrives, and no record of one that has gone is left behind.
ChannelsApart ==
    /\ DownstreamNotConfused /\ ServerUnconfused /\ NoFreedOwner
    /\ ChannelIdsAgree /\ ServerClosesKnown
    /\ RequestQueuesMatch /\ ForwardingsKnown /\ ServerOpensHaveOwner

=============================================================================
