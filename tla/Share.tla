------------------------------- MODULE Share --------------------------------
(***************************************************************************)
(* Connection sharing (sshshare.c): the upstream PuTTY lets downstream     *)
(* ones use its SSH connection.  It renumbers their channels, remembers    *)
(* whose each channel and each remote port forwarding is, and cleans up    *)
(* behind a downstream that goes away.  The part of the connection layer   *)
(* (ssh2connection.c, ssh2connection-client.c) that this rests on is here  *)
(* too; the server and the downstreams are external and keep to the rules. *)
(*                                                                         *)
(* A message is handled as soon as it is sent.  Delay is in when its       *)
(* receiver reacts: the server and a downstream may do all they could do   *)
(* without having seen it.  Data, window adjustments, EOF and channel      *)
(* requests are one kind of message.                                       *)
(***************************************************************************)
EXTENDS Naturals, Sequences, FiniteSets, FiniteSetsExt, Functions

CONSTANTS Downstreams, Ports,
          MaxId,        \* bound: ids of channels, on every side
          MaxRequests,  \* bound: requests that the server has not answered
          MayRefuse,    \* the server refuses channels
          MayCancel,    \* downstreams cancel forwardings
          MayForward,   \* the server opens channels for forwardings
          MayX11,       \* downstreams ask for X11 forwarding
          MayQueue,     \* a downstream has several global requests
                        \* outstanding
          MayLater,     \* global requests may come when none is outstanding
                        \* any more
          MayDisconnect \* downstreams leave with SSH2_MSG_DISCONNECT

ASSUME ShareAssumption ==
    /\ IsFiniteSet(Downstreams) /\ IsFiniteSet(Ports) /\ {MaxId, MaxRequests} \subseteq Nat
    /\ {MayRefuse, MayCancel, MayForward, MayX11, MayQueue, MayLater,
        MayDisconnect} \subseteq BOOLEAN

VARIABLE st   \* [cs, cl, srv, dv, main, over, faults]

None == MaxId + 1

Ids == 1 .. MaxId

ServerIds == 0 .. MaxId - 1

Empty == [i \in {} |-> 0]

Put(f, x, v) == [i \in DOMAIN f \union {x} |-> IF i = x THEN v ELSE f[i]]

Drop(f, x) == Restrict(f, DOMAIN f \ {x})

NewConnState ==
    [life |-> "none", ready |-> FALSE, half |-> {}, chans |-> {}, xchans |-> {},
     fwds |-> {}, globreqs |-> <<>>]

Init ==
    st = [cs   |-> [d \in Downstreams |-> NewConnState],
          cl   |-> [active |-> FALSE, channels |-> Empty, rpfs |-> Empty,
                    globreqs |-> <<>>, tail |-> "null"],
          srv  |-> [chans |-> Empty, opens |-> {}, reqs |-> <<>>, listens |-> {}],
          dv   |-> [d \in Downstreams |->
                      [chans |-> Empty, opens |-> {}, fwds |-> {}, reqs |-> <<>>]],
          main |-> TRUE, over |-> FALSE, faults |-> {}]

Fault(s, what) == [s EXCEPT !.faults = @ \union {what}]

Alive(s, d) == s.cs[d].life = "up"

(***************************************************************************)
(* The server receives                                                     *)
(***************************************************************************)
\* a CLOSE, and any other message on a channel
ServerClose(s, sid) ==
    IF sid \notin DOMAIN s.srv.chans THEN Fault(s, "server")
    ELSE LET c == s.srv.chans[sid] IN
         IF c.opening \/ c.in THEN Fault(s, "server")
         ELSE [s EXCEPT !.srv.chans = IF c.out THEN Drop(@, sid)
                                      ELSE Put(@, sid, [c EXCEPT !.in = TRUE])]

ServerData(s, sid) ==
    IF sid \in DOMAIN s.srv.chans /\ ~s.srv.chans[sid].opening
       /\ ~s.srv.chans[sid].in
    THEN s ELSE Fault(s, "server")

\* the answer to its CHANNEL_OPEN
ServerAnswered(s, sid, ok, us) ==
    IF sid \notin DOMAIN s.srv.chans THEN Fault(s, "server")
    ELSE IF ~s.srv.chans[sid].opening THEN Fault(s, "server")
    ELSE [s EXCEPT !.srv.chans =
              IF ok THEN Put(@, sid, [us |-> us, opening |-> FALSE,
                                      in |-> FALSE, out |-> FALSE])
              ELSE Drop(@, sid)]

ServerRequest(s, kind, port, reply) ==
    [s EXCEPT !.srv.reqs = Append(@, [kind |-> kind, port |-> port,
                                      reply |-> reply])]

(***************************************************************************)
(* A downstream receives: send_packet_to_downstream throws away what is    *)
(* for one that is gone.                                                   *)
(***************************************************************************)
ToChannel(s, d, id, sid, msg) ==
    IF ~Alive(s, d) THEN s
    ELSE IF id \notin DOMAIN s.dv[d].chans THEN Fault(s, "downstream")
    ELSE LET c == s.dv[d].chans[id] IN
         CASE msg = "confirm" ->
                IF c.sid = None THEN [s EXCEPT !.dv[d].chans[id].sid = sid]
                ELSE Fault(s, "downstream")
           [] msg = "refuse" ->
                IF c.sid = None THEN [s EXCEPT !.dv[d].chans = Drop(@, id)]
                ELSE Fault(s, "downstream")
           [] msg = "close" ->
                IF c.sid # sid \/ c.in THEN Fault(s, "downstream")
                ELSE IF c.out THEN [s EXCEPT !.dv[d].chans = Drop(@, id)]
                ELSE [s EXCEPT !.dv[d].chans[id].in = TRUE]
           [] OTHER ->
                IF c.sid # sid \/ c.in THEN Fault(s, "downstream") ELSE s

ToOpen(s, d, sid) ==
    IF Alive(s, d) THEN [s EXCEPT !.dv[d].opens = @ \union {sid}] ELSE s

\* The answer to a request for port, which the downstream takes for that to
\* the oldest of its requests.
ToRequest(s, d, port, ok) ==
    IF ~Alive(s, d) THEN s
    ELSE IF s.dv[d].reqs = <<>> THEN Fault(s, "downstream")
    ELSE LET p == Head(s.dv[d].reqs)
             t == IF p = port THEN s ELSE Fault(s, "reply order")
         IN  [t EXCEPT !.dv[d].reqs = Tail(@),
                       !.dv[d].fwds = IF ok THEN @ ELSE @ \ {p}]

(***************************************************************************)
(* The connection layer                                                    *)
(***************************************************************************)
FreeId(used) == Min(Ids \ used)

HasRoom(f) == DOMAIN f # Ids

ServerHasRoom == DOMAIN st.srv.chans # ServerIds

NextServerId == Min(ServerIds \ DOMAIN st.srv.chans)

ssh_alloc_sharing_channel(s, d) ==
    [s EXCEPT !.cl.channels = Put(@, FreeId(DOMAIN @), d)]

ssh_delete_sharing_channel(s, us) == [s EXCEPT !.cl.channels = Drop(@, us)]

ssh_rportfwd_remove(s, d, port) ==
    IF port \in DOMAIN s.cl.rpfs /\ s.cl.rpfs[port] = d
    THEN [s EXCEPT !.cl.rpfs = Drop(@, port)]
    ELSE Fault(s, "freed forwarding")

\* globreq_tail is not reset when the list becomes empty: a request queued
\* after that is not reachable from globreq_head.
ssh_sharing_queue_global_request(s, d) ==
    IF s.cl.tail = "freed" THEN s
    ELSE [s EXCEPT !.cl.globreqs = Append(@, d), !.cl.tail = "last"]

(***************************************************************************)
(* sshshare.c: cleaning up                                                 *)
(***************************************************************************)
\* del234(channels_by_server) looks for the id: that of a channel not
\* acknowledged is 0, and may be another channel's.
share_remove_channel(s, d, c) ==
    [s EXCEPT !.cs[d].chans = {[b EXCEPT !.listed = @ /\ b.sid # c.sid] :
                                  b \in {a \in @ : a.us # c.us}}]

share_find_by_us(s, d, us) == {c \in s.cs[d].chans : c.us = us}

share_find_by_server(s, d, sid) ==
    {c \in s.cs[d].chans : c.sid = sid /\ c.listed}

Only(set) == CHOOSE x \in set : TRUE

SetState(s, d, c, state) ==
    [s EXCEPT !.cs[d].chans =
        {IF b.us = c.us THEN [b EXCEPT !.state = state] ELSE b : b \in @}]

share_channel_set_server_id(s, d, c, sid) ==
    [s EXCEPT !.cs[d].chans =
        (@ \ {c}) \union {[c EXCEPT !.sid = sid, !.state = "OPEN",
                              !.listed = share_find_by_server(s, d, sid) = {}]}]

CleanHalf(s, d) ==
    LET Refuse(sid, t) == ServerAnswered(t, sid, FALSE, None)
    IN  [FoldSet(Refuse, s, s.cs[d].half) EXCEPT !.cs[d].half = {}]

CleanChannels(s, d) ==
    LET Clean(c, t) ==
            LET u == ServerClose(t, c.sid) IN
            IF c.state = "RCVD_CLOSE"
            THEN share_remove_channel(
                     ssh_delete_sharing_channel(u, c.us), d, c)
            ELSE SetState(u, d, c, "SENT_CLOSE")
    IN  FoldSet(Clean, s, {c \in s.cs[d].chans :
                             c.state \notin {"SENT_CLOSE", "UNACKNOWLEDGED"}})

CleanForwardings(s, d) ==
    LET Cancel(f, t) ==
            [ssh_rportfwd_remove(ServerRequest(t, "cancel", f.port, FALSE),
                                 d, f.port)
                EXCEPT !.cs[d].fwds = @ \ {f}]
    IN  FoldSet(Cancel, s, {f \in s.cs[d].fwds : f.active})

share_connstate_free(s, d) ==
    [s EXCEPT !.cs[d] = [NewConnState EXCEPT !.life = "freed"]]

share_try_cleanup(s, d) ==
    LET t == CleanForwardings(CleanChannels(CleanHalf(s, d), d), d) IN
    IF t.cs[d].half = {} /\ t.cs[d].chans = {} /\ t.cs[d].fwds = {}
    THEN share_connstate_free(t, d) ELSE t

share_begin_cleanup(s, d) ==
    share_try_cleanup([s EXCEPT !.cs[d].life = "dying",
                                !.dv[d] = [chans |-> Empty, opens |-> {},
                                           fwds |-> {}, reqs |-> <<>>]], d)

Retried(s, d) == IF Alive(s, d) THEN s ELSE share_try_cleanup(s, d)

(***************************************************************************)
(* sshshare.c: what comes from the server                                  *)
(***************************************************************************)
\* The messages queued for an X11 channel that the downstream has refused:
\* a request is answered, and CLOSE ends it.
share_dead_xchannel_respond(s, d, xc) ==
    LET asked == "request" \in Range(xc.q)
        done  == "close" \in Range(xc.q)
        t     == IF asked THEN ServerData(s, xc.sid) ELSE s
        rest  == s.cs[d].xchans \ {xc}
    IN  IF done
        THEN ssh_delete_sharing_channel([t EXCEPT !.cs[d].xchans = rest], xc.us)
        ELSE [t EXCEPT !.cs[d].xchans = rest \union {[xc EXCEPT !.q = <<>>]}]

BUGToChan(s, d, c, sid, msg) ==
    LET t == ToChannel(s, d, c.us, sid, msg) IN
    CASE msg = "confirm" ->
           Retried(share_channel_set_server_id(t, d, c, sid), d)
      [] msg = "refuse" ->
           share_remove_channel(ssh_delete_sharing_channel(t, c.us), d, c)
      [] msg = "close" ->
           IF c.state = "SENT_CLOSE"
           THEN Retried(share_remove_channel(
                    ssh_delete_sharing_channel(t, c.us), d, c), d)
           ELSE SetState(t, d, c, "RCVD_CLOSE")
      [] OTHER -> t

BUGForgets(s, d, c, sid, msg) ==
    LET t == ToChannel(s, d, c.ds, sid, msg) IN
    CASE msg = "confirm" ->
           Retried(share_channel_set_server_id(t, d, c, sid), d)
      [] msg = "refuse" ->
           share_remove_channel(ssh_delete_sharing_channel(t, c.us), d, c)
      [] msg = "close" ->
           IF c.state = "SENT_CLOSE"
           THEN share_remove_channel(
                    ssh_delete_sharing_channel(t, c.us), d, c)
           ELSE SetState(t, d, c, "RCVD_CLOSE")
      [] OTHER -> t

\* a message for a channel of the downstream's
ToChan(s, d, c, sid, msg) ==
    LET t == ToChannel(s, d, c.ds, sid, msg) IN
    CASE msg = "confirm" ->
           Retried(share_channel_set_server_id(t, d, c, sid), d)
      [] msg = "refuse" ->
           share_remove_channel(ssh_delete_sharing_channel(t, c.us), d, c)
      [] msg = "close" ->
           IF c.state = "SENT_CLOSE"
           THEN Retried(share_remove_channel(
                    ssh_delete_sharing_channel(t, c.us), d, c), d)
           ELSE SetState(t, d, c, "RCVD_CLOSE")
      [] OTHER -> t

share_got_pkt_from_server(s, d, us, sid, msg) ==
    LET chan  == share_find_by_us(s, d, us)
        xchan == {x \in s.cs[d].xchans : x.us = us}
    IN  IF s.cs[d].life = "freed" THEN Fault(s, "freed downstream")
        ELSE IF chan # {} THEN ToChan(s, d, Only(chan), sid, msg)
        ELSE IF xchan # {}
             THEN LET x == Only(xchan)
                      y == [x EXCEPT !.q = Append(@, msg)]
                      t == [s EXCEPT !.cs[d].xchans = (@ \ {x}) \union {y}]
                  IN  IF x.live THEN t
                      ELSE share_dead_xchannel_respond(t, d, y)
        ELSE s

\* the connection layer's look-up for a message on channel us
FromServer(s, us, sid, msg) ==
    IF us \notin DOMAIN s.cl.channels THEN Fault(s, "nonexistent channel")
    ELSE IF s.cl.channels[us] \in Downstreams
         THEN share_got_pkt_from_server(s, s.cl.channels[us], us, sid, msg)
    ELSE IF msg = "close"  \* on an X11 channel that is not handed over yet
         THEN [ServerClose(s, sid) EXCEPT !.cl.channels = Drop(@, us)]
    ELSE s

\* REQUEST_SUCCESS and REQUEST_FAILURE, for the oldest request of cs
RequestAnswered(s, d, ok) ==
    LET g == Head(s.cs[d].globreqs)
        F == {f \in s.cs[d].fwds : f.port = g.port}
        f == Only(F)
        t == IF g.kind = "forward" /\ ok
             THEN [s EXCEPT !.cs[d].fwds = (@ \ F) \union
                                           {[f EXCEPT !.active = TRUE]}]
             ELSE IF (g.kind = "forward") # ok
             THEN [s EXCEPT !.cs[d].fwds = @ \ F]
             ELSE s
        u == IF g.want THEN ToRequest(t, d, g.port, ok) ELSE t
    IN  IF s.cs[d].life = "freed" THEN Fault(s, "freed downstream")
        ELSE IF s.cs[d].globreqs = <<>> THEN Fault(s, "assert")
        ELSE IF F = {} THEN Fault(s, "freed forwarding")
        ELSE Retried([u EXCEPT !.cs[d].globreqs = Tail(@)], d)

(***************************************************************************)
(* What the server does.  It forgets a channel when CLOSE has gone both    *)
(* ways, and gives it the lowest free id.                                  *)
(***************************************************************************)
NewServerChannel(us, opening) ==
    [us |-> us, opening |-> opening, in |-> FALSE, out |-> FALSE]

\* The faults that stop the connection, or that nothing is known after.  The
\* server is one that ignores a refusal of a channel it is not opening.
Stopping == st.faults \ {"channel 0", "reply order"}

Step(s) == ~st.over /\ Stopping = {} /\ st' = s

ServerConfirms ==
    /\ ServerHasRoom
    /\ \E us \in st.srv.opens :
           LET sid == NextServerId
               s   == [st EXCEPT
                         !.srv.opens = @ \ {us},
                         !.srv.chans = Put(@, sid, NewServerChannel(us, FALSE))]
           IN  Step(FromServer(s, us, sid, "confirm"))

ServerRefuses ==
    /\ MayRefuse
    /\ \E us \in st.srv.opens :
           Step(FromServer([st EXCEPT !.srv.opens = @ \ {us}], us, None, "refuse"))

ServerSends ==
    \E sid \in DOMAIN st.srv.chans, msg \in {"data", "request"} :
        LET c == st.srv.chans[sid] IN
        /\ ~c.opening /\ ~c.out
        /\ \A d \in Downstreams : \A x \in st.cs[d].xchans :
               x.us = c.us => Len(x.q) < 2
        /\ Step(FromServer(st, c.us, sid, msg))

ServerCloses ==
    \E sid \in DOMAIN st.srv.chans :
        LET c == st.srv.chans[sid]
            s == [st EXCEPT !.srv.chans =
                    IF c.in THEN Drop(@, sid)
                    ELSE Put(@, sid, [c EXCEPT !.out = TRUE])]
        IN  /\ ~c.opening /\ ~c.out
            /\ Step(FromServer(s, c.us, sid, "close"))

\* It works on the requests in order.  The last request of the connection
\* layer's list has an uninitialised next: a reply that comes when the list
\* should be empty is a protocol error, or is handled through a wild pointer.
ServerReplies ==
    /\ st.srv.reqs # <<>>
    /\ \E ok \in BOOLEAN :
           LET r == Head(st.srv.reqs)
               s == [st EXCEPT
                       !.srv.reqs = Tail(@),
                       !.srv.listens = IF ~ok THEN @
                                       ELSE IF r.kind = "forward"
                                            THEN @ \union {r.port}
                                            ELSE @ \ {r.port}]
               q == s.cl.globreqs
               t == [s EXCEPT !.cl.globreqs = Tail(@),
                              !.cl.tail = IF Len(q) = 1 THEN "freed" ELSE @]
           IN  /\ IF r.kind = "cancel" THEN ok <=> r.port \in st.srv.listens
                  ELSE IF r.port \in st.srv.listens THEN ~ok
                  ELSE ok \/ MayRefuse
               /\ Step(IF ~r.reply THEN s
                       ELSE IF q = <<>> THEN Fault(s, "unexpected reply")
                       ELSE RequestAnswered(t, Head(q), ok))

\* SSH2_MSG_CHANNEL_OPEN for a forwarded port: after handing it to the
\* downstream the connection layer leaves it in the queue, reads on past its
\* end, and refuses "channel 0"
ServerOpens ==
    /\ MayForward /\ ServerHasRoom
    /\ \E port \in st.srv.listens :
           LET sid == NextServerId
               s   == [st EXCEPT !.srv.chans =
                         Put(@, sid, NewServerChannel(None, TRUE))]
               d   == s.cl.rpfs[port]
           IN  Step(IF port \notin DOMAIN s.cl.rpfs
                    THEN ServerAnswered(s, sid, FALSE, None)
                    ELSE IF s.cs[d].life = "freed"
                    THEN Fault(s, "freed downstream")
                    ELSE Fault(ToOpen([s EXCEPT !.cs[d].half = @ \union {sid}],
                                      d, sid), "channel 0"))

\* An X11 channel, which the connection layer accepts,
ServerOpensX11 ==
    /\ ServerHasRoom /\ HasRoom(st.cl.channels)
    /\ \E d \in Downstreams : \E c \in st.cs[d].chans : c.x11 # "no"
    /\ LET sid == NextServerId
           us  == FreeId(DOMAIN st.cl.channels)
       IN  Step([st EXCEPT !.srv.chans = Put(@, sid, NewServerChannel(us, FALSE)),
                           !.cl.channels = Put(@, us, "x11")])

\* and hands over when the client's authorisation names a downstream
\* (share_setup_x11_channel)
ServerSendsX11Auth ==
    \E sid \in DOMAIN st.srv.chans, d \in Downstreams :
        LET us == st.srv.chans[sid].us IN
        /\ ~st.srv.chans[sid].out
        /\ us \in DOMAIN st.cl.channels /\ st.cl.channels[us] = "x11"
        /\ \E c \in st.cs[d].chans :
               LET s == [st EXCEPT
                           !.cl.channels[us] = d,
                           !.cs[d].chans = IF c.x11 = "once"
                                           THEN (@ \ {c}) \union
                                                {[c EXCEPT !.x11 = "no"]}
                                           ELSE @,
                           !.cs[d].xchans = @ \union
                               {[us |-> us, sid |-> sid, live |-> TRUE,
                                 q |-> <<"data">>]}]
               IN  c.x11 # "no" /\ Step(ToOpen(s, d, sid))

(***************************************************************************)
(* What a downstream does (share_got_pkt_from_downstream)                  *)
(***************************************************************************)
\* share_listen_accepting: the version string comes at once, or with
\* share_activate
Connects(d) ==
    /\ st.cs[d].life = "none"
    /\ Step([st EXCEPT !.cs[d].life = "up", !.cs[d].ready = st.cl.active])

share_activate ==
    /\ ~st.cl.active
    /\ Step([st EXCEPT !.cl.active = TRUE,
                       !.cs = [d \in Downstreams |->
                                 [st.cs[d] EXCEPT !.ready = Alive(st, d)]]])

Talks(d) == Alive(st, d) /\ st.cs[d].ready

\* share_add_channel: no two channels with one id
AddChannel(s, d, ds, us, sid, state) ==
    IF state # "UNACKNOWLEDGED" /\ share_find_by_server(s, d, sid) # {} THEN s
    ELSE [s EXCEPT !.cs[d].chans = @ \union
                       {[ds |-> ds, us |-> us, sid |-> sid, state |-> state,
                         x11 |-> "no", listed |-> state # "UNACKNOWLEDGED"]}]

DownChannel(sid) == [sid |-> sid, in |-> FALSE, out |-> FALSE]

Opens(d) ==
    /\ Talks(d) /\ HasRoom(st.dv[d].chans) /\ HasRoom(st.cl.channels)
    /\ LET ds == FreeId(DOMAIN st.dv[d].chans)
           us == FreeId(DOMAIN st.cl.channels)
           s  == ssh_alloc_sharing_channel(st, d)
       IN  Step([AddChannel(s, d, ds, us, 0, "UNACKNOWLEDGED") EXCEPT
                   !.dv[d].chans = Put(@, ds, DownChannel(None)),
                   !.srv.opens = @ \union {us}])

\* share_xchannel_confirmation: the queued messages go to the downstream, and
\* the server's window is adjusted
XConfirmed(s, d, x, c) ==
    LET Deliver[i \in 0 .. Len(x.q)] ==
            IF i = 0 THEN s ELSE ToChannel(Deliver[i - 1], d, c.ds, x.sid,
                                           IF x.q[i] = "close" THEN "close"
                                           ELSE "data")
    IN  ServerData(Deliver[Len(x.q)], x.sid)

Confirms(d) ==
    /\ Talks(d) /\ HasRoom(st.dv[d].chans)
    /\ \E sid \in st.dv[d].opens :
           LET ds == FreeId(DOMAIN st.dv[d].chans)
               s  == [st EXCEPT !.dv[d].opens = @ \ {sid},
                                !.dv[d].chans = Put(@, ds, DownChannel(sid))]
               xs == {x \in st.cs[d].xchans : x.sid = sid}
               us == FreeId(DOMAIN st.cl.channels)
           IN  IF sid \in st.cs[d].half
               THEN /\ HasRoom(st.cl.channels)
                    /\ Step(ServerAnswered(
                              [AddChannel(ssh_alloc_sharing_channel(s, d),
                                          d, ds, us, sid, "OPEN")
                                 EXCEPT !.cs[d].half = @ \ {sid}],
                              sid, TRUE, us))
               ELSE LET x == Only(xs)
                        t == AddChannel(s, d, ds, x.us, sid, "OPEN")
                        c == Only(share_find_by_server(t, d, sid))
                    IN  Step(IF t = s THEN Fault(s, "no channel")
                             ELSE [XConfirmed(t, d, x, c) EXCEPT
                                     !.cs[d].xchans = @ \ {x}])

Refuses(d) ==
    /\ Talks(d)
    /\ \E sid \in st.dv[d].opens :
           LET s  == [st EXCEPT !.dv[d].opens = @ \ {sid}]
               xs == {x \in st.cs[d].xchans : x.sid = sid}
               x  == Only(xs)
               y  == [x EXCEPT !.live = FALSE]
           IN  IF sid \in st.cs[d].half
               THEN Step(ServerAnswered([s EXCEPT !.cs[d].half = @ \ {sid}],
                                        sid, FALSE, None))
               ELSE Step(share_dead_xchannel_respond(
                           [ServerClose(s, sid) EXCEPT
                              !.cs[d].xchans = (@ \ {x}) \union {y}], d, y))

\* data, window adjustments, EOF and requests go on to the server
Sends(d) ==
    /\ Talks(d)
    /\ \E id \in DOMAIN st.dv[d].chans :
           LET c == st.dv[d].chans[id] IN
           c.sid # None /\ ~c.out /\ Step(ServerData(st, c.sid))

\* share_disconnect and SSH2_MSG_DISCONNECT: share_receive goes round its loop
\* once more
Disconnected(d) ==
    LET s == share_begin_cleanup(st, d) IN
    IF s.cs[d].life = "freed" THEN Fault(s, "freed in loop") ELSE s

\* "x11-req"
AsksForX11(d) ==
    /\ Talks(d) /\ MayX11
    /\ \E id \in DOMAIN st.dv[d].chans, how \in {"once", "many"} :
           LET c == st.dv[d].chans[id]
               K == share_find_by_server(st, d, c.sid)
           IN  /\ c.sid # None /\ ~c.out /\ \A k \in K : k.x11 = "no"
               /\ Step(IF K = {} THEN Disconnected(d)
                       ELSE ServerData([st EXCEPT
                              !.cs[d].chans = (@ \ K) \union
                                  {[k EXCEPT !.x11 = how] : k \in K}], c.sid))

\* after CHANNEL_CLOSE has gone on to the server
ChanClosed(s, d, c) ==
    IF c.state = "RCVD_CLOSE"
    THEN share_remove_channel(ssh_delete_sharing_channel(s, c.us), d, c)
    ELSE SetState(s, d, c, "SENT_CLOSE")

Closes(d) ==
    /\ Talks(d)
    /\ \E id \in DOMAIN st.dv[d].chans :
           LET c == st.dv[d].chans[id]
               s == [ServerClose(st, c.sid) EXCEPT
                       !.dv[d].chans = IF c.in THEN Drop(@, id)
                                       ELSE Put(@, id, [c EXCEPT !.out = TRUE])]
               K == share_find_by_server(st, d, c.sid)
           IN  /\ c.sid # None /\ ~c.out
               /\ Step(IF K = {} THEN s ELSE ChanClosed(s, d, Only(K)))

MayRequest ==
    Len(st.srv.reqs) < MaxRequests /\ (st.cl.tail # "freed" \/ MayLater)

\* globreq_tail is never set: the new request becomes the head, and one that
\* waits is forgotten.
QueueRequest(s, d, g) == [s EXCEPT !.cs[d].globreqs = <<g>>]

\* "tcpip-forward": refused here and now if another downstream has the port
Forwards(d) ==
    /\ Talks(d) /\ MayRequest
    /\ \E port \in Ports \ st.dv[d].fwds :
           LET s == [st EXCEPT !.dv[d].fwds = @ \union {port},
                               !.dv[d].reqs = Append(@, port)]
               t == ssh_sharing_queue_global_request(
                        ServerRequest([s EXCEPT !.cl.rpfs = Put(@, port, d)],
                                      "forward", port, TRUE), d)
               again == \E f \in st.cs[d].fwds : f.port = port
           IN  /\ MayQueue \/ st.cs[d].globreqs = <<>> \/ port \in DOMAIN st.cl.rpfs
               /\ Step(IF port \in DOMAIN st.cl.rpfs
                       THEN ToRequest(s, d, port, FALSE)
                       ELSE IF again THEN t
                       ELSE QueueRequest(
                              [t EXCEPT !.cs[d].fwds = @ \union
                                            {[port |-> port, active |-> FALSE]}],
                              d, [kind |-> "forward", port |-> port,
                                  want |-> TRUE]))

\* "cancel-tcpip-forward", which a downstream PuTTY wants no reply to
Cancels(d) ==
    /\ Talks(d) /\ MayCancel /\ MayRequest
    /\ MayQueue \/ st.cs[d].globreqs = <<>>
    /\ \E port \in st.dv[d].fwds :
           LET s == [st EXCEPT !.dv[d].fwds = @ \ {port}]
               t == ssh_sharing_queue_global_request(
                        ServerRequest(ssh_rportfwd_remove(s, d, port),
                                      "cancel", port, TRUE), d)
           IN  Step(IF \E f \in st.cs[d].fwds : f.port = port
                    THEN QueueRequest(t, d, [kind |-> "cancel", port |-> port,
                                             want |-> FALSE])
                    ELSE s)

\* share_closing, or SSH2_MSG_DISCONNECT
Leaves(d) ==
    /\ Alive(st, d)
    /\ \/ Step(share_begin_cleanup(st, d))
       \/ MayDisconnect /\ Talks(d) /\ Step(Disconnected(d))

(***************************************************************************)
(* The upstream's own session, and the end                                 *)
(***************************************************************************)
MainCloses == st.main /\ Step([st EXCEPT !.main = FALSE])

Gone(d) == st.cs[d].life \in {"none", "freed"}

\* ssh2_check_termination, from a callback
ssh2_check_termination ==
    /\ ~st.main /\ DOMAIN st.cl.channels = {} /\ \A d \in Downstreams : Gone(d)
    /\ Step([st EXCEPT !.over = TRUE])

Downstream(d) ==
    \/ Connects(d) \/ Opens(d) \/ Confirms(d) \/ Refuses(d) \/ Sends(d)
    \/ AsksForX11(d) \/ Closes(d) \/ Forwards(d) \/ Cancels(d) \/ Leaves(d)

Next ==
    \/ ServerConfirms \/ ServerRefuses \/ ServerSends \/ ServerCloses
    \/ ServerReplies \/ ServerOpens \/ ServerOpensX11 \/ ServerSendsX11Auth
    \/ share_activate \/ MainCloses \/ ssh2_check_termination
    \/ \E d \in Downstreams : Downstream(d)

Spec == Init /\ [][Next]_st

\* The server answers what it is asked and returns a CLOSE.
ServerReturnsClose ==
    \E sid \in DOMAIN st.srv.chans : st.srv.chans[sid].in /\ ServerCloses

FairSpec ==
    /\ Spec /\ WF_st(ServerConfirms \/ ServerRefuses)
    /\ WF_st(ServerReturnsClose) /\ WF_st(ServerReplies)
    /\ WF_st(ServerSendsX11Auth) /\ WF_st(ssh2_check_termination)

(***************************************************************************)
(* Properties                                                              *)
(***************************************************************************)
\* No message from a downstream, or made up for one that has gone, is wrong at
\* the point where the server gets it: it names a channel that the server
\* has, none follows a CLOSE, and every CHANNEL_OPEN is answered once.
ServerNotConfused == "server" \notin st.faults

\* What the server sends on a channel reaches the downstream, and the channel
\* there, that it was opened with, and nothing comes after CLOSE.
DownstreamNotConfused == "downstream" \notin st.faults

\* The connection layer knows no downstream that is freed: not as the owner
\* of a channel, of a forwarding or of a global request.
NothingForFreed ==
    LET Freed(d) == d \in Downstreams /\ st.cs[d].life = "freed"
    IN  /\ \A us \in DOMAIN st.cl.channels : ~Freed(st.cl.channels[us])
        /\ \A p \in DOMAIN st.cl.rpfs : ~Freed(st.cl.rpfs[p])
        /\ \A i \in DOMAIN st.cl.globreqs : ~Freed(st.cl.globreqs[i])

\* The queue of global requests in the connection layer holds each downstream
\* as often as that downstream's own queue is long, and is as long as that of
\* the server's outstanding replies.
QueuesMatch ==
    /\ \A d \in Downstreams :
           Len(SelectSeq(st.cl.globreqs, LAMBDA x : x = d))
               = Len(st.cs[d].globreqs)
    /\ Len(SelectSeq(st.srv.reqs, LAMBDA r : r.reply)) = Len(st.cl.globreqs)

\* A forwarding that a request waits for exists, and every forwarding of a
\* downstream's is the connection layer's too.
ForwardingsAgree ==
    \A d \in Downstreams :
        LET ports == {f.port : f \in st.cs[d].fwds} IN
        /\ \A i \in DOMAIN st.cs[d].globreqs : st.cs[d].globreqs[i].port \in ports
        /\ \A p \in DOMAIN st.cl.rpfs : st.cl.rpfs[p] = d => p \in ports

\* Every channel is registered once, under one downstream, and its ids lead to
\* the same channel from either side.
ChannelsAgree ==
    /\ \A d \in Downstreams : \A c \in st.cs[d].chans :
           /\ c.us \in DOMAIN st.cl.channels /\ st.cl.channels[c.us] = d
           /\ c.state # "UNACKNOWLEDGED" =>
                  /\ c.sid \in DOMAIN st.srv.chans
                  /\ st.srv.chans[c.sid].us = c.us
           /\ \A b \in st.cs[d].chans : b # c => b.us # c.us /\ b.ds # c.ds
    /\ \A us \in DOMAIN st.cl.channels :
           LET d == st.cl.channels[us] IN
           d \in Downstreams =>
               \/ share_find_by_us(st, d, us) # {}
               \/ \E x \in st.cs[d].xchans : x.us = us

\* Whenever the server waits for an answer to its CHANNEL_OPEN, a downstream
\* that is still there has to give it.
OpensHaveOwner ==
    \A sid \in DOMAIN st.srv.chans :
        st.srv.chans[sid].opening =>
            \E d \in Downstreams : sid \in st.cs[d].half /\ Alive(st, d)

\* The upstream knows which channels the server has closed, and only those.
ClosesAgree ==
    \A d \in Downstreams : \A c \in st.cs[d].chans :
        (c.state # "UNACKNOWLEDGED" /\ c.sid \in DOMAIN st.srv.chans) =>
            (st.srv.chans[c.sid].out <=> c.state = "RCVD_CLOSE")

\* When the session of the upstream has ended and the downstreams have left,
\* the connection ends.
SessionEnds ==
    (~st.main /\ \A d \in Downstreams : ~Alive(st, d)) ~>
        (st.over \/ Stopping # {} \/ \E d \in Downstreams : Alive(st, d))

-----------------------------------------------------------------------------
(* What the code is meant to do and does not: see Deviations in README.md. *)

\* Every answer to a global request is passed on in its turn.
RepliesInOrder == "reply order" \notin st.faults

\* Only the answer to an open request of the server's is sent as one.
NoStrayRefusal == "channel 0" \notin st.faults

\* No reply comes that the connection layer does not expect.
RepliesExpected == "unexpected reply" \notin st.faults

\* A forwarding that ssh_rportfwd_remove takes out of the connection layer's
\* tree is there: none is removed, and freed, twice.
ForwardingsFreedOnce == "freed forwarding" \notin st.faults

\* share_receive does not go on with a downstream that has been freed.
LoopNotOnFreed == "freed in loop" \notin st.faults
=============================================================================
