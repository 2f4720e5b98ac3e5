------------------------------- MODULE Telnet -------------------------------
(***************************************************************************)
(* Option negotiation between the Telnet backend of _LEGACY/telnet.c and a *)
(* server that follows RFC 854 as refined by RFC 1143: it answers requests *)
(* for a change, does not answer what confirms its own, and starts nothing *)
(* new about an option before the last exchange is over. The server may    *)
(* accept or refuse anything, and take up to MaxAsk initiatives of its own *)
(* at any time.                                                            *)
(***************************************************************************)
EXTENDS TelnetOpts

CONSTANTS
    Subject,    \* the options the server knows of; it ignores the others
    Passive,    \* CONF_passive_telnet
    Sizes,      \* window sizes, 1 .. 2 say
    MaxAsk,     \* bound: initiatives of the server
    MaxResize   \* bound: changes of the window size

ParamAssumption ==
    /\ Subject \subseteq Opts
    /\ Passive \in BOOLEAN
    /\ MaxAsk \in Nat /\ MaxResize \in Nat
    /\ Sizes \subseteq Nat /\ 0 \notin Sizes /\ Sizes # {}

VARIABLES
    telnet,     \* the client; its field out is what is on its way to the server
    toClient,   \* commands on their way to the client
    srv,        \* the server's state of each option
    srvSize,    \* the window size the server knows, or 0
    asked,      \* number of initiatives so far
    resized     \* number of resizes so far

vars == <<telnet, toClient, srv, srvSize, asked, resized>>

Quiet == telnet.out = <<>> /\ toClient = <<>>

TypeOK ==
    /\ telnet.opt \in [Opts -> OptStates]
    /\ \A o \in Opts \ {"OENV", "NENV"} : telnet.opt[o] # "REALLY_INACTIVE"
    /\ {telnet.echoing, telnet.editing, telnet.activated} \subseteq BOOLEAN
    /\ telnet.size \in Sizes
    /\ telnet.out \in Seq([kind : {"opt"}, opt : Opts, on : BOOLEAN] \cup [kind : {"naws"}, size : Sizes])
    /\ toClient \in Seq([kind : {"opt"}, opt : Subject, on : BOOLEAN])
    /\ srv \in [Subject -> {"off", "on", "wantOn", "wantOff"}]
    /\ srvSize \in Sizes \cup {0}
    /\ asked \in 0 .. MaxAsk /\ resized \in 0 .. MaxResize

Init ==
    /\ \E n \in Sizes : telnet = telnet_init(Passive, n)
    /\ toClient = <<>>
    /\ srv = [o \in Subject |-> "off"]
    /\ srvSize = 0
    /\ asked = 0 /\ resized = 0

-----------------------------------------------------------------------------
\* do_telnet_read at the end of IAC WILL/WONT/DO/DONT option.
ClientReceives ==
    /\ toClient # <<>>
    /\ toClient' = Tail(toClient)
    /\ telnet' = proc_rec_opt(telnet, Head(toClient).opt, Head(toClient).on)
    /\ UNCHANGED <<srv, srvSize, asked, resized>>

\* The user resizes the window.
Resize(n) ==
    /\ n # telnet.size
    /\ resized < MaxResize
    /\ resized' = resized + 1
    /\ telnet' = telnet_size(telnet, n)
    /\ UNCHANGED <<toClient, srv, srvSize, asked>>

Taken == telnet' = [telnet EXCEPT !.out = Tail(@)]

\* What the server may say, and its next state, when told that o is to be on.
Reply(o, on, answer, next) ==
    \/ srv[o] = "off" /\ on /\ answer \in {<<Cmd(o, TRUE)>>, <<Cmd(o, FALSE)>>}
       /\ next = IF Head(answer).on THEN "on" ELSE "off"
    \/ srv[o] = "on" /\ ~on /\ answer = <<Cmd(o, FALSE)>> /\ next = "off"
    \/ srv[o] = "wantOn" /\ answer = <<>> /\ next = IF on THEN "on" ELSE "off"
    \/ srv[o] = "wantOff" /\ ~on /\ answer = <<>> /\ next = "off"
    \/ <<srv[o], on>> \in {<<"off", FALSE>>, <<"on", TRUE>>, <<"wantOff", TRUE>>}
       /\ answer = <<>> /\ next = srv[o]

ServerReceives ==
    /\ telnet.out # <<>>
    /\ Taken
    /\ LET m == Head(telnet.out) IN
       \/ /\ m.kind = "opt" /\ m.opt \in Subject
          /\ \E answer \in {<<>>, <<Cmd(m.opt, TRUE)>>, <<Cmd(m.opt, FALSE)>>},
                next \in {"off", "on", "wantOn", "wantOff"} :
                /\ Reply(m.opt, m.on, answer, next)
                /\ srv' = [srv EXCEPT ![m.opt] = next]
                /\ toClient' = toClient \o answer
          /\ UNCHANGED srvSize
       \/ /\ m.kind = "opt" /\ m.opt \notin Subject
          /\ UNCHANGED <<toClient, srv, srvSize>>
       \/ /\ m.kind = "naws"
          /\ srvSize' = IF "NAWS" \in Subject /\ srv["NAWS"] = "on" THEN m.size ELSE srvSize
          /\ UNCHANGED <<toClient, srv>>
    /\ UNCHANGED <<asked, resized>>

\* The server asks for a change of its own accord.
ServerAsks(o) ==
    /\ asked < MaxAsk
    /\ asked' = asked + 1
    /\ \/ srv[o] = "off" /\ srv' = [srv EXCEPT ![o] = "wantOn"]
          /\ toClient' = Append(toClient, Cmd(o, TRUE))
       \/ srv[o] = "on" /\ srv' = [srv EXCEPT ![o] = "wantOff"]
          /\ toClient' = Append(toClient, Cmd(o, FALSE))
    /\ UNCHANGED <<telnet, srvSize, resized>>

Next ==
    \/ ClientReceives
    \/ ServerReceives
    \/ \E o \in Subject : ServerAsks(o)
    \/ \E n \in Sizes : Resize(n)

Spec == Init /\ [][Next]_vars

\* Both programs read what has arrived.
FairSpec == Spec /\ WF_vars(ClientReceives) /\ WF_vars(ServerReceives)

-----------------------------------------------------------------------------
(* Properties.                                                             *)

\* Once nothing is on its way, both ends have the same view of every option
\* and no question is open (proc_rec_opt, deactivate_option).
AgreeWhenQuiet ==
    Quiet => \A o \in Subject :
                /\ telnet.opt[o] # "REQUESTED"
                /\ srv[o] = IF telnet.opt[o] = "ACTIVE" THEN "on" ELSE "off"

\* The line discipline echoes exactly while the server has not taken over
\* echoing, and edits lines while it has not suppressed go-ahead.
EchoFollowsOption ==
    /\ telnet.echoing = (telnet.opt["ECHO"] # "ACTIVE")
    /\ telnet.editing = (telnet.opt["THEY_SGA"] # "ACTIVE")

\* "We may only have one kind of ENVIRON going at a time" (activate_option).
OneEnviron == ~(telnet.opt["OENV"] = "ACTIVE" /\ telnet.opt["NENV"] = "ACTIVE")

\* The server knows the window size once NAWS is agreed and nothing is under way.
SizeKnown == Quiet /\ telnet.opt["NAWS"] = "ACTIVE" /\ "NAWS" \in Subject
                => srvSize = telnet.size

\* Negotiation comes to an end: the ends do not answer each other for ever.
Settles == <>[]Quiet
=============================================================================
