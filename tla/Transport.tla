------------------------------ MODULE Transport ------------------------------
(***************************************************************************)
(* The SSH-2 transport layer (ssh2transport.c, ssh2kex-client.c,           *)
(* ssh2kex-server.c) at both ends of a connection, with the part of the    *)
(* BPP (ssh2bpp.c) it works with: key exchanges, the switch of keys in     *)
(* both directions, the queue that holds back the packets of the higher    *)
(* layer meanwhile, and rekeys asked for by either end at any time.        *)
(*                                                                         *)
(* ssh2_transport_process_queue is a coroutine. pc says where it waits, or *)
(* what it does next while it runs; a call that was scheduled runs from    *)
(* where the last one stopped until it has to wait, one action for each    *)
(* stretch between two waits. The two ends only share the wire.            *)
(*                                                                         *)
(* Keys are counted: an end that has switched its outgoing keys n times    *)
(* encrypts under key n, and a packet under another key than the receiver  *)
(* expects cannot be decrypted.                                            *)
(***************************************************************************)
EXTENDS Naturals, Sequences

CONSTANTS
    Methods,        \* key exchange methods that may be agreed on
    MaxSent,        \* bound: packets the higher layer of each end sends
    MaxRekeys,      \* bound: rekeys each end asks for
    Resumes,        \* the higher layer sends while NEWKEYS is awaited
    EarlyRekey      \* a rekey may be wanted before the other end is up

ASSUME ParamAssumption ==
    /\ Methods \subseteq {"dh", "gex", "rsa"}
    /\ Methods # {}
    /\ MaxSent \in [{"client", "server"} -> Nat]
    /\ MaxRekeys \in Nat
    /\ Resumes \in BOOLEAN
    /\ EarlyRekey \in BOOLEAN

Ends == {"client", "server"}

Peer(e) == IF e = "client" THEN "server" ELSE "client"

VARIABLES
    pc,                 \* where the coroutine is
    running,            \* process_queue is on the stack
    scheduled,          \* ic_process_queue or ic_pq_out_higher is queued
    kex_in_progress,
    kexstep,            \* next message of the key exchange method
    rekey_class,        \* a rekey is wanted (RK_NONE or not)
    deferred_rekey,     \* deferred_rekey_reason is set
    higher_layer_ok,
    in_pq, out_pq, pq_out_higher,
    wire,               \* encrypted packets sent by each end
    outkey, inkey,      \* keys in use
    pending_newkeys,    \* the BPP waits for new incoming keys
    method,             \* of the n-th key exchange, as the KEXINITs settle it
    higher,             \* higher-layer packets each end has got, by number
    sent,               \* higher-layer packets each end has pushed
    rekeys,             \* history, against MaxRekeys
    fault               \* the session has died

vars == <<pc, running, scheduled, kex_in_progress, kexstep, rekey_class, deferred_rekey,
          higher_layer_ok, in_pq, out_pq, pq_out_higher, wire, outkey, inkey, pending_newkeys,
          method, higher, sent, rekeys, fault>>

queues == <<in_pq, out_pq, pq_out_higher>>
bpp == <<wire, outkey, inkey, pending_newkeys>>
user == <<sent, rekeys>>

\* The messages of a key exchange method in their order, by sender.
Exchange(m) ==
    CASE m = "dh"  -> <<"client", "server">>
      [] m = "gex" -> <<"client", "server", "client", "server">>
      [] m = "rsa" -> <<"server", "client", "server">>

Packet == [type : {"KEXINIT", "KEX", "NEWKEYS", "SERVICE", "higher"}, n : Nat]

Msg(type) == [type |-> type, n |-> 0]

Init ==
    /\ pc = [e \in Ends |-> "begin_key_exchange"]
    /\ running = [e \in Ends |-> FALSE]
    /\ scheduled = [e \in Ends |-> TRUE]
    /\ kex_in_progress = [e \in Ends |-> FALSE]
    /\ kexstep = [e \in Ends |-> 1]
    /\ rekey_class = [e \in Ends |-> FALSE]
    /\ deferred_rekey = [e \in Ends |-> FALSE]
    /\ higher_layer_ok = [e \in Ends |-> FALSE]
    /\ in_pq = [e \in Ends |-> <<>>]
    /\ out_pq = [e \in Ends |-> <<>>]
    /\ pq_out_higher = [e \in Ends |-> <<>>]
    /\ wire = [e \in Ends |-> <<>>]
    /\ outkey = [e \in Ends |-> 0]
    /\ inkey = [e \in Ends |-> 0]
    /\ pending_newkeys = [e \in Ends |-> FALSE]
    /\ method \in Methods
    /\ higher = [e \in Ends |-> <<>>]
    /\ sent = [e \in Ends |-> 0]
    /\ rekeys = [e \in Ends |-> 0]
    /\ fault = FALSE

TypeOK ==
    /\ pc \in [Ends -> {"begin_key_exchange", "kexinit", "kex", "newkeys", "service",
                         "service_wait", "idle"}]
    /\ running \in [Ends -> BOOLEAN]
    /\ scheduled \in [Ends -> BOOLEAN]
    /\ kex_in_progress \in [Ends -> BOOLEAN]
    /\ kexstep \in [Ends -> 1 .. Len(Exchange(method)) + 1]
    /\ rekey_class \in [Ends -> BOOLEAN]
    /\ deferred_rekey \in [Ends -> BOOLEAN]
    /\ higher_layer_ok \in [Ends -> BOOLEAN]
    /\ in_pq \in [Ends -> Seq(Packet)]
    /\ out_pq \in [Ends -> Seq(Packet)]
    /\ pq_out_higher \in [Ends -> Seq(Packet)]
    /\ wire \in [Ends -> Seq([pkt : Packet, key : Nat])]
    /\ outkey \in [Ends -> Nat]
    /\ inkey \in [Ends -> Nat]
    /\ pending_newkeys \in [Ends -> BOOLEAN]
    /\ method \in Methods
    /\ higher \in [Ends -> Seq(Nat)]
    /\ sent \in [Ends -> Nat]
    /\ rekeys \in [Ends -> 0 .. MaxRekeys]
    /\ fault \in BOOLEAN

-----------------------------------------------------------------------------

\* ssh2_transport_filter_queue passes on what precedes the first transport
\* packet. Before the higher layer is up it may not pass on anything.
FilterLength(q) ==
    LET transport == {i \in DOMAIN q : q[i].type # "higher"}
    IN IF transport = {} THEN Len(q)
       ELSE (CHOOSE i \in transport : \A j \in transport : i <= j) - 1

Premature(e) == ~higher_layer_ok[e] /\ FilterLength(in_pq[e]) > 0

Filtered(e) == [i \in 1 .. FilterLength(in_pq[e]) |-> in_pq[e][i].n]

Rest(e) == SubSeq(in_pq[e], FilterLength(in_pq[e]) + 1, Len(in_pq[e]))

\* ssh_proto_error: the session ends.
ProtoError ==
    /\ fault' = TRUE
    /\ UNCHANGED <<pc, running, scheduled, kex_in_progress, kexstep, rekey_class, deferred_rekey,
                   higher_layer_ok, queues, bpp, method, higher, user>>

\* The layer is called. Packets for the higher layer are filtered off at once.
CallProcessQueue(e) ==
    /\ scheduled[e] /\ ~running[e]
    /\ IF Premature(e) THEN ProtoError
       ELSE /\ scheduled' = [scheduled EXCEPT ![e] = FALSE]
            /\ running' = [running EXCEPT ![e] = TRUE]
            /\ higher' = [higher EXCEPT ![e] = @ \o Filtered(e)]
            /\ in_pq' = [in_pq EXCEPT ![e] = Rest(e)]
            /\ UNCHANGED <<pc, kex_in_progress, kexstep, rekey_class, deferred_rekey,
                           higher_layer_ok, out_pq, pq_out_higher, bpp, method, user, fault>>

At(e, place) == running[e] /\ pc[e] = place

\* ssh2_transport_pop. All of the queue that could be filtered has been, since
\* the packets that follow a popped one are filtered before they are looked at.
NothingToPop(e) == ~Premature(e) /\ Rest(e) = <<>>

\* The coroutine waits for a packet.
Wait(e) ==
    /\ \E place \in {"kexinit", "kex", "newkeys", "service_wait"} : At(e, place)
    /\ pc[e] = "kex" => /\ kexstep[e] <= Len(Exchange(method))
                        /\ Exchange(method)[kexstep[e]] = Peer(e)
    /\ NothingToPop(e)
    /\ running' = [running EXCEPT ![e] = FALSE]
    /\ higher' = [higher EXCEPT ![e] = @ \o Filtered(e)]
    /\ in_pq' = [in_pq EXCEPT ![e] = <<>>]
    /\ UNCHANGED <<pc, scheduled, kex_in_progress, kexstep, rekey_class, deferred_rekey,
                   higher_layer_ok, out_pq, pq_out_higher, bpp, method, user, fault>>

\* A packet is popped; Proceed says what the coroutine does with one of the
\* expected type.
Pop(e, type, Proceed) ==
    /\ ~NothingToPop(e)
    /\ IF Premature(e) \/ Head(Rest(e)).type # type THEN ProtoError
       ELSE /\ higher' = [higher EXCEPT ![e] = @ \o Filtered(e)]
            /\ in_pq' = [in_pq EXCEPT ![e] = Tail(Rest(e))]
            /\ Proceed

Goto(e, place) == pc' = [pc EXCEPT ![e] = place]

Push(e, type) == out_pq' = [out_pq EXCEPT ![e] = Append(@, Msg(type))]

\* begin_key_exchange: our KEXINIT is sent.
BeginKeyExchange(e) ==
    /\ At(e, "begin_key_exchange")
    /\ Push(e, "KEXINIT")
    /\ kex_in_progress' = [kex_in_progress EXCEPT ![e] = TRUE]
    /\ Goto(e, "kexinit")
    /\ UNCHANGED <<running, scheduled, kexstep, rekey_class, deferred_rekey, higher_layer_ok,
                   in_pq, pq_out_higher, bpp, method, higher, user, fault>>

\* The other side's KEXINIT settles the algorithms. A user who aborts at a
\* warning ends the session.
RecvKexinit(e) ==
    /\ At(e, "kexinit")
    /\ Pop(e, "KEXINIT",
           /\ kexstep' = [kexstep EXCEPT ![e] = 1]
           /\ Goto(e, "kex")
           /\ UNCHANGED <<running, scheduled, kex_in_progress, rekey_class, deferred_rekey,
                          higher_layer_ok, out_pq, pq_out_higher, bpp, method, user, fault>>)

\* ssh2kex_coroutine sends a message of the method.
KexSend(e) ==
    /\ At(e, "kex")
    /\ kexstep[e] <= Len(Exchange(method))
    /\ Exchange(method)[kexstep[e]] = e
    /\ Push(e, "KEX")
    /\ kexstep' = [kexstep EXCEPT ![e] = @ + 1]
    /\ UNCHANGED <<pc, running, scheduled, kex_in_progress, rekey_class, deferred_rekey,
                   higher_layer_ok, in_pq, pq_out_higher, bpp, method, higher, user, fault>>

\* ssh2kex_coroutine gets one.
KexRecv(e) ==
    /\ At(e, "kex")
    /\ kexstep[e] <= Len(Exchange(method))
    /\ Exchange(method)[kexstep[e]] = Peer(e)
    /\ Pop(e, "KEX",
           /\ kexstep' = [kexstep EXCEPT ![e] = @ + 1]
           /\ UNCHANGED <<pc, running, scheduled, kex_in_progress, rekey_class, deferred_rekey,
                          higher_layer_ok, out_pq, pq_out_higher, bpp, method, user, fault>>)

\* The BPP turns packets into wire format under the current key.
Encrypted(e, q) == [i \in DOMAIN q |-> [pkt |-> q[i], key |-> outkey[e]]]

BUG2SendNewkeys(e) ==
    /\ At(e, "kex")
    /\ kexstep[e] > Len(Exchange(method))
    /\ wire' = [wire EXCEPT ![e] = @ \o Encrypted(e, Append(out_pq[e], Msg("NEWKEYS")))]
    /\ outkey' = [outkey EXCEPT ![e] = @ + 1]
    /\ out_pq' = [out_pq EXCEPT ![e] = <<>>]
    /\ pq_out_higher' = [pq_out_higher EXCEPT ![e] = <<>>]
    /\ Goto(e, "newkeys")
    /\ UNCHANGED <<inkey, pending_newkeys, running, scheduled, kex_in_progress, kexstep,
                   rekey_class, deferred_rekey, higher_layer_ok, in_pq, method, higher, user,
                   fault>>

\* The method is complete: NEWKEYS is sent, everything up to it is marshalled
\* before the keys change, and the higher layer's packets follow.
SendNewkeys(e) ==
    /\ At(e, "kex")
    /\ kexstep[e] > Len(Exchange(method))
    /\ wire' = [wire EXCEPT ![e] = @ \o Encrypted(e, Append(out_pq[e], Msg("NEWKEYS")))]
    /\ outkey' = [outkey EXCEPT ![e] = @ + 1]
    /\ out_pq' = [out_pq EXCEPT ![e] = pq_out_higher[e]]
    /\ pq_out_higher' = [pq_out_higher EXCEPT ![e] = <<>>]
    /\ Goto(e, "newkeys")
    /\ UNCHANGED <<inkey, pending_newkeys, running, scheduled, kex_in_progress, kexstep,
                   rekey_class, deferred_rekey, higher_layer_ok, in_pq, method, higher, user,
                   fault>>

\* NEWKEYS from the other side: the incoming keys change, the BPP goes on, and
\* the layer comes to rest unless a deferred rekey is waiting. In an ordinary
\* rekey the coroutine returns here without another look at pq_out_higher.
RecvNewkeys(e) ==
    /\ At(e, "newkeys")
    /\ Pop(e, "NEWKEYS",
           /\ inkey' = [inkey EXCEPT ![e] = @ + 1]
           /\ pending_newkeys' = [pending_newkeys EXCEPT ![e] = FALSE]
           /\ deferred_rekey' = [deferred_rekey EXCEPT ![e] = FALSE]
           /\ IF deferred_rekey[e]
              THEN /\ Goto(e, "begin_key_exchange")
                   /\ UNCHANGED <<running, kex_in_progress, rekey_class>>
              ELSE /\ kex_in_progress' = [kex_in_progress EXCEPT ![e] = FALSE]
                   /\ Goto(e, IF higher_layer_ok[e] THEN "idle" ELSE "service")
                   /\ running' = [running EXCEPT ![e] = ~higher_layer_ok[e]]
                   /\ rekey_class' = [rekey_class EXCEPT ![e] = ~higher_layer_ok[e] /\ @]
           /\ UNCHANGED <<scheduled, kexstep, higher_layer_ok, out_pq, pq_out_higher, wire, outkey,
                          method, user, fault>>)

\* The client sends SERVICE_REQUEST and then waits for SERVICE_ACCEPT; the
\* server just waits.
RequestService(e) ==
    /\ At(e, "service")
    /\ IF e = "client" THEN Push(e, "SERVICE") ELSE UNCHANGED out_pq
    /\ Goto(e, "service_wait")
    /\ UNCHANGED <<running, scheduled, kex_in_progress, kexstep, rekey_class, deferred_rekey,
                   higher_layer_ok, in_pq, pq_out_higher, bpp, method, higher, user, fault>>

StartHigherLayer(e) ==
    /\ At(e, "service_wait")
    /\ Pop(e, "SERVICE",
           /\ IF e = "server" THEN Push(e, "SERVICE") ELSE UNCHANGED out_pq
           /\ higher_layer_ok' = [higher_layer_ok EXCEPT ![e] = TRUE]
           /\ rekey_class' = [rekey_class EXCEPT ![e] = FALSE]
           /\ Goto(e, "idle")
           /\ running' = [running EXCEPT ![e] = FALSE]
           /\ UNCHANGED <<scheduled, kex_in_progress, kexstep, deferred_rekey, pq_out_higher, bpp,
                          method, user, fault>>)

BUGIdle(e) ==
    /\ At(e, "idle")
    /\ out_pq' = [out_pq EXCEPT ![e] = @ \o pq_out_higher[e]]
    /\ pq_out_higher' = [pq_out_higher EXCEPT ![e] = <<>>]
    /\ IF Rest(e) # <<>> /\ Head(Rest(e)).type # "KEXINIT"
       THEN fault' = TRUE /\ UNCHANGED <<higher, in_pq, scheduled, pc, running>>
       ELSE /\ higher' = [higher EXCEPT ![e] = @ \o Filtered(e)]
            /\ in_pq' = [in_pq EXCEPT ![e] = IF @ = <<>> THEN @ ELSE Tail(Rest(e))]
            /\ scheduled' = [scheduled EXCEPT ![e] = @ \/ Rest(e) # <<>>]
            /\ IF Rest(e) # <<>> \/ rekey_class[e]
               THEN Goto(e, "begin_key_exchange") /\ UNCHANGED running
               ELSE running' = [running EXCEPT ![e] = FALSE] /\ UNCHANGED pc
            /\ UNCHANGED fault
    /\ UNCHANGED <<kex_in_progress, kexstep, rekey_class, deferred_rekey, higher_layer_ok, bpp,
                   method, user>>

\* The main loop: packets are passed through in both directions until either
\* side wants a rekey. A KEXINIT is pushed back, for the key exchange to pop.
Idle(e) ==
    /\ At(e, "idle")
    /\ out_pq' = [out_pq EXCEPT ![e] = @ \o pq_out_higher[e]]
    /\ pq_out_higher' = [pq_out_higher EXCEPT ![e] = <<>>]
    /\ IF Rest(e) # <<>> /\ Head(Rest(e)).type # "KEXINIT"
       THEN fault' = TRUE /\ UNCHANGED <<higher, in_pq, scheduled, pc, running>>
       ELSE /\ higher' = [higher EXCEPT ![e] = @ \o Filtered(e)]
            /\ in_pq' = [in_pq EXCEPT ![e] = Rest(e)]
            /\ scheduled' = [scheduled EXCEPT ![e] = @ \/ Rest(e) # <<>>]
            /\ IF Rest(e) # <<>> \/ rekey_class[e]
               THEN Goto(e, "begin_key_exchange") /\ UNCHANGED running
               ELSE running' = [running EXCEPT ![e] = FALSE] /\ UNCHANGED pc
            /\ UNCHANGED fault
    /\ UNCHANGED <<kex_in_progress, kexstep, rekey_class, deferred_rekey, higher_layer_ok, bpp,
                   method, user>>

-----------------------------------------------------------------------------

\* The higher layer pushes a packet, which schedules the transport layer.
HigherLayerSend(e) ==
    /\ higher_layer_ok[e] /\ ~running[e]
    /\ sent[e] < MaxSent[e]
    /\ pc[e] = "newkeys" => Resumes
    /\ sent' = [sent EXCEPT ![e] = @ + 1]
    /\ pq_out_higher' = [pq_out_higher EXCEPT ![e] = Append(@, [type |-> "higher", n |-> sent[e] + 1])]
    /\ scheduled' = [scheduled EXCEPT ![e] = TRUE]
    /\ UNCHANGED <<pc, running, kex_in_progress, kexstep, rekey_class, deferred_rekey,
                   higher_layer_ok, in_pq, out_pq, bpp, method, higher, rekeys, fault>>

\* The user, the timer, the data limit or a new configuration wants a rekey.
\* During a key exchange only a change of the configuration is remembered.
WantRekey(e) ==
    /\ higher_layer_ok[e] /\ ~running[e]
    /\ rekeys[e] < MaxRekeys
    /\ EarlyRekey \/ higher_layer_ok[Peer(e)]
    /\ rekeys' = [rekeys EXCEPT ![e] = @ + 1]
    /\ IF kex_in_progress[e]
       THEN /\ deferred_rekey' = [deferred_rekey EXCEPT ![e] = TRUE]
            /\ UNCHANGED <<rekey_class, scheduled>>
       ELSE /\ rekey_class' = [rekey_class EXCEPT ![e] = TRUE]
            /\ scheduled' = [scheduled EXCEPT ![e] = TRUE]
            /\ UNCHANGED deferred_rekey
    /\ UNCHANGED <<pc, running, kex_in_progress, kexstep, higher_layer_ok, queues, bpp, method,
                   higher, sent, fault>>

\* ssh2_bpp_handle_output, which any push on out_pq schedules.
HandleOutput(e) ==
    /\ ~running[e]
    /\ out_pq[e] # <<>>
    /\ wire' = [wire EXCEPT ![e] = @ \o Encrypted(e, out_pq[e])]
    /\ out_pq' = [out_pq EXCEPT ![e] = <<>>]
    /\ UNCHANGED <<pc, running, scheduled, kex_in_progress, kexstep, rekey_class, deferred_rekey,
                   higher_layer_ok, in_pq, pq_out_higher, outkey, inkey, pending_newkeys, method,
                   higher, user, fault>>

BUGHandleInput(e) ==
    LET arrived == Head(wire[Peer(e)]) IN
    /\ ~running[e]
    /\ wire[Peer(e)] # <<>>
    /\ wire' = [wire EXCEPT ![Peer(e)] = Tail(@)]
    /\ IF arrived.key # inkey[e]
       THEN fault' = TRUE /\ UNCHANGED <<in_pq, scheduled, pending_newkeys>>
       ELSE /\ in_pq' = [in_pq EXCEPT ![e] = Append(@, arrived.pkt)]
            /\ scheduled' = [scheduled EXCEPT ![e] = TRUE]
            /\ UNCHANGED <<pending_newkeys, fault>>
    /\ UNCHANGED <<pc, running, kex_in_progress, kexstep, rekey_class, deferred_rekey,
                   higher_layer_ok, out_pq, pq_out_higher, outkey, inkey, method, higher, user>>

\* ssh2_bpp_handle_input takes a packet from the wire, and nothing after NEWKEYS
\* until there are new keys.
HandleInput(e) ==
    LET arrived == Head(wire[Peer(e)]) IN
    /\ ~running[e] /\ ~pending_newkeys[e]
    /\ wire[Peer(e)] # <<>>
    /\ wire' = [wire EXCEPT ![Peer(e)] = Tail(@)]
    /\ IF arrived.key # inkey[e]
       THEN fault' = TRUE /\ UNCHANGED <<in_pq, scheduled, pending_newkeys>>
       ELSE /\ in_pq' = [in_pq EXCEPT ![e] = Append(@, arrived.pkt)]
            /\ scheduled' = [scheduled EXCEPT ![e] = TRUE]
            /\ pending_newkeys' = [pending_newkeys EXCEPT ![e] = arrived.pkt.type = "NEWKEYS"]
            /\ UNCHANGED fault
    /\ UNCHANGED <<pc, running, kex_in_progress, kexstep, rekey_class, deferred_rekey,
                   higher_layer_ok, out_pq, pq_out_higher, outkey, inkey, method, higher, user>>

Coroutine(e) ==
    \/ Wait(e)
    \/ BeginKeyExchange(e)
    \/ RecvKexinit(e)
    \/ KexSend(e)
    \/ KexRecv(e)
    \/ SendNewkeys(e)
    \/ RecvNewkeys(e)
    \/ RequestService(e)
    \/ StartHigherLayer(e)
    \/ Idle(e)

Next ==
    /\ ~fault
    /\ \E e \in Ends :
           \/ CallProcessQueue(e)
           \/ Coroutine(e)
           \/ HigherLayerSend(e)
           \/ WantRekey(e)
           \/ HandleOutput(e)
           \/ HandleInput(e)

Spec == Init /\ [][Next]_vars

Live(A) == ~fault /\ A

\* Callbacks run (EventLoop), and the network delivers.
FairSpec ==
    /\ Spec
    /\ \A e \in Ends :
           /\ WF_vars(Live(CallProcessQueue(e)))
           /\ WF_vars(Live(Coroutine(e)))
           /\ WF_vars(Live(HandleOutput(e)))
           /\ WF_vars(Live(HandleInput(e)))

-----------------------------------------------------------------------------

\* Neither end ever meets a packet it does not expect or cannot decrypt: the
\* keys of both directions change at the same packet at both ends, and every
\* ordering of KEXINITs that cross, deferred rekeys and packets on the way is
\* handled. This is what forcing the BPP to marshal NEWKEYS before the switch,
\* and stopping it behind NEWKEYS, are for.
NoUnexpectedPacket == ~fault

Plain(w) == [i \in DOMAIN w |-> w[i].pkt]

\* What e has sent and the other end has not looked at yet.
Underway(e) == in_pq[Peer(e)] \o Plain(wire[e]) \o out_pq[e]

\* Between KEXINIT and NEWKEYS an end sends nothing but the key exchange: the
\* packets of the higher layer wait in pq_out_higher. So whoever has seen a
\* KEXINIT, or will see one, next sees NEWKEYS before any of them.
NothingDuringKex ==
    \A e \in Ends : \A j \in DOMAIN Underway(e) :
        /\ Underway(e)[j].type = "higher"
        /\ \/ pc[Peer(e)] \in {"kex", "newkeys"}
           \/ \E i \in 1 .. j : Underway(e)[i].type = "KEXINIT"
        => \E k \in 1 .. j : /\ Underway(e)[k].type = "NEWKEYS"
                             /\ \A i \in k .. j : Underway(e)[i].type # "KEXINIT"

\* Both ends change keys at the same packet: neither gets one that it does not
\* expect, and no other packet is sent in the middle of a key exchange.
KeysAgree == TypeOK /\ NoUnexpectedPacket /\ NothingDuringKex

\* The numbers of the higher-layer packets among those of q, in their order.
HigherNumbers(q) ==
    LET h[i \in 0 .. Len(q)] ==
            IF i = 0 THEN <<>>
            ELSE IF q[i].type = "higher" THEN Append(h[i - 1], q[i].n)
            ELSE h[i - 1]
    IN  h[Len(q)]

\* The packets of e's higher layer that the other end's has not got yet.
InTransit(e) == HigherNumbers(Underway(e) \o pq_out_higher[e])

Stream == INSTANCE PacketStream WITH
    transit <- [e \in Ends |-> InTransit(e)],
    delivered <- [e \in Ends |-> higher[Peer(e)]]

\* The higher layers see an ordered, lossless stream of packets, as if there
\* were no key exchanges.
ImplementsStream == Stream!Spec

\* Every key exchange that starts comes to its end, also when both ends start
\* one at the same time or want another one meanwhile.
KexCompletes == \A e \in Ends : kex_in_progress[e] ~> ~kex_in_progress[e]

\* ssh2transport.c, at the end of a key exchange: "Now our end of the key
\* exchange is complete, we can send all our queued higher-layer packets": no
\* packet waits in pq_out_higher for ever.
EverythingDelivered ==
    \A e \in Ends : (pq_out_higher[e] # <<>>) ~> (pq_out_higher[e] = <<>>)
=============================================================================
