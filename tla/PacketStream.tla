---------------------------- MODULE PacketStream ----------------------------
(***************************************************************************)
(* What the SSH-2 transport layer promises to the layers above it: in each *)
(* direction the packets that one end pushes reach the other end once and  *)
(* in the order in which they were pushed, whatever key exchanges take     *)
(* place meanwhile. A stop for good (a protocol error) is always allowed.  *)
(***************************************************************************)
EXTENDS Naturals, Sequences

CONSTANT Ends       \* the two ends of the connection

VARIABLES
    transit,        \* packets of each sender that are on their way
    delivered       \* packets of each sender that the other end has got

svars == <<transit, delivered>>

Init ==
    /\ transit = [e \in Ends |-> <<>>]
    /\ delivered = [e \in Ends |-> <<>>]

\* The packets of e are numbered as they are pushed.
Send(e) ==
    /\ transit' = [transit EXCEPT
           ![e] = Append(@, Len(delivered[e]) + Len(transit[e]) + 1)]
    /\ UNCHANGED delivered

\* Some of the packets of e arrive.
Deliver(e) ==
    \E n \in 1 .. Len(transit[e]) :
        /\ delivered' = [delivered EXCEPT ![e] = @ \o SubSeq(transit[e], 1, n)]
        /\ transit' = [transit EXCEPT ![e] = SubSeq(@, n + 1, Len(@))]

Next == \E e \in Ends : Send(e) \/ Deliver(e)

Spec == Init /\ [][Next]_svars
=============================================================================
