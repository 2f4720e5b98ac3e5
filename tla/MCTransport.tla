----------------------------- MODULE MCTransport ----------------------------
(***************************************************************************)
(* The transport layer: key exchanges of two ends that cross packets and   *)
(* each other (Transport), and what makes this end start one (RekeyTimer). *)
(* Each model runs by itself, from its own initial states; system says     *)
(* which one, and the others stay where they are.                          *)
(***************************************************************************)
EXTENDS TransportLayer

VARIABLE system

transportVars == <<system, vars, timerVars>>

\* what the client and the server send
MCMaxSent == [client |-> 2, server |-> 1]

\* No rekey is wanted before the other end is up
Late == INSTANCE Transport WITH
    Methods <- {"gex"}, MaxSent <- [client |-> 1, server |-> 1], MaxRekeys <- 1,
    Resumes <- FALSE, EarlyRekey <- FALSE

\* Few settings, for liveness
RekeyLive == INSTANCE RekeyTimer WITH
    Times <- {0, 2}, Limits <- {1}, MaxQueued <- 1, SameTime <- FALSE,
    DuringLogin <- FALSE, rekey_class <- class, higher <- queued, bpp <- sending

ASSUME Late!ParamAssumption /\ Rekey!ParamAssumption /\ RekeyLive!ParamAssumption

TransportInit ==
    /\ system \in {"early", "late", "rekey", "live"}
    /\ IF system = "late" THEN Late!Init ELSE Init
    /\ system \in {"rekey", "live"} => method = "gex"
    /\ IF system = "rekey" THEN Rekey!Init ELSE RekeyLive!Init
    /\ system \in {"early", "late"} => conf.time = 0 /\ ~compression /\ ~remote_bug

KeyExchange ==
    /\ \/ system = "early" /\ Next
       \/ system = "late" /\ Late!Next
    /\ UNCHANGED <<system, timerVars>>

Timers ==
    /\ \/ system = "rekey" /\ Rekey!Next
       \/ system = "live" /\ RekeyLive!Next
    /\ UNCHANGED <<system, vars>>

TransportNext == KeyExchange \/ Timers

\* Callbacks and timers run (EventLoop, Timers), the network delivers and the
\* server answers.
TransportSpec ==
    /\ TransportInit /\ [][TransportNext]_transportVars
    /\ \A e \in Ends :
           /\ WF_vars(system = "late" /\ Live(Late!CallProcessQueue(e)))
           /\ WF_vars(system = "late" /\ Live(Late!Coroutine(e)))
           /\ WF_vars(system = "late" /\ Live(Late!HandleOutput(e)))
           /\ WF_vars(system = "late" /\ Live(Late!HandleInput(e)))
    /\ WF_timerVars(system = "live" /\ RekeyLive!ProcessQueue)
    /\ WF_timerVars(system = "live" /\ RekeyLive!Timer)
    /\ WF_timerVars(system = "live" /\ RekeyLive!StartHigherLayer)
    /\ WF_timerVars(system = "live" /\ RekeyLive!SendNewkeys)
    /\ WF_timerVars(system = "live" /\ RekeyLive!RecvNewkeys)

-----------------------------------------------------------------------------
(* Properties of the models that run.  Those that are not listed here are  *)
(* the ones of Transport and TransportLayer.                               *)

\* Unless a rekey is wanted before the other end is up, every key exchange
\* that starts comes to its end, also when both ends start one at the same time
\* or want another one meanwhile (process_queue, filter_queue).
KexCompletesLate ==
    \A e \in Ends : (system = "late" /\ kex_in_progress[e]) ~> ~kex_in_progress[e]

\* "Now our end of the key exchange is complete, we can send all our queued
\* higher-layer packets": no packet waits in pq_out_higher for ever.
EverythingDeliveredLate ==
    \A e \in Ends : (system = "late" /\ pq_out_higher[e] # <<>>) ~> (pq_out_higher[e] = <<>>)

\* A key exchange that the user asks for after login is carried out
\* (ssh2_transport_special_cmd).
RequestHonoured == (system = "live" /\ asked) ~> ~asked

\* Changed cipher settings come into use (ssh2_transport_reconfigure).
ChangedSettingsUsed == (system = "live" /\ stale /\ ~remote_bug) ~> ~stale

\* Key exchanges that the user's requests and settings call for take place,
\* every one that starts ends, and what waited for it is sent.
KexHappens ==
    KexCompletesLate /\ EverythingDeliveredLate /\ RequestHonoured /\ ChangedSettingsUsed

=============================================================================
