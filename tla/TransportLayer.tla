--------------------------- MODULE TransportLayer ---------------------------
(***************************************************************************)
(* The transport layer: key exchanges of two ends (Transport), which is    *)
(* extended, and what makes an end start one (RekeyTimer).                 *)
(***************************************************************************)
EXTENDS Transport

CONSTANTS Times, Limits, MaxQueued, SameTime, DuringLogin

VARIABLES conf, max_data_size, stats, class, deferred, kex, login, compression,
          remote_bug, callback, queued, sending, batch, since, left, count, stale, asked

timerVars == <<conf, max_data_size, stats, class, deferred, kex, login, compression,
               remote_bug, callback, queued, sending, batch, since, left, count, stale, asked>>

Rekey == INSTANCE RekeyTimer WITH rekey_class <- class, higher <- queued, bpp <- sending

\* No reason to rekey is lost: timed rekeys are in time, changed settings are
\* remembered, and the counters, which stay exact, keep the data limit
\* (ssh2_transport_timer, ssh2_transport_reconfigure, dts_consume).
RekeysKept == Rekey!RekeysKept
=============================================================================
