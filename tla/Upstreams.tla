------------------------------ MODULE Upstreams -----------------------------
(***************************************************************************)
(* The processes that share connections (ShareSocket), under a prefix of   *)
(* their own, so that what one of them does as an upstream, or with its    *)
(* socket, can stand beside them.                                          *)
(***************************************************************************)

CONSTANTS Processes, CanUpstream, CanDownstream, MayEnd, MayCrash

VARIABLES pc, fs, lockfd, locked, salt, peer, accepted, ended

processVars == <<pc, fs, lockfd, locked, salt, peer, accepted, ended>>

Sharing == INSTANCE ShareSocket

\* Processes that start, crash and end at any moment find one another: they
\* look in the same place, a downstream has an upstream, and until an upstream
\* ends in good order there is at most one, which can be found
\* (platform_ssh_share).
UpstreamFound == Sharing!UpstreamFound
=============================================================================
