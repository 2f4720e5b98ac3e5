------------------------------- MODULE Logins -------------------------------
(***************************************************************************)
(* User authentication (UserAuth), under a prefix of its own, so that the  *)
(* login can stand beside the session's socket.                            *)
(***************************************************************************)

CONSTANTS Settings, MethodSets, Banners, BannerLimit, MaxTyped, GssFaults, LateErrtok

VARIABLES conf, state, wake, queue, user_input, banner, trust, agent, up, down, server, banners

loginVars == <<conf, state, wake, queue, user_input, banner, trust, agent, up, down, server, banners>>

Login == INSTANCE UserAuth WITH s <- state, callback <- wake, in_pq <- queue

\* While logging in, every reply is taken for the request that it answers, the
\* layer waits only for what will come and is woken by it, its own prompts are
\* never shown as the server's, banners are shown before the session starts,
\* and the agent's keys come before the password (ssh2userauth.c).
LoginSound == Login!LoginSound
=============================================================================
