---------------------------- MODULE MCSshSocket ----------------------------
(***************************************************************************)
(* The SSH session between its socket and its login: the flow of input and *)
(* output (SshSocket), and user authentication (UserAuth).  Each model     *)
(* runs by itself, from its own initial states; system says which one, and *)
(* the other stays where it is.                                            *)
(***************************************************************************)
EXTENDS SshSocket, Logins

VARIABLES system

\* What the server sends: packets that fit in MaxBacklog = 1 but for their
\* length field, with a key exchange between them.
Data(n) == [len |-> n, kind |-> "data"]
NewKeys == [len |-> 1, kind |-> "newkeys"]
ShortPackets == <<Data(2), NewKeys, Data(2)>>

\* A packet that is longer than MaxBacklog, even without its length field.
LongPacket == <<Data(1), Data(5)>>

\* A user at a terminal with keys in the agent, who may try another name; an
\* encrypted key file with GSSAPI; a plain one that the agent may have as well;
\* and one who has only a public key, and passwords.
Plain == [agent |-> 0, file |-> "none", user |-> TRUE, change |-> FALSE, dialog |-> TRUE,
          banner |-> TRUE, can |-> {"ki", "gssapi", "keyex"}]
Users == {[Plain EXCEPT !.agent = 2, !.user = FALSE, !.change = TRUE, !.dialog = FALSE, !.can = {"ki"}],
          [Plain EXCEPT !.agent = 1, !.file = "encrypted", !.can = {"gssapi", "keyex"}],
          [Plain EXCEPT !.agent = 2, !.file = "plain", !.banner = FALSE],
          [Plain EXCEPT !.user = FALSE, !.file = "public"]}

\* What the server lets the user go on with
MethodsLeft == {{"publickey", "password", "ki", "gssapi", "keyex"},
                {"password"}, {"publickey", "ki"}}

ASSUME Login!LoginAssumption

SessionInit ==
    \/ system = "socket" /\ Init /\ Login!Init /\ conf.file = "public"
    \/ system = "login" /\ Init /\ Login!Init

SocketNext == system = "socket" /\ Next /\ UNCHANGED <<system, loginVars>>

LoginNext == system = "login" /\ Login!Next /\ UNCHANGED <<system, vars>>

SessionNext == SocketNext \/ LoginNext

\* The fairness of the two models
SessionSpec ==
    /\ SessionInit /\ [][SessionNext]_<<system, vars, loginVars>>
    /\ WF_vars(system = "socket" /\ Step(RunCallback))
    /\ WF_vars(system = "socket" /\ Step(ssh_receive))
    /\ WF_vars(system = "socket" /\ Step(ssh_closing))
    /\ WF_vars(system = "socket" /\ Step(ssh_sent))
    /\ WF_vars(system = "socket" /\ Step(ssh_throttle_conn(-1)))
    /\ WF_loginVars(system = "login" /\ Login!ProcessQueue)
    /\ WF_loginVars(system = "login" /\ Login!Coroutine)
    /\ WF_loginVars(system = "login" /\ Login!Deliver)
    /\ WF_loginVars(system = "login" /\ Login!AgentAnswers)
    /\ WF_loginVars(system = "login" /\ Login!ServerAnswers)

-----------------------------------------------------------------------------

\* Everything the server sends reaches the layers, everything the session
\* writes is sent, and local input is not left throttled, unless the session is
\* ended first (ssh_receive, ssh_sent and the callbacks between).
EverythingMoves == (system = "socket") => (EverythingProcessed /\ EverythingSent)

\* The login ends, or asks the user again and again, or the server goes on
\* sending keyboard-interactive requests without prompts: every other method
\* that needs no user is tried a bounded number of times
\* (ssh2_userauth_process_queue).
LoginEnds == (system = "login") => Login!LoginEnds
=============================================================================
