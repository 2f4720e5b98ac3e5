------------------------------ MODULE UserAuth ------------------------------
(***************************************************************************)
(* The SSH-2 user authentication layer (ssh2userauth.c) against a server   *)
(* that follows RFC 4252, 4256 and 4462, a user who may type ahead, and an *)
(* agent that answers when it likes.                                       *)
(*                                                                         *)
(* The layer is one coroutine, ssh2_userauth_process_queue.  pc says where *)
(* it waits or, while running holds, which stretch of it comes next; from  *)
(* the queued callback to its return nothing is delivered to it.  Requests *)
(* and replies are reduced to their types and to the methods that a        *)
(* failure says can continue; to is the request that a reply answers.      *)
(***************************************************************************)
EXTENDS Naturals, Sequences

CONSTANTS
    Settings,     \* what the user may have configured (see SettingsType)
    MethodSets,   \* what the server may name in USERAUTH_FAILURE
    Banners,      \* banner messages that the server sends
    BannerLimit,  \* BANNER_LIMIT, in messages
    MaxTyped,     \* lines typed ahead
    GssFaults,    \* GSSAPI fails here without a reply of the server
    LateErrtok    \* the server reports an error for our last GSSAPI token

Methods == {"publickey", "password", "ki", "gssapi", "keyex"}

\* file: no key file, only the public half, a key as it is, an encrypted key.
\* user: a user name is configured.  dialog: the seat asks with dialogs (TQt)
\* and not line by line in the terminal.
SettingsType ==
    [agent : Nat, file : {"none", "public", "plain", "encrypted"},
     user : BOOLEAN, change : BOOLEAN, dialog : BOOLEAN, banner : BOOLEAN,
     can : SUBSET Methods]

LoginAssumption ==
    /\ Settings \subseteq SettingsType
    /\ MethodSets \subseteq SUBSET Methods
    /\ Banners \in Nat /\ BannerLimit \in Nat \ {0} /\ MaxTyped \in Nat
    /\ GssFaults \in BOOLEAN /\ LateErrtok \in BOOLEAN

VARIABLES
    conf,        \* the settings of this session
    s,           \* struct ssh2_userauth_state
    callback,    \* ic_process_queue is queued
    in_pq,       \* packets for this layer
    user_input,  \* what is typed: lines, and ^C
    banner,      \* messages in the banner bufchain
    trust,       \* seat_set_trust_status
    agent,       \* the agent's query: "idle", "pending", or how it was answered
    up, down,    \* packets to and from the server
    server,      \* the exchange that the server is in
    banners      \* banners still to come

vars == <<conf, s, callback, in_pq, user_input, banner, trust, agent, up, down, server, banners>>

Init ==
    /\ conf \in Settings
    /\ s = [pc |-> "start", running |-> FALSE, asked |-> "nothing", type |-> "none",
            can |-> {}, tried |-> {}, got_username |-> FALSE, key |-> 0, limit |-> 0,
            done_agent |-> FALSE, suppress_wait |-> FALSE, want_user_input |-> FALSE,
            need |-> 0, header |-> FALSE, gss |-> "first"]
    /\ callback = TRUE
    /\ in_pq = <<>> /\ up = <<>> /\ down = <<>> /\ user_input = <<>>
    /\ banner = 0 /\ trust = TRUE /\ agent = "idle"
    /\ server = "idle" /\ banners = Banners

-----------------------------------------------------------------------------
(* Packets.                                                                *)

IsBanner(p) == p.type = "banner"

\* How many banners are at the head of a queue
Leading(q) ==
    CHOOSE n \in 0..Len(q) :
        /\ \A i \in 1..n : IsBanner(q[i])
        /\ n < Len(q) => ~IsBanner(q[n + 1])

Filtered == SubSeq(in_pq, Leading(in_pq) + 1, Len(in_pq))

Least(m, n) == IF m < n THEN m ELSE n

\* Also pq_push_front of the packet that has just been popped
ssh2_userauth_filter_queue ==
    /\ in_pq' = Filtered
    /\ banner' = IF conf.banner THEN Least(banner + Leading(in_pq), BannerLimit) ELSE banner

pktin == Head(Filtered)

ssh2_userauth_pop ==
    /\ in_pq' = Tail(Filtered)
    /\ banner' = IF conf.banner THEN Least(banner + Leading(in_pq), BannerLimit) ELSE banner

Request(m) == [type |-> "request", method |-> m]

Send(p) == up' = Append(up, p)

At(l) == s.running /\ s.pc = l

\* The coroutine is at l and there is a packet for it
Got(l) == At(l) /\ Filtered # <<>>

wire == <<down, server, banners>>

Ended == [s EXCEPT !.pc = "ended", !.running = FALSE, !.want_user_input = FALSE]

-----------------------------------------------------------------------------
(* The coroutine starts and stops.                                         *)

Prompts == {"login", "passphrase", "ki_prompt", "password", "new_password"}
AgentWaits == {"identities", "sign"}
PacketWaits == {"response", "agent_offer", "file_offer", "gss_request", "gss_token",
                "gss_errtok", "ki_request", "ki_reply", "pw_reply"}
Over == s.pc \in {"granted", "ended"}

\* The callback calls ssh2_userauth_process_queue
ProcessQueue ==
    /\ callback /\ ~s.running /\ ~Over
    /\ callback' = FALSE
    /\ s' = [s EXCEPT !.running = TRUE, !.want_user_input = FALSE]
    /\ ssh2_userauth_filter_queue
    /\ UNCHANGED <<conf, user_input, trust, agent, up, wire>>

\* crReturnV: no packet, no answer of the agent or nothing typed
Wait ==
    /\ s.running
    /\ \/ s.pc \in PacketWaits /\ Filtered = <<>> /\ ~(s.pc = "response" /\ s.suppress_wait)
       \/ s.pc \in AgentWaits /\ agent = "pending"
       \/ s.pc \in Prompts /\ ~conf.dialog /\ s.need > 0 /\ user_input = <<>>
    /\ s' = [s EXCEPT !.running = FALSE, !.want_user_input = s.pc \in Prompts]
    /\ ssh2_userauth_filter_queue
    /\ UNCHANGED <<conf, callback, user_input, trust, agent, up, wire>>

\* ssh2_userauth_agent_query and the return that follows in any case
AskAgent(t) ==
    /\ agent' = "pending"
    /\ s' = [t EXCEPT !.running = FALSE]

\* One-time set-up: the agent is asked for its keys
Start ==
    /\ At("start")
    /\ IF conf.agent > 0
         THEN AskAgent([s EXCEPT !.pc = "identities"])
         ELSE s' = [s EXCEPT !.pc = "username"] /\ UNCHANGED agent
    /\ UNCHANGED <<conf, callback, in_pq, user_input, banner, trust, up, wire>>

\* With a key file, only that key is tried from the agent
Identities ==
    /\ At("identities") /\ agent # "pending"
    /\ \E range \in IF agent = "failed" THEN {<<0, 0>>}
                    ELSE IF conf.file = "none" THEN {<<0, conf.agent>>}
                    ELSE {<<i, i + 1>> : i \in 0..(conf.agent - 1)} \cup {<<0, 0>>} :
           s' = [s EXCEPT !.pc = "username", !.key = range[1], !.limit = range[2]]
    /\ agent' = "idle"
    /\ UNCHANGED <<conf, callback, in_pq, user_input, banner, trust, up, wire>>

-----------------------------------------------------------------------------
(* Prompts: seat_get_userpass_input, with a dialog or from user_input.     *)

\* The top of the outer loop
Username ==
    /\ At("username")
    /\ s' = IF conf.user \/ (s.got_username /\ ~conf.change)
              THEN [s EXCEPT !.pc = "none"]
              ELSE [s EXCEPT !.pc = "login", !.need = 1]
    /\ UNCHANGED <<conf, callback, in_pq, user_input, banner, trust, agent, up, wire>>

\* A dialog is filled in or cancelled before it returns; without prompts there
\* is none.
Dialog ==
    /\ s.running /\ s.pc \in Prompts /\ conf.dialog /\ s.need > 0
    /\ s' \in {[s EXCEPT !.need = 0], Ended}
    /\ UNCHANGED <<conf, callback, in_pq, user_input, banner, trust, agent, up, wire>>

\* term_get_userpass_input takes a line, or ^C, which ends the session
ReadLine ==
    /\ s.running /\ s.pc \in Prompts /\ ~conf.dialog /\ s.need > 0 /\ user_input # <<>>
    /\ user_input' = Tail(user_input)
    /\ s' = IF Head(user_input) = "abort" THEN Ended ELSE [s EXCEPT !.need = @ - 1]
    /\ UNCHANGED <<conf, callback, in_pq, banner, trust, agent, up, wire>>

Answered(l) == At(l) /\ s.need = 0

\* "Send an authentication request using method "none""
RequestNone ==
    /\ Answered("login") \/ At("none")
    /\ Send(Request("none"))
    /\ s' = [s EXCEPT !.pc = "response", !.asked = "none", !.type = "none", !.need = 0,
                      !.got_username = TRUE, !.done_agent = FALSE,
                      !.tried = @ \ {"file", "ki"}]
    /\ UNCHANGED <<conf, callback, in_pq, user_input, banner, trust, agent, wire>>

-----------------------------------------------------------------------------
(* The result of the last request.                                         *)

\* The server's methods and the settings make the can_foo variables
CanTry(methods) ==
    methods \cap (conf.can \cup {"publickey", "password"})

\* Banners are shown here, also when there is no packet to look at
Response ==
    /\ At("response")
    /\ banner' = 0
    /\ IF s.suppress_wait
         THEN /\ s' = [s EXCEPT !.suppress_wait = FALSE, !.pc = "choose"]
              /\ UNCHANGED in_pq
         ELSE /\ Filtered # <<>>
              /\ in_pq' = Tail(Filtered)
              /\ s' = CASE pktin.type = "success" -> [s EXCEPT !.pc = "granted", !.running = FALSE]
                        [] pktin.type = "failure" ->
                             IF ~pktin.partial /\ s.type = "password" /\ conf.change
                               THEN [s EXCEPT !.pc = "username"]
                               ELSE [s EXCEPT !.pc = "choose", !.can = CanTry(pktin.methods)]
                        [] OTHER ->
                             IF s.type = "gssapi" THEN [s EXCEPT !.pc = "choose"] ELSE Ended
    /\ UNCHANGED <<conf, callback, user_input, trust, agent, up, wire>>

\* The methods in the order in which they are tried
KeyExAuth == "keyex" \in s.can /\ "keyex" \notin s.tried
AgentKey == "publickey" \in s.can /\ ~s.done_agent /\ s.key < s.limit
FileKey == "publickey" \in s.can /\ conf.file \in {"plain", "encrypted"} /\ "file" \notin s.tried
GssAuth == "gssapi" \in s.can /\ "gssapi" \notin s.tried
KbdInter == "ki" \in s.can /\ "ki" \notin s.tried

Chosen ==
    IF KeyExAuth THEN "keyex" ELSE IF AgentKey THEN "agent" ELSE IF FileKey THEN "file"
    ELSE IF GssAuth THEN "gssapi" ELSE IF KbdInter THEN "ki"
    ELSE IF "password" \in s.can THEN "password" ELSE "nothing"

\* A request that goes out when its method is chosen, and where its reply is met
Try(m, request, next, t) ==
    /\ At("choose") /\ Chosen = m
    /\ Send(Request(request))
    /\ s' = [t EXCEPT !.pc = next, !.asked = request]
    /\ UNCHANGED <<conf, callback, in_pq, user_input, banner, trust, agent, wire>>

TryKeyEx == Try("keyex", "keyex", "response", [s EXCEPT !.type = "gssapi", !.tried = @ \cup {"keyex"}])
TryAgentKey == Try("agent", "offer", "agent_offer", [s EXCEPT !.type = "offer"])
TryFileKey == Try("file", "offer", "file_offer", [s EXCEPT !.tried = @ \cup {"file"}])
TryGss == Try("gssapi", "gssapi", "gss_request",
              [s EXCEPT !.type = "gssapi", !.tried = @ \cup {"gssapi"}, !.gss = "first"])
TryKbdInter == Try("ki", "ki", "ki_request", [s EXCEPT !.type = "ki", !.header = FALSE])

\* The password is asked for first; with nothing to try the session ends
TryPassword ==
    /\ At("choose") /\ Chosen \in {"password", "nothing"}
    /\ s' = IF Chosen = "password" THEN [s EXCEPT !.pc = "password", !.need = 1] ELSE Ended
    /\ UNCHANGED <<conf, callback, in_pq, user_input, banner, trust, agent, up, wire>>

-----------------------------------------------------------------------------
(* Public keys.                                                            *)

BUGNextKey(t) == [t EXCEPT !.pc = "response"]

\* "Do we have any keys left to try?"
NextKey(t) == [t EXCEPT !.key = @ + 1, !.done_agent = t.key + 1 >= t.limit, !.pc = "response"]

AgentOffer ==
    /\ Got("agent_offer")
    /\ IF pktin.type = "pk_ok"
         THEN ssh2_userauth_pop /\ AskAgent([s EXCEPT !.pc = "sign"])
         ELSE ssh2_userauth_filter_queue /\ s' = NextKey(s) /\ UNCHANGED agent
    /\ UNCHANGED <<conf, callback, user_input, trust, up, wire>>

BUGSigned ==
    /\ At("sign") /\ agent # "pending"
    /\ IF agent = "good"
         THEN /\ Send(Request("sign"))
              /\ s' = NextKey([s EXCEPT !.type = "publickey", !.asked = "sign"])
         ELSE s' = NextKey(s) /\ UNCHANGED up
    /\ agent' = "idle"
    /\ UNCHANGED <<conf, callback, in_pq, user_input, banner, trust, wire>>

Signed ==
    /\ At("sign") /\ agent # "pending"
    /\ IF agent = "good"
         THEN /\ Send(Request("sign"))
              /\ s' = NextKey([s EXCEPT !.type = "publickey", !.asked = "sign"])
         ELSE /\ s' = NextKey([s EXCEPT !.suppress_wait = TRUE])
              /\ UNCHANGED up
    /\ agent' = "idle"
    /\ UNCHANGED <<conf, callback, in_pq, user_input, banner, trust, wire>>

Passphrase == [s EXCEPT !.pc = "passphrase", !.need = IF conf.file = "encrypted" THEN 1 ELSE 0]

FileOffer ==
    /\ Got("file_offer")
    /\ IF pktin.type = "pk_ok"
         THEN ssh2_userauth_pop /\ s' = Passphrase
         ELSE ssh2_userauth_filter_queue /\ s' = [s EXCEPT !.pc = "response", !.type = "offer"]
    /\ UNCHANGED <<conf, callback, user_input, trust, agent, up, wire>>

\* ppk_load_f, and the signature
LoadKey ==
    /\ Answered("passphrase")
    /\ \/ /\ Send(Request("sign"))
          /\ s' = [s EXCEPT !.pc = "response", !.type = "publickey", !.asked = "sign"]
       \/ /\ conf.file = "encrypted"        \* wrong passphrase
          /\ s' = Passphrase
          /\ UNCHANGED up
       \/ /\ s' = [s EXCEPT !.pc = "response", !.suppress_wait = TRUE]
          /\ UNCHANGED up
    /\ UNCHANGED <<conf, callback, in_pq, user_input, banner, trust, agent, wire>>

-----------------------------------------------------------------------------
(* GSSAPI.                                                                 *)

\* The mechanism is agreed; then our side imports the name and gets credentials.
\* A wrong mechanism or name is not marked as a failure on our side.
GssRequest ==
    /\ Got("gss_request")
    /\ IF pktin.type = "gss_response"
         THEN /\ ssh2_userauth_pop
              /\ s' \in {[s EXCEPT !.pc = "gss_init"],
                         [s EXCEPT !.pc = "response", !.suppress_wait = TRUE]}
                        \cup {[s EXCEPT !.pc = "response"] : f \in {TRUE} \cap {GssFaults}}
         ELSE ssh2_userauth_filter_queue /\ s' = [s EXCEPT !.pc = "response"]
    /\ UNCHANGED <<conf, callback, user_input, trust, agent, up, wire>>

Token(last) == [type |-> "token", last |-> last]

\* init_sec_context, of a mechanism with at most two tokens of ours.  Its last token is followed by the MIC, and when it fails
\* the packet that was popped before is pushed back.
GssInit ==
    /\ At("gss_init")
    /\ \/ /\ s.gss = "first"
          /\ Send(Token(FALSE))
          /\ s' = [s EXCEPT !.pc = "gss_token"]
          /\ UNCHANGED in_pq
       \/ /\ up' = up \o (IF s.gss = "last" THEN <<>> ELSE <<Token(TRUE)>>) \o <<[type |-> "mic"]>>
          /\ s' = [s EXCEPT !.pc = "response"]
          /\ UNCHANGED in_pq
       \/ /\ in_pq' = <<[type |-> "token", last |-> FALSE]>> \o in_pq
          /\ s' = [s EXCEPT !.pc = "response"]
          /\ UNCHANGED up
    /\ UNCHANGED <<conf, callback, user_input, banner, trust, agent, wire>>

GssToken ==
    /\ Got("gss_token")
    /\ IF pktin.type = "failure" THEN ssh2_userauth_filter_queue ELSE ssh2_userauth_pop
    /\ s' = IF pktin.type = "token"
              THEN [s EXCEPT !.pc = "gss_init", !.gss = IF pktin.last THEN "last" ELSE "more"]
              ELSE [s EXCEPT !.pc = IF pktin.type = "errtok" THEN "gss_errtok" ELSE "response"]
    /\ UNCHANGED <<conf, callback, user_input, trust, agent, up, wire>>

\* "this packet type MUST immediately precede an ordinary USERAUTH_FAILURE"
GssErrtok ==
    /\ Got("gss_errtok")
    /\ ssh2_userauth_filter_queue
    /\ s' = IF pktin.type = "failure" THEN [s EXCEPT !.pc = "response"] ELSE Ended
    /\ UNCHANGED <<conf, callback, user_input, trust, agent, up, wire>>

-----------------------------------------------------------------------------
(* Keyboard-interactive and password.                                      *)

\* The prompts of one INFO_REQUEST; the first that shows anything gets a header
InfoRequest ==
    /\ ssh2_userauth_pop
    /\ s' = [s EXCEPT !.pc = "ki_prompt", !.need = pktin.prompts,
                      !.header = @ \/ pktin.prompts > 0]
    /\ trust' = (trust /\ (s.header \/ pktin.prompts = 0))

KiRequest ==
    /\ Got("ki_request")
    /\ \/ pktin.type = "info_request" /\ InfoRequest
       \/ /\ pktin.type # "info_request"
          /\ ssh2_userauth_filter_queue
          /\ s' = [s EXCEPT !.pc = "response", !.type = "ki_quiet", !.tried = @ \cup {"ki"}]
          /\ UNCHANGED trust
    /\ UNCHANGED <<conf, callback, user_input, agent, up, wire>>

KiResponse ==
    /\ Answered("ki_prompt")
    /\ Send([type |-> "info"])
    /\ s' = [s EXCEPT !.pc = "ki_reply"]
    /\ UNCHANGED <<conf, callback, in_pq, user_input, banner, trust, agent, wire>>

KiReply ==
    /\ Got("ki_reply")
    /\ \/ pktin.type = "info_request" /\ InfoRequest
       \/ /\ pktin.type # "info_request"
          /\ ssh2_userauth_filter_queue
          /\ s' = [s EXCEPT !.pc = "response"]
          /\ trust' = (trust \/ s.header)
    /\ UNCHANGED <<conf, callback, user_input, agent, up, wire>>

SendPassword ==
    /\ Answered("password")
    /\ Send(Request("password"))
    /\ s' = [s EXCEPT !.pc = "pw_reply", !.type = "password", !.asked = "password"]
    /\ UNCHANGED <<conf, callback, in_pq, user_input, banner, trust, agent, wire>>

\* After PASSWD_CHANGEREQ: the old password and twice the new one
PasswordReply ==
    /\ Got("pw_reply")
    /\ IF pktin.type = "changereq"
         THEN ssh2_userauth_pop /\ s' = [s EXCEPT !.pc = "new_password", !.need = 3]
         ELSE ssh2_userauth_filter_queue /\ s' = [s EXCEPT !.pc = "response"]
    /\ UNCHANGED <<conf, callback, user_input, trust, agent, up, wire>>

\* The user is asked again until the two are the same
NewPassword ==
    /\ Answered("new_password")
    /\ \/ /\ Send(Request("change"))
          /\ s' = [s EXCEPT !.pc = "pw_reply", !.asked = "change"]
       \/ s' = [s EXCEPT !.need = 3] /\ UNCHANGED up
    /\ UNCHANGED <<conf, callback, in_pq, user_input, banner, trust, agent, wire>>

Coroutine ==
    \/ Wait \/ Start \/ Identities \/ Username \/ Dialog \/ ReadLine \/ RequestNone
    \/ Response \/ TryKeyEx \/ TryAgentKey \/ TryFileKey \/ TryGss \/ TryKbdInter
    \/ TryPassword \/ AgentOffer \/ Signed \/ FileOffer \/ LoadKey
    \/ GssRequest \/ GssInit \/ GssToken \/ GssErrtok
    \/ KiRequest \/ KiResponse \/ KiReply \/ SendPassword \/ PasswordReply \/ NewPassword

-----------------------------------------------------------------------------
(* Everybody else.                                                         *)

\* ssh2_userauth_agent_callback
AgentAnswers ==
    /\ agent = "pending"
    /\ agent' \in {"good", "failed"}
    /\ callback' = TRUE
    /\ UNCHANGED <<conf, s, in_pq, user_input, banner, trust, up, wire>>

\* ssh2_userauth_got_user_input
UserTypes ==
    /\ ~conf.dialog /\ ~Over /\ ~s.running /\ Len(user_input) < MaxTyped
    /\ \E key \in {"line", "abort"} : user_input' = Append(user_input, key)
    /\ callback' = (callback \/ s.want_user_input)
    /\ UNCHANGED <<conf, s, in_pq, banner, trust, agent, up, wire>>

\* The transport layer passes a packet on
Deliver ==
    /\ ~Over /\ ~s.running /\ down # <<>>
    /\ in_pq' = Append(in_pq, Head(down))
    /\ down' = Tail(down)
    /\ callback' = TRUE
    /\ UNCHANGED <<conf, s, user_input, banner, trust, agent, up, server, banners>>

\* The connection is lost, or the user closes the session: ssh2_userauth_free
\* cancels the query of the agent.
ssh2_userauth_free ==
    /\ ~Over /\ ~s.running
    /\ s' = Ended
    /\ agent' = "idle"
    /\ callback' = FALSE
    /\ UNCHANGED <<conf, in_pq, user_input, banner, trust, up, wire>>

Success(r) == [type |-> "success", to |-> r]

Failures(r, partial) ==
    {[type |-> "failure", to |-> r, methods |-> m, partial |-> p] : m \in MethodSets, p \in partial}

InfoRequests == {[type |-> "info_request", prompts |-> n] : n \in {0, 1}}

\* The replies to a request, and the exchange that the server is in then
RequestReplies(p) ==
    LET f == {<<<<r>>, "idle">> : r \in Failures(p.method, IF p.method \in {"none", "offer"}
                                                          THEN {FALSE} ELSE BOOLEAN)}
        ok == {<<<<Success(p.method)>>, "idle">>}
    IN  CASE p.method = "offer" -> f \cup {<<<<[type |-> "pk_ok"]>>, "idle">>}
          [] p.method = "ki" -> f \cup ok \cup {<<<<r>>, "ki">> : r \in InfoRequests}
          [] p.method = "gssapi" -> f \cup {<<<<[type |-> "gss_response"]>>, "gssapi">>}
          [] p.method \in {"password", "change"} ->
                 f \cup ok \cup {<<<<[type |-> "changereq"]>>, "idle">>}
          [] OTHER -> f \cup ok

\* The replies to INFO_RESPONSE
InfoReplies ==
    {<<<<r>>, "idle">> : r \in Failures("ki", BOOLEAN) \cup {Success("ki")}}
        \cup {<<<<r>>, "ki">> : r \in InfoRequests}

\* The replies to a GSSAPI token of ours, which may be refused, and to the MIC
TokenRefusals ==
    {<<<<r>>, "idle">> : r \in Failures("gssapi", {FALSE})}
        \cup {<<<<[type |-> "errtok"], r>>, "idle">> : r \in Failures("gssapi", {FALSE})}

TokenReplies(last) ==
    IF last
      THEN {<<<<>>, "mic">>} \cup (IF LateErrtok THEN TokenRefusals ELSE {})
      ELSE TokenRefusals \cup {<<<<Token(FALSE)>>, "gssapi">>, <<<<Token(TRUE)>>, "mic">>}

MicReplies ==
    {<<<<r>>, "idle">> : r \in Failures("gssapi", BOOLEAN) \cup {Success("gssapi")}}

\* A request abandons the exchange before it, and nothing but an exchange of
\* its own makes the server listen to the packets of GSSAPI.
Outcomes(p) ==
    IF p.type = "request" THEN RequestReplies(p)
    ELSE IF p.type = "info" THEN InfoReplies
    ELSE IF server # "gssapi" /\ server # "mic" THEN {<<<<>>, server>>}
    ELSE IF p.type = "token" THEN TokenReplies(p.last)
    ELSE MicReplies

ServerAnswers ==
    /\ up # <<>>
    /\ \E o \in Outcomes(Head(up)) : down' = down \o o[1] /\ server' = o[2]
    /\ up' = Tail(up)
    /\ UNCHANGED <<conf, s, callback, in_pq, user_input, banner, trust, agent, banners>>

\* Before authentication has succeeded the server may send banners at any time
ServerBanner ==
    /\ banners > 0 /\ ~Over
    /\ \A i \in 1..Len(down) : down[i].type # "success"
    /\ \A i \in 1..Len(in_pq) : in_pq[i].type # "success"
    /\ banners' = banners - 1
    /\ down' = Append(down, [type |-> "banner"])
    /\ UNCHANGED <<conf, s, callback, in_pq, user_input, banner, trust, agent, up, server>>

Next ==
    \/ ProcessQueue \/ Coroutine
    \/ AgentAnswers \/ UserTypes \/ Deliver \/ ssh2_userauth_free
    \/ ServerAnswers \/ ServerBanner

Spec == Init /\ [][Next]_vars

\* Callbacks run, the coroutine does not stop on its way, and the network, the
\* server and the agent answer.  The user need not.
FairSpec ==
    /\ Spec
    /\ WF_vars(ProcessQueue) /\ WF_vars(Coroutine) /\ WF_vars(Deliver)
    /\ WF_vars(AgentAnswers) /\ WF_vars(ServerAnswers)

-----------------------------------------------------------------------------
(* Properties.                                                             *)

TypeOK ==
    /\ conf \in Settings
    /\ s.pc \in {"start", "username", "none", "choose", "gss_init", "granted", "ended"}
                  \cup Prompts \cup AgentWaits \cup PacketWaits
    /\ s.can \subseteq Methods /\ s.tried \subseteq {"keyex", "gssapi", "file", "ki"}
    /\ s.key \in 0..(conf.agent + 1) /\ s.limit \in 0..conf.agent /\ s.need \in 0..3
    /\ s.running \in BOOLEAN /\ callback \in BOOLEAN /\ trust \in BOOLEAN
    /\ banner \in 0..BannerLimit /\ banners \in 0..Banners
    /\ Len(user_input) <= MaxTyped /\ Len(up) <= 2
    /\ agent \in {"idle", "pending", "good", "failed"}
    /\ server \in {"idle", "ki", "gssapi", "mic"}

\* The reply that is taken for the result of the last request is the reply to
\* that request, whatever our side gave up in between (the inner loop of
\* ssh2_userauth_process_queue).
AnswersMatch ==
    At("response") /\ ~s.suppress_wait /\ Filtered # <<>> /\ pktin.type \in {"success", "failure"}
        => pktin.to = s.asked

\* The layer never waits for a packet that nobody will send: one is queued or
\* on its way, or a request is (suppress_wait_for_response_packet).
WaitsAnswered ==
    s.pc \in PacketWaits /\ ~s.running /\ Filtered = <<>>
        => up # <<>> \/ \E i \in 1..Len(in_pq \o down) : ~IsBanner((in_pq \o down)[i])

\* What the layer waits for, when it is there, wakes it: a packet, the answer of
\* the agent, or what the user has typed, also ahead of the prompt.
Woken ==
    ~s.running =>
        /\ s.pc \in PacketWaits /\ Filtered # <<>> => callback
        /\ s.pc \in AgentWaits /\ agent # "pending" => callback
        /\ s.pc \in Prompts /\ user_input # <<>> => callback

\* The layer's own prompts are never shown as text of the server, also after
\* prompts that are (seat_set_trust_status).
PromptsTrusted == s.pc \in Prompts \ {"ki_prompt"} => trust

\* "This should ensure that when we exit the auth loop, we haven't any left to
\* deal with": no banner is left when the connection layer takes over.
BannersShown == s.pc = "granted" => banner = 0

\* The agent owes an answer only to a layer that waits for it.
AgentHeard == agent # "idle" => s.pc \in AgentWaits

\* "people with a key held in Pageant ... want to type a username, and then
\* _either_ their key will be accepted, _or_ they will type a password": with
\* every user name, the agent's keys come before the password.  See Deviations
\* in README.md: for a second name the code does not keep this.
KeysBeforePassword ==
    s.pc = "password" /\ "publickey" \in s.can /\ s.limit > 0 => s.done_agent

\* Unless the user may be asked for another name, the agent's keys have all been
\* offered before the password is asked for (done_agent, agent_key_index).
KeysFirst == ~conf.change => KeysBeforePassword

LoginSound ==
    /\ TypeOK /\ AnswersMatch /\ WaitsAnswered /\ Woken
    /\ PromptsTrusted /\ BannersShown /\ AgentHeard /\ KeysFirst

\* The user is asked for something that has not been typed yet.
Asking == s.pc \in Prompts /\ s.need > 0

\* The server has sent an INFO_REQUEST without prompts, which is answered
\* without the user.
EmptyRequest ==
    \E i \in 1..Len(down) : down[i].type = "info_request" /\ down[i].prompts = 0

\* The login ends, or asks the user again and again, or the server goes on
\* sending INFO_REQUESTs without prompts for ever: keyboard-interactive is the
\* only method that is not given up when the server refuses it without the user
\* having been asked (kbd_inter_refused is set only if no INFO_REQUEST comes).
LoginEnds == <>Over \/ []<>Asking \/ []<>EmptyRequest
=============================================================================
