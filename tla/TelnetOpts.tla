----------------------------- MODULE TelnetOpts -----------------------------
(***************************************************************************)
(* The option half of _LEGACY/telnet.c: the table of options, and what     *)
(* proc_rec_opt and its helpers do to a Telnet structure. A client t has   *)
(* the states of its options, echoing, editing, activated, the window size *)
(* and out, what it has written to its socket.                             *)
(***************************************************************************)
EXTENDS Naturals, Sequences

\* The opts[] table, with WILL options (ours) and DO options (theirs).
Ours == {"NAWS", "TSPEED", "TTYPE", "OENV", "NENV", "WE_SGA", "WE_BIN"}
Theirs == {"ECHO", "THEY_SGA", "THEY_BIN"}
Opts == Ours \cup Theirs

OptStates == {"REQUESTED", "ACTIVE", "INACTIVE", "REALLY_INACTIVE"}

initial_state == [o \in Opts |-> IF o \in {"OENV", "WE_BIN", "THEY_BIN"}
                                 THEN "INACTIVE" ELSE "REQUESTED"]

\* A command about an option: on is WILL or DO, and WONT or DONT otherwise.
\* Option and direction together select one entry of the table.
Cmd(o, on) == [kind |-> "opt", opt |-> o, on |-> on]

\* The subnegotiation that reports the window size.
Size(n) == [kind |-> "naws", size |-> n]

send_opt(t, o, on) == [t EXCEPT !.out = Append(@, Cmd(o, on))]

\* telnet_size, called with the size that is to be in force.
telnet_size(t, n) ==
    IF t.opt["NAWS"] = "ACTIVE" THEN [t EXCEPT !.size = n, !.out = Append(@, Size(n))]
    ELSE [t EXCEPT !.size = n]

deactivate_option(t, o) ==
    [IF t.opt[o] \in {"REQUESTED", "ACTIVE"} THEN send_opt(t, o, FALSE) ELSE t
     EXCEPT !.opt[o] = "REALLY_INACTIVE"]

\* Asks for an option the passive start has not asked for.
Wanted(t, o) ==
    IF t.opt[o] = "INACTIVE" THEN send_opt([t EXCEPT !.opt[o] = "REQUESTED"], o, TRUE) ELSE t

option_side_effects(t, o, enabled) ==
    LET u == IF o = "ECHO" THEN [t EXCEPT !.echoing = ~enabled]
             ELSE IF o = "THEY_SGA" THEN [t EXCEPT !.editing = ~enabled] ELSE t
    IN IF t.activated THEN u
       ELSE [Wanted(Wanted(Wanted(u, "ECHO"), "WE_SGA"), "THEY_SGA") EXCEPT !.activated = TRUE]

activate_option(t, o) ==
    LET u == CASE o = "NAWS" -> telnet_size(t, t.size)
               [] o = "NENV" -> deactivate_option(t, "OENV")
               [] o = "OENV" -> deactivate_option(t, "NENV")
               [] OTHER      -> t
    IN option_side_effects(u, o, TRUE)

refused_option(t, o) ==
    LET u == IF o = "NENV" /\ t.opt["OENV"] = "INACTIVE"
             THEN [send_opt(t, "OENV", TRUE) EXCEPT !.opt["OENV"] = "REQUESTED"] ELSE t
    IN option_side_effects(u, o, FALSE)

To(t, o, state) == [t EXCEPT !.opt[o] = state]

\* proc_rec_opt for the acknowledgement of o, the half for ack.
Ack(t, o) ==
    CASE t.opt[o] = "REQUESTED" -> activate_option(To(t, o, "ACTIVE"), o)
      [] t.opt[o] = "ACTIVE" -> t
      [] t.opt[o] = "INACTIVE" -> activate_option(send_opt(To(t, o, "ACTIVE"), o, TRUE), o)
      [] t.opt[o] = "REALLY_INACTIVE" -> send_opt(t, o, FALSE)

BUGNakSilent(t, o) ==
    CASE t.opt[o] = "REQUESTED" -> refused_option(To(t, o, "INACTIVE"), o)
      [] t.opt[o] = "ACTIVE" -> option_side_effects(To(t, o, "INACTIVE"), o, FALSE)
      [] OTHER -> t

\* The half for nak.
Nak(t, o) ==
    CASE t.opt[o] = "REQUESTED" -> refused_option(To(t, o, "INACTIVE"), o)
      [] t.opt[o] = "ACTIVE" ->
            option_side_effects(send_opt(To(t, o, "INACTIVE"), o, FALSE), o, FALSE)
      [] OTHER -> t

proc_rec_opt(t, o, on) == IF on THEN Ack(t, o) ELSE Nak(t, o)

\* Asks for every option in requested, one after the other.
AskAll(t, requested) ==
    LET seq == <<"NAWS", "TSPEED", "TTYPE", "OENV", "NENV",
                 "ECHO", "WE_SGA", "THEY_SGA", "WE_BIN", "THEY_BIN">>
        asked == SelectSeq(seq, LAMBDA o : o \in requested)
    IN [t EXCEPT !.out = @ \o [i \in 1 .. Len(asked) |-> Cmd(asked[i], TRUE)]]

\* telnet_init.
telnet_init(passive, size) ==
    LET t == [opt |-> [o \in Opts |-> IF passive THEN "INACTIVE" ELSE initial_state[o]],
              echoing |-> TRUE, editing |-> TRUE, activated |-> ~passive,
              size |-> size, out |-> <<>>]
    IN AskAll(t, {o \in Opts : t.opt[o] = "REQUESTED"})
=============================================================================
