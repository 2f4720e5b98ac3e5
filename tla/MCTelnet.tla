------------------------------ MODULE MCTelnet ------------------------------
(***************************************************************************)
(* The Telnet client: option negotiation, the byte stream and the line     *)
(* discipline on top of it.  Each model runs by itself, from its own       *)
(* initial states; system says which one, and the others stay where they   *)
(* are.                                                                    *)
(***************************************************************************)
EXTENDS Naturals, Sequences

VARIABLES system,
          telnet, toClient, srv, srvSize, asked, resized,
          t, sock, pending, host, typed, sent, count,
          ldisc, editing, echoing, keys, line, said, course

optionVars == <<telnet, toClient, srv, srvSize, asked, resized>>
streamVars == <<t, sock, pending, host, typed, sent, count>>
ldiscVars == <<ldisc, editing, echoing, keys, line, said, course>>
vars == <<system, optionVars, streamVars, ldiscVars>>

\* Options of the client, which both ends may ask for, with the window size
Ours == INSTANCE Telnet WITH
    Subject <- {"NAWS", "OENV", "NENV"}, Passive <- FALSE, Sizes <- {1, 2},
    MaxAsk <- 3, MaxResize <- 1

\* Options of the server, which the client only answers for
Theirs == INSTANCE Telnet WITH
    Subject <- {"ECHO", "THEY_SGA", "WE_SGA"}, Passive <- TRUE, Sizes <- {1},
    MaxAsk <- 4, MaxResize <- 0

\* Data in both directions while the transmission modes change
Data == INSTANCE TelnetStream WITH
    ExceptFirst <- TRUE, Text <- <<"a", "b">>, Special <- {"CR", "IAC"},
    Typed <- {"CR", "IAC", "EOL"}, Binary <- TRUE, MaxTyped <- 1, MaxSynch <- 0,
    MaxNeg <- 2, srv <- host, said <- sent

\* Synchs, with DM as data and commands between
Synch == INSTANCE TelnetStream WITH
    ExceptFirst <- TRUE, Text <- <<"a", "b">>, Special <- {"CR", "DM"},
    Typed <- {}, Binary <- FALSE, MaxTyped <- 0, MaxSynch <- 2, MaxNeg <- 1,
    srv <- host, said <- sent

AllKeys == {"BS", "^W", "^U", "^C", "^R", "^V", "^D", "^M", "^J", "Return"}

\* A UTF-8 terminal whose host turns local editing on and off, and where bytes
\* that are not UTF-8 are pasted
Utf8Line == INSTANCE Ldisc WITH
    Protocol <- "ssh", TelnetKeyboard <- TRUE, TelnetNewline <- TRUE, Utf8 <- TRUE,
    Echo <- TRUE, MayEcho <- FALSE, MayEdit <- TRUE, MayInvalid <- TRUE,
    Keys <- AllKeys, MaxKeys <- 4

\* A raw connection, where ^M^J ends a line; ^U is left out, since with the
\* Telnet keyboard off the code also inserts it into the line it has cleared
RawLine == INSTANCE Ldisc WITH
    Protocol <- "raw", TelnetKeyboard <- FALSE, TelnetNewline <- TRUE, Utf8 <- FALSE,
    Echo <- TRUE, MayEcho <- FALSE, MayEdit <- FALSE, MayInvalid <- FALSE,
    Keys <- AllKeys \ {"^U"}, MaxKeys <- 4

\* Telnet, where the host turns local echo on and off as well
TelnetLine == INSTANCE Ldisc WITH
    Protocol <- "telnet", TelnetKeyboard <- TRUE, TelnetNewline <- TRUE, Utf8 <- TRUE,
    Echo <- FALSE, MayEcho <- TRUE, MayEdit <- TRUE, MayInvalid <- FALSE,
    Keys <- AllKeys, MaxKeys <- 3

ASSUME /\ Ours!ParamAssumption /\ Theirs!ParamAssumption
       /\ Data!ParamAssumption /\ Synch!ParamAssumption
       /\ Utf8Line!LdiscAssumption /\ RawLine!LdiscAssumption /\ TelnetLine!LdiscAssumption

Init ==
    \/ system = "ours" /\ Ours!Init /\ Data!Init /\ RawLine!Init
    \/ system = "theirs" /\ Theirs!Init /\ Data!Init /\ RawLine!Init
    \/ system = "data" /\ Ours!Init /\ Data!Init /\ RawLine!Init
    \/ system = "synch" /\ Ours!Init /\ Synch!Init /\ RawLine!Init
    \/ system = "utf8" /\ Ours!Init /\ Data!Init /\ Utf8Line!Init
    \/ system = "raw" /\ Ours!Init /\ Data!Init /\ RawLine!Init
    \/ system = "telnet" /\ Ours!Init /\ Data!Init /\ TelnetLine!Init

Options ==
    /\ \/ system = "ours" /\ Ours!Next
       \/ system = "theirs" /\ Theirs!Next
    /\ UNCHANGED <<system, streamVars, ldiscVars>>

Stream ==
    /\ \/ system = "data" /\ Data!Next
       \/ system = "synch" /\ Synch!Next
    /\ UNCHANGED <<system, optionVars, ldiscVars>>

Line ==
    /\ \/ system = "utf8" /\ Utf8Line!Next
       \/ system = "raw" /\ RawLine!Next
       \/ system = "telnet" /\ TelnetLine!Next
    /\ UNCHANGED <<system, optionVars, streamVars>>

Next == Options \/ Stream \/ Line

\* Both programs read what has arrived.
FairSpec ==
    /\ Init /\ [][Next]_vars
    /\ WF_optionVars(system = "ours" /\ Ours!ClientReceives)
    /\ WF_optionVars(system = "ours" /\ Ours!ServerReceives)
    /\ WF_optionVars(system = "theirs" /\ Theirs!ClientReceives)
    /\ WF_optionVars(system = "theirs" /\ Theirs!ServerReceives)

-----------------------------------------------------------------------------
(* Properties of the models that run.                                      *)

TypeOK ==
    /\ system = "ours" => Ours!TypeOK
    /\ system = "theirs" => Theirs!TypeOK
    /\ system = "data" => Data!TypeOK
    /\ system = "synch" => Synch!TypeOK

\* Once nothing is on its way, both ends have the same view of every option
\* and no question is open (proc_rec_opt, deactivate_option).
AgreeWhenQuiet ==
    /\ system = "ours" => Ours!AgreeWhenQuiet
    /\ system = "theirs" => Theirs!AgreeWhenQuiet

\* The line discipline echoes exactly while the server has not taken over
\* echoing, and edits lines while it has not suppressed go-ahead.
EchoFollowsOption == system = "theirs" => Theirs!EchoFollowsOption

\* "We may only have one kind of ENVIRON going at a time" (activate_option).
OneEnviron == system = "ours" => Ours!OneEnviron

\* The server knows the window size once NAWS is agreed and nothing is under
\* way (telnet_size).
SizeKnown == system = "ours" => Ours!SizeKnown

\* Negotiation comes to an end, the ends do not answer each other for ever, and
\* whenever nothing is under way both have the same view of every option, of
\* the window size and of who echoes (proc_rec_opt).
Negotiated ==
    /\ <>[](system \in {"ours", "theirs"} => Ours!Quiet)
    /\ [](TypeOK /\ AgreeWhenQuiet /\ EchoFollowsOption /\ OneEnviron /\ SizeKnown)

\* What the server has sent since its last synch is shown, all of it and
\* nothing else, whatever commands lie between (do_telnet_read).
OutputShown ==
    /\ system = "data" => Data!OutputShown
    /\ system = "synch" => Synch!OutputShown

\* What the user types reaches the server as typed, also when the binary
\* option changes in between (telnet_send).
InputIntact == system = "data" => Data!InputIntact

\* Output is hidden only while a synch is on its way (telnet_receive).
HiddenOnlyForSynch == system = "synch" => Synch!HiddenOnlyForSynch

\* What the host has got, and what waits to be sent, is what the user has
\* made of the line, character by character and in order, however the options
\* change in between (ldisc_send).
EditsCharacters ==
    /\ system = "utf8" => Utf8Line!EditsCharacters
    /\ system = "raw" => RawLine!EditsCharacters
    /\ system = "telnet" => TelnetLine!EditsCharacters

\* With local echo, the screen shows the line as it is in the buffer, unless the
\* host has turned echo on or off in the middle of it (bsb, plen, pwrite).
ScreenShowsLine ==
    /\ system = "utf8" => Utf8Line!ScreenShowsLine
    /\ system = "raw" => RawLine!ScreenShowsLine
    /\ system = "telnet" => TelnetLine!ScreenShowsLine

\* Rubbing out does not reach what was on the screen before the line, also when
\* the host turns echo or editing off in the middle of it.
PromptKept ==
    /\ system = "utf8" => Utf8Line!PromptKept
    /\ system = "raw" => RawLine!PromptKept
    /\ system = "telnet" => TelnetLine!PromptKept

\* The buffer is not read before its start, unless the line begins with a byte
\* that is not UTF-8 (char_start).
BufferInRange ==
    /\ system = "utf8" => Utf8Line!BufferInRange
    /\ system = "raw" => RawLine!BufferInRange
    /\ system = "telnet" => TelnetLine!BufferInRange

\* Data passes intact in both directions, around commands, changes of mode and
\* synchs (do_telnet_read, telnet_send).
StreamIntact == OutputShown /\ InputIntact /\ HiddenOnlyForSynch


=============================================================================
