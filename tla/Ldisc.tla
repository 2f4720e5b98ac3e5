------------------------------- MODULE Ldisc --------------------------------
(***************************************************************************)
(* The line discipline (ldisc.c): local editing and local echo of what the *)
(* user types.  It edits bytes and writes backspaces; the user edits       *)
(* characters and looks at the screen.  line and said are the user's side: *)
(* the characters of the unfinished line, and those sent off before.       *)
(***************************************************************************)
EXTENDS Integers, Sequences, SequencesExt, FiniteSetsExt

CONSTANTS Protocol,        \* "raw", "telnet" or "ssh"
          TelnetKeyboard,  \* CONF_telnet_keyboard
          TelnetNewline,   \* CONF_telnet_newline
          Utf8,            \* the terminal's character set
          Echo,            \* local echo at the start
          MayEcho, MayEdit, \* the host changes these options at any moment
          MayInvalid,      \* a byte that is not UTF-8 comes, pasted or typed
          Keys,            \* the special keys that the user knows
          MaxKeys          \* bound: keys

VARIABLES ldisc,  \* [buf, quotenext, cells, sent, fault]: cells counts what is
                  \* on the screen after the prompt
          editing, echoing, keys, line, said,
          course  \* history: in the middle of this line, echo was turned "off",
                  \* or "on" and the screen is out of step; else it is "steady"

vars == <<ldisc, editing, echoing, keys, line, said, course>>

Init ==
    /\ ldisc = [buf |-> <<>>, quotenext |-> FALSE, cells |-> 0, sent |-> <<>>,
                fault |-> FALSE]
    /\ editing = TRUE /\ echoing = Echo
    /\ keys = 0 /\ line = <<>> /\ said = <<>> /\ course = "steady"

(***************************************************************************)
(* A letter, a space, a control character and, in UTF-8, a character of    *)
(* two bytes, an introducer and a follow-up; elsewhere a byte from 128 to  *)
(* 159, which is shown in hexadecimal.                                     *)
(***************************************************************************)
Chars == {"a", " ", "ctl"} \union (IF Utf8 THEN {"L F"} ELSE {"hex"})
             \union (IF MayInvalid THEN {"F"} ELSE {})

Special == {"BS", "^W", "^U", "^C", "^R", "^V", "^D", "^M", "^J", "Return"}

LdiscAssumption ==
    /\ Protocol \in {"raw", "telnet", "ssh"} /\ MaxKeys \in Nat /\ Keys \subseteq Special
    /\ {TelnetKeyboard, TelnetNewline, Utf8, Echo, MayEcho, MayEdit, MayInvalid} \subseteq BOOLEAN

Bytes(c) == IF c = "L F" THEN <<"L", "F">> ELSE <<c>>

AllBytes(s) == FlattenSeq([i \in DOMAIN s |-> Bytes(s[i])])

\* the byte that a special key stands for when it is quoted
Literal(k) ==
    CASE k \in {"^M", "Return"} -> "cr" [] k = "^J" -> "lf"
      [] k \in Special \ {"^M", "^J", "Return"} -> "ctl" [] OTHER -> k

plen(b) ==
    CASE b \in {"ctl", "cr", "lf"} -> 2 [] b = "F" -> 0 [] b = "hex" -> 4 [] OTHER -> 1

Width(s) == FoldLeft(LAMBDA n, b : n + plen(b), 0, s)

char_start(b) == ~Utf8 \/ b # "F"

\* the line is cut back to n bytes, with a bsb() for what goes
Cut(d, n) ==
    [d EXCEPT !.buf = SubSeq(@, 1, n),
              !.cells = IF echoing
                        THEN @ - Width(SubSeq(d.buf, n + 1, Len(d.buf))) ELSE @]


\* back to the start of a character, which need not be there
Backspace(d) ==
    LET starts == {i \in DOMAIN d.buf : char_start(d.buf[i])} IN
    IF d.buf = <<>> THEN d
    ELSE IF starts = {} THEN [d EXCEPT !.fault = TRUE]
    ELSE Cut(d, Max(starts) - 1)

isspace(b) == b \in {" ", "cr", "lf"}

\* the longest part of s that ends before a word, and is shorter than s
BeforeWord(s) ==
    Max({i \in 0 .. Len(s) - 1 : i = 0 \/ (isspace(s[i]) /\ ~isspace(s[i + 1]))})

DeleteWord(d) == IF d.buf = <<>> THEN d ELSE Cut(d, BeforeWord(d.buf))

Insert(d, bytes) ==
    [d EXCEPT !.buf = @ \o bytes, !.quotenext = FALSE,
              !.cells = IF echoing THEN @ + Width(bytes) ELSE @]

Eol == CASE Protocol = "raw" -> <<"cr", "lf">>
         [] Protocol = "telnet" /\ TelnetNewline -> <<"EOL">>
         [] OTHER -> <<"cr">>

SendLine(d) ==
    [d EXCEPT !.sent = @ \o d.buf \o Eol, !.buf = <<>>, !.cells = 0]

\* "\r\n" by a raw ^M^J
RawReturn(d) == Protocol = "raw" /\ d.buf # <<>> /\ Last(d.buf) = "cr"

\* backend_special for ^U and ^C; ^Z and ^\\ are like ^C
Specials(k) == IF k = "^C" /\ TelnetKeyboard THEN <<"EL", "IP">> ELSE <<"EL">>

\* what ^D on an empty line, or on another one, sends off
SendOrEof(l) == IF l = <<>> THEN <<"EOF">> ELSE l

\* ldisc_send, EDITING
Edit(d, k) ==
    CASE d.quotenext    -> Insert(d, Bytes(Literal(k)))
      [] k = "BS"       -> Backspace(d)
      [] k = "^W"       -> DeleteWord(d)
      [] k \in {"^U", "^C"} ->
             LET e == [Cut(d, 0) EXCEPT !.sent = @ \o Specials(k)] IN
             IF TelnetKeyboard THEN e ELSE Insert(e, <<"ctl">>)
      [] k = "^R"       -> IF echoing THEN [d EXCEPT !.cells = Width(d.buf)] ELSE d
      [] k = "^V"       -> [d EXCEPT !.quotenext = TRUE]
      [] k = "^D"       -> [d EXCEPT !.sent = @ \o SendOrEof(d.buf),
                                    !.buf = <<>>, !.cells = 0]
      [] k = "Return"   -> SendLine(d)
      [] k = "^J" /\ RawReturn(d) -> SendLine(Cut(d, Len(d.buf) - 1))
      [] OTHER          -> Insert(d, Bytes(Literal(k)))

\* a key that comes as a special string may be a Telnet command
Sent(k) ==
    CASE k = "Return" /\ Protocol = "telnet" /\ TelnetNewline -> <<"EOL">>
      [] k = "BS" /\ Protocol = "telnet" /\ TelnetKeyboard -> <<"EC">>
      [] OTHER -> Bytes(Literal(k))

\* ldisc_send when not EDITING: first the line that is left, whose characters
\* are rubbed out
Pass(d, k) == [d EXCEPT !.sent = @ \o d.buf \o Sent(k),
                        !.buf = <<>>, !.cells = @ - Width(d.buf)]

(***************************************************************************)
(* The user's side                                                         *)
(***************************************************************************)
\* The keys as ldisc_send lists them: ^h returns to the last character boundary,
\* which a byte that is not UTF-8 does not make; ^u returns to the beginning of
\* the line; ^c does so too, and is itself typed if it is not to be sent as IP.
Meant(l, k) ==
    CASE k = "BS" -> SubSeq(l, 1, Max({1} \union {i \in DOMAIN l : char_start(l[i])}) - 1)
      [] k = "^W" -> IF l = <<>> THEN l ELSE SubSeq(l, 1, BeforeWord(l))
      [] k = "^U" -> <<>>
      [] k = "^C" -> IF TelnetKeyboard THEN <<>> ELSE <<"ctl">>
      [] k \in {"^R", "^V"} -> l
      [] OTHER -> Append(l, Literal(k))

Ends(k) ==
    k \in {"Return", "^D"} \/ (k = "^J" /\ RawReturn(ldisc))

\* what is sent off with the line
Closing(k) == IF k = "^D" THEN SendOrEof(line)
              ELSE (IF k = "^J" THEN Front(line) ELSE line) \o Eol

\* The screen is in step again when a line is finished or drawn anew, and out
\* of step when a line that was not echoed is rubbed out.
Course(k) ==
    IF editing THEN IF ~ldisc.quotenext /\ (Ends(k) \/ (k = "^R" /\ echoing))
                    THEN "steady" ELSE course
    ELSE IF ldisc.buf # <<>> /\ ~echoing THEN "on" ELSE course

ldisc_send(k) ==
    /\ keys < MaxKeys /\ keys' = keys + 1 /\ ~ldisc.fault
    /\ IF ~editing
       THEN /\ ldisc' = Pass(ldisc, k)
            /\ said' = said \o line \o Sent(k) /\ line' = <<>>
       ELSE /\ ldisc' = Edit(ldisc, k)
            /\ IF ldisc.quotenext
               THEN line' = Append(line, Literal(k)) /\ UNCHANGED said
               ELSE IF Ends(k) THEN line' = <<>> /\ said' = said \o Closing(k)
               ELSE /\ line' = Meant(line, k)
                    /\ said' = IF k \in {"^U", "^C"} THEN said \o Specials(k) ELSE said
    /\ course' = Course(k)
    /\ UNCHANGED <<editing, echoing>>

\* The host changes its options; ldisc_echoedit_update tells the seat only.
EchoChanges ==
    /\ MayEcho /\ echoing' = ~echoing
    /\ course' = IF ldisc.buf = <<>> THEN course
                 ELSE IF echoing /\ course = "steady" THEN "off" ELSE "on"
    /\ UNCHANGED <<ldisc, editing, keys, line, said>>

EditChanges ==
    /\ MayEdit /\ editing' = ~editing
    /\ UNCHANGED <<ldisc, echoing, keys, line, said, course>>

Next == EchoChanges \/ EditChanges \/ \E k \in Chars \union Keys : ldisc_send(k)

Spec == Init /\ [][Next]_vars

(***************************************************************************)
(* Properties                                                              *)
(***************************************************************************)
\* What the host has got, and what waits to be sent, is what the user has
\* made of the line, character by character and in order, however the options
\* change in between.
EditsCharacters ==
    ~ldisc.fault =>
        ldisc.buf = AllBytes(line) /\ ldisc.sent = AllBytes(said)

\* With local echo, the screen shows the line as it is in the buffer, unless
\* the host has turned echo on or off in the middle of it.
ScreenShowsLine == course = "steady" /\ echoing => ldisc.cells = Width(ldisc.buf)

\* Rubbing out does not reach what was on the screen before the line, also when
\* the host turns echo or editing off in the middle of it.
PromptKept == course # "on" => ldisc.cells >= 0

\* The buffer is not read before its start, unless the line begins with a byte
\* that is not UTF-8.
BufferInRange == ldisc.fault => ldisc.buf # <<>> /\ Head(ldisc.buf) = "F"
=============================================================================
