------------------------------ MODULE Logging -------------------------------
(***************************************************************************)
(* The session log of _LEGACY/logging.c, with the two ways in which front  *)
(* ends answer what to do with an existing file: tqt_log_askappend of      *)
(* tqt/tqtwin.cpp, which does not ask and is the one of the program that   *)
(* is built, and the asynchronous dialog of unix/gtkdlg.c, the one that    *)
(* logging.c is written for.                                               *)
(*                                                                         *)
(* A file is the sequence of what is in it: Old for the contents found     *)
(* there, and the number of each item logged. The header line is left out.  *)
(***************************************************************************)
EXTENDS Naturals, Sequences

CONSTANTS
    Files,          \* names of log files
    NoFile,         \* not one of them
    Policies,       \* the front ends' LogPolicy: some of "tqt" and "gtk"
    WhileAsking,    \* settings may change while the user is being asked
    MaxItems        \* bound: items logged

ParamAssumption ==
    /\ NoFile \notin Files
    /\ Policies \subseteq {"tqt", "gtk"}
    /\ WhileAsking \in BOOLEAN
    /\ MaxItems \in Nat

Old == 0

Settings == [file : Files, on : BOOLEAN, clash : {"ASK", "APN", "OVR"}]

VARIABLES
    conf,      \* ctx->conf, with the logtype cached out of it
    ctx,       \* [lp, state, lgfp, queue, file]; file is currlogfilename
    disk,      \* contents of each file
    asking,    \* questions put to the user and not answered: files
    items,     \* number of items logged so far
    since,     \* history: items since the log was last to be opened
    allowed,   \* history: files that may be overwritten: the user or the settings said so
    leaked     \* history: an open file was forgotten

vars == <<conf, ctx, disk, asking, items, since, allowed, leaked>>

TypeOK ==
    /\ conf \in Settings
    /\ ctx.lp \in Policies
    /\ ctx.state \in {"CLOSED", "OPENING", "OPEN", "ERROR", "FREED"}
    /\ ctx.lgfp \in Files \cup {NoFile}
    /\ (ctx.state = "OPEN") = (ctx.lgfp # NoFile)
    /\ ctx.file \in Files \cup {NoFile}
    /\ ctx.queue \in Seq(1 .. MaxItems)
    /\ disk \in [Files -> Seq(0 .. MaxItems)]
    /\ asking \in Seq(Files)
    /\ items \in 0 .. MaxItems
    /\ since \in Seq(1 .. MaxItems)
    /\ allowed \subseteq Files
    /\ leaked \in BOOLEAN

Init ==
    /\ conf \in Settings
    /\ \E lp \in Policies :
          ctx = [lp |-> lp, state |-> "CLOSED", lgfp |-> NoFile, queue |-> <<>>, file |-> NoFile]
    /\ disk \in [Files -> {<<>>, <<Old>>}]
    /\ asking = <<>>
    /\ items = 0
    /\ since = <<>>
    /\ allowed = {}
    /\ leaked = FALSE

-----------------------------------------------------------------------------
(* Each function takes and returns the context and the disk, as [c, d, l]. *)
(* A BUG definition is the one below it with a plausible slip.             *)

logfclose(s) == [s EXCEPT !.c.lgfp = NoFile, !.c.state = "CLOSED"]

\* What the operating system refuses: f_open, fwrite or nothing.
Faults == {"none", "open", "write"}

\* logwrite in any state but CLOSED.
Written(s, data, fails) ==
    CASE s.c.state = "OPENING" -> [s EXCEPT !.c.queue = @ \o data]
      [] s.c.state = "OPEN" ->
            IF fails = "write" THEN [logfclose(s) EXCEPT !.c.state = "ERROR"]
            ELSE [s EXCEPT !.d[s.c.lgfp] = @ \o data]
      [] OTHER -> s

\* f_open.
Opened(s, mode, fails) ==
    IF fails = "open" THEN [s EXCEPT !.c.state = "ERROR", !.c.lgfp = NoFile]
    ELSE [s EXCEPT !.c.state = "OPEN", !.c.lgfp = s.c.file,
                   !.d[s.c.file] = IF mode = 2 THEN <<>> ELSE @]

BUGCallback(s, mode, fails) ==
    LET o == IF mode = 0 THEN [s EXCEPT !.c.state = "ERROR"] ELSE Opened(s, mode, fails)
        forgotten == mode # 0 /\ s.c.lgfp # NoFile
    IN [o EXCEPT !.c.queue = <<>>, !.l = @ \/ forgotten]

\* logfopen_callback: opens the file and writes what was queued.
Callback(s, mode, fails) ==
    LET o == IF mode = 0 THEN [s EXCEPT !.c.state = "ERROR"] ELSE Opened(s, mode, fails)
        forgotten == mode # 0 /\ s.c.lgfp # NoFile
    IN [Written(o, s.c.queue, fails) EXCEPT !.c.queue = <<>>, !.l = @ \/ forgotten]

Exists(s, f) == s.d[f] # <<>>

\* tqt_log_askappend calls back with 2 before it answers 1, so that logfopen
\* calls back again and the file is opened twice.
tqt_log_askappend(s, fails) == Callback(Callback(s, 2, fails), 1, fails)

\* logfopen with settings new
logfopen(s, new, fails) ==
    LET named == [s EXCEPT !.c.file = new.file] IN
    IF s.c.state # "CLOSED" \/ ~new.on THEN s
    ELSE IF ~Exists(s, new.file) THEN Callback(named, 2, fails)
    ELSE IF new.clash # "ASK" THEN Callback(named, IF new.clash = "OVR" THEN 2 ELSE 1, fails)
    ELSE IF s.c.lp = "tqt" THEN tqt_log_askappend(named, fails)
    ELSE [named EXCEPT !.c.state = "OPENING"]

Now == [c |-> ctx, d |-> disk, l |-> leaked]

Becomes(s) == ctx' = s.c /\ disk' = s.d /\ leaked' = s.l

\* A question is put when the context starts to wait for its answer.
Asks(s) == asking' = IF s.c.state = "OPENING" /\ ctx.state # "OPENING"
                     THEN Append(asking, s.c.file) ELSE asking

\* The settings allow the file to be overwritten.
Allows(s, new) == allowed' = allowed \cup (IF new.clash = "OVR" THEN {new.file} ELSE {})

-----------------------------------------------------------------------------
(* Operations.                                                             *)

\* logwrite, for session output, packets or events alike.
Log ==
    /\ conf.on /\ ctx.state # "FREED"
    /\ items < MaxItems
    /\ items' = items + 1
    /\ \E fails \in Faults :
          LET s == IF ctx.state = "CLOSED" THEN logfopen(Now, conf, fails) ELSE Now
              w == Written(s, <<items + 1>>, fails)
          IN /\ Becomes(w) /\ Asks(w)
             /\ since' = IF ctx.state = "CLOSED" THEN <<items + 1>> ELSE Append(since, items + 1)
    /\ Allows(Now, conf)
    /\ UNCHANGED conf

\* The user answers: 0 to disable the log, 1 to append, 2 to overwrite.
Answer(mode) ==
    /\ asking # <<>> /\ ctx.state # "FREED"
    /\ asking' = Tail(asking)
    /\ \E fails \in Faults : Becomes(Callback(Now, mode, fails))
    /\ allowed' = allowed \cup (IF mode = 2 THEN {Head(asking)} ELSE {})
    /\ UNCHANGED <<conf, items, since>>

\* log_reconfig, which the TQt front end does not call.
log_reconfig(new) ==
    /\ ctx.lp = "gtk"
    /\ ctx.state # "FREED"
    /\ WhileAsking \/ asking = <<>>
    /\ conf' = new
    /\ IF new.file # conf.file \/ new.on # conf.on
       THEN /\ since' = ctx.queue
            /\ \E fails \in Faults :
                  LET s == logfopen(logfclose(Now), new, fails) IN
                  Becomes(s) /\ Asks(s)
       ELSE UNCHANGED <<ctx, disk, leaked, asking, since>>
    /\ Allows(Now, new)
    /\ UNCHANGED items

\* log_free; the front end has withdrawn its dialogs.
log_free ==
    /\ ctx.state # "FREED"
    /\ asking' = <<>>
    /\ ctx' = [ctx EXCEPT !.state = "FREED", !.lgfp = NoFile, !.queue = <<>>]
    /\ UNCHANGED <<conf, disk, items, since, allowed, leaked>>

Next ==
    \/ Log
    \/ \E mode \in 0 .. 2 : Answer(mode)
    \/ \E new \in Settings : log_reconfig(new)
    \/ log_free

Spec == Init /\ [][Next]_vars

-----------------------------------------------------------------------------
(* Properties.                                                             *)

EndsWith(s, t) == Len(s) >= Len(t) /\ SubSeq(s, Len(s) - Len(t) + 1, Len(s)) = t

\* While the log is open, all that was logged since it was to be opened is at
\* the end of the file, in order; while the user is asked, it is all queued
\* (logwrite, logfopen_callback).
LogComplete ==
    /\ ctx.state = "OPEN" => EndsWith(disk[ctx.lgfp], since)
    /\ ctx.state = "OPENING" => EndsWith(ctx.queue, since)

\* What was in a file before is there after the step, or the user or the
\* settings said that this file may be overwritten.
OldKept ==
    \A f \in Files : Old \in {disk[f][i] : i \in 1 .. Len(disk[f])}
        => f \in allowed' \/ Old \in {disk'[f][i] : i \in 1 .. Len(disk'[f])}

\* The settings say to ask the user every time, and the policy does not ask.
Unasked == ctx.lp = "tqt" /\ conf.clash = "ASK"

\* The log has all that was logged.  Unless the user was to be asked and is
\* not, a log file that is open is closed before another is opened, and
\* nothing is destroyed that the user wanted to keep.
LogSound ==
    /\ [](LogComplete /\ (leaked => Unasked))
    /\ [][Unasked \/ OldKept]_vars
=============================================================================
