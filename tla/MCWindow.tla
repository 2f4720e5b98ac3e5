------------------------------ MODULE MCWindow ------------------------------
(***************************************************************************)
(* A session window: the windows and dialogs of the program, the session   *)
(* log, and the terminal with its cursor, screens and scrollback.  Each    *)
(* model runs by itself, from its own initial states; system says which    *)
(* one, and the others stay where they are.  The configuration has two     *)
(* windows, whose users close them at any moment, and two files to log to  *)
(* under the policies of both front ends; the sigil takes one column here, *)
(* three in the code: only "the line is longer than the sigil" matters.    *)
(***************************************************************************)
EXTENDS Window, Sequences, TLC

CONSTANTS text1, text2

VARIABLE system

windowVars == <<system, vars, sessionVars, logVars, screenVars>>

Conf(wrap, om, noalt) ==
    [wrap_mode |-> wrap, dec_om |-> om, no_alt_screen |-> noalt]

\* without an alternate screen, all modes
OneScreen == {Conf(TRUE, FALSE, TRUE), Conf(FALSE, TRUE, TRUE)}

AllModes == {"DECANM", "DECOM", "DECAWM"}

\* The two texts are alike.
Symmetry == Permutations({text1, text2})

\* The cursors of two screens, one of which the user may take away
TwoScreens == INSTANCE TermCursor WITH
    Heights <- {1, 2}, Widths <- {2}, Modes <- {},
    Confs <- {Conf(TRUE, FALSE, FALSE), Conf(TRUE, FALSE, TRUE)}

TwoTexts == {text1, text2}

\* Text that scrolls, on two screens, and windows that are resized; the
\* selection, with and without a scrollback; and settings that change under the
\* host's feet
Reader == [texts |-> TwoTexts, saves |-> {1}, noalt |-> FALSE, ondisp |-> FALSE,
           selects |-> FALSE, changes |-> FALSE]
Selector == [Reader EXCEPT !.texts = {text1}, !.saves = {0, 2}, !.noalt = TRUE, !.selects = TRUE]
Changer == [Reader EXCEPT !.texts = {text1}, !.ondisp = TRUE, !.changes = TRUE]
AllProfiles == {Reader, Selector, Changer}

ASSUME /\ TwoScreens!SizesAssumption /\ Win!ParamAssumption /\ Log!ParamAssumption
       /\ Screen!ScreenAssumption

WindowInit ==
    /\ system \in {"cursor", "two", "session", "log", "screen"}
    /\ Win!Init
    /\ system # "session" => main = "none"
    /\ Log!Init
    /\ system # "log" => /\ logConf = (CHOOSE c \in Log!Settings : TRUE)
                         /\ disk = [n \in Files |-> <<>>]
                         /\ ctx.lp = (CHOOSE lp \in Policies : TRUE)
    /\ IF system = "two" THEN TwoScreens!Init ELSE Init
    /\ system \notin {"cursor", "two"} =>
           <<rows, cols, conf>> = <<3, 2, Conf(TRUE, FALSE, TRUE)>>
    /\ Screen!Init
    /\ system # "screen" => profile = Changer /\ term.rows = 1 /\ ~term.erase_to_scrollback

Cursor ==
    /\ \/ system = "cursor" /\ Next
       \/ system = "two" /\ TwoScreens!Next
    /\ UNCHANGED <<system, sessionVars, logVars, screenVars>>

Sessions == system = "session" /\ Win!Next /\ UNCHANGED <<system, vars, logVars, screenVars>>

Logs == system = "log" /\ Log!Next /\ UNCHANGED <<system, vars, sessionVars, screenVars>>

Screens == system = "screen" /\ Screen!Next /\ UNCHANGED <<system, vars, sessionVars, logVars>>

WindowNext == Cursor \/ Sessions \/ Logs \/ Screens

WindowSpec == WindowInit /\ [][WindowNext]_windowVars
=============================================================================
