------------------------------- MODULE Window -------------------------------
(***************************************************************************)
(* A session window: the terminal with its cursor (TermCursor), which is   *)
(* extended, the windows and dialogs of the program (SessionWindow), the   *)
(* session log (Logging), and the terminal's lines (TermScreen).           *)
(***************************************************************************)
EXTENDS TermCursor

CONSTANTS Windows, Nobody, CloseActive, TwoLogins, Reenter,     \* SessionWindow
          Files, NoFile, Policies, WhileAsking, MaxItems,       \* Logging
          Texts, Blank, ScreenHeights, Profiles                 \* TermScreen

VARIABLES running, main, count, window, counted, active, backend, freed, modal,
          cached, crossed, resumed,
          logConf, ctx, disk, asking, items, since, allowed, leaked,
          profile, term, kept, event

sessionVars == <<running, main, count, window, counted, active, backend, freed, modal,
                 cached, crossed, resumed>>
logVars == <<logConf, ctx, disk, asking, items, since, allowed, leaked>>
screenVars == <<profile, term, kept, event>>

Win == INSTANCE SessionWindow

Log == INSTANCE Logging WITH conf <- logConf

Screen == INSTANCE TermScreen WITH Heights <- ScreenHeights

\* Windows, dialogs and the count of sessions: the program is seen while it
\* runs, does not exit under a session and keeps passwords apart (closeEvent,
\* reject, s_active_session_count).
SessionsSound == Win!SessionsSound

\* The log has all that was logged, under the policy of this program as under
\* the one that asks.  Unless the settings say to ask the user and the policy
\* does not, no open file is forgotten, and nothing is destroyed that the user
\* wanted to keep (logwrite, logfopen, tqt_log_askappend).
LogSound == Log!LogSound

\* Lines that are looked at, selected or counted exist: both screens are as high
\* as the window, the scrollback is not longer than the user wants, and view and
\* selection are of lines that lineptr() finds (term_size, scroll, swap_screen).
LinesExist == Screen!LinesExist

\* What is on the screen stays: ESC[K spares the character just written, a user
\* who looks at the scrollback keeps looking at the same line while the host
\* prints, scrolls, erases and swaps the screens, the main screen comes back from
\* the alternate one as it was, and a resize neither reorders, duplicates nor drops
\* text in the middle (erase_lots, scroll, swap_screen, term_size).
TextKept ==
    []EraseSparesLast /\ Screen!ViewKeeps /\ Screen!MainScreenKept /\ Screen!ResizeKeepsText
=============================================================================
