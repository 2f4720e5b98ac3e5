--------------------------- MODULE SessionWindow ----------------------------
(***************************************************************************)
(* The life of the session windows and of the configuration dialog         *)
(* (tqt/tqtwin.cpp, tqt/tqtdlg.cpp), the modal dialogs that run an event   *)
(* loop of their own inside them (tqt/tqtask.cpp), and the password that   *)
(* the login dialog leaves for the prompt that follows it.                 *)
(*                                                                         *)
(* A modal dialog takes the user's input from all windows, but sockets     *)
(* and timers of every session are served while it is open; the code that  *)
(* opened it is on the stack until the dialogs above it have been closed.  *)
(* The backend is known by what it tells its seat.                         *)
(***************************************************************************)
EXTENDS Integers, Sequences, FiniteSets

CONSTANTS
    Windows,      \* session windows that may be created
    Nobody,       \* not one of them: a null string
    CloseActive,  \* the user may close a window whose session is active
    TwoLogins,    \* two sessions may be logging in at the same time
    Reenter       \* a session's socket may act while its own dialog is open

ParamAssumption ==
    /\ IsFiniteSet(Windows) /\ Windows # {} /\ Nobody \notin Windows
    /\ {CloseActive, TwoLogins, Reenter} \subseteq BOOLEAN

VARIABLES
    running,      \* the program has not called cleanup_exit
    main,         \* s_mainConfigDialog: "none", "hidden", "shown"
    count,        \* s_active_session_count
    window,       \* "none", "open", "closing" (close() accepted), "gone"
    counted,      \* m_sessionCounted
    active,       \* m_sessionActive
    backend,      \* "none", "login", "live" (logged in), "ended"
    freed,        \* the backend ended under a dialog that its layers opened
    modal,        \* modal dialogs, innermost last: [kind, win]
    cached,       \* s_cached_password: the window it was typed for, or Nobody
    crossed,      \* history: a password answered the prompt of another session
    resumed       \* history: a dialog returned into a layer that had been freed

history == <<crossed, resumed>>
state == <<counted, active, backend, freed>>
vars == <<running, main, count, window, state, modal, cached, history>>

SeatDialogs == {"hostkey", "login", "password"}
Kinds == SeatDialogs \cup {"confirm", "fatal", "failed"}

TypeOK ==
    /\ running \in BOOLEAN
    /\ main \in {"none", "hidden", "shown"}
    /\ count \in 0 .. Cardinality(Windows)
    /\ window \in [Windows -> {"none", "open", "closing", "gone"}]
    /\ counted \in [Windows -> BOOLEAN]
    /\ active \in [Windows -> BOOLEAN]
    /\ backend \in [Windows -> {"none", "login", "live", "ended"}]
    /\ freed \in [Windows -> BOOLEAN]
    /\ modal \in Seq([kind : Kinds, win : Windows])
    /\ cached \in Windows \cup {Nobody}
    /\ crossed \in BOOLEAN
    /\ resumed \in BOOLEAN

Has(kinds, w) == \E i \in 1 .. Len(modal) : modal[i].kind \in kinds /\ modal[i].win = w
Push(k, w) == modal' = Append(modal, [kind |-> k, win |-> w])
OnTop(k, w) == modal # <<>> /\ modal[Len(modal)] = [kind |-> k, win |-> w]
Popped == SubSeq(modal, 1, Len(modal) - 1)

-----------------------------------------------------------------------------
(* Sessions begin. A BUG definition is the one below it with a slip.       *)

\* startSession: backend_init may fail, which is reported by a message box.
StartSession(w) ==
    /\ cached' = Nobody
    /\ \/ /\ Push("failed", w)
          /\ active' = [active EXCEPT ![w] = FALSE]
          /\ UNCHANGED <<backend, freed>>
       \/ /\ backend' = [backend EXCEPT ![w] = "login"]
          /\ active' = [active EXCEPT ![w] = TRUE]
          /\ freed' = [freed EXCEPT ![w] = FALSE]
          /\ UNCHANGED modal

NewSessionWindow(w) ==
    /\ window[w] = "none"
    /\ TwoLogins \/ \A v \in Windows : backend[v] # "login"
    /\ window' = [window EXCEPT ![w] = "open"]
    /\ counted' = [counted EXCEPT ![w] = TRUE]
    /\ count' = count + 1
    /\ StartSession(w)

\* main: a session named on the command line, or else the dialog.
Init ==
    /\ running = TRUE
    /\ main \in {"none", "shown"}
    /\ LET first == IF main = "none" THEN {CHOOSE w \in Windows : TRUE} ELSE {} IN
       /\ count = Cardinality(first)
       /\ window = [w \in Windows |-> IF w \in first THEN "open" ELSE "none"]
       /\ counted = [w \in Windows |-> w \in first]
       /\ active = [w \in Windows |-> w \in first]
       /\ backend = [w \in Windows |-> IF w \in first THEN "login" ELSE "none"]
    /\ freed = [w \in Windows |-> FALSE]
    /\ modal = <<>>
    /\ cached = Nobody
    /\ crossed = FALSE
    /\ resumed = FALSE

-----------------------------------------------------------------------------
(* Windows close.                                                          *)

\* The end of closeEvent: the last session brings the dialog back, or ends
\* the program. close() then defers the deletion (WDestructiveClose).
Accepted(w, active1) ==
    /\ active' = [active1 EXCEPT ![w] = FALSE]
    /\ cached' = Nobody
    /\ counted' = [counted EXCEPT ![w] = FALSE]
    /\ window' = [window EXCEPT ![w] = "closing"]
    /\ count' = count - (IF counted[w] THEN 1 ELSE 0)
    /\ main' = IF count' <= 0 /\ main # "none" THEN "shown" ELSE main
    /\ running' = (running /\ ~(count' <= 0 /\ main = "none"))

\* close() does nothing for a widget inside its own close().
IsClosing(w) == window[w] # "open" \/ Has({"confirm"}, w)

\* onSessionClosed.
OnSessionClosed(w) ==
    IF IsClosing(w)
    THEN /\ active' = [active EXCEPT ![w] = FALSE]
         /\ cached' = Nobody
         /\ UNCHANGED <<counted, count, window, main, running>>
    ELSE Accepted(w, active)

Live(w) == backend[w] \in {"login", "live"}

MayClose(w) == CloseActive \/ ~Live(w)

\* The user closes the window; warn is CONF_warn_on_close.
UserClose(w) ==
    /\ modal = <<>>
    /\ window[w] = "open"
    /\ \E warn \in BOOLEAN :
          IF active[w] /\ warn
          THEN Push("confirm", w) /\ UNCHANGED <<running, main, count, window, counted, active, cached>>
          ELSE MayClose(w) /\ Accepted(w, active) /\ UNCHANGED modal
    /\ UNCHANGED <<backend, freed, history>>

AnswerConfirm(w) ==
    /\ OnTop("confirm", w)
    /\ modal' = Popped
    /\ \/ MayClose(w) /\ Accepted(w, active)
       \/ UNCHANGED <<running, main, count, window, counted, active, cached>>
    /\ UNCHANGED <<backend, freed, history>>

\* The deferred deletion, in whichever event loop comes first. It frees the
\* terminal and the settings, but neither the backend nor the line discipline.
Destroy(w) ==
    /\ window[w] = "closing"
    /\ window' = [window EXCEPT ![w] = "gone"]
    /\ cached' = Nobody
    /\ count' = count - (IF counted[w] THEN 1 ELSE 0)
    /\ counted' = [counted EXCEPT ![w] = FALSE]
    /\ UNCHANGED <<running, main, active, backend, freed, modal, history>>

\* The message box of a failed startSession is closed.
AnswerFailed(w) ==
    /\ OnTop("failed", w)
    /\ modal' = Popped
    /\ Accepted(w, active)
    /\ UNCHANGED <<backend, freed, history>>

-----------------------------------------------------------------------------
(* What a backend does to its seat, for as long as there is one: what      *)
(* happens when it is gone is undefined.                                   *)

\* The socket of w is served by the loop of whatever dialog is open.
Served(w) == window[w] # "gone" /\ Live(w) /\ (Reenter \/ ~Has(SeatDialogs, w))

\* ssh_shutdown frees the layers, also those that wait for a dialog.
Ends(w) ==
    /\ backend' = [backend EXCEPT ![w] = "ended"]
    /\ freed' = [freed EXCEPT ![w] = Has(SeatDialogs, w)]

RemoteExit(w) ==
    /\ Served(w)
    /\ Ends(w)
    /\ OnSessionClosed(w)
    /\ UNCHANGED <<modal, history>>

ConnectionFatal(w) ==
    /\ Served(w)
    /\ Ends(w)
    /\ Push("fatal", w)
    /\ UNCHANGED <<running, main, count, window, counted, active, cached, history>>

AnswerFatal(w) ==
    /\ OnTop("fatal", w)
    /\ modal' = Popped
    /\ OnSessionClosed(w)
    /\ UNCHANGED <<backend, freed, history>>

\* Before login has succeeded. The layers run in callbacks, and none runs
\* while another waits for its dialog (EventLoop).
CanPrompt(w) ==
    /\ window[w] # "gone" /\ backend[w] = "login"
    /\ \A v \in Windows : ~Has(SeatDialogs, v)

LoginDone(w) ==
    /\ CanPrompt(w)
    /\ backend' = [backend EXCEPT ![w] = "live"]
    /\ UNCHANGED <<running, main, count, window, counted, active, freed, modal, cached, history>>

\* An unknown host key.
VerifyHostKey(w) ==
    /\ CanPrompt(w)
    /\ Push("hostkey", w)
    /\ UNCHANGED <<running, main, count, window, state, cached, history>>

\* tqt_seat_get_userpass_input for a prompt that echoes: the login dialog.
PromptLogin(w) ==
    /\ CanPrompt(w)
    /\ cached' = Nobody
    /\ Push("login", w)
    /\ UNCHANGED <<running, main, count, window, state, history>>

\* The same for a single prompt that does not echo.
PromptPassword(w) ==
    /\ CanPrompt(w)
    /\ cached' = Nobody
    /\ IF cached # Nobody
       THEN crossed' = (crossed \/ cached # w) /\ UNCHANGED modal
       ELSE Push("password", w) /\ UNCHANGED crossed
    /\ UNCHANGED <<running, main, count, window, state, resumed>>

\* A dialog of the seat returns to the layer that opened it. If the user has
\* cancelled, that layer ends the session.
AnswerSeatDialog(w, kind) ==
    /\ OnTop(kind, w)
    /\ modal' = Popped
    /\ resumed' = (resumed \/ freed[w])
    /\ UNCHANGED crossed
    /\ \/ /\ cached' \in IF kind = "login" THEN {cached, w} ELSE {cached}
          /\ UNCHANGED <<running, main, count, window, state>>
       \/ /\ Live(w)
          /\ backend' = [backend EXCEPT ![w] = "ended"]
          /\ UNCHANGED freed
          /\ OnSessionClosed(w)

-----------------------------------------------------------------------------
(* Menus and the configuration dialog.                                     *)

MenuNewSession(w) ==
    /\ modal = <<>> /\ window[w] = "open"
    /\ main' = "shown"
    /\ UNCHANGED <<running, count, window, state, modal, cached, history>>

MenuDuplicateSession(w) ==
    /\ modal = <<>> /\ window[w] = "open"
    /\ \E v \in Windows : NewSessionWindow(v)
    /\ UNCHANGED <<running, main, history>>

MenuRestartSession(w) ==
    /\ modal = <<>> /\ window[w] = "open"
    /\ ~active[w]
    /\ TwoLogins \/ \A v \in Windows : backend[v] # "login"
    /\ StartSession(w)
    /\ UNCHANGED <<running, main, count, window, counted, history>>

\* PuTTYConfigDialog::accept, outside a session.
DialogAccept ==
    /\ modal = <<>> /\ main = "shown"
    /\ main' = "hidden"
    /\ \E w \in Windows : NewSessionWindow(w)
    /\ UNCHANGED <<running, history>>

BUGDialogReject ==
    /\ modal = <<>> /\ main = "shown"
    /\ running' = FALSE
    /\ UNCHANGED <<main, count, window, state, modal, cached, history>>

DialogReject ==
    /\ modal = <<>> /\ main = "shown"
    /\ IF count <= 0
       THEN running' = FALSE /\ UNCHANGED main
       ELSE main' = "hidden" /\ UNCHANGED running
    /\ UNCHANGED <<count, window, state, modal, cached, history>>

-----------------------------------------------------------------------------
Step(w) ==
    \/ UserClose(w)
    \/ AnswerConfirm(w)
    \/ Destroy(w)
    \/ AnswerFailed(w)
    \/ RemoteExit(w)
    \/ ConnectionFatal(w)
    \/ AnswerFatal(w)
    \/ LoginDone(w)
    \/ VerifyHostKey(w)
    \/ PromptLogin(w)
    \/ PromptPassword(w)
    \/ \E kind \in SeatDialogs : AnswerSeatDialog(w, kind)
    \/ MenuNewSession(w)
    \/ MenuDuplicateSession(w)
    \/ MenuRestartSession(w)

Next == running /\ (DialogAccept \/ DialogReject \/ \E w \in Windows : Step(w))

Spec == Init /\ [][Next]_vars

-----------------------------------------------------------------------------
(* Properties.                                                             *)

\* The program never runs on with nothing to be seen: while it runs, the
\* dialog is shown, a window is open or a message waits (closeEvent, reject).
ProgramVisible == running => main = "shown" \/ modal # <<>> \/ \E w \in Windows : window[w] = "open"

\* The program does not exit under an open session (s_active_session_count).
NoPrematureExit == ~running => \A w \in Windows : window[w] # "open"

\* A password typed into the login dialog of one session is never the answer
\* to the prompt of another (s_cached_password is common to all of them).
PasswordKept == ~crossed

\* Windows, dialogs and the count of sessions: the program is seen while it
\* runs, does not exit under a session, and keeps passwords apart as long as
\* one session at a time logs in.
SessionsSound ==
    /\ TypeOK /\ ProgramVisible /\ NoPrematureExit
    /\ ~TwoLogins => PasswordKept

-----------------------------------------------------------------------------
(* What the code is meant to do and does not: see Deviations in README.md. *)

\* When a window has been destroyed, its session is over: nothing arrives for
\* a seat that is gone (~PuTTYTermWidget).
NoOutputToDeadSeat == \A w \in Windows : window[w] = "gone" => ~Live(w)

\* No dialog returns into a layer that was freed while it was open.
NoReturnToFreedLayer == ~resumed
=============================================================================
