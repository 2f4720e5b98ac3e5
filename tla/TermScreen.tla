----------------------------- MODULE TermScreen -----------------------------
(***************************************************************************)
(* The lines of the terminal emulator (terminal.c): the two screens, the   *)
(* scrollback, the part of it the user looks at (disptop) and the          *)
(* selection, under the host's output, resizes, reconfiguration and the    *)
(* user's scrolling and selecting.                                         *)
(*                                                                         *)
(* A line is Blank or one of a few Texts.  Columns are left out.  The host *)
(* may put the cursor and the margins anywhere, so every action that uses  *)
(* them picks them; that they are always on the screen is what TermCursor  *)
(* shows.  A selection starts and ends somewhere in a row: end.x = 0 says  *)
(* that it ends before that row's first cell.                              *)
(***************************************************************************)
EXTENDS Integers, Sequences, SequencesExt

CONSTANTS Texts,     \* what may stand in a line
          Blank,
          Heights,   \* the heights the window may have
          Profiles   \* what is configured, and what host and user do

\* texts: what the host writes.  saves: the sizes of the scrollback the user
\* may choose.  noalt: "Disable switching to alternate screen", at first.
\* ondisp: "Reset scrollback on display activity".  selects: the user selects
\* text.  changes: the user changes "Push erased text into scrollback" and
\* whether there is an alternate screen.
ProfileType ==
    [texts : SUBSET Texts, saves : SUBSET Nat, noalt : BOOLEAN, ondisp : BOOLEAN,
     selects : BOOLEAN, changes : BOOLEAN]

ScreenAssumption ==
    /\ Heights \subseteq Nat \ {0} /\ Heights # {}
    /\ Blank \notin Texts
    /\ Profiles \subseteq ProfileType

VARIABLES profile, \* one of the Profiles
          term,    \* the Terminal structure
          kept,    \* the main screen as it was when the other one came, or <<>>
          event    \* what the last step was, and the cursor's row then

vars == <<profile, term, kept, event>>

NoSelection == [on |-> FALSE, start |-> 0, end |-> 0, x |-> 0]

Event(kind, y) == [kind |-> kind, y |-> y]

Blanks(n) == [i \in 1 .. n |-> Blank]

Init ==
    /\ profile \in Profiles
    /\ \E rows \in Heights, save \in profile.saves, erase \in BOOLEAN :
           term = [rows |-> rows, screen |-> Blanks(rows),
                   alt_screen |-> Blanks(rows), alt_which |-> FALSE,
                   alt_sblines |-> 0, scrollback |-> <<>>, tempsblines |-> 0,
                   savelines |-> save, disptop |-> 0, sel |-> NoSelection,
                   erase_to_scrollback |-> erase, no_alt_screen |-> profile.noalt]
    /\ kept = <<>>
    /\ event = Event("none", 0)

(***************************************************************************)
(* Functions of terminal.c, on a Terminal t.  A BUG definition is the one  *)
(* below it with a plausible slip.                                         *)
(***************************************************************************)
\* how many lines there are above the screen, the main screen's included
\* while the alternate one is in use
sblines(t) ==
    Len(t.scrollback) + IF t.erase_to_scrollback /\ t.alt_which
                        THEN t.alt_sblines ELSE 0

\* the line lineptr() finds for row y, where there is one
lineptr(t, y) ==
    LET altlines == IF t.erase_to_scrollback /\ t.alt_which
                    THEN t.alt_sblines ELSE 0
    IN  IF y >= 0 THEN t.screen[y + 1]
        ELSE IF y < -altlines
             THEN t.scrollback[y + altlines + Len(t.scrollback) + 1]
        ELSE t.alt_screen[y + t.alt_sblines + 1]

\* one more than find_last_nonempty_line
NonEmpty(lines) ==
    LET used == {i \in DOMAIN lines : lines[i] # Blank}
    IN  IF used = {} THEN 0 ELSE CHOOSE i \in used : \A j \in used : j <= i

deselect(t) == [t EXCEPT !.sel = NoSelection]

\* check_selection for the rows from `from' up to, not including, `to'
check_selection(t, from, to) ==
    IF /\ from < t.sel.end \/ (from = t.sel.end /\ t.sel.x > 0)
       /\ t.sel.start < to
    THEN deselect(t) ELSE t

\* the selection after one line of the region top..bot has moved up
SelUp(t, top, bot, low) ==
    LET Moved(y) == IF y >= low /\ y <= bot
                    THEN (IF y - 1 < low THEN low ELSE y - 1) ELSE y
        cut == t.sel.end = low /\ low <= bot
    IN  IF ~t.sel.on THEN t.sel
        ELSE [on |-> TRUE, start |-> Moved(t.sel.start),
              end |-> Moved(t.sel.end), x |-> IF cut THEN 0 ELSE t.sel.x]

SelDown(t, top, bot) ==
    LET Moved(y) == IF y >= top /\ y <= bot THEN y + 1 ELSE y
    IN  IF ~t.sel.on THEN t.sel
        ELSE [on |-> TRUE, start |-> Moved(t.sel.start),
              end |-> Moved(t.sel.end), x |-> IF t.sel.end = bot THEN 0 ELSE t.sel.x]

BUGScrollUp(t, top, bot, sb) ==
    LET save == sb /\ top = 0 /\ ~t.alt_which /\ t.savelines > 0
        full == Len(t.scrollback) = t.savelines
        s    == [t EXCEPT !.screen = InsertAt(RemoveAt(@, top + 1), bot + 1, Blank)]
    IN  IF save
        THEN [s EXCEPT
                !.scrollback = Append(IF full THEN Tail(@) ELSE @,
                                      t.screen[top + 1]),
                !.tempsblines = IF full THEN @ ELSE @ + 1]
        ELSE s

\* one round of scroll() forward: the top line of the region goes, to the
\* scrollback if it may, and a blank one comes at the bottom
ScrollUp(t, top, bot, sb) ==
    LET save == sb /\ top = 0 /\ ~t.alt_which
        full == Len(t.scrollback) = t.savelines
        s    == [t EXCEPT
                   !.screen = InsertAt(RemoveAt(@, top + 1), bot + 1, Blank),
                   !.sel = SelUp(t, top, bot,
                                 IF save THEN -t.savelines ELSE top)]
    IN  IF save /\ t.savelines > 0
        THEN [s EXCEPT
                !.scrollback = Append(IF full THEN Tail(@) ELSE @,
                                      t.screen[top + 1]),
                !.tempsblines = IF full THEN @ ELSE @ + 1,
                !.disptop = IF -t.savelines < @ /\ @ < 0 THEN @ - 1 ELSE @]
        ELSE s

ScrollDown(t, top, bot) ==
    [t EXCEPT !.screen = InsertAt(RemoveAt(@, bot + 1), top + 1, Blank),
              !.sel = SelDown(t, top, bot)]

\* one round of scroll()
Round(t, top, bot, down, sb) ==
    IF down THEN ScrollDown(t, top, bot) ELSE ScrollUp(t, top, bot, sb)

\* n rounds of it
Rounds(t, top, bot, n, down, sb) ==
    LET f[i \in 0 .. n] == IF i = 0 THEN t ELSE Round(f[i - 1], top, bot, down, sb)
    IN  f[n]

\* no more rounds than the region has lines
scroll(t, top, bot, lines, sb) ==
    LET size == bot - top + 1
        n    == IF lines < 0 THEN -lines ELSE lines
    IN  Rounds(t, top, bot, IF n > size THEN size ELSE n, lines < 0, sb)

\* erase_lots of the whole screen, or from its first cell
EraseScreen(t) ==
    LET s == check_selection(t, 0, t.rows)
        n == NonEmpty(s.screen)
        e == IF ~s.erase_to_scrollback
             THEN [s EXCEPT !.screen = Blanks(s.rows)]
             ELSE IF n > 0 THEN scroll(s, 0, n - 1, n, TRUE) ELSE s
    IN  IF t.alt_which THEN e ELSE [e EXCEPT !.tempsblines = 0]

\* the view moves with the lines that a swap takes away or brings
Swapped(t, which) ==
    LET shift == t.erase_to_scrollback /\ t.disptop < 0
        away  == IF shift /\ t.alt_which
                 THEN (IF t.disptop + t.alt_sblines > 0 THEN 0
                       ELSE t.disptop + t.alt_sblines)
                 ELSE t.disptop
        s     == [t EXCEPT !.alt_which = which, !.screen = t.alt_screen,
                           !.alt_screen = t.screen, !.disptop = away,
                           !.alt_sblines = NonEmpty(t.screen)]
        to    == s.disptop - s.alt_sblines
    IN  IF s.erase_to_scrollback /\ which /\ s.disptop < 0
        THEN [s EXCEPT !.disptop = IF to < -sblines(s) THEN -sblines(s) ELSE to]
        ELSE s

BUGswap_screen(t, which, reset) ==
    IF which = t.alt_which THEN t
    ELSE [t EXCEPT !.alt_which = which, !.screen = t.alt_screen,
                   !.alt_screen = t.screen, !.alt_sblines = NonEmpty(t.screen)]

swap_screen(t, which, reset) ==
    LET s == IF which # t.alt_which THEN Swapped(t, which) ELSE t
    IN  IF reset /\ which THEN EraseScreen(s) ELSE s

\* power_on: it says alt_which is 0 before it swaps.
power_on(t, clear) ==
    LET a == EraseScreen(swap_screen([t EXCEPT !.alt_which = FALSE],
                                     TRUE, FALSE))
        m == swap_screen(a, FALSE, FALSE)
        e == IF clear THEN EraseScreen(m) ELSE m
    IN  IF NonEmpty(e.screen) = e.rows
        THEN scroll(e, 0, e.rows - 1, 1, TRUE) ELSE e

\* the reset of the view that comes with a change of the display
Shown(t) == IF profile.ondisp THEN [t EXCEPT !.disptop = 0] ELSE t

(***************************************************************************)
(* What the host sends                                                     *)
(***************************************************************************)
Rows == 0 .. term.rows - 1

\* the regions DECSTBM can set, and the whole screen
Regions == {r \in Rows \X Rows : r[1] < r[2]} \union {<<0, term.rows - 1>>}

\* Every character ends with a check of the selection against the cursor's
\* cell, in row y.
Touched(t, y) == {t, check_selection(t, y, y + 1)}

\* A step of the host, which leaves the cursor in row y.
Host(t, y) ==
    term' \in Touched(t, y) /\ event' = Event("output", 0) /\ UNCHANGED kept

\* a character, or an erased part of a line, in row y
Write ==
    \E y \in Rows, line \in profile.texts \union {Blank} :
        Host([term EXCEPT !.screen[y + 1] = line], y)

\* LF and the wraps at the bottom margin; SU; RI and SD
Scroll ==
    \E r \in Regions, n \in 1 .. term.rows, y \in Rows :
        \/ Host(scroll(term, r[1], r[2], n, TRUE), y)
        \/ Host(scroll(term, r[1], r[2], -n, TRUE), y)

\* IL and DL
InsertDelete ==
    \E r \in Regions, n \in 1 .. term.rows, y \in Rows :
        /\ y <= r[2]
        /\ \/ Host(scroll(term, y, r[2], -n, FALSE), y)
           \/ Host(scroll(term, y, r[2], n, TRUE), y)

\* ED from the cursor, or to it
EraseBelow ==
    \E y \in Rows : y > 0 /\
        Host(Shown([check_selection(term, y + 1, term.rows) EXCEPT
                 !.screen = [i \in 1 .. term.rows |->
                                IF i > y + 1 THEN Blank ELSE @[i]]]), y)

EraseAbove ==
    \E y \in Rows :
        Host(Shown([check_selection(term, 0, y + 1) EXCEPT
                 !.screen = [i \in 1 .. term.rows |->
                                IF i < y + 1 THEN Blank ELSE @[i]]]), y)

\* ED of the whole screen
Erase == \E y \in Rows : Host(Shown(EraseScreen(term)), y)

\* ED 3, and the menu's "Clear Scrollback"
term_clrsb ==
    LET t == IF term.sel.on /\ term.sel.start < 0 THEN deselect(term) ELSE term
    IN  /\ term' = [t EXCEPT !.disptop = 0, !.scrollback = <<>>,
                             !.tempsblines = 0, !.alt_sblines = 0]
        /\ event' = Event("clear", 0) /\ UNCHANGED kept

\* modes 47, 1047 and 1049
SwapScreens ==
    \E state \in BOOLEAN, reset \in BOOLEAN, y \in Rows :
        LET which == state /\ ~term.no_alt_screen IN
        /\ term' \in Touched(Shown(swap_screen(deselect(term), which, reset)), y)
        /\ kept' = IF ~which THEN <<>>
                   ELSE IF term.alt_which THEN kept ELSE term.screen
        /\ event' = Event("swap", 0)

\* RIS
RIS ==
    \E y \in Rows : /\ term' \in Touched(Shown(power_on(term, TRUE)), y)
                    /\ kept' = <<>> /\ event' = Event("reset", 0)

(***************************************************************************)
(* What the user does                                                      *)
(***************************************************************************)
\* term_pwron: "Reset Terminal" clears, "Restart Session" does not
term_pwron ==
    \E clear \in BOOLEAN :
        /\ term' = deselect([power_on(term, clear) EXCEPT !.disptop = 0])
        /\ kept' = <<>>
        /\ event' = Event(IF clear THEN "reset" ELSE "restart", 0)

\* term_scroll, and a key press, which goes to the bottom
term_scroll ==
    /\ \E d \in -sblines(term) .. 0 : term' = [term EXCEPT !.disptop = d]
    /\ event' = Event("view", 0) /\ UNCHANGED kept

\* The user selects what can be seen, or scrolled to.
Select ==
    /\ profile.selects
    /\ \E s, e \in -sblines(term) .. term.rows - 1 :
           /\ s <= e
           /\ term' = [term EXCEPT !.sel = [on |-> TRUE, start |-> s,
                                            end |-> e, x |-> 1]]
    /\ event' = Event("view", 0) /\ UNCHANGED kept

\* term_reconfig: the swap comes before the new settings are copied
term_reconfig ==
    /\ profile.changes
    /\ \E erase, noalt \in BOOLEAN :
           /\ term' = [IF noalt THEN swap_screen(term, FALSE, FALSE) ELSE term
                          EXCEPT !.erase_to_scrollback = erase,
                                 !.no_alt_screen = noalt]
           /\ kept' = IF noalt THEN <<>> ELSE kept
    /\ event' = Event("reconfig", 0)

\* term_size: the loops over the main screen m, with the cursor in row y
Enlarged(m, newrows) ==
    LET n    == newrows - m.rows
        back == IF m.tempsblines < n THEN m.tempsblines ELSE n
        len  == Len(m.scrollback)
    IN  [m EXCEPT !.screen = SubSeq(m.scrollback, len - back + 1, len) \o @
                                 \o Blanks(n - back),
                  !.scrollback = SubSeq(@, 1, len - back),
                  !.tempsblines = @ - back]

Shrunk(m, newrows, y) ==
    LET push == IF y >= newrows THEN y - newrows + 1 ELSE 0
    IN  [m EXCEPT !.screen = SubSeq(@, push + 1, push + newrows),
                  !.scrollback = @ \o SubSeq(m.screen, 1, push),
                  !.tempsblines = @ + push]

Trimmed(m, newsave) ==
    LET len == Len(m.scrollback)
        sb  == IF len > newsave
               THEN SubSeq(m.scrollback, len - newsave + 1, len)
               ELSE m.scrollback
    IN  [m EXCEPT !.scrollback = sb,
                  !.tempsblines = IF Len(sb) < @ THEN Len(sb) ELSE @]

term_size ==
    \E newrows \in Heights, newsave \in profile.saves, y \in Rows :
        LET m == swap_screen(deselect(term), FALSE, FALSE)
            r == IF newrows >= m.rows THEN Enlarged(m, newrows)
                 ELSE Shrunk(m, newrows, y)
            n == [Trimmed(r, newsave) EXCEPT
                    !.disptop = 0, !.alt_screen = Blanks(newrows),
                    !.alt_sblines = 0, !.rows = newrows, !.savelines = newsave]
        IN  /\ term' = swap_screen(n, term.alt_which, FALSE)
            /\ kept' = <<>>
            /\ event' = Event("resize", y)

Next ==
    /\ \/ Write \/ Scroll \/ InsertDelete \/ EraseBelow \/ EraseAbove \/ Erase
       \/ term_clrsb \/ SwapScreens \/ RIS
       \/ term_pwron \/ term_scroll \/ Select \/ term_reconfig \/ term_size
    /\ UNCHANGED profile

Spec == Init /\ [][Next]_vars

(***************************************************************************)
(* Properties                                                              *)
(***************************************************************************)
\* The trees have the lengths that term_size asserts: rows in both screens, no
\* more scrollback than the user wants, and no more lines to bring back on
\* screen than there are.
LengthsAgree ==
    /\ Len(term.screen) = term.rows /\ Len(term.alt_screen) = term.rows
    /\ term.tempsblines \in 0 .. Len(term.scrollback)
    /\ Len(term.scrollback) <= term.savelines

\* The view is always of lines that exist: do_paint asks lineptr() for each,
\* which ends the program for a line that is not there.
ViewInRange == term.disptop \in -sblines(term) .. 0

\* What is selected are lines that exist: clipme reads each of them.
SelectionInRange ==
    term.sel.on =>
        \A y \in term.sel.start .. term.sel.end :
            (y = term.sel.end => term.sel.x > 0)
                => y \in -sblines(term) .. term.rows - 1

\* Lines that are looked at, selected or counted exist: the view as long as the
\* user does not change what counts as scrollback, and the selection if also
\* there is no alternate screen.
LinesExist ==
    /\ LengthsAgree
    /\ ~profile.changes => ViewInRange
    /\ profile.noalt /\ ~profile.changes => SelectionInRange

TopLine(t) == lineptr(t, t.disptop)

Virtual(t) == IF t.erase_to_scrollback /\ t.alt_which THEN t.alt_sblines ELSE 0

\* A user who looks at the scrollback keeps looking at the same line while the
\* host prints, scrolls, erases and swaps the screens, until that line reaches
\* the top end of the scrollback (scroll, swap_screen).
ViewStep ==
    event'.kind \in {"output", "swap"} /\ ~profile.ondisp
    /\ term.disptop < -Virtual(term) /\ term'.disptop > -sblines(term')
    => TopLine(term') = TopLine(term)

ViewKeeps == [][ViewStep]_vars

\* However the host writes to the alternate screen and however often it asks
\* for it again, the main screen comes back as it was.
MainScreenKept ==
    [][event'.kind = "swap" /\ term.alt_which /\ ~term'.alt_which /\ kept # <<>>
       => term'.screen = kept]_vars

Main(t) == IF t.alt_which THEN t.alt_screen ELSE t.screen

Everything(t) == t.scrollback \o Main(t)

\* A resize neither reorders, duplicates nor drops text in the middle: what
\* goes is the oldest scrollback, if there is too much, and the bottom of a
\* screen that shrinks, and what comes is blank.
ResizeKeepsText ==
    [][event'.kind = "resize" =>
       LET old == Everything(term)
           new == Everything(term')
       IN  \E i \in 1 .. Len(old) + 1, j \in 0 .. Len(old) :
               /\ i > 1 => Len(term'.scrollback) = term'.savelines
               /\ j < Len(old) => term'.rows < term.rows
               /\ new = SubSeq(old, i, j) \o Blanks(Len(new) - (j - i + 1))]_vars

-----------------------------------------------------------------------------
(* What the code is meant to do and does not: see Deviations in README.md. *)

\* A screen that shrinks drops lines with text below the cursor only if there
\* are no lines above the cursor left to move to the scrollback.
ShrinkDropsBlanks ==
    [][event'.kind = "resize" /\ ~term.alt_which /\ term'.rows < term.rows
       /\ Len(term'.scrollback) = Len(term.scrollback) /\ event'.y > 0
       => NonEmpty(term.screen) <= term'.rows]_vars

\* Restarting the session (term_pwron without `clear') keeps the text of the
\* primary screen.
RestartKeepsText ==
    [][event'.kind = "restart" /\ NonEmpty(Main(term)) > 0
       => Main(term)[NonEmpty(Main(term))] \in
              {Everything(term')[i] : i \in DOMAIN Everything(term')}]_vars
=============================================================================
