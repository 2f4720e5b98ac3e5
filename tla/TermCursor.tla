----------------------------- MODULE TermCursor -----------------------------
(***************************************************************************)
(* The cursor of the terminal emulator (terminal.c): where every control   *)
(* function, every printed character, every swap of the two screens and    *)
(* every resize of the window puts it, with the scroll margins and the     *)
(* wrapnext flag that says "the next character goes to the next line".     *)
(*                                                                         *)
(* The text itself is left out.  What depends on it (is a tab stop set, is *)
(* a line double-width, which lines come back from the scrollback) is a    *)
(* choice.  The parser is left out too: an action is one complete control  *)
(* function.                                                               *)
(***************************************************************************)
EXTENDS Integers

CONSTANTS Heights,              \* the heights the window may have
          Widths,               \* the widths the window may have
          TRUST_SIGIL_WIDTH,    \* columns kept for the sigil on a trusted line
          Confs,                \* the configurations the user may choose
          Modes                 \* the DEC modes 2, 6 and 7 the host uses

ASSUME SizesAssumption ==
    /\ Heights \in SUBSET (Nat \ {0}) /\ Heights # {}
    /\ Widths \in SUBSET (Nat \ {0}) /\ Widths # {}
    /\ TRUST_SIGIL_WIDTH \in Nat
    /\ Confs \in SUBSET [wrap_mode : BOOLEAN, dec_om : BOOLEAN,
                         no_alt_screen : BOOLEAN]
    /\ Confs # {}
    /\ Modes \subseteq {"DECANM", "DECOM", "DECAWM"}

VARIABLES rows, cols,
          cur,         \* the settings of the screen in use
          alt,         \* the alt_* fields: the settings of the other one
          alt_which,   \* the alternate screen is in use
          vt52_mode,
          trusted,     \* what arrives is marked with the trust sigil
          conf,        \* the settings the power-on state is made from
          wrote,       \* the cell the last step printed to, if it printed
          entry        \* the main cursor when mode 1049 left the main screen

history == <<wrote, entry>>
vars == <<rows, cols, cur, alt, alt_which, vt52_mode, trusted, conf, history>>

Pos == [x : Int, y : Int]

Settings == [curs : Pos, savecurs : Pos, wrapnext : BOOLEAN,
             save_wnext : BOOLEAN, marg_t : Int, marg_b : Int,
             dec_om : BOOLEAN, wrap : BOOLEAN]

\* values of wrote that are no cell: the last step did not print, or it was
\* a reset of the terminal
Nowhere == [x |-> -1, y |-> -1]
JustReset == [x |-> -2, y |-> -2]

At(x, y) == [x |-> x, y |-> y]

\* power_on's values for a screen of r rows
Fresh(r) ==
    [curs |-> At(0, 0), savecurs |-> At(0, 0), wrapnext |-> FALSE,
     save_wnext |-> FALSE, marg_t |-> 0, marg_b |-> r - 1,
     dec_om |-> conf.dec_om, wrap |-> conf.wrap_mode]

\* A BUG definition is the one below it with a plausible slip.
Clip(n, low, high) == IF n < low THEN low ELSE IF n > high THEN high ELSE n

Init ==
    /\ rows \in Heights /\ cols \in Widths /\ conf \in Confs
    /\ cur = Fresh(rows) /\ alt = Fresh(rows)
    /\ alt_which = FALSE /\ vt52_mode = FALSE /\ trusted = FALSE
    /\ wrote = Nowhere /\ entry = Nowhere

(***************************************************************************)
(* Moving                                                                  *)
(***************************************************************************)
\* where move() goes from row y0, with margins t to b
MoveY(y, clip, y0, t, b) ==
    LET up   == IF clip > 0 /\ (y0 >= t \/ clip = 2) /\ y < t THEN t ELSE y
        down == IF clip > 0 /\ (y0 <= b \/ clip = 2) /\ up > b THEN b ELSE up
    IN  Clip(down, 0, rows - 1)

Frame == UNCHANGED <<rows, cols, alt, alt_which, vt52_mode, trusted, conf,
                     entry>>

Becomes(c) == cur' = c /\ wrote' = Nowhere /\ Frame

Move(x, y, clip) ==
    Becomes([cur EXCEPT
        !.curs = At(Clip(x, 0, cols - 1),
                    MoveY(y, clip, cur.curs.y, cur.marg_t, cur.marg_b)),
        !.wrapnext = FALSE])

\* The row after row y, where the region scrolls at its bottom margin.
Down(y) == IF y = cur.marg_b \/ y >= rows - 1 THEN y ELSE y + 1

Up(y) == IF y = cur.marg_t \/ y <= 0 THEN y ELSE y - 1

\* CUU, CUD, CUF, CUB, CNL, CPL and their aliases; VT52's A to D
Relative ==
    \E n \in 1 .. (IF vt52_mode THEN 1 ELSE rows) :
        \/ Move(cur.curs.x, cur.curs.y - n, 1)
        \/ Move(cur.curs.x, cur.curs.y + n, 1)
        \/ ~vt52_mode /\ Move(0, cur.curs.y + n, 1)
        \/ ~vt52_mode /\ Move(0, cur.curs.y - n, 1)

Sideways ==
    \E n \in 1 .. (IF vt52_mode THEN 1 ELSE cols) :
        \/ Move(cur.curs.x + n, cur.curs.y, 1)
        \/ Move(cur.curs.x - n, cur.curs.y, 1)

Origin == IF cur.dec_om THEN cur.marg_t ELSE 0

\* CHA
CHA == ~vt52_mode /\ \E n \in 1 .. cols : Move(n - 1, cur.curs.y, 0)

\* VPA, and CUP and HVP, which count from the top margin in origin mode
CUP ==
    /\ ~vt52_mode
    /\ \E n \in 1 .. rows, x \in {cur.curs.x} \union 0 .. cols - 1 :
           Move(x, Origin + n - 1, IF cur.dec_om THEN 2 ELSE 0)

\* ESC Y of the VT52 in its two steps, whose argument may be a control
VT52Address ==
    /\ vt52_mode
    /\ \/ \E y \in -1 .. rows : Move(cur.curs.x, y, 0)
       \/ \E x \in -1 .. cols : Move(x, cur.curs.y, 0)

\* ESC H and ESC E of the VT52, and form feed on an SCO terminal
Home == Move(0, 0, 0)

(***************************************************************************)
(* Control characters                                                      *)
(***************************************************************************)
Backspace ==
    LET p == cur.curs
    IN  Becomes(IF p.x = 0 /\ (p.y = 0 \/ ~cur.wrap) THEN cur
                ELSE IF p.x = 0 /\ p.y > 0
                     THEN [cur EXCEPT !.curs = At(cols - 1, p.y - 1)]
                ELSE IF cur.wrapnext THEN [cur EXCEPT !.wrapnext = FALSE]
                ELSE [cur EXCEPT !.curs = At(p.x - 1, p.y)])

Delete ==
    LET p == cur.curs
    IN  Becomes([cur EXCEPT
            !.curs = IF p.x # 0 /\ ~cur.wrapnext THEN At(p.x - 1, p.y) ELSE p,
            !.wrapnext = FALSE])

\* CR, which the setting crhaslf turns into CR LF, and ESC l of the VT52
CarriageReturn ==
    \E y \in {cur.curs.y, Down(cur.curs.y)} :
        Becomes([cur EXCEPT !.curs = At(0, y), !.wrapnext = FALSE])

\* LF, VT, FF, IND, NEL
LineFeed ==
    \E x \in {cur.curs.x, 0} :
        Becomes([cur EXCEPT !.curs = At(x, Down(cur.curs.y)),
                            !.wrapnext = FALSE])

\* RI; ESC I of the VT52 scrolls at the top of the screen
ReverseLineFeed ==
    LET y == cur.curs.y
    IN  Becomes([cur EXCEPT
            !.curs = At(cur.curs.x,
                        IF vt52_mode THEN (IF y > 0 THEN y - 1 ELSE y)
                                     ELSE Up(y)),
            !.wrapnext = FALSE])

\* HT: to the next tab stop, wherever that is, or to the edge of the line
Tab ==
    \E x \in {cur.curs.x + 1} \union (cur.curs.x + 1) .. (cols - 1),
       wide \in BOOLEAN :
        LET edge == IF wide THEN cols \div 2 ELSE cols
        IN  Becomes([cur EXCEPT
                !.curs = At(IF x >= edge THEN edge - 1 ELSE x, @.y)])

\* CBT
BackTab ==
    /\ ~vt52_mode
    /\ \E x \in 0 .. cur.curs.x :
           /\ cur.curs.x > 0 => x < cur.curs.x
           /\ Becomes([cur EXCEPT !.curs = At(x, @.y)])

\* SU and SD scroll the region; the cursor does not move.
ScrollRegion ==
    ~vt52_mode /\ Becomes([cur EXCEPT !.wrapnext = FALSE])

(***************************************************************************)
(* Printing                                                                *)
(***************************************************************************)
\* term_display_graphic_char of a character one or two columns wide
GraphicChar(width) ==
    LET wraps    == cur.wrapnext /\ cur.wrap
        p        == IF wraps THEN At(0, Down(cur.curs.y)) ELSE cur.curs
        linecols == IF trusted THEN cols - TRUST_SIGIL_WIDTH ELSE cols
        w        == IF linecols < 2 THEN 1 ELSE width
        q        == IF w = 2 /\ p.x >= linecols - 1 THEN At(0, Down(p.y))
                    ELSE p
        full     == q.x + w >= linecols
        wrap52   == full /\ cur.wrap /\ vt52_mode
    IN  /\ cur' = [cur EXCEPT
               !.curs = IF wrap52 THEN At(0, Down(q.y))
                        ELSE IF full THEN At(linecols - 1, q.y)
                        ELSE At(q.x + w, q.y),
               !.wrapnext = ~wrap52 /\ (full \/ (@ /\ ~wraps))]
        /\ wrote' = IF wrap52 THEN Nowhere ELSE At(q.x + w - 1, q.y)
        /\ Frame

\* term_set_trust_status, called by the seat around its own prompts
SetTrustStatus ==
    /\ trusted' = ~trusted /\ wrote' = Nowhere
    /\ UNCHANGED <<rows, cols, cur, alt, alt_which, vt52_mode, conf, entry>>

(***************************************************************************)
(* Margins, modes and the saved cursor                                     *)
(***************************************************************************)
\* DECSTBM
SetMargins ==
    /\ ~vt52_mode
    /\ \E top, bot \in 0 .. rows - 1 :
           /\ bot - top > 0
           /\ Becomes([cur EXCEPT
                  !.marg_t = top, !.marg_b = bot,
                  !.curs = At(0, IF cur.dec_om THEN top ELSE 0)])

SaveCursor(s) == [s EXCEPT !.savecurs = s.curs, !.save_wnext = s.wrapnext]

RestoreCursor(s) ==
    LET x == IF s.savecurs.x >= cols THEN cols - 1 ELSE s.savecurs.x
        y == IF s.savecurs.y >= rows THEN rows - 1 ELSE s.savecurs.y
    IN  [s EXCEPT !.curs = At(x, y),
                  !.wrapnext = s.save_wnext /\ x >= cols - 1]

\* DECSC and DECRC, and mode 1048
SaveRestore ==
    /\ ~vt52_mode
    /\ Becomes(SaveCursor(cur)) \/ Becomes(RestoreCursor(cur))

\* DECANM, DECOM and DECAWM; ESC <, ESC v and ESC w of the VT52
SetMode ==
    \/ /\ "DECANM" \in Modes
       /\ vt52_mode' = ~vt52_mode /\ wrote' = Nowhere
       /\ UNCHANGED <<rows, cols, cur, alt, alt_which, trusted, conf, entry>>
    \/ /\ "DECOM" \in Modes /\ ~vt52_mode
       /\ Becomes([cur EXCEPT !.dec_om = ~@])
    \/ "DECAWM" \in Modes /\ Becomes([cur EXCEPT !.wrap = ~@])

\* DECCOLM asks for another width and clears the screen at once.
ColumnMode ==
    /\ ~vt52_mode
    /\ cur' = [cur EXCEPT !.marg_t = 0, !.marg_b = rows - 1,
                          !.curs = At(0, 0), !.wrapnext = FALSE]
    /\ alt' = [alt EXCEPT !.marg_t = 0, !.marg_b = rows - 1]
    /\ wrote' = Nowhere
    /\ UNCHANGED <<rows, cols, alt_which, vt52_mode, trusted, conf, entry>>

(***************************************************************************)
(* The two screens                                                         *)
(***************************************************************************)
\* swap_screen: what it does to the settings in use, c, and the others, a
SwappedCur(c, a, which, reset, keep) ==
    IF which = alt_which \/ (reset /\ which) THEN c
    ELSE [a EXCEPT !.curs = IF keep THEN c.curs ELSE @]

BUGSwappedAlt(c, a, which) == IF which = alt_which THEN a ELSE cur

SwappedAlt(c, a, which) == IF which = alt_which THEN a ELSE c

Swapped(c, a, which) ==
    /\ cur' = c /\ alt' = a /\ alt_which' = which
    /\ UNCHANGED <<rows, cols, vt52_mode, trusted>>

\* modes 47 and 1047
AltScreen ==
    /\ ~vt52_mode
    /\ \E state \in BOOLEAN, clear \in BOOLEAN :
           LET which == state /\ ~conf.no_alt_screen
           IN  /\ Swapped(SwappedCur(cur, alt, which, clear, clear),
                          SwappedAlt(cur, alt, which), which)
               /\ entry' = IF which /\ alt_which THEN entry ELSE Nowhere
    /\ wrote' = Nowhere
    /\ UNCHANGED conf

\* mode 1049 set: save the cursor, then swap
EnterAltScreen ==
    /\ ~vt52_mode /\ ~conf.no_alt_screen
    /\ LET c == SaveCursor(cur)
       IN  Swapped(SwappedCur(c, alt, TRUE, TRUE, FALSE),
                   SwappedAlt(c, alt, TRUE), TRUE)
    /\ entry' = IF alt_which THEN entry ELSE cur.curs
    /\ wrote' = Nowhere
    /\ UNCHANGED conf

\* mode 1049 reset: swap back, then restore the cursor
Left == RestoreCursor(SwappedCur(cur, alt, FALSE, TRUE, FALSE))

LeaveAltScreen ==
    /\ ~vt52_mode /\ ~conf.no_alt_screen
    /\ Swapped(Left, SwappedAlt(cur, alt, FALSE), FALSE)
    /\ wrote' = Nowhere /\ entry' = Nowhere
    /\ UNCHANGED conf

\* term_pwron and RIS.  Without `clear' the cursor goes below the text.
PowerOn(y) ==
    /\ Swapped([Fresh(rows) EXCEPT !.curs = At(0, y)], Fresh(rows), FALSE)
    /\ wrote' = JustReset /\ entry' = Nowhere
    /\ UNCHANGED conf

Restart == \E y \in 0 .. rows - 1 : PowerOn(y)

\* term_reconfig: a changed setting changes the state of both screens, and
\* without an alternate screen the main one comes back.
Reconfigured(s, c) ==
    [s EXCEPT !.wrap = IF c.wrap_mode # conf.wrap_mode THEN c.wrap_mode ELSE @,
              !.dec_om = IF c.dec_om # conf.dec_om THEN c.dec_om ELSE @]

Reconfigure ==
    \E c \in Confs \ {conf} :
        LET s     == Reconfigured(cur, c)
            a     == Reconfigured(alt, c)
            which == alt_which /\ ~c.no_alt_screen
        IN  /\ Swapped(SwappedCur(s, a, which, FALSE, FALSE),
                       SwappedAlt(s, a, which), which)
            /\ wrote' = Nowhere
            /\ entry' = IF which THEN entry ELSE Nowhere
            /\ conf' = c

\* term_size.  d is the number of lines that come back from the scrollback
\* (or, negative, go there); every row number moves with them.
Shifted(p, d, newrows, newcols) ==
    At(IF p.x >= newcols THEN newcols - 1 ELSE p.x,
       Clip(p.y + d, 0, newrows - 1))

BUGStale(s, p, d, newrows, newcols) ==
    [s EXCEPT !.curs = p, !.wrapnext = FALSE,
              !.savecurs = Shifted(s.savecurs, d, newrows, newcols)]

Resized(s, p, d, newrows, newcols) ==
    [s EXCEPT !.curs = p, !.wrapnext = FALSE,
              !.savecurs = Shifted(s.savecurs, d, newrows, newcols),
              !.marg_t = 0, !.marg_b = newrows - 1]

Resize ==
    \E newrows \in Heights, newcols \in Widths :
    \E d \in -rows .. newrows :
        LET main  == IF alt_which THEN alt ELSE cur
            other == IF alt_which THEN cur ELSE alt
            y     == main.curs.y
            m == Resized(main, Shifted(main.curs, d, newrows, newcols), d,
                         newrows, newcols)
            o == Resized(other, At(0, 0), d, newrows, newcols)
        IN  /\ newrows # rows \/ newcols # cols
            /\ IF newrows >= rows THEN d \in 0 .. newrows - rows
               ELSE d = IF y >= newrows THEN newrows - 1 - y ELSE 0
            /\ rows' = newrows /\ cols' = newcols
            /\ cur' = IF alt_which THEN o ELSE m
            /\ alt' = IF alt_which THEN m ELSE o
            /\ wrote' = Nowhere /\ entry' = Nowhere
            /\ UNCHANGED <<alt_which, vt52_mode, trusted, conf>>

Next ==
    \/ Relative \/ Sideways \/ CHA \/ CUP \/ VT52Address \/ Home
    \/ Backspace \/ Delete \/ CarriageReturn \/ LineFeed \/ ReverseLineFeed
    \/ Tab \/ BackTab \/ ScrollRegion
    \/ GraphicChar(1) \/ GraphicChar(2) \/ SetTrustStatus
    \/ SetMargins \/ SaveRestore \/ SetMode \/ ColumnMode
    \/ AltScreen \/ EnterAltScreen \/ LeaveAltScreen
    \/ Restart \/ Reconfigure \/ Resize

Spec == Init /\ [][Next]_vars

(***************************************************************************)
(* Properties                                                              *)
(***************************************************************************)
OnScreen(p) == p.x \in 0 .. cols - 1 /\ p.y \in 0 .. rows - 1

\* Every field has a value of its type.
TypeOK ==
    /\ rows \in Heights /\ cols \in Widths
    /\ cur \in Settings /\ alt \in Settings
    /\ alt_which \in BOOLEAN /\ vt52_mode \in BOOLEAN /\ trusted \in BOOLEAN
    /\ conf \in Confs
    /\ wrote \in Pos /\ entry \in Pos

\* The cursor, the saved cursor and both of the other screen's are cells of
\* the screen after any sequence of control functions, printing, screen swaps
\* and resizes: term_out indexes the line and the tab stops with curs.x, and
\* scrlineptr(curs.y) ends the program for a row that does not exist.
CursorOnScreen ==
    \A s \in {cur, alt} : OnScreen(s.curs) /\ OnScreen(s.savecurs)

\* The scroll region of either screen is a region of the screen as it is now,
\* never of the size it had before: scroll() takes lines from it unchecked.
MarginsValid ==
    \A s \in {cur, alt} : 0 <= s.marg_t /\ s.marg_t <= s.marg_b /\ s.marg_b < rows

\* What is used as an index stays valid (term_size, move, swap_screen).
PositionsValid == CursorOnScreen /\ MarginsValid

\* Every width the window may have leaves room for a wide character and, next
\* to the trust sigil, for one more column.
WideEnough == \A c \in Widths : c >= 2 /\ c > TRUST_SIGIL_WIDTH

IncPos(p) == IF p.x = cols THEN At(0, p.y + 1) ELSE At(p.x + 1, p.y)

PosLt(p, q) == p.y < q.y \/ (p.y = q.y /\ p.x < q.x)

\* "Writing a printing character followed by ESC[K should not overwrite the
\* character you just wrote": erase_lots starts after that character, also at
\* the edge of the screen and for wide characters.  (On a trusted line it may
\* not, but what is written there is not the host's and erases nothing.)
EraseSparesLast ==
    wrote \notin {Nowhere, JustReset} /\ ~trusted =>
        PosLt(wrote, IF cur.wrapnext THEN IncPos(cur.curs) ELSE cur.curs)

\* Whatever the program on the alternate screen does to its cursor, to the
\* saved one and to the modes, mode 1049 puts the main screen's cursor back
\* where it was when the program set the mode.
MainCursorKept == alt_which /\ entry # Nowhere => Left.curs = entry

-----------------------------------------------------------------------------
(* What the code is meant to do and does not: see Deviations in README.md. *)

\* erase_lots relies on it: wrapnext is only set with the cursor on the last
\* cell of its line.
WrapnextAtEdge ==
    cur.wrapnext => cur.curs.x \in {cols - 1, cols - 1 - TRUST_SIGIL_WIDTH}

\* A reset (the menu's "Reset Terminal", or RIS) is a full one: like the mode
\* of the screens and of the cursor, the VT52 mode is what it was at the start.
ResetIsFull == wrote = JustReset => ~vt52_mode /\ ~alt_which
=====
