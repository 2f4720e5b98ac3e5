--------------------------- MODULE Window_proofs ----------------------------
(***************************************************************************)
(* Proofs about a session window: for windows of any size, the positions   *)
(* and the margins of both screens stay on the screen, and mode 1049       *)
(* returns to the cursor it left (TermCursor); for any number of windows,  *)
(* the program is seen while it runs and keeps its sessions apart          *)
(* (SessionWindow); for any number of files and any amount of output, the  *)
(* log is complete and destroys nothing (Logging); and for windows of any  *)
(* height, the lines that are viewed or selected exist, and text stays     *)
(* where the user looks at it, on the main screen and in a resize          *)
(* (TermScreen).                                                           *)
(***************************************************************************)
EXTENDS Window, FiniteSetTheorems, SequenceTheorems, NatFacts, TLAPS

\* the settings of a screen of r rows and c columns
Good(s, r, c) ==
    /\ s \in Settings
    /\ s.curs.x \in 0 .. c - 1 /\ s.curs.y \in 0 .. r - 1
    /\ s.savecurs.x \in 0 .. c - 1 /\ s.savecurs.y \in 0 .. r - 1
    /\ 0 <= s.marg_t /\ s.marg_t <= s.marg_b /\ s.marg_b < r

\* what mode 1049 saved is in the other screen's settings
Kept == alt_which /\ entry # Nowhere => alt.savecurs = entry

IInv ==
    /\ TypeOK
    /\ Good(cur, rows, cols) /\ Good(alt, rows, cols)
    /\ Kept

\* A position made of two integers is one.
LEMMA AtType ==
    ASSUME NEW x \in Int, NEW y \in Int
    PROVE  At(x, y) \in Pos /\ At(x, y).x = x /\ At(x, y).y = y
BY DEF At, Pos

\* Clipping to a side of the screen leaves a place on it.
LEMMA ClipBound ==
    ASSUME NEW n \in Int, NEW m \in Nat \ {0}
    PROVE  Clip(n, 0, m - 1) \in 0 .. m - 1
BY DEF Clip

\* Sizes are positive numbers.
LEMMA SizeType ==
    ASSUME TypeOK
    PROVE  rows \in Nat \ {0} /\ cols \in Nat \ {0}
BY SizesAssumption DEF TypeOK

\* A cursor put on the screen leaves the rest of the settings good.
LEMMA GoodCursor ==
    ASSUME NEW s, NEW r \in Nat \ {0}, NEW c \in Nat \ {0}, Good(s, r, c),
           NEW x \in 0 .. c - 1, NEW y \in 0 .. r - 1, NEW w \in BOOLEAN
    PROVE  /\ Good([s EXCEPT !.curs = At(x, y)], r, c)
           /\ Good([s EXCEPT !.curs = At(x, y), !.wrapnext = w], r, c)
           /\ Good([s EXCEPT !.wrapnext = w], r, c)
<1>1. At(x, y) \in Pos /\ At(x, y).x = x /\ At(x, y).y = y
  BY AtType
<1>. QED
  BY <1>1 DEF Good, Settings

\* A step that changes only the settings in use, and keeps them good, keeps
\* the invariant.
LEMMA BecomesGood ==
    ASSUME IInv, NEW c, Becomes(c), Good(c, rows, cols)
    PROVE  IInv'
<1>1. TypeOK'
  BY AtType DEF IInv, Becomes, Frame, TypeOK, Good, Nowhere, Pos
<1>2. Good(cur, rows, cols)' /\ Good(alt, rows, cols)' /\ Kept'
  BY DEF IInv, Becomes, Frame, Good, Kept
<1>. QED
  BY <1>1, <1>2 DEF IInv

\* One line down or up stays on the screen.
LEMMA DownBound ==
    ASSUME TypeOK, Good(cur, rows, cols), NEW y \in 0 .. rows - 1
    PROVE  Down(y) \in 0 .. rows - 1 /\ Up(y) \in 0 .. rows - 1
BY SizeType DEF Down, Up, Good

\* Absolute and relative moves of the cursor.
LEMMA MoveGood ==
    ASSUME IInv, NEW x \in Int, NEW y \in Int, NEW clip \in Int, Move(x, y, clip)
    PROVE  IInv'
<1> DEFINE ny == MoveY(y, clip, cur.curs.y, cur.marg_t, cur.marg_b)
           nx == Clip(x, 0, cols - 1)
<1>1. rows \in Nat \ {0} /\ cols \in Nat \ {0}
  BY SizeType DEF IInv
<1>2. ny \in 0 .. rows - 1
  <2>1. cur.curs.y \in Int /\ cur.marg_t \in Int /\ cur.marg_b \in Int
    BY DEF IInv, Good, Settings
  <2>. QED
    BY <1>1, <2>1, ClipBound DEF MoveY
<1>3. nx \in 0 .. cols - 1
  BY <1>1, ClipBound
<1>4. Good([cur EXCEPT !.curs = At(nx, ny), !.wrapnext = FALSE], rows, cols)
  BY <1>1, <1>2, <1>3, GoodCursor DEF IInv
<1>. QED
  BY <1>4, BecomesGood DEF Move

\* The actions that move() does the work of.
LEMMA MovesGood ==
    ASSUME IInv,
           Relative \/ Sideways \/ CHA \/ CUP \/ VT52Address \/ Home
    PROVE  IInv'
<1>1. rows \in Nat \ {0} /\ cols \in Nat \ {0}
  BY SizeType DEF IInv
<1>2. cur.curs.x \in Int /\ cur.curs.y \in Int /\ Origin \in Int
  BY DEF IInv, Good, Settings, Origin
<1>3. CASE Relative
  BY <1>1, <1>2, <1>3, MoveGood DEF Relative
<1>4. CASE Sideways
  BY <1>1, <1>2, <1>4, MoveGood DEF Sideways
<1>5. CASE CHA
  BY <1>1, <1>2, <1>5, MoveGood DEF CHA
<1>6. CASE CUP
  BY <1>1, <1>2, <1>6, MoveGood DEF CUP
<1>7. CASE VT52Address
  BY <1>1, <1>2, <1>7, MoveGood DEF VT52Address
<1>8. CASE Home
  BY <1>8, MoveGood DEF Home
<1>. QED
  BY <1>3, <1>4, <1>5, <1>6, <1>7, <1>8

\* The control characters and scrolling.
LEMMA ControlsGood ==
    ASSUME IInv, WideEnough,
           \/ Backspace \/ Delete \/ CarriageReturn \/ LineFeed
           \/ ReverseLineFeed \/ Tab \/ BackTab \/ ScrollRegion
    PROVE  IInv'
<1>1. rows \in Nat \ {0} /\ cols \in Nat \ {0} /\ cols >= 2
  BY SizeType DEF IInv, TypeOK, WideEnough
<1>2. /\ cur.curs.x \in 0 .. cols - 1 /\ cur.curs.y \in 0 .. rows - 1
      /\ Good(cur, rows, cols)
  BY DEF IInv, Good
<1>3. Down(cur.curs.y) \in 0 .. rows - 1 /\ Up(cur.curs.y) \in 0 .. rows - 1
  BY <1>2, DownBound DEF IInv
<1>4. ASSUME NEW x \in 0 .. cols - 1, NEW y \in 0 .. rows - 1, NEW w \in BOOLEAN
      PROVE  /\ Good([cur EXCEPT !.curs = At(x, y)], rows, cols)
             /\ Good([cur EXCEPT !.curs = At(x, y), !.wrapnext = w], rows, cols)
             /\ Good([cur EXCEPT !.wrapnext = w], rows, cols)
  BY <1>1, <1>2, GoodCursor
<1>5. CASE Backspace
  <2> DEFINE p == cur.curs
  <2>1. CASE p.x = 0 /\ (p.y = 0 \/ ~cur.wrap)
    BY <1>2, <1>5, <2>1, BecomesGood DEF Backspace
  <2>2. CASE ~(p.x = 0 /\ (p.y = 0 \/ ~cur.wrap)) /\ p.x = 0 /\ p.y > 0
    <3>1. cols - 1 \in 0 .. cols - 1 /\ p.y - 1 \in 0 .. rows - 1
      BY <1>1, <1>2, <2>2
    <3>2. Becomes([cur EXCEPT !.curs = At(cols - 1, p.y - 1)])
      BY <1>5, <2>2 DEF Backspace
    <3>. QED
      BY <1>4, <3>1, <3>2, BecomesGood
  <2>3. CASE p.x # 0 /\ cur.wrapnext
    <3>1. Becomes([cur EXCEPT !.wrapnext = FALSE])
      BY <1>5, <2>3 DEF Backspace
    <3>. QED
      BY <1>2, <1>4, <3>1, BecomesGood
  <2>4. CASE p.x # 0 /\ ~cur.wrapnext
    <3>1. p.x - 1 \in 0 .. cols - 1
      BY <1>1, <1>2, <2>4
    <3>2. Becomes([cur EXCEPT !.curs = At(p.x - 1, p.y)])
      BY <1>5, <2>4 DEF Backspace
    <3>. QED
      BY <1>2, <1>4, <3>1, <3>2, BecomesGood
  <2>5. p.x # 0 \/ p.y = 0 \/ p.y > 0
    BY <1>1, <1>2
  <2>. QED
    BY <2>1, <2>2, <2>3, <2>4, <2>5
<1>6. CASE Delete
  <2> DEFINE p == cur.curs
  <2>1. CASE p.x # 0 /\ ~cur.wrapnext
    <3>1. p.x - 1 \in 0 .. cols - 1
      BY <1>1, <1>2, <2>1
    <3>2. Becomes([cur EXCEPT !.curs = At(p.x - 1, p.y), !.wrapnext = FALSE])
      BY <1>6, <2>1 DEF Delete
    <3>. QED
      BY <1>2, <1>4, <3>1, <3>2, BecomesGood
  <2>2. CASE ~(p.x # 0 /\ ~cur.wrapnext)
    <3>1. Becomes([cur EXCEPT !.curs = p, !.wrapnext = FALSE])
      BY <1>6, <2>2 DEF Delete
    <3>2. Good([cur EXCEPT !.curs = p, !.wrapnext = FALSE], rows, cols)
      BY <1>2 DEF Good, Settings
    <3>. QED
      BY <3>1, <3>2, BecomesGood
  <2>. QED
    BY <2>1, <2>2
<1>7. CASE CarriageReturn
  <2>1. PICK y \in {cur.curs.y, Down(cur.curs.y)} :
            Becomes([cur EXCEPT !.curs = At(0, y), !.wrapnext = FALSE])
    BY <1>7 DEF CarriageReturn
  <2>2. 0 \in 0 .. cols - 1 /\ y \in 0 .. rows - 1
    BY <1>1, <1>2, <1>3
  <2>. QED
    BY <1>4, <2>1, <2>2, BecomesGood
<1>8. CASE LineFeed
  <2>1. PICK x \in {cur.curs.x, 0} :
            Becomes([cur EXCEPT !.curs = At(x, Down(cur.curs.y)),
                                !.wrapnext = FALSE])
    BY <1>8 DEF LineFeed
  <2>2. x \in 0 .. cols - 1
    BY <1>1, <1>2
  <2>. QED
    BY <1>3, <1>4, <2>1, <2>2, BecomesGood
<1>9. CASE ReverseLineFeed
  <2> DEFINE y == IF vt52_mode
                  THEN (IF cur.curs.y > 0 THEN cur.curs.y - 1 ELSE cur.curs.y)
                  ELSE Up(cur.curs.y)
  <2>1. y \in 0 .. rows - 1
    BY <1>1, <1>2, <1>3
  <2>2. Becomes([cur EXCEPT !.curs = At(cur.curs.x, y), !.wrapnext = FALSE])
    BY <1>9 DEF ReverseLineFeed
  <2>. QED
    BY <1>2, <1>4, <2>1, <2>2, BecomesGood
<1>10. CASE Tab
  <2>1. PICK x \in {cur.curs.x + 1} \union (cur.curs.x + 1) .. (cols - 1),
             wide \in BOOLEAN :
             LET edge == IF wide THEN cols \div 2 ELSE cols
             IN  Becomes([cur EXCEPT
                     !.curs = At(IF x >= edge THEN edge - 1 ELSE x, cur.curs.y)])
    BY <1>10 DEF Tab
  <2> DEFINE edge == IF wide THEN cols \div 2 ELSE cols
             nx   == IF x >= edge THEN edge - 1 ELSE x
  <2>2. edge \in 1 .. cols
    BY <1>1
  <2>3. nx \in 0 .. cols - 1
    BY <1>1, <1>2, <2>2
  <2>4. Becomes([cur EXCEPT !.curs = At(nx, cur.curs.y)])
    BY <2>1
  <2>. QED
    BY <1>2, <1>4, <2>3, <2>4, BecomesGood
<1>11. CASE BackTab
  <2>1. PICK x \in 0 .. cur.curs.x :
            Becomes([cur EXCEPT !.curs = At(x, cur.curs.y)])
    BY <1>11 DEF BackTab
  <2>2. x \in 0 .. cols - 1
    BY <1>1, <1>2
  <2>. QED
    BY <1>2, <1>4, <2>1, <2>2, BecomesGood
<1>12. CASE ScrollRegion
  BY <1>2, <1>4, <1>12, BecomesGood DEF ScrollRegion
<1>. QED
  BY <1>5, <1>6, <1>7, <1>8, <1>9, <1>10, <1>11, <1>12

\* A printed character leaves the cursor on the screen, if a line has room for
\* a wide character and is longer than the trust sigil.
LEMMA GraphicGood ==
    ASSUME IInv, WideEnough, NEW width \in {1, 2}, GraphicChar(width)
    PROVE  IInv'
<1> DEFINE wraps    == cur.wrapnext /\ cur.wrap
           py       == IF wraps THEN Down(cur.curs.y) ELSE cur.curs.y
           px       == IF wraps THEN 0 ELSE cur.curs.x
           p        == IF wraps THEN At(0, Down(cur.curs.y)) ELSE cur.curs
           linecols == IF trusted THEN cols - TRUST_SIGIL_WIDTH ELSE cols
           w        == IF linecols < 2 THEN 1 ELSE width
           q        == IF w = 2 /\ p.x >= linecols - 1 THEN At(0, Down(p.y))
                       ELSE p
           full     == q.x + w >= linecols
           wrap52   == full /\ cur.wrap /\ vt52_mode
           nx       == IF wrap52 THEN 0 ELSE IF full THEN linecols - 1
                       ELSE q.x + w
           ny       == IF wrap52 THEN Down(q.y) ELSE q.y
           nw       == ~wrap52 /\ (full \/ (cur.wrapnext /\ ~wraps))
<1>1. /\ rows \in Nat \ {0} /\ cols \in Nat \ {0}
      /\ linecols \in 1 .. cols
  BY SizeType, SizesAssumption DEF IInv, TypeOK, WideEnough
<1>2. /\ cur.curs.x \in 0 .. cols - 1 /\ cur.curs.y \in 0 .. rows - 1
      /\ Good(cur, rows, cols) /\ TypeOK
  BY DEF IInv, Good
<1>3. \A y \in 0 .. rows - 1 : Down(y) \in 0 .. rows - 1
  BY <1>2, DownBound
<1>4. p.x \in 0 .. cols - 1 /\ p.y \in 0 .. rows - 1
  <2>1. 0 \in 0 .. cols - 1 /\ Down(cur.curs.y) \in Int
    BY <1>1, <1>2, <1>3
  <2>2. At(0, Down(cur.curs.y)).x = 0 /\ At(0, Down(cur.curs.y)).y = Down(cur.curs.y)
    BY <2>1, AtType
  <2>3. CASE wraps
    BY <1>2, <1>3, <2>1, <2>2, <2>3
  <2>4. CASE ~wraps
    BY <1>2, <2>4
  <2>. QED
    BY <2>3, <2>4
<1>5. q.x \in 0 .. cols - 1 /\ q.y \in 0 .. rows - 1
  <2>. HIDE DEF p, w, linecols
  <2>1. 0 \in 0 .. cols - 1 /\ Down(p.y) \in Int
    BY <1>1, <1>3, <1>4
  <2>2. At(0, Down(p.y)).x = 0 /\ At(0, Down(p.y)).y = Down(p.y)
    BY <2>1, AtType
  <2>3. CASE w = 2 /\ p.x >= linecols - 1
    BY <1>3, <1>4, <2>1, <2>2, <2>3
  <2>4. CASE ~(w = 2 /\ p.x >= linecols - 1)
    BY <1>4, <2>4
  <2>. QED
    BY <2>3, <2>4
<1>6. w \in {1, 2}
  BY <1>1
<1>7. nx \in 0 .. cols - 1 /\ ny \in 0 .. rows - 1
  <2>. HIDE DEF q, w, linecols
  <2>. QED
    BY <1>1, <1>3, <1>5, <1>6
<1>8. nw \in BOOLEAN
  BY <1>2 DEF Good, Settings
<1>9. /\ cur' = [cur EXCEPT !.curs = At(nx, ny), !.wrapnext = nw]
      /\ wrote' = IF wrap52 THEN Nowhere ELSE At(q.x + w - 1, q.y)
      /\ Frame
  BY DEF GraphicChar
<1>10. wrote' \in Pos
  <2>. HIDE DEF q, w, wrap52
  <2>1. q.x + w - 1 \in Int /\ q.y \in Int
    BY <1>1, <1>5, <1>6
  <2>. QED
    BY <1>9, <2>1, AtType DEF Nowhere, Pos
<1>11. Good(cur', rows, cols)
  <2>. HIDE DEF nx, ny, nw
  <2>. QED
    BY <1>1, <1>2, <1>7, <1>8, <1>9, GoodCursor
<1>. QED
  <2>. HIDE DEF nx, ny, nw, q, w, wrap52
  <2>1. TypeOK'
    BY <1>9, <1>10, <1>11 DEF IInv, TypeOK, Frame, Good
  <2>2. Good(cur, rows, cols)' /\ Good(alt, rows, cols)' /\ Kept'
    BY <1>9, <1>11 DEF IInv, Frame, Good, Kept
  <2>. QED
    BY <2>1, <2>2 DEF IInv

\* A screen after a reset.
LEMMA FreshGood ==
    ASSUME TypeOK, NEW y \in 0 .. rows - 1
    PROVE  /\ Good(Fresh(rows), rows, cols)
           /\ Good([Fresh(rows) EXCEPT !.curs = At(0, y)], rows, cols)
<1>1. rows \in Nat \ {0} /\ cols \in Nat \ {0}
  BY SizeType
<1>2. At(0, 0) \in Pos /\ At(0, 0).x = 0 /\ At(0, 0).y = 0
  BY AtType
<1>3. conf.dec_om \in BOOLEAN /\ conf.wrap_mode \in BOOLEAN
  BY SizesAssumption DEF TypeOK
<1>4. Good(Fresh(rows), rows, cols)
  BY <1>1, <1>2, <1>3 DEF Good, Fresh, Settings
<1>. QED
  <2>1. 0 \in 0 .. cols - 1 /\ FALSE \in BOOLEAN
    BY <1>1
  <2>2. Good([Fresh(rows) EXCEPT !.curs = At(0, y)], rows, cols)
    BY <1>1, <1>4, <2>1, GoodCursor, Zenon
  <2>. QED
    BY <1>4, <2>2

\* Saving and restoring keep the settings good.
LEMMA SavedGood ==
    ASSUME TypeOK, NEW s, Good(s, rows, cols)
    PROVE  /\ Good(SaveCursor(s), rows, cols)
           /\ Good(RestoreCursor(s), rows, cols)
           /\ SaveCursor(s).savecurs = s.curs
           /\ RestoreCursor(s).curs = s.savecurs
<1>1. rows \in Nat \ {0} /\ cols \in Nat \ {0}
  BY SizeType
<1>2. s \in Settings
  BY DEF Good
<1>3. Good(SaveCursor(s), rows, cols) /\ SaveCursor(s).savecurs = s.curs
  BY <1>2 DEF Good, Settings, SaveCursor
<1>4. s.savecurs = At(s.savecurs.x, s.savecurs.y)
  BY <1>2 DEF Settings, Pos, At
<1> DEFINE x == IF s.savecurs.x >= cols THEN cols - 1 ELSE s.savecurs.x
           y == IF s.savecurs.y >= rows THEN rows - 1 ELSE s.savecurs.y
           w == s.save_wnext /\ x >= cols - 1
<1>5. x = s.savecurs.x /\ y = s.savecurs.y
  BY <1>1 DEF Good
<1>6. x \in 0 .. cols - 1 /\ y \in 0 .. rows - 1
  BY <1>5 DEF Good
<1>7. w \in BOOLEAN
  BY <1>2 DEF Settings
<1>8. RestoreCursor(s) = [s EXCEPT !.curs = At(x, y), !.wrapnext = w]
  BY DEF RestoreCursor
<1>9. Good(RestoreCursor(s), rows, cols)
  <2>. HIDE DEF x, y, w
  <2>1. Good([s EXCEPT !.curs = At(x, y), !.wrapnext = w], rows, cols)
    BY <1>1, <1>6, <1>7, GoodCursor, Zenon
  <2>. QED
    BY <1>8, <2>1
<1>10. RestoreCursor(s).curs = s.savecurs
  <2>1. RestoreCursor(s).curs = At(x, y)
    <3>. HIDE DEF x, y, w
    <3>. QED
      BY <1>2, <1>8 DEF Settings
  <2>. QED
    BY <1>4, <1>5, <2>1
<1>. QED
  BY <1>3, <1>9, <1>10

\* The settings a swap of the screens puts in use.
LEMMA SwapGood ==
    ASSUME NEW c, Good(c, rows, cols), NEW a, Good(a, rows, cols),
           NEW which \in BOOLEAN, NEW reset \in BOOLEAN, NEW keep \in BOOLEAN
    PROVE  /\ Good(SwappedCur(c, a, which, reset, keep), rows, cols)
           /\ Good(SwappedAlt(c, a, which), rows, cols)
<1>1. Good([a EXCEPT !.curs = c.curs], rows, cols)
  BY DEF Good, Settings
<1>2. Good([a EXCEPT !.curs = a.curs], rows, cols)
  BY DEF Good, Settings
<1>. QED
  BY <1>1, <1>2 DEF SwappedCur, SwappedAlt

\* The two screens change places.
LEMMA SwappedGood ==
    ASSUME IInv, NEW c, NEW a, NEW which \in BOOLEAN, Swapped(c, a, which),
           Good(c, rows, cols), Good(a, rows, cols),
           wrote' \in Pos, entry' \in Pos, conf' \in Confs,
           which /\ entry' # Nowhere => a.savecurs = entry'
    PROVE  IInv'
<1>1. TypeOK'
  BY DEF IInv, TypeOK, Swapped, Good
<1>2. Good(cur, rows, cols)' /\ Good(alt, rows, cols)' /\ Kept'
  BY DEF Swapped, Good, Kept, Nowhere
<1>. QED
  BY <1>1, <1>2 DEF IInv

\* The ways of changing screens.
LEMMA ScreensGood ==
    ASSUME IInv,
           \/ AltScreen \/ EnterAltScreen \/ LeaveAltScreen
           \/ Restart \/ Reconfigure
    PROVE  IInv'
<1>1. /\ TypeOK /\ Good(cur, rows, cols) /\ Good(alt, rows, cols) /\ Kept
      /\ conf \in Confs /\ entry \in Pos /\ Nowhere \in Pos /\ JustReset \in Pos
      /\ cur.curs \in Pos /\ alt_which \in BOOLEAN
      /\ \A c \in Confs : c.no_alt_screen \in BOOLEAN
  BY SizesAssumption
     DEF IInv, TypeOK, Nowhere, JustReset, Pos, Good, Settings
<1>2. CASE AltScreen
  <2>1. PICK state \in BOOLEAN, clear \in BOOLEAN :
            LET which == state /\ ~conf.no_alt_screen
            IN  /\ Swapped(SwappedCur(cur, alt, which, clear, clear),
                           SwappedAlt(cur, alt, which), which)
                /\ entry' = IF which /\ alt_which THEN entry ELSE Nowhere
    BY <1>2 DEF AltScreen
  <2> DEFINE which == state /\ ~conf.no_alt_screen
  <2>2. which \in BOOLEAN
    BY <1>1
  <2>3. /\ Swapped(SwappedCur(cur, alt, which, clear, clear),
                   SwappedAlt(cur, alt, which), which)
        /\ entry' = IF which /\ alt_which THEN entry ELSE Nowhere
        /\ wrote' = Nowhere /\ conf' = conf
    BY <1>2, <2>1 DEF AltScreen
  <2>. HIDE DEF which
  <2>4. /\ Good(SwappedCur(cur, alt, which, clear, clear), rows, cols)
        /\ Good(SwappedAlt(cur, alt, which), rows, cols)
    BY <1>1, <2>2, SwapGood
  <2>5. which /\ entry' # Nowhere => SwappedAlt(cur, alt, which).savecurs = entry'
    BY <1>1, <2>2, <2>3 DEF SwappedAlt, Kept
  <2>. QED
    BY <1>1, <2>2, <2>3, <2>4, <2>5, SwappedGood
<1>3. CASE EnterAltScreen
  <2> DEFINE c == SaveCursor(cur)
  <2>1. Good(c, rows, cols) /\ c.savecurs = cur.curs
    BY <1>1, SavedGood
  <2>2. /\ Swapped(SwappedCur(c, alt, TRUE, TRUE, FALSE),
                   SwappedAlt(c, alt, TRUE), TRUE)
        /\ entry' = IF alt_which THEN entry ELSE cur.curs
        /\ wrote' = Nowhere /\ conf' = conf
    BY <1>3 DEF EnterAltScreen
  <2>. HIDE DEF c
  <2>3. /\ Good(SwappedCur(c, alt, TRUE, TRUE, FALSE), rows, cols)
        /\ Good(SwappedAlt(c, alt, TRUE), rows, cols)
    BY <1>1, <2>1, SwapGood
  <2>4. entry' # Nowhere => SwappedAlt(c, alt, TRUE).savecurs = entry'
    BY <1>1, <2>1, <2>2 DEF SwappedAlt, Kept
  <2>. QED
    BY <1>1, <2>2, <2>3, <2>4, SwappedGood
<1>4. CASE LeaveAltScreen
  <2>1. /\ Good(SwappedCur(cur, alt, FALSE, TRUE, FALSE), rows, cols)
        /\ Good(SwappedAlt(cur, alt, FALSE), rows, cols)
    BY <1>1, SwapGood
  <2>2. Good(Left, rows, cols)
    BY <1>1, <2>1, SavedGood DEF Left
  <2>3. /\ Swapped(Left, SwappedAlt(cur, alt, FALSE), FALSE)
        /\ entry' = Nowhere /\ wrote' = Nowhere /\ conf' = conf
    BY <1>4 DEF LeaveAltScreen
  <2>. QED
    BY <1>1, <2>1, <2>2, <2>3, SwappedGood
<1>5. CASE Restart
  <2>1. PICK y \in 0 .. rows - 1 : PowerOn(y)
    BY <1>5 DEF Restart
  <2>2. /\ Good(Fresh(rows), rows, cols)
        /\ Good([Fresh(rows) EXCEPT !.curs = At(0, y)], rows, cols)
    BY <1>1, FreshGood
  <2>3. /\ Swapped([Fresh(rows) EXCEPT !.curs = At(0, y)], Fresh(rows), FALSE)
        /\ entry' = Nowhere /\ wrote' = JustReset /\ conf' = conf
    BY <2>1 DEF PowerOn
  <2>. QED
    BY <1>1, <2>2, <2>3, SwappedGood
<1>6. CASE Reconfigure
  <2>1. PICK c \in Confs \ {conf} :
            LET s     == Reconfigured(cur, c)
                a     == Reconfigured(alt, c)
                which == alt_which /\ ~c.no_alt_screen
            IN  /\ Swapped(SwappedCur(s, a, which, FALSE, FALSE),
                           SwappedAlt(s, a, which), which)
                /\ wrote' = Nowhere
                /\ entry' = IF which THEN entry ELSE Nowhere
                /\ conf' = c
    BY <1>6 DEF Reconfigure
  <2> DEFINE s     == Reconfigured(cur, c)
             a     == Reconfigured(alt, c)
             which == alt_which /\ ~c.no_alt_screen
  <2>2. which \in BOOLEAN
    BY <1>1
  <2>3. c.wrap_mode \in BOOLEAN /\ c.dec_om \in BOOLEAN
    BY SizesAssumption
  <2>4. /\ Good(s, rows, cols) /\ Good(a, rows, cols)
        /\ a.savecurs = alt.savecurs
    BY <1>1, <2>3 DEF Good, Settings, Reconfigured
  <2>5. /\ Swapped(SwappedCur(s, a, which, FALSE, FALSE),
                   SwappedAlt(s, a, which), which)
        /\ wrote' = Nowhere /\ conf' = c
        /\ entry' = IF which THEN entry ELSE Nowhere
    BY <2>1
  <2>6. which => alt_which
    OBVIOUS
  <2>. HIDE DEF s, a, which
  <2>7. /\ Good(SwappedCur(s, a, which, FALSE, FALSE), rows, cols)
        /\ Good(SwappedAlt(s, a, which), rows, cols)
    BY <2>2, <2>4, SwapGood
  <2>8. which /\ entry' # Nowhere => SwappedAlt(s, a, which).savecurs = entry'
    BY <1>1, <2>2, <2>4, <2>5, <2>6 DEF SwappedAlt, Kept
  <2>. QED
    BY <1>1, <2>2, <2>5, <2>7, <2>8, SwappedGood
<1>. QED
  BY <1>2, <1>3, <1>4, <1>5, <1>6

\* New margins are settings again.
LEMMA MarginsType ==
    \A t \in Settings, i, j \in Int :
        [t EXCEPT !.marg_t = i, !.marg_b = j] \in Settings
BY DEF Settings

\* Margins, modes, the saved cursor and the trust status.
LEMMA ModesGood ==
    ASSUME IInv,
           SetTrustStatus \/ SetMargins \/ SaveRestore \/ SetMode \/ ColumnMode
    PROVE  IInv'
<1>1. /\ rows \in Nat \ {0} /\ cols \in Nat \ {0} /\ TypeOK
      /\ Good(cur, rows, cols) /\ Good(alt, rows, cols) /\ Kept
      /\ Nowhere \in Pos /\ At(0, 0) \in Pos
      /\ At(0, 0).x = 0 /\ At(0, 0).y = 0
  BY SizeType, AtType DEF IInv, Nowhere, Pos
<1>2. CASE SetTrustStatus
  <2>1. TypeOK'
    BY <1>1, <1>2 DEF SetTrustStatus, TypeOK
  <2>2. Good(cur, rows, cols)' /\ Good(alt, rows, cols)' /\ Kept'
    BY <1>1, <1>2 DEF SetTrustStatus, Good, Kept
  <2>. QED
    BY <2>1, <2>2 DEF IInv
<1>3. CASE SetMargins
  <2>1. PICK top \in 0 .. rows - 1, bot \in 0 .. rows - 1 :
            /\ bot - top > 0
            /\ Becomes([cur EXCEPT
                   !.marg_t = top, !.marg_b = bot,
                   !.curs = At(0, IF cur.dec_om THEN top ELSE 0)])
    BY <1>3 DEF SetMargins
  <2> DEFINE y == IF cur.dec_om THEN top ELSE 0
             s == [cur EXCEPT !.marg_t = top, !.marg_b = bot,
                              !.curs = At(0, y)]
  <2>2. y \in 0 .. rows - 1
    BY <1>1
  <2>3. At(0, y) \in Pos /\ At(0, y).x = 0 /\ At(0, y).y = y
    BY <1>1, <2>2, AtType
  <2>4. Good(s, rows, cols)
    <3>1. cur \in Settings /\ top \in Int /\ bot \in Int
      BY <1>1 DEF Good
    <3>. HIDE DEF y
    <3>2. s \in Settings
      BY <2>3, <3>1 DEF Settings
    <3>3. s.curs = At(0, y) /\ s.savecurs = cur.savecurs
      BY <3>1 DEF Settings
    <3>4. s.marg_t = top /\ s.marg_b = bot
      BY <3>1 DEF Settings
    <3>. HIDE DEF s
    <3>. QED
      BY <1>1, <2>1, <2>2, <2>3, <3>2, <3>3, <3>4 DEF Good
  <2>5. Becomes(s)
    BY <2>1
  <2>. QED
    BY <2>4, <2>5, BecomesGood
<1>4. CASE SaveRestore
  BY <1>1, <1>4, SavedGood, BecomesGood DEF SaveRestore
<1>5. CASE SetMode
  <2>1. CASE "DECANM" \in Modes /\ vt52_mode' = ~vt52_mode /\ wrote' = Nowhere
             /\ UNCHANGED <<rows, cols, cur, alt, alt_which, trusted, conf, entry>>
    <3>1. TypeOK'
      BY <1>1, <2>1 DEF TypeOK
    <3>2. Good(cur, rows, cols)' /\ Good(alt, rows, cols)' /\ Kept'
      BY <1>1, <2>1 DEF Good, Kept
    <3>. QED
      BY <3>1, <3>2 DEF IInv
  <2>2. CASE Becomes([cur EXCEPT !.dec_om = ~@])
    <3>1. Good([cur EXCEPT !.dec_om = ~@], rows, cols)
      BY <1>1 DEF Good, Settings
    <3>. QED
      BY <2>2, <3>1, BecomesGood
  <2>3. CASE Becomes([cur EXCEPT !.wrap = ~@])
    <3>1. Good([cur EXCEPT !.wrap = ~@], rows, cols)
      BY <1>1 DEF Good, Settings
    <3>. QED
      BY <2>3, <3>1, BecomesGood
  <2>. QED
    BY <1>5, <2>1, <2>2, <2>3 DEF SetMode
<1>6. CASE ColumnMode
  <2>1. Good(cur', rows, cols) /\ Good(alt', rows, cols)
    <3>1. cur \in Settings /\ alt \in Settings
      BY <1>1 DEF Good
    <3>2. \A t \in Settings :
              /\ [t EXCEPT !.marg_t = 0, !.marg_b = rows - 1] \in Settings
              /\ [t EXCEPT !.curs = At(0, 0)] \in Settings
              /\ [t EXCEPT !.wrapnext = FALSE] \in Settings
      <4>1. SUFFICES ASSUME NEW t \in Settings
                     PROVE /\ [t EXCEPT !.marg_t = 0, !.marg_b = rows - 1] \in Settings
                           /\ [t EXCEPT !.curs = At(0, 0)] \in Settings
                           /\ [t EXCEPT !.wrapnext = FALSE] \in Settings
        OBVIOUS
      <4>2. [t EXCEPT !.curs = At(0, 0)] \in Settings
        BY <1>1 DEF Settings
      <4>3. [t EXCEPT !.wrapnext = FALSE] \in Settings
        BY DEF Settings
      <4>4. rows - 1 \in Int /\ 0 \in Int
        BY <1>1
      <4>5. [t EXCEPT !.marg_t = 0, !.marg_b = rows - 1] \in Settings
        BY <4>1, <4>4, MarginsType
      <4>. QED
        BY <4>2, <4>3, <4>5
    <3>3. cur' \in Settings /\ alt' \in Settings
      BY <1>6, <3>1, <3>2 DEF ColumnMode
    <3>4. cur'.curs = At(0, 0) /\ cur'.savecurs = cur.savecurs
      BY <1>6, <3>1 DEF ColumnMode, Settings
    <3>5. cur'.marg_t = 0 /\ cur'.marg_b = rows - 1
      BY <1>6, <3>1 DEF ColumnMode, Settings
    <3>6. /\ alt'.curs = alt.curs /\ alt'.savecurs = alt.savecurs
          /\ alt'.marg_t = 0 /\ alt'.marg_b = rows - 1
      BY <1>6, <3>1 DEF ColumnMode, Settings
    <3>. QED
      BY <1>1, <3>3, <3>4, <3>5, <3>6 DEF Good
  <2>2. alt'.savecurs = alt.savecurs
    BY <1>1, <1>6 DEF ColumnMode, Good, Settings
  <2>3. TypeOK'
    BY <1>1, <1>6, <2>1 DEF ColumnMode, TypeOK, Good
  <2>4. Good(cur, rows, cols)' /\ Good(alt, rows, cols)' /\ Kept'
    BY <1>1, <1>6, <2>1, <2>2 DEF ColumnMode, Good, Kept
  <2>. QED
    BY <2>3, <2>4 DEF IInv
<1>. QED
  BY <1>2, <1>3, <1>4, <1>5, <1>6

\* A position that was on the screen is put back on the resized one.
LEMMA ShiftedGood ==
    ASSUME NEW s, NEW r \in Nat \ {0}, NEW c \in Nat \ {0}, Good(s, r, c),
           NEW d \in Int, NEW nr \in Nat \ {0}, NEW nc \in Nat \ {0},
           NEW p \in {s.curs, s.savecurs}
    PROVE  /\ Shifted(p, d, nr, nc) \in Pos
           /\ Shifted(p, d, nr, nc).x \in 0 .. nc - 1
           /\ Shifted(p, d, nr, nc).y \in 0 .. nr - 1
<1> DEFINE x == IF p.x >= nc THEN nc - 1 ELSE p.x
           y == Clip(p.y + d, 0, nr - 1)
<1>1. p.x \in 0 .. c - 1 /\ p.y \in 0 .. r - 1
  BY DEF Good
<1>2. x \in 0 .. nc - 1
  BY <1>1
<1>3. y \in 0 .. nr - 1
  <2>1. p.y + d \in Int
    BY <1>1
  <2>. QED
    BY <2>1, ClipBound
<1>4. Shifted(p, d, nr, nc) = At(x, y)
  BY DEF Shifted
<1>. HIDE DEF x, y
<1>. QED
  BY <1>2, <1>3, <1>4, AtType

\* The settings of one screen after a resize.
LEMMA ResizedGood ==
    ASSUME NEW s, NEW r \in Nat \ {0}, NEW c \in Nat \ {0}, Good(s, r, c),
           NEW d \in Int, NEW nr \in Nat \ {0}, NEW nc \in Nat \ {0},
           NEW p \in Pos, p.x \in 0 .. nc - 1, p.y \in 0 .. nr - 1
    PROVE  Good(Resized(s, p, d, nr, nc), nr, nc)
<1> DEFINE q == Shifted(s.savecurs, d, nr, nc)
<1>1. q \in Pos /\ q.x \in 0 .. nc - 1 /\ q.y \in 0 .. nr - 1
  BY ShiftedGood
<1>2. Resized(s, p, d, nr, nc) =
          [s EXCEPT !.curs = p, !.wrapnext = FALSE, !.savecurs = q,
                    !.marg_t = 0, !.marg_b = nr - 1]
  BY DEF Resized
<1> DEFINE n == Resized(s, p, d, nr, nc)
<1>. HIDE DEF q
<1>3. s \in Settings
  BY DEF Good
<1>4. n \in Settings
  <2>1. nr - 1 \in Int /\ 0 \in Int
    OBVIOUS
  <2>2. [s EXCEPT !.curs = p, !.wrapnext = FALSE, !.savecurs = q] \in Settings
    BY <1>1, <1>3 DEF Settings
  <2>. QED
    BY <1>2, <2>1, <2>2, MarginsType
<1>5. n.curs = p /\ n.savecurs = q
  BY <1>2, <1>3 DEF Settings
<1>6. n.marg_t = 0 /\ n.marg_b = nr - 1
  BY <1>2, <1>3 DEF Settings
<1>. HIDE DEF n
<1>7. Good(n, nr, nc)
  BY <1>1, <1>4, <1>5, <1>6 DEF Good
<1>. QED
  BY <1>7 DEF n

\* A resize of the window keeps both screens.
LEMMA ResizeGood ==
    ASSUME IInv, Resize
    PROVE  IInv'
<1>1. /\ rows \in Nat \ {0} /\ cols \in Nat \ {0} /\ TypeOK
      /\ Good(cur, rows, cols) /\ Good(alt, rows, cols)
      /\ At(0, 0) \in Pos /\ At(0, 0).x = 0 /\ At(0, 0).y = 0
      /\ Nowhere \in Pos
  BY SizeType, AtType DEF IInv, Nowhere, Pos
<1> DEFINE first == IF alt_which THEN alt ELSE cur
           other == IF alt_which THEN cur ELSE alt
<1>2. PICK nr \in Heights, nc \in Widths :
      \E d \in -rows .. nr :
          LET m == Resized(first, Shifted(first.curs, d, nr, nc), d, nr, nc)
              o == Resized(other, At(0, 0), d, nr, nc)
          IN  /\ rows' = nr /\ cols' = nc
              /\ cur' = IF alt_which THEN o ELSE m
              /\ alt' = IF alt_which THEN m ELSE o
              /\ wrote' = Nowhere /\ entry' = Nowhere
              /\ UNCHANGED <<alt_which, vt52_mode, trusted, conf>>
  BY DEF Resize
<1>3. nr \in Nat \ {0} /\ nc \in Nat \ {0}
  BY SizesAssumption
<1>4. PICK d \in -rows .. nr :
          LET m == Resized(first, Shifted(first.curs, d, nr, nc), d, nr, nc)
              o == Resized(other, At(0, 0), d, nr, nc)
          IN  /\ rows' = nr /\ cols' = nc
              /\ cur' = IF alt_which THEN o ELSE m
              /\ alt' = IF alt_which THEN m ELSE o
              /\ wrote' = Nowhere /\ entry' = Nowhere
              /\ UNCHANGED <<alt_which, vt52_mode, trusted, conf>>
  BY <1>2
<1> DEFINE m == Resized(first, Shifted(first.curs, d, nr, nc), d, nr, nc)
           o == Resized(other, At(0, 0), d, nr, nc)
<1>5. Good(first, rows, cols) /\ Good(other, rows, cols) /\ d \in Int
  BY <1>1, <1>3
<1>6. /\ rows' = nr /\ cols' = nc
      /\ cur' = IF alt_which THEN o ELSE m
      /\ alt' = IF alt_which THEN m ELSE o
      /\ wrote' = Nowhere /\ entry' = Nowhere
      /\ UNCHANGED <<alt_which, vt52_mode, trusted, conf>>
  BY <1>4
<1>. HIDE DEF first, other
<1>7. Good(m, nr, nc)
  <2>1. /\ Shifted(first.curs, d, nr, nc) \in Pos
        /\ Shifted(first.curs, d, nr, nc).x \in 0 .. nc - 1
        /\ Shifted(first.curs, d, nr, nc).y \in 0 .. nr - 1
    BY <1>1, <1>3, <1>5, ShiftedGood
  <2>. QED
    BY <1>1, <1>3, <1>5, <2>1, ResizedGood
<1>8. Good(o, nr, nc)
  <2>1. 0 \in 0 .. nc - 1 /\ 0 \in 0 .. nr - 1
    BY <1>3
  <2>. QED
    BY <1>1, <1>3, <1>5, <2>1, ResizedGood
<1>. HIDE DEF m, o
<1>9. Good(cur', nr, nc) /\ Good(alt', nr, nc)
  BY <1>6, <1>7, <1>8
<1>10. TypeOK'
  BY <1>1, <1>6, <1>9 DEF TypeOK, Good
<1>11. Good(cur, rows, cols)' /\ Good(alt, rows, cols)' /\ Kept'
  BY <1>6, <1>9 DEF Good, Kept
<1>. QED
  BY <1>10, <1>11 DEF IInv

\* The initial settings satisfy the invariant.
LEMMA InitGood == ASSUME Init PROVE IInv
<1>1. TypeOK
  <2>1. At(0, 0) \in Pos /\ Nowhere \in Pos
    BY AtType DEF Nowhere, Pos
  <2>2. conf.dec_om \in BOOLEAN /\ conf.wrap_mode \in BOOLEAN
    BY SizesAssumption DEF Init
  <2>3. Fresh(rows) \in Settings
    BY <2>1, <2>2, SizesAssumption DEF Init, Fresh, Settings
  <2>. QED
    BY <2>1, <2>3 DEF Init, TypeOK
<1>2. 0 \in 0 .. rows - 1
  BY <1>1, SizeType
<1>3. Good(Fresh(rows), rows, cols)
  BY <1>1, <1>2, FreshGood
<1>. QED
  BY <1>1, <1>3 DEF Init, IInv, Kept

\* Every step keeps the invariant.
LEMMA NextGood == ASSUME IInv, WideEnough, [Next]_vars PROVE IInv'
<1>1. CASE UNCHANGED vars
  <2>1. TypeOK'
    BY <1>1 DEF IInv, TypeOK, vars, history
  <2>2. Good(cur, rows, cols)' /\ Good(alt, rows, cols)' /\ Kept'
    BY <1>1 DEF IInv, Good, Kept, vars, history
  <2>. QED
    BY <2>1, <2>2 DEF IInv
<1>2. CASE Next
  BY <1>2, MovesGood, ControlsGood, GraphicGood, ModesGood, ScreensGood,
     ResizeGood DEF Next
<1>. QED
  BY <1>1, <1>2

\* In windows wide enough for the trust sigil, every position and both scroll
\* regions stay on the screen, whatever the host sends (term_out), however
\* the screens are swapped (swap_screen) and the window resized (term_size).
THEOREM CursorSafe == WideEnough /\ Spec => []PositionsValid
<1>1. IInv => PositionsValid
  BY DEF IInv, Good, PositionsValid, CursorOnScreen, MarginsValid, OnScreen
<1>2. Init => IInv
  BY InitGood
<1>3. WideEnough /\ IInv /\ [Next]_vars => IInv'
  BY NextGood
<1>4. WideEnough => WideEnough'
  BY DEF WideEnough
<1>. QED
  BY <1>1, <1>2, <1>3, <1>4, PTL DEF Spec

\* Every field keeps a value of its type.
THEOREM TypeCorrect == WideEnough /\ Spec => []TypeOK
<1>1. IInv => TypeOK
  BY DEF IInv
<1>2. Init => IInv
  BY InitGood
<1>3. WideEnough /\ IInv /\ [Next]_vars => IInv'
  BY NextGood
<1>4. WideEnough => WideEnough'
  BY DEF WideEnough
<1>. QED
  BY <1>1, <1>2, <1>3, <1>4, PTL DEF Spec

\* Whatever happens on the alternate screen, leaving it with mode 1049 puts
\* the cursor of the main screen where entering it with that mode left it.
THEOREM CursorComesBack == WideEnough /\ Spec => []MainCursorKept
<1>1. ASSUME IInv PROVE MainCursorKept
  <2>1. SUFFICES ASSUME alt_which, entry # Nowhere PROVE Left.curs = entry
    BY DEF MainCursorKept
  <2>2. Good([alt EXCEPT !.curs = alt.curs], rows, cols)
    BY <1>1 DEF IInv, Good, Settings
  <2>3. [alt EXCEPT !.curs = alt.curs].savecurs = alt.savecurs
    BY <1>1 DEF IInv, Good, Settings
  <2>4. SwappedCur(cur, alt, FALSE, TRUE, FALSE) = [alt EXCEPT !.curs = alt.curs]
    BY <2>1 DEF SwappedCur
  <2>5. Left.curs = alt.savecurs
    BY <1>1, <2>2, <2>3, <2>4, SavedGood DEF Left, IInv
  <2>. QED
    BY <1>1, <2>1, <2>5 DEF IInv, Kept
<1>2. Init => IInv
  BY InitGood
<1>3. WideEnough /\ IInv /\ [Next]_vars => IInv'
  BY NextGood
<1>4. WideEnough => WideEnough'
  BY DEF WideEnough
<1>. QED
  BY <1>1, <1>2, <1>3, <1>4, PTL DEF Spec

\* Only a printed character leaves a cell behind that was just written to.
LEMMA NothingWritten ==
    ASSUME Next, ~GraphicChar(1), ~GraphicChar(2)
    PROVE  wrote' \in {Nowhere, JustReset}
<1>1. \A c : Becomes(c) => wrote' = Nowhere
  BY DEF Becomes
<1>2. CASE \/ Relative \/ Sideways \/ CHA \/ CUP \/ VT52Address \/ Home
           \/ Backspace \/ Delete \/ CarriageReturn \/ LineFeed \/ ReverseLineFeed
           \/ Tab \/ BackTab \/ ScrollRegion \/ SetMargins \/ SaveRestore
  <2>1. \E c : Becomes(c)
    <3>1. ASSUME NEW x, NEW y, NEW clip, Move(x, y, clip) PROVE \E c : Becomes(c)
      BY <3>1 DEF Move
    <3>2. CASE Relative \/ Sideways \/ CHA \/ CUP \/ VT52Address \/ Home
      BY <3>1, <3>2 DEF Relative, Sideways, CHA, CUP, VT52Address, Home
    <3>3. CASE Backspace \/ Delete \/ CarriageReturn \/ LineFeed \/ ReverseLineFeed
      BY <3>3 DEF Backspace, Delete, CarriageReturn, LineFeed, ReverseLineFeed
    <3>4. CASE Tab \/ BackTab \/ ScrollRegion \/ SetMargins \/ SaveRestore
      BY <3>4 DEF Tab, BackTab, ScrollRegion, SetMargins, SaveRestore
    <3>. QED
      BY <1>2, <3>2, <3>3, <3>4
  <2>. QED
    BY <1>1, <2>1
<1>3. CASE SetTrustStatus \/ SetMode \/ ColumnMode
  BY <1>1, <1>3 DEF SetTrustStatus, SetMode, ColumnMode
<1>4. CASE AltScreen \/ EnterAltScreen \/ LeaveAltScreen
  BY <1>4 DEF AltScreen, EnterAltScreen, LeaveAltScreen
<1>5. CASE Restart
  BY <1>5 DEF Restart, PowerOn
<1>6. CASE Reconfigure \/ Resize
  BY <1>6 DEF Reconfigure, Resize
<1>. QED
  BY <1>2, <1>3, <1>4, <1>5, <1>6 DEF Next

\* A printed character comes before the cell at which ESC[K would start.
LEMMA GraphicSpares ==
    ASSUME IInv, WideEnough, NEW width \in {1, 2}, GraphicChar(width)
    PROVE  EraseSparesLast'
<1> SUFFICES ASSUME ~trusted, wrote' # Nowhere
             PROVE  PosLt(wrote, IF cur.wrapnext THEN IncPos(cur.curs) ELSE cur.curs)'
  BY DEF EraseSparesLast, GraphicChar, Frame
<1> DEFINE wraps  == cur.wrapnext /\ cur.wrap
           p      == IF wraps THEN At(0, Down(cur.curs.y)) ELSE cur.curs
           q      == IF width = 2 /\ p.x >= cols - 1 THEN At(0, Down(p.y)) ELSE p
           full   == q.x + width >= cols
           wrap52 == full /\ cur.wrap /\ vt52_mode
           nx     == IF full THEN cols - 1 ELSE q.x + width
           nw     == ~wrap52 /\ (full \/ (cur.wrapnext /\ ~wraps))
<1>1. rows \in Nat \ {0} /\ cols \in Nat /\ cols >= 2 /\ cols \in Int
  BY SizeType DEF IInv, TypeOK, WideEnough
<1>2. /\ cur.curs.x \in 0 .. cols - 1 /\ cur.curs.y \in 0 .. rows - 1
      /\ Good(cur, rows, cols) /\ TypeOK
  BY DEF IInv, Good
<1>3. \A y \in 0 .. rows - 1 : Down(y) \in 0 .. rows - 1
  BY <1>2, DownBound
<1>4. p.x \in 0 .. cols - 1 /\ p.y \in 0 .. rows - 1
  <2>1. 0 \in 0 .. cols - 1 /\ Down(cur.curs.y) \in Int
    BY <1>1, <1>2, <1>3
  <2>2. At(0, Down(cur.curs.y)).x = 0 /\ At(0, Down(cur.curs.y)).y = Down(cur.curs.y)
    BY <2>1, AtType
  <2>3. CASE wraps
    BY <1>2, <1>3, <2>1, <2>2, <2>3
  <2>4. CASE ~wraps
    BY <1>2, <2>4
  <2>. QED
    BY <2>3, <2>4
<1>5. q.x \in Int /\ q.y \in Int /\ q.x + width <= cols
  <2>. HIDE DEF p
  <2>1. Down(p.y) \in Int
    BY <1>1, <1>3, <1>4
  <2>2. At(0, Down(p.y)).x = 0 /\ At(0, Down(p.y)).y = Down(p.y)
    BY <2>1, AtType
  <2>3. CASE width = 2 /\ p.x >= cols - 1
    BY <1>1, <2>1, <2>2, <2>3
  <2>4. CASE ~(width = 2 /\ p.x >= cols - 1)
    BY <1>1, <1>4, <2>4
  <2>. QED
    BY <2>3, <2>4
<1>6. ~wrap52 /\ wrote' = At(q.x + width - 1, q.y) /\ cols' = cols
      /\ cur' = [cur EXCEPT !.curs = At(nx, q.y), !.wrapnext = nw]
  <2>1. ~(cols < 2)
    BY <1>1
  <2>2. wrote' = IF wrap52 THEN Nowhere ELSE At(q.x + width - 1, q.y)
    BY <2>1 DEF GraphicChar
  <2>3. ~wrap52
    BY <2>2
  <2>4. /\ cur' = [cur EXCEPT !.curs = IF wrap52 THEN At(0, Down(q.y))
                                       ELSE IF full THEN At(cols - 1, q.y)
                                       ELSE At(q.x + width, q.y),
                              !.wrapnext = nw]
        /\ cols' = cols
    BY <2>1 DEF GraphicChar, Frame
  <2>. HIDE DEF wrap52, nw, q, full
  <2>5. At(nx, q.y) = IF full THEN At(cols - 1, q.y) ELSE At(q.x + width, q.y)
    OBVIOUS
  <2>. QED
    BY <2>2, <2>3, <2>4, <2>5
<1>7. full => nw
  BY <1>6
<1>8. cur'.curs = At(nx, q.y) /\ cur'.wrapnext = nw
  <2>. HIDE DEF nx, nw, q
  <2>. QED
    BY <1>2, <1>6 DEF Good, Settings
<1>. HIDE DEF q, wrap52, nw
<1>9. nx \in Int /\ nx < cols /\ (full => nx = cols - 1) /\ (~full => nx = q.x + width)
  BY <1>1, <1>5
<1>10. wrote'.x = q.x + width - 1 /\ wrote'.y = q.y /\ cur'.curs.x = nx /\ cur'.curs.y = q.y
  <2>1. q.x + width - 1 \in Int
    BY <1>5
  <2>. HIDE DEF nx
  <2>2. At(q.x + width - 1, q.y).x = q.x + width - 1 /\ At(q.x + width - 1, q.y).y = q.y
    BY <1>5, <2>1, AtType
  <2>3. At(nx, q.y).x = nx /\ At(nx, q.y).y = q.y
    BY <1>5, <1>9, AtType
  <2>. QED
    BY <1>6, <1>8, <2>2, <2>3
<1>11. IncPos(cur.curs)'.x = nx + 1 /\ IncPos(cur.curs)'.y = q.y
  <2>1. IncPos(cur.curs)' = At(nx + 1, q.y)
    BY <1>1, <1>6, <1>9, <1>10 DEF IncPos
  <2>. QED
    BY <1>5, <1>9, <2>1, AtType
<1>12. CASE cur'.wrapnext
  <2>1. q.x + width - 1 < nx + 1
    <3>. HIDE DEF nx
    <3>. QED
      BY <1>1, <1>5, <1>9
  <2>. QED
    BY <1>10, <1>11, <1>12, <2>1 DEF PosLt
<1>13. CASE ~cur'.wrapnext
  <2>1. ~full
    BY <1>7, <1>8, <1>13
  <2>2. q.x + width - 1 < nx
    BY <1>1, <1>5, <1>9, <2>1
  <2>. QED
    BY <1>10, <1>13, <2>2 DEF PosLt
<1>. QED
  BY <1>12, <1>13

\* So no step puts the start of ESC[K before what was just printed.
LEMMA EraseSparesNext ==
    ASSUME IInv, WideEnough, EraseSparesLast, [Next]_vars
    PROVE  EraseSparesLast'
<1>1. CASE UNCHANGED vars
  BY <1>1 DEF vars, history, EraseSparesLast, PosLt, IncPos
<1>2. CASE Next /\ (GraphicChar(1) \/ GraphicChar(2))
  BY <1>2, GraphicSpares
<1>3. CASE Next /\ ~GraphicChar(1) /\ ~GraphicChar(2)
  BY <1>3, NothingWritten DEF EraseSparesLast
<1>. QED
  BY <1>1, <1>2, <1>3

\* In windows wide enough for the trust sigil, ESC[K spares the character that was
\* just written (erase_lots).
LEMMA ErasesAfter == WideEnough /\ Spec => []EraseSparesLast
<1> DEFINE Inv == IInv /\ EraseSparesLast
<1>1. Init => Inv
  BY InitGood DEF Init, EraseSparesLast
<1>2. WideEnough /\ Inv /\ [Next]_vars => Inv'
  BY NextGood, EraseSparesNext
<1>3. WideEnough => WideEnough'
  BY DEF WideEnough
<1>4. Inv => EraseSparesLast
  OBVIOUS
<1>. QED
  BY <1>1, <1>2, <1>3, <1>4, PTL DEF Spec

-----------------------------------------------------------------------------
(* The windows of the program (SessionWindow).  s_active_session_count is  *)
(* the number of sessions, and the password that was typed for a session   *)
(* is only its own: that is the invariant.                                 *)

\* The instance's sets and ours are counted alike.
LEMMA SameFinite == \A S : Win!IsFiniteSet(S) <=> IsFiniteSet(S)
BY DEF Win!IsFiniteSet, IsFiniteSet

\* The same, for their sizes.
LEMMA SameCardinality == \A S : Win!Cardinality(S) = Cardinality(S)
BY Zenon DEF Win!Cardinality, Cardinality

\* s_active_session_count is the number of windows that are open, and the last
\* one that closes brings back the dialog or ends the program.
Sessions(f) == {w \in Windows : f[w]}

Counted ==
    /\ count = Cardinality(Sessions(counted))
    /\ \A w \in Windows : counted[w] <=> window[w] = "open"
    /\ running => main = "shown" \/ count > 0
    /\ ~running => count = 0

\* One session at a time logs in: the one that the password was typed for, or
\* that the login dialog is about.
OneLogin ==
    /\ \A v, w \in Windows : backend[v] = "login" /\ backend[w] = "login" => v = w
    /\ \A v \in Windows : backend[v] = "login" =>
           /\ cached \in {Nobody, v}
           /\ \A i \in 1 .. Len(modal) : modal[i].kind = "login" => modal[i].win = v
    /\ ~crossed

SessionInv == Win!TypeOK /\ Counted /\ (~TwoLogins => OneLogin)

\* The sessions are finitely many, and there is none exactly when no window has
\* one.
LEMMA SessionsFinite ==
    ASSUME Win!ParamAssumption, NEW f
    PROVE  /\ IsFiniteSet(Sessions(f))
           /\ Cardinality(Sessions(f)) \in 0 .. Cardinality(Windows)
           /\ Cardinality(Sessions(f)) = 0 <=> \A w \in Windows : ~f[w]
<1>1. Sessions(f) \in SUBSET Windows /\ IsFiniteSet(Windows)
  BY SameFinite DEF Sessions, Win!ParamAssumption
<1>2. IsFiniteSet(Sessions(f)) /\ Cardinality(Sessions(f)) <= Cardinality(Windows)
  BY <1>1, FS_Subset
<1>3. Cardinality(Sessions(f)) \in Nat /\ Cardinality(Windows) \in Nat
  BY <1>1, <1>2, FS_CardinalityType
<1>4. Cardinality(Sessions(f)) = 0 <=> Sessions(f) = {}
  BY <1>2, FS_EmptySet
<1>5. Sessions(f) = {} <=> \A w \in Windows : ~f[w]
  BY DEF Sessions
<1> QED
  BY <1>2, <1>3, <1>4, <1>5

\* A window that loses its session takes one from the count.
LEMMA SessionsClose ==
    ASSUME Win!ParamAssumption, NEW f \in [Windows -> BOOLEAN], NEW w \in Windows
    PROVE  Cardinality(Sessions([f EXCEPT ![w] = FALSE]))
             = Cardinality(Sessions(f)) - (IF f[w] THEN 1 ELSE 0)
<1>1. Sessions([f EXCEPT ![w] = FALSE]) = Sessions(f) \ {w}
  BY DEF Sessions
<1>2. f[w] <=> w \in Sessions(f)
  BY DEF Sessions
<1>3. IsFiniteSet(Sessions(f)) /\ Cardinality(Sessions(f)) \in Nat
  BY SessionsFinite, FS_CardinalityType
<1>4. CASE f[w]
  BY <1>1, <1>2, <1>3, <1>4, FS_RemoveElement
<1>5. CASE ~f[w]
  <2>1. Sessions([f EXCEPT ![w] = FALSE]) = Sessions(f)
    BY <1>1, <1>2, <1>5
  <2> QED
    BY <1>3, <1>5, <2>1
<1> QED
  BY <1>4, <1>5

\* A window that gets a session adds one to the count.
LEMMA SessionsOpen ==
    ASSUME Win!ParamAssumption, NEW f \in [Windows -> BOOLEAN], NEW w \in Windows, ~f[w]
    PROVE  Cardinality(Sessions([f EXCEPT ![w] = TRUE])) = Cardinality(Sessions(f)) + 1
<1>1. Sessions([f EXCEPT ![w] = TRUE]) = Sessions(f) \union {w}
  BY DEF Sessions
<1>2. w \notin Sessions(f)
  BY DEF Sessions
<1>3. IsFiniteSet(Sessions(f))
  BY SessionsFinite
<1> QED
  BY <1>1, <1>2, <1>3, FS_AddElement

\* closeEvent that accepts counts the session down, and the last one brings back
\* the dialog or ends the program.
LEMMA AcceptedCounts ==
    ASSUME Win!ParamAssumption, Win!TypeOK, Counted, running,
           NEW w \in Windows, Win!Accepted(w, active)
    PROVE  Counted'
<1>1. count' = Cardinality(Sessions(counted'))
  BY SessionsClose DEF Win!Accepted, Win!TypeOK, Counted
<1>2. count' \in Nat /\ (count' = 0 <=> \A v \in Windows : ~counted'[v])
  BY <1>1, SessionsFinite
<1>3. \A v \in Windows : counted'[v] <=> window'[v] = "open"
  BY DEF Win!Accepted, Win!TypeOK, Counted
<1>4. /\ main' = IF count' <= 0 /\ main # "none" THEN "shown" ELSE main
      /\ running' <=> ~(count' <= 0 /\ main = "none")
  BY DEF Win!Accepted
<1>5. running' => main' = "shown" \/ count' > 0
  BY <1>2, <1>4
<1>6. ~running' => count' = 0
  BY <1>2, <1>4
<1> QED
  BY <1>1, <1>3, <1>5, <1>6 DEF Counted

\* A new window counts its session (onSessionStart).
LEMMA OpensCounts ==
    ASSUME Win!ParamAssumption, Win!TypeOK, Counted, running, running' = running,
           NEW w \in Windows, Win!NewSessionWindow(w)
    PROVE  Counted'
<1>1. ~counted[w] /\ count' = Cardinality(Sessions(counted'))
  BY SessionsOpen DEF Win!NewSessionWindow, Win!TypeOK, Counted
<1>2. count' \in Nat /\ count \in Nat /\ count' = count + 1
  BY SessionsFinite DEF Win!NewSessionWindow, Win!TypeOK, Counted
<1>3. \A v \in Windows : counted'[v] <=> window'[v] = "open"
  BY DEF Win!NewSessionWindow, Win!TypeOK, Counted
<1> QED
  BY <1>1, <1>2, <1>3 DEF Counted

\* Every step keeps the count.
LEMMA CountedStep ==
    ASSUME Win!ParamAssumption, Win!TypeOK, Counted, Win!Next
    PROVE  Counted'
<1> USE DEF Win!history, Win!state
<1>r. running
  BY DEF Win!Next
<1>1. CASE Win!DialogAccept
  BY <1>1, <1>r, OpensCounts DEF Win!DialogAccept, Counted, Win!TypeOK
<1>2. CASE Win!DialogReject
  BY <1>2, SessionsFinite DEF Win!DialogReject, Counted, Win!TypeOK
<1>3. ASSUME NEW w \in Windows, Win!Step(w)
      PROVE  Counted'
  <2>1. CASE Win!UserClose(w)
    BY <2>1, <1>r, AcceptedCounts DEF Win!UserClose, Win!Push, Counted, Win!TypeOK
  <2>2. CASE Win!AnswerConfirm(w)
    BY <2>2, <1>r, AcceptedCounts DEF Win!AnswerConfirm, Counted, Win!TypeOK
  <2>3. CASE Win!Destroy(w)
    BY <2>3, SessionsClose DEF Win!Destroy, Counted, Win!TypeOK
  <2>4. CASE Win!AnswerFailed(w)
    BY <2>4, <1>r, AcceptedCounts DEF Win!AnswerFailed, Counted, Win!TypeOK
  <2>5. CASE Win!RemoteExit(w)
    BY <2>5, <1>r, AcceptedCounts
    DEF Win!RemoteExit, Win!Ends, Win!OnSessionClosed, Counted, Win!TypeOK
  <2>6. CASE Win!ConnectionFatal(w)
    BY <2>6 DEF Win!ConnectionFatal, Win!Ends, Win!Push, Counted, Win!TypeOK
  <2>7. CASE Win!AnswerFatal(w)
    BY <2>7, <1>r, AcceptedCounts
    DEF Win!AnswerFatal, Win!OnSessionClosed, Counted, Win!TypeOK
  <2>8. CASE Win!LoginDone(w)
    BY <2>8 DEF Win!LoginDone, Counted, Win!TypeOK
  <2>9. CASE Win!VerifyHostKey(w)
    BY <2>9 DEF Win!VerifyHostKey, Win!Push, Counted, Win!TypeOK
  <2>10. CASE Win!PromptLogin(w)
    BY <2>10 DEF Win!PromptLogin, Win!Push, Counted, Win!TypeOK
  <2>11. CASE Win!PromptPassword(w)
    BY <2>11 DEF Win!PromptPassword, Win!Push, Counted, Win!TypeOK
  <2>12. CASE \E kind \in Win!SeatDialogs : Win!AnswerSeatDialog(w, kind)
    BY <2>12, <1>r, AcceptedCounts
    DEF Win!AnswerSeatDialog, Win!OnSessionClosed, Counted, Win!TypeOK
  <2>13. CASE Win!MenuNewSession(w)
    BY <2>13 DEF Win!MenuNewSession, Counted, Win!TypeOK
  <2>14. CASE Win!MenuDuplicateSession(w)
    BY <2>14, <1>r, OpensCounts
    DEF Win!MenuDuplicateSession, Win!StartSession, Win!Push, Counted, Win!TypeOK
  <2>15. CASE Win!MenuRestartSession(w)
    BY <2>15
    DEF Win!MenuRestartSession, Win!StartSession, Win!Push, Counted, Win!TypeOK
  <2> QED
    BY <1>3, <2>1, <2>2, <2>3, <2>4, <2>5, <2>6, <2>7, <2>8, <2>9, <2>10, <2>11,
       <2>12, <2>13, <2>14, <2>15
    DEF Win!Step
<1> QED
  BY <1>1, <1>2, <1>3 DEF Win!Next

\* What opening and closing a dialog does to the stack of dialogs.
Dialogs == Seq([kind : Win!Kinds, win : Windows])

\* A dialog on top of the others.
LEMMA Pushed ==
    ASSUME NEW stack \in Dialogs, NEW k \in Win!Kinds, NEW w \in Windows
    PROVE  LET new == Append(stack, [kind |-> k, win |-> w]) IN
           /\ new \in Dialogs
           /\ \A i \in 1 .. Len(new) : new[i].kind = "login" =>
                  \/ k = "login" /\ new[i].win = w
                  \/ i \in 1 .. Len(stack) /\ new[i] = stack[i]
<1> DEFINE d == [kind |-> k, win |-> w]
<1>1. d \in [kind : Win!Kinds, win : Windows] /\ d.kind = k /\ d.win = w
  OBVIOUS
<1> HIDE DEF d
<1> QED
  BY <1>1 DEF Dialogs, d

\* The dialogs below the top one.
LEMMA BelowTop ==
    ASSUME NEW stack \in Dialogs, stack # <<>>
    PROVE  LET new == SubSeq(stack, 1, Len(stack) - 1) IN
           /\ new \in Dialogs
           /\ \A i \in 1 .. Len(new) : i \in 1 .. Len(stack) /\ new[i] = stack[i]
<1> DEFINE n == Len(stack) - 1
<1>1. n \in Nat /\ Len(stack) = n + 1 /\ 1 .. n \subseteq 1 .. Len(stack)
  BY DEF Dialogs
<1>2. /\ SubSeq(stack, 1, n) \in Dialogs /\ Len(SubSeq(stack, 1, n)) = n
      /\ \A i \in 1 .. n : SubSeq(stack, 1, n)[i] = stack[i]
  <2> DEFINE D == [kind : Win!Kinds, win : Windows]
  <2>1. stack \in Seq(D)
    BY DEF Dialogs
  <2>2. 1 \in Int /\ n \in Int /\ \A i \in 1 .. n : stack[i] \in D
    <3> HIDE DEF D, n
    <3> QED
      BY <1>1, <2>1, ElementOfSeq
  <2>3. n - 1 + 1 = n /\ (1 <= n \/ n = 0) /\ \A i \in 1 .. n : 1 + i - 1 = i
    BY <1>1
  <2> HIDE DEF n, D
  <2>4. /\ SubSeq(stack, 1, n) \in Seq(D)
        /\ Len(SubSeq(stack, 1, n)) = IF 1 <= n THEN n - 1 + 1 ELSE 0
        /\ \A i \in 1 .. n - 1 + 1 : SubSeq(stack, 1, n)[i] = stack[1 + i - 1]
    BY <2>2, SubSeqProperties
  <2> QED
    BY <2>3, <2>4 DEF Dialogs, D
<1> QED
  BY <1>1, <1>2

\* Opening a dialog keeps the stack of dialogs a stack of dialogs.
LEMMA PushType ==
    ASSUME NEW k \in Win!Kinds, NEW w \in Windows, modal \in Dialogs, Win!Push(k, w)
    PROVE  modal' \in Dialogs
BY Pushed DEF Win!Push

\* While one session at a time logs in, every step keeps that, and the password
\* with it.
LEMMA OneLoginStep ==
    ASSUME Win!ParamAssumption, Win!TypeOK, ~TwoLogins, OneLogin, Win!Next
    PROVE  OneLogin'
<1> USE DEF Win!history, Win!state
<1>1. CASE Win!DialogAccept
  BY <1>1
  DEF Win!DialogAccept, Win!NewSessionWindow, Win!StartSession, Win!Push, OneLogin,
      Win!CanPrompt, Win!OnTop, Win!Popped, Win!TypeOK
<1>2. CASE Win!DialogReject
  BY <1>2
  DEF Win!DialogReject, OneLogin, Win!CanPrompt, Win!OnTop, Win!Popped, Win!TypeOK
<1>3. ASSUME NEW w \in Windows, Win!Step(w)
      PROVE  OneLogin'
  <2>1. CASE Win!UserClose(w)
    BY <2>1
    DEF Win!UserClose, Win!Accepted, Win!Push, OneLogin, Win!CanPrompt, Win!OnTop,
        Win!Popped, Win!TypeOK
  <2>2. CASE Win!AnswerConfirm(w)
    BY <2>2
    DEF Win!AnswerConfirm, Win!Accepted, OneLogin, Win!CanPrompt, Win!OnTop,
        Win!Popped, Win!TypeOK
  <2>3. CASE Win!Destroy(w)
    BY <2>3
    DEF Win!Destroy, OneLogin, Win!CanPrompt, Win!OnTop, Win!Popped, Win!TypeOK
  <2>4. CASE Win!AnswerFailed(w)
    BY <2>4
    DEF Win!AnswerFailed, Win!Accepted, OneLogin, Win!CanPrompt, Win!OnTop,
        Win!Popped, Win!TypeOK
  <2>5. CASE Win!RemoteExit(w)
    BY <2>5
    DEF Win!RemoteExit, Win!Ends, Win!OnSessionClosed, Win!Accepted, OneLogin,
        Win!CanPrompt, Win!OnTop, Win!Popped, Win!TypeOK
  <2>6. CASE Win!ConnectionFatal(w)
    BY <2>6
    DEF Win!ConnectionFatal, Win!Ends, Win!Push, OneLogin, Win!CanPrompt, Win!OnTop,
        Win!Popped, Win!TypeOK
  <2>7. CASE Win!AnswerFatal(w)
    BY <2>7
    DEF Win!AnswerFatal, Win!OnSessionClosed, Win!Accepted, OneLogin, Win!CanPrompt,
        Win!OnTop, Win!Popped, Win!TypeOK
  <2>8. CASE Win!LoginDone(w)
    BY <2>8
    DEF Win!LoginDone, OneLogin, Win!CanPrompt, Win!OnTop, Win!Popped, Win!TypeOK
  <2>9. CASE Win!VerifyHostKey(w)
    BY <2>9
    DEF Win!VerifyHostKey, Win!Push, OneLogin, Win!CanPrompt, Win!OnTop, Win!Popped,
        Win!TypeOK
  <2>10. CASE Win!PromptLogin(w)
    BY <2>10
    DEF Win!PromptLogin, Win!Push, OneLogin, Win!CanPrompt, Win!OnTop, Win!Popped,
        Win!TypeOK
  <2>11. CASE Win!PromptPassword(w)
    <3>1. CASE cached # Nobody
      <4>1. cached = w /\ modal' = modal /\ cached' = Nobody /\ backend' = backend
            /\ crossed' = (crossed \/ cached # w)
        BY <2>11, <3>1 DEF Win!PromptPassword, Win!CanPrompt, OneLogin
      <4>2. ~crossed'
        BY <4>1, Zenon DEF OneLogin
      <4> QED
        BY <4>1, <4>2 DEF OneLogin
    <3>2. CASE cached = Nobody
      <4>1. /\ modal' = Append(modal, [kind |-> "password", win |-> w])
            /\ cached' = Nobody /\ crossed' = crossed /\ backend' = backend
        BY <2>11, <3>2 DEF Win!PromptPassword, Win!Push
      <4>2. modal \in Dialogs /\ "password" \in Win!Kinds
        BY DEF Win!TypeOK, Dialogs, Win!Kinds, Win!SeatDialogs
      <4>3. \A i \in 1 .. Len(modal') : modal'[i].kind = "login" =>
               i \in 1 .. Len(modal) /\ modal'[i] = modal[i]
        BY <4>1, <4>2, Pushed
      <4> QED
        BY <4>1, <4>3 DEF OneLogin
    <3> QED
      BY <3>1, <3>2
  <2>12. CASE \E kind \in Win!SeatDialogs : Win!AnswerSeatDialog(w, kind)
    <3>1. PICK kind \in Win!SeatDialogs : Win!AnswerSeatDialog(w, kind)
      BY <2>12
    <3>2. /\ modal # <<>> /\ Len(modal) \in 1 .. Len(modal)
          /\ modal[Len(modal)] = [kind |-> kind, win |-> w]
      BY <3>1 DEF Win!AnswerSeatDialog, Win!OnTop, Win!TypeOK
    <3>3. \A i \in 1 .. Len(modal') : i \in 1 .. Len(modal) /\ modal'[i] = modal[i]
      BY <3>1, <3>2, BelowTop
      DEF Win!AnswerSeatDialog, Win!Popped, Win!TypeOK, Dialogs
    <3>4. \A v \in Windows : backend'[v] = "login" => backend[v] = "login"
      BY <3>1 DEF Win!AnswerSeatDialog, Win!TypeOK
    <3>5. crossed' = crossed
      BY <3>1 DEF Win!AnswerSeatDialog
    <3>6. cached' \in {cached, Nobody} \/ (cached' = w /\ kind = "login")
      BY <3>1 DEF Win!AnswerSeatDialog, Win!OnSessionClosed, Win!Accepted
    <3>7. ASSUME NEW v \in Windows, backend'[v] = "login"
          PROVE  /\ cached' \in {Nobody, v}
                 /\ \A i \in 1 .. Len(modal') : modal'[i].kind = "login" => modal'[i].win = v
      BY <3>2, <3>3, <3>4, <3>6, <3>7 DEF OneLogin
    <3> QED
      BY <3>4, <3>5, <3>7 DEF OneLogin
  <2>13. CASE Win!MenuNewSession(w)
    BY <2>13
    DEF Win!MenuNewSession, OneLogin, Win!CanPrompt, Win!OnTop, Win!Popped,
        Win!TypeOK
  <2>14. CASE Win!MenuDuplicateSession(w)
    BY <2>14
    DEF Win!MenuDuplicateSession, Win!NewSessionWindow, Win!StartSession, Win!Push,
        OneLogin, Win!CanPrompt, Win!OnTop, Win!Popped, Win!TypeOK
  <2>15. CASE Win!MenuRestartSession(w)
    BY <2>15
    DEF Win!MenuRestartSession, Win!StartSession, Win!Push, OneLogin, Win!CanPrompt,
        Win!OnTop, Win!Popped, Win!TypeOK
  <2> QED
    BY <1>3, <2>1, <2>2, <2>3, <2>4, <2>5, <2>6, <2>7, <2>8, <2>9, <2>10, <2>11,
       <2>12, <2>13, <2>14, <2>15
    DEF Win!Step
<1> QED
  BY <1>1, <1>2, <1>3 DEF Win!Next

\* The session whose password is cached is one of the windows, or nobody.
LEMMA CachedType ==
    ASSUME Win!ParamAssumption, Win!TypeOK, Win!Next
    PROVE  (cached \in Windows \cup {Nobody})'
<1> USE DEF Win!history, Win!state
<1>1. CASE Win!DialogAccept
  BY <1>1 DEF Win!DialogAccept, Win!NewSessionWindow, Win!StartSession, Win!TypeOK
<1>2. CASE Win!DialogReject
  BY <1>2 DEF Win!DialogReject, Win!TypeOK
<1>3. ASSUME NEW w \in Windows, Win!Step(w)
      PROVE  (cached \in Windows \cup {Nobody})'
  <2>1. CASE Win!UserClose(w)
    BY <2>1 DEF Win!UserClose, Win!Accepted, Win!TypeOK
  <2>2. CASE Win!AnswerConfirm(w)
    BY <2>2 DEF Win!AnswerConfirm, Win!Accepted, Win!TypeOK
  <2>3. CASE Win!Destroy(w)
    BY <2>3 DEF Win!Destroy, Win!TypeOK
  <2>4. CASE Win!AnswerFailed(w)
    BY <2>4 DEF Win!AnswerFailed, Win!Accepted, Win!TypeOK
  <2>5. CASE Win!RemoteExit(w)
    BY <2>5
    DEF Win!RemoteExit, Win!Ends, Win!Has, Win!OnSessionClosed, Win!Accepted,
        Win!TypeOK
  <2>6. CASE Win!ConnectionFatal(w)
    BY <2>6 DEF Win!ConnectionFatal, Win!Ends, Win!Has, Win!TypeOK
  <2>7. CASE Win!AnswerFatal(w)
    BY <2>7 DEF Win!AnswerFatal, Win!OnSessionClosed, Win!Accepted, Win!TypeOK
  <2>8. CASE Win!LoginDone(w)
    BY <2>8 DEF Win!LoginDone, Win!TypeOK
  <2>9. CASE Win!VerifyHostKey(w)
    BY <2>9 DEF Win!VerifyHostKey, Win!TypeOK
  <2>10. CASE Win!PromptLogin(w)
    BY <2>10 DEF Win!PromptLogin, Win!TypeOK
  <2>11. CASE Win!PromptPassword(w)
    BY <2>11 DEF Win!PromptPassword, Win!TypeOK
  <2>12. CASE \E kind \in Win!SeatDialogs : Win!AnswerSeatDialog(w, kind)
    BY <2>12 DEF Win!AnswerSeatDialog, Win!OnSessionClosed, Win!Accepted, Win!TypeOK
  <2>13. CASE Win!MenuNewSession(w)
    BY <2>13 DEF Win!MenuNewSession, Win!TypeOK
  <2>14. CASE Win!MenuDuplicateSession(w)
    BY <2>14
    DEF Win!MenuDuplicateSession, Win!NewSessionWindow, Win!StartSession, Win!TypeOK
  <2>15. CASE Win!MenuRestartSession(w)
    BY <2>15 DEF Win!MenuRestartSession, Win!StartSession, Win!TypeOK
  <2> QED
    BY <1>3, <2>1, <2>2, <2>3, <2>4, <2>5, <2>6, <2>7, <2>8, <2>9, <2>10, <2>11,
       <2>12, <2>13, <2>14, <2>15
    DEF Win!Step
<1> QED
  BY <1>1, <1>2, <1>3 DEF Win!Next

\* The types of the flags of the program.
LEMMA FlagsType ==
    ASSUME Win!ParamAssumption, Win!TypeOK, Win!Next
    PROVE  (/\ running \in BOOLEAN /\ main \in {"none", "hidden", "shown"}
            /\ crossed \in BOOLEAN /\ resumed \in BOOLEAN)'
<1> USE DEF Win!history, Win!state
<1>1. CASE Win!DialogAccept
  BY <1>1 DEF Win!DialogAccept, Win!NewSessionWindow, Win!StartSession, Win!TypeOK
<1>2. CASE Win!DialogReject
  BY <1>2 DEF Win!DialogReject, Win!TypeOK
<1>3. ASSUME NEW w \in Windows, Win!Step(w)
      PROVE  (/\ running \in BOOLEAN /\ main \in {"none", "hidden", "shown"}
              /\ crossed \in BOOLEAN /\ resumed \in BOOLEAN)'
  <2>1. CASE Win!UserClose(w)
    BY <2>1 DEF Win!UserClose, Win!Accepted, Win!TypeOK
  <2>2. CASE Win!AnswerConfirm(w)
    BY <2>2 DEF Win!AnswerConfirm, Win!Accepted, Win!TypeOK
  <2>3. CASE Win!Destroy(w)
    BY <2>3 DEF Win!Destroy, Win!TypeOK
  <2>4. CASE Win!AnswerFailed(w)
    BY <2>4 DEF Win!AnswerFailed, Win!Accepted, Win!TypeOK
  <2>5. CASE Win!RemoteExit(w)
    BY <2>5
    DEF Win!RemoteExit, Win!Ends, Win!Has, Win!OnSessionClosed, Win!Accepted,
        Win!TypeOK
  <2>6. CASE Win!ConnectionFatal(w)
    BY <2>6 DEF Win!ConnectionFatal, Win!Ends, Win!Has, Win!TypeOK
  <2>7. CASE Win!AnswerFatal(w)
    BY <2>7 DEF Win!AnswerFatal, Win!OnSessionClosed, Win!Accepted, Win!TypeOK
  <2>8. CASE Win!LoginDone(w)
    BY <2>8 DEF Win!LoginDone, Win!TypeOK
  <2>9. CASE Win!VerifyHostKey(w)
    BY <2>9 DEF Win!VerifyHostKey, Win!TypeOK
  <2>10. CASE Win!PromptLogin(w)
    BY <2>10 DEF Win!PromptLogin, Win!TypeOK
  <2>11. CASE Win!PromptPassword(w)
    BY <2>11 DEF Win!PromptPassword, Win!TypeOK
  <2>12. CASE \E kind \in Win!SeatDialogs : Win!AnswerSeatDialog(w, kind)
    BY <2>12 DEF Win!AnswerSeatDialog, Win!OnSessionClosed, Win!Accepted, Win!TypeOK
  <2>13. CASE Win!MenuNewSession(w)
    BY <2>13 DEF Win!MenuNewSession, Win!TypeOK
  <2>14. CASE Win!MenuDuplicateSession(w)
    BY <2>14
    DEF Win!MenuDuplicateSession, Win!NewSessionWindow, Win!StartSession, Win!TypeOK
  <2>15. CASE Win!MenuRestartSession(w)
    BY <2>15 DEF Win!MenuRestartSession, Win!StartSession, Win!TypeOK
  <2> QED
    BY <1>3, <2>1, <2>2, <2>3, <2>4, <2>5, <2>6, <2>7, <2>8, <2>9, <2>10, <2>11,
       <2>12, <2>13, <2>14, <2>15
    DEF Win!Step
<1> QED
  BY <1>1, <1>2, <1>3 DEF Win!Next

\* The types of the windows.
LEMMA WindowsType ==
    ASSUME Win!ParamAssumption, Win!TypeOK, Win!Next
    PROVE  (/\ window \in [Windows -> {"none", "open", "closing", "gone"}]
            /\ counted \in [Windows -> BOOLEAN])'
<1> USE DEF Win!history, Win!state
<1>1. CASE Win!DialogAccept
  BY <1>1 DEF Win!DialogAccept, Win!NewSessionWindow, Win!StartSession, Win!TypeOK
<1>2. CASE Win!DialogReject
  BY <1>2 DEF Win!DialogReject, Win!TypeOK
<1>3. ASSUME NEW w \in Windows, Win!Step(w)
      PROVE  (/\ window \in [Windows -> {"none", "open", "closing", "gone"}]
            /\ counted \in [Windows -> BOOLEAN])'
  <2>1. CASE Win!UserClose(w)
    BY <2>1 DEF Win!UserClose, Win!Accepted, Win!TypeOK
  <2>2. CASE Win!AnswerConfirm(w)
    BY <2>2 DEF Win!AnswerConfirm, Win!Accepted, Win!TypeOK
  <2>3. CASE Win!Destroy(w)
    BY <2>3 DEF Win!Destroy, Win!TypeOK
  <2>4. CASE Win!AnswerFailed(w)
    BY <2>4 DEF Win!AnswerFailed, Win!Accepted, Win!TypeOK
  <2>5. CASE Win!RemoteExit(w)
    BY <2>5
    DEF Win!RemoteExit, Win!Ends, Win!Has, Win!OnSessionClosed, Win!Accepted,
        Win!TypeOK
  <2>6. CASE Win!ConnectionFatal(w)
    BY <2>6 DEF Win!ConnectionFatal, Win!Ends, Win!Has, Win!TypeOK
  <2>7. CASE Win!AnswerFatal(w)
    BY <2>7 DEF Win!AnswerFatal, Win!OnSessionClosed, Win!Accepted, Win!TypeOK
  <2>8. CASE Win!LoginDone(w)
    BY <2>8 DEF Win!LoginDone, Win!TypeOK
  <2>9. CASE Win!VerifyHostKey(w)
    BY <2>9 DEF Win!VerifyHostKey, Win!TypeOK
  <2>10. CASE Win!PromptLogin(w)
    BY <2>10 DEF Win!PromptLogin, Win!TypeOK
  <2>11. CASE Win!PromptPassword(w)
    BY <2>11 DEF Win!PromptPassword, Win!TypeOK
  <2>12. CASE \E kind \in Win!SeatDialogs : Win!AnswerSeatDialog(w, kind)
    BY <2>12 DEF Win!AnswerSeatDialog, Win!OnSessionClosed, Win!Accepted, Win!TypeOK
  <2>13. CASE Win!MenuNewSession(w)
    BY <2>13 DEF Win!MenuNewSession, Win!TypeOK
  <2>14. CASE Win!MenuDuplicateSession(w)
    BY <2>14
    DEF Win!MenuDuplicateSession, Win!NewSessionWindow, Win!StartSession, Win!TypeOK
  <2>15. CASE Win!MenuRestartSession(w)
    BY <2>15 DEF Win!MenuRestartSession, Win!StartSession, Win!TypeOK
  <2> QED
    BY <1>3, <2>1, <2>2, <2>3, <2>4, <2>5, <2>6, <2>7, <2>8, <2>9, <2>10, <2>11,
       <2>12, <2>13, <2>14, <2>15
    DEF Win!Step
<1> QED
  BY <1>1, <1>2, <1>3 DEF Win!Next

\* The types of the sessions in the windows.
LEMMA BackendsType ==
    ASSUME Win!ParamAssumption, Win!TypeOK, Win!Next
    PROVE  (/\ active \in [Windows -> BOOLEAN]
            /\ backend \in [Windows -> {"none", "login", "live", "ended"}]
            /\ freed \in [Windows -> BOOLEAN])'
<1> USE DEF Win!history, Win!state
<1>1. CASE Win!DialogAccept
  BY <1>1 DEF Win!DialogAccept, Win!NewSessionWindow, Win!StartSession, Win!TypeOK
<1>2. CASE Win!DialogReject
  BY <1>2 DEF Win!DialogReject, Win!TypeOK
<1>3. ASSUME NEW w \in Windows, Win!Step(w)
      PROVE  (/\ active \in [Windows -> BOOLEAN]
            /\ backend \in [Windows -> {"none", "login", "live", "ended"}]
            /\ freed \in [Windows -> BOOLEAN])'
  <2>1. CASE Win!UserClose(w)
    BY <2>1 DEF Win!UserClose, Win!Accepted, Win!TypeOK
  <2>2. CASE Win!AnswerConfirm(w)
    BY <2>2 DEF Win!AnswerConfirm, Win!Accepted, Win!TypeOK
  <2>3. CASE Win!Destroy(w)
    BY <2>3 DEF Win!Destroy, Win!TypeOK
  <2>4. CASE Win!AnswerFailed(w)
    BY <2>4 DEF Win!AnswerFailed, Win!Accepted, Win!TypeOK
  <2>5. CASE Win!RemoteExit(w)
    BY <2>5
    DEF Win!RemoteExit, Win!Ends, Win!Has, Win!OnSessionClosed, Win!Accepted,
        Win!TypeOK
  <2>6. CASE Win!ConnectionFatal(w)
    BY <2>6 DEF Win!ConnectionFatal, Win!Ends, Win!Has, Win!TypeOK
  <2>7. CASE Win!AnswerFatal(w)
    BY <2>7 DEF Win!AnswerFatal, Win!OnSessionClosed, Win!Accepted, Win!TypeOK
  <2>8. CASE Win!LoginDone(w)
    BY <2>8 DEF Win!LoginDone, Win!TypeOK
  <2>9. CASE Win!VerifyHostKey(w)
    BY <2>9 DEF Win!VerifyHostKey, Win!TypeOK
  <2>10. CASE Win!PromptLogin(w)
    BY <2>10 DEF Win!PromptLogin, Win!TypeOK
  <2>11. CASE Win!PromptPassword(w)
    BY <2>11 DEF Win!PromptPassword, Win!TypeOK
  <2>12. CASE \E kind \in Win!SeatDialogs : Win!AnswerSeatDialog(w, kind)
    BY <2>12 DEF Win!AnswerSeatDialog, Win!OnSessionClosed, Win!Accepted, Win!TypeOK
  <2>13. CASE Win!MenuNewSession(w)
    BY <2>13 DEF Win!MenuNewSession, Win!TypeOK
  <2>14. CASE Win!MenuDuplicateSession(w)
    BY <2>14
    DEF Win!MenuDuplicateSession, Win!NewSessionWindow, Win!StartSession, Win!TypeOK
  <2>15. CASE Win!MenuRestartSession(w)
    BY <2>15 DEF Win!MenuRestartSession, Win!StartSession, Win!TypeOK
  <2> QED
    BY <1>3, <2>1, <2>2, <2>3, <2>4, <2>5, <2>6, <2>7, <2>8, <2>9, <2>10, <2>11,
       <2>12, <2>13, <2>14, <2>15
    DEF Win!Step
<1> QED
  BY <1>1, <1>2, <1>3 DEF Win!Next

\* The type of the stack of dialogs.
LEMMA ModalType ==
    ASSUME Win!ParamAssumption, Win!TypeOK, Win!Next
    PROVE  (modal \in Dialogs)'
<1>t. modal \in Dialogs
  BY DEF Win!TypeOK, Dialogs
<1>k. {"failed", "confirm", "fatal", "hostkey", "login", "password"} \subseteq Win!Kinds
  BY DEF Win!Kinds, Win!SeatDialogs
<1> USE <1>t, <1>k, PushType, BelowTop DEF Win!history, Win!state
<1>1. CASE Win!DialogAccept
  BY <1>1
  DEF Win!DialogAccept, Win!NewSessionWindow, Win!StartSession, Win!OnTop,
      Win!Popped
<1>2. CASE Win!DialogReject
  BY <1>2 DEF Win!DialogReject, Win!OnTop, Win!Popped
<1>3. ASSUME NEW w \in Windows, Win!Step(w)
      PROVE  (modal \in Dialogs)'
  <2>1. CASE Win!UserClose(w)
    BY <2>1 DEF Win!UserClose, Win!Accepted, Win!OnTop, Win!Popped
  <2>2. CASE Win!AnswerConfirm(w)
    BY <2>2 DEF Win!AnswerConfirm, Win!Accepted, Win!OnTop, Win!Popped
  <2>3. CASE Win!Destroy(w)
    BY <2>3 DEF Win!Destroy, Win!OnTop, Win!Popped
  <2>4. CASE Win!AnswerFailed(w)
    BY <2>4 DEF Win!AnswerFailed, Win!Accepted, Win!OnTop, Win!Popped
  <2>5. CASE Win!RemoteExit(w)
    BY <2>5
    DEF Win!RemoteExit, Win!Ends, Win!OnSessionClosed, Win!Accepted, Win!OnTop,
        Win!Popped
  <2>6. CASE Win!ConnectionFatal(w)
    BY <2>6 DEF Win!ConnectionFatal, Win!Ends, Win!OnTop, Win!Popped
  <2>7. CASE Win!AnswerFatal(w)
    BY <2>7
    DEF Win!AnswerFatal, Win!OnSessionClosed, Win!Accepted, Win!OnTop, Win!Popped
  <2>8. CASE Win!LoginDone(w)
    BY <2>8 DEF Win!LoginDone, Win!OnTop, Win!Popped
  <2>9. CASE Win!VerifyHostKey(w)
    BY <2>9 DEF Win!VerifyHostKey, Win!OnTop, Win!Popped
  <2>10. CASE Win!PromptLogin(w)
    BY <2>10 DEF Win!PromptLogin, Win!OnTop, Win!Popped
  <2>11. CASE Win!PromptPassword(w)
    BY <2>11 DEF Win!PromptPassword, Win!OnTop, Win!Popped
  <2>12. CASE \E kind \in Win!SeatDialogs : Win!AnswerSeatDialog(w, kind)
    BY <2>12
    DEF Win!AnswerSeatDialog, Win!OnSessionClosed, Win!Accepted, Win!OnTop,
        Win!Popped
  <2>13. CASE Win!MenuNewSession(w)
    BY <2>13 DEF Win!MenuNewSession, Win!OnTop, Win!Popped
  <2>14. CASE Win!MenuDuplicateSession(w)
    BY <2>14
    DEF Win!MenuDuplicateSession, Win!NewSessionWindow, Win!StartSession, Win!OnTop,
        Win!Popped
  <2>15. CASE Win!MenuRestartSession(w)
    BY <2>15 DEF Win!MenuRestartSession, Win!StartSession, Win!OnTop, Win!Popped
  <2> QED
    BY <1>3, <2>1, <2>2, <2>3, <2>4, <2>5, <2>6, <2>7, <2>8, <2>9, <2>10, <2>11,
       <2>12, <2>13, <2>14, <2>15
    DEF Win!Step
<1> QED
  BY <1>1, <1>2, <1>3 DEF Win!Next

\* The invariant gives the properties.
LEMMA InvImplies ==
    ASSUME Win!ParamAssumption, SessionInv
    PROVE  Win!SessionsSound
<1>1. count > 0 => \E w \in Windows : window[w] = "open"
  BY SessionsFinite DEF SessionInv, Counted
<1>2. count = 0 => \A w \in Windows : window[w] # "open"
  BY SessionsFinite DEF SessionInv, Counted
<1> QED
  BY <1>1, <1>2
  DEF SessionInv, Counted, OneLogin, Win!SessionsSound, Win!ProgramVisible,
      Win!NoPrematureExit, Win!PasswordKept

\* However windows open and close, sessions begin, end and fail, and dialogs
\* open above one another, the program is seen while it runs, does not exit
\* under an open session, and never answers one session's prompt with another's
\* password, for any number of windows (closeEvent, reject,
\* tqt_seat_get_userpass_input).
THEOREM SessionsAreSound ==
    ASSUME Win!ParamAssumption
    PROVE  Win!Spec => []SessionsSound
<1>1. Win!Init => SessionInv
  <2> SUFFICES ASSUME Win!Init PROVE SessionInv
    OBVIOUS
  <2> DEFINE first == IF main = "none" THEN {CHOOSE w \in Windows : TRUE} ELSE {}
  <2>1. first \in SUBSET Windows /\ Cardinality(first) = IF main = "none" THEN 1 ELSE 0
    BY FS_Singleton, FS_EmptySet DEF Win!ParamAssumption
  <2>2. /\ count = Cardinality(first) /\ counted = [w \in Windows |-> w \in first]
        /\ window = [w \in Windows |-> IF w \in first THEN "open" ELSE "none"]
        /\ active = [w \in Windows |-> w \in first]
        /\ backend = [w \in Windows |-> IF w \in first THEN "login" ELSE "none"]
    BY SameCardinality DEF Win!Init
  <2>3. Sessions(counted) = first
    BY <2>1, <2>2 DEF Sessions
  <2>4. Counted
    <3> HIDE DEF first
    <3>1. /\ count = Cardinality(Sessions(counted)) /\ running /\ main \in {"none", "shown"}
          /\ main = "none" => count = 1
      BY <2>1, <2>2, <2>3 DEF Win!Init
    <3>2. \A w \in Windows : counted[w] <=> window[w] = "open"
      BY <2>2
    <3> QED
      BY <3>1, <3>2 DEF Counted
  <2>5. count \in 0 .. Cardinality(Windows)
    BY <2>2, <2>3, SessionsFinite
  <2>6. Win!TypeOK
    <3> HIDE DEF first
    <3>1. /\ counted \in [Windows -> BOOLEAN] /\ active \in [Windows -> BOOLEAN]
          /\ freed \in [Windows -> BOOLEAN]
      BY <2>2 DEF Win!Init
    <3>2. /\ window \in [Windows -> {"none", "open", "closing", "gone"}]
          /\ backend \in [Windows -> {"none", "login", "live", "ended"}]
      BY <2>2
    <3>3. modal \in Seq([kind : Win!Kinds, win : Windows])
      BY DEF Win!Init
    <3> QED
      BY <2>5, <3>1, <3>2, <3>3, SameCardinality DEF Win!Init, Win!TypeOK
  <2>7. OneLogin
    <3>1. \A v, w \in Windows : v \in first /\ w \in first => v = w
      OBVIOUS
    <3> HIDE DEF first
    <3>2. \A v \in Windows : backend[v] = "login" => v \in first
      BY <2>2
    <3>3. cached = Nobody /\ Len(modal) = 0 /\ ~crossed
      BY DEF Win!Init
    <3> QED
      BY <3>1, <3>2, <3>3 DEF OneLogin
  <2> QED
    BY <2>4, <2>6, <2>7 DEF SessionInv
<1>2. SessionInv /\ [Win!Next]_(Win!vars) => SessionInv'
  <2> SUFFICES ASSUME SessionInv, [Win!Next]_(Win!vars)
               PROVE  SessionInv'
    OBVIOUS
  <2>1. CASE Win!Next
    <3>1. Counted'
      BY <2>1, CountedStep DEF SessionInv
    <3>2. count' \in 0 .. Cardinality(Windows)
      BY <3>1, SessionsFinite DEF Counted
    <3>3. Win!TypeOK'
      BY <2>1, <3>2, CachedType, FlagsType, WindowsType, BackendsType, ModalType,
         SameCardinality
      DEF SessionInv, Win!TypeOK, Dialogs
    <3> QED
      BY <2>1, <3>1, <3>3, OneLoginStep DEF SessionInv
  <2>2. CASE UNCHANGED Win!vars
    BY <2>2
    DEF Win!vars, Win!state, Win!history, SessionInv, Win!TypeOK, Counted, OneLogin,
        Sessions
  <2> QED
    BY <2>1, <2>2
<1>3. SessionInv => SessionsSound
  BY InvImplies DEF SessionsSound
<1> QED
  BY <1>1, <1>2, <1>3, PTL DEF Win!Spec

-----------------------------------------------------------------------------
(* The session log (Logging).  The invariant says where all that was to be *)
(* logged is: at the end of the file, or in the queue of the question.     *)

Items == Seq(0 .. MaxItems)

States == {"CLOSED", "OPENING", "OPEN", "ERROR", "FREED"}

Context ==
    [lp : Policies, state : States, lgfp : Files \cup {NoFile},
     queue : Seq(1 .. MaxItems), file : Files \cup {NoFile}]

Status == [c : Context, d : [Files -> Items], l : BOOLEAN]

\* The context and the disk when t is what was to be logged: it ends the file
\* that is open, or waits for the user's answer; nothing else waits.
LogGood(s, t) ==
    /\ s \in Status
    /\ s.c.state = "OPEN" <=> s.c.lgfp # NoFile
    /\ s.c.state = "OPEN" => \E u \in Items : s.d[s.c.lgfp] = u \o t
    /\ IF s.c.state = "OPENING" THEN s.c.file \in Files /\ \E u \in Items : s.c.queue = u \o t
       ELSE s.c.queue = <<>>

\* The question that is put is about the file to be opened.
Asked == asking = IF ctx.state = "OPENING" THEN <<ctx.file>> ELSE <<>>

LogInv ==
    /\ logConf \in Log!Settings /\ items \in 0 .. MaxItems /\ since \in Items
    /\ LogGood(Log!Now, since) /\ Asked /\ (leaked => Log!Unasked)

HasOld(x) == Log!Old \in {x[i] : i \in 1 .. Len(x)}

\* From s to t, what was in a file before goes only if the file is in may.
Spares(s, t, may) == \A f \in Files : HasOld(s.d[f]) => f \in may \/ HasOld(t.d[f])

\* From s to t no open file is forgotten, and the front end is the same.
Forgets(s, t) == t.l # s.l \/ t.c.lp # s.c.lp

\* What is appended to a file does not hide what was in it.
LEMMA ConcatHasOld ==
    ASSUME NEW x \in Items, NEW y \in Items, HasOld(x)
    PROVE  HasOld(x \o y)
<1>1. PICK i \in 1 .. Len(x) : x[i] = Log!Old
  BY DEF HasOld
<1>2. i \in 1 .. Len(x \o y) /\ (x \o y)[i] = x[i]
  BY DEF Items
<1> QED
  BY <1>1, <1>2 DEF HasOld

\* Contents of files can be joined.
LEMMA Concats ==
    ASSUME Log!ParamAssumption
    PROVE
    /\ \A x, y \in Items : x \o y \in Items
    /\ \A x \in Items : x \o <<>> = x /\ <<>> \o x = x
    /\ <<>> \in Items
    /\ \A x, y \in Seq(1 .. MaxItems) : x \in Items /\ x \o y \in Seq(1 .. MaxItems)
<1>1. \A x, y \in Items : x \o y \in Items
  BY DEF Items
<1>2. \A x \in Items : x \o <<>> = x /\ <<>> \o x = x
  BY DEF Items
<1>3. \A x \in Seq(1 .. MaxItems) : x \in Items
  <2>1. 1 .. MaxItems \subseteq 0 .. MaxItems
    BY DEF Log!ParamAssumption
  <2> DEFINE S == 1 .. MaxItems
             T == 0 .. MaxItems
  <2> HIDE DEF S, T
  <2>2. S \subseteq T => \A x \in Seq(S) : x \in Seq(T)
    OBVIOUS
  <2> QED
    BY <2>1, <2>2 DEF Items, S, T
<1>4. \A x, y \in Seq(1 .. MaxItems) : x \o y \in Seq(1 .. MaxItems)
  OBVIOUS
<1> QED
  BY <1>1, <1>2, <1>3, <1>4 DEF Items

\* Joining them associates.
LEMMA ConcatAssociates ==
    \A x, y, z \in Items : (x \o y) \o z = x \o (y \o z)
BY DEF Items

\* What is appended last is at the end.
LEMMA ConcatEndsWith ==
    ASSUME NEW u \in Items, NEW t \in Items
    PROVE  Log!EndsWith(u \o t, t)
<1> DEFINE s == u \o t
<1>1. s \in Items /\ Len(s) = Len(u) + Len(t) /\ Len(u) \in Nat /\ Len(t) \in Nat
  BY DEF Items
<1>2. \A i \in 1 .. Len(t) : s[Len(u) + i] = t[i]
  BY DEF Items
<1>3. SubSeq(s, Len(u) + 1, Len(s)) = t
  BY <1>1, <1>2 DEF Items
<1>4. Len(s) - Len(t) + 1 = Len(u) + 1
  BY <1>1
<1> QED
  BY <1>1, <1>3, <1>4 DEF Log!EndsWith

\* logwrite adds data to what was to be logged, and destroys nothing.
LEMMA WrittenGood ==
    ASSUME Log!ParamAssumption, NEW s, NEW t \in Items, LogGood(s, t),
           NEW data \in Seq(1 .. MaxItems), NEW fails
    PROVE  /\ LogGood(Log!Written(s, data, fails), t \o data)
           /\ Spares(s, Log!Written(s, data, fails), {})
           /\ Log!Written(s, data, fails).c.file = s.c.file
           /\ Log!Written(s, data, fails).c.state = "OPENING" <=> s.c.state = "OPENING"
           /\ Log!Written(s, data, fails).c.state = "FREED" <=> s.c.state = "FREED"
           /\ ~Forgets(s, Log!Written(s, data, fails))
<1> DEFINE w == Log!Written(s, data, fails)
<1>t. data \in Items /\ t \o data \in Items
  BY Concats
<1>1. CASE s.c.state = "OPENING"
  <2>1. w = [s EXCEPT !.c.queue = s.c.queue \o data]
    BY <1>1 DEF Log!Written
  <2>2. PICK u \in Items : s.c.queue = u \o t
    BY <1>1 DEF LogGood
  <2>3. s.c.queue \o data = u \o (t \o data)
    BY <1>t, <2>2, ConcatAssociates
  <2>4. s.c.queue \o data \in Seq(1 .. MaxItems)
    BY Concats DEF LogGood, Status, Context, States
  <2>6. w.c = [s.c EXCEPT !.queue = s.c.queue \o data] /\ w.d = s.d /\ w.l = s.l
    BY <2>1 DEF LogGood, Status, Context, States
  <2>7. w.c \in Context
    BY <2>4, <2>6 DEF LogGood, Status, Context, States
  <2>8. w \in Status
    BY <2>1, <2>4 DEF LogGood, Status, Context, States
  <2>5. w \in Status /\ w.d = s.d /\ w.l = s.l /\ w.c.lgfp = s.c.lgfp /\ w.c.file = s.c.file
        /\ w.c.state = "OPENING" /\ w.c.queue = s.c.queue \o data /\ w.c.lp = s.c.lp
    BY <1>1, <2>6, <2>8 DEF LogGood, Status, Context, States
  <2> QED
    BY <1>1, <2>3, <2>5 DEF LogGood, Spares, Forgets
<1>2. CASE s.c.state = "OPEN" /\ fails = "write"
  <2>1. w = [s EXCEPT !.c.lgfp = NoFile, !.c.state = "ERROR"]
    BY <1>2 DEF Log!Written, Log!logfclose, LogGood, Status, Context, States
  <2>6. w.c = [s.c EXCEPT !.lgfp = NoFile, !.state = "ERROR"] /\ w.d = s.d /\ w.l = s.l
    BY <2>1 DEF LogGood, Status, Context, States
  <2>7. w.c \in Context
    BY <2>6 DEF LogGood, Status, Context, States
  <2>9. w = [c |-> w.c, d |-> w.d, l |-> w.l]
    BY <2>1 DEF LogGood, Status, Context, States
  <2>8. w \in Status
    <3> HIDE DEF w
    <3> QED
      BY <2>6, <2>7, <2>9 DEF LogGood, Status
  <2>2. w \in Status /\ w.d = s.d /\ w.l = s.l /\ w.c.lgfp = NoFile /\ w.c.file = s.c.file
        /\ w.c.state = "ERROR" /\ w.c.queue = s.c.queue /\ w.c.lp = s.c.lp
    BY <2>6, <2>8 DEF LogGood, Status, Context, States
  <2> QED
    BY <1>2, <2>2 DEF LogGood, Spares, Forgets
<1>3. CASE s.c.state = "OPEN" /\ fails # "write"
  <2>1. w = [s EXCEPT !.d[s.c.lgfp] = s.d[s.c.lgfp] \o data]
    BY <1>3 DEF Log!Written
  <2>2. s.c.lgfp \in Files
    BY <1>3 DEF LogGood, Status, Context, States
  <2>3. PICK u \in Items : s.d[s.c.lgfp] = u \o t
    BY <1>3 DEF LogGood
  <2>4. s.d[s.c.lgfp] \o data = u \o (t \o data)
    BY <1>t, <2>3, ConcatAssociates
  <2>5. s.d[s.c.lgfp] \in Items /\ s.d[s.c.lgfp] \o data \in Items
    BY <1>t, <2>2, Concats DEF LogGood, Status
  <2>6. w \in Status /\ w.c = s.c /\ w.l = s.l /\ w.d = [s.d EXCEPT ![s.c.lgfp] = s.d[s.c.lgfp] \o data]
    BY <2>1, <2>2, <2>5 DEF LogGood, Status
  <2>7. Spares(s, w, {})
    BY <1>t, <2>2, <2>5, <2>6, ConcatHasOld DEF Spares, LogGood, Status
  <2>8. w.d[w.c.lgfp] = u \o (t \o data)
    BY <2>2, <2>4, <2>6 DEF LogGood, Status
  <2> QED
    BY <1>3, <2>6, <2>7, <2>8 DEF LogGood, Forgets
<1>4. CASE s.c.state \notin {"OPEN", "OPENING"}
  BY <1>4 DEF Log!Written, LogGood, Spares, Forgets
<1> QED
  BY <1>1, <1>2, <1>3, <1>4

\* How the assignments of logging.c change a status.
LEMMA SetState ==
    ASSUME NEW s \in Status, NEW x \in States, NEW o,
           o = [s EXCEPT !.c.state = x]
    PROVE  /\ o \in Status /\ o.c.state = x /\ o.c.lgfp = s.c.lgfp /\ o.c.queue = s.c.queue
           /\ o.c.file = s.c.file /\ o.c.lp = s.c.lp /\ o.d = s.d /\ o.l = s.l
BY DEF Status, Context

\* A file with other contents.
LEMMA SetDisk ==
    ASSUME NEW s \in Status, NEW f \in Files, NEW x \in Items, NEW o,
           o = [s EXCEPT !.d[f] = x]
    PROVE  o \in Status /\ o.c = s.c /\ o.d = [s.d EXCEPT ![f] = x] /\ o.l = s.l
BY DEF Status

\* Called back with an answer, s has become r, and t has been written.
CalledBack(s, r, mode, t) ==
    /\ LogGood(r, t)
    /\ Spares(s, r, IF mode = 2 THEN {s.c.file} ELSE {})
    /\ r.c.state \notin {"OPENING", "FREED"}
    /\ s.c.lgfp = NoFile => ~Forgets(s, r)
    /\ r.c.file = s.c.file /\ r.c.lp = s.c.lp /\ r.c.queue = <<>>

\* logfopen_callback opens the file the way the answer says, and writes to it
\* what waited for the answer.  It forgets a file that is open already.
LEMMA CallbackGood ==
    ASSUME Log!ParamAssumption, NEW s \in Status, s.c.file \in Files,
           NEW t \in Items, NEW u \in Items, s.c.queue = u \o t, NEW mode \in 0 .. 2, NEW fails,
           s.c.lgfp = NoFile \/ mode # 0
    PROVE  CalledBack(s, Log!Callback(s, mode, fails), mode, t)
<1> DEFINE r == Log!Callback(s, mode, fails)
           o == IF mode = 0 THEN [s EXCEPT !.c.state = "ERROR"] ELSE Log!Opened(s, mode, fails)
           w == Log!Written(o, s.c.queue, fails)
           base == IF mode = 2 THEN <<>> ELSE s.d[s.c.file]
           after == [s.d EXCEPT ![s.c.file] = base]
           filled == [s.d EXCEPT ![s.c.file] = base \o s.c.queue]
           may == IF mode = 2 THEN {s.c.file} ELSE {}
<1>t. /\ s.d \in [Files -> Items] /\ s.d[s.c.file] \in Items /\ NoFile \notin Files
      /\ s.c.queue \in Items
  BY Concats DEF Status, Context, Log!ParamAssumption
<1>b. base \in Items /\ base \o s.c.queue \in Items
  BY <1>t, Concats
<1>e. \A f \in Files : HasOld(s.d[f]) => f \in may \/ (HasOld(after[f]) /\ HasOld(filled[f]))
  <2> SUFFICES ASSUME NEW f \in Files, HasOld(s.d[f]), f \notin may
               PROVE  HasOld(after[f]) /\ HasOld(filled[f])
    OBVIOUS
  <2>1. CASE f = s.c.file
    <3>1. base = s.d[f] /\ after[f] = s.d[f] /\ filled[f] = s.d[f] \o s.c.queue
      BY <1>t, <2>1
    <3> QED
      BY <1>t, <3>1, ConcatHasOld
  <2>2. CASE f # s.c.file
    BY <1>t, <2>2
  <2> QED
    BY <2>1, <2>2
<1>n. <<>> \in Seq(1 .. MaxItems)
  OBVIOUS
<1>r. r = [w EXCEPT !.c.queue = <<>>, !.l = @ \/ (mode # 0 /\ s.c.lgfp # NoFile)]
  BY DEF Log!Callback
<1>w. ASSUME w \in Status, w.l = s.l, w.c.file = s.c.file, w.c.lp = s.c.lp
      PROVE  /\ r \in Status /\ r.c.state = w.c.state /\ r.c.lgfp = w.c.lgfp /\ r.c.queue = <<>>
             /\ r.d = w.d /\ (s.c.lgfp = NoFile => r.l = s.l)
             /\ r.c.file = s.c.file /\ r.c.lp = s.c.lp
  <2> DEFINE l == mode # 0 /\ s.c.lgfp # NoFile
  <2>1. l \in BOOLEAN /\ (s.c.lgfp = NoFile => ~l) /\ r = [w EXCEPT !.c.queue = <<>>, !.l = @ \/ l]
    BY <1>r
  <2> HIDE DEF w, r, l
  <2> QED
    BY <1>w, <1>n, <2>1 DEF Status, Context
<1>1. CASE mode = 0 \/ fails = "open"
  <2>1. /\ o \in Status /\ o.c.state = "ERROR" /\ o.c.lgfp = NoFile
        /\ o.d = s.d /\ o.l = s.l /\ o.c.file = s.c.file /\ o.c.lp = s.c.lp
    <3>1. CASE mode = 0
      BY <3>1, SetState DEF States
    <3>2. CASE mode # 0
      <4>1. o = [s EXCEPT !.c.state = "ERROR", !.c.lgfp = NoFile]
        BY <1>1, <3>2 DEF Log!Opened
      <4> HIDE DEF o
      <4> QED
        BY <4>1 DEF Status, Context, States
    <3> QED
      BY <3>1, <3>2
  <2>2. w = o
    <3> HIDE DEF o
    <3> QED
      BY <2>1 DEF Log!Written
  <2> HIDE DEF o, w, r
  <2>3. /\ r \in Status /\ r.c.state = "ERROR" /\ r.c.lgfp = NoFile /\ r.c.queue = <<>> /\ r.d = s.d
        /\ (s.c.lgfp = NoFile => r.l = s.l) /\ r.c.file = s.c.file /\ r.c.lp = s.c.lp
    BY <1>t, <1>w, <2>1, <2>2
  <2>4. LogGood(r, t) /\ Spares(s, r, may)
    BY <1>t, <2>3 DEF LogGood, Spares
  <2> QED
    BY <2>3, <2>4 DEF may, r, Forgets, CalledBack
<1>2. CASE mode # 0 /\ fails # "open"
  <2>1. o = [s EXCEPT !.c.state = "OPEN", !.c.lgfp = s.c.file, !.d[s.c.file] = base]
    BY <1>2 DEF Log!Opened
  <2>2. /\ o \in Status /\ o.c.state = "OPEN" /\ o.c.lgfp = s.c.file /\ o.d = after
        /\ o.l = s.l /\ o.c.file = s.c.file /\ o.c.lp = s.c.lp
    <3>1. PICK f \in Files, x \in Items : f = s.c.file /\ x = base
      BY <1>b
    <3>2. o = [s EXCEPT !.c.state = "OPEN", !.c.lgfp = f, !.d[f] = x] /\ after = [s.d EXCEPT ![f] = x]
      BY <2>1, <3>1
    <3> HIDE DEF o, base, after
    <3> QED
      BY <1>t, <3>1, <3>2 DEF Status, Context, States
  <2> HIDE DEF o, base
  <2>3. CASE fails = "write"
    <3>1. w = [[o EXCEPT !.c.lgfp = NoFile, !.c.state = "CLOSED"] EXCEPT !.c.state = "ERROR"]
      BY <2>2, <2>3 DEF Log!Written, Log!logfclose
    <3>2. /\ w \in Status /\ w.c.state = "ERROR" /\ w.c.lgfp = NoFile /\ w.d = after
          /\ w.l = s.l /\ w.c.file = s.c.file /\ w.c.lp = s.c.lp
      <4> DEFINE m == [o EXCEPT !.c.lgfp = NoFile, !.c.state = "CLOSED"]
      <4>1. /\ m \in Status /\ m.c.lgfp = NoFile /\ m.d = after
            /\ m.l = s.l /\ m.c.file = s.c.file /\ m.c.lp = s.c.lp
        <5> HIDE DEF after
        <5> QED
          BY <2>2 DEF Status, Context, States
      <4>2. w = [m EXCEPT !.c.state = "ERROR"]
        BY <3>1
      <4> HIDE DEF m, w, after
      <4> QED
        BY <4>1, <4>2, SetState DEF States
    <3> HIDE DEF w, r, after
    <3>3. /\ r \in Status /\ r.c.state = "ERROR" /\ r.c.lgfp = NoFile /\ r.c.queue = <<>> /\ r.d = after
          /\ (s.c.lgfp = NoFile => r.l = s.l) /\ r.c.file = s.c.file /\ r.c.lp = s.c.lp
      BY <1>w, <3>2
    <3>4. LogGood(r, t) /\ Spares(s, r, may)
      BY <1>t, <1>e, <3>3 DEF LogGood, Spares
    <3> QED
      BY <3>3, <3>4 DEF may, r, Forgets, CalledBack
  <2>4. CASE fails # "write"
    <3>1. w = [o EXCEPT !.d[s.c.file] = after[s.c.file] \o s.c.queue]
      BY <2>2, <2>4 DEF Log!Written
    <3>2. after[s.c.file] = base /\ [after EXCEPT ![s.c.file] = base \o s.c.queue] = filled
      BY <1>t
    <3>3. w \in Status /\ w.c = o.c /\ w.d = filled /\ w.l = s.l
      <4>1. PICK f \in Files, x \in Items : f = s.c.file /\ x = base \o s.c.queue
        BY <1>b
      <4>2. w = [o EXCEPT !.d[f] = x] /\ filled = [after EXCEPT ![f] = x]
        BY <3>1, <3>2, <4>1
      <4> HIDE DEF w, after, filled
      <4> QED
        BY <2>2, <4>2, SetDisk
    <3>4. filled[s.c.file] = base \o s.c.queue
      BY <1>t
    <3> HIDE DEF w, r, filled
    <3>5. /\ r \in Status /\ r.c.state = "OPEN" /\ r.c.lgfp = s.c.file /\ r.c.queue = <<>>
          /\ r.d = filled /\ (s.c.lgfp = NoFile => r.l = s.l)
          /\ r.c.file = s.c.file /\ r.c.lp = s.c.lp
      BY <1>w, <2>2, <3>3
    <3>6. r.d[r.c.lgfp] = (base \o u) \o t /\ base \o u \in Items
      <4>1. base \o (u \o t) = (base \o u) \o t
        BY <1>b, ConcatAssociates
      <4>2. base \o u \in Items
        BY <1>b, Concats
      <4> QED
        BY <3>4, <3>5, <4>1, <4>2
    <3>7. LogGood(r, t)
      BY <1>t, <3>5, <3>6 DEF LogGood
    <3>8. Spares(s, r, may)
      BY <1>e, <3>5 DEF Spares
    <3> QED
      BY <3>5, <3>7, <3>8 DEF may, r, Forgets, CalledBack
  <2> QED
    BY <2>3, <2>4
<1> QED
  BY <1>1, <1>2

\* logfopen opens the file, or asks, unless it is told not to ask; when it is
\* told to ask, and the policy does not, it destroys the file and opens it twice.
LEMMA OpenGood ==
    ASSUME Log!ParamAssumption, NEW s, LogGood(s, <<>>), s.c.state # "OPENING",
           NEW new \in Log!Settings, NEW fails
    PROVE  /\ LogGood(Log!logfopen(s, new, fails), <<>>)
           /\ \/ s.c.lp = "tqt" /\ new.clash = "ASK"
              \/ /\ ~Forgets(s, Log!logfopen(s, new, fails))
                 /\ Spares(s, Log!logfopen(s, new, fails), IF new.clash = "OVR" THEN {new.file} ELSE {})
           /\ s.c.state # "FREED" => Log!logfopen(s, new, fails).c.state # "FREED"
           /\ Log!logfopen(s, new, fails).c.lp = s.c.lp
<1> DEFINE named == [s EXCEPT !.c.file = new.file]
           may == IF new.clash = "OVR" THEN {new.file} ELSE {}
           r == Log!logfopen(s, new, fails)
<1>1. CASE s.c.state # "CLOSED" \/ ~new.on
  BY <1>1 DEF Log!logfopen, Spares, Forgets
<1>2. CASE s.c.state = "CLOSED" /\ new.on
  <2>1. /\ s \in Status /\ s.c.lgfp = NoFile /\ s.c.queue = <<>> /\ new.file \in Files
    BY <1>2 DEF LogGood, Log!Settings
  <2>2. /\ named \in Status /\ named.c.lgfp = NoFile /\ named.c.file = new.file
        /\ named.c.queue = <<>> /\ named.d = s.d /\ named.l = s.l /\ named.c.lp = s.c.lp
    BY <2>1 DEF Status, Context
  <2>3. named.c.queue = <<>> \o <<>> /\ <<>> \in Items
    BY <2>2, Concats
  <2>4. ASSUME NEW mode \in 0 .. 2
        PROVE  /\ LogGood(Log!Callback(named, mode, fails), <<>>)
               /\ Spares(s, Log!Callback(named, mode, fails), IF mode = 2 THEN {new.file} ELSE {})
               /\ Log!Callback(named, mode, fails).c.state # "FREED"
               /\ ~Forgets(s, Log!Callback(named, mode, fails))
               /\ Log!Callback(named, mode, fails).c.lp = s.c.lp
               /\ Log!Callback(named, mode, fails).c.file \in Files
               /\ Log!Callback(named, mode, fails).c.queue = <<>>
    <3> HIDE DEF named
    <3>0. PICK e \in Items : e = <<>> /\ named.c.queue = e \o e
      BY <2>3
    <3>1. CalledBack(named, Log!Callback(named, mode, fails), mode, e)
      <4>1. named \in Status /\ named.c.file \in Files /\ named.c.lgfp = NoFile
        BY <2>1, <2>2
      <4> QED
        BY <3>0, <4>1, CallbackGood
    <3> QED
      BY <2>1, <2>2, <3>0, <3>1 DEF Spares, Forgets, CalledBack
  <2>5. CASE ~Log!Exists(s, new.file)
    <3>1. r = Log!Callback(named, 2, fails)
      BY <1>2, <2>5 DEF Log!logfopen
    <3>2. ~HasOld(s.d[new.file])
      BY <2>5 DEF Log!Exists, HasOld
    <3> HIDE DEF r, named
    <3>3. /\ LogGood(r, <<>>) /\ Spares(s, r, {new.file}) /\ r.c.state # "FREED" /\ ~Forgets(s, r)
          /\ r.c.lp = s.c.lp
      BY <2>4, <3>1
    <3>4. Spares(s, r, may)
      BY <3>2, <3>3 DEF Spares
    <3> QED
      BY <3>3, <3>4 DEF r
  <2>6. CASE Log!Exists(s, new.file) /\ new.clash = "OVR"
    <3>1. r = Log!Callback(named, 2, fails)
      BY <1>2, <2>6 DEF Log!logfopen
    <3> HIDE DEF r, named
    <3>2. /\ LogGood(r, <<>>) /\ Spares(s, r, {new.file}) /\ r.c.state # "FREED" /\ ~Forgets(s, r)
          /\ r.c.lp = s.c.lp
      BY <2>4, <3>1
    <3> QED
      BY <2>6, <3>2 DEF r
  <2>7. CASE Log!Exists(s, new.file) /\ new.clash = "APN"
    <3>1. r = Log!Callback(named, 1, fails)
      BY <1>2, <2>7 DEF Log!logfopen
    <3> HIDE DEF r, named
    <3>2. /\ LogGood(r, <<>>) /\ Spares(s, r, {}) /\ r.c.state # "FREED" /\ ~Forgets(s, r)
          /\ r.c.lp = s.c.lp
      BY <2>4, <3>1
    <3> QED
      BY <2>7, <3>2 DEF r
  <2>8. CASE Log!Exists(s, new.file) /\ new.clash = "ASK" /\ s.c.lp # "tqt"
    <3>1. r = [named EXCEPT !.c.state = "OPENING"]
      BY <1>2, <2>8 DEF Log!logfopen
    <3> HIDE DEF r, named
    <3>2. /\ r \in Status /\ r.c.state = "OPENING" /\ r.c.lgfp = NoFile /\ r.c.file = new.file
          /\ r.c.queue = <<>> /\ r.d = s.d /\ r.l = s.l /\ r.c.lp = s.c.lp
      BY <2>2, <3>1, SetState DEF States
    <3>3. LogGood(r, <<>>) /\ Spares(s, r, may) /\ ~Forgets(s, r)
      BY <2>1, <2>3, <2>2, <3>2 DEF LogGood, Spares, Forgets
    <3> QED
      BY <3>2, <3>3 DEF r
  <2>9. CASE Log!Exists(s, new.file) /\ new.clash = "ASK" /\ s.c.lp = "tqt"
    <3> DEFINE o == Log!Callback(named, 2, fails)
    <3>1. r = Log!Callback(o, 1, fails)
      BY <1>2, <2>9 DEF Log!logfopen, Log!tqt_log_askappend
    <3> HIDE DEF r, named
    <3>2. LogGood(o, <<>>) /\ o.c.lp = s.c.lp /\ o.c.file \in Files /\ o.c.queue = <<>>
      BY <2>4
    <3> HIDE DEF o
    <3>3. PICK e \in Items : e = <<>> /\ o.c.queue = e \o e
      BY <2>3, <3>2
    <3>4. o \in Status
      BY <3>2 DEF LogGood
    <3>5. /\ LogGood(r, e) /\ r.c.state \notin {"OPENING", "FREED"} /\ r.c.lp = o.c.lp
      <4>1. PICK mode \in 0 .. 2 : mode = 1
        OBVIOUS
      <4>2. o.c.lgfp = NoFile \/ mode # 0
        BY <4>1
      <4>3. CalledBack(o, Log!Callback(o, mode, fails), mode, e)
        BY <3>2, <3>3, <3>4, <4>2, CallbackGood
      <4> QED
        BY <3>1, <4>1, <4>3 DEF CalledBack
    <3> QED
      BY <2>9, <3>2, <3>3, <3>5 DEF r
  <2> QED
    BY <2>5, <2>6, <2>7, <2>8, <2>9 DEF Log!Settings
<1> QED
  BY <1>1, <1>2

\* The invariant after a step, and what the step does to the files.
Preserved == LogInv' /\ (Log!Unasked \/ Spares(Log!Now, Log!Now', allowed'))

\* Logging a packet keeps the invariant.
LEMMA LogStep ==
    ASSUME Log!ParamAssumption, LogInv, Log!Log
    PROVE  Preserved
<1> DEFINE n == items + 1
           t == IF ctx.state = "CLOSED" THEN <<>> ELSE since
<1>1. n \in 1 .. MaxItems /\ items' = n /\ n \in 0 .. MaxItems
  BY DEF Log!Log, LogInv, Log!ParamAssumption
<1>2. PICK fails \in Log!Faults :
        LET s == IF ctx.state = "CLOSED" THEN Log!logfopen(Log!Now, logConf, fails) ELSE Log!Now
            w == Log!Written(s, <<n>>, fails)
        IN /\ Log!Becomes(w) /\ Log!Asks(w)
           /\ since' = IF ctx.state = "CLOSED" THEN <<n>> ELSE Append(since, n)
  BY DEF Log!Log
<1> DEFINE s == IF ctx.state = "CLOSED" THEN Log!logfopen(Log!Now, logConf, fails) ELSE Log!Now
           w == Log!Written(s, <<n>>, fails)
           may == IF logConf.clash = "OVR" THEN {logConf.file} ELSE {}
<1>3. Log!Now.c = ctx /\ Log!Now.d = disk /\ Log!Now.l = leaked /\ LogGood(Log!Now, since)
  BY DEF Log!Now, LogInv
<1>4. /\ LogGood(s, t) /\ s.c.state # "FREED" /\ s.c.lp = ctx.lp
      /\ Log!Unasked \/ (Spares(Log!Now, s, may) /\ ~Forgets(Log!Now, s))
  <2>1. CASE ctx.state = "CLOSED"
    <3>1. LogGood(Log!Now, <<>>) /\ Log!Now.c.state # "OPENING" /\ Log!Now.c.state # "FREED"
      BY <1>3, <2>1 DEF LogGood
    <3> QED
      BY <1>3, <2>1, <3>1, OpenGood DEF LogInv, Log!Unasked
  <2>2. CASE ctx.state # "CLOSED"
    BY <1>3, <2>2 DEF Spares, Forgets, Log!Log
  <2> QED
    BY <2>1, <2>2
<1>5. <<n>> \in Seq(1 .. MaxItems) /\ t \in Items /\ since' = t \o <<n>> /\ since' \in Items
  <2>1. <<n>> \in Seq(1 .. MaxItems)
    BY <1>1
  <2>2. t \in Items /\ <<n>> \in Items
    BY <2>1, Concats DEF LogInv
  <2>5. since' = IF ctx.state = "CLOSED" THEN <<n>> ELSE Append(since, n)
    BY <1>2
  <2>3. CASE ctx.state = "CLOSED"
    <3> HIDE DEF n
    <3>1. <<>> \o <<n>> = <<n>>
      OBVIOUS
    <3> QED
      BY <2>1, <2>2, <2>3, <2>5, <3>1
  <2>4. CASE ctx.state # "CLOSED"
    <3> HIDE DEF n
    <3>1. Append(since, n) = since \o <<n>>
      BY <1>1 DEF LogInv, Items
    <3> QED
      BY <2>1, <2>2, <2>4, <2>5, <3>1, Concats
  <2> QED
    BY <2>1, <2>2, <2>3, <2>4
<1> HIDE DEF s, t, n
<1>6. /\ LogGood(w, since') /\ Spares(s, w, {}) /\ w.c.file = s.c.file
      /\ w.c.state = "OPENING" <=> s.c.state = "OPENING"
      /\ ~Forgets(s, w)
  <2>1. PICK data \in Seq(1 .. MaxItems) : data = <<n>>
    BY <1>5
  <2>2. /\ LogGood(Log!Written(s, data, fails), t \o data)
        /\ Spares(s, Log!Written(s, data, fails), {})
        /\ Log!Written(s, data, fails).c.file = s.c.file
        /\ Log!Written(s, data, fails).c.state = "OPENING" <=> s.c.state = "OPENING"
        /\ ~Forgets(s, Log!Written(s, data, fails))
    BY <1>4, <1>5, WrittenGood
  <2>3. w = Log!Written(s, data, fails) /\ since' = t \o data
    BY <1>5, <2>1
  <2> HIDE DEF w
  <2> QED
    BY <2>2, <2>3
<1>7. Log!Becomes(w) /\ Log!Asks(w)
  BY <1>2 DEF s, n
<1> HIDE DEF w
<1>8. /\ Log!Now' = [c |-> w.c, d |-> w.d, l |-> w.l] /\ ctx' = w.c /\ disk' = w.d
      /\ leaked' = w.l
  BY <1>7 DEF Log!Becomes, Log!Now
<1>9. Log!Now' = w
  BY <1>6, <1>8 DEF LogGood, Status
<1>10. Asked'
  <2>1. CASE ctx.state = "CLOSED"
    BY <1>7, <1>8, <2>1 DEF Log!Asks, Asked, LogInv
  <2>2. CASE ctx.state # "CLOSED"
    <3>1. s = Log!Now
      BY <2>2 DEF s
    <3> QED
      BY <1>3, <1>6, <1>7, <1>8, <3>1 DEF Log!Asks, Asked, LogInv
  <2> QED
    BY <2>1, <2>2
<1>11. Log!Unasked \/ Spares(Log!Now, Log!Now', allowed')
  <2>1. allowed' = allowed \cup may
    BY DEF Log!Log, Log!Allows
  <2> QED
    BY <1>4, <1>6, <1>9, <2>1 DEF Spares
<1>12. leaked' => Log!Unasked'
  <2>1. logConf' = logConf /\ ctx'.lp = ctx.lp
    BY <1>4, <1>6, <1>8 DEF Log!Log, Forgets
  <2>2. Log!Unasked \/ leaked' = leaked
    BY <1>3, <1>4, <1>6, <1>8 DEF Forgets
  <2> QED
    BY <2>1, <2>2 DEF Log!Unasked, LogInv
<1> QED
  BY <1>1, <1>5, <1>6, <1>9, <1>10, <1>11, <1>12 DEF Preserved, LogInv, Log!Log

\* So does the answer to the question.
LEMMA AnswerStep ==
    ASSUME Log!ParamAssumption, LogInv, NEW mode \in 0 .. 2, Log!Answer(mode)
    PROVE  Preserved
<1>1. /\ ctx.state = "OPENING" /\ asking = <<ctx.file>> /\ Head(asking) = ctx.file /\ Tail(asking) = <<>>
  BY DEF Log!Answer, Asked, LogInv
<1>2. Log!Now.c = ctx /\ Log!Now.d = disk /\ Log!Now.l = leaked /\ LogGood(Log!Now, since)
  BY DEF Log!Now, LogInv
<1>3. PICK u \in Items : Log!Now.c.queue = u \o since
  BY <1>1, <1>2 DEF LogGood
<1>4. PICK fails \in Log!Faults : Log!Becomes(Log!Callback(Log!Now, mode, fails))
  BY DEF Log!Answer
<1> DEFINE r == Log!Callback(Log!Now, mode, fails)
<1>5. /\ Log!Now \in Status /\ Log!Now.c.lgfp = NoFile /\ Log!Now.c.file \in Files /\ since \in Items
  BY <1>1, <1>2 DEF LogGood, LogInv
<1>6. /\ LogGood(r, since) /\ Spares(Log!Now, r, IF mode = 2 THEN {ctx.file} ELSE {})
      /\ r.c.state \notin {"OPENING", "FREED"} /\ ~Forgets(Log!Now, r)
  <2>1. CalledBack(Log!Now, r, mode, since)
    BY <1>3, <1>5, CallbackGood
  <2> QED
    BY <1>2, <1>5, <2>1 DEF CalledBack
<1> HIDE DEF r
<1>7. Log!Now' = [c |-> r.c, d |-> r.d, l |-> r.l] /\ ctx' = r.c /\ leaked' = r.l
  BY <1>4 DEF r, Log!Becomes, Log!Now
<1>8. Log!Now' = r
  BY <1>6, <1>7 DEF LogGood, Status
<1>9. Asked'
  BY <1>1, <1>6, <1>7 DEF Asked, Log!Answer
<1>10. Spares(Log!Now, Log!Now', allowed')
  BY <1>1, <1>6, <1>8 DEF Spares, Log!Answer
<1>11. leaked' => Log!Unasked'
  BY <1>2, <1>6, <1>7 DEF Log!Answer, Log!Unasked, LogInv, Forgets
<1> QED
  BY <1>6, <1>8, <1>9, <1>10, <1>11 DEF Preserved, LogInv, Log!Answer

\* So do other settings, unless they come while the question is open.
LEMMA ReconfigStep ==
    ASSUME Log!ParamAssumption, "gtk" \in Policies => ~WhileAsking, LogInv, NEW new \in Log!Settings,
           Log!log_reconfig(new)
    PROVE  Preserved
<1> DEFINE may == IF new.clash = "OVR" THEN {new.file} ELSE {}
<1>1. Log!Now.c = ctx /\ Log!Now.d = disk /\ Log!Now.l = leaked /\ LogGood(Log!Now, since)
  BY DEF Log!Now, LogInv
<1>2. ctx.state \notin {"OPENING", "FREED"} /\ asking = <<>> /\ ctx.queue = <<>>
  <2>0. ctx.lp \in Policies
    BY <1>1 DEF LogGood, Status, Context
  <2>1. ctx.state # "FREED" /\ asking = <<>>
    BY <2>0 DEF Log!log_reconfig
  <2>2. ctx.state # "OPENING"
    BY <2>1 DEF LogInv, Asked
  <2> QED
    BY <1>1, <2>1, <2>2 DEF LogGood
<1>3. /\ logConf' = new /\ items' = items /\ allowed' = allowed \cup may
      /\ ctx.lp = "gtk" /\ ~leaked
  BY DEF Log!log_reconfig, Log!Allows, LogInv, Log!Unasked
<1>4. CASE new.file # logConf.file \/ new.on # logConf.on
  <2>1. PICK fails \in Log!Faults :
          LET s == Log!logfopen(Log!logfclose(Log!Now), new, fails) IN Log!Becomes(s) /\ Log!Asks(s)
    BY <1>4 DEF Log!log_reconfig
  <2> DEFINE c == Log!logfclose(Log!Now)
             s == Log!logfopen(c, new, fails)
  <2>2. since' = <<>> /\ since' \in Items
    BY <1>2, <1>4, Concats DEF Log!log_reconfig
  <2>3. c = [Log!Now EXCEPT !.c.lgfp = NoFile, !.c.state = "CLOSED"]
    BY DEF Log!logfclose
  <2>4. /\ c \in Status /\ c.c.state = "CLOSED" /\ c.c.lgfp = NoFile /\ c.c.queue = <<>>
        /\ c.d = Log!Now.d /\ c.l = leaked /\ c.c.lp = ctx.lp
    <3> HIDE DEF c
    <3> QED
      BY <1>1, <1>2, <2>3 DEF LogGood, Status, Context, States
  <2> HIDE DEF c
  <2>5. LogGood(c, <<>>)
    BY <2>4 DEF LogGood
  <2>6. LogGood(s, <<>>) /\ Spares(c, s, may) /\ s.c.state # "FREED" /\ ~Forgets(c, s)
    BY <1>3, <2>4, <2>5, OpenGood
  <2>7. Log!Becomes(s) /\ Log!Asks(s)
    BY <2>1 DEF c
  <2> HIDE DEF s
  <2>8. Log!Now' = [c |-> s.c, d |-> s.d, l |-> s.l] /\ ctx' = s.c /\ leaked' = s.l
    BY <2>7 DEF Log!Becomes, Log!Now
  <2>9. Log!Now' = s
    BY <2>6, <2>8 DEF LogGood, Status
  <2>10. Asked'
    BY <1>2, <2>7, <2>8 DEF Log!Asks, Asked
  <2>11. Spares(Log!Now, Log!Now', allowed')
    BY <1>3, <2>4, <2>6, <2>9 DEF Spares
  <2>12. ~leaked'
    BY <1>3, <2>4, <2>6, <2>8 DEF Forgets
  <2> QED
    BY <1>3, <2>2, <2>6, <2>9, <2>10, <2>11, <2>12 DEF Preserved, LogInv
<1>5. CASE ~(new.file # logConf.file \/ new.on # logConf.on)
  BY <1>3, <1>5 DEF Log!log_reconfig, Preserved, LogInv, Asked, Log!Now, Spares
<1> QED
  BY <1>4, <1>5

\* So does the end of the log.
LEMMA FreeStep ==
    ASSUME Log!ParamAssumption, LogInv, Log!log_free
    PROVE  Preserved
<1>1. Log!Now.c = ctx /\ Log!Now.d = disk /\ Log!Now.l = leaked /\ LogGood(Log!Now, since)
  BY DEF Log!Now, LogInv
<1>2. <<>> \in Seq(1 .. MaxItems)
  OBVIOUS
<1>3. /\ ctx' \in Context /\ ctx'.state = "FREED" /\ ctx'.lgfp = NoFile /\ ctx'.queue = <<>>
      /\ ctx'.lp = ctx.lp
  BY <1>1, <1>2 DEF Log!log_free, LogGood, Status, Context, States
<1>4. /\ Log!Now' = [c |-> ctx', d |-> disk, l |-> leaked] /\ Log!Now'.c = ctx' /\ Log!Now'.d = disk
      /\ Log!Now'.l = leaked
  BY DEF Log!log_free, Log!Now
<1>5. Log!Now' \in Status
  BY <1>1, <1>3, <1>4 DEF LogGood, Status
<1>6. LogGood(Log!Now', since)
  BY <1>1, <1>3, <1>4, <1>5 DEF LogGood
<1>7. Asked'
  BY <1>3 DEF Log!log_free, Asked
<1>8. Spares(Log!Now, Log!Now', allowed')
  BY <1>1, <1>4 DEF Spares
<1> QED
  BY <1>3, <1>6, <1>7, <1>8 DEF Preserved, LogInv, Log!log_free, Log!Unasked

\* Under the policy of this program, and under the one that asks if the
\* settings stay as they are while the question is open: the log has all that
\* was logged, also what was logged while the question was open, whatever the
\* operating system refuses and in whatever order output, answers and settings
\* come.  No file is forgotten, and nothing is overwritten that neither the
\* user nor the settings gave up, unless the settings say to ask the user and
\* the policy does not (logwrite, logfopen, logfopen_callback, log_reconfig,
\* tqt_log_askappend).
THEOREM LogIsSound ==
    ASSUME Log!ParamAssumption, "gtk" \in Policies => ~WhileAsking
    PROVE  Log!Spec => LogSound
<1> DEFINE Unharmed == Log!Unasked \/ Log!OldKept
<1>1. Log!Init => LogInv
  <2> SUFFICES ASSUME Log!Init PROVE LogInv
    OBVIOUS
  <2>1. <<>> \in Seq(1 .. MaxItems) /\ <<>> \in Items /\ <<Log!Old>> \in Items
    BY DEF Items, Log!Old, Log!ParamAssumption
  <2>2. disk \in [Files -> Items]
    BY <2>1 DEF Log!Init
  <2>3. ctx \in Context
    BY <2>1 DEF Log!Init, Context, States
  <2>4. Log!Now \in Status /\ Log!Now.c = ctx /\ Log!Now.l = leaked
    BY <2>2, <2>3 DEF Log!Init, Log!Now, Status
  <2>5. LogGood(Log!Now, since)
    BY <2>4 DEF Log!Init, LogGood
  <2>6. ctx.state = "CLOSED"
    BY DEF Log!Init
  <2> QED
    BY <2>1, <2>5, <2>6 DEF Log!Init, LogInv, Asked, Log!ParamAssumption
<1>2. LogInv /\ Log!Next => Preserved
  BY LogStep, AnswerStep, ReconfigStep, FreeStep DEF Log!Next
<1>3. LogInv /\ [Log!Next]_(Log!vars) => LogInv' /\ [Unharmed]_(Log!vars)
  <2> SUFFICES ASSUME LogInv, [Log!Next]_(Log!vars)
               PROVE  LogInv' /\ [Unharmed]_(Log!vars)
    OBVIOUS
  <2>1. CASE Log!Next
    <3>1. LogInv' /\ (Log!Unasked \/ Spares(Log!Now, Log!Now', allowed'))
      BY <1>2, <2>1 DEF Preserved
    <3>2. Log!Now.d = disk /\ Log!Now'.d = disk'
      BY DEF Log!Now
    <3> QED
      BY <3>1, <3>2 DEF Spares, HasOld, Log!OldKept
  <2>2. CASE UNCHANGED Log!vars
    BY <2>2 DEF Log!vars, LogInv, Log!Now, Asked, Log!Unasked
  <2> QED
    BY <2>1, <2>2
<1>4. LogInv => Log!LogComplete /\ (leaked => Log!Unasked)
  <2> SUFFICES ASSUME LogInv PROVE Log!LogComplete /\ (leaked => Log!Unasked)
    OBVIOUS
  <2>1. Log!Now.c = ctx /\ Log!Now.d = disk /\ Log!Now.l = leaked /\ LogGood(Log!Now, since) /\ since \in Items
    BY DEF Log!Now, LogInv
  <2>2. ctx.state = "OPEN" => Log!EndsWith(disk[ctx.lgfp], since)
    BY <2>1, ConcatEndsWith DEF LogGood
  <2>3. ctx.state = "OPENING" => Log!EndsWith(ctx.queue, since)
    BY <2>1, ConcatEndsWith DEF LogGood
  <2> QED
    BY <2>1, <2>2, <2>3 DEF LogInv, Log!LogComplete
<1> QED
  BY <1>1, <1>3, <1>4, PTL DEF Log!Spec, LogSound, Log!LogSound


-----------------------------------------------------------------------------
(* The lines of the terminal (TermScreen).  ScreenInv says of the selection*)
(* more than is asked for: it does not reach above the scrollback, and if  *)
(* it reaches below the screen, then with no cell of that row.             *)

\* What may stand in a line.
AllLines == Texts \cup {Blank}

\* The selections that there may be.
Selections == [on : BOOLEAN, start : Int, end : Int, x : {0, 1}]

\* The Terminal structure.
Terminal ==
    [rows : Nat, screen : Seq(AllLines), alt_screen : Seq(AllLines), alt_which : BOOLEAN,
     alt_sblines : Nat, scrollback : Seq(AllLines), tempsblines : Nat, savelines : Nat,
     disptop : Int, sel : Selections, erase_to_scrollback : BOOLEAN, no_alt_screen : BOOLEAN]

\* The lengths of screens and scrollback.
Sized(t) ==
    /\ t \in Terminal /\ t.rows > 0
    /\ Len(t.screen) = t.rows /\ Len(t.alt_screen) = t.rows
    /\ t.tempsblines <= Len(t.scrollback) /\ Len(t.scrollback) <= t.savelines

\* The view is of lines that exist.
Viewed(t) == -Screen!sblines(t) <= t.disptop /\ t.disptop <= 0

\* So is the selection, which does not reach above the scrollback and ends on
\* the screen, or just below it without a cell of that row.
Selected(t) ==
    t.sel.on => /\ -Len(t.scrollback) <= t.sel.start
                /\ t.sel.end < t.rows \/ (t.sel.end = t.rows /\ t.sel.x = 0)

\* The inductive invariant.
ScreenInv ==
    /\ profile \in Profiles /\ Sized(term)
    /\ ~profile.changes => Viewed(term)
    /\ profile.noalt /\ ~profile.changes =>
           Selected(term) /\ ~term.alt_which /\ term.no_alt_screen

\* What stays the same when a screen is written to.
Like(t, u) ==
    /\ u.rows = t.rows /\ u.alt_which = t.alt_which /\ u.savelines = t.savelines
    /\ u.erase_to_scrollback = t.erase_to_scrollback /\ u.no_alt_screen = t.no_alt_screen

\* What the functions of terminal.c that write to a screen keep.
Keeps(t, u) ==
    /\ Sized(u) /\ Like(t, u)
    /\ Viewed(t) => Viewed(u)
    /\ Selected(t) => Selected(u)

\* What is as it was keeps everything.
LEMMA KeepsItself == ASSUME NEW t, Sized(t) PROVE Keeps(t, t)
BY DEF Keeps, Like

\* So do two functions, one after the other.
LEMMA KeepsThrough == ASSUME NEW t, NEW u, NEW v, Keeps(t, u), Keeps(u, v) PROVE Keeps(t, v)
BY DEF Keeps, Like

-----------------------------------------------------------------------------
\* A part of a sequence has the length that its bounds say.
LEMMA PartOf ==
    ASSUME NEW S, NEW q \in Seq(S), NEW m \in Nat, NEW n \in Nat, m > 0, n <= Len(q)
    PROVE  SubSeq(q, m, n) \in Seq(S) /\ Len(SubSeq(q, m, n)) = IF m <= n THEN n - m + 1 ELSE 0
<1>1. \A i \in m .. n : q[i] \in S
  BY LenProperties
<1> QED BY <1>1, SubSeqProperties

\* A sequence without one of its elements is one shorter.
LEMMA Removed ==
    ASSUME NEW S, NEW q \in Seq(S), NEW i \in 1 .. Len(q)
    PROVE  Screen!RemoveAt(q, i) \in Seq(S) /\ Len(Screen!RemoveAt(q, i)) = Len(q) - 1
<1>1. Len(q) \in Nat /\ i - 1 \in Nat /\ i + 1 \in Nat /\ i - 1 <= Len(q) /\ i + 1 > 0
  BY LenProperties
<1> DEFINE a == SubSeq(q, 1, i - 1)
           b == SubSeq(q, i + 1, Len(q))
<1>2. a \in Seq(S) /\ Len(a) = i - 1
  BY <1>1, PartOf
<1>3. b \in Seq(S) /\ Len(b) = Len(q) - i
  BY <1>1, PartOf
<1>4. Screen!RemoveAt(q, i) = a \o b
  BY DEF Screen!RemoveAt
<1> HIDE DEF a, b
<1>5. a \o b \in Seq(S) /\ Len(a \o b) = Len(a) + Len(b)
  BY <1>2, <1>3, ConcatProperties
<1> QED BY <1>1, <1>2, <1>3, <1>4, <1>5

\* A sequence with an element more is one longer.
LEMMA Inserted ==
    ASSUME NEW S, NEW q \in Seq(S), NEW e \in S, NEW i \in 1 .. Len(q) + 1
    PROVE  Screen!InsertAt(q, i, e) \in Seq(S) /\ Len(Screen!InsertAt(q, i, e)) = Len(q) + 1
<1>1. Len(q) \in Nat /\ i - 1 \in Nat /\ i \in Nat /\ i - 1 <= Len(q) /\ i > 0
  BY LenProperties
<1> DEFINE a == SubSeq(q, 1, i - 1)
           b == SubSeq(q, i, Len(q))
<1>2. a \in Seq(S) /\ Len(a) = i - 1
  BY <1>1, PartOf
<1>3. b \in Seq(S) /\ Len(b) = Len(q) - i + 1
  BY <1>1, PartOf
<1>4. Screen!InsertAt(q, i, e) = a \o <<e>> \o b
  BY DEF Screen!InsertAt
<1> HIDE DEF a, b
<1>5. <<e>> \in Seq(S) /\ Len(<<e>>) = 1
  OBVIOUS
<1>6. a \o <<e>> \in Seq(S) /\ Len(a \o <<e>>) = i
  BY <1>1, <1>2, <1>5, ConcatProperties
<1>7. (a \o <<e>>) \o b \in Seq(S) /\ Len((a \o <<e>>) \o b) = i + Len(b)
  BY <1>3, <1>6, ConcatProperties
<1> QED BY <1>1, <1>3, <1>4, <1>7

\* A line that goes and a blank one that comes leave a screen as high as it was.
LEMMA Turned ==
    ASSUME NEW q \in Seq(AllLines), NEW i \in 1 .. Len(q), NEW j \in 1 .. Len(q)
    PROVE  /\ Screen!InsertAt(Screen!RemoveAt(q, i), j, Blank) \in Seq(AllLines)
           /\ Len(Screen!InsertAt(Screen!RemoveAt(q, i), j, Blank)) = Len(q)
<1> DEFINE r == Screen!RemoveAt(q, i)
<1>1. r \in Seq(AllLines) /\ Len(r) = Len(q) - 1 /\ Len(q) \in Nat
  BY Removed, LenProperties
<1> HIDE DEF r
<1>2. Blank \in AllLines /\ j \in 1 .. Len(r) + 1
  BY <1>1 DEF AllLines
<1>3. Screen!InsertAt(r, j, Blank) \in Seq(AllLines) /\ Len(Screen!InsertAt(r, j,
        Blank)) = Len(r) + 1
  BY <1>1, <1>2, Inserted
<1> QED BY <1>1, <1>3 DEF r

\* A blank screen is as high as it should be.
LEMMA BlanksAre == ASSUME NEW n \in Nat PROVE Screen!Blanks(n) \in Seq(AllLines) /\
  Len(Screen!Blanks(n)) = n
BY DEF Screen!Blanks, AllLines

\* The last line with text is one of the screen.
LEMMA NonEmptyIs ==
    ASSUME NEW q \in Seq(AllLines)
    PROVE  Screen!NonEmpty(q) \in 0 .. Len(q)
<1> DEFINE used == {i \in DOMAIN q : q[i] # Blank}
           last(i) == i \in used /\ \A j \in used : j <= i
<1>1. DOMAIN q = 1 .. Len(q) /\ Len(q) \in Nat
  BY LenProperties
<1>2. CASE used = {}
  BY <1>1, <1>2 DEF Screen!NonEmpty
<1>3. CASE used # {}
  <2>1. used \in SUBSET Int /\ \A i \in used : i <= Len(q) /\ i \in 1 .. Len(q)
    BY <1>1
  <2> HIDE DEF used
  <2>2. \E i \in used : \A j \in used : j <= i
    <3>1. Len(q) \in Int /\ used \in SUBSET Int /\ used # {}
      BY <1>1, <1>3, <2>1
    <3>2. \A i \in used : i <= Len(q)
      BY <2>1
    <3> QED BY <3>1, <3>2, GreatestInt
  <2>3. (CHOOSE i \in used : \A j \in used : j <= i) \in used
    BY <2>2
  <2> USE DEF used
  <2>4. Screen!NonEmpty(q) = CHOOSE i \in used : \A j \in used : j <= i
    BY <1>3 DEF Screen!NonEmpty
  <2> HIDE DEF used
  <2>5. Screen!NonEmpty(q) \in used
    BY <2>3, <2>4
  <2>6. Screen!NonEmpty(q) \in 1 .. Len(q)
    BY <2>1, <2>5, Zenon
  <2> QED BY <1>1, <2>6
<1> QED BY <1>2, <1>3

-----------------------------------------------------------------------------
\* To deselect keeps everything else (deselect).
LEMMA Deselected == ASSUME NEW t, Sized(t) PROVE Keeps(t, Screen!deselect(t)) /\
  Selected(Screen!deselect(t)) /\ Screen!deselect(t).disptop = t.disptop
<1> DEFINE u == Screen!deselect(t)
<1>1. Screen!NoSelection \in Selections /\ ~Screen!NoSelection.on
  BY DEF Screen!NoSelection, Selections
<1>2. /\ u \in Terminal /\ u.sel = Screen!NoSelection /\ u.rows = t.rows /\ u.screen = t.screen
      /\ u.alt_screen = t.alt_screen /\ u.alt_which = t.alt_which /\
           u.alt_sblines = t.alt_sblines
      /\ u.scrollback = t.scrollback /\ u.tempsblines = t.tempsblines /\
           u.savelines = t.savelines
      /\ u.disptop = t.disptop /\ u.erase_to_scrollback = t.erase_to_scrollback
      /\ u.no_alt_screen = t.no_alt_screen
  BY <1>1 DEF Sized, Terminal, Screen!deselect
<1> HIDE DEF u
<1>3. Sized(u) /\ Like(t, u)
  BY <1>2 DEF Sized, Like
<1>4. Viewed(t) => Viewed(u)
  BY <1>2 DEF Viewed, Screen!sblines
<1>5. Selected(u)
  BY <1>1, <1>2 DEF Selected
<1> QED BY <1>2, <1>3, <1>4, <1>5 DEF Keeps, u

\* So does a check of the selection (check_selection).
LEMMA Checked ==
    ASSUME NEW t, Sized(t), NEW a, NEW b
    PROVE  Keeps(t, Screen!check_selection(t, a, b))
BY Deselected, KeepsItself DEF Screen!check_selection

\* Where the selection is when lines have moved up: no higher than they may.
LEMMA SelUpIs ==
    ASSUME NEW t \in Terminal, NEW top \in Int, NEW bot \in Int, NEW low \in Int, low <= bot
    PROVE  LET u == Screen!SelUp(t, top, bot, low) IN
           /\ u \in Selections
           /\ u.on => /\ t.sel.on
                      /\ u.start = t.sel.start \/ (u.start = t.sel.start - 1 /\ u.start >= low)
                      /\ \/ u.end = t.sel.end /\ (u.x = t.sel.x \/ u.x = 0)
                         \/ u.end = t.sel.end - 1 /\ t.sel.end <= bot
<1> DEFINE Raised(y) == IF y >= low /\ y <= bot THEN (IF y - 1 < low THEN low ELSE y - 1) ELSE y
           x == IF t.sel.end = low /\ low <= bot THEN 0 ELSE t.sel.x
           u == Screen!SelUp(t, top, bot, low)
<1>1. /\ t.sel \in Selections /\ t.sel.on \in BOOLEAN /\ t.sel.start \in Int /\
           t.sel.end \in Int
      /\ t.sel.x \in {0, 1}
  BY DEF Terminal, Selections
<1>2. Raised(t.sel.start) \in Int /\ Raised(t.sel.end) \in Int /\ x \in {0, 1} /\
        (x = t.sel.x \/ x = 0)
  BY <1>1
<1>3. u = IF ~t.sel.on THEN t.sel
          ELSE [on |-> TRUE, start |-> Raised(t.sel.start), end |-> Raised(t.sel.end), x |-> x]
  BY DEF Screen!SelUp
<1>4. /\ Raised(t.sel.start) = t.sel.start \/ (Raised(t.sel.start) = t.sel.start - 1 /\
           Raised(t.sel.start) >= low)
      /\ Raised(t.sel.end) = t.sel.end \/ (Raised(t.sel.end) = t.sel.end - 1 /\
           t.sel.end <= bot)
  BY <1>1
<1> HIDE DEF Raised, x, u
<1>5. u \in Selections
  BY <1>1, <1>2, <1>3 DEF Selections
<1>6. CASE t.sel.on
  <2>1. u.start = Raised(t.sel.start) /\ u.end = Raised(t.sel.end) /\ u.x = x
    BY <1>3, <1>6
  <2> QED BY <1>2, <1>4, <1>5, <1>6, <2>1 DEF u
<1>7. CASE ~t.sel.on
  BY <1>3, <1>5, <1>7 DEF u
<1> QED BY <1>6, <1>7

\* Where it is when they have moved down: at most one row below the region.
LEMMA SelDownIs ==
    ASSUME NEW t \in Terminal, NEW top \in Int, NEW bot \in Int
    PROVE  LET u == Screen!SelDown(t, top, bot) IN
           /\ u \in Selections
           /\ u.on => /\ t.sel.on
                      /\ u.start = t.sel.start \/ u.start = t.sel.start + 1
                      /\ \/ u.end = t.sel.end /\ (u.x = t.sel.x \/ u.x = 0)
                         \/ u.end <= bot
                         \/ u.end = bot + 1 /\ u.x = 0
<1> DEFINE Lowered(y) == IF y >= top /\ y <= bot THEN y + 1 ELSE y
           x == IF t.sel.end = bot THEN 0 ELSE t.sel.x
           u == Screen!SelDown(t, top, bot)
<1>1. /\ t.sel \in Selections /\ t.sel.on \in BOOLEAN /\ t.sel.start \in Int /\
           t.sel.end \in Int
      /\ t.sel.x \in {0, 1}
  BY DEF Terminal, Selections
<1>2. Lowered(t.sel.start) \in Int /\ Lowered(t.sel.end) \in Int /\ x \in {0, 1} /\
        (x = t.sel.x \/ x = 0)
  BY <1>1
<1>3. u = IF ~t.sel.on THEN t.sel
          ELSE [on |-> TRUE, start |-> Lowered(t.sel.start), end |-> Lowered(t.sel.end),
                 x |-> x]
  BY DEF Screen!SelDown
<1>4. /\ Lowered(t.sel.start) = t.sel.start \/ Lowered(t.sel.start) = t.sel.start + 1
      /\ Lowered(t.sel.end) = t.sel.end \/ Lowered(t.sel.end) <= bot \/
           (Lowered(t.sel.end) = bot + 1 /\ x = 0)
  BY <1>1
<1> HIDE DEF Lowered, x, u
<1>5. u \in Selections
  BY <1>1, <1>2, <1>3 DEF Selections
<1>6. CASE t.sel.on
  <2>1. u.start = Lowered(t.sel.start) /\ u.end = Lowered(t.sel.end) /\ u.x = x
    BY <1>3, <1>6
  <2> QED BY <1>2, <1>4, <1>5, <1>6, <2>1 DEF u
<1>7. CASE ~t.sel.on
  BY <1>3, <1>5, <1>7 DEF u
<1> QED BY <1>6, <1>7

\* A line that is scrolled down.
LEMMA ScrollDownKeeps ==
    ASSUME NEW t, Sized(t), NEW top \in Nat, NEW bot \in Nat, top <= bot, bot < t.rows
    PROVE  Keeps(t, Screen!ScrollDown(t, top, bot))
<1> DEFINE u == Screen!ScrollDown(t, top, bot)
           l == Screen!InsertAt(Screen!RemoveAt(t.screen, bot + 1), top + 1, Blank)
           z == Screen!SelDown(t, top, bot)
<1>1. /\ t \in Terminal /\ t.screen \in Seq(AllLines) /\ Len(t.screen) = t.rows /\
           t.rows \in Nat
      /\ t.sel.start \in Int /\ t.sel.end \in Int /\ Len(t.scrollback) \in Nat
  BY LenProperties DEF Sized, Terminal, Selections
<1>2. l \in Seq(AllLines) /\ Len(l) = t.rows
  <2>1. bot + 1 \in 1 .. Len(t.screen) /\ top + 1 \in 1 .. Len(t.screen)
    BY <1>1
  <2> QED BY <1>1, <2>1, Turned
<1>3. /\ z \in Selections
      /\ z.on => /\ t.sel.on
                 /\ z.start = t.sel.start \/ z.start = t.sel.start + 1
                 /\ \/ z.end = t.sel.end /\ (z.x = t.sel.x \/ z.x = 0)
                    \/ z.end <= bot
                    \/ z.end = bot + 1 /\ z.x = 0
  BY <1>1, SelDownIs
<1>4. u = [t EXCEPT !.screen = l, !.sel = z]
  BY DEF Screen!ScrollDown
<1> HIDE DEF u, l, z
<1>5. /\ u \in Terminal /\ u.sel = z /\ u.rows = t.rows /\ u.screen = l
      /\ u.alt_screen = t.alt_screen /\ u.alt_which = t.alt_which /\
           u.alt_sblines = t.alt_sblines
      /\ u.scrollback = t.scrollback /\ u.tempsblines = t.tempsblines /\
           u.savelines = t.savelines
      /\ u.disptop = t.disptop /\ u.erase_to_scrollback = t.erase_to_scrollback
      /\ u.no_alt_screen = t.no_alt_screen
  BY <1>1, <1>2, <1>3, <1>4 DEF Terminal
<1>6. Sized(u) /\ Like(t, u)
  BY <1>2, <1>5 DEF Sized, Like
<1>7. Viewed(t) => Viewed(u)
  BY <1>5 DEF Viewed, Screen!sblines
<1>8. Selected(t) => Selected(u)
  <2> SUFFICES ASSUME Selected(t), z.on PROVE Selected(u)
    BY <1>5 DEF Selected
  <2>1. z.start \in Int /\ z.end \in Int
    BY <1>3 DEF Selections
  <2> QED BY <1>1, <1>3, <1>5, <2>1 DEF Selected
<1> QED BY <1>6, <1>7, <1>8 DEF Keeps, u

\* A line that is scrolled up, into the scrollback or not: a view of the
\* scrollback moves with its lines, unless it is at its top end.
LEMMA ScrollUpKeeps ==
    ASSUME NEW t, Sized(t), NEW top \in Nat, NEW bot \in Nat, top <= bot, bot < t.rows,
             NEW sb \in BOOLEAN
    PROVE  Keeps(t, Screen!ScrollUp(t, top, bot, sb))
<1> DEFINE u == Screen!ScrollUp(t, top, bot, sb)
           save == sb /\ top = 0 /\ ~t.alt_which
           full == Len(t.scrollback) = t.savelines
           low == IF save THEN -t.savelines ELSE top
           l == Screen!InsertAt(Screen!RemoveAt(t.screen, top + 1), bot + 1, Blank)
           z == Screen!SelUp(t, top, bot, low)
           s == [t EXCEPT !.screen = l, !.sel = z]
           b == Append(IF full THEN Tail(t.scrollback) ELSE t.scrollback, t.screen[top + 1])
           k == IF full THEN t.tempsblines ELSE t.tempsblines + 1
           d == IF -t.savelines < t.disptop /\ t.disptop < 0 THEN t.disptop - 1 ELSE t.disptop
<1>1. /\ t \in Terminal /\ t.screen \in Seq(AllLines) /\ Len(t.screen) = t.rows /\
           t.rows \in Nat
      /\ t.sel.start \in Int /\ t.sel.end \in Int /\ t.scrollback \in Seq(AllLines)
      /\ Len(t.scrollback) \in Nat /\ t.savelines \in Nat /\ t.tempsblines \in Nat /\
           t.disptop \in Int
      /\ t.tempsblines <= Len(t.scrollback) /\ Len(t.scrollback) <= t.savelines
      /\ t.alt_which \in BOOLEAN
  BY LenProperties DEF Sized, Terminal, Selections
<1>2. l \in Seq(AllLines) /\ Len(l) = t.rows
  <2>1. bot + 1 \in 1 .. Len(t.screen) /\ top + 1 \in 1 .. Len(t.screen)
    BY <1>1
  <2> QED BY <1>1, <2>1, Turned
<1>3. low \in Int /\ low <= bot /\ low <= top
  BY <1>1
<1>4. /\ z \in Selections
      /\ z.on => /\ t.sel.on
                 /\ z.start = t.sel.start \/ (z.start = t.sel.start - 1 /\ z.start >= low)
                 /\ \/ z.end = t.sel.end /\ (z.x = t.sel.x \/ z.x = 0)
                    \/ z.end = t.sel.end - 1 /\ t.sel.end <= bot
  BY <1>1, <1>3, SelUpIs
<1>5. u = IF save /\ t.savelines > 0 THEN [s EXCEPT !.scrollback = b, !.tempsblines = k,
        !.disptop = d] ELSE s
  <2>1. s.scrollback = t.scrollback /\ s.tempsblines = t.tempsblines /\ s.disptop = t.disptop
    BY <1>1 DEF Terminal
  <2> QED BY <2>1 DEF Screen!ScrollUp
<1>6. save => low = -t.savelines
  OBVIOUS
<1>7. ~save => low = top
  OBVIOUS
<1>8. t.savelines > 0 => /\ b \in Seq(AllLines)
                         /\ Len(b) = IF full THEN Len(t.scrollback) ELSE Len(t.scrollback) + 1
                         /\ k \in Nat /\ d \in Int
  <2> SUFFICES ASSUME t.savelines > 0
               PROVE  /\ b \in Seq(AllLines) /\
                           Len(b) = IF full THEN Len(t.scrollback) ELSE Len(t.scrollback) + 1
                      /\ k \in Nat /\ d \in Int
    OBVIOUS
  <2>1. top + 1 \in 1 .. Len(t.screen)
    BY <1>1
  <2>2. t.screen[top + 1] \in AllLines
    BY <1>1, <2>1
  <2>3. full => t.scrollback # <<>>
    BY <1>1
  <2> DEFINE r == IF full THEN Tail(t.scrollback) ELSE t.scrollback
  <2>4. r \in Seq(AllLines) /\
          Len(r) = IF full THEN Len(t.scrollback) - 1 ELSE Len(t.scrollback)
    BY <1>1, <2>3
  <2> HIDE DEF r
  <2>5. Append(r, t.screen[top + 1]) \in Seq(AllLines) /\ Len(Append(r,
          t.screen[top + 1])) = Len(r) + 1
    BY <2>2, <2>4, AppendProperties
  <2> QED BY <1>1, <2>4, <2>5 DEF r
<1> HIDE DEF u, l, z, save, low, b
<1>9. /\ s \in Terminal /\ s.sel = z /\ s.rows = t.rows /\ s.screen = l
      /\ s.alt_screen = t.alt_screen /\ s.alt_which = t.alt_which /\
           s.alt_sblines = t.alt_sblines
      /\ s.scrollback = t.scrollback /\ s.tempsblines = t.tempsblines /\
           s.savelines = t.savelines
      /\ s.disptop = t.disptop /\ s.erase_to_scrollback = t.erase_to_scrollback
      /\ s.no_alt_screen = t.no_alt_screen
  BY <1>1, <1>2, <1>4 DEF Terminal
<1> HIDE DEF s, k, d
<1>10. z.on => z.start \in Int /\ z.end \in Int
  BY <1>4 DEF Selections
<1>11. CASE save /\ t.savelines > 0
  <2>1. /\ u \in Terminal /\ u.sel = z /\ u.rows = t.rows /\ u.screen = l
        /\ u.alt_screen = t.alt_screen /\ u.alt_which = t.alt_which /\
             u.alt_sblines = t.alt_sblines
        /\ u.scrollback = b /\ u.tempsblines = k /\ u.savelines = t.savelines
        /\ u.disptop = d /\ u.erase_to_scrollback = t.erase_to_scrollback
        /\ u.no_alt_screen = t.no_alt_screen
    BY <1>5, <1>8, <1>9, <1>11 DEF Terminal
  <2>2. k <= Len(b) /\ Len(b) <= t.savelines
    BY <1>1, <1>8, <1>11 DEF k
  <2>3. Sized(u) /\ Like(t, u)
    BY <1>2, <2>1, <2>2 DEF Sized, Like
  <2>4. Screen!sblines(t) = Len(t.scrollback) /\ Screen!sblines(u) = Len(b)
    BY <1>1, <1>8, <1>11, <2>1 DEF Screen!sblines, save
  <2>5. Viewed(t) => Viewed(u)
    BY <1>1, <1>8, <1>11, <2>1, <2>4 DEF Viewed, d
  <2>6. Selected(t) => Selected(u)
    <3> SUFFICES ASSUME Selected(t), z.on PROVE Selected(u)
      BY <2>1 DEF Selected
    <3>1. t.sel.on /\ -Len(t.scrollback) <= t.sel.start
      BY <1>4 DEF Selected
    <3>2. -Len(b) <= z.start
      <4>1. z.start = t.sel.start \/ (z.start = t.sel.start - 1 /\ z.start >= -t.savelines)
        BY <1>4, <1>6, <1>11
      <4>2. /\ Len(t.scrollback) = t.savelines => Len(b) = Len(t.scrollback)
            /\ Len(t.scrollback) # t.savelines => Len(b) = Len(t.scrollback) + 1
        BY <1>8, <1>11
      <4>3. z.start \in Int
        BY <1>10
      <4> HIDE DEF z, b
      <4> QED BY <1>1, <3>1, <4>1, <4>2, <4>3
    <3>3. z.end < t.rows \/ (z.end = t.rows /\ z.x = 0)
      BY <1>1, <1>3, <1>4, <1>10, <3>1 DEF Selected
    <3> QED BY <2>1, <3>2, <3>3 DEF Selected
  <2> QED BY <2>3, <2>5, <2>6 DEF Keeps, u
<1>12. CASE ~(save /\ t.savelines > 0)
  <2>1. u = s
    BY <1>5, <1>12
  <2>2. Sized(u) /\ Like(t, u)
    BY <1>2, <1>9, <2>1 DEF Sized, Like
  <2>3. Viewed(t) => Viewed(u)
    BY <1>9, <2>1 DEF Viewed, Screen!sblines
  <2>4. Selected(t) => Selected(u)
    <3> SUFFICES ASSUME Selected(t), z.on PROVE Selected(u)
      BY <1>9, <2>1 DEF Selected
    <3>1. t.sel.on /\ -Len(t.scrollback) <= t.sel.start
      BY <1>4 DEF Selected
    <3>2. low >= 0
      BY <1>1, <1>6, <1>7, <1>12
    <3>3. -Len(t.scrollback) <= z.start
      BY <1>1, <1>3, <1>4, <1>10, <3>1, <3>2
    <3>4. z.end < t.rows \/ (z.end = t.rows /\ z.x = 0)
      BY <1>1, <1>3, <1>4, <1>10, <3>1 DEF Selected
    <3> QED BY <1>9, <2>1, <3>3, <3>4 DEF Selected
  <2> QED BY <2>2, <2>3, <2>4 DEF Keeps, u
<1> QED BY <1>11, <1>12

\* One round of scroll().
LEMMA RoundKeeps ==
    ASSUME NEW t, Sized(t), NEW top \in Nat, NEW bot \in Nat, top <= bot, bot < t.rows,
           NEW down \in BOOLEAN, NEW sb \in BOOLEAN
    PROVE  Keeps(t, Screen!Round(t, top, bot, down, sb))
<1>1. CASE down
  BY <1>1, ScrollDownKeeps DEF Screen!Round
<1>2. CASE ~down
  BY <1>2, ScrollUpKeeps DEF Screen!Round
<1> QED BY <1>1, <1>2

\* f has the states of n rounds, from t.
Course(f, t, top, bot, n, down, sb) ==
    f = [i \in 0 .. n |-> IF i = 0 THEN t ELSE Screen!Round(f[i - 1], top, bot, down, sb)]

\* There is a course of any number of rounds.
LEMMA CourseExists ==
    ASSUME NEW t, NEW top, NEW bot, NEW down, NEW sb
    PROVE  \A n \in Nat : \E f : Course(f, t, top, bot, n, down, sb)
<1> DEFINE S == {n \in Nat : \E f : Course(f, t, top, bot, n, down, sb)}
           R(x) == Screen!Round(x, top, bot, down, sb)
<1>1. 0 \in S
  <2> DEFINE f == [i \in 0 .. 0 |-> t]
  <2>1. \A i \in 0 .. 0 : i = 0
    OBVIOUS
  <2>2. f = [i \in 0 .. 0 |-> IF i = 0 THEN t ELSE R(f[i - 1])]
    BY <2>1
  <2> HIDE DEF f
  <2>3. Course(f, t, top, bot, 0, down, sb)
    BY <2>2 DEF Course
  <2> QED BY <2>3
<1>2. ASSUME NEW n \in S PROVE n + 1 \in S
  <2>1. n \in Nat
    OBVIOUS
  <2>2. PICK f : Course(f, t, top, bot, n, down, sb)
    OBVIOUS
  <2>3. f = [i \in 0 .. n |-> IF i = 0 THEN t ELSE R(f[i - 1])]
    BY <2>2 DEF Course
  <2> HIDE DEF R
  <2> DEFINE g == [i \in 0 .. n + 1 |-> IF i = n + 1 THEN R(f[n]) ELSE f[i]]
  <2>4. ASSUME NEW i \in 0 .. n + 1 PROVE g[i] = IF i = 0 THEN t ELSE R(g[i - 1])
    <3>1. CASE i = 0
      BY <2>1, <2>3, <3>1
    <3>2. CASE i = n + 1
      <4>1. i - 1 = n /\ i - 1 \in 0 .. n + 1 /\ i - 1 # n + 1 /\ i # 0
        BY <2>1, <3>2
      <4>2. g[i] = R(f[n]) /\ g[i - 1] = f[n]
        BY <3>2, <4>1
      <4> QED BY <4>1, <4>2
    <3>3. CASE i # 0 /\ i # n + 1
      <4>1. i \in 0 .. n /\ i - 1 \in 0 .. n + 1 /\ i - 1 # n + 1
        BY <2>1, <3>3
      <4>2. g[i] = f[i] /\ g[i - 1] = f[i - 1]
        BY <3>3, <4>1
      <4>3. f[i] = R(f[i - 1])
        BY <2>3, <3>3, <4>1
      <4> QED BY <3>3, <4>2, <4>3
    <3> QED BY <3>1, <3>2, <3>3
  <2>5. g = [i \in 0 .. n + 1 |-> g[i]]
    OBVIOUS
  <2> HIDE DEF g
  <2>6. g = [i \in 0 .. n + 1 |-> IF i = 0 THEN t ELSE R(g[i - 1])]
    BY <2>4, <2>5
  <2>7. Course(g, t, top, bot, n + 1, down, sb)
    BY <2>6 DEF Course, R
  <2> QED BY <2>1, <2>7
<1> HIDE DEF S
<1>3. S = Nat
  <2>1. S \in SUBSET Nat
    BY DEF S
  <2> QED BY <1>1, <1>2, <2>1, NatSetInduction
<1> QED BY <1>3 DEF S

\* The rounds of scroll() are one.
LEMMA RoundsAre ==
    ASSUME NEW t, NEW top, NEW bot, NEW down, NEW sb, NEW n \in Nat
    PROVE  \E f : Course(f, t, top, bot, n, down, sb) /\ Screen!Rounds(t, top, bot, n, down,
             sb) = f[n]
<1> DEFINE f == CHOOSE f : f = [i \in 0 .. n |-> IF i = 0 THEN t ELSE Screen!Round(f[i - 1],
      top, bot, down, sb)]
<1>1. \E g : g = [i \in 0 .. n |-> IF i = 0 THEN t ELSE Screen!Round(g[i - 1], top, bot, down,
        sb)]
  <2>1. \E g : Course(g, t, top, bot, n, down, sb)
    BY CourseExists, Zenon
  <2> QED BY <2>1 DEF Course
<1>2. f = [i \in 0 .. n |-> IF i = 0 THEN t ELSE Screen!Round(f[i - 1], top, bot, down, sb)]
  BY <1>1
<1>3. Screen!Rounds(t, top, bot, n, down, sb) = f[n]
  BY DEF Screen!Rounds
<1> HIDE DEF f
<1>4. Course(f, t, top, bot, n, down, sb)
  BY <1>2 DEF Course
<1> QED BY <1>3, <1>4

\* So any number of rounds keeps lengths, view and selection.
LEMMA RoundsKeep ==
    ASSUME NEW t, Sized(t), NEW top \in Nat, NEW bot \in Nat, top <= bot, bot < t.rows,
           NEW n \in Nat, NEW down \in BOOLEAN, NEW sb \in BOOLEAN
    PROVE  Keeps(t, Screen!Rounds(t, top, bot, n, down, sb))
<1>1. PICK f : Course(f, t, top, bot, n, down, sb) /\ Screen!Rounds(t, top, bot, n, down,
        sb) = f[n]
  BY RoundsAre
<1>2. f = [i \in 0 .. n |-> IF i = 0 THEN t ELSE Screen!Round(f[i - 1], top, bot, down, sb)]
  BY <1>1 DEF Course
<1> DEFINE S == {i \in Nat : i <= n => Keeps(t, f[i])}
<1>3. 0 \in S
  <2>1. f[0] = t
    BY <1>2
  <2> QED BY <2>1, KeepsItself
<1>4. ASSUME NEW i \in S PROVE i + 1 \in S
  <2> SUFFICES ASSUME i + 1 <= n PROVE Keeps(t, f[i + 1])
    OBVIOUS
  <2>1. i + 1 \in 0 .. n /\ (i + 1) - 1 = i /\ i + 1 # 0 /\ i <= n
    OBVIOUS
  <2>2. Keeps(t, f[i])
    BY <2>1
  <2>3. f[i + 1] = Screen!Round(f[i], top, bot, down, sb)
    BY <1>2, <2>1
  <2>4. Sized(f[i]) /\ bot < f[i].rows
    BY <2>2 DEF Keeps, Like
  <2>5. Keeps(f[i], f[i + 1])
    BY <2>3, <2>4, RoundKeeps
  <2> QED BY <2>2, <2>5, KeepsThrough
<1> HIDE DEF S
<1>5. S = Nat
  <2>1. S \in SUBSET Nat
    BY DEF S
  <2> QED BY <1>3, <1>4, <2>1, NatSetInduction
<1>6. Keeps(t, f[n])
  BY <1>5 DEF S
<1> QED BY <1>1, <1>6

\* So does scroll().
LEMMA ScrollKeeps ==
    ASSUME NEW t, Sized(t), NEW top \in Nat, NEW bot \in Nat, top <= bot, bot < t.rows,
           NEW lines \in Int, NEW sb \in BOOLEAN
    PROVE  Keeps(t, Screen!scroll(t, top, bot, lines, sb))
<1> DEFINE size == bot - top + 1
           n == IF lines < 0 THEN -lines ELSE lines
           m == IF n > size THEN size ELSE n
           down == lines < 0
<1>1. m \in Nat /\ down \in BOOLEAN
  OBVIOUS
<1>2. Screen!scroll(t, top, bot, lines, sb) = Screen!Rounds(t, top, bot, m, down, sb)
  BY DEF Screen!scroll
<1> HIDE DEF m, down
<1>3. Keeps(t, Screen!Rounds(t, top, bot, m, down, sb))
  BY <1>1, RoundsKeep
<1> QED BY <1>2, <1>3

\* So does erase_lots of the whole screen, which may scroll it away.
LEMMA EraseKeeps ==
    ASSUME NEW t, Sized(t)
    PROVE  Keeps(t, Screen!EraseScreen(t))
<1> DEFINE s == Screen!check_selection(t, 0, t.rows)
           n == Screen!NonEmpty(s.screen)
           b == [s EXCEPT !.screen = Screen!Blanks(s.rows)]
           c == Screen!scroll(s, 0, n - 1, n, TRUE)
           e == IF ~s.erase_to_scrollback THEN b ELSE IF n > 0 THEN c ELSE s
<1>1. Keeps(t, s) /\ Sized(s) /\ s \in Terminal /\ s.rows \in Nat /\ s.rows > 0
  <2>1. Keeps(t, s)
    BY Checked
  <2> HIDE DEF s
  <2> QED BY <2>1 DEF Keeps, Sized, Terminal
<1>2. n \in 0 .. s.rows
  <2>1. s.screen \in Seq(AllLines) /\ Len(s.screen) = s.rows
    BY <1>1 DEF Sized, Terminal
  <2> QED BY <2>1, NonEmptyIs
<1>3. Screen!EraseScreen(t) = IF t.alt_which THEN e ELSE [e EXCEPT !.tempsblines = 0]
  BY DEF Screen!EraseScreen
<1> HIDE DEF s, n
<1>4. Keeps(s, b)
  <2>1. Screen!Blanks(s.rows) \in Seq(AllLines) /\ Len(Screen!Blanks(s.rows)) = s.rows
    BY <1>1, BlanksAre
  <2>2. /\ b \in Terminal /\ b.sel = s.sel /\ b.rows = s.rows /\
             b.screen = Screen!Blanks(s.rows)
        /\ b.alt_screen = s.alt_screen /\ b.alt_which = s.alt_which /\
             b.alt_sblines = s.alt_sblines
        /\ b.scrollback = s.scrollback /\ b.tempsblines = s.tempsblines /\
             b.savelines = s.savelines
        /\ b.disptop = s.disptop /\ b.erase_to_scrollback = s.erase_to_scrollback
        /\ b.no_alt_screen = s.no_alt_screen
    BY <1>1, <2>1 DEF Terminal
  <2> HIDE DEF b
  <2> QED BY <1>1, <2>1, <2>2 DEF Keeps, Sized, Like, Viewed, Selected, Screen!sblines
<1>5. n > 0 => Keeps(s, c)
  <2> SUFFICES ASSUME n > 0 PROVE Keeps(s, c)
    OBVIOUS
  <2>1. 0 \in Nat /\ n - 1 \in Nat /\ 0 <= n - 1 /\ n - 1 < s.rows /\ n \in Int /\
          TRUE \in BOOLEAN
    BY <1>1, <1>2
  <2> QED BY <1>1, <2>1, ScrollKeeps
<1>6. Keeps(s, s)
  BY <1>1, KeepsItself
<1> HIDE DEF b, c
<1>7. Keeps(s, e)
  BY <1>4, <1>5, <1>6
<1> HIDE DEF e
<1>8. Keeps(t, e) /\ Sized(e)
  BY <1>1, <1>7, KeepsThrough DEF Keeps
<1> DEFINE u == [e EXCEPT !.tempsblines = 0]
<1>9. Keeps(e, u)
  <2>1. e \in Terminal /\ Len(e.scrollback) \in Nat
    BY <1>8, LenProperties DEF Sized, Terminal
  <2>2. /\ u \in Terminal /\ u.sel = e.sel /\ u.rows = e.rows /\ u.screen = e.screen
        /\ u.alt_screen = e.alt_screen /\ u.alt_which = e.alt_which /\
             u.alt_sblines = e.alt_sblines
        /\ u.scrollback = e.scrollback /\ u.tempsblines = 0 /\ u.savelines = e.savelines
        /\ u.disptop = e.disptop /\ u.erase_to_scrollback = e.erase_to_scrollback
        /\ u.no_alt_screen = e.no_alt_screen
    BY <2>1 DEF Terminal
  <2> HIDE DEF u
  <2> QED BY <1>8, <2>1, <2>2 DEF Keeps, Sized, Like, Viewed, Selected, Screen!sblines
<1> HIDE DEF u
<1>10. Keeps(t, u)
  BY <1>8, <1>9, KeepsThrough
<1> QED BY <1>3, <1>8, <1>10 DEF u

\* What a swap of the screens keeps.
Swaps(t, u, which) ==
    /\ Sized(u) /\ u.rows = t.rows /\ u.alt_which = which /\ u.savelines = t.savelines
    /\ u.erase_to_scrollback = t.erase_to_scrollback /\ u.no_alt_screen = t.no_alt_screen
    /\ u.sel = t.sel /\ u.scrollback = t.scrollback /\ (Selected(t) => Selected(u))

\* Where the view is after the lines of the other screen have gone, and where it is
\* put when those of this one come.
Away(t) ==
    IF t.erase_to_scrollback /\ t.disptop < 0 /\ t.alt_which
    THEN (IF t.disptop + t.alt_sblines > 0 THEN 0 ELSE t.disptop + t.alt_sblines)
    ELSE t.disptop

Brought(t, d, n) == IF d - n < -(Len(t.scrollback) + n) THEN -(Len(t.scrollback) + n) ELSE d - n

\* What a swap of the screens leaves behind (swap_screen).
LEMMA SwappedIs ==
    ASSUME NEW t, Sized(t), NEW which \in BOOLEAN
    PROVE  LET u == Screen!Swapped(t, which)
               n == Screen!NonEmpty(t.screen)
           IN  /\ n \in Nat /\ Away(t) \in Int
               /\ u \in Terminal /\ u.sel = t.sel /\ u.rows = t.rows /\ u.screen = t.alt_screen
               /\ u.alt_screen = t.screen /\ u.alt_which = which /\ u.alt_sblines = n
               /\ u.scrollback = t.scrollback /\ u.tempsblines = t.tempsblines
               /\ u.savelines = t.savelines
               /\ u.disptop = IF t.erase_to_scrollback /\ which /\ Away(t) < 0
                              THEN Brought(t, Away(t), n) ELSE Away(t)
               /\ u.erase_to_scrollback = t.erase_to_scrollback
               /\ u.no_alt_screen = t.no_alt_screen
<1> DEFINE shift == t.erase_to_scrollback /\ t.disptop < 0
           away == IF shift /\ t.alt_which
                   THEN (IF t.disptop + t.alt_sblines > 0 THEN 0 ELSE t.disptop + t.alt_sblines)
                   ELSE t.disptop
           n == Screen!NonEmpty(t.screen)
           s == [t EXCEPT !.alt_which = which, !.screen = t.alt_screen, !.alt_screen = t.screen,
                          !.disptop = away, !.alt_sblines = n]
           to == s.disptop - s.alt_sblines
           d == IF to < -Screen!sblines(s) THEN -Screen!sblines(s) ELSE to
           u == IF s.erase_to_scrollback /\ which /\ s.disptop < 0
                THEN [s EXCEPT !.disptop = d] ELSE s
           e == Brought(t, away, n)
<1>1. Screen!Swapped(t, which) = u
  BY DEF Screen!Swapped
<1>2. /\ t \in Terminal /\ t.disptop \in Int /\ t.alt_sblines \in Nat
      /\ t.screen \in Seq(AllLines) /\ Len(t.scrollback) \in Nat
  BY LenProperties DEF Sized, Terminal
<1>3. n \in Nat /\ away \in Int /\ away = Away(t)
  <2>1. n \in 0 .. Len(t.screen)
    BY <1>2, NonEmptyIs
  <2>2. away \in Int
    BY <1>2
  <2>3. away = Away(t)
    BY DEF Away
  <2>4. Len(t.screen) \in Nat
    BY <1>2, LenProperties
  <2> QED BY <2>1, <2>2, <2>3, <2>4
<1> HIDE DEF n, away
<1>4. /\ s \in Terminal /\ s.sel = t.sel /\ s.rows = t.rows /\ s.screen = t.alt_screen
      /\ s.alt_screen = t.screen /\ s.alt_which = which /\ s.alt_sblines = n
      /\ s.scrollback = t.scrollback /\ s.tempsblines = t.tempsblines /\
           s.savelines = t.savelines
      /\ s.disptop = away /\ s.erase_to_scrollback = t.erase_to_scrollback
      /\ s.no_alt_screen = t.no_alt_screen
  BY <1>2, <1>3 DEF Terminal
<1> HIDE DEF s
<1>5. e \in Int
  BY <1>2, <1>3 DEF Brought
<1>6. s.erase_to_scrollback /\ which => d = e
  <2> SUFFICES ASSUME s.erase_to_scrollback, which PROVE d = e
    OBVIOUS
  <2>1. Screen!sblines(s) = Len(s.scrollback) + s.alt_sblines
    BY <1>4 DEF Screen!sblines
  <2>2. Screen!sblines(s) = Len(t.scrollback) + n
    BY <1>4, <2>1
  <2>3. to = away - n
    BY <1>4
  <2> QED BY <2>2, <2>3 DEF Brought
<1> HIDE DEF d, e
<1>7. /\ u \in Terminal /\ u.sel = t.sel /\ u.rows = t.rows /\ u.screen = t.alt_screen
      /\ u.alt_screen = t.screen /\ u.alt_which = which /\ u.alt_sblines = n
      /\ u.scrollback = t.scrollback /\ u.tempsblines = t.tempsblines /\
           u.savelines = t.savelines
      /\ u.disptop = (IF t.erase_to_scrollback /\ which /\ away < 0 THEN e ELSE away)
      /\ u.erase_to_scrollback = t.erase_to_scrollback /\ u.no_alt_screen = t.no_alt_screen
  <2>1. CASE s.erase_to_scrollback /\ which /\ s.disptop < 0
    <3>1. u = [s EXCEPT !.disptop = e]
      BY <1>6, <2>1
    <3>2. t.erase_to_scrollback /\ which /\ away < 0
      BY <1>4, <2>1
    <3> HIDE DEF u
    <3> QED BY <1>4, <1>5, <3>1, <3>2 DEF Terminal
  <2>2. CASE ~(s.erase_to_scrollback /\ which /\ s.disptop < 0)
    <3>1. u = s /\ ~(t.erase_to_scrollback /\ which /\ away < 0)
      BY <1>4, <2>2
    <3> HIDE DEF u
    <3> QED BY <1>4, <3>1
  <2> QED BY <2>1, <2>2
<1> HIDE DEF u
<1> QED BY <1>1, <1>3, <1>7 DEF n, e

\* A swap of the screens keeps lengths and selection, and brings the view back
\* into the range that it changes (swap_screen): even if the view was of the
\* main screen in the scrollback and power_on has forgotten that.
LEMMA SwapKeeps ==
    ASSUME NEW t, Sized(t), NEW which \in BOOLEAN
    PROVE  LET u == Screen!swap_screen(t, which, FALSE) IN
           /\ Swaps(t, u, which)
           /\ \/ Viewed(t)
              \/ which /\ ~t.alt_which /\ t.disptop <= 0
                       /\ (t.erase_to_scrollback \/ -Len(t.scrollback) <= t.disptop)
              => Viewed(u)
<1> DEFINE u == Screen!Swapped(t, which)
           n == Screen!NonEmpty(t.screen)
           away == Away(t)
           d == Brought(t, away, n)
           Fit == \/ Viewed(t)
                  \/ which /\ ~t.alt_which /\ t.disptop <= 0
                           /\ (t.erase_to_scrollback \/ -Len(t.scrollback) <= t.disptop)
<1>1. /\ which # t.alt_which => Screen!swap_screen(t, which, FALSE) = u
      /\ which = t.alt_which => Screen!swap_screen(t, which, FALSE) = t
  <2> HIDE DEF u
  <2> QED BY DEF Screen!swap_screen, u
<1>2. /\ t.disptop \in Int /\ t.alt_sblines \in Nat /\ t.alt_which \in BOOLEAN
      /\ Len(t.scrollback) \in Nat /\ t.erase_to_scrollback \in BOOLEAN
  BY LenProperties DEF Sized, Terminal
<1>3. /\ n \in Nat /\ away \in Int
      /\ u \in Terminal /\ u.sel = t.sel /\ u.rows = t.rows /\ u.screen = t.alt_screen
      /\ u.alt_screen = t.screen /\ u.alt_which = which /\ u.alt_sblines = n
      /\ u.scrollback = t.scrollback /\ u.tempsblines = t.tempsblines /\
           u.savelines = t.savelines
      /\ u.disptop = (IF t.erase_to_scrollback /\ which /\ away < 0 THEN d ELSE away)
      /\ u.erase_to_scrollback = t.erase_to_scrollback /\ u.no_alt_screen = t.no_alt_screen
  BY SwappedIs
<1> HIDE DEF u, n
<1>4. Swaps(t, u, which)
  <2> HIDE DEF d, away
  <2> QED BY <1>3 DEF Swaps, Sized, Selected
<1>5. /\ Screen!sblines(t) = Len(t.scrollback) + (IF t.erase_to_scrollback /\
           t.alt_which THEN t.alt_sblines ELSE 0)
      /\ Screen!sblines(u) = Len(t.scrollback) + (IF t.erase_to_scrollback /\
           which THEN n ELSE 0)
  <2> HIDE DEF d, away
  <2> QED BY <1>3 DEF Screen!sblines
<1>6. ASSUME Fit, which # t.alt_which PROVE Viewed(u)
  <2>1. CASE which
    <3>1. ~t.alt_which /\ away = t.disptop /\ t.disptop <= 0
      BY <1>2, <1>6, <2>1 DEF Viewed, Away
    <3>2. t.erase_to_scrollback \/ -Len(t.scrollback) <= t.disptop
      <4>1. Screen!sblines(t) = Len(t.scrollback)
        BY <1>2, <1>5, <3>1
      <4> QED BY <1>6, <4>1 DEF Viewed
    <3> HIDE DEF away
    <3>3. CASE t.erase_to_scrollback /\ t.disptop < 0
      <4>1. u.disptop = d
        BY <1>3, <2>1, <3>1, <3>3
      <4>2. Screen!sblines(u) = Len(t.scrollback) + n
        BY <1>5, <2>1, <3>3
      <4>3. -(Len(t.scrollback) + n) <= d /\ d <= 0
        BY <1>2, <1>3, <3>1 DEF Brought
      <4> HIDE DEF d
      <4> QED BY <4>1, <4>2, <4>3 DEF Viewed
    <3>4. CASE ~(t.erase_to_scrollback /\ t.disptop < 0)
      <4>1. u.disptop = t.disptop
        <5> HIDE DEF d
        <5> QED BY <1>3, <3>1, <3>4
      <4>2. -Len(t.scrollback) <= t.disptop
        BY <1>2, <3>1, <3>2, <3>4
      <4> DEFINE k == IF t.erase_to_scrollback /\ which THEN n ELSE 0
      <4>3. k \in Nat /\ Screen!sblines(u) = Len(t.scrollback) + k
        BY <1>3, <1>5
      <4> HIDE DEF k
      <4> QED BY <1>2, <3>1, <4>1, <4>2, <4>3 DEF Viewed
    <3> QED BY <3>3, <3>4
  <2>2. CASE ~which
    <3>1. t.alt_which /\ Viewed(t)
      BY <1>2, <1>6, <2>2
    <3>2. u.disptop = away /\ Screen!sblines(u) = Len(t.scrollback)
      <4> HIDE DEF d, away
      <4> QED BY <1>2, <1>3, <1>5, <2>2
    <3>3. -Len(t.scrollback) <= away /\ away <= 0
      <4>1. CASE t.erase_to_scrollback
        <5>1. Screen!sblines(t) = Len(t.scrollback) + t.alt_sblines
          BY <1>5, <3>1, <4>1
        <5> QED BY <1>2, <3>1, <4>1, <5>1 DEF Viewed, Away
      <4>2. CASE ~t.erase_to_scrollback
        <5>1. Screen!sblines(t) = Len(t.scrollback)
          BY <1>2, <1>5, <4>2
        <5>2. away = t.disptop
          BY <4>2 DEF Away
        <5> QED BY <3>1, <5>1, <5>2 DEF Viewed
      <4> QED BY <4>1, <4>2
    <3> HIDE DEF away
    <3> QED BY <3>2, <3>3 DEF Viewed
  <2> QED BY <2>1, <2>2
<1>7. CASE which # t.alt_which
  BY <1>1, <1>4, <1>6, <1>7
<1>8. CASE which = t.alt_which
  <2>1. Screen!swap_screen(t, which, FALSE) = t
    BY <1>1, <1>8
  <2>2. Swaps(t, t, which)
    BY <1>8 DEF Swaps
  <2>3. Fit => Viewed(t)
    BY <1>8
  <2> QED BY <2>1, <2>2, <2>3
<1> QED BY <1>7, <1>8

\* A view that moves leaves the rest.
LEMMA ViewMoved ==
    ASSUME NEW t, Sized(t), NEW d \in Int
    PROVE  LET u == [t EXCEPT !.disptop = d] IN
           /\ Sized(u) /\ Like(t, u) /\ Screen!sblines(u) = Screen!sblines(t) /\
                u.disptop = d /\ u.sel = t.sel
           /\ Selected(t) => Selected(u)
<1> DEFINE u == [t EXCEPT !.disptop = d]
<1>1. t \in Terminal
  BY DEF Sized
<1>2. /\ u \in Terminal /\ u.sel = t.sel /\ u.rows = t.rows /\ u.screen = t.screen
      /\ u.alt_screen = t.alt_screen /\ u.alt_which = t.alt_which /\
           u.alt_sblines = t.alt_sblines
      /\ u.scrollback = t.scrollback /\ u.tempsblines = t.tempsblines /\
           u.savelines = t.savelines
      /\ u.disptop = d /\ u.erase_to_scrollback = t.erase_to_scrollback
      /\ u.no_alt_screen = t.no_alt_screen
  BY <1>1 DEF Terminal
<1> HIDE DEF u
<1>3. Sized(u) /\ Like(t, u) /\ Screen!sblines(u) = Screen!sblines(t) /\ u.disptop = d /\
        u.sel = t.sel
      /\ (Selected(t) => Selected(u))
  BY <1>2 DEF Sized, Like, Selected, Screen!sblines
<1> QED BY <1>3 DEF u

\* There are at least the lines of the scrollback above the screen.
LEMMA Above == ASSUME NEW t, Sized(t) PROVE Screen!sblines(t) \in Nat /\
  Len(t.scrollback) <= Screen!sblines(t)
<1>1. Len(t.scrollback) \in Nat /\ t.alt_sblines \in Nat
  BY LenProperties DEF Sized, Terminal
<1> DEFINE a == IF t.erase_to_scrollback /\ t.alt_which THEN t.alt_sblines ELSE 0
<1>2. a \in Nat
  BY <1>1
<1>3. Screen!sblines(t) = Len(t.scrollback) + a
  BY DEF Screen!sblines
<1> HIDE DEF a
<1> QED BY <1>1, <1>2, <1>3

\* The bottom can always be viewed.
LEMMA AtBottom ==
    ASSUME NEW t, Sized(t)
    PROVE  LET u == [t EXCEPT !.disptop = 0] IN Keeps(t, u) /\ Viewed(u) /\ u.sel = t.sel
<1> DEFINE u == [t EXCEPT !.disptop = 0]
<1>1. /\ Sized(u) /\ Like(t, u) /\ Screen!sblines(u) = Screen!sblines(t) /\ u.disptop = 0 /\
           u.sel = t.sel
      /\ Selected(t) => Selected(u)
  BY ViewMoved, 0 \in Int
<1>2. Screen!sblines(t) \in Nat
  BY Above
<1> HIDE DEF u
<1>3. Viewed(u)
  BY <1>1, <1>2 DEF Viewed
<1>4. Keeps(t, u)
  BY <1>1, <1>3 DEF Keeps
<1> QED BY <1>1, <1>3, <1>4 DEF u

\* The reset of the view with a change of the display.
LEMMA ShownKeeps == ASSUME NEW t, Sized(t) PROVE Keeps(t, Screen!Shown(t))
BY AtBottom, KeepsItself DEF Screen!Shown

\* Lines of a screen that are written.
LEMMA Written ==
    ASSUME NEW t, Sized(t), NEW q \in Seq(AllLines), Len(q) = t.rows
    PROVE  Keeps(t, [t EXCEPT !.screen = q])
<1> DEFINE u == [t EXCEPT !.screen = q]
<1>1. t \in Terminal
  BY DEF Sized
<1>2. /\ u \in Terminal /\ u.sel = t.sel /\ u.rows = t.rows /\ u.screen = q
      /\ u.alt_screen = t.alt_screen /\ u.alt_which = t.alt_which /\
           u.alt_sblines = t.alt_sblines
      /\ u.scrollback = t.scrollback /\ u.tempsblines = t.tempsblines /\
           u.savelines = t.savelines
      /\ u.disptop = t.disptop /\ u.erase_to_scrollback = t.erase_to_scrollback
      /\ u.no_alt_screen = t.no_alt_screen
  BY <1>1 DEF Terminal
<1> HIDE DEF u
<1>3. Keeps(t, u)
  BY <1>2 DEF Keeps, Sized, Like, Viewed, Selected, Screen!sblines
<1> QED BY <1>3 DEF u

\* The check of the selection that ends a character.
LEMMA TouchedKeeps ==
    ASSUME NEW t, NEW s, Keeps(s, t), NEW y, NEW u \in Screen!Touched(t, y)
    PROVE  Keeps(s, u)
<1>1. Sized(t)
  BY DEF Keeps
<1>2. u = t \/ u = Screen!check_selection(t, y, y + 1)
  BY DEF Screen!Touched
<1>3. Keeps(t, Screen!check_selection(t, y, y + 1)) /\ Keeps(t, t)
  BY <1>1, Checked, KeepsItself
<1> QED BY <1>2, <1>3, KeepsThrough

\* What keeps everything keeps the invariant.
LEMMA KeepsInv ==
    ASSUME ScreenInv, Keeps(term, term'), UNCHANGED profile
    PROVE  ScreenInv'
BY DEF ScreenInv, Keeps, Like, Viewed, Selected, Sized, Screen!sblines

\* So does a step of the host that does.
LEMMA HostKeeps ==
    ASSUME ScreenInv, UNCHANGED profile, NEW t, NEW y, Keeps(term, t), Screen!Host(t, y)
    PROVE  ScreenInv'
<1>1. term' \in Screen!Touched(t, y)
  BY DEF Screen!Host
<1>2. Keeps(term, term')
  BY <1>1, TouchedKeeps
<1> QED BY <1>2, KeepsInv

\* The rows of the screen, and the regions that may be scrolled.
LEMMA RowsAre ==
    ASSUME ScreenInv
    PROVE  /\ Sized(term) /\ term \in Terminal /\ term.rows \in Nat /\ term.rows > 0
           /\ Screen!Rows = 0 .. term.rows - 1
           /\ \A r \in Screen!Regions : r[1] \in Nat /\ r[2] \in Nat /\ r[1] <= r[2] /\
                r[2] < term.rows
           /\ \A n \in 1 .. term.rows : n \in Int /\ -n \in Int
<1>1. Sized(term) /\ term \in Terminal /\ term.rows \in Nat /\ term.rows > 0 /\
        Screen!Rows = 0 .. term.rows - 1
  BY DEF ScreenInv, Sized, Terminal, Screen!Rows
<1>2. ASSUME NEW r \in Screen!Regions PROVE r[1] \in Nat /\ r[2] \in Nat /\ r[1] <= r[2] /\
               r[2] < term.rows
  <2>1. CASE r \in Screen!Rows \X Screen!Rows /\ r[1] < r[2]
    <3>1. r[1] \in Screen!Rows /\ r[2] \in Screen!Rows
      BY <2>1
    <3> QED BY <1>1, <2>1, <3>1
  <2>2. CASE r = <<0, term.rows - 1>>
    <3>1. r[1] = 0 /\ r[2] = term.rows - 1
      BY <2>2
    <3> QED BY <1>1, <3>1
  <2> QED BY <2>1, <2>2 DEF Screen!Regions
<1>3. \A n \in 1 .. term.rows : n \in Int /\ -n \in Int
  BY <1>1
<1> QED BY <1>1, <1>2, <1>3

\* A swap that may erase the alternate screen.
LEMMA SwapAndReset ==
    ASSUME NEW t, Sized(t), NEW which \in BOOLEAN, NEW reset \in BOOLEAN
    PROVE  LET s == Screen!swap_screen(t, which, FALSE)
               u == Screen!swap_screen(t, which, reset)
           IN  Swaps(t, s, which) /\ (Viewed(t) => Viewed(s)) /\ Keeps(s, u)
<1> DEFINE s == Screen!swap_screen(t, which, FALSE)
           u == Screen!swap_screen(t, which, reset)
<1>1. Swaps(t, s, which) /\ (Viewed(t) => Viewed(s))
  BY SwapKeeps
<1>2. Sized(s)
  BY <1>1 DEF Swaps
<1>3. u = IF reset /\ which THEN Screen!EraseScreen(s) ELSE s
  BY DEF Screen!swap_screen
<1> HIDE DEF s, u
<1>4. Keeps(s, Screen!EraseScreen(s)) /\ Keeps(s, s)
  BY <1>2, EraseKeeps, KeepsItself
<1>5. Keeps(s, u)
  BY <1>3, <1>4
<1> QED BY <1>1, <1>5 DEF s, u

\* power_on leaves the main screen in use.
LEMMA PowerOnKeeps ==
    ASSUME NEW t, Sized(t), NEW clear \in BOOLEAN
    PROVE  LET u == Screen!power_on(t, clear) IN
           /\ Sized(u) /\ ~u.alt_which /\ u.no_alt_screen = t.no_alt_screen
           /\ Viewed(t) => Viewed(u)
           /\ Selected(t) => Selected(u)
<1> DEFINE o == [t EXCEPT !.alt_which = FALSE]
           w == Screen!swap_screen(o, TRUE, FALSE)
           a == Screen!EraseScreen(w)
           m == Screen!swap_screen(a, FALSE, FALSE)
           e == IF clear THEN Screen!EraseScreen(m) ELSE m
           f == Screen!scroll(e, 0, e.rows - 1, 1, TRUE)
           u == Screen!power_on(t, clear)
<1>1. u = IF Screen!NonEmpty(e.screen) = e.rows THEN f ELSE e
  BY DEF Screen!power_on
<1>2. /\ o \in Terminal /\ o.sel = t.sel /\ o.rows = t.rows /\ o.screen = t.screen
      /\ o.alt_screen = t.alt_screen /\ o.alt_which = FALSE /\ o.alt_sblines = t.alt_sblines
      /\ o.scrollback = t.scrollback /\ o.tempsblines = t.tempsblines /\
           o.savelines = t.savelines
      /\ o.disptop = t.disptop /\ o.erase_to_scrollback = t.erase_to_scrollback
      /\ o.no_alt_screen = t.no_alt_screen
  <2>1. t \in Terminal /\ FALSE \in BOOLEAN
    BY DEF Sized
  <2> QED BY <2>1 DEF Terminal
<1> HIDE DEF o
<1>3. Sized(o) /\ (Selected(t) => Selected(o))
  BY <1>2 DEF Sized, Selected
<1>4. ASSUME Viewed(t)
      PROVE  o.disptop <= 0 /\ (o.erase_to_scrollback \/ -Len(o.scrollback) <= o.disptop)
  <2>1. Len(t.scrollback) \in Nat
    BY LenProperties DEF Sized, Terminal
  <2>2. ~t.erase_to_scrollback => Screen!sblines(t) = Len(t.scrollback)
    BY <2>1 DEF Screen!sblines
  <2> QED BY <1>2, <1>4, <2>2 DEF Viewed
<1>5. Swaps(o, w, TRUE) /\ (Viewed(t) => Viewed(w))
  <2>1. TRUE \in BOOLEAN /\ ~o.alt_which
    BY <1>2
  <2>2. /\ Swaps(o, w, TRUE)
        /\ \/ Viewed(o)
           \/ TRUE /\ ~o.alt_which /\ o.disptop <= 0
                   /\ (o.erase_to_scrollback \/ -Len(o.scrollback) <= o.disptop)
           => Viewed(w)
    BY <1>3, <2>1, SwapKeeps
  <2> HIDE DEF w
  <2> QED BY <1>4, <2>1, <2>2
<1> HIDE DEF w
<1>6. Sized(w) /\ w.no_alt_screen = t.no_alt_screen /\ (Selected(t) => Selected(w))
  BY <1>2, <1>3, <1>5 DEF Swaps
<1>7. Keeps(w, a)
  BY <1>6, EraseKeeps
<1> HIDE DEF a
<1>8. Sized(a) /\ a.no_alt_screen = t.no_alt_screen /\ (Viewed(t) => Viewed(a)) /\
        (Selected(t) => Selected(a))
  BY <1>5, <1>6, <1>7 DEF Keeps, Like
<1>9. Swaps(a, m, FALSE) /\ (Viewed(a) => Viewed(m))
  BY <1>8, SwapKeeps, FALSE \in BOOLEAN
<1> HIDE DEF m
<1>10. Sized(m) /\ ~m.alt_which /\ m.no_alt_screen = t.no_alt_screen /\ (Viewed(t) =>
         Viewed(m)) /\ (Selected(t) => Selected(m))
  BY <1>8, <1>9 DEF Swaps
<1>11. Keeps(m, e)
  BY <1>10, EraseKeeps, KeepsItself
<1> HIDE DEF e
<1>12. Sized(e) /\ e.rows \in Nat /\ e.rows > 0
  BY <1>11 DEF Keeps, Sized, Terminal
<1>13. Keeps(e, f)
  <2>1. 0 \in Nat /\ e.rows - 1 \in Nat /\ 0 <= e.rows - 1 /\ e.rows - 1 < e.rows /\
          1 \in Int /\ TRUE \in BOOLEAN
    BY <1>12
  <2> QED BY <1>12, <2>1, ScrollKeeps
<1> HIDE DEF f
<1>14. Keeps(m, u)
  BY <1>1, <1>11, <1>13, KeepsThrough
<1> HIDE DEF u
<1>15. /\ Sized(u) /\ ~u.alt_which /\ u.no_alt_screen = t.no_alt_screen
       /\ Viewed(t) => Viewed(u)
       /\ Selected(t) => Selected(u)
  BY <1>10, <1>14 DEF Keeps, Like
<1> QED BY <1>15 DEF u

-----------------------------------------------------------------------------
\* A line is written.
LEMMA WriteInv == ASSUME ScreenInv, Screen!ScreenAssumption, UNCHANGED profile,
  Screen!Write PROVE ScreenInv'
<1>1. PICK y \in Screen!Rows,
        line \in profile.texts \union {Blank} : Screen!Host([term EXCEPT !.screen[y + 1] = line], y)
  BY DEF Screen!Write
<1>2. Sized(term) /\ term \in Terminal /\ term.rows \in Nat /\ y \in 0 .. term.rows - 1
  BY <1>1, RowsAre
<1>3. line \in AllLines
  <2>1. profile.texts \in SUBSET Texts
    BY DEF ScreenInv, Screen!ScreenAssumption, Screen!ProfileType
  <2> QED BY <1>1, <2>1 DEF AllLines
<1> DEFINE q == [term.screen EXCEPT ![y + 1] = line]
<1>4. q \in Seq(AllLines) /\ Len(q) = term.rows
  <2>1. term.screen \in Seq(AllLines) /\ Len(term.screen) = term.rows
    BY <1>2 DEF Sized, Terminal
  <2>2. y + 1 \in 1 .. Len(term.screen)
    BY <1>2, <2>1
  <2> QED BY <1>3, <2>1, <2>2, ExceptSeq
<1>5. [term EXCEPT !.screen[y + 1] = line] = [term EXCEPT !.screen = q]
  OBVIOUS
<1> HIDE DEF q
<1>6. Keeps(term, [term EXCEPT !.screen = q])
  BY <1>2, <1>4, Written
<1> QED BY <1>1, <1>5, <1>6, HostKeeps

\* A region is scrolled.
LEMMA ScrollInv == ASSUME ScreenInv, UNCHANGED profile, Screen!Scroll PROVE ScreenInv'
<1>1. PICK r \in Screen!Regions, n \in 1 .. term.rows, y \in Screen!Rows :
          Screen!Host(Screen!scroll(term, r[1], r[2], n, TRUE), y) \/
            Screen!Host(Screen!scroll(term, r[1], r[2], -n, TRUE), y)
  BY DEF Screen!Scroll
<1>2. /\ Sized(term) /\ r[1] \in Nat /\ r[2] \in Nat /\ r[1] <= r[2] /\ r[2] < term.rows
      /\ n \in Int /\ -n \in Int /\ TRUE \in BOOLEAN
  BY <1>1, RowsAre
<1>3. Keeps(term, Screen!scroll(term, r[1], r[2], n, TRUE)) /\ Keeps(term, Screen!scroll(term,
        r[1], r[2], -n, TRUE))
  BY <1>2, ScrollKeeps
<1> QED BY <1>1, <1>3, HostKeeps

\* Lines are inserted or deleted.
LEMMA InsertDeleteInv == ASSUME ScreenInv, UNCHANGED profile,
  Screen!InsertDelete PROVE ScreenInv'
<1>1. PICK r \in Screen!Regions, n \in 1 .. term.rows, y \in Screen!Rows :
          y <= r[2] /\ (Screen!Host(Screen!scroll(term, y, r[2], -n, FALSE), y) \/
            Screen!Host(Screen!scroll(term, y, r[2], n, TRUE), y))
  BY DEF Screen!InsertDelete
<1>2. /\ Sized(term) /\ r[2] \in Nat /\ r[2] < term.rows /\ y \in 0 .. term.rows - 1 /\
           term.rows \in Nat
      /\ n \in Int /\ -n \in Int /\ TRUE \in BOOLEAN /\ FALSE \in BOOLEAN
  BY <1>1, RowsAre
<1>3. y \in Nat /\ y <= r[2]
  BY <1>1, <1>2
<1>4. Keeps(term, Screen!scroll(term, y, r[2], -n, FALSE)) /\ Keeps(term, Screen!scroll(term,
        y, r[2], n, TRUE))
  BY <1>2, <1>3, ScrollKeeps
<1> QED BY <1>1, <1>4, HostKeeps

\* Some lines of a screen are cleared, and the view may be reset.
LEMMA Cleared ==
    ASSUME NEW t, NEW s, Keeps(t, s), NEW q \in Seq(AllLines), Len(q) = t.rows
    PROVE  Keeps(t, Screen!Shown([s EXCEPT !.screen = q]))
<1>1. Sized(s) /\ s.rows = t.rows
  BY DEF Keeps, Like
<1> DEFINE u == [s EXCEPT !.screen = q]
<1>2. Keeps(s, u)
  BY <1>1, Written
<1> HIDE DEF u
<1>3. Sized(u)
  BY <1>2 DEF Keeps
<1>4. Keeps(u, Screen!Shown(u))
  BY <1>3, ShownKeeps
<1>5. Keeps(t, Screen!Shown(u))
  BY <1>2, <1>4, KeepsThrough
<1> QED BY <1>5 DEF u

\* The lines below the cursor are erased.
LEMMA EraseBelowInv == ASSUME ScreenInv, UNCHANGED profile, Screen!EraseBelow PROVE ScreenInv'
<1> DEFINE c(y) == Screen!check_selection(term, y + 1, term.rows)
           q(y) == [i \in 1 .. term.rows |-> IF i > y + 1 THEN Blank ELSE c(y).screen[i]]
<1>1. PICK y \in Screen!Rows : Screen!Host(Screen!Shown([c(y) EXCEPT !.screen = q(y)]), y)
  BY DEF Screen!EraseBelow
<1>2. Sized(term) /\ term.rows \in Nat
  BY RowsAre
<1>3. Keeps(term, c(y))
  BY <1>2, Checked
<1>4. q(y) \in Seq(AllLines) /\ Len(q(y)) = term.rows
  <2>1. c(y).screen \in Seq(AllLines) /\ Len(c(y).screen) = term.rows
    BY <1>3 DEF Keeps, Like, Sized, Terminal
  <2> HIDE DEF c
  <2>2. \A i \in 1 .. term.rows : c(y).screen[i] \in AllLines
    BY <2>1, LenProperties
  <2>3. Blank \in AllLines
    BY DEF AllLines
  <2> QED BY <1>2, <2>2, <2>3
<1> HIDE DEF c, q
<1>5. Keeps(term, Screen!Shown([c(y) EXCEPT !.screen = q(y)]))
  BY <1>3, <1>4, Cleared
<1> QED BY <1>1, <1>5, HostKeeps

\* The lines above the cursor are erased.
LEMMA EraseAboveInv == ASSUME ScreenInv, UNCHANGED profile, Screen!EraseAbove PROVE ScreenInv'
<1> DEFINE c(y) == Screen!check_selection(term, 0, y + 1)
           q(y) == [i \in 1 .. term.rows |-> IF i < y + 1 THEN Blank ELSE c(y).screen[i]]
<1>1. PICK y \in Screen!Rows : Screen!Host(Screen!Shown([c(y) EXCEPT !.screen = q(y)]), y)
  BY DEF Screen!EraseAbove
<1>2. Sized(term) /\ term.rows \in Nat
  BY RowsAre
<1>3. Keeps(term, c(y))
  BY <1>2, Checked
<1>4. q(y) \in Seq(AllLines) /\ Len(q(y)) = term.rows
  <2>1. c(y).screen \in Seq(AllLines) /\ Len(c(y).screen) = term.rows
    BY <1>3 DEF Keeps, Like, Sized, Terminal
  <2> HIDE DEF c
  <2>2. \A i \in 1 .. term.rows : c(y).screen[i] \in AllLines
    BY <2>1, LenProperties
  <2>3. Blank \in AllLines
    BY DEF AllLines
  <2> QED BY <1>2, <2>2, <2>3
<1> HIDE DEF c, q
<1>5. Keeps(term, Screen!Shown([c(y) EXCEPT !.screen = q(y)]))
  BY <1>3, <1>4, Cleared
<1> QED BY <1>1, <1>5, HostKeeps

\* The screen is erased.
LEMMA EraseInv == ASSUME ScreenInv, UNCHANGED profile, Screen!Erase PROVE ScreenInv'
<1>1. PICK y \in Screen!Rows : Screen!Host(Screen!Shown(Screen!EraseScreen(term)), y)
  BY DEF Screen!Erase
<1>2. Sized(term)
  BY RowsAre
<1>3. Keeps(term, Screen!EraseScreen(term)) /\ Sized(Screen!EraseScreen(term))
  BY <1>2, EraseKeeps DEF Keeps
<1>4. Keeps(term, Screen!Shown(Screen!EraseScreen(term)))
  BY <1>3, ShownKeeps, KeepsThrough
<1> QED BY <1>1, <1>4, HostKeeps

\* The scrollback is cleared, and a selection in it goes (term_clrsb).
LEMMA ClearInv == ASSUME ScreenInv, UNCHANGED profile, Screen!term_clrsb PROVE ScreenInv'
<1> DEFINE t == IF term.sel.on /\ term.sel.start < 0 THEN Screen!deselect(term) ELSE term
           u == [t EXCEPT !.disptop = 0, !.scrollback = <<>>, !.tempsblines = 0,
             !.alt_sblines = 0]
<1>1. term' = u
  BY DEF Screen!term_clrsb
<1>2. Sized(term) /\ term \in Terminal
  BY RowsAre
<1>3. Keeps(term, t) /\ (t.sel.on => ~(t.sel.start < 0))
  <2>1. Keeps(term, Screen!deselect(term)) /\ Keeps(term, term)
    BY <1>2, Deselected, KeepsItself
  <2>2. ~Screen!deselect(term).sel.on
    BY <1>2 DEF Screen!deselect, Screen!NoSelection, Terminal
  <2> QED BY <2>1, <2>2
<1> HIDE DEF t
<1>4. t \in Terminal /\ Sized(t) /\ t.savelines \in Nat /\ t.sel \in Selections
  BY <1>3 DEF Keeps, Sized, Terminal
<1>5. <<>> \in Seq(AllLines) /\ Len(<<>>) = 0 /\ 0 \in Int /\ 0 \in Nat
  OBVIOUS
<1>6. /\ u \in Terminal /\ u.sel = t.sel /\ u.rows = t.rows /\ u.screen = t.screen
      /\ u.alt_screen = t.alt_screen /\ u.alt_which = t.alt_which /\ u.alt_sblines = 0
      /\ u.scrollback = <<>> /\ u.tempsblines = 0 /\ u.savelines = t.savelines
      /\ u.disptop = 0 /\ u.erase_to_scrollback = t.erase_to_scrollback
      /\ u.no_alt_screen = t.no_alt_screen
  BY <1>4, <1>5 DEF Terminal
<1> HIDE DEF u
<1>7. Screen!sblines(u) = 0
  BY <1>5, <1>6 DEF Screen!sblines
<1>8. Sized(u)
  BY <1>4, <1>5, <1>6 DEF Sized
<1>9. Viewed(u)
  BY <1>6, <1>7 DEF Viewed
<1>10. Selected(t) => Selected(u)
  <2>1. t.sel.start \in Int
    BY <1>4 DEF Selections
  <2> QED BY <1>3, <1>5, <1>6, <2>1 DEF Selected
<1>11. Like(term, t)
  BY <1>3 DEF Keeps
<1>12. Like(term, u)
  BY <1>6, <1>11 DEF Like
<1>13. Keeps(term, u)
  BY <1>3, <1>8, <1>9, <1>10, <1>12 DEF Keeps
<1> QED BY <1>1, <1>13, KeepsInv

\* A step that may change which screen is in use.
LEMMA SwappedInv ==
    ASSUME ScreenInv, UNCHANGED profile, Sized(term'),
           ~profile.changes => Viewed(term)',
           profile.noalt /\ ~profile.changes => Selected(term)' /\ ~term'.alt_which /\
             term'.no_alt_screen
    PROVE  ScreenInv'
BY DEF ScreenInv, Viewed, Selected, Sized, Screen!sblines

\* The host swaps the screens.
LEMMA SwapScreensInv == ASSUME ScreenInv, UNCHANGED profile, Screen!SwapScreens PROVE ScreenInv'
<1> DEFINE d == Screen!deselect(term)
           which(state) == state /\ ~term.no_alt_screen
<1>1. PICK state \in BOOLEAN, reset \in BOOLEAN, y \in Screen!Rows :
          term' \in Screen!Touched(Screen!Shown(Screen!swap_screen(d, which(state), reset)), y)
  BY DEF Screen!SwapScreens
<1> DEFINE w == which(state)
           s == Screen!swap_screen(d, w, FALSE)
           u == Screen!swap_screen(d, w, reset)
<1>2. Sized(term) /\ term \in Terminal
  BY RowsAre
<1>3. Keeps(term, d) /\ Selected(d)
  BY <1>2, Deselected
<1> HIDE DEF d
<1>4. w \in BOOLEAN /\ Sized(d)
  BY <1>2, <1>3 DEF Keeps, Terminal
<1>5. Swaps(d, s, w) /\ (Viewed(d) => Viewed(s)) /\ Keeps(s, u)
  BY <1>4, SwapAndReset
<1> HIDE DEF s, u
<1>6. Keeps(u, Screen!Shown(u))
  BY <1>5, ShownKeeps DEF Keeps
<1>7. Keeps(s, Screen!Shown(u))
  BY <1>5, <1>6, KeepsThrough
<1>8. term' \in Screen!Touched(Screen!Shown(u), y)
  BY <1>1 DEF u
<1>9. Keeps(s, term')
  BY <1>7, <1>8, TouchedKeeps
<1>10. Sized(term') /\ term'.alt_which = w /\ term'.no_alt_screen = term.no_alt_screen
  <2>1. term'.alt_which = s.alt_which /\ term'.no_alt_screen = s.no_alt_screen /\ Sized(term')
    BY <1>9 DEF Keeps, Like
  <2>2. s.alt_which = w /\ s.no_alt_screen = d.no_alt_screen
    BY <1>5 DEF Swaps
  <2>3. d.no_alt_screen = term.no_alt_screen
    BY <1>3 DEF Keeps, Like
  <2> HIDE DEF w
  <2> QED BY <2>1, <2>2, <2>3
<1>11. Viewed(term) => Viewed(term')
  BY <1>3, <1>5, <1>9 DEF Keeps
<1>12. Selected(term')
  BY <1>3, <1>5, <1>9 DEF Keeps, Swaps
<1>13. term.no_alt_screen => ~w
  OBVIOUS
<1>14. ~profile.changes => Viewed(term')
  BY <1>11 DEF ScreenInv
<1>15. profile.noalt /\ ~profile.changes => ~term'.alt_which /\ term'.no_alt_screen
  <2> HIDE DEF w
  <2> QED BY <1>10, <1>13 DEF ScreenInv
<1> QED BY <1>10, <1>12, <1>14, <1>15, SwappedInv DEF Viewed, Selected, Screen!sblines

\* The host resets the terminal.
LEMMA RISInv == ASSUME ScreenInv, UNCHANGED profile, Screen!RIS PROVE ScreenInv'
<1> DEFINE u == Screen!power_on(term, TRUE)
<1>1. PICK y \in Screen!Rows : term' \in Screen!Touched(Screen!Shown(u), y)
  BY DEF Screen!RIS
<1>2. Sized(term)
  BY RowsAre
<1>3. /\ Sized(u) /\ ~u.alt_which /\ u.no_alt_screen = term.no_alt_screen
      /\ Viewed(term) => Viewed(u)
      /\ Selected(term) => Selected(u)
  BY <1>2, PowerOnKeeps, TRUE \in BOOLEAN
<1> HIDE DEF u
<1>4. Keeps(u, Screen!Shown(u))
  BY <1>3, ShownKeeps
<1>5. Keeps(u, term')
  BY <1>1, <1>4, TouchedKeeps
<1>6. /\ Sized(term') /\ ~term'.alt_which /\ term'.no_alt_screen = term.no_alt_screen
      /\ Viewed(term) => Viewed(term')
      /\ Selected(term) => Selected(term')
  BY <1>3, <1>5 DEF Keeps, Like
<1>7. ~profile.changes => Viewed(term')
  BY <1>6 DEF ScreenInv
<1>8. profile.noalt /\ ~profile.changes => Selected(term') /\ ~term'.alt_which /\
        term'.no_alt_screen
  BY <1>6 DEF ScreenInv
<1> QED BY <1>6, <1>7, <1>8, SwappedInv DEF Viewed, Selected, Screen!sblines

\* The user resets the terminal (term_pwron).
LEMMA PwronInv == ASSUME ScreenInv, UNCHANGED profile, Screen!term_pwron PROVE ScreenInv'
<1> DEFINE p(clear) == Screen!power_on(term, clear)
<1>1. PICK clear \in BOOLEAN : term' = Screen!deselect([p(clear) EXCEPT !.disptop = 0])
  BY DEF Screen!term_pwron
<1> DEFINE u == p(clear)
           b == [u EXCEPT !.disptop = 0]
<1>2. Sized(term)
  BY RowsAre
<1>3. Sized(u) /\ ~u.alt_which /\ u.no_alt_screen = term.no_alt_screen
  BY <1>2, PowerOnKeeps
<1>4. term' = Screen!deselect(b)
  BY <1>1
<1> HIDE DEF u
<1>5. Keeps(u, b) /\ Viewed(b)
  BY <1>3, AtBottom
<1> HIDE DEF b
<1>6. Sized(b)
  BY <1>5 DEF Keeps
<1>7. Keeps(b, term') /\ Selected(term')
  BY <1>4, <1>6, Deselected
<1>8. /\ Sized(term') /\ ~term'.alt_which /\ term'.no_alt_screen = term.no_alt_screen
      /\ Viewed(term')
  BY <1>3, <1>5, <1>7 DEF Keeps, Like
<1>9. profile.noalt /\ ~profile.changes => ~term'.alt_which /\ term'.no_alt_screen
  BY <1>8 DEF ScreenInv
<1> QED BY <1>7, <1>8, <1>9, SwappedInv DEF Viewed, Selected, Screen!sblines

\* The user scrolls (term_scroll).
LEMMA ViewInv == ASSUME ScreenInv, UNCHANGED profile, Screen!term_scroll PROVE ScreenInv'
<1>1. PICK d \in -Screen!sblines(term) .. 0 : term' = [term EXCEPT !.disptop = d]
  BY DEF Screen!term_scroll
<1>2. Sized(term)
  BY RowsAre
<1>3. Screen!sblines(term) \in Nat
  BY <1>2, Above
<1>4. d \in Int /\ -Screen!sblines(term) <= d /\ d <= 0
  BY <1>1, <1>3
<1>5. /\ Sized(term') /\ Like(term, term') /\ Screen!sblines(term') = Screen!sblines(term) /\
           term'.disptop = d
      /\ Selected(term) => Selected(term')
  BY <1>1, <1>2, <1>4, ViewMoved
<1>6. Viewed(term')
  BY <1>4, <1>5 DEF Viewed
<1>7. Keeps(term, term')
  BY <1>5, <1>6 DEF Keeps
<1> QED BY <1>7, KeepsInv

\* The user selects.
LEMMA SelectInv == ASSUME ScreenInv, UNCHANGED profile, Screen!Select PROVE ScreenInv'
<1>1. PICK s \in -Screen!sblines(term) .. term.rows - 1,
        e \in -Screen!sblines(term) .. term.rows - 1 :
          term' = [term EXCEPT !.sel = [on |-> TRUE, start |-> s, end |-> e, x |-> 1]]
  BY DEF Screen!Select
<1>2. Sized(term) /\ term \in Terminal /\ term.rows \in Nat
  BY RowsAre
<1>3. Screen!sblines(term) \in Nat
  BY <1>2, Above
<1>4. s \in Int /\ e \in Int /\ -Screen!sblines(term) <= s /\ e < term.rows
  BY <1>1, <1>2, <1>3
<1> DEFINE w == [on |-> TRUE, start |-> s, end |-> e, x |-> 1]
           u == [term EXCEPT !.sel = w]
<1>5. w \in Selections /\ w.on /\ w.start = s /\ w.end = e
  BY <1>4 DEF Selections
<1> HIDE DEF w
<1>6. /\ u \in Terminal /\ u.sel = w /\ u.rows = term.rows /\ u.screen = term.screen
      /\ u.alt_screen = term.alt_screen /\ u.alt_which = term.alt_which /\
           u.alt_sblines = term.alt_sblines
      /\ u.scrollback = term.scrollback /\ u.tempsblines = term.tempsblines /\
           u.savelines = term.savelines
      /\ u.disptop = term.disptop /\ u.erase_to_scrollback = term.erase_to_scrollback
      /\ u.no_alt_screen = term.no_alt_screen
  BY <1>2, <1>5 DEF Terminal
<1>7. term' = u
  BY <1>1 DEF w
<1> HIDE DEF u
<1>8. Sized(u) /\ (Viewed(term) => Viewed(u))
  BY <1>2, <1>6 DEF Sized, Viewed, Screen!sblines
<1>9. ~term.alt_which => Selected(u)
  <2>1. Len(term.scrollback) \in Nat
    BY <1>2, LenProperties DEF Terminal
  <2>2. ~term.alt_which => Screen!sblines(term) = Len(term.scrollback)
    BY <2>1 DEF Screen!sblines
  <2> QED BY <1>4, <1>5, <1>6, <2>2 DEF Selected
<1>10. ~profile.changes => Viewed(u)
  BY <1>8 DEF ScreenInv
<1>11. profile.noalt /\ ~profile.changes => Selected(u) /\ ~u.alt_which /\ u.no_alt_screen
  BY <1>6, <1>9 DEF ScreenInv
<1> QED BY <1>7, <1>8, <1>10, <1>11, SwappedInv DEF Viewed, Selected, Screen!sblines

\* The user changes the configuration (term_reconfig).
LEMMA ReconfigInv == ASSUME ScreenInv, UNCHANGED profile, Screen!term_reconfig PROVE ScreenInv'
<1> DEFINE m(noalt) == IF noalt THEN Screen!swap_screen(term, FALSE, FALSE) ELSE term
<1>1. PICK erase \in BOOLEAN, noalt \in BOOLEAN :
          term' = [m(noalt) EXCEPT !.erase_to_scrollback = erase, !.no_alt_screen = noalt]
  BY DEF Screen!term_reconfig
<1>2. profile.changes
  BY DEF Screen!term_reconfig
<1> DEFINE n == m(noalt)
           u == [n EXCEPT !.erase_to_scrollback = erase, !.no_alt_screen = noalt]
<1>3. Sized(n)
  <2>1. Sized(term)
    BY RowsAre
  <2>2. Swaps(term, Screen!swap_screen(term, FALSE, FALSE), FALSE)
    BY <2>1, SwapKeeps, FALSE \in BOOLEAN
  <2> QED BY <2>1, <2>2 DEF Swaps
<1> HIDE DEF n
<1>4. n \in Terminal
  BY <1>3 DEF Sized
<1>5. /\ u \in Terminal /\ u.rows = n.rows /\ u.screen = n.screen
      /\ u.alt_screen = n.alt_screen
      /\ u.scrollback = n.scrollback /\ u.tempsblines = n.tempsblines /\
           u.savelines = n.savelines
  BY <1>1, <1>4 DEF Terminal
<1>6. term' = u
  BY <1>1 DEF n
<1> HIDE DEF u
<1>7. Sized(u)
  BY <1>3, <1>5 DEF Sized
<1> QED BY <1>2, <1>6, <1>7, SwappedInv

\* What the loops of term_size make of the main screen and the scrollback.
ResizedTo(m, r, newrows) ==
    /\ r \in Terminal /\ Len(r.screen) = newrows /\ r.tempsblines <= Len(r.scrollback)
    /\ r.no_alt_screen = m.no_alt_screen /\ r.sel = m.sel /\ r.alt_which = m.alt_which

\* The length of two sequences of lines.
LEMMA Joined ==
    ASSUME NEW a \in Seq(AllLines), NEW b \in Seq(AllLines), NEW m, NEW n, Len(a) = m,
             Len(b) = n
    PROVE  a \o b \in Seq(AllLines) /\ Len(a \o b) = m + n
<1>1. a \o b \in Seq(AllLines) /\ Len(a \o b) = Len(a) + Len(b)
  BY ConcatProperties
<1> QED BY <1>1

\* A window that grows takes lines back from the scrollback.
LEMMA EnlargedIs ==
    ASSUME NEW m, Sized(m), NEW newrows \in Nat, newrows >= m.rows
    PROVE  ResizedTo(m, Screen!Enlarged(m, newrows), newrows)
<1> DEFINE n == newrows - m.rows
           back == IF m.tempsblines < n THEN m.tempsblines ELSE n
           len == Len(m.scrollback)
           above == SubSeq(m.scrollback, len - back + 1, len)
           below == Screen!Blanks(n - back)
           rest == SubSeq(m.scrollback, 1, len - back)
           left == m.tempsblines - back
           u == [m EXCEPT !.screen = above \o m.screen \o below, !.scrollback = rest,
             !.tempsblines = left]
<1>1. /\ m \in Terminal /\ m.rows \in Nat /\ m.tempsblines \in Nat /\ m.tempsblines <= len /\
           len \in Nat
      /\ m.scrollback \in Seq(AllLines) /\ m.screen \in Seq(AllLines) /\ Len(m.screen) = m.rows
  BY LenProperties DEF Sized, Terminal
<1>2. n \in Nat /\ back \in Nat /\ back <= len /\ back <= n /\ left \in Nat /\
        left <= len - back /\ newrows = m.rows + n
  BY <1>1
<1>3. Screen!Enlarged(m, newrows) = u
  BY DEF Screen!Enlarged
<1> HIDE DEF n, back, len, left
<1>4. len - back \in Nat /\ len - back <= len /\ len - back + 1 \in Nat /\
        len - back + 1 > 0 /\ n - back \in Nat
  BY <1>1, <1>2
<1>5. above \in Seq(AllLines) /\ Len(above) = back
  <2>1. len <= Len(m.scrollback)
    BY <1>1 DEF len
  <2>2. above \in Seq(AllLines) /\
          Len(above) = IF len - back + 1 <= len THEN len - (len - back + 1) + 1 ELSE 0
    BY <1>1, <1>4, <2>1, PartOf
  <2> HIDE DEF above
  <2> QED BY <1>1, <1>2, <2>2
<1>6. rest \in Seq(AllLines) /\ Len(rest) = len - back
  <2>1. 1 \in Nat /\ 1 > 0 /\ len - back <= Len(m.scrollback)
    BY <1>1, <1>4 DEF len
  <2>2. rest \in Seq(AllLines) /\ Len(rest) = IF 1 <= len - back THEN len - back - 1 + 1 ELSE 0
    BY <1>1, <1>4, <2>1, PartOf
  <2> HIDE DEF rest
  <2> QED BY <1>1, <1>2, <1>4, <2>2
<1>7. below \in Seq(AllLines) /\ Len(below) = n - back
  BY <1>4, BlanksAre
<1> HIDE DEF above, rest, below
<1>8. above \o m.screen \in Seq(AllLines) /\ Len(above \o m.screen) = back + m.rows
  BY <1>1, <1>5, Joined
<1> DEFINE q == (above \o m.screen) \o below
<1>9. q \in Seq(AllLines) /\ Len(q) = newrows
  <2> DEFINE p == above \o m.screen
  <2>1. p \in Seq(AllLines) /\ Len(p) = back + m.rows
    BY <1>8
  <2> HIDE DEF p
  <2>2. p \o below \in Seq(AllLines) /\ Len(p \o below) = (back + m.rows) + (n - back)
    BY <1>7, <2>1, Joined
  <2>3. q = p \o below
    BY DEF p
  <2> HIDE DEF q
  <2> QED BY <1>1, <1>2, <2>2, <2>3
<1>10. u = [m EXCEPT !.screen = q, !.scrollback = rest, !.tempsblines = left]
  OBVIOUS
<1> HIDE DEF u, q
<1>11. /\ u \in Terminal /\ u.screen = q /\ u.scrollback = rest /\ u.tempsblines = left
       /\ u.no_alt_screen = m.no_alt_screen /\ u.sel = m.sel /\ u.alt_which = m.alt_which
  BY <1>1, <1>2, <1>6, <1>9, <1>10 DEF Terminal
<1>12. ResizedTo(m, u, newrows)
  BY <1>2, <1>6, <1>9, <1>11 DEF ResizedTo
<1> QED BY <1>3, <1>12

\* A window that shrinks pushes lines above the cursor to the scrollback.
LEMMA ShrunkIs ==
    ASSUME NEW m, Sized(m), NEW newrows \in Nat, newrows < m.rows, NEW y \in 0 .. m.rows - 1
    PROVE  ResizedTo(m, Screen!Shrunk(m, newrows, y), newrows)
<1> DEFINE push == IF y >= newrows THEN y - newrows + 1 ELSE 0
           q == SubSeq(m.screen, push + 1, push + newrows)
           top == SubSeq(m.screen, 1, push)
           sb == m.scrollback \o top
           u == [m EXCEPT !.screen = q, !.scrollback = sb, !.tempsblines = m.tempsblines + push]
<1>1. /\ m \in Terminal /\ m.rows \in Nat /\ m.tempsblines \in Nat /\
           m.tempsblines <= Len(m.scrollback)
      /\ m.scrollback \in Seq(AllLines) /\ m.screen \in Seq(AllLines) /\ Len(m.screen) = m.rows
      /\ Len(m.scrollback) \in Nat
  BY LenProperties DEF Sized, Terminal
<1>2. push \in Nat /\ push + newrows <= m.rows
  BY <1>1
<1>3. Screen!Shrunk(m, newrows, y) = u
  BY DEF Screen!Shrunk
<1> HIDE DEF push
<1>4. push + 1 \in Nat /\ push + 1 > 0 /\ push + newrows \in Nat /\ push <= Len(m.screen) /\
        push + newrows <= Len(m.screen)
  BY <1>1, <1>2
<1>5. q \in Seq(AllLines) /\ Len(q) = newrows
  <2> DEFINE from == push + 1
             upto == push + newrows
  <2>1. from \in Nat /\ from > 0 /\ upto \in Nat /\ upto <= Len(m.screen)
    BY <1>4
  <2>2. q = SubSeq(m.screen, from, upto)
    OBVIOUS
  <2> HIDE DEF from, upto, q
  <2>3. q \in Seq(AllLines) /\ Len(q) = IF from <= upto THEN upto - from + 1 ELSE 0
    BY <1>1, <2>1, <2>2, PartOf
  <2> QED BY <1>2, <2>3 DEF from, upto
<1>6. top \in Seq(AllLines) /\ Len(top) = push
  <2>1. 1 \in Nat /\ 1 > 0
    OBVIOUS
  <2>2. top \in Seq(AllLines) /\ Len(top) = IF 1 <= push THEN push - 1 + 1 ELSE 0
    BY <1>1, <1>2, <1>4, <2>1, PartOf
  <2> HIDE DEF top
  <2> QED BY <1>2, <2>2
<1> HIDE DEF q, top
<1>7. sb \in Seq(AllLines) /\ Len(sb) = Len(m.scrollback) + push
  BY <1>1, <1>6, ConcatProperties
<1> HIDE DEF sb
<1>8. m.tempsblines + push \in Nat /\ m.tempsblines + push <= Len(sb)
  BY <1>1, <1>2, <1>7
<1>9. /\ u \in Terminal /\ u.screen = q /\ u.scrollback = sb /\
           u.tempsblines = m.tempsblines + push
      /\ u.no_alt_screen = m.no_alt_screen /\ u.sel = m.sel /\ u.alt_which = m.alt_which
  BY <1>1, <1>5, <1>7, <1>8 DEF Terminal
<1> HIDE DEF u
<1>10. ResizedTo(m, u, newrows)
  BY <1>5, <1>8, <1>9 DEF ResizedTo
<1> QED BY <1>3, <1>10

\* A scrollback that is too long loses its oldest lines.
LEMMA TrimmedIs ==
    ASSUME NEW m, NEW r, NEW newrows, ResizedTo(m, r, newrows), NEW newsave \in Nat
    PROVE  ResizedTo(m, Screen!Trimmed(r, newsave), newrows) /\ Len(Screen!Trimmed(r,
             newsave).scrollback) <= newsave
<1> DEFINE len == Len(r.scrollback)
           cut == SubSeq(r.scrollback, len - newsave + 1, len)
           sb == IF len > newsave THEN cut ELSE r.scrollback
           left == IF Len(sb) < r.tempsblines THEN Len(sb) ELSE r.tempsblines
           u == [r EXCEPT !.scrollback = sb, !.tempsblines = left]
<1>1. r \in Terminal /\ r.scrollback \in Seq(AllLines) /\ len \in Nat /\ r.tempsblines \in Nat
  BY LenProperties DEF ResizedTo, Terminal
<1>2. Screen!Trimmed(r, newsave) = u
  BY DEF Screen!Trimmed
<1>3. len > newsave => cut \in Seq(AllLines) /\ Len(cut) = newsave
  <2> SUFFICES ASSUME len > newsave PROVE cut \in Seq(AllLines) /\ Len(cut) = newsave
    OBVIOUS
  <2>1. len - newsave + 1 \in Nat /\ len - newsave + 1 > 0 /\ len <= Len(r.scrollback)
    BY <1>1
  <2> HIDE DEF len
  <2>2. cut \in Seq(AllLines) /\
          Len(cut) = IF len - newsave + 1 <= len THEN len - (len - newsave + 1) + 1 ELSE 0
    BY <1>1, <2>1, PartOf
  <2> HIDE DEF cut
  <2> QED BY <1>1, <2>2
<1>4. sb \in Seq(AllLines) /\ Len(sb) \in Nat /\ Len(sb) <= newsave
  <2>1. CASE len > newsave
    BY <1>3, <2>1
  <2>2. CASE ~(len > newsave)
    BY <1>1, <2>2
  <2> QED BY <2>1, <2>2
<1> HIDE DEF sb
<1>5. left \in Nat /\ left <= Len(sb)
  BY <1>1, <1>4
<1> HIDE DEF left
<1>6. /\ u \in Terminal /\ u.screen = r.screen /\ u.scrollback = sb /\ u.tempsblines = left
      /\ u.no_alt_screen = r.no_alt_screen /\ u.sel = r.sel /\ u.alt_which = r.alt_which
  BY <1>1, <1>4, <1>5 DEF Terminal
<1> HIDE DEF u
<1>7. ResizedTo(m, u, newrows) /\ Len(u.scrollback) <= newsave
  BY <1>4, <1>5, <1>6 DEF ResizedTo
<1> QED BY <1>2, <1>7

\* The window is resized (term_size).
LEMMA SizeInv == ASSUME ScreenInv, Screen!ScreenAssumption, UNCHANGED profile,
  Screen!term_size PROVE ScreenInv'
<1> DEFINE d == Screen!deselect(term)
           m == Screen!swap_screen(d, FALSE, FALSE)
           r(newrows, y) == IF newrows >= m.rows THEN Screen!Enlarged(m,
             newrows) ELSE Screen!Shrunk(m, newrows, y)
           n(newrows, newsave, y) ==
               [Screen!Trimmed(r(newrows, y), newsave) EXCEPT
                    !.disptop = 0, !.alt_screen = Screen!Blanks(newrows),
                    !.alt_sblines = 0, !.rows = newrows, !.savelines = newsave]
<1>1. PICK newrows \in ScreenHeights, newsave \in profile.saves, y \in Screen!Rows :
          term' = Screen!swap_screen(n(newrows, newsave, y), term.alt_which, FALSE)
  BY DEF Screen!term_size
<1>2. /\ Sized(term) /\ term \in Terminal /\ term.rows \in Nat /\ y \in 0 .. term.rows - 1
      /\ term.alt_which \in BOOLEAN
  BY <1>1, RowsAre DEF Terminal
<1>3. newrows \in Nat /\ newrows > 0 /\ newsave \in Nat
  <2>1. profile.saves \in SUBSET Nat
    BY DEF ScreenInv, Screen!ScreenAssumption, Screen!ProfileType
  <2>2. newrows \in Nat \ {0}
    BY <1>1 DEF Screen!ScreenAssumption
  <2> QED BY <1>1, <2>1, <2>2
<1>4. Keeps(term, d) /\ ~d.sel.on /\ d \in Terminal
  <2>1. Keeps(term, d)
    BY <1>2, Deselected
  <2>2. ~d.sel.on
    BY <1>2 DEF Screen!deselect, Screen!NoSelection, Terminal
  <2> QED BY <2>1, <2>2 DEF Keeps, Sized
<1> HIDE DEF d
<1>5. Sized(d) /\ d.rows = term.rows /\ d.no_alt_screen = term.no_alt_screen
  BY <1>4 DEF Keeps, Like
<1>6. Swaps(d, m, FALSE)
  BY <1>5, SwapKeeps, FALSE \in BOOLEAN
<1> HIDE DEF m
<1>7. Sized(m) /\ m.rows = term.rows /\ ~m.sel.on /\ m.no_alt_screen = term.no_alt_screen /\
        ~m.alt_which
  BY <1>4, <1>5, <1>6 DEF Swaps
<1> DEFINE v == r(newrows, y)
           w == Screen!Trimmed(v, newsave)
           z == [w EXCEPT !.disptop = 0, !.alt_screen = Screen!Blanks(newrows),
                          !.alt_sblines = 0, !.rows = newrows, !.savelines = newsave]
<1>8. ResizedTo(m, v, newrows)
  <2>1. CASE newrows >= m.rows
    <3>1. ResizedTo(m, Screen!Enlarged(m, newrows), newrows)
      BY <1>3, <1>7, <2>1, EnlargedIs
    <3> QED BY <2>1, <3>1
  <2>2. CASE ~(newrows >= m.rows)
    <3>1. newrows < m.rows /\ y \in 0 .. m.rows - 1
      BY <1>2, <1>3, <1>7, <2>2
    <3>2. ResizedTo(m, Screen!Shrunk(m, newrows, y), newrows)
      BY <1>3, <1>7, <3>1, ShrunkIs
    <3> QED BY <2>2, <3>2
  <2> QED BY <2>1, <2>2
<1>9. term' = Screen!swap_screen(z, term.alt_which, FALSE)
  BY <1>1
<1> HIDE DEF v, r
<1>10. ResizedTo(m, w, newrows) /\ Len(w.scrollback) <= newsave
  BY <1>3, <1>8, TrimmedIs
<1> HIDE DEF w
<1>11. w \in Terminal
  BY <1>10 DEF ResizedTo
<1>12. Screen!Blanks(newrows) \in Seq(AllLines) /\ Len(Screen!Blanks(newrows)) = newrows /\
         0 \in Int /\ 0 \in Nat
  BY <1>3, BlanksAre
<1>13. /\ z \in Terminal /\ z.sel = w.sel /\ z.rows = newrows /\ z.screen = w.screen
       /\ z.alt_screen = Screen!Blanks(newrows) /\ z.alt_which = w.alt_which
       /\ z.scrollback = w.scrollback /\ z.tempsblines = w.tempsblines /\ z.savelines = newsave
       /\ z.disptop = 0 /\ z.no_alt_screen = w.no_alt_screen
  BY <1>3, <1>11, <1>12 DEF Terminal
<1> HIDE DEF z
<1>14. Sized(z) /\ ~z.sel.on /\ z.no_alt_screen = term.no_alt_screen
  BY <1>3, <1>7, <1>10, <1>12, <1>13 DEF Sized, ResizedTo
<1>15. Viewed(z) /\ Selected(z)
  <2>1. Screen!sblines(z) \in Nat
    BY <1>14, Above
  <2> QED BY <1>13, <1>14, <2>1 DEF Viewed, Selected
<1>16. Swaps(z, term', term.alt_which) /\ Viewed(term')
  BY <1>2, <1>9, <1>14, <1>15, SwapKeeps
<1>17. Sized(term') /\ Selected(term') /\ term'.alt_which = term.alt_which /\
         term'.no_alt_screen = term.no_alt_screen
  BY <1>14, <1>15, <1>16 DEF Swaps
<1>18. profile.noalt /\ ~profile.changes => ~term'.alt_which /\ term'.no_alt_screen
  BY <1>17 DEF ScreenInv
<1> QED BY <1>16, <1>17, <1>18, SwappedInv DEF Viewed, Selected, Screen!sblines

\* The invariant holds at first.
LEMMA ScreenInit == ASSUME Screen!ScreenAssumption, Screen!Init PROVE ScreenInv
<1>1. PICK height \in ScreenHeights, save \in profile.saves, erase \in BOOLEAN :
           term = [rows |-> height, screen |-> Screen!Blanks(height),
                   alt_screen |-> Screen!Blanks(height), alt_which |-> FALSE,
                   alt_sblines |-> 0, scrollback |-> <<>>, tempsblines |-> 0,
                   savelines |-> save, disptop |-> 0, sel |-> Screen!NoSelection,
                   erase_to_scrollback |-> erase, no_alt_screen |-> profile.noalt]
  BY DEF Screen!Init
<1>2. profile \in Profiles /\ profile \in Screen!ProfileType
  BY DEF Screen!Init, Screen!ScreenAssumption
<1>3. height \in Nat /\ height > 0 /\ save \in Nat /\ profile.noalt \in BOOLEAN
  <2>1. profile.saves \in SUBSET Nat /\ profile.noalt \in BOOLEAN
    BY <1>2 DEF Screen!ProfileType
  <2>2. height \in Nat \ {0}
    BY <1>1 DEF Screen!ScreenAssumption
  <2> QED BY <1>1, <2>1, <2>2
<1>4. Screen!Blanks(height) \in Seq(AllLines) /\ Len(Screen!Blanks(height)) = height
  BY <1>3, BlanksAre
<1>5. <<>> \in Seq(AllLines) /\ Len(<<>>) = 0 /\ 0 \in Int /\ 0 \in Nat
  OBVIOUS
<1>6. Screen!NoSelection \in Selections /\ ~Screen!NoSelection.on
  BY DEF Screen!NoSelection, Selections
<1>7. term \in Terminal
  BY <1>1, <1>3, <1>4, <1>5, <1>6 DEF Terminal
<1>8. /\ term.rows = height /\ term.screen = Screen!Blanks(height) /\
           term.alt_screen = Screen!Blanks(height) /\ ~term.alt_which
      /\ term.scrollback = <<>> /\ term.tempsblines = 0 /\ term.savelines = save /\
           term.disptop = 0
      /\ term.sel = Screen!NoSelection /\ term.no_alt_screen = profile.noalt
  BY <1>1
<1>9. Sized(term)
  BY <1>3, <1>4, <1>5, <1>7, <1>8 DEF Sized
<1>10. Viewed(term)
  <2>1. Screen!sblines(term) \in Nat
    BY <1>9, Above
  <2> QED BY <1>8, <2>1 DEF Viewed
<1>11. Selected(term)
  BY <1>6, <1>8 DEF Selected
<1> QED BY <1>2, <1>8, <1>9, <1>10, <1>11 DEF ScreenInv

\* Every step keeps it.
LEMMA ScreenNext == ASSUME ScreenInv, Screen!ScreenAssumption,
  [Screen!Next]_(Screen!vars) PROVE ScreenInv'
<1>1. CASE UNCHANGED Screen!vars
  BY <1>1 DEF Screen!vars, ScreenInv, Sized, Viewed, Selected, Screen!sblines
<1>2. CASE Screen!Next
  <2>1. UNCHANGED profile
    BY <1>2 DEF Screen!Next
  <2>2. CASE Screen!Write
    BY <2>1, <2>2, WriteInv
  <2>3. CASE Screen!Scroll
    BY <2>1, <2>3, ScrollInv
  <2>4. CASE Screen!InsertDelete
    BY <2>1, <2>4, InsertDeleteInv
  <2>5. CASE Screen!EraseBelow
    BY <2>1, <2>5, EraseBelowInv
  <2>6. CASE Screen!EraseAbove
    BY <2>1, <2>6, EraseAboveInv
  <2>7. CASE Screen!Erase
    BY <2>1, <2>7, EraseInv
  <2>8. CASE Screen!term_clrsb
    BY <2>1, <2>8, ClearInv
  <2>9. CASE Screen!SwapScreens
    BY <2>1, <2>9, SwapScreensInv
  <2>10. CASE Screen!RIS
    BY <2>1, <2>10, RISInv
  <2>11. CASE Screen!term_pwron
    BY <2>1, <2>11, PwronInv
  <2>12. CASE Screen!term_scroll
    BY <2>1, <2>12, ViewInv
  <2>13. CASE Screen!Select
    BY <2>1, <2>13, SelectInv
  <2>14. CASE Screen!term_reconfig
    BY <2>1, <2>14, ReconfigInv
  <2>15. CASE Screen!term_size
    BY <2>1, <2>15, SizeInv
  <2> QED BY <1>2, <2>2, <2>3, <2>4, <2>5, <2>6, <2>7, <2>8, <2>9, <2>10, <2>11, <2>12,
             <2>13, <2>14, <2>15 DEF Screen!Next
<1> QED BY <1>1, <1>2

\* It is stronger than the property.
LEMMA ScreenHas == ASSUME ScreenInv PROVE LinesExist
<1>1. /\ Sized(term) /\ term.rows \in Nat /\ Len(term.scrollback) \in Nat /\
           term.tempsblines \in Nat
      /\ term.disptop \in Int /\ term.sel \in Selections
  BY LenProperties DEF ScreenInv, Sized, Terminal
<1>2. Screen!sblines(term) \in Nat /\ Len(term.scrollback) <= Screen!sblines(term)
  BY <1>1, Above
<1>3. Screen!LengthsAgree
  BY <1>1 DEF Sized, Screen!LengthsAgree
<1>4. Viewed(term) => Screen!ViewInRange
  BY <1>1, <1>2 DEF Viewed, Screen!ViewInRange
<1>5. Selected(term) => Screen!SelectionInRange
  <2> SUFFICES ASSUME Selected(term), term.sel.on, NEW y \in term.sel.start .. term.sel.end,
                      y = term.sel.end => term.sel.x > 0
               PROVE  y \in -Screen!sblines(term) .. term.rows - 1
    BY DEF Screen!SelectionInRange
  <2>1. term.sel.start \in Int /\ term.sel.end \in Int /\ term.sel.x \in {0, 1}
    BY <1>1 DEF Selections
  <2>2. -Len(term.scrollback) <= term.sel.start
    BY DEF Selected
  <2>3. term.sel.end < term.rows \/ (term.sel.end = term.rows /\ term.sel.x = 0)
    BY DEF Selected
  <2>4. y \in Int /\ term.sel.start <= y /\ y <= term.sel.end
    BY <2>1
  <2>5. y < term.rows
    BY <1>1, <2>1, <2>3, <2>4
  <2> QED BY <1>1, <1>2, <2>1, <2>2, <2>4, <2>5
<1> QED BY <1>3, <1>4, <1>5 DEF ScreenInv, LinesExist, Screen!LinesExist

\* For windows of any height, scrollbacks of any size and any text, the lines that
\* are counted, looked at or selected exist (lineptr, term_size): the view as
\* long as the user does not change what counts as scrollback, and the selection
\* if also there is no alternate screen.
THEOREM LinesAreThere ==
    ASSUME Screen!ScreenAssumption
    PROVE  Screen!Spec => []LinesExist
<1>1. Screen!Init => ScreenInv
  BY ScreenInit
<1>2. ScreenInv /\ [Screen!Next]_(Screen!vars) => ScreenInv'
  BY ScreenNext
<1>3. ScreenInv => LinesExist
  BY ScreenHas
<1> QED BY <1>1, <1>2, <1>3, PTL DEF Screen!Spec

-----------------------------------------------------------------------------
\* The line at the top of the view is one of the scrollback itself.
Looking(t) == t.disptop < -Screen!Virtual(t)

\* The view is at the top end of the scrollback, or beyond it.
AtTop(t) == t.disptop <= -Screen!sblines(t) /\ (t.disptop < 0 \/ t.alt_which)

\* A user who looks at a line of the scrollback when the terminal is t looks at the
\* same line when it is u, unless the view is then at the top end.
Looks(t, u) ==
    Looking(t) => AtTop(u) \/ (Looking(u) /\ Screen!TopLine(u) = Screen!TopLine(t))

\* The screen that is shown is written to, and nothing else but the view changes,
\* which stays at the top end if it is there.
Follows(t, u) ==
    /\ u.alt_which = t.alt_which /\ u.alt_screen = t.alt_screen
    /\ Looks(t, u) /\ (AtTop(t) => AtTop(u))

\* The lines above the screen are those of the scrollback and of the other screen.
LEMMA VirtualIs ==
    ASSUME NEW t, Sized(t)
    PROVE  /\ Screen!Virtual(t) \in Nat /\ Len(t.scrollback) \in Nat /\ t.disptop \in Int
           /\ Screen!sblines(t) = Len(t.scrollback) + Screen!Virtual(t)
<1>1. Len(t.scrollback) \in Nat /\ t.alt_sblines \in Nat /\ t.disptop \in Int
  BY LenProperties DEF Sized, Terminal
<1>2. Screen!Virtual(t) \in Nat
  BY <1>1 DEF Screen!Virtual
<1>3. Screen!sblines(t) = Len(t.scrollback) + Screen!Virtual(t)
  BY DEF Screen!sblines, Screen!Virtual
<1> QED BY <1>1, <1>2, <1>3

\* The line of the scrollback that is at the top of the view (lineptr).
LEMMA TopLineIs ==
    ASSUME NEW t, Sized(t), Looking(t)
    PROVE  Screen!TopLine(t) = t.scrollback[t.disptop + Screen!sblines(t) + 1]
<1>1. /\ Screen!Virtual(t) \in Nat /\ Len(t.scrollback) \in Nat /\ t.disptop \in Int
      /\ Screen!sblines(t) = Len(t.scrollback) + Screen!Virtual(t)
  BY VirtualIs
<1>2. ~(t.disptop >= 0) /\ t.disptop < -Screen!Virtual(t)
  BY <1>1 DEF Looking
<1>3. Screen!TopLine(t) = IF t.disptop >= 0 THEN t.screen[t.disptop + 1]
                   ELSE IF t.disptop < -Screen!Virtual(t)
                        THEN t.scrollback[t.disptop + Screen!Virtual(t) + Len(t.scrollback) + 1]
                   ELSE t.alt_screen[t.disptop + t.alt_sblines + 1]
  BY DEF Screen!TopLine, Screen!lineptr, Screen!Virtual
<1>4. Screen!TopLine(t) = t.scrollback[t.disptop + Screen!Virtual(t) + Len(t.scrollback) + 1]
  BY <1>2, <1>3
<1>5. t.disptop + Screen!Virtual(t) + Len(t.scrollback) + 1 = t.disptop + Screen!sblines(t) + 1
  BY <1>1
<1> QED BY <1>4, <1>5

\* The view follows two functions, one after the other.
LEMMA FollowsThrough ==
    ASSUME NEW t, NEW u, NEW v, Follows(t, u), Follows(u, v) PROVE Follows(t, v)
BY DEF Follows, Looks

\* It follows what leaves the scrollback and the view alone.
LEMMA FollowsAlike ==
    ASSUME NEW t, NEW u, Sized(t), Sized(u),
           u.alt_which = t.alt_which, u.alt_screen = t.alt_screen,
             u.alt_sblines = t.alt_sblines,
           u.scrollback = t.scrollback, u.disptop = t.disptop,
           u.erase_to_scrollback = t.erase_to_scrollback
    PROVE  /\ Follows(t, u)
           /\ Looking(t) => Looking(u) /\ Screen!TopLine(u) = Screen!TopLine(t)
<1>1. Screen!Virtual(u) = Screen!Virtual(t) /\ Screen!sblines(u) = Screen!sblines(t)
  BY DEF Screen!Virtual, Screen!sblines
<1>2. Looking(u) <=> Looking(t)
  BY <1>1 DEF Looking
<1>3. Looking(t) => Screen!TopLine(u) = Screen!TopLine(t)
  BY <1>1, <1>2, TopLineIs
<1>4. AtTop(t) => AtTop(u)
  BY <1>1 DEF AtTop
<1> QED BY <1>2, <1>3, <1>4 DEF Follows, Looks

\* To deselect is such a function (deselect).
LEMMA DeselectedFollows ==
    ASSUME NEW t, Sized(t)
    PROVE  LET u == Screen!deselect(t) IN
           /\ Follows(t, u) /\ u.screen = t.screen
           /\ Looking(t) => Looking(u) /\ Screen!TopLine(u) = Screen!TopLine(t)
<1> DEFINE u == Screen!deselect(t)
<1>1. Sized(u)
  BY Deselected DEF Keeps
<1>2. /\ u.alt_screen = t.alt_screen /\ u.alt_which = t.alt_which /\
           u.alt_sblines = t.alt_sblines
      /\ u.scrollback = t.scrollback /\ u.disptop = t.disptop
      /\ u.erase_to_scrollback = t.erase_to_scrollback /\ u.screen = t.screen
  BY DEF Sized, Terminal, Screen!deselect
<1> HIDE DEF u
<1>3. Follows(t, u) /\ (Looking(t) => Looking(u) /\ Screen!TopLine(u) = Screen!TopLine(t))
  BY <1>1, <1>2, FollowsAlike
<1> QED BY <1>2, <1>3 DEF u

\* So is a check of the selection (check_selection).
LEMMA CheckedFollows ==
    ASSUME NEW t, Sized(t), NEW a, NEW b PROVE Follows(t, Screen!check_selection(t, a, b))
<1>1. Follows(t, t)
  BY FollowsAlike
<1> QED BY <1>1, DeselectedFollows DEF Screen!check_selection

\* So is a line that is scrolled down.
LEMMA ScrollDownFollows ==
    ASSUME NEW t, Sized(t), NEW top \in Nat, NEW bot \in Nat, top <= bot, bot < t.rows
    PROVE  Follows(t, Screen!ScrollDown(t, top, bot))
<1> DEFINE u == Screen!ScrollDown(t, top, bot)
<1>1. Sized(u)
  BY ScrollDownKeeps DEF Keeps
<1>2. /\ u.alt_screen = t.alt_screen /\ u.alt_which = t.alt_which /\
           u.alt_sblines = t.alt_sblines
      /\ u.scrollback = t.scrollback /\ u.disptop = t.disptop
      /\ u.erase_to_scrollback = t.erase_to_scrollback
  BY DEF Sized, Terminal, Screen!ScrollDown
<1> HIDE DEF u
<1>3. Follows(t, u)
  BY <1>1, <1>2, FollowsAlike
<1> QED BY <1>3 DEF u

\* A line that is scrolled up into the scrollback: the view moves up with the line
\* that it shows, whether the oldest line goes or not, until it is at the top end.
LEMMA ScrollUpFollows ==
    ASSUME NEW t, Sized(t), NEW top \in Nat, NEW bot \in Nat, top <= bot, bot < t.rows,
             NEW sb \in BOOLEAN
    PROVE  Follows(t, Screen!ScrollUp(t, top, bot, sb))
<1> DEFINE u == Screen!ScrollUp(t, top, bot, sb)
           save == sb /\ top = 0 /\ ~t.alt_which /\ t.savelines > 0
           full == Len(t.scrollback) = t.savelines
           x == t.screen[top + 1]
           q == IF full THEN Tail(t.scrollback) ELSE t.scrollback
           b == Append(q, x)
           d == IF -t.savelines < t.disptop /\ t.disptop < 0 THEN t.disptop - 1 ELSE t.disptop
<1>1. /\ t \in Terminal /\ t.screen \in Seq(AllLines) /\ Len(t.screen) = t.rows /\
           t.rows \in Nat
      /\ t.scrollback \in Seq(AllLines) /\ Len(t.scrollback) \in Nat /\ t.savelines \in Nat /\
           t.disptop \in Int
      /\ Len(t.scrollback) <= t.savelines
  BY LenProperties DEF Sized, Terminal
<1>2. Sized(u)
  BY ScrollUpKeeps DEF Keeps
<1>3. CASE ~save
  <2>1. /\ u.alt_screen = t.alt_screen /\ u.alt_which = t.alt_which /\
             u.alt_sblines = t.alt_sblines
        /\ u.scrollback = t.scrollback /\ u.disptop = t.disptop
        /\ u.erase_to_scrollback = t.erase_to_scrollback
    BY <1>1, <1>3 DEF Terminal, Screen!ScrollUp
  <2> HIDE DEF u
  <2> QED BY <1>2, <2>1, FollowsAlike DEF u
<1>4. CASE save
  <2>1. /\ u.alt_screen = t.alt_screen /\ u.alt_which = t.alt_which
        /\ u.scrollback = b /\ u.disptop = d
    BY <1>1, <1>4 DEF Terminal, Screen!ScrollUp
  <2> HIDE DEF u
  <2>2. ~t.alt_which /\ ~u.alt_which /\ t.savelines > 0
    BY <1>4, <2>1
  <2>3. Screen!Virtual(t) = 0 /\ Screen!Virtual(u) = 0
    BY <2>2 DEF Screen!Virtual
  <2>4. Screen!sblines(t) = Len(t.scrollback) /\ Screen!sblines(u) = Len(b)
    <3>1. Screen!sblines(t) = Len(t.scrollback) + Screen!Virtual(t) /\
            Screen!sblines(u) = Len(u.scrollback) + Screen!Virtual(u) /\
            Len(u.scrollback) \in Nat
      BY <1>2, VirtualIs
    <3> QED BY <1>1, <2>1, <2>3, <3>1
  <2>5. x \in AllLines
    <3>1. top + 1 \in 1 .. Len(t.screen)
      BY <1>1
    <3> QED BY <1>1, <3>1
  <2> HIDE DEF x
  <2>6. /\ q \in Seq(AllLines) /\ Len(q) \in Nat
        /\ full => Len(q) = Len(t.scrollback) - 1 /\
             \A i \in 1 .. Len(q) : q[i] = t.scrollback[i + 1]
        /\ ~full => q = t.scrollback
    <3>1. CASE full
      <4>1. t.scrollback # <<>>
        BY <1>1, <2>2, <3>1
      <4>2. Tail(t.scrollback) \in Seq(AllLines) /\
              Len(Tail(t.scrollback)) = Len(t.scrollback) - 1
            /\ \A i \in 1 .. Len(Tail(t.scrollback)) : Tail(t.scrollback)[i] = t.scrollback[i + 1]
        BY <1>1, <4>1, HeadTailProperties
      <4>3. q = Tail(t.scrollback)
        BY <3>1
      <4> HIDE DEF q, full
      <4>4. Len(q) \in Nat
        BY <4>2, <4>3, LenProperties
      <4> QED BY <3>1, <4>2, <4>3, <4>4
    <3>2. CASE ~full
      BY <1>1, <3>2
    <3> QED BY <3>1, <3>2
  <2> HIDE DEF q
  <2>7. Len(b) = Len(q) + 1 /\ \A i \in 1 .. Len(q) : b[i] = q[i]
    BY <2>5, <2>6, AppendProperties
  <2> HIDE DEF b
  <2>8. Len(b) <= t.savelines /\ Len(b) <= Len(t.scrollback) + 1 /\ Len(b) \in Nat
    <3>1. full => Len(q) = Len(t.scrollback) - 1
      BY <2>6
    <3>2. ~full => Len(q) = Len(t.scrollback)
      BY <2>6
    <3> QED BY <1>1, <2>6, <2>7, <3>1, <3>2
  <2>9. ASSUME AtTop(t) PROVE AtTop(u)
    <3>1. t.disptop < 0 /\ t.disptop <= -Len(t.scrollback)
      BY <2>2, <2>4, <2>9 DEF AtTop
    <3>2. d < 0 /\ d <= -Len(b)
      BY <1>1, <2>8, <3>1
    <3> HIDE DEF d
    <3> QED BY <2>1, <2>4, <3>2 DEF AtTop
  <2>10. ASSUME Looking(t), ~AtTop(u) PROVE Looking(u) /\ Screen!TopLine(u) = Screen!TopLine(t)
    <3>1. t.disptop < 0
      BY <1>1, <2>3, <2>10 DEF Looking
    <3>2. d \in Int /\ d < 0
      BY <1>1, <3>1
    <3>3. Looking(u) /\ d > -Len(b)
      <4> HIDE DEF d
      <4> QED BY <2>1, <2>3, <2>4, <2>8, <2>10, <3>2 DEF Looking, AtTop
    <3>4. d = t.disptop - 1
      BY <1>1, <2>8, <3>1, <3>3
    <3>5. Screen!TopLine(u) = b[d + Len(b) + 1] /\
            Screen!TopLine(t) = t.scrollback[t.disptop + Len(t.scrollback) + 1]
      BY <1>2, <2>1, <2>4, <2>10, <3>3, TopLineIs
    <3> DEFINE i == d + Len(b) + 1
    <3>6. Len(b) = Len(q) + 1 /\ Len(q) \in Nat /\ Len(b) \in Nat
      BY <2>6, <2>7
    <3> HIDE DEF d
    <3>7. i \in 1 .. Len(q)
      BY <1>1, <3>1, <3>2, <3>3, <3>4, <3>6
    <3>8. CASE full
      <4>1. Len(q) = Len(t.scrollback) - 1
        BY <2>6, <3>8
      <4>2. t.disptop + Len(t.scrollback) + 1 = i + 1
        BY <1>1, <3>2, <3>4, <3>6, <4>1
      <4> HIDE DEF i
      <4>3. b[i] = q[i] /\ q[i] = t.scrollback[i + 1]
        BY <2>6, <2>7, <3>7, <3>8
      <4> QED BY <3>3, <3>5, <4>2, <4>3 DEF i
    <3>9. CASE ~full
      <4>1. q = t.scrollback
        BY <2>6, <3>9
      <4>2. t.disptop + Len(t.scrollback) + 1 = i
        <5>1. Len(q) = Len(t.scrollback)
          BY <4>1
        <5>2. t.disptop \in Int /\ Len(t.scrollback) \in Nat
          BY <1>1
        <5> QED BY <3>2, <3>4, <3>6, <5>1, <5>2
      <4> HIDE DEF i
      <4>3. b[i] = q[i]
        BY <2>7, <3>7
      <4> QED BY <3>3, <3>5, <4>1, <4>2, <4>3 DEF i
    <3> QED BY <3>8, <3>9
  <2>11. Follows(t, u)
    BY <2>1, <2>9, <2>10 DEF Follows, Looks
  <2> QED BY <2>11 DEF u
<1> QED BY <1>3, <1>4

\* So the view follows a round of scroll().
LEMMA RoundFollows ==
    ASSUME NEW t, Sized(t), NEW top \in Nat, NEW bot \in Nat, top <= bot, bot < t.rows,
           NEW down \in BOOLEAN, NEW sb \in BOOLEAN
    PROVE  Follows(t, Screen!Round(t, top, bot, down, sb))
<1>1. Follows(t, Screen!ScrollDown(t, top, bot)) /\ Follows(t, Screen!ScrollUp(t, top, bot, sb))
  BY ScrollDownFollows, ScrollUpFollows
<1> QED BY <1>1 DEF Screen!Round

\* It follows any number of rounds.
LEMMA RoundsFollow ==
    ASSUME NEW t, Sized(t), NEW top \in Nat, NEW bot \in Nat, top <= bot, bot < t.rows,
           NEW n \in Nat, NEW down \in BOOLEAN, NEW sb \in BOOLEAN
    PROVE  Follows(t, Screen!Rounds(t, top, bot, n, down, sb))
<1>1. PICK f : Course(f, t, top, bot, n, down, sb) /\ Screen!Rounds(t, top, bot, n, down,
        sb) = f[n]
  BY RoundsAre
<1>2. f = [i \in 0 .. n |-> IF i = 0 THEN t ELSE Screen!Round(f[i - 1], top, bot, down, sb)]
  BY <1>1 DEF Course
<1> DEFINE S == {i \in Nat : i <= n => Keeps(t, f[i]) /\ Follows(t, f[i])}
<1>3. 0 \in S
  <2>1. f[0] = t
    BY <1>2
  <2> QED BY <2>1, KeepsItself, FollowsAlike
<1>4. ASSUME NEW i \in S PROVE i + 1 \in S
  <2> SUFFICES ASSUME i + 1 <= n PROVE Keeps(t, f[i + 1]) /\ Follows(t, f[i + 1])
    OBVIOUS
  <2>1. i + 1 \in 0 .. n /\ (i + 1) - 1 = i /\ i + 1 # 0 /\ i <= n
    OBVIOUS
  <2>2. Keeps(t, f[i]) /\ Follows(t, f[i])
    BY <2>1
  <2>3. f[i + 1] = Screen!Round(f[i], top, bot, down, sb)
    BY <1>2, <2>1
  <2>4. Sized(f[i]) /\ bot < f[i].rows
    BY <2>2 DEF Keeps, Like
  <2>5. Keeps(f[i], f[i + 1])
    BY <2>3, <2>4, RoundKeeps
  <2>6. Follows(f[i], f[i + 1])
    BY <2>3, <2>4, RoundFollows
  <2> QED BY <2>2, <2>5, <2>6, KeepsThrough, FollowsThrough
<1> HIDE DEF S
<1>5. S = Nat
  <2>1. S \in SUBSET Nat
    BY DEF S
  <2> QED BY <1>3, <1>4, <2>1, NatSetInduction
<1>6. Follows(t, f[n])
  BY <1>5 DEF S
<1> QED BY <1>1, <1>6

\* It follows scroll().
LEMMA ScrollFollows ==
    ASSUME NEW t, Sized(t), NEW top \in Nat, NEW bot \in Nat, top <= bot, bot < t.rows,
           NEW lines \in Int, NEW sb \in BOOLEAN
    PROVE  Follows(t, Screen!scroll(t, top, bot, lines, sb))
<1> DEFINE size == bot - top + 1
           n == IF lines < 0 THEN -lines ELSE lines
           m == IF n > size THEN size ELSE n
           down == lines < 0
<1>1. m \in Nat /\ down \in BOOLEAN
  OBVIOUS
<1>2. Screen!scroll(t, top, bot, lines, sb) = Screen!Rounds(t, top, bot, m, down, sb)
  BY DEF Screen!scroll
<1> HIDE DEF m, down
<1>3. Follows(t, Screen!Rounds(t, top, bot, m, down, sb))
  BY <1>1, RoundsFollow
<1> QED BY <1>2, <1>3

\* A swap shows the other screen and keeps this one, and the view stays where it is
\* in the scrollback: it moves with the lines that go and come (swap_screen).
LEMMA SwapLooks ==
    ASSUME NEW t, Sized(t), NEW which \in BOOLEAN
    PROVE  LET u == Screen!swap_screen(t, which, FALSE) IN
           /\ Looks(t, u)
           /\ IF which = t.alt_which THEN u = t
              ELSE u.screen = t.alt_screen /\ u.alt_screen = t.screen
<1> DEFINE u == Screen!Swapped(t, which)
           n == Screen!NonEmpty(t.screen)
           away == Away(t)
           d == Brought(t, away, n)
<1>1. /\ which # t.alt_which => Screen!swap_screen(t, which, FALSE) = u
      /\ which = t.alt_which => Screen!swap_screen(t, which, FALSE) = t
  <2> HIDE DEF u
  <2> QED BY DEF Screen!swap_screen, u
<1>2. Looks(t, t)
  BY FollowsAlike DEF Follows
<1>3. CASE which = t.alt_which
  BY <1>1, <1>2, <1>3
<1>4. CASE which # t.alt_which
  <2>1. /\ n \in Nat /\ away \in Int
        /\ u.screen = t.alt_screen /\ u.alt_screen = t.screen /\ u.alt_which = which /\
             u.alt_sblines = n
        /\ u.scrollback = t.scrollback
        /\ u.disptop = (IF t.erase_to_scrollback /\ which /\ away < 0 THEN d ELSE away)
        /\ u.erase_to_scrollback = t.erase_to_scrollback
    BY SwappedIs
  <2>2. Sized(u)
    <3>1. Swaps(t, Screen!swap_screen(t, which, FALSE), which)
      BY SwapKeeps
    <3> HIDE DEF u
    <3> QED BY <1>1, <1>4, <3>1 DEF Swaps
  <2> HIDE DEF u, n
  <2>3. /\ Screen!Virtual(t) \in Nat /\ Len(t.scrollback) \in Nat /\ t.disptop \in Int /\
             t.alt_sblines \in Nat
        /\ t.alt_which \in BOOLEAN /\ Screen!sblines(t) = Len(t.scrollback) + Screen!Virtual(t)
    BY VirtualIs DEF Sized, Terminal
  <2>4. Screen!sblines(u) = Len(t.scrollback) + Screen!Virtual(u) /\ Screen!Virtual(u) \in Nat
    BY <2>1, <2>2, VirtualIs
  <2>5. ASSUME Looking(t)
        PROVE  \/ Looking(u) /\ u.disptop + Screen!Virtual(u) = t.disptop + Screen!Virtual(t)
               \/ AtTop(u)
    <3>1. t.disptop < -Screen!Virtual(t) /\ t.disptop < 0
      BY <2>3, <2>5 DEF Looking
    <3>2. CASE ~t.erase_to_scrollback
      <4>1. Screen!Virtual(t) = 0 /\ Screen!Virtual(u) = 0
        BY <2>1, <3>2 DEF Screen!Virtual
      <4>2. u.disptop = t.disptop
        <5>1. away = t.disptop
          BY <3>2 DEF Away
        <5> HIDE DEF d, away
        <5> QED BY <2>1, <3>2, <5>1
      <4> QED BY <2>3, <3>1, <4>1, <4>2 DEF Looking
    <3>3. CASE t.erase_to_scrollback /\ which
      <4>1. ~t.alt_which
        BY <1>4, <2>3, <3>3
      <4>2. Screen!Virtual(t) = 0 /\ Screen!Virtual(u) = n
        BY <2>1, <3>3, <4>1 DEF Screen!Virtual
      <4>3. away = t.disptop
        BY <4>1 DEF Away
      <4> HIDE DEF away
      <4>4. u.disptop = d
        BY <2>1, <3>1, <3>3, <4>3
      <4>5. \/ d = t.disptop - n /\ t.disptop - n >= -(Len(t.scrollback) + n)
            \/ d = -(Len(t.scrollback) + n) /\ t.disptop - n < -(Len(t.scrollback) + n)
        BY <2>1, <2>3, <4>3 DEF Brought
      <4> HIDE DEF d
      <4>6. CASE d = t.disptop - n /\ t.disptop - n >= -(Len(t.scrollback) + n)
        BY <2>1, <2>3, <3>1, <4>2, <4>4, <4>6 DEF Looking
      <4>7. CASE d = -(Len(t.scrollback) + n) /\ t.disptop - n < -(Len(t.scrollback) + n)
        BY <2>1, <2>4, <3>3, <4>2, <4>4, <4>7 DEF AtTop
      <4> QED BY <4>5, <4>6, <4>7
    <3>4. CASE t.erase_to_scrollback /\ ~which
      <4>1. t.alt_which
        BY <1>4, <2>3, <3>4
      <4>2. Screen!Virtual(t) = t.alt_sblines /\ Screen!Virtual(u) = 0
        BY <2>1, <3>4, <4>1 DEF Screen!Virtual
      <4>3. away = t.disptop + t.alt_sblines
        BY <2>3, <3>1, <3>4, <4>1, <4>2 DEF Away
      <4> HIDE DEF d, away
      <4>4. u.disptop = away
        BY <2>1, <3>4
      <4> QED BY <2>3, <3>1, <4>2, <4>3, <4>4 DEF Looking
    <3> QED BY <3>2, <3>3, <3>4
  <2> HIDE DEF d, away
  <2>6. Looks(t, u)
    <3> SUFFICES ASSUME Looking(t), ~AtTop(u) PROVE Looking(u) /\
                          Screen!TopLine(u) = Screen!TopLine(t)
      BY DEF Looks
    <3>1. Looking(u) /\ u.disptop + Screen!Virtual(u) = t.disptop + Screen!Virtual(t)
      BY <2>5
    <3>2. u.disptop \in Int /\ Screen!sblines(u) \in Int
      <4>1. u.disptop \in Int
        BY <2>2, VirtualIs
      <4> QED BY <2>3, <2>4, <4>1
    <3>3. t.disptop + Screen!sblines(t) + 1 = u.disptop + Screen!sblines(u) + 1
      <4> DEFINE a == t.disptop
                 b == u.disptop
                 x == Screen!Virtual(t)
                 y == Screen!Virtual(u)
                 l == Len(t.scrollback)
      <4>1. a \in Int /\ b \in Int /\ x \in Int /\ y \in Int /\ l \in Int /\ b + y = a + x
        BY <2>3, <2>4, <3>1, <3>2
      <4>2. Screen!sblines(t) = l + x /\ Screen!sblines(u) = l + y
        BY <2>3, <2>4
      <4> HIDE DEF a, b, x, y, l
      <4>3. a + (l + x) + 1 = b + (l + y) + 1
        BY <4>1
      <4> QED BY <4>2, <4>3 DEF a, b
    <3>4. Screen!TopLine(t) = t.scrollback[t.disptop + Screen!sblines(t) + 1] /\
            Screen!TopLine(u) = u.scrollback[u.disptop + Screen!sblines(u) + 1]
      BY <2>2, <3>1, TopLineIs
    <3> QED BY <2>1, <3>1, <3>3, <3>4
  <2> QED BY <1>1, <1>4, <2>1, <2>6
<1> QED BY <1>3, <1>4

\* The view follows erase_lots of the whole screen.
LEMMA EraseFollows ==
    ASSUME NEW t, Sized(t)
    PROVE  Follows(t, Screen!EraseScreen(t))
<1> DEFINE s == Screen!check_selection(t, 0, t.rows)
           n == Screen!NonEmpty(s.screen)
           b == [s EXCEPT !.screen = Screen!Blanks(s.rows)]
           c == Screen!scroll(s, 0, n - 1, n, TRUE)
           e == IF ~s.erase_to_scrollback THEN b ELSE IF n > 0 THEN c ELSE s
           u == [e EXCEPT !.tempsblines = 0]
<1>1. Follows(t, s) /\ Sized(s) /\ s \in Terminal /\ s.rows \in Nat /\ s.rows > 0
  <2>1. Keeps(t, s) /\ Follows(t, s)
    BY Checked, CheckedFollows
  <2> HIDE DEF s
  <2> QED BY <2>1 DEF Keeps, Sized, Terminal
<1>2. n \in 0 .. s.rows
  <2>1. s.screen \in Seq(AllLines) /\ Len(s.screen) = s.rows
    BY <1>1 DEF Sized, Terminal
  <2> QED BY <2>1, NonEmptyIs
<1>3. Screen!EraseScreen(t) = IF t.alt_which THEN e ELSE u
  BY DEF Screen!EraseScreen
<1> HIDE DEF s, n
<1>4. Follows(s, b) /\ Sized(b)
  <2>1. Screen!Blanks(s.rows) \in Seq(AllLines) /\ Len(Screen!Blanks(s.rows)) = s.rows
    BY <1>1, BlanksAre
  <2>2. Sized(b)
    BY <1>1, <2>1, Written DEF Keeps
  <2>3. /\ b.alt_screen = s.alt_screen /\ b.alt_which = s.alt_which /\
             b.alt_sblines = s.alt_sblines
        /\ b.scrollback = s.scrollback /\ b.disptop = s.disptop
        /\ b.erase_to_scrollback = s.erase_to_scrollback
    BY <1>1 DEF Terminal
  <2> HIDE DEF b
  <2> QED BY <1>1, <2>2, <2>3, FollowsAlike
<1>5. n > 0 => Follows(s, c) /\ Sized(c)
  <2> SUFFICES ASSUME n > 0 PROVE Follows(s, c) /\ Sized(c)
    OBVIOUS
  <2>1. 0 \in Nat /\ n - 1 \in Nat /\ 0 <= n - 1 /\ n - 1 < s.rows /\ n \in Int /\
          TRUE \in BOOLEAN
    BY <1>1, <1>2
  <2>2. Keeps(s, c) /\ Follows(s, c)
    BY <1>1, <2>1, ScrollKeeps, ScrollFollows
  <2> HIDE DEF c
  <2> QED BY <2>2 DEF Keeps
<1>6. Follows(s, s)
  BY <1>1, FollowsAlike
<1> HIDE DEF b, c
<1>7. Follows(s, e) /\ Sized(e)
  BY <1>1, <1>4, <1>5, <1>6
<1> HIDE DEF e
<1>8. Follows(t, e)
  BY <1>1, <1>7, FollowsThrough
<1>9. Follows(e, u)
  <2>1. e \in Terminal /\ Len(e.scrollback) \in Nat
    BY <1>7, LenProperties DEF Sized, Terminal
  <2>2. /\ u \in Terminal /\ u.rows = e.rows /\ u.screen = e.screen
        /\ u.alt_screen = e.alt_screen /\ u.alt_which = e.alt_which /\
             u.alt_sblines = e.alt_sblines
        /\ u.scrollback = e.scrollback /\ u.tempsblines = 0 /\ u.savelines = e.savelines
        /\ u.disptop = e.disptop /\ u.erase_to_scrollback = e.erase_to_scrollback
    BY <2>1 DEF Terminal
  <2> HIDE DEF u
  <2>3. Sized(u)
    BY <1>7, <2>1, <2>2 DEF Sized
  <2> QED BY <1>7, <2>2, <2>3, FollowsAlike
<1> HIDE DEF u
<1>10. Follows(t, u)
  BY <1>8, <1>9, FollowsThrough
<1> QED BY <1>3, <1>8, <1>10

\* It follows lines that are written.
LEMMA WrittenFollows ==
    ASSUME NEW t, Sized(t), NEW q \in Seq(AllLines), Len(q) = t.rows
    PROVE  Follows(t, [t EXCEPT !.screen = q])
<1> DEFINE u == [t EXCEPT !.screen = q]
<1>1. Sized(u)
  BY Written DEF Keeps
<1>2. /\ u.alt_screen = t.alt_screen /\ u.alt_which = t.alt_which /\
           u.alt_sblines = t.alt_sblines
      /\ u.scrollback = t.scrollback /\ u.disptop = t.disptop
      /\ u.erase_to_scrollback = t.erase_to_scrollback
  BY DEF Sized, Terminal
<1> HIDE DEF u
<1>3. Follows(t, u)
  BY <1>1, <1>2, FollowsAlike
<1> QED BY <1>3 DEF u

\* It follows the check of the selection that ends a character.
LEMMA TouchedFollows ==
    ASSUME NEW t, Sized(t), NEW y, NEW u \in Screen!Touched(t, y)
    PROVE  Follows(t, u) /\ u.screen = t.screen
<1>1. u = t \/ u = Screen!check_selection(t, y, y + 1)
  BY DEF Screen!Touched
<1>2. Follows(t, Screen!check_selection(t, y, y + 1)) /\ Follows(t, t)
  BY CheckedFollows, FollowsAlike
<1>3. Screen!deselect(t).screen = t.screen
  BY DEF Screen!deselect, Sized, Terminal
<1> QED BY <1>1, <1>2, <1>3 DEF Screen!check_selection

-----------------------------------------------------------------------------
\* While the alternate screen is shown, the main one is what it was.
KeptInv == term.alt_which /\ kept # <<>> => term.alt_screen = kept

\* The main screen comes back as it was.
KeptStep == event'.kind = "swap" /\ term.alt_which /\ ~term'.alt_which /\ kept # <<>> =>
  term'.screen = kept

\* A step of the terminal is good for the view and for the main screen.
StepKeeps == Screen!ViewStep /\ KeptStep /\ KeptInv'

\* The reset of the view with a change of the display changes nothing else.
LEMMA ShownIs ==
    ASSUME NEW t, Sized(t)
    PROVE  LET u == Screen!Shown(t) IN
           /\ Sized(u) /\ u.alt_which = t.alt_which /\ u.alt_screen = t.alt_screen /\
                u.screen = t.screen
           /\ ~profile.ondisp => u = t
<1> DEFINE u == Screen!Shown(t)
           b == [t EXCEPT !.disptop = 0]
<1>1. Sized(u)
  BY ShownKeeps DEF Keeps
<1>2. u = IF profile.ondisp THEN b ELSE t
  BY DEF Screen!Shown
<1>3. b.alt_which = t.alt_which /\ b.alt_screen = t.alt_screen /\ b.screen = t.screen
  BY DEF Sized, Terminal
<1> HIDE DEF u, b
<1>4. u.alt_which = t.alt_which /\ u.alt_screen = t.alt_screen /\ u.screen = t.screen
  BY <1>2, <1>3
<1> QED BY <1>1, <1>2, <1>4 DEF u

\* A view that is kept and then followed is kept.
LEMMA LooksOn ==
    ASSUME NEW t, NEW u, NEW v, Looks(t, u), Follows(u, v) PROVE Looks(t, v)
BY DEF Follows, Looks

\* A step that keeps the view is what ViewKeeps asks for.
LEMMA LooksAt ==
    ASSUME Sized(term), Sized(term'), ~profile.ondisp => Looks(term, term')
    PROVE  Screen!ViewStep
<1> SUFFICES ASSUME ~profile.ondisp, term.disptop < -Screen!Virtual(term),
                      term'.disptop > -Screen!sblines(term')
             PROVE  Screen!TopLine(term') = Screen!TopLine(term)
  BY DEF Screen!ViewStep
<1>1. Looks(term, term') /\ Looking(term)
  BY DEF Looking
<1>2. term'.disptop \in Int /\ Screen!sblines(term') \in Int
  <2>1. /\ Screen!Virtual(term') \in Nat /\ Len(term'.scrollback) \in Nat /\
             term'.disptop \in Int
        /\ Screen!sblines(term') = Len(term'.scrollback) + Screen!Virtual(term')
    BY VirtualIs
  <2> QED BY <2>1
<1>3. ~AtTop(term')
  BY <1>2 DEF AtTop
<1> QED BY <1>1, <1>3 DEF Looks

\* A step of the host that the view follows keeps it, and the main screen.
LEMMA HostFollows ==
    ASSUME ScreenInv, KeptInv, NEW t, Keeps(term, t), Follows(term, t),
           NEW s, s = t \/ s = Screen!Shown(t), NEW y, Screen!Host(s, y)
    PROVE  StepKeeps
<1>1. Sized(term) /\ Sized(t)
  BY DEF ScreenInv, Keeps
<1>2. /\ Sized(s) /\ s.alt_which = t.alt_which /\ s.alt_screen = t.alt_screen
      /\ ~profile.ondisp => s = t
  BY <1>1, ShownIs
<1>3. term' \in Screen!Touched(s, y) /\ event'.kind = "output" /\ kept' = kept
  BY DEF Screen!Host, Screen!Event
<1>4. Follows(s, term') /\ Sized(term')
  BY <1>2, <1>3, TouchedFollows, TouchedKeeps, KeepsItself DEF Keeps
<1>5. Screen!ViewStep
  <2>1. ~profile.ondisp => Follows(term, term')
    BY <1>2, <1>4, FollowsThrough
  <2> QED BY <1>1, <1>4, <2>1, LooksAt DEF Follows
<1>6. KeptInv'
  BY <1>2, <1>3, <1>4 DEF KeptInv, Follows
<1> QED BY <1>3, <1>5, <1>6 DEF StepKeeps, KeptStep

\* So does a step of the user that does not touch the main screen, or after which
\* there is none to come back.
LEMMA OtherStep ==
    ASSUME event'.kind \notin {"output", "swap"},
           \/ kept' = <<>>
           \/ KeptInv /\ kept' = kept /\ term'.alt_which = term.alt_which /\
                term'.alt_screen = term.alt_screen
    PROVE  StepKeeps
BY DEF StepKeeps, Screen!ViewStep, KeptStep, KeptInv

\* A line is written.
LEMMA WriteFollows == ASSUME ScreenInv, KeptInv, Screen!ScreenAssumption,
  Screen!Write PROVE StepKeeps
<1>1. PICK y \in Screen!Rows,
        line \in profile.texts \union {Blank} : Screen!Host([term EXCEPT !.screen[y + 1] = line], y)
  BY DEF Screen!Write
<1>2. Sized(term) /\ term \in Terminal /\ term.rows \in Nat /\ y \in 0 .. term.rows - 1
  BY <1>1, RowsAre
<1>3. line \in AllLines
  <2>1. profile.texts \in SUBSET Texts
    BY DEF ScreenInv, Screen!ScreenAssumption, Screen!ProfileType
  <2> QED BY <1>1, <2>1 DEF AllLines
<1> DEFINE q == [term.screen EXCEPT ![y + 1] = line]
<1>4. q \in Seq(AllLines) /\ Len(q) = term.rows
  <2>1. term.screen \in Seq(AllLines) /\ Len(term.screen) = term.rows
    BY <1>2 DEF Sized, Terminal
  <2>2. y + 1 \in 1 .. Len(term.screen)
    BY <1>2, <2>1
  <2> QED BY <1>3, <2>1, <2>2, ExceptSeq
<1>5. [term EXCEPT !.screen[y + 1] = line] = [term EXCEPT !.screen = q]
  OBVIOUS
<1> HIDE DEF q
<1>6. Keeps(term, [term EXCEPT !.screen = q]) /\ Follows(term, [term EXCEPT !.screen = q])
  BY <1>2, <1>4, Written, WrittenFollows
<1> QED BY <1>1, <1>5, <1>6, HostFollows

\* A region is scrolled.
LEMMA ScrollingFollows == ASSUME ScreenInv, KeptInv, Screen!Scroll PROVE StepKeeps
<1>1. PICK r \in Screen!Regions, n \in 1 .. term.rows, y \in Screen!Rows :
          Screen!Host(Screen!scroll(term, r[1], r[2], n, TRUE), y) \/
            Screen!Host(Screen!scroll(term, r[1], r[2], -n, TRUE), y)
  BY DEF Screen!Scroll
<1>2. /\ Sized(term) /\ r[1] \in Nat /\ r[2] \in Nat /\ r[1] <= r[2] /\ r[2] < term.rows
      /\ n \in Int /\ -n \in Int /\ TRUE \in BOOLEAN
  BY <1>1, RowsAre
<1> DEFINE u == Screen!scroll(term, r[1], r[2], n, TRUE)
           d == Screen!scroll(term, r[1], r[2], -n, TRUE)
<1>3. Keeps(term, u) /\ Keeps(term, d)
  BY <1>2, ScrollKeeps
<1>4. Follows(term, u) /\ Follows(term, d)
  BY <1>2, ScrollFollows
<1>5. Screen!Host(u, y) \/ Screen!Host(d, y)
  BY <1>1
<1> HIDE DEF u, d
<1> QED BY <1>3, <1>4, <1>5, HostFollows

\* Lines are inserted or deleted.
LEMMA InsertDeleteFollows == ASSUME ScreenInv, KeptInv, Screen!InsertDelete PROVE StepKeeps
<1>1. PICK r \in Screen!Regions, n \in 1 .. term.rows, y \in Screen!Rows :
          y <= r[2] /\ (Screen!Host(Screen!scroll(term, y, r[2], -n, FALSE), y) \/
            Screen!Host(Screen!scroll(term, y, r[2], n, TRUE), y))
  BY DEF Screen!InsertDelete
<1>2. /\ Sized(term) /\ r[2] \in Nat /\ r[2] < term.rows /\ y \in 0 .. term.rows - 1 /\
           term.rows \in Nat
      /\ n \in Int /\ -n \in Int /\ TRUE \in BOOLEAN /\ FALSE \in BOOLEAN
  BY <1>1, RowsAre
<1>3. y \in Nat /\ y <= r[2]
  BY <1>1, <1>2
<1> DEFINE d == Screen!scroll(term, y, r[2], -n, FALSE)
           u == Screen!scroll(term, y, r[2], n, TRUE)
<1>4. Keeps(term, u) /\ Keeps(term, d)
  BY <1>2, <1>3, ScrollKeeps
<1>5. Follows(term, u) /\ Follows(term, d)
  BY <1>2, <1>3, ScrollFollows
<1>6. Screen!Host(d, y) \/ Screen!Host(u, y)
  BY <1>1
<1> HIDE DEF u, d
<1> QED BY <1>4, <1>5, <1>6, HostFollows

\* Some lines of a screen are cleared, and the view may be reset.
LEMMA ClearedFollows ==
    ASSUME ScreenInv, KeptInv, NEW a, NEW b, NEW q \in Seq(AllLines), Len(q) = term.rows, NEW y,
           Screen!Host(Screen!Shown([Screen!check_selection(term, a, b) EXCEPT !.screen = q]),
             y)
    PROVE  StepKeeps
<1> DEFINE s == Screen!check_selection(term, a, b)
           u == [s EXCEPT !.screen = q]
<1>1. Keeps(term, s) /\ Follows(term, s)
  BY RowsAre, Checked, CheckedFollows
<1>2. Screen!Host(Screen!Shown(u), y)
  OBVIOUS
<1> HIDE DEF s
<1>3. Sized(s) /\ s.rows = term.rows
  BY <1>1 DEF Keeps, Like
<1>4. Keeps(s, u) /\ Follows(s, u)
  BY <1>3, Written, WrittenFollows
<1> HIDE DEF u
<1>5. Keeps(term, u) /\ Follows(term, u)
  BY <1>1, <1>4, KeepsThrough, FollowsThrough
<1> QED BY <1>2, <1>5, HostFollows

\* The lines below the cursor are erased.
LEMMA EraseBelowFollows == ASSUME ScreenInv, KeptInv, Screen!EraseBelow PROVE StepKeeps
<1> DEFINE c(y) == Screen!check_selection(term, y + 1, term.rows)
           q(y) == [i \in 1 .. term.rows |-> IF i > y + 1 THEN Blank ELSE c(y).screen[i]]
<1>1. PICK y \in Screen!Rows : Screen!Host(Screen!Shown([c(y) EXCEPT !.screen = q(y)]), y)
  BY DEF Screen!EraseBelow
<1>2. Sized(term) /\ term.rows \in Nat
  BY RowsAre
<1>3. Keeps(term, c(y))
  BY <1>2, Checked
<1>4. q(y) \in Seq(AllLines) /\ Len(q(y)) = term.rows
  <2>1. c(y).screen \in Seq(AllLines) /\ Len(c(y).screen) = term.rows
    BY <1>3 DEF Keeps, Like, Sized, Terminal
  <2> HIDE DEF c
  <2>2. \A i \in 1 .. term.rows : c(y).screen[i] \in AllLines
    BY <2>1, LenProperties
  <2>3. Blank \in AllLines
    BY DEF AllLines
  <2> QED BY <1>2, <2>2, <2>3
<1> HIDE DEF q
<1> QED BY <1>1, <1>4, ClearedFollows

\* The lines above the cursor are erased.
LEMMA EraseAboveFollows == ASSUME ScreenInv, KeptInv, Screen!EraseAbove PROVE StepKeeps
<1> DEFINE c(y) == Screen!check_selection(term, 0, y + 1)
           q(y) == [i \in 1 .. term.rows |-> IF i < y + 1 THEN Blank ELSE c(y).screen[i]]
<1>1. PICK y \in Screen!Rows : Screen!Host(Screen!Shown([c(y) EXCEPT !.screen = q(y)]), y)
  BY DEF Screen!EraseAbove
<1>2. Sized(term) /\ term.rows \in Nat
  BY RowsAre
<1>3. Keeps(term, c(y))
  BY <1>2, Checked
<1>4. q(y) \in Seq(AllLines) /\ Len(q(y)) = term.rows
  <2>1. c(y).screen \in Seq(AllLines) /\ Len(c(y).screen) = term.rows
    BY <1>3 DEF Keeps, Like, Sized, Terminal
  <2> HIDE DEF c
  <2>2. \A i \in 1 .. term.rows : c(y).screen[i] \in AllLines
    BY <2>1, LenProperties
  <2>3. Blank \in AllLines
    BY DEF AllLines
  <2> QED BY <1>2, <2>2, <2>3
<1> HIDE DEF q
<1> QED BY <1>1, <1>4, ClearedFollows

\* The screen is erased.
LEMMA ErasingFollows == ASSUME ScreenInv, KeptInv, Screen!Erase PROVE StepKeeps
<1>1. PICK y \in Screen!Rows : Screen!Host(Screen!Shown(Screen!EraseScreen(term)), y)
  BY DEF Screen!Erase
<1>2. Keeps(term, Screen!EraseScreen(term)) /\ Follows(term, Screen!EraseScreen(term))
  BY RowsAre, EraseKeeps, EraseFollows
<1> QED BY <1>1, <1>2, HostFollows

\* The host swaps the screens: the main one that comes back is the one that went.
LEMMA SwapScreensFollows == ASSUME ScreenInv, KeptInv, Screen!SwapScreens PROVE StepKeeps
<1> DEFINE d == Screen!deselect(term)
           which(state) == state /\ ~term.no_alt_screen
<1>1. PICK state \in BOOLEAN, reset \in BOOLEAN, y \in Screen!Rows :
          /\ term' \in Screen!Touched(Screen!Shown(Screen!swap_screen(d, which(state), reset)),
               y)
          /\ kept' = IF ~which(state) THEN <<>> ELSE IF term.alt_which THEN kept ELSE term.screen
          /\ event' = Screen!Event("swap", 0)
  BY DEF Screen!SwapScreens
<1> DEFINE w == which(state)
           s == Screen!swap_screen(d, w, FALSE)
           u == Screen!swap_screen(d, w, reset)
           v == Screen!Shown(u)
<1>2. Sized(term) /\ term \in Terminal
  BY RowsAre
<1>3. Sized(d) /\ w \in BOOLEAN
  BY <1>2, Deselected DEF Keeps, Terminal
<1>4. /\ d.alt_which = term.alt_which /\ d.alt_screen = term.alt_screen /\
           d.screen = term.screen
      /\ Looking(term) => Looking(d) /\ Screen!TopLine(d) = Screen!TopLine(term)
  BY <1>2, DeselectedFollows DEF Follows
<1> HIDE DEF d
<1>5. term' \in Screen!Touched(v, y) /\
        kept' = (IF ~w THEN <<>> ELSE IF term.alt_which THEN kept ELSE term.screen)
      /\ event'.kind = "swap"
  BY <1>1 DEF Screen!Event
<1> HIDE DEF w
<1>6. /\ Sized(s) /\ s.alt_which = w /\ Looks(d, s)
      /\ IF w = d.alt_which THEN s = d ELSE s.screen = d.alt_screen /\ s.alt_screen = d.screen
  <2>1. Swaps(d, s, w)
    BY <1>3, SwapKeeps
  <2>2. /\ Looks(d, s)
        /\ IF w = d.alt_which THEN s = d ELSE s.screen = d.alt_screen /\ s.alt_screen = d.screen
    BY <1>3, SwapLooks
  <2> HIDE DEF s
  <2> QED BY <2>1, <2>2 DEF Swaps
<1>7. u = IF reset /\ w THEN Screen!EraseScreen(s) ELSE s
  BY DEF Screen!swap_screen
<1>8. Sized(u) /\ Follows(s, u)
  <2>1. Sized(Screen!EraseScreen(s)) /\ Follows(s, Screen!EraseScreen(s)) /\ Follows(s, s)
    <3> HIDE DEF s
    <3> QED BY <1>6, EraseKeeps, EraseFollows, FollowsAlike DEF Keeps
  <2> HIDE DEF s, u
  <2> QED BY <1>6, <1>7, <2>1
<1> HIDE DEF s, u
<1>9. /\ Sized(v) /\ v.alt_which = u.alt_which /\ v.alt_screen = u.alt_screen /\
           v.screen = u.screen
      /\ ~profile.ondisp => v = u
  BY <1>8, ShownIs
<1> HIDE DEF v
<1>10. Follows(v, term') /\ term'.screen = v.screen /\ Sized(term')
  BY <1>5, <1>9, TouchedFollows, TouchedKeeps, KeepsItself DEF Keeps
<1>11. Screen!ViewStep
  <2>1. ~profile.ondisp => Looks(d, term')
    BY <1>6, <1>8, <1>9, <1>10, LooksOn
  <2>2. ~profile.ondisp => Looks(term, term')
    BY <1>4, <2>1 DEF Looks
  <2> QED BY <1>2, <1>10, <2>2, LooksAt
<1>12. term'.alt_which = w /\ term'.alt_screen = s.alt_screen
  BY <1>6, <1>8, <1>9, <1>10 DEF Follows
<1>13. KeptStep
  <2> SUFFICES ASSUME term.alt_which, ~term'.alt_which, kept # <<>> PROVE term'.screen = kept
    BY DEF KeptStep
  <2>1. ~w /\ w # d.alt_which
    BY <1>4, <1>12
  <2>2. term'.screen = s.screen
    BY <1>7, <1>9, <1>10, <2>1
  <2>3. s.screen = term.alt_screen
    BY <1>4, <1>6, <2>1
  <2> QED BY <2>2, <2>3 DEF KeptInv
<1>14. KeptInv'
  <2> SUFFICES ASSUME w, kept' # <<>> PROVE term'.alt_screen = kept'
    BY <1>12 DEF KeptInv
  <2>1. CASE term.alt_which
    <3>1. s = d /\ kept' = kept
      <4>1. term.alt_which \in BOOLEAN
        BY <1>2 DEF Terminal
      <4> QED BY <1>3, <1>4, <1>5, <1>6, <2>1, <4>1
    <3> QED BY <1>4, <1>12, <2>1, <3>1 DEF KeptInv
  <2>2. CASE ~term.alt_which
    <3>1. s.alt_screen = d.screen /\ kept' = term.screen
      BY <1>4, <1>5, <1>6, <2>2
    <3> QED BY <1>4, <1>12, <3>1
  <2> QED BY <2>1, <2>2
<1> QED BY <1>11, <1>13, <1>14 DEF StepKeeps

\* The scrollback is cleared (term_clrsb).
LEMMA ClearFollows == ASSUME ScreenInv, KeptInv, Screen!term_clrsb PROVE StepKeeps
<1> DEFINE t == IF term.sel.on /\ term.sel.start < 0 THEN Screen!deselect(term) ELSE term
           u == [t EXCEPT !.disptop = 0, !.scrollback = <<>>, !.tempsblines = 0,
             !.alt_sblines = 0]
<1>1. term' = u /\ event'.kind = "clear" /\ kept' = kept
  BY DEF Screen!term_clrsb, Screen!Event
<1>2. Sized(term)
  BY RowsAre
<1>3. t \in Terminal /\ t.alt_which = term.alt_which /\ t.alt_screen = term.alt_screen
  <2>1. Keeps(term, Screen!deselect(term)) /\ Follows(term, Screen!deselect(term))
    BY <1>2, Deselected, DeselectedFollows
  <2>2. Screen!deselect(term) \in Terminal /\
          Screen!deselect(term).alt_which = term.alt_which /\
          Screen!deselect(term).alt_screen = term.alt_screen
    BY <2>1 DEF Keeps, Sized, Follows
  <2>3. term \in Terminal
    BY <1>2 DEF Sized
  <2> QED BY <2>2, <2>3
<1> HIDE DEF t
<1>4. u.alt_which = t.alt_which /\ u.alt_screen = t.alt_screen
  BY <1>3 DEF Terminal
<1> HIDE DEF u
<1>5. term'.alt_which = term.alt_which /\ term'.alt_screen = term.alt_screen
  BY <1>1, <1>3, <1>4
<1> QED BY <1>1, <1>5, OtherStep

\* The user scrolls or selects.
LEMMA ViewFollows == ASSUME ScreenInv, KeptInv, Screen!term_scroll \/
  Screen!Select PROVE StepKeeps
<1>1. term \in Terminal
  BY RowsAre
<1>2. event'.kind = "view" /\ kept' = kept
  BY DEF Screen!term_scroll, Screen!Select, Screen!Event
<1>3. CASE Screen!term_scroll
  <2>1. PICK d : term' = [term EXCEPT !.disptop = d]
    BY <1>3 DEF Screen!term_scroll
  <2>2. term'.alt_which = term.alt_which /\ term'.alt_screen = term.alt_screen
    BY <1>1, <2>1 DEF Terminal
  <2> QED BY <1>2, <2>2, OtherStep
<1>4. CASE Screen!Select
  <2>1. PICK l : term' = [term EXCEPT !.sel = l]
    BY <1>4 DEF Screen!Select
  <2>2. term'.alt_which = term.alt_which /\ term'.alt_screen = term.alt_screen
    BY <1>1, <2>1 DEF Terminal
  <2> QED BY <1>2, <2>2, OtherStep
<1> QED BY <1>3, <1>4

\* The user changes the configuration (term_reconfig).
LEMMA ReconfigFollows == ASSUME ScreenInv, KeptInv, Screen!term_reconfig PROVE StepKeeps
<1>1. PICK erase \in BOOLEAN, noalt \in BOOLEAN :
          /\ term' = [IF noalt THEN Screen!swap_screen(term, FALSE, FALSE) ELSE term
                          EXCEPT !.erase_to_scrollback = erase, !.no_alt_screen = noalt]
          /\ kept' = IF noalt THEN <<>> ELSE kept
  BY DEF Screen!term_reconfig
<1>2. event'.kind = "reconfig"
  BY DEF Screen!term_reconfig, Screen!Event
<1>3. CASE noalt
  BY <1>1, <1>2, <1>3, OtherStep
<1>4. CASE ~noalt
  <2>1. term' = [term EXCEPT !.erase_to_scrollback = erase, !.no_alt_screen = noalt] /\
          kept' = kept
    BY <1>1, <1>4
  <2>2. term \in Terminal
    BY RowsAre
  <2>3. term'.alt_which = term.alt_which /\ term'.alt_screen = term.alt_screen
    BY <2>1, <2>2 DEF Terminal
  <2> QED BY <1>2, <2>1, <2>3, OtherStep
<1> QED BY <1>3, <1>4

\* A reset and a resize end what the main screen was.
LEMMA RestFollows == ASSUME Screen!RIS \/ Screen!term_pwron \/ Screen!term_size PROVE StepKeeps
<1>1. kept' = <<>>
  BY DEF Screen!RIS, Screen!term_pwron, Screen!term_size
<1>2. event'.kind \notin {"output", "swap"}
  <2>1. CASE Screen!RIS
    BY <2>1 DEF Screen!RIS, Screen!Event
  <2>2. CASE Screen!term_pwron
    BY <2>2 DEF Screen!term_pwron, Screen!Event
  <2>3. CASE Screen!term_size
    <3>1. PICK y : event' = Screen!Event("resize", y)
      BY <2>3 DEF Screen!term_size
    <3> QED BY <3>1 DEF Screen!Event
  <2> QED BY <2>1, <2>2, <2>3
<1> QED BY <1>1, <1>2, OtherStep

\* Every step keeps the view and the main screen.
LEMMA StepsKeep == ASSUME ScreenInv, KeptInv, Screen!ScreenAssumption,
  Screen!Next PROVE StepKeeps
BY WriteFollows, ScrollingFollows, InsertDeleteFollows, EraseBelowFollows, EraseAboveFollows,
   ErasingFollows,
   SwapScreensFollows, ClearFollows, ViewFollows, ReconfigFollows, RestFollows DEF Screen!Next

-----------------------------------------------------------------------------
\* No lines, and no blank lines.
LEMMA Emptied == <<>> \in Seq(AllLines) /\ Len(<<>>) = 0 /\ Screen!Blanks(0) = <<>>
<1>1. <<>> \in Seq(AllLines) /\ Len(<<>>) = 0
  BY EmptySeq
<1>2. Screen!Blanks(0) \in Seq(AllLines) /\ Len(Screen!Blanks(0)) = 0
  BY BlanksAre
<1>3. Screen!Blanks(0) # <<>> => Len(Screen!Blanks(0)) \in Nat \ {0}
  BY <1>2, EmptySeq
<1> QED BY <1>1, <1>2, <1>3

\* Three sequences of lines, one after the other.
LEMMA Regrouped ==
    ASSUME NEW a \in Seq(AllLines), NEW b \in Seq(AllLines), NEW c \in Seq(AllLines)
    PROVE  (a \o b) \o c = a \o (b \o c)
BY ConcatAssociative

\* The middle one of three sequences is a part of the whole.
LEMMA MiddleIs ==
    ASSUME NEW a \in Seq(AllLines), NEW b \in Seq(AllLines), NEW c \in Seq(AllLines)
    PROVE  SubSeq((a \o b) \o c, Len(a) + 1, Len(a) + Len(b)) = b
<1> DEFINE p == a \o b
           q == p \o c
           m == Len(a) + 1
           n == Len(a) + Len(b)
           s == SubSeq(q, m, n)
<1>1. Len(a) \in Nat /\ Len(b) \in Nat /\ Len(c) \in Nat
  BY LenProperties
<1>2. /\ p \in Seq(AllLines) /\ Len(p) = Len(a) + Len(b)
      /\ \A i \in 1 .. Len(a) + Len(b) : p[i] = IF i <= Len(a) THEN a[i] ELSE b[i - Len(a)]
  BY ConcatProperties
<1> HIDE DEF p
<1>3. p \in Seq(AllLines)
  BY <1>2
<1>4. /\ q \in Seq(AllLines) /\ Len(q) = Len(p) + Len(c)
      /\ \A i \in 1 .. Len(p) + Len(c) : q[i] = IF i <= Len(p) THEN p[i] ELSE c[i - Len(p)]
  BY <1>3, ConcatProperties
<1> HIDE DEF q
<1>5. m \in Int /\ n \in Int /\ n - m + 1 = Len(b)
  BY <1>1
<1>6. \A i \in m .. n : q[i] \in AllLines
  <2>1. \A i \in m .. n : i \in 1 .. Len(q)
    BY <1>1, <1>2, <1>4
  <2> QED BY <1>4, <2>1, ElementOfSeq
<1>7. s \in Seq(AllLines) /\ Len(s) = Len(b) /\ \A i \in 1 .. Len(b) : s[i] = q[m + i - 1]
  <2> HIDE DEF m, n
  <2>1. /\ s \in Seq(AllLines) /\ Len(s) = (IF m <= n THEN n - m + 1 ELSE 0)
        /\ \A i \in 1 .. n - m + 1 : s[i] = q[m + i - 1]
    BY <1>5, <1>6, SubSeqProperties
  <2> HIDE DEF s
  <2> QED BY <1>1, <1>5, <2>1
<1> HIDE DEF s
<1>8. ASSUME NEW i \in 1 .. Len(s) PROVE s[i] = b[i]
  <2>1. i \in 1 .. Len(b) /\ i \in Int /\ i >= 1 /\ i <= Len(b)
    BY <1>1, <1>7, <1>8
  <2>2. s[i] = q[m + i - 1]
    BY <1>7, <2>1
  <2>3. m + i - 1 = Len(a) + i /\ Len(a) + i \in 1 .. Len(p) + Len(c) /\ Len(a) + i <= Len(p)
        /\ Len(a) + i \in 1 .. Len(a) + Len(b) /\ ~(Len(a) + i <= Len(a)) /\
             (Len(a) + i) - Len(a) = i
    BY <1>1, <1>2, <2>1
  <2>4. q[Len(a) + i] = p[Len(a) + i]
    BY <1>4, <2>3
  <2>5. p[Len(a) + i] = b[(Len(a) + i) - Len(a)]
    BY <1>2, <2>3
  <2> QED BY <2>2, <2>3, <2>4, <2>5
<1>9. s = b
  BY <1>7, <1>8, SeqEqual
<1> QED BY <1>9 DEF s, q, p

\* What the loops of term_size do with the lines of screen and scrollback: a part
\* of the scrollback comes back or a part of the screen goes there, the bottom of a
\* screen that shrinks is lost, and what is new is blank.
Moves(m, r, newrows) ==
    \E mid \in Seq(AllLines), lost \in Seq(AllLines), n \in Nat :
        /\ m.scrollback \o m.screen = (r.scrollback \o mid) \o lost
        /\ r.screen = mid \o Screen!Blanks(n)
        /\ lost # <<>> => newrows < m.rows

\* A window that grows takes lines back from the scrollback and adds blank ones.
LEMMA EnlargedMoves ==
    ASSUME NEW m, Sized(m), NEW newrows \in Nat, newrows >= m.rows
    PROVE  Moves(m, Screen!Enlarged(m, newrows), newrows)
<1> DEFINE n == newrows - m.rows
           back == IF m.tempsblines < n THEN m.tempsblines ELSE n
           len == Len(m.scrollback)
           above == SubSeq(m.scrollback, len - back + 1, len)
           rest == SubSeq(m.scrollback, 1, len - back)
           mid == above \o m.screen
           u == Screen!Enlarged(m, newrows)
<1>1. /\ m \in Terminal /\ m.rows \in Nat /\ m.tempsblines \in Nat /\ m.tempsblines <= len /\
           len \in Nat
      /\ m.scrollback \in Seq(AllLines) /\ m.screen \in Seq(AllLines)
  BY LenProperties DEF Sized, Terminal
<1>2. n \in Nat /\ back \in Nat /\ back <= len /\ back <= n
  BY <1>1
<1>3. u.screen = mid \o Screen!Blanks(n - back) /\ u.scrollback = rest
  <2>1. u = [m EXCEPT !.screen = (above \o m.screen) \o Screen!Blanks(n - back),
          !.scrollback = rest,
                      !.tempsblines = m.tempsblines - back]
    BY DEF Screen!Enlarged
  <2> HIDE DEF u, back, n, above, rest
  <2> QED BY <1>1, <2>1 DEF Terminal
<1> HIDE DEF u, n, back
<1>4. n - back \in Nat /\ len - back \in 0 .. len
  BY <1>1, <1>2
<1>5. rest \o above = m.scrollback
  <2> DEFINE k == len - back
  <2>1. 1 \in 1 .. len + 1 /\ k \in 1 - 1 .. len /\ len \in k .. len
    BY <1>1, <1>4
  <2>2. SubSeq(m.scrollback, 1, k) \o SubSeq(m.scrollback, k + 1, len) = SubSeq(m.scrollback,
          1, len)
    <3> HIDE DEF k
    <3> QED BY <1>1, <2>1, ConcatAdjacentSubSeq
  <2> QED BY <1>1, <2>2, SubSeqFull
<1>6. above \in Seq(AllLines) /\ rest \in Seq(AllLines)
  <2>1. len - back + 1 \in Nat /\ len - back + 1 > 0 /\ len - back \in Nat /\
          len - back <= len /\ 1 \in Nat /\ 1 > 0
    BY <1>1, <1>4
  <2> QED BY <1>1, <2>1, PartOf
<1> HIDE DEF above, rest
<1>7. mid \in Seq(AllLines) /\ rest \o mid \in Seq(AllLines)
  BY <1>1, <1>6, ConcatProperties
<1>8. m.scrollback \o m.screen = rest \o mid
  <2>1. m.screen \in Seq(AllLines)
    BY <1>1
  <2>2. (rest \o above) \o m.screen = rest \o (above \o m.screen)
    BY <1>6, <2>1, Regrouped
  <2> QED BY <1>5, <2>2
<1> HIDE DEF mid
<1>9. (rest \o mid) \o <<>> = rest \o mid
  BY <1>7, ConcatEmptySeq
<1>10. m.scrollback \o m.screen = (u.scrollback \o mid) \o <<>>
  BY <1>3, <1>8, <1>9
<1>11. Moves(m, u, newrows)
  BY <1>3, <1>4, <1>7, <1>10, Emptied DEF Moves
<1> QED BY <1>11 DEF u

\* A window that shrinks pushes lines to the scrollback and loses those at the bottom.
LEMMA ShrunkMoves ==
    ASSUME NEW m, Sized(m), NEW newrows \in Nat, newrows < m.rows, NEW y \in 0 .. m.rows - 1
    PROVE  Moves(m, Screen!Shrunk(m, newrows, y), newrows)
<1> DEFINE push == IF y >= newrows THEN y - newrows + 1 ELSE 0
           end == push + newrows
           q == SubSeq(m.screen, push + 1, end)
           top == SubSeq(m.screen, 1, push)
           lost == SubSeq(m.screen, end + 1, m.rows)
           u == Screen!Shrunk(m, newrows, y)
<1>1. /\ m \in Terminal /\ m.rows \in Nat
      /\ m.scrollback \in Seq(AllLines) /\ m.screen \in Seq(AllLines) /\ Len(m.screen) = m.rows
  BY DEF Sized, Terminal
<1>2. push \in Nat /\ end \in Nat /\ push <= end /\ end <= m.rows
  BY <1>1
<1>3. u.screen = q /\ u.scrollback = m.scrollback \o top
  <2>1. u = [m EXCEPT !.screen = q, !.scrollback = m.scrollback \o top,
          !.tempsblines = m.tempsblines + push]
    BY DEF Screen!Shrunk
  <2> HIDE DEF u, q, top, push
  <2> QED BY <1>1, <2>1 DEF Terminal
<1> HIDE DEF u, push, end
<1>4. /\ 1 \in 1 .. Len(m.screen) + 1 /\ push \in 1 - 1 .. Len(m.screen) /\
           end \in push .. Len(m.screen)
      /\ end \in 1 - 1 .. Len(m.screen) /\ m.rows \in end .. Len(m.screen)
  BY <1>1, <1>2
<1>5. top \o q = SubSeq(m.screen, 1, end)
  BY <1>1, <1>4, ConcatAdjacentSubSeq
<1>6. SubSeq(m.screen, 1, end) \o lost = m.screen
  <2>1. SubSeq(m.screen, 1, end) \o lost = SubSeq(m.screen, 1, m.rows)
    BY <1>1, <1>4, ConcatAdjacentSubSeq
  <2> QED BY <1>1, <2>1, SubSeqFull
<1>7. top \in Seq(AllLines) /\ q \in Seq(AllLines) /\ lost \in Seq(AllLines)
  <2>1. /\ push + 1 \in Nat /\ push + 1 > 0 /\ end + 1 \in Nat /\ end + 1 > 0 /\ 1 \in Nat /\
             1 > 0
        /\ push <= Len(m.screen) /\ end <= Len(m.screen) /\ m.rows <= Len(m.screen)
    BY <1>1, <1>2
  <2>2. top \in Seq(AllLines)
    BY <1>1, <1>2, <2>1, PartOf
  <2>3. q \in Seq(AllLines)
    BY <1>1, <1>2, <2>1, PartOf
  <2>4. lost \in Seq(AllLines)
    BY <1>1, <1>2, <2>1, PartOf
  <2> QED BY <2>2, <2>3, <2>4
<1> HIDE DEF q, top, lost
<1>8. m.screen = (top \o q) \o lost
  BY <1>5, <1>6
<1>9. m.scrollback \o m.screen = ((m.scrollback \o top) \o q) \o lost
  <2>1. top \o q \in Seq(AllLines) /\ m.scrollback \o top \in Seq(AllLines)
    BY <1>1, <1>7, ConcatProperties
  <2> DEFINE p == top \o q
             sb == m.scrollback
  <2>2. sb \in Seq(AllLines) /\ p \in Seq(AllLines)
    BY <1>1, <2>1
  <2>3. (sb \o top) \o q = sb \o (top \o q)
    <3> HIDE DEF sb, p
    <3> QED BY <1>7, <2>2, Regrouped
  <2>4. (sb \o p) \o lost = sb \o (p \o lost)
    <3> HIDE DEF sb, p
    <3> QED BY <1>7, <2>2, Regrouped
  <2> QED BY <1>8, <2>3, <2>4
<1>10. u.screen = q \o Screen!Blanks(0)
  BY <1>3, <1>7, Emptied, ConcatEmptySeq
<1>11. m.scrollback \o m.screen = (u.scrollback \o q) \o lost /\ 0 \in Nat
  BY <1>3, <1>9
<1>12. Moves(m, u, newrows)
  BY <1>7, <1>10, <1>11 DEF Moves
<1> QED BY <1>12 DEF u

\* Only the oldest lines of a scrollback that is too long go.
LEMMA TrimmedDrops ==
    ASSUME NEW r \in Terminal, NEW newsave \in Nat
    PROVE  LET u == Screen!Trimmed(r, newsave) IN
           /\ u.screen = r.screen /\ u.scrollback \in Seq(AllLines)
           /\ \E a \in Seq(AllLines) :
                  r.scrollback = a \o u.scrollback /\ (a # <<>> => Len(u.scrollback) = newsave)
<1> DEFINE len == Len(r.scrollback)
           cut == SubSeq(r.scrollback, len - newsave + 1, len)
           gone == SubSeq(r.scrollback, 1, len - newsave)
           sb == IF len > newsave THEN cut ELSE r.scrollback
           left == IF Len(sb) < r.tempsblines THEN Len(sb) ELSE r.tempsblines
           u == Screen!Trimmed(r, newsave)
<1>1. r.scrollback \in Seq(AllLines) /\ len \in Nat
  BY LenProperties DEF Terminal
<1>2. u.screen = r.screen /\ u.scrollback = sb
  <2>1. u = [r EXCEPT !.scrollback = sb, !.tempsblines = left]
    BY DEF Screen!Trimmed
  <2> HIDE DEF u, sb, left
  <2> QED BY <2>1 DEF Terminal
<1> HIDE DEF u
<1>3. CASE len > newsave
  <2> DEFINE k == len - newsave
  <2>1. /\ k \in Nat /\ 1 \in 1 .. len + 1 /\ k \in 1 - 1 .. len /\ len \in k .. len /\
             k + 1 > 0 /\ k + 1 \in Nat
        /\ k <= len /\ 1 \in Nat /\ 1 > 0 /\ (k + 1 <= len => len - (k + 1) + 1 = newsave) /\
             (~(k + 1 <= len) => newsave = 0)
    BY <1>1, <1>3
  <2> HIDE DEF k
  <2>2. SubSeq(r.scrollback, 1, k) \o SubSeq(r.scrollback, k + 1, len) = r.scrollback
    <3>1. SubSeq(r.scrollback, 1, k) \o SubSeq(r.scrollback, k + 1, len) = SubSeq(r.scrollback,
            1, len)
      BY <1>1, <2>1, ConcatAdjacentSubSeq
    <3> QED BY <1>1, <3>1, SubSeqFull
  <2>3. SubSeq(r.scrollback, 1, k) \in Seq(AllLines)
    BY <1>1, <2>1, PartOf
  <2>4. SubSeq(r.scrollback, k + 1, len) \in Seq(AllLines) /\ Len(SubSeq(r.scrollback, k + 1,
          len)) = newsave
    <3>1. /\ SubSeq(r.scrollback, k + 1, len) \in Seq(AllLines)
          /\ Len(SubSeq(r.scrollback, k + 1,
               len)) = IF k + 1 <= len THEN len - (k + 1) + 1 ELSE 0
      BY <1>1, <2>1, PartOf
    <3> QED BY <2>1, <3>1
  <2>5. gone = SubSeq(r.scrollback, 1, k) /\ u.scrollback = SubSeq(r.scrollback, k + 1, len)
    BY <1>2, <1>3 DEF k
  <2> HIDE DEF gone
  <2> QED BY <1>2, <2>2, <2>3, <2>4, <2>5 DEF u
<1>4. CASE ~(len > newsave)
  <2>1. u.scrollback = r.scrollback
    BY <1>2, <1>4
  <2>2. r.scrollback = <<>> \o u.scrollback
    BY <1>1, <2>1, ConcatEmptySeq
  <2> QED BY <1>1, <1>2, <2>1, <2>2, Emptied DEF u
<1> QED BY <1>3, <1>4

\* The lines `new' are a part of the lines `old', and blank below it: all but the
\* first ones, if some may be cut, and but the last ones, if there may be less.
IsPart(new, old, cut, less) ==
    \E i \in 1 .. Len(old) + 1, j \in 0 .. Len(old) :
        /\ i > 1 => cut
        /\ j < Len(old) => less
        /\ new = SubSeq(old, i, j) \o Screen!Blanks(Len(new) - (j - i + 1))

\* The step that term_size may take.
ResizeStep ==
    event'.kind = "resize" =>
        IsPart(Screen!Everything(term'), Screen!Everything(term),
               Len(term'.scrollback) = term'.savelines, term'.rows < term.rows)

\* So what is left is a part of what there was.
LEMMA PartKept ==
    ASSUME NEW a \in Seq(AllLines), NEW b \in Seq(AllLines), NEW mid \in Seq(AllLines),
           NEW lost \in Seq(AllLines), NEW n \in Nat
    PROVE  IsPart(b \o (mid \o Screen!Blanks(n)), ((a \o b) \o mid) \o lost, a # <<>>,
             lost # <<>>)
<1> DEFINE old == ((a \o b) \o mid) \o lost
           new == b \o (mid \o Screen!Blanks(n))
           c == b \o mid
           i == Len(a) + 1
           j == Len(a) + Len(c)
<1>1. Len(a) \in Nat /\ Len(lost) \in Nat /\ Screen!Blanks(n) \in Seq(AllLines) /\
        Len(Screen!Blanks(n)) = n
  BY LenProperties, BlanksAre
<1>2. c \in Seq(AllLines) /\ (a \o b) \o mid = a \o c /\
        b \o (mid \o Screen!Blanks(n)) = c \o Screen!Blanks(n)
  BY <1>1, ConcatProperties, Regrouped
<1> HIDE DEF c
<1>3. Len(c) \in Nat /\ a \o c \in Seq(AllLines) /\ Len(a \o c) = Len(a) + Len(c)
  BY <1>2, LenProperties, ConcatProperties
<1>4. old = (a \o c) \o lost /\ new = c \o Screen!Blanks(n)
  BY <1>2
<1>5. Len(old) = Len(a) + Len(c) + Len(lost)
  <2> DEFINE p == a \o c
  <2>1. p \in Seq(AllLines) /\ Len(p) = Len(a) + Len(c)
    BY <1>3
  <2> HIDE DEF p
  <2>2. Len(p \o lost) = Len(p) + Len(lost)
    BY <2>1, ConcatProperties
  <2> QED BY <1>4, <2>1, <2>2 DEF p
<1>6. Len(new) = Len(c) + n
  BY <1>1, <1>2, <1>4, ConcatProperties
<1>7. SubSeq(old, i, j) = c
  BY <1>2, <1>4, MiddleIs
<1>8. i \in 1 .. Len(old) + 1 /\ j \in 0 .. Len(old) /\ Len(new) - (j - i + 1) = n
  BY <1>1, <1>3, <1>5, <1>6
<1>9. i > 1 => a # <<>>
  BY <1>1, Emptied
<1>10. j < Len(old) => lost # <<>>
  BY <1>1, <1>3, <1>5, Emptied
<1>11. new = SubSeq(old, i, j) \o Screen!Blanks(Len(new) - (j - i + 1))
  BY <1>4, <1>7, <1>8
<1> HIDE DEF i, j, old, new
<1>12. IsPart(new, old, a # <<>>, lost # <<>>)
  BY <1>8, <1>9, <1>10, <1>11 DEF IsPart
<1> QED BY <1>12 DEF old, new

\* The window is resized (term_size).
LEMMA SizeMoves == ASSUME ScreenInv, Screen!ScreenAssumption, Screen!term_size PROVE ResizeStep
<1> DEFINE d == Screen!deselect(term)
           m == Screen!swap_screen(d, FALSE, FALSE)
           r(newrows, y) == IF newrows >= m.rows THEN Screen!Enlarged(m,
             newrows) ELSE Screen!Shrunk(m, newrows, y)
           n(newrows, newsave, y) ==
               [Screen!Trimmed(r(newrows, y), newsave) EXCEPT
                    !.disptop = 0, !.alt_screen = Screen!Blanks(newrows),
                    !.alt_sblines = 0, !.rows = newrows, !.savelines = newsave]
<1>1. PICK newrows \in ScreenHeights, newsave \in profile.saves, y \in Screen!Rows :
          term' = Screen!swap_screen(n(newrows, newsave, y), term.alt_which, FALSE)
  BY DEF Screen!term_size
<1>2. /\ Sized(term) /\ term \in Terminal /\ term.rows \in Nat /\ y \in 0 .. term.rows - 1
      /\ term.alt_which \in BOOLEAN
  BY <1>1, RowsAre DEF Terminal
<1>3. newrows \in Nat /\ newrows > 0 /\ newsave \in Nat
  <2>1. profile.saves \in SUBSET Nat
    BY DEF ScreenInv, Screen!ScreenAssumption, Screen!ProfileType
  <2>2. newrows \in Nat \ {0}
    BY <1>1 DEF Screen!ScreenAssumption
  <2> QED BY <1>1, <2>1, <2>2
<1>4. /\ Sized(d) /\ d.rows = term.rows /\ d.scrollback = term.scrollback /\
           d.screen = term.screen
      /\ d.alt_screen = term.alt_screen /\ d.alt_which = term.alt_which
  <2>1. Keeps(term, d)
    BY <1>2, Deselected
  <2>2. /\ d.scrollback = term.scrollback /\ d.screen = term.screen /\ d.rows = term.rows
        /\ d.alt_screen = term.alt_screen /\ d.alt_which = term.alt_which
    BY <1>2 DEF Screen!deselect, Terminal
  <2> QED BY <2>1, <2>2 DEF Keeps
<1> HIDE DEF d
<1>5. /\ Sized(m) /\ m.rows = term.rows /\ m.scrollback = term.scrollback /\
           m.screen = Screen!Main(term) /\ ~m.alt_which
  <2>1. Swaps(d, m, FALSE) /\ IF FALSE = d.alt_which THEN m = d ELSE m.screen = d.alt_screen
    BY <1>4, SwapKeeps, SwapLooks, FALSE \in BOOLEAN
  <2> HIDE DEF m
  <2>2. m.screen = Screen!Main(term)
    <3>1. CASE term.alt_which
      BY <1>4, <2>1, <3>1 DEF Screen!Main
    <3>2. CASE ~term.alt_which
      BY <1>2, <1>4, <2>1, <3>2 DEF Screen!Main
    <3> QED BY <3>1, <3>2
  <2> QED BY <1>4, <2>1, <2>2 DEF Swaps
<1> HIDE DEF m
<1> DEFINE v == r(newrows, y)
           w == Screen!Trimmed(v, newsave)
           z == [w EXCEPT !.disptop = 0, !.alt_screen = Screen!Blanks(newrows),
                          !.alt_sblines = 0, !.rows = newrows, !.savelines = newsave]
<1>6. ResizedTo(m, v, newrows) /\ Moves(m, v, newrows)
  <2>1. CASE newrows >= m.rows
    <3>1. ResizedTo(m, Screen!Enlarged(m, newrows), newrows) /\ Moves(m, Screen!Enlarged(m,
            newrows), newrows)
      BY <1>3, <1>5, <2>1, EnlargedIs, EnlargedMoves
    <3> QED BY <2>1, <3>1
  <2>2. CASE ~(newrows >= m.rows)
    <3>1. newrows < m.rows /\ y \in 0 .. m.rows - 1
      BY <1>2, <1>3, <1>5, <2>2
    <3>2. ResizedTo(m, Screen!Shrunk(m, newrows, y), newrows) /\ Moves(m, Screen!Shrunk(m,
            newrows, y), newrows)
      BY <1>3, <1>5, <3>1, ShrunkIs, ShrunkMoves
    <3> QED BY <2>2, <3>2
  <2> QED BY <2>1, <2>2
<1>7. term' = Screen!swap_screen(z, term.alt_which, FALSE)
  BY <1>1
<1> HIDE DEF v, r
<1>8. v \in Terminal /\ ResizedTo(m, w, newrows) /\ Len(w.scrollback) <= newsave
  <2>1. v \in Terminal
    BY <1>6 DEF ResizedTo
  <2>2. ResizedTo(m, w, newrows) /\ Len(w.scrollback) <= newsave
    BY <1>3, <1>6, TrimmedIs
  <2> QED BY <2>1, <2>2
<1>9. /\ w.screen = v.screen /\ w.scrollback \in Seq(AllLines)
      /\ \E a \in Seq(AllLines) :
             v.scrollback = a \o w.scrollback /\ (a # <<>> => Len(w.scrollback) = newsave)
  BY <1>3, <1>8, TrimmedDrops
<1> HIDE DEF w
<1>10. w \in Terminal /\ Screen!Blanks(newrows) \in Seq(AllLines) /\
         Len(Screen!Blanks(newrows)) = newrows /\ 0 \in Int /\ 0 \in Nat
  BY <1>3, <1>8, BlanksAre DEF ResizedTo
<1>11. /\ z \in Terminal /\ z.rows = newrows /\ z.screen = w.screen
       /\ z.alt_screen = Screen!Blanks(newrows) /\ z.alt_which = w.alt_which
       /\ z.scrollback = w.scrollback /\ z.tempsblines = w.tempsblines /\ z.savelines = newsave
  BY <1>3, <1>10 DEF Terminal
<1> HIDE DEF z
<1>12. Sized(z) /\ ~z.alt_which
  BY <1>3, <1>5, <1>8, <1>10, <1>11 DEF Sized, ResizedTo
<1>13. /\ term'.rows = newrows /\ term'.savelines = newsave /\ term'.scrollback = w.scrollback
       /\ Screen!Main(term') = w.screen
  <2>1. /\ Swaps(z, term', term.alt_which)
        /\ IF term.alt_which = z.alt_which THEN term' = z ELSE term'.alt_screen = z.screen
    BY <1>2, <1>7, <1>12, SwapKeeps, SwapLooks
  <2>2. Screen!Main(term') = z.screen
    <3>1. CASE term.alt_which
      BY <1>12, <2>1, <3>1 DEF Screen!Main, Swaps
    <3>2. CASE ~term.alt_which
      <4>1. z.alt_which \in BOOLEAN
        BY <1>11 DEF Terminal
      <4> QED BY <1>2, <1>12, <2>1, <3>2, <4>1 DEF Screen!Main, Swaps
    <3> QED BY <3>1, <3>2
  <2> QED BY <1>11, <2>1, <2>2 DEF Swaps
<1>14. PICK a \in Seq(AllLines) :
           v.scrollback = a \o w.scrollback /\ (a # <<>> => Len(w.scrollback) = newsave)
  BY <1>9
<1>15. PICK mid \in Seq(AllLines), lost \in Seq(AllLines), k \in Nat :
          /\ m.scrollback \o m.screen = (v.scrollback \o mid) \o lost
          /\ v.screen = mid \o Screen!Blanks(k)
          /\ lost # <<>> => newrows < m.rows
  BY <1>6 DEF Moves
<1> DEFINE old == Screen!Everything(term)
           new == Screen!Everything(term')
<1>16. old = ((a \o w.scrollback) \o mid) \o lost /\
         new = w.scrollback \o (mid \o Screen!Blanks(k))
  BY <1>5, <1>9, <1>13, <1>14, <1>15 DEF Screen!Everything
<1> HIDE DEF old, new
<1>17. IsPart(new, old, a # <<>>, lost # <<>>)
  <2> DEFINE b == w.scrollback
  <2>1. b \in Seq(AllLines)
    BY <1>9
  <2>2. old = ((a \o b) \o mid) \o lost /\ new = b \o (mid \o Screen!Blanks(k))
    BY <1>16
  <2> HIDE DEF b
  <2>3. IsPart(b \o (mid \o Screen!Blanks(k)), ((a \o b) \o mid) \o lost, a # <<>>, lost # <<>>)
    BY <2>1, PartKept
  <2> QED BY <2>2, <2>3
<1>18. IsPart(new, old, Len(term'.scrollback) = term'.savelines, term'.rows < term.rows)
  <2>1. a # <<>> => Len(term'.scrollback) = term'.savelines
    BY <1>13, <1>14
  <2>2. lost # <<>> => term'.rows < term.rows
    BY <1>5, <1>13, <1>15
  <2> QED BY <1>17, <2>1, <2>2 DEF IsPart
<1> QED BY <1>18 DEF ResizeStep, old, new

\* No other step is a resize.
LEMMA OthersMove == ASSUME Screen!Next, ~Screen!term_size PROVE ResizeStep
<1>1. ASSUME NEW t, NEW y, Screen!Host(t, y) PROVE event'.kind = "output"
  BY <1>1 DEF Screen!Host, Screen!Event
<1>2. CASE Screen!Write \/ Screen!Scroll \/ Screen!InsertDelete \/ Screen!EraseBelow \/
             Screen!EraseAbove \/ Screen!Erase
  <2>1. PICK t, y : Screen!Host(t, y)
    BY <1>2 DEF Screen!Write, Screen!Scroll, Screen!InsertDelete, Screen!EraseBelow,
       Screen!EraseAbove, Screen!Erase
  <2> QED BY <1>1, <2>1 DEF ResizeStep
<1>3. CASE Screen!term_clrsb
  BY <1>3 DEF Screen!term_clrsb, Screen!Event, ResizeStep
<1>4. CASE Screen!SwapScreens
  <2>1. event'.kind = "swap"
    BY <1>4 DEF Screen!SwapScreens, Screen!Event
  <2> QED BY <2>1 DEF ResizeStep
<1>5. CASE Screen!RIS
  BY <1>5 DEF Screen!RIS, Screen!Event, ResizeStep
<1>6. CASE Screen!term_pwron
  <2>1. event'.kind # "resize"
    BY <1>6 DEF Screen!term_pwron, Screen!Event
  <2> QED BY <2>1 DEF ResizeStep
<1>7. CASE Screen!term_scroll \/ Screen!Select \/ Screen!term_reconfig
  <2>1. event' = Screen!Event("view", 0) \/ event' = Screen!Event("reconfig", 0)
    BY <1>7 DEF Screen!term_scroll, Screen!Select, Screen!term_reconfig
  <2> QED BY <2>1 DEF Screen!Event, ResizeStep
<1> QED BY <1>2, <1>3, <1>4, <1>5, <1>6, <1>7 DEF Screen!Next

\* For windows of any height, scrollbacks of any size and any text, the view, the
\* main screen and the text in a resize are kept.
LEMMA ScreenTextKept ==
    ASSUME Screen!ScreenAssumption
    PROVE  Screen!Spec => Screen!ViewKeeps /\ Screen!MainScreenKept /\ Screen!ResizeKeepsText
<1> DEFINE Inv == ScreenInv /\ KeptInv
<1>1. Screen!Init => Inv
  <2>1. Screen!Init => KeptInv
    BY DEF Screen!Init, KeptInv
  <2> QED BY <2>1, ScreenInit
<1>2. Inv /\ [Screen!Next]_(Screen!vars) => Inv'
  <2>1. ASSUME Inv, UNCHANGED Screen!vars PROVE KeptInv'
    BY <2>1 DEF Screen!vars, KeptInv
  <2>2. ASSUME Inv, Screen!Next PROVE KeptInv'
    BY <2>2, StepsKeep DEF StepKeeps
  <2> QED BY <2>1, <2>2, ScreenNext
<1>3. Inv /\ [Screen!Next]_(Screen!vars) => [Screen!ViewStep]_(Screen!vars)
  <2>1. ASSUME Inv, Screen!Next PROVE Screen!ViewStep
    BY <2>1, StepsKeep DEF StepKeeps
  <2> QED BY <2>1
<1>4. Inv /\ [Screen!Next]_(Screen!vars) => [KeptStep]_(Screen!vars)
  <2>1. ASSUME Inv, Screen!Next PROVE KeptStep
    BY <2>1, StepsKeep DEF StepKeeps
  <2> QED BY <2>1
<1>5. Inv /\ [Screen!Next]_(Screen!vars) => [ResizeStep]_(Screen!vars)
  <2>1. ASSUME Inv, Screen!Next PROVE ResizeStep
    BY <2>1, SizeMoves, OthersMove
  <2> QED BY <2>1
<1> HIDE DEF Inv
<1>6. Screen!Spec => [][Screen!ViewStep]_(Screen!vars)
  BY <1>1, <1>2, <1>3, PTL DEF Screen!Spec
<1>7. Screen!Spec => [][KeptStep]_(Screen!vars)
  BY <1>1, <1>2, <1>4, PTL DEF Screen!Spec
<1>8. Screen!Spec => [][ResizeStep]_(Screen!vars)
  BY <1>1, <1>2, <1>5, PTL DEF Screen!Spec
<1> QED BY <1>6, <1>7, <1>8 DEF Screen!ViewKeeps, Screen!MainScreenKept,
           Screen!ResizeKeepsText, KeptStep, ResizeStep, IsPart

\* What is on the screen stays, for windows of any height and, if they are wide
\* enough for the trust sigil, of any width: ESC[K spares the character just
\* written, the view stays on its line, the main screen comes back as it was, and
\* a resize drops text at the ends only (erase_lots, scroll, swap_screen,
\* term_size).
THEOREM TextIsKept ==
    ASSUME Screen!ScreenAssumption
    PROVE  WideEnough /\ Spec /\ Screen!Spec => TextKept
<1>1. WideEnough /\ Spec => []EraseSparesLast
  BY ErasesAfter
<1>2. Screen!Spec => Screen!ViewKeeps /\ Screen!MainScreenKept /\ Screen!ResizeKeepsText
  BY ScreenTextKept
<1> QED BY <1>1, <1>2 DEF TextKept
=============================================================================
