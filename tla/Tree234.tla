------------------------------- MODULE Tree234 -------------------------------
(***************************************************************************)
(* The 2-3-4 trees of tree234.c, which hold the timers, the channels, the  *)
(* lines of the terminal, the sockets and most other collections.          *)
(*                                                                         *)
(* A node is a record of its elements, its subtrees (none in a leaf) and   *)
(* the number of elements that it believes each subtree to have; the empty *)
(* tree is Null.  A node is rebuilt where the code changes it in place, on *)
(* the way back up where the code follows parent.                          *)
(*                                                                         *)
(* The elements of the tree in the variable are 2, 4, 6, ... in order; they *)
(* are named afresh after each step (Named), as only their order matters.  *)
(* An odd number is an element that is not in the tree.                    *)
(***************************************************************************)
EXTENDS Integers, Sequences, SequencesExt

CONSTANT MaxElements   \* bound on the elements of the tree

TreeAssumption == MaxElements \in Nat

VARIABLE tree

Null == [elems |-> <<>>, kids |-> <<>>, counts |-> <<>>]

Leaf(elems) == [elems |-> elems, kids |-> <<>>, counts |-> <<>>]

\* Nothing of the subtrees of a leaf
Slice(q, i, j) == IF q = <<>> THEN <<>> ELSE SubSeq(q, i, j)

SumTo(n, k) == FoldLeft(LAMBDA a, b : a + b, 0, Slice(n.counts, 1, k))

countnode234(n) == Len(n.elems) + SumTo(n, Len(n.counts))

Node(elems, kids) ==
    [elems |-> elems, kids |-> kids,
     counts |-> [i \in DOMAIN kids |-> countnode234(kids[i])]]

IsLeaf(n) == n.kids = <<>>

\* The index of the first element behind subtree c (counted from 0)
Behind(n, c) == SumTo(n, c + 1) + c

Least(S) == CHOOSE x \in S : \A y \in S : x <= y

-----------------------------------------------------------------------------
(* Adding: e at position index, or where it belongs if index is negative.  *)

Holds(n, e) == \E i \in DOMAIN n.elems : n.elems[i] = e

\* The subtree that e goes to
Child(n, e, index) ==
    IF index < 0 THEN Len(SelectSeq(n.elems, LAMBDA x : x < e))
    ELSE IF IsLeaf(n) THEN index
    ELSE Least({c \in 0..Len(n.elems) : index <= Behind(n, c)})

BUGInner(n, c, index) == IF index < 0 \/ c = 0 THEN index ELSE index - Behind(n, c - 1)

\* The position within that subtree
Inner(n, c, index) == IF index < 0 \/ c = 0 THEN index ELSE index - Behind(n, c - 1) - 1

\* e and the two halves of subtree c take its place
Widened(n, c, left, e, right) ==
    LET elems == InsertAt(n.elems, c + 1, e)
    IN  IF IsLeaf(n) THEN Leaf(elems)
        ELSE [elems |-> elems,
              kids |-> SubSeq(n.kids, 1, c) \o <<left, right>> \o SubSeq(n.kids, c + 2, Len(n.kids)),
              counts |-> SubSeq(n.counts, 1, c) \o <<countnode234(left), countnode234(right)>>
                           \o SubSeq(n.counts, c + 2, Len(n.counts))]

\* The elements i to j of a node, with the subtrees around them
Part(n, i, j) ==
    [elems |-> SubSeq(n.elems, i, j), kids |-> Slice(n.kids, i, j + 1),
     counts |-> Slice(n.counts, i, j + 1)]

\* What stands in the place of n once e is in it: n itself, or two nodes and
\* the element between them.
RECURSIVE Inserted(_, _, _)
Inserted(n, e, index) ==
    LET c == Child(n, e, index)
        below == IF IsLeaf(n) THEN <<Null, e, Null>> ELSE Inserted(n.kids[c + 1], e, Inner(n, c, index))
        wide == Widened(n, c, below[1], below[2], below[3])
    IN  IF Len(below) = 1
          THEN <<[n EXCEPT !.kids[c + 1] = below[1], !.counts[c + 1] = countnode234(below[1])]>>
          ELSE IF Len(wide.elems) <= 3 THEN <<wide>>
          ELSE <<Part(wide, 1, 2), wide.elems[3], Part(wide, 4, 4)>>

add234_internal(t, e, index) ==
    IF t = Null THEN Leaf(<<e>>)
    ELSE LET r == Inserted(t, e, index)
         IN  IF Len(r) = 1 THEN r[1] ELSE Node(<<r[2]>>, <<r[1], r[3]>>)

RECURSIVE Found(_, _)
Found(n, e) ==
    \/ Holds(n, e)
    \/ ~IsLeaf(n) /\ Found(n.kids[Child(n, e, -1) + 1], e)

\* An element that compares equal is found on the way down
add234(t, e) == IF Found(t, e) THEN t ELSE add234_internal(t, e, -1)

addpos234(t, e, index) == add234_internal(t, e, index)

-----------------------------------------------------------------------------
(* Looking up.                                                             *)

Absent == 0

RECURSIVE IndexIn(_, _)
IndexIn(n, index) ==
    LET c == Least({k \in 0..Len(n.elems) : k = Len(n.elems) \/ index <= Behind(n, k)})
        inner == IF c = 0 THEN index ELSE index - Behind(n, c - 1) - 1
    IN  IF c < Len(n.elems) /\ index = Behind(n, c) THEN n.elems[c + 1]
        ELSE IF IsLeaf(n) THEN Absent
        ELSE IndexIn(n.kids[c + 1], inner)

index234(t, index) ==
    IF t = Null \/ index < 0 \/ index >= countnode234(t) THEN Absent ELSE IndexIn(t, index)

Relations == {"EQ", "LT", "LE", "GT", "GE"}

EqualPermitted(rel) == rel \notin {"LT", "GT"}
Reldir(rel) == IF rel \in {"LT", "LE"} THEN -1 ELSE IF rel \in {"GT", "GE"} THEN 1 ELSE 0

\* cmp(e, x), as the relation wants it; without an element, its fixed result
Compare(e, x, rel) ==
    IF e = Absent THEN -Reldir(rel)
    ELSE IF e < x THEN -1 ELSE IF e > x THEN 1
    ELSE IF EqualPermitted(rel) THEN 0 ELSE Reldir(rel)

\* search234_step: bisection among the elements lo to hi of n, whose first
\* element has the index base, then in the subtree that is left.
RECURSIVE Search(_, _, _, _, _, _)
Search(n, base, lo, hi, e, rel) ==
    IF lo > hi THEN
        LET b == base + lo + SumTo(n, lo)
        IN  IF IsLeaf(n) THEN [element |-> Absent, index |-> b]
            ELSE LET k == n.kids[lo + 1] IN Search(k, b, 0, Len(k.elems) - 1, e, rel)
    ELSE
        LET last == (lo + hi) \div 2
            c == Compare(e, n.elems[last + 1], rel)
        IN  IF c = 0 THEN [element |-> n.elems[last + 1], index |-> base + last + SumTo(n, last + 1)]
            ELSE IF c > 0 THEN Search(n, base, last + 1, hi, e, rel)
            ELSE Search(n, base, lo, last - 1, e, rel)

findrelpos234(t, e, rel) ==
    LET r == Search(t, 0, 0, Len(t.elems) - 1, e, rel)
        i == IF rel \in {"LT", "LE"} THEN r.index - 1 ELSE r.index
    IN  IF r.element # Absent THEN r
        ELSE IF rel = "EQ" THEN [element |-> Absent, index |-> 0]
        ELSE [element |-> index234(t, i), index |-> i]

-----------------------------------------------------------------------------
(* Deleting.                                                               *)

\* Two neighbours of one element each, with the element between them
Merged(a, e, b) ==
    [elems |-> a.elems \o <<e>> \o b.elems, kids |-> a.kids \o b.kids, counts |-> a.counts \o b.counts]

\* n with merged subtrees k and k + 1; an empty root gives way to them
MergedAt(n, k) ==
    LET m == Merged(n.kids[k + 1], n.elems[k + 1], n.kids[k + 2])
    IN  [elems |-> RemoveAt(n.elems, k + 1),
         kids |-> RemoveAt([n.kids EXCEPT ![k + 1] = m], k + 2),
         counts |-> RemoveAt([n.counts EXCEPT ![k + 1] = countnode234(m)], k + 2)]

\* An element moves from subtree k through n to subtree k + 1
FromLeft(n, k) ==
    LET sib == n.kids[k + 1]  sub == n.kids[k + 2]  last == Len(sib.elems)
        up == Part(sib, 1, last - 1)
        to == [elems |-> <<n.elems[k + 1]>> \o sub.elems,
               kids |-> Slice(sib.kids, last + 1, last + 1) \o sub.kids,
               counts |-> Slice(sib.counts, last + 1, last + 1) \o sub.counts]
    IN  [elems |-> [n.elems EXCEPT ![k + 1] = sib.elems[last]],
         kids |-> [n.kids EXCEPT ![k + 1] = up, ![k + 2] = to],
         counts |-> [n.counts EXCEPT ![k + 1] = countnode234(up), ![k + 2] = countnode234(to)]]

\* An element moves from subtree k + 1 through n to subtree k
FromRight(n, k) ==
    LET sub == n.kids[k + 1]  sib == n.kids[k + 2]
        up == Part(sib, 2, Len(sib.elems))
        to == [elems |-> sub.elems \o <<n.elems[k + 1]>>,
               kids |-> sub.kids \o Slice(sib.kids, 1, 1),
               counts |-> sub.counts \o Slice(sib.counts, 1, 1)]
    IN  [elems |-> [n.elems EXCEPT ![k + 1] = sib.elems[1]],
         kids |-> [n.kids EXCEPT ![k + 1] = to, ![k + 2] = up],
         counts |-> [n.counts EXCEPT ![k + 1] = countnode234(to), ![k + 2] = countnode234(up)]]

Big(n, k) == k \in 0..(Len(n.kids) - 1) /\ Len(n.kids[k + 1].elems) > 1

RECURSIVE Largest(_)
Largest(n) == IF IsLeaf(n) THEN n.elems[Len(n.elems)] ELSE Largest(n.kids[Len(n.kids)])

RECURSIVE Smallest(_)
Smallest(n) == IF IsLeaf(n) THEN n.elems[1] ELSE Smallest(n.kids[1])

\* The node that remains of n without the element at index.  Subtrees are
\* never entered with only one element (cases 3a and 3b); an element of an
\* inner node is replaced by its neighbour or moved down (cases 2a to 2c).
RECURSIVE Deleted(_, _)
Deleted(n, index) ==
    LET c == Least({k \in 0..Len(n.elems) : k = Len(n.elems) \/ index <= Behind(n, k)})
        inner == IF c = 0 THEN index ELSE index - Behind(n, c - 1) - 1
        here == c < Len(n.elems) /\ index = Behind(n, c)
        Down(m, k, i) ==
            IF m.elems = <<>> THEN Deleted(m.kids[k + 1], i)
            ELSE [m EXCEPT !.kids[k + 1] = Deleted(m.kids[k + 1], i), !.counts[k + 1] = @ - 1]
    IN  IF here THEN
            IF IsLeaf(n) THEN Leaf(RemoveAt(n.elems, c + 1))
            ELSE IF Big(n, c) THEN
                Down([n EXCEPT !.elems[c + 1] = Largest(n.kids[c + 1])], c, n.counts[c + 1] - 1)
            ELSE IF Big(n, c + 1) THEN
                Down([n EXCEPT !.elems[c + 1] = Smallest(n.kids[c + 2])], c + 1, 0)
            ELSE LET a == MergedAt(n, c)
                 IN  Down(a, c, SumTo(a.kids[c + 1], 2) + 1)
        ELSE IF Big(n, c) THEN Down(n, c, inner)
        ELSE IF Big(n, c - 1) THEN
            LET m == FromLeft(n, c - 1) IN Down(m, c, inner + n.counts[c] - m.counts[c])
        ELSE IF Big(n, c + 1) THEN Down(FromRight(n, c), c, inner)
        ELSE IF c > 0 THEN Down(MergedAt(n, c - 1), c - 1, inner + n.counts[c] + 1)
        ELSE Down(MergedAt(n, 0), 0, inner)

delpos234(t, index) == IF index < 0 \/ index >= countnode234(t) THEN t ELSE Deleted(t, index)

del234(t, e) ==
    LET r == findrelpos234(t, e, "EQ")
    IN  IF r.element = Absent THEN t ELSE delpos234(t, r.index)

-----------------------------------------------------------------------------
(* Trees that are built and taken apart in any order.                      *)

RECURSIVE Elements(_)
Elements(n) ==
    IF IsLeaf(n) THEN n.elems
    ELSE FoldLeft(LAMBDA q, i : q \o <<n.elems[i]>> \o Elements(n.kids[i + 1]),
                  Elements(n.kids[1]), [i \in DOMAIN n.elems |-> i])

RECURSIVE Rename(_, _)
Rename(n, base) ==
    [n EXCEPT !.elems = [i \in DOMAIN @ |-> 2 * (base + i + SumTo(n, i))],
              !.kids = [i \in DOMAIN @ |-> Rename(@[i], base + (i - 1) + SumTo(n, i - 1))]]

Named(n) == Rename(n, 0)

Size == Len(Elements(tree))

Init == tree = Null

\* With the counts in order, names are too; a wrong tree is kept as it is.
Step(t) == tree' = IF Elements(Named(t)) = [i \in 1..Len(Elements(t)) |-> 2 * i] THEN Named(t) ELSE t

Add(index) == Size < MaxElements /\ Step(addpos234(tree, 1, index))

Delete(index) == Step(delpos234(tree, index))

Next ==
    \/ \E index \in 0..Size : Add(index)
    \/ \E index \in 0..(Size - 1) : Delete(index)

-----------------------------------------------------------------------------
(* Properties.                                                             *)

RECURSIVE Depth(_)
Depth(n) == IF IsLeaf(n) THEN 0 ELSE 1 + Depth(n.kids[1])

\* chknode: one to three elements, one subtree more than elements, the same
\* depth everywhere, exact counts.
RECURSIVE Balanced(_)
Balanced(n) ==
    /\ Len(n.elems) \in 1..3
    /\ Len(n.kids) \in {0, Len(n.elems) + 1} /\ Len(n.counts) = Len(n.kids)
    /\ \A i \in DOMAIN n.kids :
           /\ Balanced(n.kids[i])
           /\ Depth(n.kids[i]) = Depth(n.kids[1])
           /\ n.counts[i] = Len(Elements(n.kids[i]))

WellFormed(t) == t = Null \/ Balanced(t)

Sorted(q) == \A i \in 1..(Len(q) - 1) : q[i] < q[i + 1]

\* Adding puts the element where it is asked for, or in order, and no element
\* twice; deleting takes exactly that element; and both leave a balanced tree
\* with exact counts, through every split, loan and merge
\* (add234_internal, delpos234_internal).
ChangesRight ==
    LET q == Elements(tree) IN
    /\ WellFormed(tree)
    /\ \A i \in 0..Size : LET t == addpos234(tree, 1, i)
                          IN  WellFormed(t) /\ Elements(t) = InsertAt(q, i + 1, 1)
    /\ \A e \in 1..(2 * Size + 1) :
           LET t == add234(tree, e)
           IN  WellFormed(t) /\ Sorted(Elements(t))
               /\ ToSet(Elements(t)) = ToSet(q) \cup {e}
    /\ \A e \in 1..(2 * Size + 1) :
           LET t == del234(tree, e)
           IN  WellFormed(t) /\ Elements(t) = SelectSeq(q, LAMBDA x : x # e)

\* The reference for findrelpos234
Related(e, x, rel) ==
    CASE rel = "EQ" -> x = e [] rel = "LT" -> x < e [] rel = "LE" -> x <= e
      [] rel = "GT" -> x > e [] OTHER -> x >= e

\* Lookups by position and by relation give what a search of the whole list
\* would: the nearest element that is related as asked (index234,
\* findrelpos234).
LookupsRight ==
    LET q == Elements(tree) IN
    /\ \A i \in -1..Size : index234(tree, i) = IF i \in 0..(Size - 1) THEN q[i + 1] ELSE Absent
    /\ \A e \in 1..(2 * Size + 1), rel \in Relations :
           LET r == findrelpos234(tree, e, rel)
               match == {i \in DOMAIN q : Related(e, q[i], rel)}
           IN  IF match = {} THEN r.element = Absent
               ELSE LET i == IF rel \in {"LT", "LE"} THEN -Least({-j : j \in match}) ELSE Least(match)
                    IN  r = [element |-> q[i], index |-> i - 1]
    /\ findrelpos234(tree, Absent, "GT").element = index234(tree, 0)
    /\ findrelpos234(tree, Absent, "LT").element = index234(tree, Size - 1)

TreesRight == ChangesRight /\ LookupsRight
=============================================================================
