--------------------------------- MODULE Layout ---------------------------------
(***************************************************************************)
(* The panes of a session on its screen: the tree of splits (LayoutNode in *)
(* src/layout.rs) and the operations of a Session on it (src/session.rs),  *)
(* as the daemon's handlers call them.  Dimensions are u16.                *)
(*                                                                         *)
(* The tree is a record of two functions on the paths of its nodes: `leaf` *)
(* gives the pane of a leaf, `split` the direction and the ratio of a      *)
(* split.  A path is the way from the root, 1 to a first part and 2 to a   *)
(* second; the order of paths is the order in which the code meets nodes.  *)
(* The last pane of a session is closed with it: see SessionRegistry.      *)
(***************************************************************************)
EXTENDS Integers, SequencesExt, FiniteSets

CONSTANTS
  Sizes,       \* sizes of clients' terminals, <<rows, cols>>
  Deltas,      \* what AdjustRatio asks for
  MaxPanes,    \* bound: panes created
  MaxAdjusts,  \* bound: adjusted ratios
  MaxFailures  \* bound: window-size ioctls that fail

U16 == 65536

ASSUME LayoutAssumption ==
  /\ Sizes # {} /\ Sizes \subseteq (1 .. U16 - 1) \X (1 .. U16 - 1)
  /\ Deltas \subseteq Int
  /\ {MaxPanes, MaxAdjusts, MaxFailures} \subseteq Nat

VARIABLES
  layout,    \* Session::layout
  focused,   \* Session::focused
  zoomed,    \* Session::zoomed
  screen,    \* Session::rows and cols
  size,      \* Session::panes: the size of the pty of each
  nextPane,  \* Daemon::next_pane_id
  \* Auxiliary:
  unsized,   \* the zoom has changed, or a resize failed, since all were resized
  adjusts, failures

vars == <<layout, focused, zoomed, screen, size, nextPane, unsized, adjusts, failures>>

Larger(a, b) == IF a > b THEN a ELSE b
Clamp(n, lo, hi) == IF n < lo THEN lo ELSE IF n > hi THEN hi ELSE n
Gap(a, b) == IF a > b THEN a - b ELSE b - a

-----------------------------------------------------------------------------
(* The tree *)

Single(p) == [leaf |-> [q \in {<<>>} |-> p], split |-> [q \in {} |-> p]]

PathOf(t, p) == CHOOSE q \in DOMAIN t.leaf : t.leaf[q] = p

\* The order of a walk through the tree.
Before(q, r) ==
  \E i \in DOMAIN q \cap DOMAIN r :
    q[i] < r[i] /\ SubSeq(q, 1, i - 1) = SubSeq(r, 1, i - 1)

\* pane_ids, the first of them
FirstPane(t) == t.leaf[CHOOSE q \in DOMAIN t.leaf : \A i \in DOMAIN q : q[i] = 1]

SplitLeaf(t, p, new, dir) ==
  LET at == PathOf(t, p)
      first == Append(at, 1)
      second == Append(at, 2)
  IN [leaf |-> [q \in (DOMAIN t.leaf \ {at}) \cup {first, second} |->
                  IF q = first THEN p ELSE IF q = second THEN new ELSE t.leaf[q]],
      split |-> [q \in DOMAIN t.split \cup {at} |->
                   IF q = at THEN [dir |-> dir, ratio |-> 50] ELSE t.split[q]]]

\* When the leaf `at` is closed the other part takes the place of the split
\* around both: its nodes lose this step of their paths.
Moved(at, q) == IF IsPrefix(Front(at), q) THEN RemoveAt(q, Len(at)) ELSE q
Was(at, q) == IF IsPrefix(Front(at), q) THEN InsertAt(q, Len(at), 3 - Last(at)) ELSE q

CloseLeaf(t, p) ==
  LET at == PathOf(t, p)
      Kept(nodes) == {Moved(at, q) : q \in nodes \ {at, Front(at)}}
  IN [leaf |-> [q \in Kept(DOMAIN t.leaf) |-> t.leaf[Was(at, q)]],
      split |-> [q \in Kept(DOMAIN t.split) |-> t.split[Was(at, q)]]]

\* The innermost split around the pane.
AdjustRatioFor(t, p, delta) ==
  [t EXCEPT !.split[Front(PathOf(t, p))].ratio = Clamp(@ + delta, 10, 90)]

-----------------------------------------------------------------------------
(* Rectangles *)

Whole(s) == [x |-> 0, y |-> 0, rows |-> s[1], cols |-> s[2]]

\* What a split divides; a part too small for that shows its first part only.
Extent(box, cut) == IF cut.dir = "horizontal" THEN box.rows ELSE box.cols
Divides(box, cut) == Extent(box, cut) >= 3

\* Mutant: a part may be empty.
ShareUnclamped(length, ratio) == ((length - 1) * ratio % U16) \div 100

\* The first part of a length that is divided by a border; the product is a u16
\* that wraps (in a release build; a debug build panics).
Share(length, ratio) == Clamp(((length - 1) * ratio % U16) \div 100, 1, length - 2)

Part(box, cut, side) ==
  LET n == Share(Extent(box, cut), cut.ratio)
      down == cut.dir = "horizontal"
  IN CASE ~Divides(box, cut) -> box
       [] Divides(box, cut) /\ down /\ side = 1 -> [box EXCEPT !.rows = n]
       [] Divides(box, cut) /\ down /\ side = 2 ->
            [box EXCEPT !.y = @ + n + 1, !.rows = @ - 1 - n]
       [] Divides(box, cut) /\ ~down /\ side = 1 -> [box EXCEPT !.cols = n]
       [] Divides(box, cut) /\ ~down /\ side = 2 ->
            [box EXCEPT !.x = @ + n + 1, !.cols = @ - 1 - n]

Border(box, cut) ==
  LET n == Share(Extent(box, cut), cut.ratio)
  IN IF cut.dir = "horizontal" THEN [box EXCEPT !.y = @ + n, !.rows = 1]
     ELSE [box EXCEPT !.x = @ + n, !.cols = 1]

\* collect_rects, along the path q: the room it has there, and whether it comes
\* there at all
Box(t, s, q) ==
  LET box[i \in 0 .. Len(q)] ==
        IF i = 0 THEN Whole(s) ELSE Part(box[i - 1], t.split[SubSeq(q, 1, i - 1)], q[i])
  IN box[Len(q)]

Cut(t, s, q) == Divides(Box(t, s, q), t.split[q])

Shown(t, s, q) == \A i \in 1 .. Len(q) : q[i] = 2 => Cut(t, s, SubSeq(q, 1, i - 1))

Rect(p, box) == [pane |-> p, x |-> box.x, y |-> box.y,
                 rows |-> Larger(box.rows, 1), cols |-> Larger(box.cols, 1)]

Rects(t, s) ==
  [q \in {q \in DOMAIN t.leaf : Shown(t, s, q)} |-> Rect(t.leaf[q], Box(t, s, q))]

Borders(t, s) ==
  [q \in {q \in DOMAIN t.split : Shown(t, s, q) /\ Cut(t, s, q)} |->
     Border(Box(t, s, q), t.split[q])]

Lies(dir, r, from) ==
  CASE dir = "left" -> r.x + r.cols <= from.x
    [] dir = "right" -> r.x >= from.x + from.cols
    [] dir = "up" -> r.y + r.rows <= from.y
    [] dir = "down" -> r.y >= from.y + from.rows

\* How far the centres are apart: along the direction first, then across.
Apart(dir, r, from) ==
  LET dx == Gap(r.x + r.cols \div 2, from.x + from.cols \div 2)
      dy == Gap(r.y + r.rows \div 2, from.y + from.rows \div 2)
  IN IF dir \in {"left", "right"} THEN <<dx, dy>> ELSE <<dy, dx>>

\* Mutant: the farthest.
Farther(a, b) == a[1] > b[1] \/ (a[1] = b[1] /\ a[2] > b[2])
Nearer(a, b) == a[1] < b[1] \/ (a[1] = b[1] /\ a[2] < b[2])

\* focus_neighbor: the nearest, the first of several; a hidden pane has none.
FocusNeighbor(t, p, dir, s) ==
  LET rects == Rects(t, s)
      from == {q \in DOMAIN rects : rects[q].pane = p}
      there == {q \in DOMAIN rects : \E f \in from : Lies(dir, rects[q], rects[f])}
      Distance(q) == Apart(dir, rects[q], rects[CHOOSE f \in from : TRUE])
      Sooner(q, r) == \/ Nearer(Distance(q), Distance(r))
                      \/ Distance(q) = Distance(r) /\ Before(q, r)
  IN IF there = {} THEN p
     ELSE rects[CHOOSE q \in there : \A r \in there \ {q} : Sooner(q, r)].pane

-----------------------------------------------------------------------------
(* The session *)

Panes == DOMAIN size

Rectangles(t, zoom, at, s) ==
  IF zoom THEN [q \in {<<>>} |-> Rect(at, Whole(s))] ELSE Rects(t, s)
Visible == Rectangles(layout, zoomed, focused, screen)

\* The least that a resize and a new pane are given.
Fits(s) == <<Larger(s[1], 2), s[2]>>
Spawned == Fits(screen)

\* Session::new_with_command; the sizes are the client's
Init ==
  /\ screen \in Sizes
  /\ layout = Single(1) /\ focused = 1 /\ zoomed = FALSE
  /\ size = [p \in {1} |-> Spawned]
  /\ nextPane = 2
  /\ unsized = TRUE /\ adjusts = 0 /\ failures = 0

\* The sizes once the panes of `done` have been given their rectangles.
SizedBy(rects, done, old) ==
  [p \in DOMAIN old |->
     IF \E q \in done : rects[q].pane = p
     THEN LET r == rects[CHOOSE q \in done : rects[q].pane = p] IN <<r.rows, r.cols>>
     ELSE old[p]]

\* Mutant: only the pane with the focus is resized.
ResizeFocused(t, zoom, at, s, old) ==
  LET rects == Rectangles(t, zoom, at, Fits(s)) IN
  /\ screen' = Fits(s) /\ unsized' = FALSE /\ UNCHANGED failures
  /\ size' = SizedBy(rects, {q \in DOMAIN rects : rects[q].pane = at}, old)

\* Session::resize: the visible panes in order, up to one that fails
ResizeFails(t, zoom, at, s, old) ==
  LET rects == Rectangles(t, zoom, at, Fits(s)) IN
  /\ failures < MaxFailures /\ failures' = failures + 1
  /\ screen' = Fits(s) /\ unsized' = TRUE
  /\ \E failing \in DOMAIN rects :
       size' = SizedBy(rects, {q \in DOMAIN rects : Before(q, failing)}, old)

ResizeAll(t, zoom, at, s, old) ==
  LET rects == Rectangles(t, zoom, at, Fits(s)) IN
  \/ /\ screen' = Fits(s) /\ unsized' = FALSE /\ UNCHANGED failures
     /\ size' = SizedBy(rects, DOMAIN rects, old)
  \/ ResizeFails(t, zoom, at, s, old)

\* Mutant: the space is not asked for.
AnySpace(r, dir) == TRUE
EnoughSpace(r, dir) == IF dir = "vertical" THEN r.cols >= 21 ELSE r.rows >= 7

\* The focused pane is divided and the new one gets the focus.  A hidden one is
\* not; nor is anything changed when the new pane cannot be started.
Split(dir) ==
  /\ nextPane <= MaxPanes
  /\ nextPane' = nextPane + 1
  /\ UNCHANGED adjusts
  /\ \/ /\ LET rects == Visible IN
             \E q \in DOMAIN rects : rects[q].pane = focused /\ EnoughSpace(rects[q], dir)
        /\ layout' = SplitLeaf(layout, focused, nextPane, dir)
        /\ focused' = nextPane /\ zoomed' = FALSE
        /\ ResizeAll(layout', FALSE, nextPane, screen,
                     [p \in Panes \cup {nextPane} |-> IF p = nextPane THEN Spawned ELSE size[p]])
     \/ UNCHANGED <<layout, focused, zoomed, screen, size, unsized, failures>>

AdjustRatio(delta) ==
  /\ adjusts < MaxAdjusts /\ Cardinality(Panes) > 1
  /\ adjusts' = adjusts + 1
  /\ layout' = AdjustRatioFor(layout, focused, delta)
  /\ ResizeAll(layout', zoomed, focused, screen, size)
  /\ UNCHANGED <<focused, zoomed, nextPane>>

CloseFocused ==
  /\ Cardinality(Panes) > 1
  /\ layout' = CloseLeaf(layout, focused)
  /\ focused' = FirstPane(layout') /\ zoomed' = FALSE
  /\ ResizeAll(layout', FALSE, focused', screen, [p \in Panes \ {focused} |-> size[p]])
  /\ UNCHANGED <<nextPane, adjusts>>

Focus(dir) ==
  /\ focused' = FocusNeighbor(layout, focused, dir, screen)
  /\ unsized' = (unsized \/ (zoomed /\ focused' # focused))
  /\ UNCHANGED <<layout, zoomed, screen, size, nextPane, adjusts, failures>>

ToggleZoom ==
  /\ zoomed' = ~zoomed /\ unsized' = TRUE
  /\ UNCHANGED <<layout, focused, screen, size, nextPane, adjusts, failures>>

\* flush_snapshots, when the debounce of a Resize is over
Resize(s) ==
  /\ ResizeAll(layout, zoomed, focused, s, size)
  /\ UNCHANGED <<layout, focused, zoomed, nextPane, adjusts>>

\* attach_session: if the pane with the focus has exited, its command is started
\* again.  That resizes to the old screen, and then the new one follows.
Attach(s) ==
  /\ LET restarted == [size EXCEPT ![focused] = Spawned]
         rects == Rectangles(layout, zoomed, focused, Fits(screen))
     IN \/ ResizeAll(layout, zoomed, focused, s, size)
        \/ ResizeFails(layout, zoomed, focused, screen, restarted)
        \/ ResizeAll(layout, zoomed, focused, s, SizedBy(rects, DOMAIN rects, restarted))
  /\ UNCHANGED <<layout, focused, zoomed, nextPane, adjusts>>

Directions == {"left", "right", "up", "down"}

Next ==
  \/ \E dir \in {"vertical", "horizontal"} : Split(dir)
  \/ \E delta \in Deltas : AdjustRatio(delta)
  \/ \E dir \in Directions : Focus(dir)
  \/ \E s \in Sizes : Resize(s) \/ Attach(s)
  \/ CloseFocused \/ ToggleZoom

Spec == Init /\ [][Next]_vars

-----------------------------------------------------------------------------
Inside(r, s) ==
  r.rows > 0 /\ r.cols > 0 /\ r.x + r.cols <= s[2] /\ r.y + r.rows <= s[1]
Disjoint(r, q) ==
  r.x + r.cols <= q.x \/ q.x + q.cols <= r.x \/ r.y + r.rows <= q.y \/ q.y + q.rows <= r.y
Holds(r, x, y) == x \in r.x .. r.x + r.cols - 1 /\ y \in r.y .. r.y + r.rows - 1

Tiles ==
  LET rects == Rects(layout, screen)
      borders == Borders(layout, screen)
  IN [q \in DOMAIN rects \cup DOMAIN borders |->
        IF q \in DOMAIN rects THEN rects[q] ELSE borders[q]]

\* The panes and the borders cover the screen, every cell once, whatever was
\* split, closed and adjusted, on the smallest screens and where a u16 overflows;
\* and no pane is without a cell.  (If a cell were not covered, one would be that
\* has an edge to its left and one above.)
ScreenIsTiled ==
  LET tiles == Tiles
      columns == {0} \cup {tiles[q].x + tiles[q].cols : q \in DOMAIN tiles}
      lines == {0} \cup {tiles[q].y + tiles[q].rows : q \in DOMAIN tiles}
  IN /\ \A q \in DOMAIN tiles : Inside(tiles[q], screen)
     /\ \A q, r \in DOMAIN tiles : q # r => Disjoint(tiles[q], tiles[r])
     /\ \A x \in columns, y \in lines :
          x < screen[2] /\ y < screen[1] => \E q \in DOMAIN tiles : Holds(tiles[q], x, y)

\* The tree and the panes go together: its leaves are the panes, each once, the
\* focus is on one, and every pane that is shown has the size it is shown with;
\* unless the zoom has changed since (toggle_zoom and focus resize nothing) or a
\* resize failed.
LayoutFitsPanes ==
  /\ {layout.leaf[q] : q \in DOMAIN layout.leaf} = Panes
  /\ \A q, r \in DOMAIN layout.leaf : layout.leaf[q] = layout.leaf[r] => q = r
  /\ focused \in Panes
  /\ LET rects == Visible IN
     unsized \/ \A q \in DOMAIN rects : size[rects[q].pane] = <<rects[q].rows, rects[q].cols>>

AtEdge(dir, r, s) ==
  CASE dir = "left" -> r.x = 0
    [] dir = "right" -> r.x + r.cols = s[2]
    [] dir = "up" -> r.y = 0
    [] dir = "down" -> r.y + r.rows = s[1]

\* From every visible pane the focus moves in every direction in which the pane does
\* not end at the edge of the screen, to one that lies there and of which no other
\* there is nearer along the direction; otherwise it stays.
FocusMoves ==
  LET rects == Rects(layout, screen) IN
  \A q \in DOMAIN rects, dir \in Directions :
    LET to == FocusNeighbor(layout, rects[q].pane, dir, screen)
        there == {r \in DOMAIN rects : Lies(dir, rects[r], rects[q])}
        Ahead(r) == Apart(dir, rects[r], rects[q])[1]
    IN IF AtEdge(dir, rects[q], screen) THEN to = rects[q].pane
       ELSE \E r \in there : rects[r].pane = to /\ \A w \in there : Ahead(r) <= Ahead(w)

OthersStay ==
  LET before == Rects(layout, screen')
      after == Rects(layout', screen')
  IN \A q \in DOMAIN before : before[q].pane # focused =>
       \E r \in DOMAIN after : after[r] = before[q]

\* Share wraps at a ratio of 50.
HalfOverflows(length) == (length - 1) * 50 >= U16

HalvesSuffice ==
  LET before == Rects(layout, screen')
      after == Rects(layout', screen')
      old == before[CHOOSE q \in DOMAIN before : before[q].pane = focused]
  IN \A r \in DOMAIN after : after[r].pane \in {focused, nextPane} =>
       /\ after[r].rows >= 3 \/ after[r].rows = old.rows \/ HalfOverflows(old.rows)
       /\ after[r].cols >= 10 \/ after[r].cols = old.cols \/ HalfOverflows(old.cols)

\* A split takes its room from the focused pane: the rest stay where they are, and
\* both halves have the minimum along what is divided (10 columns or 3 rows),
\* unless the pane was zoomed, as its place in the layout is not looked at then,
\* or the product of Share overflows.  (A screen of one row is given two first.)
SplitDividesFocused ==
  [][(nextPane \in DOMAIN size') => OthersStay /\ (zoomed \/ HalvesSuffice)]_vars
=============================================================================
