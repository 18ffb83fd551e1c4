------------------------------ MODULE InputState ------------------------------
(***************************************************************************)
(* The key modes and the mouse selection of the interactive client         *)
(* (InputState in src/client.rs): what the bytes of one read of the        *)
(* terminal become, what a tick adds, and what a Snapshot changes.         *)
(*                                                                         *)
(* Bytes are taken in pieces [is, row, col]: a key, "esc", "[", or the     *)
(* rest of an escape sequence behind these two.  A read may end behind any *)
(* piece.  The SGR and the X10 encoding of a mouse event are one piece.    *)
(* Messages of one name and no field the state depends on are told apart   *)
(* by that name only.                                                      *)
(***************************************************************************)
EXTENDS Integers, Sequences

CONSTANTS
  Typed,     \* the pieces the terminal delivers
  MaxRead,   \* bound: pieces in one read
  Sizes,     \* sizes of the terminal, <<rows, cols>>
  Screens,   \* what Snapshots say of the pane: [mouse, alternate, history]
  MaxQuery,  \* bound: characters of a query
  MaxDrift   \* bound: rows a selection scrolls away from the screen

ASSUME InputAssumption ==
  /\ MaxRead \in Nat \ {0} /\ MaxQuery \in Nat /\ MaxDrift \in Nat
  /\ \A p \in Typed : p.is \in STRING /\ p.row \in Nat /\ p.col \in Nat
  /\ Sizes # {} /\ \A s \in Sizes : s[1] \in Nat \ {0} /\ s[2] \in Nat \ {0}
  /\ Screens \subseteq [mouse : BOOLEAN, alternate : BOOLEAN, history : BOOLEAN]

VARIABLE
  input      \* the InputState: a record, because feed works on all of it

DragThreshold == 2      \* SELECTION_DRAG_THRESHOLD
WheelLines == 3         \* MOUSE_SCROLL_LINES
PageLines == 10

Piece(is) == [is |-> is, row |-> 0, col |-> 0]

\* A state on its way through feed, with the actions it has produced.
Emit(r, action) == [r EXCEPT !.out = Append(@, action)]
Become(r, s) == [r EXCEPT !.in = s]

Start(rows, cols) ==
  [prefix |-> FALSE, mode |-> "normal", query |-> 0, lastQuery |-> FALSE,
   pendingEscape |-> <<>>,
   screen |-> [mouse |-> FALSE, alternate |-> FALSE, history |-> TRUE],
   rows |-> rows, cols |-> cols, cursorRow |-> rows - 1, cursorCol |-> 0,
   anchor |-> <<>>, copyMode |-> "character",
   selecting |-> FALSE, dragRow |-> rows - 1, dragCol |-> 0,
   edge |-> "none", started |-> FALSE, pending |-> FALSE]

Within(lo, x, hi) == IF x < lo THEN lo ELSE IF x > hi THEN hi ELSE x
Least(x, y) == IF x < y THEN x ELSE y
Most(x, y) == IF x < y THEN y ELSE x
Distance(x, y) == Most(x - y, y - x)

Selected(s) == s.anchor # <<>>
Scrolls(s) == ~s.screen.alternate /\ s.screen.history

ClearAutoscroll(s) ==
  [s EXCEPT !.edge = "none", !.started = FALSE, !.pending = FALSE]

EnterScrollMode(s) ==
  [ClearAutoscroll(s) EXCEPT
     !.mode = "scroll", !.anchor = <<>>, !.copyMode = "character",
     !.dragRow = s.rows - 1, !.dragCol = 0,
     !.cursorRow = s.rows - 1, !.cursorCol = 0]

ExitScrollMode(s) ==
  [ClearAutoscroll(s) EXCEPT
     !.mode = "normal", !.anchor = <<>>, !.copyMode = "character",
     !.selecting = FALSE]

LeaveScrolling(r) == Emit(Become(r, ExitScrollMode(r.in)), <<"scrollToBottom">>)

-----------------------------------------------------------------------------
(* The selection *)

Precedes(row1, col1, row2, col2) == row1 < row2 \/ (row1 = row2 /\ col1 <= col2)

\* selection_coordinates: <<start row, start column, end row, end column>>
Coordinates(s) ==
  LET row == s.anchor[1]
      col == s.anchor[2]
  IN IF ~Selected(s) THEN <<0, 0, s.rows - 1, s.cols>>
     ELSE IF s.copyMode = "line"
     THEN <<Least(row, s.cursorRow), 0, Most(row, s.cursorRow), s.cols>>
     ELSE IF Precedes(row, col, s.cursorRow, s.cursorCol)
     THEN <<row, col, s.cursorRow, s.cursorCol + 1>>
     ELSE <<s.cursorRow, s.cursorCol, row, col + 1>>

Copy(s) == <<"copy", Coordinates(s), s.copyMode>>

ToggleSelection(s, copyMode) ==
  LET released == [s EXCEPT !.selecting = FALSE]
  IN IF Selected(s) /\ s.copyMode = copyMode
     THEN [released EXCEPT !.anchor = <<>>]
     ELSE [released EXCEPT !.anchor = <<s.cursorRow, s.cursorCol>>,
                           !.copyMode = copyMode]

AutoscrollRows(edge) == IF edge = "top" THEN 1 ELSE -1

EdgeAt(s, row) ==
  IF row = 0 THEN "top" ELSE IF row = s.rows - 1 THEN "bottom" ELSE "none"

\* update_autoscroll: the pointer has been dragged to `row`
UpdateAutoscroll(r, row) ==
  LET s == r.in
      edge == EdgeAt(s, row)
      moved == [s EXCEPT !.edge = edge, !.started = edge # "none"]
  IN IF ~Scrolls(s) THEN Become(r, ClearAutoscroll(s))
     ELSE IF edge = s.edge THEN r
     ELSE IF edge = "none" THEN Become(r, moved)
     ELSE Emit(Become(r, [moved EXCEPT !.pending = TRUE]),
               <<"scroll", AutoscrollRows(edge)>>)

\* A drag selects once the pointer is far enough from where it was pressed.
DragStarts(s, m, row, col) ==
  /\ ~Selected(s) /\ m.is = "drag"
  /\ Most(Distance(row, s.dragRow), Distance(col, s.dragCol)) >= DragThreshold

\* handle_mouse_selection while the button is held
Drag(r, m, row, col) ==
  LET s == r.in
      begun == IF DragStarts(s, m, row, col)
               THEN [EnterScrollMode(s) EXCEPT !.anchor = <<s.dragRow, s.dragCol>>]
               ELSE s
      here == Become(r, [begun EXCEPT !.cursorRow = row, !.cursorCol = col])
      dragged == IF Selected(begun) /\ m.is = "drag"
                 THEN UpdateAutoscroll(here, row) ELSE here
      released == Become(dragged, [ClearAutoscroll(dragged.in) EXCEPT
                                     !.selecting = FALSE])
  IN IF m.is # "release" THEN dragged
     ELSE IF Selected(begun) THEN Emit(released, Copy(released.in))
     ELSE released

\* handle_mouse_selection for the press that begins a drag
Press(s, row, col) ==
  [s EXCEPT !.anchor = IF s.mode = "scroll" THEN <<row, col>> ELSE @,
            !.copyMode = IF s.mode = "scroll" THEN "character" ELSE @,
            !.dragRow = row, !.dragCol = col,
            !.cursorRow = row, !.cursorCol = col, !.selecting = TRUE]

IsWheel(m) == m.is \in {"wheelUp", "wheelDown"}

\* The wheel: pages for the application, or the history.
Wheel(r, m) ==
  LET s == r.in
      up == m.is = "wheelUp"
      scrolling == IF s.mode = "scroll" THEN s ELSE EnterScrollMode(s)
  IN IF ~Scrolls(s)
     THEN Emit(r, <<"forward", Piece(IF up THEN "pageUp" ELSE "pageDown")>>)
     ELSE Emit(Become(r, scrolling),
               <<"scroll", IF up THEN WheelLines ELSE -WheelLines>>)

\* A mouse event (with Shift held nothing would go to the application).
Mouse(r, m) ==
  LET s == r.in
      row == Least(m.row, s.rows - 1)
      col == Least(m.col, s.cols - 1)
  IN IF s.screen.mouse /\ s.mode # "scroll" THEN Emit(r, <<"forward", m>>)
     ELSE IF IsWheel(m) THEN Wheel(r, m)
     ELSE IF s.selecting THEN Drag(r, m, row, col)
     ELSE IF m.is = "press" THEN Become(r, Press(s, row, col))
     ELSE r

-----------------------------------------------------------------------------
(* Keys (feed_byte) *)

\* What the prefix key makes of the next one.  Splits, ratios, zoom, focus and
\* closing are messages the state does not depend on.
PrefixCommands == {"c", "v", "s", "+", "-", "x", "z", "h", "j", "k", "l"}

PrefixKey(r, key) ==
  LET done == [r.in EXCEPT !.prefix = FALSE]
      asking == [done EXCEPT !.query = 0]
  IN CASE key.is = "d" -> Emit(Become(r, done), <<"detach">>)
       [] key.is = "[" -> Become(r, EnterScrollMode(done))
       [] key.is = "/" -> Become(r, [asking EXCEPT !.mode = "search"])
       [] key.is = "r" -> Become(r, [asking EXCEPT !.mode = "rename"])
       [] key.is \in PrefixCommands -> Emit(Become(r, done), <<"command", key.is>>)
       [] OTHER -> Emit(Emit(Become(r, done), <<"forward", Piece("prefix")>>),
                        <<"forward", key>>)

NormalKey(r, key) ==
  IF r.in.prefix THEN PrefixKey(r, key)
  ELSE IF key.is = "prefix" THEN Become(r, [r.in EXCEPT !.prefix = TRUE])
  ELSE Emit(r, <<"forward", key>>)

\* The keys that move the end of a selection.
MoveCursor(s, key) ==
  CASE key = "j" -> [s EXCEPT !.cursorRow = Within(0, @ + 1, s.rows - 1)]
    [] key = "k" -> [s EXCEPT !.cursorRow = Most(@ - 1, 0)]
    [] key = "h" -> [s EXCEPT !.cursorCol = Most(@ - 1, 0)]
    [] key = "l" -> [s EXCEPT !.cursorCol = Least(@ + 1, s.cols - 1)]

ScrollKeys == [j |-> <<"scroll", -1>>, k |-> <<"scroll", 1>>,
               g |-> <<"scrollToTop">>, G |-> <<"scrollToBottom">>]

CopyModes == [v |-> "character", V |-> "line", R |-> "rectangle"]

\* feed_scroll_byte ("R" stands for Ctrl-V)
ScrollKey(r, key) ==
  LET s == r.in IN
  CASE key.is \in {"j", "k", "h", "l"} /\ Selected(s) -> Become(r, MoveCursor(s, key.is))
    [] key.is \in {"j", "k"} /\ ~Selected(s) -> Emit(r, ScrollKeys[key.is])
    [] key.is \in {"g", "G"} -> Emit(r, ScrollKeys[key.is])
    [] key.is \in {"n", "N"} /\ s.lastQuery -> Emit(r, <<"search">>)
    [] key.is \in DOMAIN CopyModes -> Become(r, ToggleSelection(s, CopyModes[key.is]))
    [] key.is = "y" -> Emit(r, Copy(s))
    [] key.is = "/" -> Become(r, [s EXCEPT !.mode = "search", !.query = 0])
    [] key.is = "q" -> LeaveScrolling(r)
    [] OTHER -> r

\* What is typed into a query or a name (the prefix key is a control key).
Edited(s, key) ==
  CASE key.is = "backspace" -> [s EXCEPT !.query = Most(@ - 1, 0)]
    [] key.is = "prefix" -> s
    [] OTHER -> [s EXCEPT !.query = @ + 1]

SearchKey(r, key) ==
  LET s == r.in IN
  IF key.is = "enter"
  THEN Emit(Become(r, [s EXCEPT !.mode = "scroll", !.query = 0,
                                !.lastQuery = s.query > 0]), <<"search">>)
  ELSE Become(r, Edited(s, key))

RenameKey(r, key) ==
  LET s == r.in
      done == Become(r, [s EXCEPT !.mode = "normal", !.query = 0])
  IN IF key.is # "enter" THEN Become(r, Edited(s, key))
     ELSE IF s.query > 0 THEN Emit(done, <<"rename">>)
     ELSE done

FeedByte(r, key) ==
  CASE r.in.mode = "normal" -> NormalKey(r, key)
    [] r.in.mode = "scroll" -> ScrollKey(r, key)
    [] r.in.mode = "search" -> SearchKey(r, key)
    [] r.in.mode = "rename" -> RenameKey(r, key)

-----------------------------------------------------------------------------
(* Escape sequences (feed) *)

MouseEvents == {"press", "drag", "release", "wheelUp", "wheelDown"}

\* parse_scroll_escape, and the two of these that Normal mode takes as well
EscapeScrolls ==
  [up |-> <<"scroll", 1>>, down |-> <<"scroll", -1>>,
   home |-> <<"scrollToTop">>, end |-> <<"scrollToBottom">>,
   pageUp |-> <<"scroll", PageLines>>, pageDown |-> <<"scroll", -PageLines>>]
Pages == {"pageUp", "pageDown"}

\* Mutant: a lone escape is taken for a key at once.
EscapeLengthNow(b) ==
  IF Len(b) < 2 THEN 1 ELSE IF b[2].is # "[" THEN 2 ELSE IF Len(b) < 3 THEN 0 ELSE 3

\* escape_sequence_len, 0 if the sequence is not complete
EscapeLength(b) ==
  IF Len(b) < 2 THEN 0
  ELSE IF b[2].is # "[" THEN 2
  ELSE IF Len(b) < 3 THEN 0
  ELSE 3

\* push_forward, piece by piece
ForwardAll(r, b) ==
  [r EXCEPT !.out = @ \o [i \in 1 .. Len(b) |-> <<"forward", b[i]>>]]

\* A complete sequence at the head of what is read, `rest` behind it.  Scroll
\* mode knows its own only when nothing follows in the same read.
Escape(r, sequence, rest) ==
  LET s == r.in
      last == sequence[Len(sequence)]
      control == Len(sequence) = 3
  IN CASE control /\ last.is \in MouseEvents -> Mouse(r, last)
       [] control /\ last.is \in Pages /\ s.mode = "normal" /\ Scrolls(s) ->
            Emit(Become(r, EnterScrollMode(s)), EscapeScrolls[last.is])
       [] control /\ last.is \in DOMAIN EscapeScrolls /\ s.mode = "scroll"
            /\ rest = <<>> -> Emit(r, EscapeScrolls[last.is])
       [] OTHER -> ForwardAll(r, sequence)

\* One turn of the loop in feed: what it leaves of the read.
Taken(r, b) ==
  LET n == EscapeLength(b) IN
  CASE b[1].is # "esc" -> [r |-> FeedByte(r, b[1]), rest |-> Tail(b)]
    [] b[1].is = "esc" /\ r.in.mode = "scroll" /\ n = 2 /\ b[2].is = "esc" ->
         [r |-> LeaveScrolling(r), rest |-> Tail(b)]
    [] b[1].is = "esc" /\ n = 0 ->
         [r |-> Become(r, [r.in EXCEPT !.pendingEscape = b]), rest |-> <<>>]
    [] OTHER -> LET rest == SubSeq(b, n + 1, Len(b))
                IN [r |-> Escape(r, SubSeq(b, 1, n), rest), rest |-> rest]

\* The turns of the loop; one without input leaves everything as it is.
Turn(t) == IF t.rest = <<>> THEN t ELSE Taken(t.r, t.rest)

\* Every turn takes a piece at least.
Loop(r, b) ==
  LET turn[i \in 0 .. Len(b)] ==
        IF i = 0 THEN [r |-> r, rest |-> b] ELSE Turn(turn[i - 1])
  IN turn[Len(b)].r

\* feed: what was held back goes before what is read.
Fed(s, b) ==
  Loop([in |-> [s EXCEPT !.pendingEscape = <<>>], out |-> <<>>], s.pendingEscape \o b)

\* A read as a terminal sends it: what is left of a sequence follows its
\* beginning, and nothing else does.
Follows(before, p) ==
  LET n == Len(before)
      opened == n >= 2 /\ before[n].is = "[" /\ before[n - 1].is = "esc"
  IN (p.is \in MouseEvents \cup DOMAIN EscapeScrolls \cup {"other"}) <=> opened

Reads == UNION {[1 .. n -> Typed] : n \in 1 .. MaxRead}

CanRead(s, b) ==
  LET all == s.pendingEscape \o b
      n == Len(s.pendingEscape)
  IN \A i \in n + 1 .. Len(all) : Follows(SubSeq(all, 1, i - 1), all[i])

-----------------------------------------------------------------------------
(* Ticks and Snapshots *)

\* tick, when the autoscroll interval or the 50 ms of an escape are over: what
\* it leaves and sends.  While a request to scroll is unanswered there is no
\* other, and a tick that scrolls does not look at the escape.
Autoscrolls(s) == s.selecting /\ Selected(s) /\ ~s.pending /\ s.started

AutoscrollTick(s) ==
  LET r == [in |-> [s EXCEPT !.pending = TRUE], out |-> <<>>]
  IN IF s.edge = "none" THEN r ELSE Emit(r, <<"scroll", AutoscrollRows(s.edge)>>)

EscapeTick(s) ==
  LET r == [in |-> [s EXCEPT !.pendingEscape = <<>>], out |-> <<>>]
  IN IF s.mode = "scroll" THEN LeaveScrolling(r)
     ELSE ForwardAll(r, s.pendingEscape)

SetSize(s, rows, cols) ==
  LET kept == [s EXCEPT
        !.rows = rows, !.cols = cols,
        !.cursorRow = IF Selected(s) THEN @ ELSE Within(0, @, rows - 1),
        !.cursorCol = Least(@, cols - 1),
        !.dragRow = Least(@, rows - 1), !.dragCol = Least(@, cols - 1)]
  IN IF Selected(s) /\ s.anchor[2] >= cols
     THEN [ClearAutoscroll(kept) EXCEPT !.anchor = <<>>, !.selecting = FALSE]
     ELSE kept

SetScreen(s, screen) ==
  [IF screen.history THEN s ELSE ClearAutoscroll(s) EXCEPT !.screen = screen]

\* apply_viewport_scroll_delta: the selection goes with its text, but for the
\* end that the pointer holds at an edge.
ScrollSelection(s, delta) ==
  LET answered == [s EXCEPT !.pending = FALSE, !.started = @ \/ s.pending]
  IN IF delta = 0 THEN s
     ELSE IF ~Selected(s) THEN answered
     ELSE [answered EXCEPT !.anchor[1] = @ + delta,
                           !.cursorRow = IF s.edge = "none" THEN @ + delta ELSE @]

\* What a Snapshot changes (handle_server_message); `atEnd` says that the pane
\* is not scrolled.
Shown(s, size, screen, delta, atEnd) ==
  LET scrolled == ScrollSelection(SetScreen(SetSize(s, size[1], size[2]), screen), delta)
  IN IF atEnd /\ scrolled.edge = "bottom" THEN ClearAutoscroll(scrolled) ELSE scrolled

-----------------------------------------------------------------------------
Bounded(s) ==
  /\ s.query <= MaxQuery
  /\ Selected(s) => /\ s.anchor[1] \in -MaxDrift .. s.rows - 1 + MaxDrift
                    /\ s.cursorRow \in -MaxDrift .. s.rows - 1 + MaxDrift

Init == \E size \in Sizes : input = Start(size[1], size[2])

Becomes(s) == Bounded(s) /\ input' = s

Feed(b) == CanRead(input, b) /\ Becomes(Fed(input, b).in)

\* The autoscroll has the first turn.
TickScrolls == Autoscrolls(input) /\ Becomes(AutoscrollTick(input).in)
TickEscapes == input.pendingEscape # <<>> /\ Becomes(EscapeTick(input).in)

Snapshot(size, screen, delta, atEnd) == Becomes(Shown(input, size, screen, delta, atEnd))

\* refresh_terminal_size
TerminalResized(size) == Becomes(SetSize(input, size[1], size[2]))

Next ==
  \/ \E b \in Reads : Feed(b)
  \/ TickScrolls \/ TickEscapes
  \/ \E size \in Sizes, screen \in Screens, delta \in -1 .. 1, atEnd \in BOOLEAN :
       Snapshot(size, screen, delta, atEnd)
  \/ \E size \in Sizes : TerminalResized(size)

Spec == Init /\ [][Next]_input

-----------------------------------------------------------------------------
\* A read that is cut in two between any pieces does what it does in one, as far
\* as no tick comes in between.  Known exception: a scroll sequence of Scroll
\* mode that is completed with more behind it in the same read is not known
\* (parse_scroll_escape compares all that is left) and goes to the application.
InTwo(s, p, q) ==
  LET first == Fed(s, <<p>>)
      second == Fed(first.in, <<q>>)
  IN [in |-> second.in, out |-> first.out \o second.out]

ScrollKeyWithMore(s, p) ==
  s.mode = "scroll" /\ Len(s.pendingEscape) = 2 /\ p.is \in DOMAIN EscapeScrolls

ReadBoundariesDoNotMatter ==
  \A p, q \in Typed :
    CanRead(input, <<p, q>>) =>
      \/ Fed(input, <<p, q>>) = InTwo(input, p, q)
      \/ ScrollKeyWithMore(input, p)
=============================================================================
