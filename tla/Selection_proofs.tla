--------------------------- MODULE Selection_proofs ---------------------------
(***************************************************************************)
(* Proofs about modules InputState and Selection: where the bytes of the   *)
(* terminal are cut into reads does not matter, a selection stays on its   *)
(* line while the view scrolls under it, and what is copied is what was    *)
(* highlighted.                                                            *)
(***************************************************************************)
EXTENDS Selection, SequenceTheorems, WellFoundedInduction, TLAPS

LEMMA SetInduction ==
  ASSUME NEW S, 0 \in S, \A n \in Nat : n \in S => n + 1 \in S
  PROVE  Nat \subseteq S
<1> SUFFICES ASSUME Nat \ S # {} PROVE FALSE
  OBVIOUS
<1>1. PICK x \in Nat \ S : \A y \in Nat \ S : ~ (<<y, x>> \in OpToRel(<, Nat))
  BY NatLessThanWellFounded, WFMin
<1>2. x # 0 /\ x - 1 \in Nat OBVIOUS
<1>3. <<x - 1, x>> \in OpToRel(<, Nat) BY <1>2 DEF OpToRel
<1>4. x - 1 \in S BY <1>1, <1>2, <1>3
<1>5. (x - 1) + 1 = x OBVIOUS
<1> QED BY <1>2, <1>4, <1>5

-----------------------------------------------------------------------------
(* Sequences of anything: what the actions of a read are. *)

IsSeq(x) == \E S : x \in Seq(S)

LEMMA Widen ==
  ASSUME NEW x, NEW y, IsSeq(x), IsSeq(y), NEW a
  PROVE  \E S : a \in S /\ x \in Seq(S) /\ y \in Seq(S)
<1>1. PICK A : x \in Seq(A) BY DEF IsSeq
<1>2. PICK B : y \in Seq(B) BY DEF IsSeq
<1> DEFINE S == A \cup B \cup {a}
<1>3. x \in Seq(S) /\ y \in Seq(S)
  <2>1. A \subseteq S /\ B \subseteq S OBVIOUS
  <2> HIDE DEF S
  <2> QED BY <1>1, <1>2, <2>1, SeqMonotonic
<1>4. a \in S OBVIOUS
<1> QED BY <1>3, <1>4

LEMMA EmptyIsSeq == IsSeq(<<>>)
<1>1. <<>> \in Seq({}) OBVIOUS
<1> QED BY <1>1 DEF IsSeq

LEMMA Appending ==
  ASSUME NEW o, NEW x, IsSeq(o), IsSeq(x), NEW a
  PROVE  IsSeq(Append(x, a)) /\ o \o Append(x, a) = Append(o \o x, a)
<1>1. PICK S : a \in S /\ o \in Seq(S) /\ x \in Seq(S) BY Widen
<1>2. Append(x, a) \in Seq(S) BY <1>1, AppendProperties
<1>3. <<a>> \in Seq(S) BY <1>1
<1>4. o \o x \in Seq(S) BY <1>1, ConcatProperties
<1>5. Append(x, a) = x \o <<a>> /\ Append(o \o x, a) = (o \o x) \o <<a>>
  BY <1>1, <1>4, AppendIsConcat
<1>6. (o \o x) \o <<a>> = o \o (x \o <<a>>) BY <1>1, <1>3, ConcatAssociative
<1> QED BY <1>2, <1>5, <1>6 DEF IsSeq

LEMMA Concatenating ==
  ASSUME NEW o, NEW x, NEW y, IsSeq(o), IsSeq(x), IsSeq(y)
  PROVE  IsSeq(x \o y) /\ o \o (x \o y) = (o \o x) \o y
<1>1. PICK S : x \in Seq(S) /\ y \in Seq(S) BY Widen
<1>2. x \o y \in Seq(S) BY <1>1, ConcatProperties
<1>3. IsSeq(x \o y) BY <1>2 DEF IsSeq
<1>4. PICK R : o \in Seq(R) /\ x \o y \in Seq(R) BY <1>3, Widen
<1> DEFINE T == S \cup R
<1>5. S \subseteq T /\ R \subseteq T OBVIOUS
<1> HIDE DEF T
<1>6. x \in Seq(T) /\ y \in Seq(T) BY <1>1, <1>5, SeqMonotonic
<1>7. o \in Seq(T) BY <1>4, <1>5, SeqMonotonic
<1>8. (o \o x) \o y = o \o (x \o y) BY <1>6, <1>7, ConcatAssociative
<1> QED BY <1>3, <1>8

\* An action of the client; what scrolls says by how many lines.
IsAction(a) == a[1] = "scroll" => a[2] \in Int

\* Actions in their order.
Told(x) == IsSeq(x) /\ \A i \in 1 .. Len(x) : IsAction(x[i])

LEMMA EmptyTold == Told(<<>>)
<1>1. IsSeq(<<>>) BY EmptyIsSeq
<1>2. Len(<<>>) = 0 OBVIOUS
<1> QED BY <1>1, <1>2 DEF Told

LEMMA EmptyUnit ==
  ASSUME NEW x, Told(x)
  PROVE  <<>> \o x = x /\ x \o <<>> = x
BY ConcatEmptySeq DEF IsSeq, Told

LEMMA ToldAppend ==
  ASSUME NEW o, NEW x, Told(o), Told(x), NEW a, IsAction(a)
  PROVE  Told(Append(x, a)) /\ o \o Append(x, a) = Append(o \o x, a)
<1>1. /\ IsSeq(Append(x, a)) /\ o \o Append(x, a) = Append(o \o x, a)
      /\ IsSeq(x) /\ \A i \in 1 .. Len(x) : IsAction(x[i])
  BY Appending DEF Told
<1>2. PICK S : a \in S /\ x \in Seq(S) BY <1>1, Widen
<1> DEFINE y == Append(x, a)
<1>3. /\ Len(y) = Len(x) + 1 /\ Len(x) \in Nat
      /\ \A i \in 1 .. Len(x) : y[i] = x[i]
      /\ y[Len(x) + 1] = a
  BY <1>2, AppendProperties, LenProperties
<1> HIDE DEF y
<1>4. ASSUME NEW i \in 1 .. Len(y) PROVE IsAction(y[i])
  <2>1. i \in 1 .. Len(x) \/ i = Len(x) + 1 BY <1>3
  <2> QED BY <1>1, <1>3, <2>1
<1> QED BY <1>1, <1>4 DEF Told, y

LEMMA ToldConcat ==
  ASSUME NEW o, NEW x, NEW y, Told(o), Told(x), Told(y)
  PROVE  Told(x \o y) /\ o \o (x \o y) = (o \o x) \o y
<1>1. /\ IsSeq(x \o y) /\ o \o (x \o y) = (o \o x) \o y
      /\ IsSeq(x) /\ \A i \in 1 .. Len(x) : IsAction(x[i])
      /\ IsSeq(y) /\ \A i \in 1 .. Len(y) : IsAction(y[i])
  BY Concatenating DEF Told
<1>2. PICK S : x \in Seq(S) /\ y \in Seq(S) BY <1>1, Widen
<1> DEFINE z == x \o y
<1>3. /\ Len(z) = Len(x) + Len(y) /\ Len(x) \in Nat /\ Len(y) \in Nat
      /\ \A i \in 1 .. Len(x) + Len(y) : z[i] = IF i <= Len(x) THEN x[i] ELSE y[i - Len(x)]
  BY <1>2, ConcatProperties, LenProperties
<1> HIDE DEF z
<1>4. ASSUME NEW i \in 1 .. Len(z) PROVE IsAction(z[i])
  <2>1. CASE i <= Len(x)
    <3>1. i \in 1 .. Len(x) BY <1>3, <2>1
    <3> QED BY <1>1, <1>3, <2>1, <3>1
  <2>2. CASE ~ (i <= Len(x))
    <3>1. i - Len(x) \in 1 .. Len(y) /\ i \in 1 .. Len(x) + Len(y) BY <1>3, <2>2
    <3>2. z[i] = y[i - Len(x)] BY <1>3, <2>2, <3>1
    <3> QED BY <1>1, <3>1, <3>2
  <2> QED BY <2>1, <2>2
<1> QED BY <1>1, <1>4 DEF Told, z

-----------------------------------------------------------------------------
(* A state on its way through feed.                                        *)

InputStates ==
  [prefix : BOOLEAN, mode : {"normal", "scroll", "search", "rename"}, query : Nat,
   lastQuery : BOOLEAN, pendingEscape : Seq(Typed),
   screen : [mouse : BOOLEAN, alternate : BOOLEAN, history : BOOLEAN],
   rows : Nat \ {0}, cols : Nat \ {0}, cursorRow : Int, cursorCol : Int,
   anchor : {<<>>} \cup (Int \X Int),
   copyMode : {"character", "line", "rectangle"}, selecting : BOOLEAN,
   dragRow : Int, dragCol : Int, edge : {"none", "top", "bottom"},
   started : BOOLEAN, pending : BOOLEAN]

Run(r) == \E s \in InputStates : \E w : Told(w) /\ r = [in |-> s, out |-> w]

\* r behind what has been sent before.
Onto(o, r) == [in |-> r.in, out |-> o \o r.out]

\* f is what becomes of r, holding back what r held back, and g what becomes of
\* r behind o.
Good(f, g, r, o) ==
  /\ Run(f) /\ g = Onto(o, f)
  /\ f.in.pendingEscape = r.in.pendingEscape

LEMMA RunParts ==
  ASSUME NEW r, Run(r)
  PROVE  r.in \in InputStates /\ Told(r.out)
<1>1. PICK s \in InputStates : \E w : Told(w) /\ r = [in |-> s, out |-> w] BY DEF Run
<1>2. PICK w : Told(w) /\ r = [in |-> s, out |-> w] BY <1>1
<1>3. r.in = s /\ r.out = w BY <1>2
<1> QED BY <1>2, <1>3

LEMMA EmitIs ==
  ASSUME NEW i \in InputStates, NEW w, NEW a
  PROVE  Emit([in |-> i, out |-> w], a) = [in |-> i, out |-> Append(w, a)]
<1> DEFINE u == Append(w, a)
           W == {w, u}
<1>1. w \in W /\ u \in W OBVIOUS
<1>2. Emit([in |-> i, out |-> w], a) = [[in |-> i, out |-> w] EXCEPT !.out = u]
  BY DEF Emit
<1> HIDE DEF u, W
<1>3. [[in |-> i, out |-> w] EXCEPT !.out = u] = [in |-> i, out |-> u] BY <1>1
<1> QED BY <1>2, <1>3 DEF u

LEMMA BecomeIs ==
  ASSUME NEW i \in InputStates, NEW w, NEW s \in InputStates
  PROVE  Become([in |-> i, out |-> w], s) = [in |-> s, out |-> w]
<1> DEFINE W == {w}
<1>1. w \in W OBVIOUS
<1> HIDE DEF W
<1> QED BY <1>1 DEF Become

LEMMA ForwardAllIs ==
  ASSUME NEW i \in InputStates, NEW w, NEW b
  PROVE  ForwardAll([in |-> i, out |-> w], b) =
           [in |-> i, out |-> w \o [k \in 1 .. Len(b) |-> <<"forward", b[k]>>]]
<1> DEFINE v == [k \in 1 .. Len(b) |-> <<"forward", b[k]>>]
           x == w \o v
           W == {w, x}
<1>1. w \in W /\ x \in W OBVIOUS
<1>2. ForwardAll([in |-> i, out |-> w], b) = [[in |-> i, out |-> w] EXCEPT !.out = x]
  BY DEF ForwardAll
<1> HIDE DEF v, x, W
<1>3. [[in |-> i, out |-> w] EXCEPT !.out = x] = [in |-> i, out |-> x] BY <1>1
<1> QED BY <1>2, <1>3 DEF v, x

LEMMA OntoRun ==
  ASSUME NEW r, Run(r), NEW o, Told(o)
  PROVE  /\ Run(Onto(o, r)) /\ Onto(o, r).in = r.in /\ Onto(o, r).out = o \o r.out
         /\ Onto(<<>>, r) = r
<1>1. PICK s \in InputStates : \E w : Told(w) /\ r = [in |-> s, out |-> w] BY DEF Run
<1>2. PICK w : Told(w) /\ r = [in |-> s, out |-> w] BY <1>1
<1>3. Told(o \o w) /\ <<>> \o w = w BY <1>2, ToldConcat, EmptyUnit
<1>4. Onto(o, r) = [in |-> s, out |-> o \o w] BY <1>2 DEF Onto
<1>5. Onto(<<>>, r) = [in |-> s, out |-> <<>> \o w] BY <1>2 DEF Onto
<1>6. Run(Onto(o, r)) BY <1>3, <1>4 DEF Run
<1>7. /\ r.in = s /\ r.out = w
      /\ Onto(o, r).in = s /\ Onto(o, r).out = o \o w
  BY <1>2, <1>4
<1> QED BY <1>2, <1>3, <1>5, <1>6, <1>7

LEMMA GoodSelf ==
  ASSUME NEW r, Run(r), NEW o, Told(o)
  PROVE  Good(r, Onto(o, r), r, o) /\ Onto(o, r).in = r.in
BY OntoRun DEF Good

LEMMA GoodEmit ==
  ASSUME NEW r, NEW o, Told(o), NEW f, NEW g, Good(f, g, r, o), NEW a, IsAction(a)
  PROVE  /\ Good(Emit(f, a), Emit(g, a), r, o)
         /\ Emit(f, a).in = f.in /\ Emit(g, a).in = f.in /\ g.in = f.in
<1>0. Run(f) /\ g = Onto(o, f) /\ f.in.pendingEscape = r.in.pendingEscape BY DEF Good
<1>1. PICK s \in InputStates : \E w : Told(w) /\ f = [in |-> s, out |-> w]
  BY <1>0 DEF Run
<1>2. PICK w : Told(w) /\ f = [in |-> s, out |-> w] BY <1>1
<1>3. g = [in |-> s, out |-> o \o w] BY <1>0, <1>2 DEF Onto
<1>4. Emit(f, a) = [in |-> s, out |-> Append(w, a)] BY <1>2, EmitIs
<1>5. Emit(g, a) = [in |-> s, out |-> Append(o \o w, a)] BY <1>3, EmitIs
<1>a. Told(w) BY <1>2
<1>b. \A x : Told(x) => Told(Append(x, a)) /\ o \o Append(x, a) = Append(o \o x, a)
  BY ToldAppend
<1>6. Told(Append(w, a)) /\ o \o Append(w, a) = Append(o \o w, a)
  BY <1>a, <1>b
<1>7. Onto(o, Emit(f, a)) = [in |-> s, out |-> o \o Append(w, a)] BY <1>4 DEF Onto
<1>8. Run(Emit(f, a)) BY <1>4, <1>6 DEF Run
<1>9. f.in = s /\ g.in = s /\ Emit(f, a).in = s /\ Emit(g, a).in = s
  BY <1>2, <1>3, <1>4, <1>5
<1> QED BY <1>0, <1>5, <1>6, <1>7, <1>8, <1>9 DEF Good

LEMMA GoodBecome ==
  ASSUME NEW r, NEW o, Told(o), NEW f, NEW g, Good(f, g, r, o),
         NEW s \in InputStates, s.pendingEscape = r.in.pendingEscape
  PROVE  /\ Good(Become(f, s), Become(g, s), r, o)
         /\ Become(f, s).in = s /\ Become(g, s).in = s
<1>0. Run(f) /\ g = Onto(o, f) BY DEF Good
<1>1. PICK i \in InputStates : \E w : Told(w) /\ f = [in |-> i, out |-> w]
  BY <1>0 DEF Run
<1>2. PICK w : Told(w) /\ f = [in |-> i, out |-> w] BY <1>1
<1>3. g = [in |-> i, out |-> o \o w] BY <1>0, <1>2 DEF Onto
<1>4. Become(f, s) = [in |-> s, out |-> w] BY <1>2, BecomeIs
<1>5. Become(g, s) = [in |-> s, out |-> o \o w] BY <1>3, BecomeIs
<1>6. Onto(o, Become(f, s)) = [in |-> s, out |-> o \o w] BY <1>4 DEF Onto
<1>7. Run(Become(f, s)) BY <1>2, <1>4 DEF Run
<1>8. Become(f, s).in = s /\ Become(g, s).in = s BY <1>4, <1>5
<1> QED BY <1>5, <1>6, <1>7, <1>8 DEF Good

LEMMA GoodForward ==
  ASSUME NEW r, NEW o, Told(o), NEW f, NEW g, Good(f, g, r, o),
         NEW b, IsSeq(b)
  PROVE  Good(ForwardAll(f, b), ForwardAll(g, b), r, o)
<1> DEFINE v == [i \in 1 .. Len(b) |-> <<"forward", b[i]>>]
<1>0. Run(f) /\ g = Onto(o, f) /\ f.in.pendingEscape = r.in.pendingEscape BY DEF Good
<1>1. PICK s \in InputStates : \E w : Told(w) /\ f = [in |-> s, out |-> w]
  BY <1>0 DEF Run
<1>2. PICK w : Told(w) /\ f = [in |-> s, out |-> w] BY <1>1
<1>3. g = [in |-> s, out |-> o \o w] BY <1>0, <1>2 DEF Onto
<1>4. Told(v)
  <2>1. PICK S : b \in Seq(S) BY DEF IsSeq
  <2>2. Len(b) \in Nat /\ \A i \in 1 .. Len(b) : b[i] \in S
    BY <2>1, LenProperties, ElementOfSeq
  <2>3. v \in Seq({"forward"} \X S)
    <3>1. \A i \in 1 .. Len(b) : <<"forward", b[i]>> \in {"forward"} \X S BY <2>2
    <3> QED BY <2>2, <3>1, IsASeq
  <2>4. Len(v) = Len(b) BY <2>2, <2>3
  <2>5. \A i \in 1 .. Len(v) : IsAction(v[i]) BY <2>2, <2>4 DEF IsAction
  <2> QED BY <2>3, <2>5 DEF IsSeq, Told
<1>5. ForwardAll(f, b) = [in |-> s, out |-> w \o v] BY <1>2, ForwardAllIs
<1>6. ForwardAll(g, b) = [in |-> s, out |-> (o \o w) \o v] BY <1>3, ForwardAllIs
<1> HIDE DEF v
<1>7. Told(w \o v) /\ o \o (w \o v) = (o \o w) \o v
  BY <1>2, <1>4, ToldConcat
<1>8. Onto(o, ForwardAll(f, b)) = [in |-> s, out |-> o \o (w \o v)] BY <1>5 DEF Onto
<1>9. Run(ForwardAll(f, b)) BY <1>5, <1>7 DEF Run
<1>10. f.in = s /\ ForwardAll(f, b).in = s BY <1>2, <1>5
<1> QED BY <1>0, <1>6, <1>7, <1>8, <1>9, <1>10 DEF Good

-----------------------------------------------------------------------------
(* What the parts of feed make of a state.                                 *)

\* t is a state that holds back what s holds back.
Like(t, s) == t \in InputStates /\ t.pendingEscape = s.pendingEscape

LEMMA LikeTypes ==
  ASSUME NEW s \in InputStates
  PROVE  /\ s.rows \in Nat \ {0} /\ s.cols \in Nat \ {0} /\ s.query \in Nat
         /\ s.cursorRow \in Int /\ s.cursorCol \in Int
         /\ s.dragRow \in Int /\ s.dragCol \in Int
         /\ s.mode \in {"normal", "scroll", "search", "rename"}
         /\ s.anchor \in {<<>>} \cup (Int \X Int)
         /\ s.edge \in {"none", "top", "bottom"}
         /\ s.pendingEscape \in Seq(Typed)
         /\ s.screen.history \in BOOLEAN /\ s.screen.alternate \in BOOLEAN
         /\ s.pending \in BOOLEAN /\ s.started \in BOOLEAN
         /\ Like(s, s)
BY DEF InputStates, Like

LEMMA ClearLike ==
  ASSUME NEW s \in InputStates
  PROVE  Like(ClearAutoscroll(s), s) /\ ClearAutoscroll(s).anchor = s.anchor
BY ZenonT(30) DEF InputStates, Like, ClearAutoscroll

LEMMA EnterLike ==
  ASSUME NEW s \in InputStates
  PROVE  Like(EnterScrollMode(s), s)
<1> DEFINE t == ClearAutoscroll(s)
           n == s.rows - 1
           z == 0
           u == [t EXCEPT !.mode = "scroll", !.anchor = <<>>, !.copyMode = "character"]
           v == [u EXCEPT !.dragRow = n, !.dragCol = z]
           w == [v EXCEPT !.cursorRow = n, !.cursorCol = z]
<1>1. t \in InputStates /\ t.pendingEscape = s.pendingEscape BY ClearLike DEF Like
<1>2. n \in Int /\ z \in Int BY LikeTypes
<1>3. EnterScrollMode(s) =
        [t EXCEPT !.mode = "scroll", !.anchor = <<>>, !.copyMode = "character",
                  !.dragRow = n, !.dragCol = z, !.cursorRow = n, !.cursorCol = z]
  BY DEF EnterScrollMode
<1> HIDE DEF t, n, z
<1>4. EnterScrollMode(s) = w BY <1>1, <1>3 DEF InputStates
<1>5. Like(u, s) BY <1>1 DEF InputStates, Like
<1> HIDE DEF u
<1>6. Like(v, s) BY <1>2, <1>5 DEF InputStates, Like
<1> HIDE DEF v
<1>7. Like(w, s) BY <1>2, <1>6 DEF InputStates, Like
<1> QED BY <1>4, <1>7

LEMMA ExitLike ==
  ASSUME NEW s \in InputStates
  PROVE  Like(ExitScrollMode(s), s)
<1>1. ClearAutoscroll(s) \in InputStates /\ ClearAutoscroll(s).pendingEscape = s.pendingEscape
  BY ClearLike DEF Like
<1> QED BY <1>1, ZenonT(30) DEF InputStates, Like, ExitScrollMode

LEMMA ToggleLike ==
  ASSUME NEW s \in InputStates, NEW m \in {"character", "line", "rectangle"}
  PROVE  Like(ToggleSelection(s, m), s)
<1> DEFINE t == [s EXCEPT !.selecting = FALSE]
           here == <<s.cursorRow, s.cursorCol>>
<1>1. t \in InputStates /\ t.pendingEscape = s.pendingEscape BY DEF InputStates
<1>2. here \in Int \X Int BY LikeTypes
<1>3. \/ ToggleSelection(s, m) = [t EXCEPT !.anchor = <<>>]
      \/ ToggleSelection(s, m) = [t EXCEPT !.anchor = here, !.copyMode = m]
  BY DEF ToggleSelection
<1> HIDE DEF t, here
<1>4. Like([t EXCEPT !.anchor = <<>>], s) BY <1>1 DEF InputStates, Like
<1>5. Like([t EXCEPT !.anchor = here, !.copyMode = m], s)
  BY <1>1, <1>2, ZenonT(30) DEF InputStates, Like
<1> QED BY <1>3, <1>4, <1>5

LEMMA PressLike ==
  ASSUME NEW s \in InputStates, NEW row \in Int, NEW col \in Int
  PROVE  Like(Press(s, row, col), s)
BY ZenonT(30) DEF InputStates, Like, Press

LEMMA MoveLike ==
  ASSUME NEW s \in InputStates, NEW key \in {"j", "k", "h", "l"}
  PROVE  Like(MoveCursor(s, key), s)
<1> DEFINE down == Within(0, s.cursorRow + 1, s.rows - 1)
           up == Most(s.cursorRow - 1, 0)
           left == Most(s.cursorCol - 1, 0)
           right == Least(s.cursorCol + 1, s.cols - 1)
<1>1. down \in Int /\ up \in Int /\ left \in Int /\ right \in Int
  <2>1. /\ s.cursorRow \in Int /\ s.cursorCol \in Int
        /\ s.rows \in Nat \ {0} /\ s.cols \in Nat \ {0}
    BY LikeTypes
  <2> QED BY <2>1 DEF Within, Most, Least
<1>2. MoveCursor(s, key) \in
        {[s EXCEPT !.cursorRow = down], [s EXCEPT !.cursorRow = up],
         [s EXCEPT !.cursorCol = left], [s EXCEPT !.cursorCol = right]}
  BY DEF MoveCursor
<1> HIDE DEF down, up, left, right
<1>3. Like([s EXCEPT !.cursorRow = down], s) BY <1>1 DEF InputStates, Like
<1>4. Like([s EXCEPT !.cursorRow = up], s) BY <1>1 DEF InputStates, Like
<1>5. Like([s EXCEPT !.cursorCol = left], s) BY <1>1 DEF InputStates, Like
<1>6. Like([s EXCEPT !.cursorCol = right], s) BY <1>1 DEF InputStates, Like
<1> QED BY <1>2, <1>3, <1>4, <1>5, <1>6

LEMMA EditedLike ==
  ASSUME NEW s \in InputStates, NEW key
  PROVE  Like(Edited(s, key), s)
<1> DEFINE less == Most(s.query - 1, 0)
           more == s.query + 1
<1>1. less \in Nat /\ more \in Nat
  <2>1. s.query \in Nat BY LikeTypes
  <2> QED BY <2>1 DEF Most
<1>2. Edited(s, key) \in {[s EXCEPT !.query = less], s, [s EXCEPT !.query = more]}
  BY DEF Edited
<1> HIDE DEF less, more
<1>3. Like([s EXCEPT !.query = less], s) BY <1>1 DEF InputStates, Like
<1>4. Like([s EXCEPT !.query = more], s) BY <1>1 DEF InputStates, Like
<1> QED BY <1>2, <1>3, <1>4, LikeTypes

-----------------------------------------------------------------------------
(* What is sent before does not matter to what a piece makes of a state.   *)

LEMMA GoodIn ==
  ASSUME NEW r, NEW o, NEW f, NEW g, Good(f, g, r, o)
  PROVE  f.in \in InputStates /\ f.in.pendingEscape = r.in.pendingEscape /\ g.in = f.in
BY RunParts DEF Good, Onto

LEMMA GoodLike ==
  ASSUME NEW r, NEW o, Told(o), NEW f, NEW g, Good(f, g, r, o),
         NEW s, Like(s, f.in)
  PROVE  /\ Good(Become(f, s), Become(g, s), r, o)
         /\ Become(f, s).in = s /\ Become(g, s).in = s
BY GoodIn, GoodBecome DEF Like

LEMMA LeaveGood ==
  ASSUME NEW r, NEW o, Told(o), NEW f, NEW g, Good(f, g, r, o)
  PROVE  Good(LeaveScrolling(f), LeaveScrolling(g), r, o)
<1> DEFINE s == ExitScrollMode(f.in)
<1>1. f.in \in InputStates /\ g.in = f.in BY GoodIn
<1>2. Like(s, f.in) BY <1>1, ExitLike
<1>3. Good(Become(f, s), Become(g, s), r, o) BY <1>2, GoodLike
<1> HIDE DEF s
<1>5. IsAction(<<"scrollToBottom">>) BY DEF IsAction
<1>4. Good(Emit(Become(f, s), <<"scrollToBottom">>),
           Emit(Become(g, s), <<"scrollToBottom">>), r, o)
  BY <1>3, <1>5, GoodEmit
<1> QED BY <1>1, <1>4 DEF s, LeaveScrolling

LEMMA UpdateGood ==
  ASSUME NEW r, NEW o, Told(o), NEW f, NEW g, Good(f, g, r, o), NEW row \in Int
  PROVE  Good(UpdateAutoscroll(f, row), UpdateAutoscroll(g, row), r, o)
<1> DEFINE s == f.in
           edge == EdgeAt(s, row)
           moved == [s EXCEPT !.edge = edge, !.started = edge # "none"]
           held == [moved EXCEPT !.pending = TRUE]
           act == <<"scroll", AutoscrollRows(edge)>>
<1>1. s \in InputStates /\ g.in = s BY GoodIn
<1>2. edge \in {"none", "top", "bottom"} BY DEF EdgeAt
<1>3. Like(ClearAutoscroll(s), s) BY <1>1, ClearLike
<1>4. UpdateAutoscroll(f, row) =
        IF ~ Scrolls(s) THEN Become(f, ClearAutoscroll(s))
        ELSE IF edge = s.edge THEN f
        ELSE IF edge = "none" THEN Become(f, moved)
        ELSE Emit(Become(f, held), act)
  BY DEF UpdateAutoscroll
<1>5. UpdateAutoscroll(g, row) =
        IF ~ Scrolls(s) THEN Become(g, ClearAutoscroll(s))
        ELSE IF edge = s.edge THEN g
        ELSE IF edge = "none" THEN Become(g, moved)
        ELSE Emit(Become(g, held), act)
  BY <1>1 DEF UpdateAutoscroll
<1>12. IsAction(act) BY DEF IsAction, AutoscrollRows
<1> HIDE DEF edge, act
<1>6. Like(moved, s) BY <1>1, <1>2, ZenonT(30) DEF InputStates, Like
<1>7. Like(held, s)
  <2> HIDE DEF moved
  <2> QED BY <1>6 DEF InputStates, Like
<1> HIDE DEF moved, held
<1>8. Good(Become(f, ClearAutoscroll(s)), Become(g, ClearAutoscroll(s)), r, o)
  BY <1>3, GoodLike
<1>9. Good(Become(f, moved), Become(g, moved), r, o) BY <1>6, GoodLike
<1>10. Good(Become(f, held), Become(g, held), r, o) BY <1>7, GoodLike
<1>11. Good(Emit(Become(f, held), act), Emit(Become(g, held), act), r, o)
  BY <1>10, <1>12, GoodEmit
<1> QED BY <1>4, <1>5, <1>8, <1>9, <1>11

LEMMA DragGood ==
  ASSUME NEW r, NEW o, Told(o), NEW f, NEW g, Good(f, g, r, o),
         NEW m, NEW row \in Int, NEW col \in Int
  PROVE  Good(Drag(f, m, row, col), Drag(g, m, row, col), r, o)
<1> DEFINE s == f.in
           entered == EnterScrollMode(s)
           from == <<s.dragRow, s.dragCol>>
           begun == IF DragStarts(s, m, row, col)
                    THEN [entered EXCEPT !.anchor = from] ELSE s
           at == [begun EXCEPT !.cursorRow = row, !.cursorCol = col]
           Dragged(x) == IF Selected(begun) /\ m.is = "drag"
                         THEN UpdateAutoscroll(Become(x, at), row) ELSE Become(x, at)
           Done(x) == [ClearAutoscroll(Dragged(x).in) EXCEPT !.selecting = FALSE]
           Released(x) == Become(Dragged(x), Done(x))
           Copied(x) == Emit(Released(x), Copy(Released(x).in))
<1>1. s \in InputStates /\ g.in = s BY GoodIn
<1>2. Drag(f, m, row, col) = IF m.is # "release" THEN Dragged(f)
                             ELSE IF Selected(begun) THEN Copied(f) ELSE Released(f)
  BY DEF Drag
<1>3. Drag(g, m, row, col) = IF m.is # "release" THEN Dragged(g)
                             ELSE IF Selected(begun) THEN Copied(g) ELSE Released(g)
  BY <1>1 DEF Drag
<1>4. Like(entered, s) BY <1>1, EnterLike
<1>5. from \in Int \X Int BY <1>1, LikeTypes
<1> HIDE DEF entered, from
<1>6. Like(begun, s)
  <2>1. Like([entered EXCEPT !.anchor = from], s) BY <1>4, <1>5 DEF InputStates, Like
  <2> QED BY <1>1, <2>1, LikeTypes
<1> HIDE DEF begun
<1>7. Like(at, s) BY <1>6 DEF InputStates, Like
<1> HIDE DEF at
<1>8. Good(Become(f, at), Become(g, at), r, o) BY <1>7, GoodLike
<1>9. Good(Dragged(f), Dragged(g), r, o) BY <1>8, UpdateGood
<1> DEFINE t == Dragged(f).in
<1>10. t \in InputStates /\ Dragged(g).in = t
  <2> HIDE DEF Dragged
  <2> QED BY <1>9, GoodIn
<1> DEFINE c == ClearAutoscroll(t)
<1>11. Like(c, t) BY <1>10, ClearLike
<1>12. Done(f) = [c EXCEPT !.selecting = FALSE] /\ Done(g) = Done(f)
  <2> HIDE DEF Dragged
  <2> QED BY <1>10
<1> HIDE DEF Dragged, t, c
<1>13. Like(Done(f), t)
  <2>1. Like([c EXCEPT !.selecting = FALSE], t) BY <1>11 DEF InputStates, Like
  <2> QED BY <1>12, <2>1
<1> HIDE DEF Done
<1>14. Good(Released(f), Released(g), r, o) BY <1>9, <1>12, <1>13, GoodLike DEF t
<1> HIDE DEF Released
<1>15. Good(Copied(f), Copied(g), r, o)
  <2>1. Released(g).in = Released(f).in BY <1>14, GoodIn
  <2>2. Copied(g) = Emit(Released(g), Copy(Released(f).in)) BY <2>1
  <2>3. IsAction(Copy(Released(f).in)) BY DEF IsAction, Copy
  <2> QED BY <1>14, <2>2, <2>3, GoodEmit
<1> QED BY <1>2, <1>3, <1>9, <1>14, <1>15

LEMMA WheelGood ==
  ASSUME NEW r, NEW o, Told(o), NEW f, NEW g, Good(f, g, r, o), NEW m
  PROVE  Good(Wheel(f, m), Wheel(g, m), r, o)
<1> DEFINE s == f.in
           page == <<"forward", Piece(IF m.is = "wheelUp" THEN "pageUp" ELSE "pageDown")>>
           turn == <<"scroll", IF m.is = "wheelUp" THEN WheelLines ELSE -WheelLines>>
           scrolling == IF s.mode = "scroll" THEN s ELSE EnterScrollMode(s)
<1>1. s \in InputStates /\ g.in = s BY GoodIn
<1>2. /\ Wheel(f, m) = IF ~ Scrolls(s) THEN Emit(f, page) ELSE Emit(Become(f, scrolling), turn)
      /\ Wheel(g, m) = IF ~ Scrolls(s) THEN Emit(g, page) ELSE Emit(Become(g, scrolling), turn)
  BY <1>1 DEF Wheel
<1>3. Like(scrolling, s) BY <1>1, EnterLike, LikeTypes
<1>7. IsAction(page) /\ IsAction(turn) BY DEF IsAction, WheelLines
<1> HIDE DEF page, turn, scrolling
<1>4. Good(Emit(f, page), Emit(g, page), r, o) BY <1>7, GoodEmit
<1>5. Good(Become(f, scrolling), Become(g, scrolling), r, o) BY <1>3, GoodLike
<1>6. Good(Emit(Become(f, scrolling), turn), Emit(Become(g, scrolling), turn), r, o)
  BY <1>5, <1>7, GoodEmit
<1> QED BY <1>2, <1>4, <1>6

LEMMA MouseGood ==
  ASSUME NEW r, NEW o, Told(o), NEW f, NEW g, Good(f, g, r, o), NEW m \in Typed
  PROVE  Good(Mouse(f, m), Mouse(g, m), r, o)
<1> DEFINE s == f.in
           row == Least(m.row, s.rows - 1)
           col == Least(m.col, s.cols - 1)
           there == Press(s, row, col)
<1>1. s \in InputStates /\ g.in = s BY GoodIn
<1>2. row \in Int /\ col \in Int
  <2>1. m.row \in Nat /\ m.col \in Nat BY InputAssumption
  <2>2. s.rows \in Nat \ {0} /\ s.cols \in Nat \ {0} BY <1>1, LikeTypes
  <2> QED BY <2>1, <2>2 DEF Least
<1>3. Mouse(f, m) =
        IF s.screen.mouse /\ s.mode # "scroll" THEN Emit(f, <<"forward", m>>)
        ELSE IF IsWheel(m) THEN Wheel(f, m)
        ELSE IF s.selecting THEN Drag(f, m, row, col)
        ELSE IF m.is = "press" THEN Become(f, there)
        ELSE f
  BY DEF Mouse
<1>4. Mouse(g, m) =
        IF s.screen.mouse /\ s.mode # "scroll" THEN Emit(g, <<"forward", m>>)
        ELSE IF IsWheel(m) THEN Wheel(g, m)
        ELSE IF s.selecting THEN Drag(g, m, row, col)
        ELSE IF m.is = "press" THEN Become(g, there)
        ELSE g
  BY <1>1 DEF Mouse
<1> HIDE DEF row, col
<1>5. Like(there, s) BY <1>1, <1>2, PressLike
<1> HIDE DEF there
<1>6. Good(Become(f, there), Become(g, there), r, o) BY <1>5, GoodLike
<1>10. IsAction(<<"forward", m>>) BY DEF IsAction
<1>7. Good(Emit(f, <<"forward", m>>), Emit(g, <<"forward", m>>), r, o) BY <1>10, GoodEmit
<1>8. Good(Wheel(f, m), Wheel(g, m), r, o) BY WheelGood
<1>9. Good(Drag(f, m, row, col), Drag(g, m, row, col), r, o) BY <1>2, DragGood
<1> QED BY <1>3, <1>4, <1>6, <1>7, <1>8, <1>9

LEMMA NormalGood ==
  ASSUME NEW r, NEW o, Told(o), NEW f, NEW g, Good(f, g, r, o), NEW key
  PROVE  Good(NormalKey(f, key), NormalKey(g, key), r, o)
<1> DEFINE s == f.in
           done == [s EXCEPT !.prefix = FALSE]
           zero == 0
           asking == [done EXCEPT !.query = zero]
           searching == [asking EXCEPT !.mode = "search"]
           renaming == [asking EXCEPT !.mode = "rename"]
           entered == EnterScrollMode(done)
           held == [s EXCEPT !.prefix = TRUE]
           prefix == <<"forward", Piece("prefix")>>
           it == <<"forward", key>>
           command == <<"command", key.is>>
           detach == <<"detach">>
           Case(x) ==
             CASE key.is = "d" -> Emit(Become(x, done), detach)
               [] key.is = "[" -> Become(x, entered)
               [] key.is = "/" -> Become(x, searching)
               [] key.is = "r" -> Become(x, renaming)
               [] key.is \in PrefixCommands -> Emit(Become(x, done), command)
               [] OTHER -> Emit(Emit(Become(x, done), prefix), it)
           Out(x) == IF s.prefix THEN Case(x)
                     ELSE IF key.is = "prefix" THEN Become(x, held) ELSE Emit(x, it)
<1>1. s \in InputStates /\ g.in = s BY GoodIn
<1>2. NormalKey(f, key) = Out(f) BY DEF NormalKey, PrefixKey
<1>3. NormalKey(g, key) = Out(g) BY <1>1 DEF NormalKey, PrefixKey
<1>4. Like(done, s) /\ Like(held, s) BY <1>1, ZenonT(30) DEF InputStates, Like
<1>0. zero \in Nat OBVIOUS
<1> HIDE DEF done, held, zero
<1>5. Like(asking, s) BY <1>0, <1>4 DEF InputStates, Like
<1> HIDE DEF asking
<1>6. Like(searching, s) /\ Like(renaming, s) BY <1>5, ZenonT(30) DEF InputStates, Like
<1>7. Like(entered, s) BY <1>4, EnterLike DEF Like
<1>20. IsAction(prefix) /\ IsAction(it) /\ IsAction(command) /\ IsAction(detach)
  BY DEF IsAction
<1> HIDE DEF searching, renaming, entered, s, prefix, it, command, detach
<1>8. Good(Become(f, done), Become(g, done), r, o) BY <1>4, GoodLike DEF s
<1>9. Good(Emit(Become(f, done), detach), Emit(Become(g, done), detach), r, o)
  BY <1>8, <1>20, GoodEmit
<1>10. Good(Emit(Become(f, done), command), Emit(Become(g, done), command), r, o)
  BY <1>8, <1>20, GoodEmit
<1>11. Good(Emit(Become(f, done), prefix), Emit(Become(g, done), prefix), r, o)
  BY <1>8, <1>20, GoodEmit
<1>12. Good(Emit(Emit(Become(f, done), prefix), it), Emit(Emit(Become(g, done), prefix), it), r, o)
  BY <1>11, <1>20, GoodEmit
<1>13. Good(Become(f, entered), Become(g, entered), r, o) BY <1>7, GoodLike DEF s
<1>14. Good(Become(f, searching), Become(g, searching), r, o) BY <1>6, GoodLike DEF s
<1>15. Good(Become(f, renaming), Become(g, renaming), r, o) BY <1>6, GoodLike DEF s
<1>16. Good(Become(f, held), Become(g, held), r, o) BY <1>4, GoodLike DEF s
<1>17. Good(Emit(f, it), Emit(g, it), r, o) BY <1>20, GoodEmit
<1>18. Good(Case(f), Case(g), r, o)
  BY <1>9, <1>10, <1>12, <1>13, <1>14, <1>15
<1> HIDE DEF Case
<1> QED BY <1>2, <1>3, <1>16, <1>17, <1>18

LEMMA ScrollGood ==
  ASSUME NEW r, NEW o, Told(o), NEW f, NEW g, Good(f, g, r, o), NEW key
  PROVE  Good(ScrollKey(f, key), ScrollKey(g, key), r, o)
<1> DEFINE s == f.in
           moved == MoveCursor(s, key.is)
           keyed == ScrollKeys[key.is]
           search == <<"search">>
           toggled == ToggleSelection(s, CopyModes[key.is])
           copy == Copy(s)
           zero == 0
           asking == [s EXCEPT !.mode = "search", !.query = zero]
           Out(x) ==
             CASE key.is \in {"j", "k", "h", "l"} /\ Selected(s) -> Become(x, moved)
               [] key.is \in {"j", "k"} /\ ~Selected(s) -> Emit(x, keyed)
               [] key.is \in {"g", "G"} -> Emit(x, keyed)
               [] key.is \in {"n", "N"} /\ s.lastQuery -> Emit(x, search)
               [] key.is \in DOMAIN CopyModes -> Become(x, toggled)
               [] key.is = "y" -> Emit(x, copy)
               [] key.is = "/" -> Become(x, asking)
               [] key.is = "q" -> LeaveScrolling(x)
               [] OTHER -> x
<1>1. s \in InputStates /\ g.in = s BY GoodIn
<1>2. ScrollKey(f, key) = Out(f) BY DEF ScrollKey
<1>3. ScrollKey(g, key) = Out(g) BY <1>1 DEF ScrollKey
<1>0. zero \in Nat OBVIOUS
<1>4. key.is \in {"j", "k", "h", "l"} => Like(moved, s) BY <1>1, MoveLike
<1>5. key.is \in DOMAIN CopyModes => Like(toggled, s)
  <2> SUFFICES ASSUME key.is \in DOMAIN CopyModes PROVE Like(toggled, s) OBVIOUS
  <2>1. CopyModes[key.is] \in {"character", "line", "rectangle"} BY DEF CopyModes
  <2> QED BY <1>1, <2>1, ToggleLike
<1>15. IsAction(search) /\ IsAction(copy) BY DEF IsAction, Copy
<1>16. key.is \in {"j", "k", "g", "G"} => IsAction(keyed)
  BY DEF IsAction, ScrollKeys
<1> HIDE DEF zero, moved, keyed, search, toggled, copy
<1>6. Like(asking, s) BY <1>0, <1>1 DEF InputStates, Like
<1> HIDE DEF asking, s
<1>7. key.is \in {"j", "k", "h", "l"} => Good(Become(f, moved), Become(g, moved), r, o)
  BY <1>4, GoodLike DEF s
<1>8. key.is \in DOMAIN CopyModes => Good(Become(f, toggled), Become(g, toggled), r, o)
  BY <1>5, GoodLike DEF s
<1>9. Good(Become(f, asking), Become(g, asking), r, o) BY <1>6, GoodLike DEF s
<1>10. key.is \in {"j", "k", "g", "G"} => Good(Emit(f, keyed), Emit(g, keyed), r, o)
  BY <1>16, GoodEmit
<1>11. Good(Emit(f, search), Emit(g, search), r, o) BY <1>15, GoodEmit
<1>12. Good(Emit(f, copy), Emit(g, copy), r, o) BY <1>15, GoodEmit
<1>13. Good(LeaveScrolling(f), LeaveScrolling(g), r, o) BY LeaveGood
<1>14. Good(Out(f), Out(g), r, o)
  BY <1>7, <1>8, <1>9, <1>10, <1>11, <1>12, <1>13
<1> QED BY <1>2, <1>3, <1>14

LEMMA SearchGood ==
  ASSUME NEW r, NEW o, Told(o), NEW f, NEW g, Good(f, g, r, o), NEW key
  PROVE  /\ Good(SearchKey(f, key), SearchKey(g, key), r, o)
         /\ Good(RenameKey(f, key), RenameKey(g, key), r, o)
<1> DEFINE s == f.in
           zero == 0
           some == s.query > 0
           found == [s EXCEPT !.mode = "scroll", !.query = zero, !.lastQuery = some]
           named == [s EXCEPT !.mode = "normal", !.query = zero]
           search == <<"search">>
           rename == <<"rename">>
           typed == Edited(s, key)
<1>1. s \in InputStates /\ g.in = s BY GoodIn
<1>2. /\ SearchKey(f, key) = IF key.is = "enter" THEN Emit(Become(f, found), search)
                             ELSE Become(f, typed)
      /\ SearchKey(g, key) = IF key.is = "enter" THEN Emit(Become(g, found), search)
                             ELSE Become(g, typed)
  BY <1>1 DEF SearchKey
<1>3. /\ RenameKey(f, key) = IF key.is # "enter" THEN Become(f, typed)
                             ELSE IF some THEN Emit(Become(f, named), rename)
                             ELSE Become(f, named)
      /\ RenameKey(g, key) = IF key.is # "enter" THEN Become(g, typed)
                             ELSE IF some THEN Emit(Become(g, named), rename)
                             ELSE Become(g, named)
  BY <1>1 DEF RenameKey
<1>4. Like(typed, s) BY <1>1, EditedLike
<1>5. zero \in Nat /\ some \in BOOLEAN OBVIOUS
<1>13. IsAction(search) /\ IsAction(rename) BY DEF IsAction
<1> HIDE DEF zero, some, search, rename, typed
<1>6. Like(found, s) BY <1>1, <1>5, ZenonT(30) DEF InputStates, Like
<1>7. Like(named, s) BY <1>1, <1>5 DEF InputStates, Like
<1> HIDE DEF found, named, s
<1>8. Good(Become(f, typed), Become(g, typed), r, o) BY <1>4, GoodLike DEF s
<1>9. Good(Become(f, found), Become(g, found), r, o) BY <1>6, GoodLike DEF s
<1>10. Good(Become(f, named), Become(g, named), r, o) BY <1>7, GoodLike DEF s
<1>11. Good(Emit(Become(f, found), search), Emit(Become(g, found), search), r, o)
  BY <1>9, <1>13, GoodEmit
<1>12. Good(Emit(Become(f, named), rename), Emit(Become(g, named), rename), r, o)
  BY <1>10, <1>13, GoodEmit
<1> QED BY <1>2, <1>3, <1>8, <1>10, <1>11, <1>12

LEMMA FeedByteGood ==
  ASSUME NEW r, NEW o, Told(o), NEW f, NEW g, Good(f, g, r, o), NEW key
  PROVE  Good(FeedByte(f, key), FeedByte(g, key), r, o)
<1>1. f.in \in InputStates /\ g.in = f.in BY GoodIn
<1>2. f.in.mode \in {"normal", "scroll", "search", "rename"} BY <1>1, LikeTypes
<1>3. CASE f.in.mode = "normal"
  <2>1. FeedByte(f, key) = NormalKey(f, key) /\ FeedByte(g, key) = NormalKey(g, key)
    BY <1>1, <1>3 DEF FeedByte
  <2> QED BY <2>1, NormalGood
<1>4. CASE f.in.mode = "scroll"
  <2>1. FeedByte(f, key) = ScrollKey(f, key) /\ FeedByte(g, key) = ScrollKey(g, key)
    BY <1>1, <1>4 DEF FeedByte
  <2> QED BY <2>1, ScrollGood
<1>5. CASE f.in.mode = "search"
  <2>1. FeedByte(f, key) = SearchKey(f, key) /\ FeedByte(g, key) = SearchKey(g, key)
    BY <1>1, <1>5 DEF FeedByte
  <2> QED BY <2>1, SearchGood
<1>6. CASE f.in.mode = "rename"
  <2>1. FeedByte(f, key) = RenameKey(f, key) /\ FeedByte(g, key) = RenameKey(g, key)
    BY <1>1, <1>6 DEF FeedByte
  <2> QED BY <2>1, SearchGood
<1> QED BY <1>2, <1>3, <1>4, <1>5, <1>6

LEMMA EscapeGood ==
  ASSUME NEW r, NEW o, Told(o), NEW f, NEW g, Good(f, g, r, o),
         NEW b \in Seq(Typed), b # <<>>, NEW rest
  PROVE  Good(Escape(f, b, rest), Escape(g, b, rest), r, o)
<1> DEFINE s == f.in
           last == b[Len(b)]
           control == Len(b) = 3
           entered == EnterScrollMode(s)
           known == EscapeScrolls[last.is]
           Out(x) ==
             CASE control /\ last.is \in MouseEvents -> Mouse(x, last)
               [] control /\ last.is \in Pages /\ s.mode = "normal" /\ Scrolls(s) ->
                    Emit(Become(x, entered), known)
               [] control /\ last.is \in DOMAIN EscapeScrolls /\ s.mode = "scroll"
                    /\ rest = <<>> -> Emit(x, known)
               [] OTHER -> ForwardAll(x, b)
<1>1. s \in InputStates /\ g.in = s BY GoodIn
<1>2. Escape(f, b, rest) = Out(f) BY DEF Escape
<1>3. Escape(g, b, rest) = Out(g) BY <1>1 DEF Escape
<1>4. last \in Typed
  <2>1. Len(b) \in 1 .. Len(b) BY LenProperties, EmptySeq
  <2> QED BY <2>1, ElementOfSeq
<1>5. Like(entered, s) BY <1>1, EnterLike
<1>6. IsSeq(b) BY DEF IsSeq
<1>13. last.is \in DOMAIN EscapeScrolls => IsAction(known)
  BY DEF IsAction, EscapeScrolls, PageLines
<1>14. Pages \subseteq DOMAIN EscapeScrolls BY DEF Pages, EscapeScrolls
<1> HIDE DEF s, last, control, entered, known
<1>7. Good(Mouse(f, last), Mouse(g, last), r, o) BY <1>4, MouseGood
<1>8. Good(Become(f, entered), Become(g, entered), r, o) BY <1>5, GoodLike DEF s
<1>9. last.is \in Pages =>
        Good(Emit(Become(f, entered), known), Emit(Become(g, entered), known), r, o)
  BY <1>8, <1>13, <1>14, GoodEmit
<1>10. last.is \in DOMAIN EscapeScrolls => Good(Emit(f, known), Emit(g, known), r, o)
  BY <1>13, GoodEmit
<1>11. Good(ForwardAll(f, b), ForwardAll(g, b), r, o) BY <1>6, GoodForward
<1>12. Good(Out(f), Out(g), r, o) BY <1>7, <1>9, <1>10, <1>11
<1> QED BY <1>2, <1>3, <1>12

-----------------------------------------------------------------------------
(* One turn of the loop in feed.                                           *)

\* What may be held back: the beginning of an escape sequence.
Held(e) ==
  /\ e \in Seq(Typed)
  /\ \/ e = <<>>
     \/ Len(e) = 1 /\ e[1].is = "esc"
     \/ Len(e) = 2 /\ e[1].is = "esc" /\ e[2].is = "["

Holding(s, e) == [s EXCEPT !.pendingEscape = e]

LEMMA HoldingIs ==
  ASSUME NEW s \in InputStates, NEW e \in Seq(Typed)
  PROVE  /\ Holding(s, e) \in InputStates /\ Holding(s, e).pendingEscape = e
         /\ s.pendingEscape = e => Holding(s, e) = s
         /\ \A d \in Seq(Typed) : Holding(Holding(s, e), d) = Holding(s, d)
<1>1. Holding(s, e) \in InputStates /\ Holding(s, e).pendingEscape = e
  BY DEF InputStates, Holding
<1>2. s.pendingEscape = e => Holding(s, e) = s
  BY DEF InputStates, Holding
<1>3. ASSUME NEW d \in Seq(Typed) PROVE Holding(Holding(s, e), d) = Holding(s, d)
  BY DEF InputStates, Holding
<1> QED BY <1>1, <1>2, <1>3

LEMMA BecomeRun ==
  ASSUME NEW r, Run(r), NEW o, Told(o), NEW s \in InputStates
  PROVE  /\ Run(Become(r, s)) /\ Become(r, s).in = s /\ Become(r, s).out = r.out
         /\ Become(Onto(o, r), s) = Onto(o, Become(r, s))
         /\ \A u \in InputStates : Become(Become(r, s), u) = Become(r, u)
         /\ s = r.in => Become(r, s) = r
<1>1. PICK i \in InputStates : \E w : Told(w) /\ r = [in |-> i, out |-> w] BY DEF Run
<1>2. PICK w : Told(w) /\ r = [in |-> i, out |-> w] BY <1>1
<1>3. Become(r, s) = [in |-> s, out |-> w] BY <1>2, BecomeIs
<1>4. Onto(o, r) = [in |-> i, out |-> o \o w] BY <1>2 DEF Onto
<1>5. Become(Onto(o, r), s) = [in |-> s, out |-> o \o w]
  <2> DEFINE x == o \o w
  <2>1. Onto(o, r) = [in |-> i, out |-> x] BY <1>4
  <2> HIDE DEF x
  <2>2. Become(Onto(o, r), s) = [in |-> s, out |-> x] BY <2>1, BecomeIs
  <2> QED BY <2>2 DEF x
<1>6. Onto(o, Become(r, s)) = [in |-> s, out |-> o \o w] BY <1>3 DEF Onto
<1>7. Run(Become(r, s)) BY <1>2, <1>3 DEF Run
<1>8. ASSUME NEW u \in InputStates PROVE Become(Become(r, s), u) = Become(r, u)
  <2>1. Become(r, u) = [in |-> u, out |-> w] BY <1>2, BecomeIs
  <2>2. Become(Become(r, s), u) = [in |-> u, out |-> w] BY <1>3, BecomeIs
  <2> QED BY <2>1, <2>2
<1>9. r.in = i /\ r.out = w /\ Become(r, s).in = s /\ Become(r, s).out = w
  BY <1>2, <1>3
<1> QED BY <1>2, <1>3, <1>5, <1>6, <1>7, <1>8, <1>9

LEMMA Lengths ==
  ASSUME NEW b \in Seq(Typed), b # <<>>
  PROVE  /\ Len(b) \in Nat /\ Len(b) >= 1 /\ \A i \in 1 .. Len(b) : b[i] \in Typed
         /\ Tail(b) \in Seq(Typed) /\ Len(Tail(b)) = Len(b) - 1
         /\ EscapeLength(b) \in {0, 2, 3} /\ EscapeLength(b) <= Len(b)
         /\ b[1].is = "esc" /\ EscapeLength(b) = 0 => Held(b)
<1>1. Len(b) \in Nat /\ Len(b) # 0 /\ \A i \in 1 .. Len(b) : b[i] \in Typed
  BY LenProperties, EmptySeq, ElementOfSeq
<1>2. Tail(b) \in Seq(Typed) /\ Len(Tail(b)) = Len(b) - 1 BY HeadTailProperties
<1>3. EscapeLength(b) \in {0, 2, 3} /\ EscapeLength(b) <= Len(b)
  BY <1>1 DEF EscapeLength
<1>4. ASSUME b[1].is = "esc", EscapeLength(b) = 0 PROVE Held(b)
  <2>1. Len(b) = 1 \/ (Len(b) = 2 /\ b[2].is = "[")
    <3> DEFINE k == Len(b)
               x == b[2].is
    <3>1. 0 = IF k < 2 THEN 0 ELSE IF x # "[" THEN 2 ELSE IF k < 3 THEN 0 ELSE 3
      BY <1>4 DEF EscapeLength
    <3>2. k \in Nat /\ k # 0 BY <1>1
    <3> HIDE DEF k, x
    <3>3. k = 1 \/ (k = 2 /\ x = "[") BY <3>1, <3>2
    <3> QED BY <3>3 DEF k, x
  <2> HIDE <1>1
  <2> QED BY <1>4, <2>1 DEF Held
<1> QED BY <1>1, <1>2, <1>3, <1>4

\* What is left after a sequence of n pieces.
LEMMA Parts ==
  ASSUME NEW b \in Seq(Typed), NEW n \in Nat, n >= 1, n <= Len(b)
  PROVE  /\ SubSeq(b, 1, n) \in Seq(Typed) /\ Len(SubSeq(b, 1, n)) = n
         /\ \A i \in 1 .. n : SubSeq(b, 1, n)[i] = b[i]
         /\ SubSeq(b, 1, n) # <<>>
         /\ SubSeq(b, n + 1, Len(b)) \in Seq(Typed)
         /\ Len(SubSeq(b, n + 1, Len(b))) = Len(b) - n
<1>0. Len(b) \in Nat /\ \A i \in 1 .. Len(b) : b[i] \in Typed
  BY LenProperties, ElementOfSeq
<1>1. SubSeq(b, 1, n) \in Seq(Typed) /\ Len(SubSeq(b, 1, n)) = n
      /\ \A i \in 1 .. n : SubSeq(b, 1, n)[i] = b[i]
  <2>1. \A i \in 1 .. n : b[i] \in Typed BY <1>0
  <2>2. /\ SubSeq(b, 1, n) \in Seq(Typed)
        /\ Len(SubSeq(b, 1, n)) = IF 1 <= n THEN n - 1 + 1 ELSE 0
        /\ \A i \in 1 .. n - 1 + 1 : SubSeq(b, 1, n)[i] = b[1 + i - 1]
    BY <2>1, SubSeqProperties
  <2> QED BY <2>2
<1>2. /\ SubSeq(b, n + 1, Len(b)) \in Seq(Typed)
      /\ Len(SubSeq(b, n + 1, Len(b))) = Len(b) - n
  <2>1. \A i \in n + 1 .. Len(b) : b[i] \in Typed BY <1>0
  <2>2. n + 1 \in Int /\ Len(b) \in Int BY <1>0
  <2>3. /\ SubSeq(b, n + 1, Len(b)) \in Seq(Typed)
        /\ Len(SubSeq(b, n + 1, Len(b))) =
             IF n + 1 <= Len(b) THEN Len(b) - (n + 1) + 1 ELSE 0
    BY <2>1, <2>2, SubSeqProperties
  <2> QED BY <1>0, <2>3
<1>3. SubSeq(b, 1, n) # <<>> BY <1>1, EmptySeq
<1> QED BY <1>1, <1>2, <1>3

\* The four ways a turn goes.
LEMMA Turns4 ==
  ASSUME NEW r, NEW b \in Seq(Typed), b # <<>>
  PROVE  LET n == EscapeLength(b)
             rest == SubSeq(b, n + 1, Len(b)) IN
         /\ b[1].is # "esc" =>
              Taken(r, b) = [r |-> FeedByte(r, b[1]), rest |-> Tail(b)]
         /\ b[1].is = "esc" /\ n = 0 =>
              Taken(r, b) = [r |-> Become(r, Holding(r.in, b)), rest |-> <<>>]
         /\ b[1].is = "esc" /\ n # 0 /\ r.in.mode = "scroll" /\ n = 2 /\ b[2].is = "esc" =>
              Taken(r, b) = [r |-> LeaveScrolling(r), rest |-> Tail(b)]
         /\ b[1].is = "esc" /\ n # 0
            /\ ~ (r.in.mode = "scroll" /\ n = 2 /\ b[2].is = "esc") =>
              Taken(r, b) = [r |-> Escape(r, SubSeq(b, 1, n), rest), rest |-> rest]
<1> DEFINE n == EscapeLength(b)
           rest == SubSeq(b, n + 1, Len(b))
           fed == [r |-> FeedByte(r, b[1]), rest |-> Tail(b)]
           left == [r |-> LeaveScrolling(r), rest |-> Tail(b)]
           kept == [r |-> Become(r, Holding(r.in, b)), rest |-> <<>>]
           whole == [r |-> Escape(r, SubSeq(b, 1, n), rest), rest |-> rest]
<1>1. Taken(r, b) =
        CASE b[1].is # "esc" -> fed
          [] b[1].is = "esc" /\ r.in.mode = "scroll" /\ n = 2 /\ b[2].is = "esc" -> left
          [] b[1].is = "esc" /\ n = 0 -> kept
          [] OTHER -> whole
  BY DEF Taken, Holding
<1>2. n \in {0, 2, 3} BY Lengths
<1> HIDE DEF n, rest, fed, left, kept, whole
<1>3. /\ b[1].is # "esc" => Taken(r, b) = fed
      /\ b[1].is = "esc" /\ n = 0 => Taken(r, b) = kept
      /\ b[1].is = "esc" /\ n # 0 /\ r.in.mode = "scroll" /\ n = 2 /\ b[2].is = "esc" =>
           Taken(r, b) = left
      /\ b[1].is = "esc" /\ n # 0 /\ ~ (r.in.mode = "scroll" /\ n = 2 /\ b[2].is = "esc") =>
           Taken(r, b) = whole
  BY <1>1, <1>2
<1> QED BY <1>3 DEF n, rest, fed, left, kept, whole

\* What a turn leaves is again a state on its way, with less to read; it holds
\* something back only when nothing is left, and it does not look at what was
\* sent before.
LEMMA TakenGood ==
  ASSUME NEW r, Run(r), r.in.pendingEscape = <<>>, NEW o, Told(o),
         NEW b \in Seq(Typed), b # <<>>
  PROVE  LET t == Taken(r, b) IN
         /\ Run(t.r) /\ Held(t.r.in.pendingEscape)
         /\ t.rest \in Seq(Typed) /\ Len(t.rest) < Len(b)
         /\ t = [r |-> t.r, rest |-> t.rest]
         /\ \/ t.rest = <<>> /\ t.r = Become(r, Holding(r.in, b))
            \/ t.r.in.pendingEscape = <<>>
         /\ Taken(Onto(o, r), b) = [r |-> Onto(o, t.r), rest |-> t.rest]
<1> DEFINE n == EscapeLength(b)
           rest == SubSeq(b, n + 1, Len(b))
           q == Onto(o, r)
<1>1. q.in = r.in /\ Good(r, q, r, o) BY GoodSelf
<1>2. Held(<<>>) BY DEF Held
<1>3. /\ Len(b) \in Nat /\ Len(b) >= 1
      /\ Tail(b) \in Seq(Typed) /\ Len(Tail(b)) < Len(b)
      /\ n \in {0, 2, 3} /\ n <= Len(b)
      /\ b[1].is = "esc" /\ n = 0 => Held(b)
  BY Lengths
<1>4. r.in \in InputStates BY RunParts
<1> HIDE DEF q
<1>5. CASE b[1].is # "esc"
  <2> DEFINE f == FeedByte(r, b[1])
             g == FeedByte(q, b[1])
  <2>1. Good(f, g, r, o) BY <1>1, FeedByteGood
  <2>2. Taken(r, b) = [r |-> f, rest |-> Tail(b)] BY <1>5, Turns4
  <2>3. Taken(q, b) = [r |-> g, rest |-> Tail(b)] BY <1>5, Turns4
  <2> HIDE DEF f, g
  <2>4. Run(f) /\ f.in.pendingEscape = <<>> /\ g = Onto(o, f) BY <2>1 DEF Good
  <2>5. Taken(r, b).r = f /\ Taken(r, b).rest = Tail(b) BY <2>2
  <2> QED BY <1>2, <1>3, <2>2, <2>3, <2>4, <2>5 DEF q
<1>6. CASE b[1].is = "esc" /\ n = 0
  <2> DEFINE f == Become(r, Holding(r.in, b))
             g == Become(q, Holding(r.in, b))
  <2>1. Taken(r, b) = [r |-> f, rest |-> <<>>] BY <1>6, Turns4
  <2>2. Taken(q, b) = [r |-> g, rest |-> <<>>] BY <1>1, <1>6, Turns4
  <2>3. Holding(r.in, b) \in InputStates /\ Holding(r.in, b).pendingEscape = b
    BY <1>4, HoldingIs
  <2>4. Run(f) /\ f.in.pendingEscape = b /\ g = Onto(o, f)
    BY <2>3, BecomeRun DEF q
  <2>5. <<>> \in Seq(Typed) /\ Len(<<>>) = 0 OBVIOUS
  <2>6. Taken(r, b).r = f /\ Taken(r, b).rest = <<>> BY <2>1
  <2> HIDE DEF g
  <2>7. Taken(q, b) = [r |-> Onto(o, f), rest |-> <<>>] BY <2>2, <2>4
  <2> QED BY <1>3, <1>6, <2>1, <2>4, <2>5, <2>6, <2>7 DEF q
<1>7. CASE b[1].is = "esc" /\ n # 0 /\ r.in.mode = "scroll" /\ n = 2 /\ b[2].is = "esc"
  <2> DEFINE f == LeaveScrolling(r)
             g == LeaveScrolling(q)
  <2>1. Good(f, g, r, o) BY <1>1, LeaveGood
  <2>2. Taken(r, b) = [r |-> f, rest |-> Tail(b)] BY <1>7, Turns4
  <2>3. Taken(q, b) = [r |-> g, rest |-> Tail(b)] BY <1>1, <1>7, Turns4
  <2> HIDE DEF f, g
  <2>4. Run(f) /\ f.in.pendingEscape = <<>> /\ g = Onto(o, f) BY <2>1 DEF Good
  <2>5. Taken(r, b).r = f /\ Taken(r, b).rest = Tail(b) BY <2>2
  <2> QED BY <1>2, <1>3, <2>2, <2>3, <2>4, <2>5 DEF q
<1>8. CASE /\ b[1].is = "esc" /\ n # 0
           /\ ~ (r.in.mode = "scroll" /\ n = 2 /\ b[2].is = "esc")
  <2> DEFINE f == Escape(r, SubSeq(b, 1, n), rest)
             g == Escape(q, SubSeq(b, 1, n), rest)
  <2>0. n \in Nat /\ n >= 1 /\ n <= Len(b) BY <1>3, <1>8
  <2>1. /\ SubSeq(b, 1, n) \in Seq(Typed) /\ SubSeq(b, 1, n) # <<>>
        /\ rest \in Seq(Typed) /\ Len(rest) < Len(b)
    <3> HIDE DEF n
    <3>1. rest \in Seq(Typed) /\ Len(rest) = Len(b) - n BY <2>0, Parts
    <3>2. SubSeq(b, 1, n) \in Seq(Typed) /\ SubSeq(b, 1, n) # <<>> BY <2>0, Parts
    <3> QED BY <1>3, <2>0, <3>1, <3>2
  <2>2. Taken(r, b) = [r |-> f, rest |-> rest] BY <1>8, Turns4
  <2>3. Taken(q, b) = [r |-> g, rest |-> rest] BY <1>1, <1>8, Turns4
  <2> HIDE DEF n, rest
  <2>4. Good(f, g, r, o) BY <1>1, <2>1, EscapeGood
  <2> HIDE DEF f, g
  <2>5. Run(f) /\ f.in.pendingEscape = <<>> /\ g = Onto(o, f) BY <2>4 DEF Good
  <2>6. Taken(r, b).r = f /\ Taken(r, b).rest = rest BY <2>2
  <2> QED BY <1>2, <2>1, <2>2, <2>3, <2>5, <2>6 DEF q
<1> QED BY <1>5, <1>6, <1>7, <1>8

\* What is read after b, when what b has left is taken up again.
LEMMA Joined ==
  ASSUME NEW b \in Seq(Typed), b # <<>>, NEW c \in Seq(Typed)
  PROVE  /\ b \o c \in Seq(Typed) /\ b \o c # <<>> /\ Len(b \o c) = Len(b) + Len(c)
         /\ \A i \in 1 .. Len(b) : (b \o c)[i] = b[i]
         /\ Tail(b \o c) = Tail(b) \o c
         /\ \A n \in 1 .. Len(b) :
              /\ SubSeq(b \o c, 1, n) = SubSeq(b, 1, n)
              /\ SubSeq(b \o c, n + 1, Len(b \o c)) = SubSeq(b, n + 1, Len(b)) \o c
<1> DEFINE j == b \o c
<1>1. /\ j \in Seq(Typed) /\ Len(j) = Len(b) + Len(c)
      /\ \A i \in 1 .. Len(b) + Len(c) : j[i] = IF i <= Len(b) THEN b[i] ELSE c[i - Len(b)]
  BY ConcatProperties
<1>2. /\ Len(b) \in Nat /\ Len(c) \in Nat /\ Len(b) >= 1 BY Lengths, LenProperties
<1>3. j # <<>> BY <1>1, <1>2, EmptySeq
<1>4. \A i \in 1 .. Len(b) : j[i] = b[i] BY <1>1, <1>2
<1> HIDE DEF j
<1>5. ASSUME NEW n \in 1 .. Len(b)
      PROVE  /\ SubSeq(j, 1, n) = SubSeq(b, 1, n)
             /\ SubSeq(j, n + 1, Len(j)) = SubSeq(b, n + 1, Len(b)) \o c
  <2>1. n \in Nat /\ n >= 1 /\ n <= Len(b) /\ n <= Len(j) BY <1>1, <1>2
  <2> DEFINE x == SubSeq(j, 1, n)
             y == SubSeq(b, 1, n)
             u == SubSeq(j, n + 1, Len(j))
             v == SubSeq(b, n + 1, Len(b))
  <2>2. x \in Seq(Typed) /\ Len(x) = n /\ \A i \in 1 .. n : x[i] = j[i] BY <1>1, <2>1, Parts
  <2>3. y \in Seq(Typed) /\ Len(y) = n /\ \A i \in 1 .. n : y[i] = b[i] BY <2>1, Parts
  <2>4. x = y
    <3>1. \A i \in 1 .. n : x[i] = y[i] BY <1>1, <1>2, <2>1, <2>2, <2>3
    <3> HIDE DEF x, y
    <3> QED BY <2>2, <2>3, <3>1, SeqEqual
  <2>5. /\ u \in Seq(Typed) /\ Len(u) = Len(j) - n
        /\ v \in Seq(Typed) /\ Len(v) = Len(b) - n
    BY <1>1, <2>1, Parts
  <2>6. /\ \A i \in 1 .. Len(j) - n : u[i] = j[n + i]
        /\ \A i \in 1 .. Len(b) - n : v[i] = b[n + i]
    <3>1. \A i \in n + 1 .. Len(j) : j[i] \in Typed BY <1>1, <1>2, <2>1, ElementOfSeq
    <3>2. \A i \in n + 1 .. Len(b) : b[i] \in Typed BY <1>1, <1>2, <2>1, ElementOfSeq
    <3>3. n + 1 \in Int /\ Len(j) \in Int /\ Len(b) \in Int BY <1>1, <1>2, <2>1
    <3>4. \A i \in 1 .. Len(j) - (n + 1) + 1 : u[i] = j[n + 1 + i - 1]
      BY <3>1, <3>3, SubSeqProperties
    <3>5. \A i \in 1 .. Len(b) - (n + 1) + 1 : v[i] = b[n + 1 + i - 1]
      BY <3>2, <3>3, SubSeqProperties
    <3> HIDE DEF u, v
    <3>6. ASSUME NEW i \in 1 .. Len(j) - n PROVE u[i] = j[n + i]
      <4>1. n + 1 + i - 1 = n + i BY <2>1
      <4>2. i \in 1 .. Len(j) - (n + 1) + 1 BY <1>1, <1>2, <2>1
      <4> QED BY <3>4, <4>1, <4>2
    <3>7. ASSUME NEW i \in 1 .. Len(b) - n PROVE v[i] = b[n + i]
      <4>1. n + 1 + i - 1 = n + i BY <2>1
      <4>2. i \in 1 .. Len(b) - (n + 1) + 1 BY <1>2, <2>1
      <4> QED BY <3>5, <4>1, <4>2
    <3> QED BY <3>6, <3>7
  <2> HIDE DEF u, v
  <2>7. /\ v \o c \in Seq(Typed) /\ Len(v \o c) = Len(v) + Len(c)
        /\ \A i \in 1 .. Len(v) + Len(c) :
             (v \o c)[i] = IF i <= Len(v) THEN v[i] ELSE c[i - Len(v)]
    BY <2>5, ConcatProperties
  <2>8. ASSUME NEW i \in 1 .. Len(u) PROVE u[i] = (v \o c)[i]
    <3>1. i \in Nat /\ i >= 1 /\ i <= Len(j) - n /\ i <= Len(v) + Len(c)
      BY <1>1, <1>2, <2>1, <2>5
    <3>2. u[i] = j[n + i] /\ n + i \in 1 .. Len(b) + Len(c) BY <1>1, <1>2, <2>1, <2>6, <3>1
    <3>3. u[i] = IF n + i <= Len(b) THEN b[n + i] ELSE c[n + i - Len(b)] BY <1>1, <3>2
    <3>4. (v \o c)[i] = IF i <= Len(v) THEN v[i] ELSE c[i - Len(v)] BY <2>7, <3>1
    <3>5. CASE n + i <= Len(b)
      <4>1. i <= Len(v) /\ i \in 1 .. Len(b) - n BY <1>2, <2>1, <2>5, <3>1, <3>5
      <4> QED BY <2>6, <3>3, <3>4, <3>5, <4>1
    <3>6. CASE ~ (n + i <= Len(b))
      <4>1. ~ (i <= Len(v)) /\ i - Len(v) = n + i - Len(b) BY <1>2, <2>1, <2>5, <3>1, <3>6
      <4> QED BY <3>3, <3>4, <3>6, <4>1
    <3> QED BY <3>5, <3>6
  <2>9. u = v \o c
    <3>1. Len(u) = Len(v \o c) BY <1>1, <1>2, <2>1, <2>5, <2>7
    <3> QED BY <2>5, <2>7, <2>8, <3>1, SeqEqual
  <2> QED BY <2>4, <2>9 DEF u, v
<1>6. Tail(j) = Tail(b) \o c
  <2>1. Tail(j) = SubSeq(j, 2, Len(j)) /\ Tail(b) = SubSeq(b, 2, Len(b))
    BY <1>1, <1>3, TailIsSubSeq
  <2>2. 1 \in 1 .. Len(b) /\ 1 + 1 = 2 BY <1>2
  <2>3. SubSeq(j, 1 + 1, Len(j)) = SubSeq(b, 1 + 1, Len(b)) \o c BY <1>5, <2>2
  <2> QED BY <2>1, <2>2, <2>3
<1> QED BY <1>1, <1>3, <1>4, <1>5, <1>6 DEF j

\* The sequences of Scroll mode that are known only when nothing follows.
EndsInScroll(b) ==
  /\ Len(b) >= 3 /\ b[Len(b) - 2].is = "esc" /\ b[Len(b) - 1].is = "["
  /\ b[Len(b)].is \in DOMAIN EscapeScrolls

LEMMA Suffixes ==
  ASSUME NEW b \in Seq(Typed), b # <<>>, ~ EndsInScroll(b), NEW n \in 1 .. Len(b)
  PROVE  ~ EndsInScroll(SubSeq(b, n + 1, Len(b))) /\ ~ EndsInScroll(Tail(b))
<1>1. Len(b) \in Nat /\ Len(b) >= 1 /\ \A i \in 1 .. Len(b) : b[i] \in Typed BY Lengths
<1>2. ASSUME NEW k \in 1 .. Len(b) PROVE ~ EndsInScroll(SubSeq(b, k + 1, Len(b)))
  <2> DEFINE v == SubSeq(b, k + 1, Len(b))
  <2>1. v \in Seq(Typed) /\ Len(v) = Len(b) - k
    <3>1. k \in Nat /\ k >= 1 /\ k <= Len(b) BY <1>1
    <3> QED BY <3>1, Parts
  <2>2. \A i \in 1 .. Len(b) - (k + 1) + 1 : v[i] = b[k + 1 + i - 1]
    <3>1. k + 1 \in Int /\ Len(b) \in Int /\ \A i \in k + 1 .. Len(b) : b[i] \in Typed
      BY <1>1
    <3> QED BY <3>1, SubSeqProperties
  <2> HIDE DEF v
  <2> SUFFICES ASSUME EndsInScroll(v) PROVE FALSE BY DEF v
  <2>3. Len(v) >= 3 BY DEF EndsInScroll
  <2>4. /\ v[Len(v) - 2] = b[Len(b) - 2] /\ v[Len(v) - 1] = b[Len(b) - 1]
        /\ v[Len(v)] = b[Len(b)]
    <3>1. ASSUME NEW i \in 0 .. 2 PROVE v[Len(v) - i] = b[Len(b) - i]
      <4>1. Len(v) - i \in 1 .. Len(b) - (k + 1) + 1 BY <1>1, <2>1, <2>3
      <4>2. k + 1 + (Len(v) - i) - 1 = Len(b) - i BY <1>1, <2>1
      <4> QED BY <2>2, <4>1, <4>2
    <3>2. /\ v[Len(v) - 2] = b[Len(b) - 2] /\ v[Len(v) - 1] = b[Len(b) - 1]
          /\ v[Len(v) - 0] = b[Len(b) - 0]
      BY <3>1
    <3>3. Len(v) - 0 = Len(v) /\ Len(b) - 0 = Len(b) BY <1>1, <2>1
    <3> QED BY <3>2, <3>3
  <2>5. Len(b) >= 3 BY <1>1, <2>1, <2>3
  <2> QED BY <2>4, <2>5 DEF EndsInScroll
<1>3. Tail(b) = SubSeq(b, 1 + 1, Len(b))
  <2>1. Tail(b) = SubSeq(b, 2, Len(b)) BY TailIsSubSeq
  <2>2. 1 + 1 = 2 OBVIOUS
  <2> QED BY <2>1, <2>2
<1>4. 1 \in 1 .. Len(b) BY <1>1
<1> QED BY <1>2, <1>3, <1>4

LEMMA EscapeAlone ==
  ASSUME NEW r, NEW q, NEW v, NEW w,
         \/ v # <<>> /\ w # <<>>
         \/ ~ (/\ Len(q) = 3 /\ q[Len(q)].is \in DOMAIN EscapeScrolls
               /\ r.in.mode = "scroll")
  PROVE  Escape(r, q, v) = Escape(r, q, w)
<1> DEFINE known == EscapeScrolls[q[Len(q)].is]
           pointed == Mouse(r, q[Len(q)])
           paged == Emit(Become(r, EnterScrollMode(r.in)), known)
           scrolled == Emit(r, known)
           all == ForwardAll(r, q)
           x == Len(q) = 3 /\ q[Len(q)].is \in MouseEvents
           y == Len(q) = 3 /\ q[Len(q)].is \in Pages /\ r.in.mode = "normal" /\ Scrolls(r.in)
           z == Len(q) = 3 /\ q[Len(q)].is \in DOMAIN EscapeScrolls /\ r.in.mode = "scroll"
<1>1. Escape(r, q, v) = CASE x -> pointed [] y -> paged [] z /\ v = <<>> -> scrolled
                          [] OTHER -> all
  BY DEF Escape
<1>2. Escape(r, q, w) = CASE x -> pointed [] y -> paged [] z /\ w = <<>> -> scrolled
                          [] OTHER -> all
  BY DEF Escape
<1>3. (z /\ v = <<>>) <=> (z /\ w = <<>>) OBVIOUS
<1> HIDE DEF known, pointed, paged, scrolled, all, x, y, z
<1> QED BY <1>1, <1>2, <1>3

\* A turn that does not hold back what it is given does not depend on what
\* follows, but for a sequence of Scroll mode.
LEMMA CutTurn ==
  ASSUME NEW r, Run(r), r.in.pendingEscape = <<>>,
         NEW b \in Seq(Typed), b # <<>>, NEW c \in Seq(Typed), c # <<>>,
         ~ (r.in.mode = "scroll" /\ EndsInScroll(b))
  PROVE  LET t == Taken(r, b) IN
         \/ t.rest = <<>> /\ t.r = Become(r, Holding(r.in, b))
         \/ /\ t.r.in.pendingEscape = <<>>
            /\ Taken(r, b \o c) = [r |-> t.r, rest |-> t.rest \o c]
<1> DEFINE n == EscapeLength(b)
           j == b \o c
           t == Taken(r, b)
<1>0. Told(<<>>) BY EmptyTold
<1>1. /\ Len(b) \in Nat /\ Len(b) >= 1 /\ n \in {0, 2, 3} /\ n <= Len(b) BY Lengths
<1>2. /\ j \in Seq(Typed) /\ j # <<>> /\ Len(j) = Len(b) + Len(c)
      /\ \A i \in 1 .. Len(b) : j[i] = b[i]
      /\ Tail(j) = Tail(b) \o c
      /\ \A k \in 1 .. Len(b) :
           /\ SubSeq(j, 1, k) = SubSeq(b, 1, k)
           /\ SubSeq(j, k + 1, Len(j)) = SubSeq(b, k + 1, Len(b)) \o c
  BY Joined
<1>3. Len(c) \in Nat /\ Len(c) >= 1 BY Lengths
<1>4. j[1] = b[1] BY <1>1, <1>2
<1>5. n # 0 => EscapeLength(j) = n
  <2> SUFFICES ASSUME n # 0 PROVE EscapeLength(j) = n OBVIOUS
  <2>1. Len(b) >= 2 /\ j[2] = b[2] /\ Len(j) >= Len(b) /\ Len(j) \in Nat
    BY <1>1, <1>2, <1>3
  <2>2. n = 3 => Len(b) >= 3 /\ b[2].is = "["
    BY <1>1 DEF EscapeLength
  <2>3. n = 2 => b[2].is # "[" BY <1>1, <2>1 DEF EscapeLength
  <2> HIDE DEF j
  <2>4. n = 3 => EscapeLength(j) = 3 BY <1>1, <2>1, <2>2 DEF EscapeLength
  <2>5. n = 2 => EscapeLength(j) = 2 BY <1>1, <2>1, <2>3 DEF EscapeLength
  <2> HIDE DEF n
  <2> QED BY <1>1, <2>4, <2>5
<1>6. (t.rest = <<>> /\ t.r = Become(r, Holding(r.in, b))) \/ t.r.in.pendingEscape = <<>>
  BY <1>0, TakenGood
<1> HIDE DEF j
<1> SUFFICES ASSUME ~ (t.rest = <<>> /\ t.r = Become(r, Holding(r.in, b)))
             PROVE  Taken(r, j) = [r |-> t.r, rest |-> t.rest \o c]
  BY <1>6 DEF j
<1>7. CASE b[1].is # "esc"
  <2>1. t = [r |-> FeedByte(r, b[1]), rest |-> Tail(b)] BY <1>7, Turns4
  <2>2. Taken(r, j) = [r |-> FeedByte(r, b[1]), rest |-> Tail(b) \o c]
    BY <1>2, <1>4, <1>7, Turns4
  <2> HIDE DEF t
  <2> QED BY <2>1, <2>2
<1>8. CASE b[1].is = "esc" /\ n = 0
  <2>1. t = [r |-> Become(r, Holding(r.in, b)), rest |-> <<>>] BY <1>8, Turns4
  <2> HIDE DEF t
  <2> QED BY <2>1
<1>9. CASE b[1].is = "esc" /\ n # 0 /\ r.in.mode = "scroll" /\ n = 2 /\ b[2].is = "esc"
  <2>1. t = [r |-> LeaveScrolling(r), rest |-> Tail(b)] BY <1>9, Turns4
  <2>2. EscapeLength(j) = 2 /\ j[2] = b[2] BY <1>1, <1>2, <1>5, <1>9
  <2>3. Taken(r, j) = [r |-> LeaveScrolling(r), rest |-> Tail(b) \o c]
    BY <1>2, <1>4, <1>9, <2>2, Turns4
  <2> HIDE DEF t
  <2> QED BY <2>1, <2>3
<1>10. CASE /\ b[1].is = "esc" /\ n # 0
            /\ ~ (r.in.mode = "scroll" /\ n = 2 /\ b[2].is = "esc")
  <2> DEFINE rest == SubSeq(b, n + 1, Len(b))
             q == SubSeq(b, 1, n)
  <2>0. n \in 1 .. Len(b) /\ j[2] = b[2] /\ EscapeLength(j) = n BY <1>1, <1>2, <1>5, <1>10
  <2>1. t = [r |-> Escape(r, q, rest), rest |-> rest] BY <1>10, Turns4
  <2>2. SubSeq(j, 1, n) = q /\ SubSeq(j, n + 1, Len(j)) = rest \o c BY <1>2, <2>0
  <2>3. Taken(r, j) = [r |-> Escape(r, q, rest \o c), rest |-> rest \o c]
    <3>1. Taken(r, j) = [r |-> Escape(r, SubSeq(j, 1, n), SubSeq(j, n + 1, Len(j))),
                         rest |-> SubSeq(j, n + 1, Len(j))]
      BY <1>2, <1>4, <1>10, <2>0, Turns4
    <3> HIDE DEF n, rest, q
    <3> QED BY <2>2, <3>1
  <2>4. Escape(r, q, rest) = Escape(r, q, rest \o c)
    <3>1. /\ q \in Seq(Typed) /\ Len(q) = n /\ \A i \in 1 .. n : q[i] = b[i]
          /\ rest \in Seq(Typed) /\ Len(rest) = Len(b) - n
      <4>1. n \in Nat /\ n >= 1 /\ n <= Len(b) BY <1>1, <2>0
      <4> HIDE DEF n
      <4> QED BY <4>1, Parts
    <3>2. rest \o c # <<>>
      <4>1. Len(rest \o c) = Len(rest) + Len(c) BY <3>1, ConcatProperties
      <4>2. Len(rest) \in Nat BY <3>1, LenProperties
      <4> HIDE DEF rest
      <4>3. Len(rest \o c) # 0 BY <1>3, <4>1, <4>2
      <4>4. Len(<<>>) = 0 OBVIOUS
      <4> QED BY <4>3, <4>4
    <3>3. CASE rest # <<>>
      <4> HIDE DEF rest, q
      <4> QED BY <3>2, <3>3, EscapeAlone
    <3>4. CASE rest = <<>>
      <4>1. Len(b) = n
        <5> HIDE DEF rest, n
        <5>0. Len(<<>>) = 0 OBVIOUS
        <5>1. Len(rest) = 0 BY <3>4, <5>0
        <5> QED BY <1>1, <3>1, <5>1
      <4>2. ~ (Len(q) = 3 /\ q[Len(q)].is \in DOMAIN EscapeScrolls /\ r.in.mode = "scroll")
        <5> SUFFICES ASSUME Len(q) = 3, q[Len(q)].is \in DOMAIN EscapeScrolls,
                            r.in.mode = "scroll"
                     PROVE  FALSE
          OBVIOUS
        <5>1. n = 3 /\ Len(b) = 3 BY <3>1, <4>1
        <5>2. b[2].is = "["
          <6>1. Len(b) >= 2 BY <5>1
          <6> QED BY <5>1 DEF EscapeLength
        <5>3. q[Len(q)] = b[3]
          <6> HIDE DEF q, n
          <6> QED BY <3>1, <5>1
        <5>4. b[3].is \in DOMAIN EscapeScrolls BY <5>3
        <5>5. EndsInScroll(b)
          <6>1. Len(b) - 2 = 1 /\ Len(b) - 1 = 2 BY <5>1
          <6> QED BY <1>10, <5>1, <5>2, <5>4, <6>1 DEF EndsInScroll
        <5> QED BY <5>5
      <4> HIDE DEF rest, q
      <4> QED BY <4>2, EscapeAlone
    <3> QED BY <3>3, <3>4
  <2> HIDE DEF t, rest, q
  <2> QED BY <2>1, <2>3, <2>4
<1> QED BY <1>7, <1>8, <1>9, <1>10

-----------------------------------------------------------------------------
(* The loop in feed.                                                       *)

Begin(r, b) == [r |-> r, rest |-> b]

\* The function Loop builds.
Turns(r, b) ==
  CHOOSE f : f = [i \in 0 .. Len(b) |-> IF i = 0 THEN Begin(r, b) ELSE Turn(f[i - 1])]

LEMMA TurnsExist ==
  ASSUME NEW t
  PROVE  \A n \in Nat : \E f : f = [i \in 0 .. n |-> IF i = 0 THEN t ELSE Turn(f[i - 1])]
<1> DEFINE Val(f, i) == IF i = 0 THEN t ELSE Turn(f[i - 1])
           S == {n \in Nat : \E f : f = [i \in 0 .. n |-> Val(f, i)]}
<1>1. 0 \in S
  <2> DEFINE f == [i \in 0 .. 0 |-> t]
  <2>1. \A i \in 0 .. 0 : i = 0 OBVIOUS
  <2>2. f = [i \in 0 .. 0 |-> Val(f, i)] BY <2>1
  <2>3. \E h : h = [i \in 0 .. 0 |-> Val(h, i)] BY <2>2
  <2> HIDE DEF Val
  <2> QED BY <2>3
<1>2. ASSUME NEW n \in Nat, n \in S PROVE n + 1 \in S
  <2>1. PICK f : f = [i \in 0 .. n |-> Val(f, i)] BY <1>2
  <2>0. \A i \in 0 .. n : f[i] = Val(f, i) BY <2>1
  <2> DEFINE g == [i \in 0 .. n + 1 |-> IF i <= n THEN f[i] ELSE Val(f, i)]
  <2>2. ASSUME NEW i \in 0 .. n + 1 PROVE g[i] = Val(g, i)
    <3>1. CASE i <= n
      <4>1. i \in 0 .. n BY <3>1
      <4>2. i = 0 \/ g[i - 1] = f[i - 1] BY <3>1
      <4>3. f[i] = Val(f, i) BY <2>0, <4>1
      <4> QED BY <3>1, <4>2, <4>3
    <3>2. CASE ~ (i <= n)
      <4>1. i = 0 \/ g[i - 1] = f[i - 1] BY <3>2
      <4> QED BY <3>2, <4>1
    <3> QED BY <3>1, <3>2
  <2>3. g = [i \in 0 .. n + 1 |-> g[i]] OBVIOUS
  <2> HIDE DEF g
  <2>4. g = [i \in 0 .. n + 1 |-> Val(g, i)] BY <2>2, <2>3
  <2>5. \E h : h = [i \in 0 .. n + 1 |-> Val(h, i)] BY <2>4
  <2>6. n + 1 \in Nat OBVIOUS
  <2> HIDE DEF Val
  <2> QED BY <2>5, <2>6
<1>3. Nat \subseteq S
  <2> HIDE DEF S
  <2> QED BY <1>1, <1>2, SetInduction
<1> QED BY <1>3

LEMMA LoopIs ==
  ASSUME NEW r, NEW b \in Seq(Typed)
  PROVE  /\ Len(b) \in Nat
         /\ Loop(r, b) = Turns(r, b)[Len(b)].r
         /\ Turns(r, b)[0] = Begin(r, b)
         /\ \A i \in 0 .. Len(b) - 1 : Turns(r, b)[i + 1] = Turn(Turns(r, b)[i])
<1>1. Len(b) \in Nat BY LenProperties
<1> DEFINE f == Turns(r, b)
<1>2. f = [i \in 0 .. Len(b) |-> IF i = 0 THEN Begin(r, b) ELSE Turn(f[i - 1])]
  BY <1>1, TurnsExist DEF Turns
<1>3. Loop(r, b) = f[Len(b)].r BY DEF Loop, Turns, Begin
<1> HIDE DEF f
<1>4. \A i \in 0 .. Len(b) : f[i] = IF i = 0 THEN Begin(r, b) ELSE Turn(f[i - 1])
  BY <1>2
<1>5. f[0] = Begin(r, b) BY <1>1, <1>4
<1>6. ASSUME NEW i \in 0 .. Len(b) - 1 PROVE f[i + 1] = Turn(f[i])
  <2>1. i + 1 \in 0 .. Len(b) /\ i + 1 # 0 /\ (i + 1) - 1 = i BY <1>1
  <2> QED BY <1>4, <2>1
<1> QED BY <1>1, <1>3, <1>5, <1>6 DEF f

\* What every turn begins with and leaves.
Fine(t) ==
  /\ Run(t.r) /\ t.rest \in Seq(Typed)
  /\ t.rest # <<>> => t.r.in.pendingEscape = <<>>

LEMMA TurnFine ==
  ASSUME NEW t, Fine(t), NEW n \in Nat, Len(t.rest) <= n
  PROVE  /\ Fine(Turn(t)) /\ Len(Turn(t).rest) <= (IF n = 0 THEN 0 ELSE n - 1)
         /\ Turn(t) # t => Held(Turn(t).r.in.pendingEscape)
<1>0. Told(<<>>) /\ Len(<<>>) = 0 BY EmptyTold
<1>1. CASE t.rest = <<>>
  <2>1. Turn(t) = t BY <1>1 DEF Turn
  <2>2. Len(t.rest) = 0 BY <1>0, <1>1
  <2> QED BY <2>1, <2>2
<1>2. CASE t.rest # <<>>
  <2>1. Turn(t) = Taken(t.r, t.rest) BY <1>2 DEF Turn
  <2> DEFINE u == Taken(t.r, t.rest)
  <2>2. Run(t.r) /\ t.r.in.pendingEscape = <<>> /\ t.rest \in Seq(Typed) BY <1>2 DEF Fine
  <2>3. /\ Run(u.r) /\ Held(u.r.in.pendingEscape) /\ u.rest \in Seq(Typed)
        /\ Len(u.rest) < Len(t.rest)
        /\ u.rest # <<>> => u.r.in.pendingEscape = <<>>
    BY <1>0, <1>2, <2>2, TakenGood
  <2>4. Len(u.rest) \in Nat /\ Len(t.rest) \in Nat BY <2>2, <2>3, LenProperties
  <2> HIDE DEF u
  <2>5. Len(u.rest) <= (IF n = 0 THEN 0 ELSE n - 1) BY <2>3, <2>4
  <2>6. Fine(u) BY <2>3 DEF Fine
  <2> QED BY <2>1, <2>3, <2>5, <2>6 DEF u
<1> QED BY <1>1, <1>2

LEMMA TurnsFine ==
  ASSUME NEW r, NEW b \in Seq(Typed), Fine(Begin(r, b))
  PROVE  /\ \A i \in 0 .. Len(b) : /\ Fine(Turns(r, b)[i])
                                   /\ Len(Turns(r, b)[i].rest) <= Len(b) - i
                                   /\ \/ Turns(r, b)[i] = Begin(r, b)
                                      \/ Held(Turns(r, b)[i].r.in.pendingEscape)
         /\ Turns(r, b)[Len(b)].rest = <<>>
<1> DEFINE f == Turns(r, b)
           S == {n \in Nat : n <= Len(b) => /\ Fine(f[n]) /\ Len(f[n].rest) <= Len(b) - n
                                            /\ \/ f[n] = Begin(r, b)
                                               \/ Held(f[n].r.in.pendingEscape)}
<1>1. /\ Len(b) \in Nat /\ f[0] = Begin(r, b)
      /\ \A i \in 0 .. Len(b) - 1 : f[i + 1] = Turn(f[i])
  BY LoopIs
<1> HIDE DEF f
<1>2. 0 \in S
  <2>1. f[0].rest = b /\ Len(b) - 0 = Len(b) BY <1>1 DEF Begin
  <2>2. Len(f[0].rest) <= Len(b) - 0 BY <1>1, <2>1
  <2> QED BY <1>1, <2>2
<1>3. ASSUME NEW n \in Nat, n \in S PROVE n + 1 \in S
  <2> SUFFICES ASSUME n + 1 <= Len(b)
               PROVE  /\ Fine(f[n + 1]) /\ Len(f[n + 1].rest) <= Len(b) - (n + 1)
                      /\ \/ f[n + 1] = Begin(r, b)
                         \/ Held(f[n + 1].r.in.pendingEscape)
    OBVIOUS
  <2>1. n <= Len(b) /\ n \in 0 .. Len(b) - 1 /\ Len(b) - n \in Nat /\ Len(b) - n # 0
        /\ (Len(b) - n) - 1 = Len(b) - (n + 1)
    BY <1>1
  <2>2. /\ Fine(f[n]) /\ Len(f[n].rest) <= Len(b) - n
        /\ f[n] = Begin(r, b) \/ Held(f[n].r.in.pendingEscape)
    BY <1>3, <2>1
  <2>3. f[n + 1] = Turn(f[n]) BY <1>1, <2>1
  <2>4. /\ Fine(Turn(f[n]))
        /\ Len(Turn(f[n]).rest) <= (IF Len(b) - n = 0 THEN 0 ELSE (Len(b) - n) - 1)
        /\ Turn(f[n]) # f[n] => Held(Turn(f[n]).r.in.pendingEscape)
    BY <2>1, <2>2, TurnFine
  <2> QED BY <2>1, <2>2, <2>3, <2>4
<1>4. Nat \subseteq S
  <2> HIDE DEF S
  <2> QED BY <1>2, <1>3, SetInduction
<1>5. \A i \in 0 .. Len(b) : /\ Fine(f[i]) /\ Len(f[i].rest) <= Len(b) - i
                             /\ f[i] = Begin(r, b) \/ Held(f[i].r.in.pendingEscape)
  BY <1>1, <1>4
<1>6. f[Len(b)].rest = <<>>
  <2>1. Len(b) \in 0 .. Len(b) /\ Len(b) - Len(b) = 0 BY <1>1
  <2>2. f[Len(b)].rest \in Seq(Typed) /\ Len(f[Len(b)].rest) <= 0
    BY <1>5, <2>1 DEF Fine
  <2>3. Len(f[Len(b)].rest) \in Nat BY <2>2, LenProperties
  <2>4. Len(f[Len(b)].rest) = 0 BY <2>2, <2>3
  <2> QED BY <2>2, <2>4, EmptySeq
<1> QED BY <1>5, <1>6 DEF f

\* One turn, and then the loop over what it leaves.
LEMMA LoopUnfolds ==
  ASSUME NEW r, NEW b \in Seq(Typed), Fine(Begin(r, b))
  PROVE  /\ Run(Loop(r, b))
         /\ Loop(r, b) = r \/ Held(Loop(r, b).in.pendingEscape)
         /\ b = <<>> => Loop(r, b) = r
         /\ b # <<>> => Loop(r, b) = Loop(Taken(r, b).r, Taken(r, b).rest)
<1> DEFINE h == Turns(r, b)
           t == Taken(r, b)
<1>1. /\ Len(b) \in Nat /\ Loop(r, b) = h[Len(b)].r /\ h[0] = Begin(r, b)
      /\ \A i \in 0 .. Len(b) - 1 : h[i + 1] = Turn(h[i])
  BY LoopIs
<1>2. \A i \in 0 .. Len(b) : Fine(h[i])
                             /\ (h[i] = Begin(r, b) \/ Held(h[i].r.in.pendingEscape))
  BY TurnsFine
<1> HIDE DEF h
<1>3. Len(b) \in 0 .. Len(b) BY <1>1
<1>4. Run(Loop(r, b)) BY <1>1, <1>2, <1>3 DEF Fine
<1>5. Begin(r, b).r = r /\ Begin(r, b).rest = b BY DEF Begin
<1>6. Loop(r, b) = r \/ Held(Loop(r, b).in.pendingEscape) BY <1>1, <1>2, <1>3, <1>5
<1>7. b = <<>> => Loop(r, b) = r
  <2>1. Len(<<>>) = 0 OBVIOUS
  <2> QED BY <1>1, <1>5, <2>1
<1>8. ASSUME b # <<>> PROVE Loop(r, b) = Loop(t.r, t.rest)
  <2>1. Len(b) >= 1 BY <1>8, Lengths
  <2>2. h[1] = t
    <3>1. 0 \in 0 .. Len(b) - 1 /\ 0 + 1 = 1 BY <1>1, <2>1
    <3>2. h[1] = Turn(Begin(r, b)) BY <1>1, <3>1
    <3> QED BY <1>5, <1>8, <3>2 DEF Turn
  <2>3. /\ Run(t.r) /\ t.rest \in Seq(Typed) /\ Len(t.rest) < Len(b)
        /\ t = [r |-> t.r, rest |-> t.rest]
        /\ t.rest # <<>> => t.r.in.pendingEscape = <<>>
    <3>1. Run(r) /\ r.in.pendingEscape = <<>> BY <1>5, <1>8 DEF Fine
    <3> QED BY <1>8, <3>1, TakenGood, EmptyTold
  <2> DEFINE k == Turns(t.r, t.rest)
             m == Len(t.rest)
  <2>4. Begin(t.r, t.rest) = t BY <2>3 DEF Begin
  <2> HIDE DEF t
  <2>5. Fine(t) BY <2>3 DEF Fine
  <2>6. /\ m \in Nat /\ Loop(t.r, t.rest) = k[m].r /\ k[0] = t
        /\ \A i \in 0 .. m - 1 : k[i + 1] = Turn(k[i])
    BY <2>3, <2>4, LoopIs
  <2>7. k[m].rest = <<>> BY <2>3, <2>4, <2>5, TurnsFine
  <2> HIDE DEF k, m
  <2>8. m < Len(b) BY <2>3 DEF m
  <2> DEFINE S == {n \in Nat : n <= m => h[n + 1] = k[n]}
  <2>9. Nat \subseteq S
    <3>1. 0 \in S
      <4>1. 0 + 1 = 1 OBVIOUS
      <4> QED BY <2>2, <2>6, <4>1
    <3>2. ASSUME NEW n \in Nat, n \in S PROVE n + 1 \in S
      <4> SUFFICES ASSUME n + 1 <= m PROVE h[(n + 1) + 1] = k[n + 1] OBVIOUS
      <4>1. n <= m /\ n \in 0 .. m - 1 /\ n + 1 \in 0 .. Len(b) - 1 BY <1>1, <2>6, <2>8
      <4>2. h[n + 1] = k[n] BY <3>2, <4>1
      <4>3. h[(n + 1) + 1] = Turn(h[n + 1]) BY <1>1, <4>1
      <4>4. k[n + 1] = Turn(k[n]) BY <2>6, <4>1
      <4> QED BY <4>2, <4>3, <4>4
    <3> HIDE DEF S
    <3> QED BY <3>1, <3>2, SetInduction
  <2>10. h[m + 1] = k[m] BY <2>6, <2>9
  <2> DEFINE R == {n \in Nat : m + 1 + n <= Len(b) => h[m + 1 + n] = k[m]}
  <2>11. Nat \subseteq R
    <3>1. 0 \in R
      <4>1. m + 1 + 0 = m + 1 BY <2>6
      <4> QED BY <2>10, <4>1
    <3>2. ASSUME NEW n \in Nat, n \in R PROVE n + 1 \in R
      <4> SUFFICES ASSUME m + 1 + (n + 1) <= Len(b) PROVE h[m + 1 + (n + 1)] = k[m] OBVIOUS
      <4>1. /\ m + 1 + n <= Len(b) /\ m + 1 + n \in 0 .. Len(b) - 1
            /\ m + 1 + (n + 1) = (m + 1 + n) + 1
        BY <1>1, <2>6
      <4>2. h[m + 1 + n] = k[m] BY <3>2, <4>1
      <4>3. h[(m + 1 + n) + 1] = Turn(h[m + 1 + n]) BY <1>1, <4>1
      <4>4. Turn(k[m]) = k[m] BY <2>7 DEF Turn
      <4> QED BY <4>1, <4>2, <4>3, <4>4
    <3> HIDE DEF R
    <3> QED BY <3>1, <3>2, SetInduction
  <2>12. h[Len(b)] = k[m]
    <3>1. Len(b) - (m + 1) \in Nat /\ m + 1 + (Len(b) - (m + 1)) = Len(b)
      BY <1>1, <2>6, <2>8
    <3>2. Len(b) <= Len(b) BY <1>1
    <3>3. Len(b) - (m + 1) \in R BY <2>11, <3>1
    <3> QED BY <3>1, <3>2, <3>3
  <2> QED BY <1>1, <2>6, <2>12
<1> QED BY <1>4, <1>6, <1>7, <1>8

\* What was sent before stays in front.
LEMMA LoopOnto ==
  ASSUME NEW o, Told(o)
  PROVE  \A r : \A b \in Seq(Typed) :
           Fine(Begin(r, b)) => Loop(Onto(o, r), b) = Onto(o, Loop(r, b))
<1> DEFINE Same(r, b) == Loop(Onto(o, r), b) = Onto(o, Loop(r, b))
           S == {n \in Nat : \A r : \A b \in Seq(Typed) :
                   Len(b) <= n /\ Fine(Begin(r, b)) => Same(r, b)}
<1>1. ASSUME NEW r, NEW b \in Seq(Typed), Fine(Begin(r, b)),
             \A q : \A c \in Seq(Typed) :
               Len(c) < Len(b) /\ Fine(Begin(q, c)) => Same(q, c)
      PROVE  Same(r, b)
  <2> DEFINE t == Taken(r, b)
  <2>0. /\ Run(r) /\ (b # <<>> => r.in.pendingEscape = <<>>)
    BY <1>1 DEF Fine, Begin
  <2>1. Run(Onto(o, r)) /\ Onto(o, r).in = r.in BY <2>0, OntoRun
  <2>2. Fine(Begin(Onto(o, r), b)) BY <2>0, <2>1 DEF Fine, Begin
  <2>3. CASE b = <<>>
    <3>1. Loop(r, b) = r BY <1>1, <2>3, LoopUnfolds
    <3>2. Loop(Onto(o, r), b) = Onto(o, r) BY <2>2, <2>3, LoopUnfolds
    <3> QED BY <3>1, <3>2
  <2>4. CASE b # <<>>
    <3>1. /\ Run(t.r) /\ t.rest \in Seq(Typed) /\ Len(t.rest) < Len(b)
          /\ t.rest # <<>> => t.r.in.pendingEscape = <<>>
          /\ Taken(Onto(o, r), b) = [r |-> Onto(o, t.r), rest |-> t.rest]
      BY <2>0, <2>4, TakenGood
    <3>2. Loop(r, b) = Loop(t.r, t.rest) BY <1>1, <2>4, LoopUnfolds
    <3>3. Loop(Onto(o, r), b) = Loop(Taken(Onto(o, r), b).r, Taken(Onto(o, r), b).rest)
      BY <2>2, <2>4, LoopUnfolds
    <3> HIDE DEF t
    <3>4. Fine(Begin(t.r, t.rest)) BY <3>1 DEF Fine, Begin
    <3>5. Same(t.r, t.rest) BY <1>1, <3>1, <3>4
    <3>6. Loop(Onto(o, r), b) = Loop(Onto(o, t.r), t.rest) BY <3>1, <3>3
    <3> QED BY <3>2, <3>5, <3>6
  <2> QED BY <2>3, <2>4
<1> HIDE DEF Same
<1>2. 0 \in S
  <2> SUFFICES ASSUME NEW r, NEW b \in Seq(Typed), Len(b) <= 0, Fine(Begin(r, b))
               PROVE  Same(r, b)
    OBVIOUS
  <2>1. Len(b) \in Nat BY LenProperties
  <2>2. \A q : \A c \in Seq(Typed) : ~ (Len(c) < Len(b))
    <3> SUFFICES ASSUME NEW c \in Seq(Typed), Len(c) < Len(b) PROVE FALSE OBVIOUS
    <3>1. Len(c) \in Nat BY LenProperties
    <3> QED BY <2>1, <3>1
  <2> QED BY <1>1, <2>2
<1>3. ASSUME NEW n \in Nat, n \in S PROVE n + 1 \in S
  <2> SUFFICES ASSUME NEW r, NEW b \in Seq(Typed), Len(b) <= n + 1, Fine(Begin(r, b))
               PROVE  Same(r, b)
    OBVIOUS
  <2>1. \A q : \A c \in Seq(Typed) : Len(c) < Len(b) /\ Fine(Begin(q, c)) => Same(q, c)
    <3> SUFFICES ASSUME NEW q, NEW c \in Seq(Typed), Len(c) < Len(b), Fine(Begin(q, c))
                 PROVE  Same(q, c)
      OBVIOUS
    <3>1. Len(b) \in Nat /\ Len(c) \in Nat BY LenProperties
    <3>2. Len(c) <= n BY <3>1
    <3> QED BY <1>3, <3>2
  <2> QED BY <1>1, <2>1
<1>4. Nat \subseteq S
  <2> HIDE DEF S
  <2> QED BY <1>2, <1>3, SetInduction
<1>5. ASSUME NEW r, NEW b \in Seq(Typed), Fine(Begin(r, b)) PROVE Same(r, b)
  <2>1. Len(b) \in Nat /\ Len(b) <= Len(b) BY LenProperties
  <2>2. Len(b) \in S BY <1>4, <2>1
  <2> QED BY <1>5, <2>1, <2>2
<1> QED BY <1>5 DEF Same

\* What was held back is taken up again.
Release(r) == Become(r, Holding(r.in, <<>>))
Resumed(r, c) == Loop(Release(r), r.in.pendingEscape \o c)

\* Where the input is cut does not matter, if not behind a sequence of Scroll
\* mode.
LEMMA CutStep ==
  ASSUME NEW r, NEW b \in Seq(Typed), b # <<>>, Fine(Begin(r, b)),
         NEW c \in Seq(Typed), c # <<>>,
         ~ (r.in.mode = "scroll" /\ EndsInScroll(b)),
         LET t == Taken(r, b) IN
           t.rest # <<>> => Loop(t.r, t.rest \o c) = Resumed(Loop(t.r, t.rest), c)
  PROVE  Loop(r, b \o c) = Resumed(Loop(r, b), c)
<1> DEFINE t == Taken(r, b)
<1>0. Run(r) /\ r.in.pendingEscape = <<>> /\ r.in \in InputStates
  BY RunParts DEF Fine, Begin
<1>1. /\ Run(t.r) /\ t.rest \in Seq(Typed)
      /\ t.rest # <<>> => t.r.in.pendingEscape = <<>>
  BY <1>0, TakenGood, EmptyTold
<1>2. \/ t.rest = <<>> /\ t.r = Become(r, Holding(r.in, b))
      \/ /\ t.r.in.pendingEscape = <<>>
         /\ Taken(r, b \o c) = [r |-> t.r, rest |-> t.rest \o c]
  BY <1>0, CutTurn
<1>3. Loop(r, b) = Loop(t.r, t.rest) BY LoopUnfolds
<1>4. b \o c \in Seq(Typed) /\ b \o c # <<>> BY Joined
<1>5. Fine(Begin(r, b \o c)) BY <1>0, <1>4 DEF Fine, Begin
<1>6. Loop(r, b \o c) = Loop(Taken(r, b \o c).r, Taken(r, b \o c).rest)
  BY <1>4, <1>5, LoopUnfolds
<1>7. Fine(Begin(t.r, t.rest)) BY <1>1 DEF Fine, Begin
<1> HIDE DEF t
<1>8. t.rest = <<>> => Loop(r, b) = t.r BY <1>1, <1>3, <1>7, LoopUnfolds
<1>9. CASE t.rest = <<>> /\ t.r = Become(r, Holding(r.in, b))
  <2> DEFINE s == r.in
             f == Become(r, Holding(s, b))
  <2>0. <<>> \in Seq(Typed) OBVIOUS
  <2>1. /\ Holding(s, b) \in InputStates /\ Holding(s, b).pendingEscape = b
        /\ Holding(Holding(s, b), <<>>) = Holding(s, <<>>)
    <3>1. s \in InputStates /\ b \in Seq(Typed) BY <1>0
    <3> HIDE DEF s
    <3> QED BY <2>0, <3>1, HoldingIs
  <2>2. Holding(s, <<>>) = s /\ Holding(s, <<>>) \in InputStates BY <1>0, <2>0, HoldingIs
  <2>3. f.in = Holding(s, b) /\ Become(f, Holding(s, <<>>)) = Become(r, Holding(s, <<>>))
    BY <1>0, <2>1, <2>2, BecomeRun, EmptyTold
  <2>4. Become(r, s) = r BY <1>0, BecomeRun, EmptyTold
  <2>5. Release(f) = r
    <3>1. Holding(f.in, <<>>) = Holding(s, <<>>) BY <2>1, <2>3
    <3> HIDE DEF f, s
    <3> QED BY <2>2, <2>3, <2>4, <3>1 DEF Release
  <2>6. f.in.pendingEscape = b BY <2>1, <2>3
  <2> HIDE DEF f
  <2> QED BY <1>8, <1>9, <2>5, <2>6 DEF Resumed, f
<1>10. CASE /\ t.r.in.pendingEscape = <<>>
            /\ Taken(r, b \o c) = [r |-> t.r, rest |-> t.rest \o c]
  <2>1. Loop(r, b \o c) = Loop(t.r, t.rest \o c) BY <1>6, <1>10
  <2>2. CASE t.rest # <<>>
    BY <1>3, <2>1, <2>2 DEF t
  <2>3. CASE t.rest = <<>>
    <3>1. <<>> \o c = c BY ConcatEmptySeq
    <3>2. t.r.in \in InputStates /\ <<>> \in Seq(Typed) BY <1>1, RunParts
    <3>3. Holding(t.r.in, <<>>) = t.r.in BY <1>10, <3>2, HoldingIs
    <3>4. Become(t.r, t.r.in) = t.r BY <1>1, <3>2, BecomeRun, EmptyTold
    <3>5. Release(t.r) = t.r BY <3>3, <3>4 DEF Release
    <3>6. Resumed(t.r, c) = Loop(t.r, c) BY <1>10, <3>1, <3>5 DEF Resumed
    <3>7. Loop(r, b) = t.r BY <1>8, <2>3
    <3>8. Loop(r, b \o c) = Loop(t.r, c) BY <2>1, <2>3, <3>1
    <3> QED BY <3>6, <3>7, <3>8
  <2> QED BY <2>2, <2>3
<1> QED BY <1>2, <1>9, <1>10

LEMMA TakenSuffix ==
  ASSUME NEW r, Run(r), r.in.pendingEscape = <<>>,
         NEW b \in Seq(Typed), b # <<>>, ~ EndsInScroll(b)
  PROVE  ~ EndsInScroll(Taken(r, b).rest)
<1> DEFINE n == EscapeLength(b)
<1>1. Len(b) \in Nat /\ Len(b) >= 1 /\ n \in {0, 2, 3} /\ n <= Len(b) BY Lengths
<1>2. 1 \in 1 .. Len(b) BY <1>1
<1>3. ~ EndsInScroll(Tail(b)) BY <1>2, Suffixes
<1>4. n # 0 => ~ EndsInScroll(SubSeq(b, n + 1, Len(b)))
  <2> SUFFICES ASSUME n # 0 PROVE ~ EndsInScroll(SubSeq(b, n + 1, Len(b))) OBVIOUS
  <2>1. n \in 1 .. Len(b) BY <1>1
  <2> HIDE DEF n
  <2> QED BY <2>1, Suffixes
<1>5. ~ EndsInScroll(<<>>)
  <2>1. Len(<<>>) = 0 OBVIOUS
  <2> QED BY <2>1 DEF EndsInScroll
<1>6. \/ Taken(r, b).rest = Tail(b)
      \/ Taken(r, b).rest = <<>>
      \/ n # 0 /\ Taken(r, b).rest = SubSeq(b, n + 1, Len(b))
  BY Turns4
<1> HIDE DEF n
<1> QED BY <1>3, <1>4, <1>5, <1>6

LEMMA CutAnywhere ==
  ASSUME NEW c \in Seq(Typed), c # <<>>
  PROVE  \A r : \A b \in Seq(Typed) :
           b # <<>> /\ Fine(Begin(r, b)) /\ ~ EndsInScroll(b) =>
             Loop(r, b \o c) = Resumed(Loop(r, b), c)
<1> DEFINE Same(r, b) == Loop(r, b \o c) = Resumed(Loop(r, b), c)
           S == {n \in Nat : \A r : \A b \in Seq(Typed) :
                   Len(b) <= n /\ b # <<>> /\ Fine(Begin(r, b)) /\ ~ EndsInScroll(b) =>
                     Same(r, b)}
<1>1. ASSUME NEW r, NEW b \in Seq(Typed), b # <<>>, Fine(Begin(r, b)), ~ EndsInScroll(b),
             \A q : \A d \in Seq(Typed) :
               Len(d) < Len(b) /\ d # <<>> /\ Fine(Begin(q, d)) /\ ~ EndsInScroll(d) =>
                 Same(q, d)
      PROVE  Same(r, b)
  <2> DEFINE t == Taken(r, b)
  <2>0. Run(r) /\ r.in.pendingEscape = <<>> BY <1>1 DEF Fine, Begin
  <2>1. /\ Run(t.r) /\ t.rest \in Seq(Typed) /\ Len(t.rest) < Len(b)
        /\ t.rest # <<>> => t.r.in.pendingEscape = <<>>
    BY <1>1, <2>0, TakenGood, EmptyTold
  <2>2. ~ EndsInScroll(t.rest) BY <1>1, <2>0, TakenSuffix
  <2> HIDE DEF t
  <2>3. Fine(Begin(t.r, t.rest)) BY <2>1 DEF Fine, Begin
  <2>4. t.rest # <<>> => Same(t.r, t.rest) BY <1>1, <2>1, <2>2, <2>3
  <2> QED BY <1>1, <2>4, CutStep DEF t
<1> HIDE DEF Same
<1>2. 0 \in S
  <2> SUFFICES ASSUME NEW b \in Seq(Typed), Len(b) <= 0, b # <<>> PROVE FALSE OBVIOUS
  <2> QED BY Lengths
<1>3. ASSUME NEW n \in Nat, n \in S PROVE n + 1 \in S
  <2> SUFFICES ASSUME NEW r, NEW b \in Seq(Typed), Len(b) <= n + 1, b # <<>>,
                      Fine(Begin(r, b)), ~ EndsInScroll(b)
               PROVE  Same(r, b)
    OBVIOUS
  <2>1. \A q : \A d \in Seq(Typed) :
          Len(d) < Len(b) /\ d # <<>> /\ Fine(Begin(q, d)) /\ ~ EndsInScroll(d) => Same(q, d)
    <3> SUFFICES ASSUME NEW q, NEW d \in Seq(Typed), Len(d) < Len(b), d # <<>>,
                        Fine(Begin(q, d)), ~ EndsInScroll(d)
                 PROVE  Same(q, d)
      OBVIOUS
    <3>1. Len(b) \in Nat /\ Len(d) \in Nat BY LenProperties
    <3>2. Len(d) <= n BY <3>1
    <3> QED BY <1>3, <3>2
  <2> QED BY <1>1, <2>1
<1>4. Nat \subseteq S
  <2> HIDE DEF S
  <2> QED BY <1>2, <1>3, SetInduction
<1>5. ASSUME NEW r, NEW b \in Seq(Typed), b # <<>>, Fine(Begin(r, b)), ~ EndsInScroll(b)
      PROVE  Same(r, b)
  <2>1. Len(b) \in Nat /\ Len(b) <= Len(b) BY LenProperties
  <2>2. Len(b) \in S BY <1>4, <2>1
  <2> QED BY <1>5, <2>1, <2>2
<1> QED BY <1>5 DEF Same

-----------------------------------------------------------------------------
(* A read.                                                                 *)

Fresh(s) == [in |-> Holding(s, <<>>), out |-> <<>>]

LEMMA FreshFine ==
  ASSUME NEW s \in InputStates
  PROVE  /\ Run(Fresh(s)) /\ Fresh(s).in = Holding(s, <<>>)
         /\ Fresh(s).in.pendingEscape = <<>>
         /\ \A b \in Seq(Typed) : Fine(Begin(Fresh(s), b))
<1>1. <<>> \in Seq(Typed) OBVIOUS
<1>2. Holding(s, <<>>) \in InputStates /\ Holding(s, <<>>).pendingEscape = <<>>
  BY <1>1, HoldingIs
<1>3. Run(Fresh(s)) BY <1>2, EmptyTold DEF Run, Fresh
<1>4. Fresh(s).in = Holding(s, <<>>) BY DEF Fresh
<1> QED BY <1>2, <1>3, <1>4 DEF Fine, Begin

LEMMA FedIs ==
  ASSUME NEW s \in InputStates, NEW b \in Seq(Typed)
  PROVE  /\ s.pendingEscape \o b \in Seq(Typed)
         /\ Fed(s, b) = Loop(Fresh(s), s.pendingEscape \o b)
         /\ Run(Fed(s, b)) /\ Held(Fed(s, b).in.pendingEscape)
<1>1. s.pendingEscape \o b \in Seq(Typed) BY LikeTypes, ConcatProperties
<1>2. Fed(s, b) = Loop(Fresh(s), s.pendingEscape \o b) BY DEF Fed, Fresh, Holding
<1>3. Fine(Begin(Fresh(s), s.pendingEscape \o b)) BY <1>1, FreshFine
<1>4. Held(Fresh(s).in.pendingEscape)
  <2>1. Held(<<>>) BY DEF Held
  <2> QED BY <2>1, FreshFine
<1> QED BY <1>1, <1>2, <1>3, <1>4, LoopUnfolds

\* What is read in two does what it does in one.
LEMMA ReadInTwo ==
  ASSUME NEW s \in InputStates, NEW b \in Seq(Typed), NEW c \in Seq(Typed),
         LET r == Fresh(s)
             a == s.pendingEscape \o b IN
           Loop(r, a \o c) = Resumed(Loop(r, a), c)
  PROVE  LET first == Fed(s, b)
             second == Fed(first.in, c) IN
         Fed(s, b \o c) = [in |-> second.in, out |-> first.out \o second.out]
<1> DEFINE first == Fed(s, b)
           a == s.pendingEscape \o b
<1>1. /\ a \in Seq(Typed) /\ first = Loop(Fresh(s), a) /\ Run(first) BY FedIs
<1>2. b \o c \in Seq(Typed) /\ s.pendingEscape \in Seq(Typed) BY ConcatProperties, LikeTypes
<1>3. s.pendingEscape \o (b \o c) = a \o c
  <2> DEFINE e == s.pendingEscape
  <2>1. e \in Seq(Typed) BY <1>2
  <2> HIDE DEF e
  <2>2. (e \o b) \o c = e \o (b \o c) BY <2>1, ConcatAssociative
  <2> QED BY <2>2 DEF e
<1>4. Fed(s, b \o c) = Loop(Fresh(s), a \o c) BY <1>2, <1>3, FedIs
<1>5. Fed(s, b \o c) = Resumed(first, c) BY <1>1, <1>4
<1> HIDE DEF first, a
<1>6. first.in \in InputStates /\ Told(first.out) BY <1>1, RunParts
<1>7. Release(first) = Onto(first.out, Fresh(first.in))
  <2>1. PICK i \in InputStates : \E w : Told(w) /\ first = [in |-> i, out |-> w]
    BY <1>1 DEF Run
  <2>2. PICK w : Told(w) /\ first = [in |-> i, out |-> w] BY <2>1
  <2>3. first.in = i /\ first.out = w BY <2>2
  <2>4. Holding(i, <<>>) \in InputStates
    <3>1. <<>> \in Seq(Typed) OBVIOUS
    <3> QED BY <3>1, HoldingIs
  <2>5. Release(first) = [in |-> Holding(i, <<>>), out |-> w]
    BY <2>2, <2>3, <2>4, BecomeIs DEF Release
  <2>6. w \o <<>> = w BY <2>2, EmptyUnit
  <2>7. Onto(w, Fresh(i)) = [in |-> Holding(i, <<>>), out |-> w \o <<>>]
    BY DEF Onto, Fresh
  <2> QED BY <2>3, <2>5, <2>6, <2>7
<1>8. /\ first.in.pendingEscape \o c \in Seq(Typed)
      /\ Fed(first.in, c) = Loop(Fresh(first.in), first.in.pendingEscape \o c)
  BY <1>6, FedIs
<1>9. Fine(Begin(Fresh(first.in), first.in.pendingEscape \o c)) BY <1>6, <1>8, FreshFine
<1>10. Resumed(first, c) = Onto(first.out, Fed(first.in, c))
  <2> DEFINE x == first.in.pendingEscape \o c
  <2>1. x \in Seq(Typed) /\ Fine(Begin(Fresh(first.in), x)) BY <1>8, <1>9
  <2>2. Fed(first.in, c) = Loop(Fresh(first.in), x) BY <1>8
  <2>3. Resumed(first, c) = Loop(Release(first), x) BY DEF Resumed
  <2> HIDE DEF x
  <2>4. Loop(Onto(first.out, Fresh(first.in)), x) = Onto(first.out, Loop(Fresh(first.in), x))
    BY <1>6, <2>1, LoopOnto
  <2> QED BY <1>7, <2>2, <2>3, <2>4
<1> QED BY <1>5, <1>10 DEF Onto, first

-----------------------------------------------------------------------------
(* Ticks, sizes and Snapshots.                                             *)

LEMMA TicksLike ==
  ASSUME NEW s \in InputStates
  PROVE  /\ Run(AutoscrollTick(s)) /\ Like(AutoscrollTick(s).in, s)
         /\ AutoscrollTick(s).in.anchor = s.anchor
         /\ Run(EscapeTick(s)) /\ EscapeTick(s).in.pendingEscape = <<>>
<1> DEFINE p == [s EXCEPT !.pending = TRUE]
           r == [in |-> p, out |-> <<>>]
           act == <<"scroll", AutoscrollRows(s.edge)>>
<1>1. Like(p, s) /\ p.anchor = s.anchor BY DEF InputStates, Like
<1>2. AutoscrollTick(s) = IF s.edge = "none" THEN r ELSE Emit(r, act)
  BY DEF AutoscrollTick
<1>14. IsAction(act) BY DEF IsAction, AutoscrollRows
<1> HIDE DEF p, act
<1>3. Run(r) /\ r.in = p BY <1>1, EmptyTold DEF Run, Like
<1>4. Good(r, Onto(<<>>, r), r, <<>>) BY <1>3, GoodSelf, EmptyTold
<1> HIDE DEF r
<1>5. Run(Emit(r, act)) /\ Emit(r, act).in = p
  <2>1. /\ Good(Emit(r, act), Emit(Onto(<<>>, r), act), r, <<>>)
        /\ Emit(r, act).in = r.in
    BY <1>4, <1>14, GoodEmit, EmptyTold
  <2> QED BY <1>3, <2>1 DEF Good
<1>6. /\ Run(AutoscrollTick(s)) /\ Like(AutoscrollTick(s).in, s)
      /\ AutoscrollTick(s).in.anchor = s.anchor
  BY <1>1, <1>2, <1>3, <1>5
<1> DEFINE f == Fresh(s)
<1>7. EscapeTick(s) = IF s.mode = "scroll" THEN LeaveScrolling(f)
                      ELSE ForwardAll(f, s.pendingEscape)
  BY DEF EscapeTick, Fresh, Holding
<1>8. Run(f) /\ f.in.pendingEscape = <<>> BY FreshFine
<1>9. Good(f, Onto(<<>>, f), f, <<>>) BY <1>8, GoodSelf, EmptyTold
<1>10. IsSeq(s.pendingEscape) BY LikeTypes DEF IsSeq
<1> HIDE DEF f
<1>11. Good(LeaveScrolling(f), LeaveScrolling(Onto(<<>>, f)), f, <<>>)
  BY <1>9, LeaveGood, EmptyTold
<1>12. Good(ForwardAll(f, s.pendingEscape), ForwardAll(Onto(<<>>, f), s.pendingEscape), f, <<>>)
  BY <1>9, <1>10, GoodForward, EmptyTold
<1>13. Run(EscapeTick(s)) /\ EscapeTick(s).in.pendingEscape = <<>>
  BY <1>7, <1>8, <1>11, <1>12 DEF Good
<1> QED BY <1>6, <1>13

\* The selection keeps its line on the screen, or is given up.
LEMMA SetSizeLike ==
  ASSUME NEW s \in InputStates, NEW rows \in Nat \ {0}, NEW cols \in Nat \ {0}
  PROVE  LET t == SetSize(s, rows, cols) IN
         Like(t, s) /\ (t.anchor = s.anchor \/ t.anchor = <<>>)
<1> DEFINE cursorRow == IF Selected(s) THEN s.cursorRow ELSE Within(0, s.cursorRow, rows - 1)
           cursorCol == Least(s.cursorCol, cols - 1)
           dragRow == Least(s.dragRow, rows - 1)
           dragCol == Least(s.dragCol, cols - 1)
           sized == [s EXCEPT !.rows = rows, !.cols = cols]
           pointed == [sized EXCEPT !.cursorRow = cursorRow, !.cursorCol = cursorCol]
           kept == [pointed EXCEPT !.dragRow = dragRow, !.dragCol = dragCol]
           cleared == ClearAutoscroll(kept)
           dropped == [cleared EXCEPT !.anchor = <<>>, !.selecting = FALSE]
<1>1. /\ cursorRow \in Int /\ cursorCol \in Int /\ dragRow \in Int /\ dragCol \in Int
  <2>1. /\ s.cursorRow \in Int /\ s.cursorCol \in Int /\ s.dragRow \in Int /\ s.dragCol \in Int
    BY LikeTypes
  <2> QED BY <2>1 DEF Within, Least
<1>2. kept = [s EXCEPT !.rows = rows, !.cols = cols,
                       !.cursorRow = cursorRow, !.cursorCol = cursorCol,
                       !.dragRow = dragRow, !.dragCol = dragCol]
  <2> HIDE DEF cursorRow, cursorCol, dragRow, dragCol
  <2> QED BY <1>1 DEF InputStates
<1>3. SetSize(s, rows, cols) \in {kept, dropped}
  <2> DEFINE k == [s EXCEPT !.rows = rows, !.cols = cols,
                       !.cursorRow = cursorRow, !.cursorCol = cursorCol,
                       !.dragRow = dragRow, !.dragCol = dragCol]
             out == Selected(s) /\ s.anchor[2] >= cols
  <2>1. SetSize(s, rows, cols) =
          IF out THEN [ClearAutoscroll(k) EXCEPT !.anchor = <<>>, !.selecting = FALSE] ELSE k
    BY DEF SetSize
  <2> HIDE DEF k, kept, out
  <2>2. k = kept BY <1>2 DEF k
  <2> QED BY <2>1, <2>2
<1> HIDE DEF cursorRow, cursorCol, dragRow, dragCol
<1>4. Like(sized, s) /\ sized.anchor = s.anchor BY ZenonT(30) DEF InputStates, Like
<1> HIDE DEF sized
<1>5. Like(pointed, s) /\ pointed.anchor = s.anchor BY <1>1, <1>4, ZenonT(30) DEF InputStates, Like
<1> HIDE DEF pointed
<1>6. Like(kept, s) /\ kept.anchor = s.anchor BY <1>1, <1>5, ZenonT(30) DEF InputStates, Like
<1> HIDE DEF kept
<1>7. Like(cleared, s) BY <1>6, ClearLike DEF Like
<1> HIDE DEF cleared
<1>8. Like(dropped, s) /\ dropped.anchor = <<>> BY <1>7, ZenonT(30) DEF InputStates, Like
<1> HIDE DEF dropped
<1> QED BY <1>3, <1>6, <1>8

LEMMA SetScreenLike ==
  ASSUME NEW s \in InputStates,
         NEW screen \in [mouse : BOOLEAN, alternate : BOOLEAN, history : BOOLEAN]
  PROVE  Like(SetScreen(s, screen), s) /\ SetScreen(s, screen).anchor = s.anchor
<1> DEFINE c == IF screen.history THEN s ELSE ClearAutoscroll(s)
<1>1. Like(c, s) /\ c.anchor = s.anchor BY ClearLike, LikeTypes
<1> DEFINE t == [c EXCEPT !.screen = screen]
<1>2. SetScreen(s, screen) = t BY DEF SetScreen
<1> HIDE DEF c
<1>3. c \in InputStates /\ c.pendingEscape = s.pendingEscape BY <1>1 DEF Like
<1>4. t \in InputStates /\ t.pendingEscape = c.pendingEscape /\ t.anchor = c.anchor
  BY <1>3, ZenonT(30) DEF InputStates
<1> HIDE DEF t
<1> QED BY <1>1, <1>2, <1>3, <1>4 DEF Like

LEMMA ScrollLike ==
  ASSUME NEW s \in InputStates, NEW by \in Int
  PROVE  LET t == ScrollSelection(s, by) IN
         /\ Like(t, s)
         /\ Selected(t) <=> Selected(s)
         /\ Selected(s) => t.anchor[1] = s.anchor[1] + by
<1> DEFINE started == s.started \/ s.pending
           answered == [s EXCEPT !.pending = FALSE, !.started = started]
           row == s.anchor[1] + by
           to == <<row, s.anchor[2]>>
           cursor == IF s.edge = "none" THEN s.cursorRow + by ELSE s.cursorRow
           moved == [answered EXCEPT !.anchor = to, !.cursorRow = cursor]
<1>1. Like(s, s) /\ s.anchor \in {<<>>} \cup (Int \X Int) /\ s.cursorRow \in Int BY LikeTypes
<1>2. started \in BOOLEAN OBVIOUS
<1>3. answered = [s EXCEPT !.pending = FALSE, !.started = @ \/ s.pending] OBVIOUS
<1>4. ScrollSelection(s, by) =
        IF by = 0 THEN s
        ELSE IF ~ Selected(s) THEN answered
        ELSE [answered EXCEPT !.anchor[1] = @ + by,
                              !.cursorRow = IF s.edge = "none" THEN @ + by ELSE @]
  BY <1>3 DEF ScrollSelection
<1>5. Like(answered, s) /\ answered.anchor = s.anchor /\ answered.cursorRow = s.cursorRow
  <2> HIDE DEF started
  <2> QED BY <1>2, ZenonT(30) DEF InputStates, Like
<1> HIDE DEF answered, started
<1>6. Selected(s) => [answered EXCEPT !.anchor[1] = @ + by,
                                      !.cursorRow = IF s.edge = "none" THEN @ + by ELSE @] = moved
  <2> SUFFICES ASSUME Selected(s)
               PROVE  [answered EXCEPT !.anchor[1] = @ + by,
                         !.cursorRow = IF s.edge = "none" THEN @ + by ELSE @] = moved
    OBVIOUS
  <2>1. s.anchor \in Int \X Int BY <1>1 DEF Selected
  <2>2. [s.anchor EXCEPT ![1] = @ + by] = to BY <2>1
  <2>3. [answered EXCEPT !.anchor[1] = @ + by,
                         !.cursorRow = IF s.edge = "none" THEN @ + by ELSE @]
          = [answered EXCEPT !.anchor = [s.anchor EXCEPT ![1] = @ + by], !.cursorRow = cursor]
    BY <1>5 DEF InputStates, Like
  <2> QED BY <2>2, <2>3
<1>7. Selected(s) => /\ Like(moved, s) /\ moved.anchor = to
                     /\ to \in Int \X Int /\ to[1] = row
  <2> SUFFICES ASSUME Selected(s)
               PROVE  /\ Like(moved, s) /\ moved.anchor = to
                      /\ to \in Int \X Int /\ to[1] = row
    OBVIOUS
  <2>1. s.anchor \in Int \X Int BY <1>1 DEF Selected
  <2>2. to \in Int \X Int /\ cursor \in Int /\ to[1] = row BY <1>1, <2>1
  <2> HIDE DEF to, cursor, row
  <2>3. Like(moved, s) /\ moved.anchor = to BY <1>5, <2>2 DEF InputStates, Like
  <2> QED BY <2>2, <2>3
<1>8. CASE by = 0
  <2>1. ScrollSelection(s, by) = s BY <1>4, <1>8
  <2>2. Selected(s) => s.anchor[1] = s.anchor[1] + by
    <3> SUFFICES ASSUME Selected(s) PROVE s.anchor[1] = s.anchor[1] + by OBVIOUS
    <3>1. s.anchor[1] \in Int BY <1>1 DEF Selected
    <3> QED BY <1>8, <3>1
  <2> QED BY <1>1, <2>1, <2>2
<1>9. CASE by # 0 /\ ~ Selected(s)
  <2>1. ScrollSelection(s, by) = answered BY <1>4, <1>9
  <2> QED BY <1>5, <1>9, <2>1 DEF Selected
<1>10. CASE by # 0 /\ Selected(s)
  <2>1. ScrollSelection(s, by) = moved BY <1>4, <1>6, <1>10
  <2>2. to # <<>> BY <1>7, <1>10
  <2> HIDE DEF moved, to
  <2>3. Selected(moved) BY <1>7, <1>10, <2>2 DEF Selected
  <2> QED BY <1>7, <1>10, <2>1, <2>3 DEF row
<1> QED BY <1>8, <1>9, <1>10

LEMMA ShownLike ==
  ASSUME NEW s \in InputStates, NEW size, size[1] \in Nat \ {0}, size[2] \in Nat \ {0},
         NEW screen \in [mouse : BOOLEAN, alternate : BOOLEAN, history : BOOLEAN],
         NEW by \in Int, NEW atEnd
  PROVE  LET t == Shown(s, size, screen, by, atEnd) IN
         /\ Like(t, s)
         /\ Selected(t) => Selected(s) /\ t.anchor[1] = s.anchor[1] + by
<1> DEFINE sized == SetSize(s, size[1], size[2])
           on == SetScreen(sized, screen)
           scrolled == ScrollSelection(on, by)
<1>1. Shown(s, size, screen, by, atEnd) \in {scrolled, ClearAutoscroll(scrolled)}
  BY DEF Shown
<1>2. Like(sized, s) /\ (sized.anchor = s.anchor \/ sized.anchor = <<>>) BY SetSizeLike
<1> HIDE DEF sized
<1>3. Like(on, s) /\ on.anchor = sized.anchor BY <1>2, SetScreenLike DEF Like
<1> HIDE DEF on
<1>4. /\ Like(scrolled, s) /\ (Selected(scrolled) <=> Selected(on))
      /\ Selected(on) => scrolled.anchor[1] = on.anchor[1] + by
  BY <1>3, ScrollLike DEF Like
<1> HIDE DEF scrolled
<1>5. /\ Like(ClearAutoscroll(scrolled), s)
      /\ ClearAutoscroll(scrolled).anchor = scrolled.anchor
  BY <1>4, ClearLike DEF Like
<1>6. Selected(scrolled) => Selected(s) /\ scrolled.anchor[1] = s.anchor[1] + by
  BY <1>2, <1>3, <1>4 DEF Selected
<1> QED BY <1>1, <1>4, <1>5, <1>6 DEF Selected

-----------------------------------------------------------------------------
(* InputState *)

\* The state of the input, and what it may hold back.
InputInv == input \in InputStates /\ Held(input.pendingEscape)

LEMMA StartTyped ==
  ASSUME NEW size \in Sizes
  PROVE  Start(size[1], size[2]) \in InputStates /\ Start(size[1], size[2]).pendingEscape = <<>>
<1> DEFINE rows == size[1]
           cols == size[2]
           last == rows - 1
           zero == 0
           none == <<>>
<1>1. rows \in Nat \ {0} /\ cols \in Nat \ {0} BY InputAssumption
<1>2. last \in Int /\ zero \in Int /\ zero \in Nat BY <1>1
<1>3. none \in Seq(Typed) /\ none \in {<<>>} \cup (Int \X Int) OBVIOUS
<1>4. Start(rows, cols) =
        [prefix |-> FALSE, mode |-> "normal", query |-> zero, lastQuery |-> FALSE,
         pendingEscape |-> none,
         screen |-> [mouse |-> FALSE, alternate |-> FALSE, history |-> TRUE],
         rows |-> rows, cols |-> cols, cursorRow |-> last, cursorCol |-> zero,
         anchor |-> none, copyMode |-> "character",
         selecting |-> FALSE, dragRow |-> last, dragCol |-> zero,
         edge |-> "none", started |-> FALSE, pending |-> FALSE]
  BY DEF Start
<1>5. Start(rows, cols).pendingEscape = <<>> BY DEF Start
<1> HIDE DEF rows, cols, last, zero, none
<1>6. Start(rows, cols) \in InputStates BY <1>1, <1>2, <1>3, <1>4 DEF InputStates
<1> QED BY <1>5, <1>6 DEF rows, cols

LEMMA ReadsTyped ==
  ASSUME NEW b \in Reads
  PROVE  b \in Seq(Typed)
<1>1. PICK n \in 1 .. MaxRead : b \in [1 .. n -> Typed] BY DEF Reads
<1>2. n \in Nat BY InputAssumption
<1> QED BY <1>1, <1>2, IsASeq

LEMMA InputNext ==
  ASSUME InputInv, [Next]_input
  PROVE  InputInv'
<1> USE DEF InputInv
<1>1. CASE \E b \in Reads : Feed(b)
  <2>1. PICK b \in Reads : Feed(b) BY <1>1
  <2>2. input' = Fed(input, b).in BY <2>1 DEF Feed, Becomes
  <2>3. b \in Seq(Typed) BY ReadsTyped
  <2> QED BY <2>2, <2>3, FedIs, RunParts
<1>2. CASE TickScrolls
  <2>1. input' = AutoscrollTick(input).in BY <1>2 DEF TickScrolls, Becomes
  <2> QED BY <2>1, TicksLike DEF Like
<1>3. CASE TickEscapes
  <2>1. input' = EscapeTick(input).in BY <1>3 DEF TickEscapes, Becomes
  <2>2. Held(<<>>) BY DEF Held
  <2>3. Run(EscapeTick(input)) /\ EscapeTick(input).in.pendingEscape = <<>> BY TicksLike
  <2> QED BY <2>1, <2>2, <2>3, RunParts
<1>4. CASE \E size \in Sizes, screen \in Screens, by \in -1 .. 1, atEnd \in BOOLEAN :
             Snapshot(size, screen, by, atEnd)
  <2>1. PICK size \in Sizes, screen \in Screens, by \in -1 .. 1, atEnd \in BOOLEAN :
               Snapshot(size, screen, by, atEnd)
    BY <1>4
  <2>2. input' = Shown(input, size, screen, by, atEnd) BY <2>1 DEF Snapshot, Becomes
  <2>3. /\ size[1] \in Nat \ {0} /\ size[2] \in Nat \ {0} /\ by \in Int
        /\ screen \in [mouse : BOOLEAN, alternate : BOOLEAN, history : BOOLEAN]
    BY InputAssumption
  <2>4. Like(Shown(input, size, screen, by, atEnd), input) BY <2>3, ShownLike
  <2> QED BY <2>2, <2>4 DEF Like
<1>5. CASE \E size \in Sizes : TerminalResized(size)
  <2>1. PICK size \in Sizes : TerminalResized(size) BY <1>5
  <2>2. input' = SetSize(input, size[1], size[2]) BY <2>1 DEF TerminalResized, Becomes
  <2>3. size[1] \in Nat \ {0} /\ size[2] \in Nat \ {0} BY InputAssumption
  <2>4. Like(SetSize(input, size[1], size[2]), input) BY <2>3, SetSizeLike
  <2> QED BY <2>2, <2>4 DEF Like
<1>6. CASE UNCHANGED input
  BY <1>6
<1> QED BY <1>1, <1>2, <1>3, <1>4, <1>5, <1>6 DEF Next

\* The state of the input is one the program has, whatever is typed, and what it
\* holds back between two reads is the beginning of an escape sequence: never
\* more than two pieces.
THEOREM InputTyped == Spec => []InputInv
<1>1. Init => InputInv
  <2> SUFFICES ASSUME NEW size \in Sizes, input = Start(size[1], size[2]) PROVE InputInv
    BY DEF Init
  <2>1. Held(<<>>) BY DEF Held
  <2> QED BY <2>1, StartTyped DEF InputInv
<1>2. InputInv /\ [Next]_input => InputInv' BY InputNext
<1> QED BY <1>1, <1>2, PTL DEF Spec

\* Two pieces that arrive in one read do what they do in two reads, in every
\* state that holds back the beginning of a sequence or nothing.
LEMMA PairsCut ==
  ASSUME NEW s \in InputStates, Held(s.pendingEscape), NEW p \in Typed, NEW q \in Typed
  PROVE  Fed(s, <<p, q>>) = InTwo(s, p, q) \/ ScrollKeyWithMore(s, p)
<1> DEFINE e == s.pendingEscape
           a == e \o <<p>>
           r == Fresh(s)
<1>1. <<p>> \in Seq(Typed) /\ <<q>> \in Seq(Typed) /\ <<q>> # <<>> /\ <<p>> # <<>> OBVIOUS
<1>2. <<p>> \o <<q>> = <<p, q>>
  <2> DEFINE u == <<p>> \o <<q>>
             v == <<p, q>>
  <2>1. Len(<<p>>) = 1 /\ Len(<<q>>) = 1 /\ <<p>>[1] = p /\ <<q>>[1] = q OBVIOUS
  <2>2. v \in Seq(Typed) /\ Len(v) = 2 /\ v[1] = p /\ v[2] = q OBVIOUS
  <2>3. /\ u \in Seq(Typed) /\ Len(u) = Len(<<p>>) + Len(<<q>>)
        /\ \A i \in 1 .. Len(<<p>>) + Len(<<q>>) :
             u[i] = IF i <= Len(<<p>>) THEN <<p>>[i] ELSE <<q>>[i - Len(<<p>>)]
    BY <1>1, ConcatProperties
  <2> HIDE DEF u, v
  <2>4. Len(u) = 2 /\ u[1] = p /\ u[2] = q BY <2>1, <2>3
  <2>5. \A i \in 1 .. 2 : u[i] = v[i]
    <3>1. \A i \in 1 .. 2 : i = 1 \/ i = 2 OBVIOUS
    <3> QED BY <2>2, <2>4, <3>1
  <2>6. u = v BY <2>2, <2>3, <2>4, <2>5, SeqEqual
  <2> QED BY <2>6 DEF u, v
<1>3. /\ e \in Seq(Typed) /\ Len(e) \in Nat
      /\ a \in Seq(Typed) /\ Len(a) = Len(e) + 1
      /\ \A i \in 1 .. Len(e) + 1 : a[i] = IF i <= Len(e) THEN e[i] ELSE <<p>>[i - Len(e)]
  <2>1. e \in Seq(Typed) BY LikeTypes
  <2>2. Len(<<p>>) = 1 OBVIOUS
  <2>3. /\ a \in Seq(Typed) /\ Len(a) = Len(e) + Len(<<p>>)
        /\ \A i \in 1 .. Len(e) + Len(<<p>>) :
             a[i] = IF i <= Len(e) THEN e[i] ELSE <<p>>[i - Len(e)]
    BY <1>1, <2>1, ConcatProperties
  <2> QED BY <2>1, <2>2, <2>3, LenProperties
<1>4. a # <<>> /\ Fine(Begin(r, a)) /\ Run(r) /\ r.in.pendingEscape = <<>>
  <2>1. Len(a) # 0 BY <1>3
  <2>2. Len(<<>>) = 0 OBVIOUS
  <2> HIDE DEF a
  <2> QED BY <1>3, <2>1, <2>2, FreshFine
<1>5. r.in.mode = s.mode
  <2>1. r.in = Holding(s, <<>>) BY FreshFine
  <2>2. Holding(s, <<>>).mode = s.mode BY DEF InputStates, Holding
  <2> QED BY <2>1, <2>2
<1>6. Held(e) OBVIOUS
<1> HIDE DEF a, r, e
<1>7. ASSUME Loop(r, a \o <<q>>) = Resumed(Loop(r, a), <<q>>)
      PROVE  Fed(s, <<p, q>>) = InTwo(s, p, q)
  <2>1. LET first == Fed(s, <<p>>)
            second == Fed(first.in, <<q>>) IN
        Fed(s, <<p>> \o <<q>>) = [in |-> second.in, out |-> first.out \o second.out]
    BY <1>1, <1>7, ReadInTwo DEF r, a, e
  <2> QED BY <1>2, <2>1 DEF InTwo
<1>8. CASE ~ EndsInScroll(a)
  BY <1>1, <1>3, <1>4, <1>7, <1>8, CutAnywhere
<1>9. CASE EndsInScroll(a)
  <2>1. Len(e) = 2 /\ Len(a) = 3 /\ e[1].is = "esc" /\ e[2].is = "["
    <3>1. Len(a) >= 3 BY <1>9 DEF EndsInScroll
    <3>2. Len(e) # 0 /\ Len(e) # 1 BY <1>3, <3>1
    <3>3. Len(<<>>) = 0 OBVIOUS
    <3>4. e # <<>> BY <3>2, <3>3
    <3> QED BY <1>3, <1>6, <3>2, <3>4 DEF Held
  <2>2. a[1] = e[1] /\ a[2] = e[2] /\ a[3] = p
    <3>1. 1 \in 1 .. Len(e) + 1 /\ 2 \in 1 .. Len(e) + 1 /\ 3 \in 1 .. Len(e) + 1
          /\ 3 - Len(e) = 1
      BY <2>1
    <3>2. <<p>>[1] = p OBVIOUS
    <3> QED BY <1>3, <2>1, <3>1, <3>2
  <2>3. p.is \in DOMAIN EscapeScrolls
    BY <1>9, <2>1, <2>2 DEF EndsInScroll
  <2>4. CASE s.mode = "scroll"
    BY <2>1, <2>3, <2>4 DEF ScrollKeyWithMore, e
  <2>5. CASE s.mode # "scroll"
    <3>1. EscapeLength(a) = 3 BY <2>1, <2>2 DEF EscapeLength
    <3>2. Taken(r, a).rest = <<>>
      <4> DEFINE rest == SubSeq(a, EscapeLength(a) + 1, Len(a))
      <4>1. a[1].is = "esc" /\ EscapeLength(a) # 0 /\ r.in.mode # "scroll"
        BY <1>5, <2>1, <2>2, <2>5, <3>1
      <4>2. Taken(r, a) = [r |-> Escape(r, SubSeq(a, 1, EscapeLength(a)), rest), rest |-> rest]
        BY <1>3, <1>4, <4>1, Turns4
      <4>3. rest = <<>>
        <5>1. 3 + 1 \in Int /\ 3 \in Int /\ 3 < 3 + 1 OBVIOUS
        <5>2. SubSeq(a, 3 + 1, 3) = <<>> BY <5>1, SubSeqEmpty
        <5> QED BY <2>1, <3>1, <5>2
      <4> HIDE DEF rest
      <4> QED BY <4>2, <4>3
    <3>3. Loop(r, a \o <<q>>) = Resumed(Loop(r, a), <<q>>)
      BY <1>1, <1>3, <1>4, <1>5, <2>5, <3>2, CutStep
    <3> QED BY <1>7, <3>3
  <2> QED BY <2>4, <2>5
<1> QED BY <1>8, <1>9

\* A read that is cut in two between any pieces does what it does in one, but
\* for a sequence of Scroll mode with more behind it.
THEOREM CutReads == Spec => []ReadBoundariesDoNotMatter
<1>1. InputInv => ReadBoundariesDoNotMatter
  BY PairsCut DEF InputInv, ReadBoundariesDoNotMatter
<1> QED BY <1>1, InputTyped, PTL

\* The same for reads of any length, cut anywhere but right behind a sequence of
\* Scroll mode.
THEOREM CutAnyRead ==
  ASSUME NEW s \in InputStates, NEW b \in Seq(Typed), b # <<>>, NEW c \in Seq(Typed), c # <<>>,
         ~ EndsInScroll(s.pendingEscape \o b)
  PROVE  LET first == Fed(s, b)
             second == Fed(first.in, c) IN
         Fed(s, b \o c) = [in |-> second.in, out |-> first.out \o second.out]
<1> DEFINE a == s.pendingEscape \o b
<1>1. a \in Seq(Typed) BY FedIs
<1>2. a # <<>>
  <2>1. s.pendingEscape \in Seq(Typed) BY LikeTypes
  <2>2. Len(s.pendingEscape) \in Nat /\ Len(b) >= 1 /\ Len(b) \in Nat
    BY <2>1, LenProperties, Lengths
  <2>3. Len(a) = Len(s.pendingEscape) + Len(b) BY <2>1, ConcatProperties
  <2>4. Len(<<>>) = 0 OBVIOUS
  <2> HIDE DEF a
  <2>5. Len(a) # 0 BY <2>2, <2>3
  <2> QED BY <2>4, <2>5
<1>3. Fine(Begin(Fresh(s), a)) BY <1>1, FreshFine
<1>4. Loop(Fresh(s), a \o c) = Resumed(Loop(Fresh(s), a), c)
  <2>1. ~ EndsInScroll(a) OBVIOUS
  <2> HIDE DEF a
  <2> QED BY <1>1, <1>2, <1>3, <2>1, CutAnywhere
<1> QED BY <1>4, ReadInTwo

-----------------------------------------------------------------------------
(* Selection: what holds between the Snapshots on their way.               *)

\* What a Snapshot says.
Shots == [view : Int, delta : Int, atEnd : BOOLEAN, history : BOOLEAN,
          handled : Int, slides : Int]

\* The Snapshots from the one on the terminal to the one the daemon would take
\* now.
Shot(i) == IF i = 0 THEN drawn ELSE IF i <= Len(snapshots) THEN snapshots[i] ELSE Taking

\* From one Snapshot to the next the delta says by how much the view has moved,
\* unless it slid.
Link(a, b) == a.slides <= b.slides /\ (a.slides = b.slides => b.view + b.delta = a.view)

Linked == \A i \in 0 .. Len(snapshots) : Link(Shot(i), Shot(i + 1))

\* A Snapshot that was taken after all that was handled, and after which the view
\* has not slid, shows the view as it is.
ShowsView(a) ==
  /\ a.handled <= handled
  /\ a.handled = handled /\ a.slides = slides => a.view = View

Seen == ShowsView(drawn) /\ \A i \in 1 .. Len(snapshots) : ShowsView(snapshots[i])

OnItsLine == mark.slides <= drawn.slides /\ SelectionOnItsLine

-----------------------------------------------------------------------------
(* The messages on their way.                                              *)

\* 1 if a message moves the view.
Step(m) == IF m.action[1] \in Moves THEN 1 ELSE 0

\* The messages are numbered by the requests before them.
Numbered(on, sent) ==
  /\ handled <= sent
  /\ \A i \in 1 .. Len(on) : handled <= on[i].before /\ on[i].before + Step(on[i]) <= sent
  /\ \A i \in 1 .. Len(on) : \A j \in 1 .. Len(on) :
       i < j => on[i].before + Step(on[i]) <= on[j].before

\* A Copy that was not early has no request before it, and its lines are those
\* of the view until that slides.
Current(m) ==
  m.action[1] = "copy" =>
    /\ m.slides \in Int /\ m.slides <= slides
    /\ ~ m.early => m.before = handled /\ (m.slides = slides => m.lines = CopiedText(m))

Queued(on, sent) ==
  /\ IsSeq(on) /\ sent \in Int
  /\ \A i \in 1 .. Len(on) : on[i].before \in Int /\ IsAction(on[i].action)
  /\ Numbered(on, sent)
  /\ \A i \in 1 .. Len(on) : Current(on[i])

-----------------------------------------------------------------------------
(* The invariant.                                                          *)

SelTyped ==
  /\ input \in InputStates
  /\ written \in Int /\ offset \in Int /\ delta \in Int
  /\ handled \in Int /\ slides \in Int
  /\ drawn \in Shots /\ snapshots \in Seq(Shots)
  /\ mark \in [line : Int, slides : Int]

SelInv == SelTyped /\ OnItsLine /\ Linked /\ Seen /\ Queued(requests, asked)

LEMMA ViewTyped ==
  ASSUME written \in Int, offset \in Int
  PROVE  View \in Int
BY DEF View

LEMMA HistoryTyped ==
  ASSUME written \in Int
  PROVE  History \in Int
BY SelectionAssumption DEF History, Least

LEMMA TakingIs ==
  ASSUME SelTyped
  PROVE  /\ Taking \in Shots
         /\ Taking.view = View /\ Taking.delta = delta
         /\ Taking.handled = handled /\ Taking.slides = slides
<1> DEFINE v == View
           e == offset = 0
           h == History > 0
<1>1. v \in Int BY ViewTyped DEF SelTyped
<1>2. e \in BOOLEAN /\ h \in BOOLEAN OBVIOUS
<1>3. Taking = [view |-> v, delta |-> delta, atEnd |-> e, history |-> h,
                handled |-> handled, slides |-> slides]
  BY DEF Taking
<1> HIDE DEF v, e, h
<1>4. Taking \in Shots BY <1>1, <1>2, <1>3 DEF SelTyped, Shots
<1>5. Taking.view = v /\ Taking.delta = delta /\ Taking.handled = handled /\ Taking.slides = slides
  BY <1>3
<1> QED BY <1>4, <1>5 DEF v

LEMMA ShotTyped ==
  ASSUME SelTyped
  PROVE  /\ Len(snapshots) \in Nat
         /\ \A i \in 1 .. Len(snapshots) : snapshots[i] \in Shots
         /\ \A i \in 0 .. Len(snapshots) + 1 : Shot(i) \in Shots
         /\ Shot(0) = drawn /\ Shot(Len(snapshots) + 1) = Taking
<1>1. Len(snapshots) \in Nat /\ \A i \in 1 .. Len(snapshots) : snapshots[i] \in Shots
  BY LenProperties, ElementOfSeq DEF SelTyped
<1>2. drawn \in Shots /\ Taking \in Shots BY TakingIs DEF SelTyped
<1>3. ASSUME NEW i \in 0 .. Len(snapshots) + 1 PROVE Shot(i) \in Shots
  <2>1. i # 0 /\ i <= Len(snapshots) => i \in 1 .. Len(snapshots) BY <1>1
  <2> QED BY <1>1, <1>2, <2>1 DEF Shot
<1>4. ~ (Len(snapshots) + 1 <= Len(snapshots)) /\ Len(snapshots) + 1 # 0 BY <1>1
<1> QED BY <1>1, <1>3, <1>4 DEF Shot

\* Where no Snapshot is sent or drawn, only the one that would be taken changes.
LEMMA LinkedSame ==
  ASSUME SelTyped, SelTyped', Linked, snapshots' = snapshots, drawn' = drawn,
         Link(Shot(Len(snapshots)), Taking')
  PROVE  Linked'
<1>1. Len(snapshots) \in Nat BY ShotTyped
<1>2. \A i \in 0 .. Len(snapshots) : Shot(i)' = Shot(i) BY DEF Shot
<1>3. Shot(Len(snapshots) + 1)' = Taking'
  BY <1>1 DEF Shot
<1>4. ASSUME NEW i \in 0 .. Len(snapshots) PROVE Link(Shot(i)', Shot(i + 1)')
  <2>1. CASE i = Len(snapshots) BY <1>2, <1>3, <2>1
  <2>2. CASE i # Len(snapshots)
    <3>1. i + 1 \in 0 .. Len(snapshots) BY <1>1, <2>2
    <3> QED BY <1>2, <3>1 DEF Linked
  <2> QED BY <2>1, <2>2
<1> QED BY <1>4 DEF Linked, Link

LEMMA LinkedAppend ==
  ASSUME SelTyped, SelTyped', Linked, NEW a \in Shots,
         snapshots' = Append(snapshots, a), drawn' = drawn,
         Link(Shot(Len(snapshots)), a), Link(a, Taking')
  PROVE  Linked'
<1>1. /\ Len(snapshots) \in Nat
      /\ Len(snapshots') = Len(snapshots) + 1
      /\ \A i \in 1 .. Len(snapshots) : snapshots'[i] = snapshots[i]
      /\ snapshots'[Len(snapshots) + 1] = a
  BY AppendProperties, LenProperties DEF SelTyped
<1>2. ASSUME NEW i \in 0 .. Len(snapshots) PROVE Shot(i)' = Shot(i)
  <2>1. i = 0 \/ (i \in 1 .. Len(snapshots) /\ i <= Len(snapshots')) BY <1>1
  <2> QED BY <1>1, <2>1 DEF Shot
<1>3. ASSUME NEW i, i = Len(snapshots) + 1 PROVE Shot(i)' = a
  <2>1. i # 0 /\ i <= Len(snapshots') /\ snapshots'[i] = a BY <1>1, <1>3
  <2> QED BY <2>1 DEF Shot
<1>4. ASSUME NEW i, i = Len(snapshots) + 2 PROVE Shot(i)' = Taking'
  <2>1. i # 0 /\ ~ (i <= Len(snapshots')) BY <1>1, <1>4
  <2> QED BY <2>1 DEF Shot
<1>5. ASSUME NEW i \in 0 .. Len(snapshots) + 1 PROVE Link(Shot(i)', Shot(i + 1)')
  <2>1. CASE i = Len(snapshots) + 1
    <3>1. i + 1 = Len(snapshots) + 2 BY <1>1, <2>1
    <3>2. Shot(i)' = a /\ Shot(i + 1)' = Taking' BY <1>3, <1>4, <2>1, <3>1
    <3> QED BY <3>2
  <2>2. CASE i = Len(snapshots)
    <3>1. i \in 0 .. Len(snapshots) /\ i + 1 = Len(snapshots) + 1 BY <1>1, <2>2
    <3>2. Shot(i)' = Shot(i) /\ Shot(i + 1)' = a BY <1>2, <1>3, <3>1
    <3> QED BY <2>2, <3>2
  <2>3. CASE i # Len(snapshots) /\ i # Len(snapshots) + 1
    <3>1. i \in 0 .. Len(snapshots) /\ i + 1 \in 0 .. Len(snapshots) BY <1>1, <2>3
    <3>2. Shot(i)' = Shot(i) /\ Shot(i + 1)' = Shot(i + 1) BY <1>2, <3>1
    <3> QED BY <3>1, <3>2 DEF Linked
  <2> QED BY <2>1, <2>2, <2>3
<1> QED BY <1>1, <1>5 DEF Linked, Link

\* What was sent before stays true while the view keeps its lines or slides.
LEMMA StillShows ==
  ASSUME SelTyped, SelTyped', NEW a \in Shots, ShowsView(a),
         handled <= handled', a.slides <= slides,
         slides <= slides', handled' = handled /\ slides' = slides => View' = View
  PROVE  ShowsView(a)'
<1>1. a.handled \in Int /\ a.slides \in Int BY DEF Shots
<1>2. /\ handled \in Int /\ handled' \in Int /\ slides \in Int /\ slides' \in Int
  BY DEF SelTyped
<1>3. a.handled <= handled /\ (a.handled = handled /\ a.slides = slides => a.view = View)
  BY DEF ShowsView
<1>4. a.handled <= handled' BY <1>1, <1>2, <1>3
<1>5. a.handled = handled' /\ a.slides = slides' =>
        handled' = handled /\ slides' = slides /\ a.handled = handled /\ a.slides = slides
  BY <1>1, <1>2, <1>3
<1> QED BY <1>3, <1>4, <1>5 DEF ShowsView

\* Slides only add up from one Snapshot to the next.
LEMMA SlidesGrow ==
  ASSUME SelTyped, Linked
  PROVE  /\ \A i \in 0 .. Len(snapshots) : Shot(i).slides <= slides
         /\ \A i \in 0 .. Len(snapshots) : drawn.slides <= Shot(i).slides
         /\ drawn.slides <= slides
<1> DEFINE n == Len(snapshots)
           S == {k \in Nat : k <= n => drawn.slides <= Shot(k).slides}
           T == {k \in Nat : k <= n => Shot(n - k).slides <= slides}
<1>1. /\ n \in Nat /\ Shot(0) = drawn /\ Shot(n + 1) = Taking
      /\ \A i \in 0 .. n + 1 : Shot(i) \in Shots
  BY ShotTyped
<1>2. \A i \in 0 .. n : Link(Shot(i), Shot(i + 1)) BY DEF Linked
<1>3. Taking.slides = slides BY TakingIs
<1> HIDE DEF n
<1>4. \A i \in 0 .. n + 1 : Shot(i).slides \in Int BY <1>1 DEF Shots
<1>5. \A i \in 0 .. n : Shot(i).slides <= Shot(i + 1).slides BY <1>2 DEF Link
<1>6. 0 \in S
  <2>1. 0 \in 0 .. n + 1 BY <1>1
  <2>2. drawn.slides <= Shot(0).slides BY <1>1, <1>4, <2>1
  <2> QED BY <2>2
<1>7. ASSUME NEW k \in Nat, k \in S PROVE k + 1 \in S
  <2> SUFFICES ASSUME k + 1 <= n PROVE drawn.slides <= Shot(k + 1).slides OBVIOUS
  <2>1. k <= n /\ k \in 0 .. n /\ k \in 0 .. n + 1 /\ k + 1 \in 0 .. n + 1 /\ 0 \in 0 .. n + 1
    BY <1>1
  <2>2. drawn.slides <= Shot(k).slides /\ Shot(k).slides <= Shot(k + 1).slides
    BY <1>5, <1>7, <2>1
  <2>3. drawn.slides \in Int /\ Shot(k).slides \in Int /\ Shot(k + 1).slides \in Int
    BY <1>1, <1>4, <2>1
  <2> QED BY <2>2, <2>3
<1>8. 0 \in T
  <2>1. n - 0 = n /\ n \in 0 .. n BY <1>1
  <2>2. Shot(n).slides <= slides BY <1>1, <1>3, <1>5, <2>1
  <2> QED BY <2>1, <2>2
<1>9. ASSUME NEW k \in Nat, k \in T PROVE k + 1 \in T
  <2> SUFFICES ASSUME k + 1 <= n PROVE Shot(n - (k + 1)).slides <= slides OBVIOUS
  <2> DEFINE j == n - (k + 1)
  <2>1. k <= n /\ j \in 0 .. n /\ j + 1 = n - k /\ j \in 0 .. n + 1 /\ j + 1 \in 0 .. n + 1
    BY <1>1
  <2> HIDE DEF j
  <2>2. Shot(j + 1).slides <= slides BY <1>9, <2>1
  <2>3. Shot(j).slides <= Shot(j + 1).slides BY <1>5, <2>1
  <2>4. Shot(j).slides \in Int /\ Shot(j + 1).slides \in Int /\ slides \in Int
    BY <1>4, <2>1 DEF SelTyped
  <2>5. Shot(j).slides <= slides BY <2>2, <2>3, <2>4
  <2> QED BY <2>5 DEF j
<1>10. Nat \subseteq S
  <2> HIDE DEF S
  <2> QED BY <1>6, <1>7, SetInduction
<1>11. Nat \subseteq T
  <2> HIDE DEF T
  <2> QED BY <1>8, <1>9, SetInduction
<1>12. ASSUME NEW i \in 0 .. n PROVE Shot(i).slides <= slides /\ drawn.slides <= Shot(i).slides
  <2>1. i \in Nat /\ i <= n /\ n - i \in Nat /\ n - i <= n /\ n - (n - i) = i BY <1>1
  <2> QED BY <1>10, <1>11, <2>1
<1>13. drawn.slides <= slides
  <2>1. 0 \in 0 .. n BY <1>1
  <2> QED BY <1>1, <1>12, <2>1
<1> QED BY <1>12, <1>13 DEF n

-----------------------------------------------------------------------------
(* What is sent, and what is handled.                                      *)

LEMMA AppendParts ==
  ASSUME NEW x, IsSeq(x), NEW a
  PROVE  /\ IsSeq(Append(x, a)) /\ Len(x) \in Nat /\ Len(Append(x, a)) = Len(x) + 1
         /\ \A i \in 1 .. Len(x) : Append(x, a)[i] = x[i]
         /\ Append(x, a)[Len(x) + 1] = a
<1>1. PICK S : a \in S /\ x \in Seq(S) BY Widen
<1> QED BY <1>1, AppendProperties, LenProperties DEF IsSeq

LEMMA TailParts ==
  ASSUME NEW x, IsSeq(x), x # <<>>
  PROVE  /\ IsSeq(Tail(x)) /\ Len(x) \in Nat /\ Len(x) >= 1
         /\ Len(Tail(x)) = Len(x) - 1 /\ Head(x) = x[1]
         /\ \A i \in 1 .. Len(x) - 1 : Tail(x)[i] = x[i + 1]
<1>1. PICK S : x \in Seq(S) BY DEF IsSeq
<1> QED BY <1>1, HeadTailProperties, LenProperties, EmptySeq DEF IsSeq

\* write_actions keeps the order and the numbers of what is on its way.
LEMMA PutQueued ==
  ASSUME SelTyped, ShowsView(drawn), drawn.slides <= slides,
         NEW q, Queued(q.on, q.asked), NEW a, IsAction(a)
  PROVE  Queued(Put(q, a).on, Put(q, a).asked)
<1> DEFINE m == Sent(a, q.asked)
           on == Append(q.on, m)
           sent == q.asked + Step(m)
<1>1. CASE a[1] \notin Moves \cup {"copy"}
  <2>1. Put(q, a) = q BY <1>1 DEF Put
  <2> QED BY <2>1
<1>2. CASE a[1] \in Moves \cup {"copy"}
  <2>1. m.action = a /\ m.before = q.asked BY DEF Sent
  <2>2. Step(m) = (IF a[1] \in Moves THEN 1 ELSE 0) /\ Step(m) \in {0, 1} BY <2>1 DEF Step
  <2>3. Put(q, a) = [on |-> on, asked |-> sent] BY <1>2, <2>2 DEF Put
  <2>4. Put(q, a).on = on /\ Put(q, a).asked = sent
    <3> HIDE DEF on, sent
    <3> QED BY <2>3
  <2>5. Current(m)
    <3> SUFFICES ASSUME a[1] = "copy" PROVE Current(m)
      BY <2>1 DEF Current
    <3>1. /\ m.early = (q.asked # drawn.handled) /\ m.slides = drawn.slides
          /\ m.lines = <<drawn.view + a[2][1], drawn.view + a[2][3]>>
      BY DEF Sent
    <3>2. drawn.slides \in Int /\ drawn.handled \in Int BY DEF SelTyped, Shots
    <3>3. handled <= q.asked /\ q.asked \in Int /\ handled \in Int
      BY DEF Queued, Numbered, SelTyped
    <3>4. ASSUME ~ m.early PROVE m.before = handled /\ drawn.handled = handled
      <4>1. q.asked = drawn.handled BY <3>1, <3>4
      <4>2. drawn.handled <= handled BY DEF ShowsView
      <4> QED BY <2>1, <3>2, <3>3, <4>1, <4>2
    <3>5. ASSUME ~ m.early, m.slides = slides PROVE m.lines = CopiedText(m)
      <4>1. drawn.view = View BY <3>1, <3>4, <3>5 DEF ShowsView
      <4> QED BY <2>1, <3>1, <4>1 DEF CopiedText
    <3> QED BY <3>1, <3>2, <3>4, <3>5 DEF Current
  <2> HIDE DEF m
  <2>6. /\ IsSeq(on) /\ Len(q.on) \in Nat /\ Len(on) = Len(q.on) + 1
        /\ \A i \in 1 .. Len(q.on) : on[i] = q.on[i]
        /\ on[Len(q.on) + 1] = m
    BY AppendParts DEF Queued
  <2> HIDE DEF on
  <2>7. /\ q.asked \in Int /\ handled <= q.asked /\ handled \in Int
        /\ \A i \in 1 .. Len(q.on) :
             /\ q.on[i].before \in Int /\ IsAction(q.on[i].action) /\ Current(q.on[i])
             /\ handled <= q.on[i].before /\ q.on[i].before + Step(q.on[i]) <= q.asked
        /\ \A i \in 1 .. Len(q.on) : \A j \in 1 .. Len(q.on) :
             i < j => q.on[i].before + Step(q.on[i]) <= q.on[j].before
    BY DEF Queued, Numbered, SelTyped
  <2>8. \A i \in 1 .. Len(on) : i \in 1 .. Len(q.on) \/ i = Len(q.on) + 1 BY <2>6
  <2>9. sent \in Int /\ q.asked <= sent BY <2>2, <2>7
  <2>10. \A i \in 1 .. Len(on) : on[i].before \in Int /\ IsAction(on[i].action) /\ Current(on[i])
    BY <2>1, <2>5, <2>6, <2>7, <2>8
  <2>11. ASSUME NEW i \in 1 .. Len(on)
         PROVE  handled <= on[i].before /\ on[i].before + Step(on[i]) <= sent
    <3>1. CASE i \in 1 .. Len(q.on)
      <4>1. Step(on[i]) \in {0, 1} BY DEF Step
      <4>2. /\ on[i].before \in Int /\ handled <= on[i].before
            /\ on[i].before + Step(on[i]) <= q.asked
        BY <2>6, <2>7, <3>1
      <4> QED BY <2>7, <2>9, <4>1, <4>2
    <3>2. CASE i = Len(q.on) + 1
      <4>1. on[i] = m BY <2>6, <3>2
      <4> QED BY <2>1, <2>7, <2>9, <4>1
    <3> QED BY <2>8, <3>1, <3>2
  <2>12. ASSUME NEW i \in 1 .. Len(on), NEW j \in 1 .. Len(on), i < j
         PROVE  on[i].before + Step(on[i]) <= on[j].before
    <3>1. i \in 1 .. Len(q.on) BY <2>6, <2>12
    <3>2. CASE j \in 1 .. Len(q.on)
      BY <2>6, <2>7, <2>12, <3>1, <3>2
    <3>3. CASE j = Len(q.on) + 1
      <4>1. on[j] = m BY <2>6, <3>3
      <4> QED BY <2>1, <2>6, <2>7, <3>1, <4>1
    <3> QED BY <2>8, <3>2, <3>3
  <2> HIDE DEF sent
  <2>13. handled <= sent BY <2>7, <2>9
  <2> QED BY <2>4, <2>6, <2>9, <2>10, <2>11, <2>12, <2>13 DEF Queued, Numbered
<1> QED BY <1>1, <1>2

\* The queue Sends begins with, and those it builds from the actions `out`.
Waiting == [on |-> requests, asked |-> asked]
Puts(out) ==
  CHOOSE f : f = [i \in 0 .. Len(out) |-> IF i = 0 THEN Waiting ELSE Put(f[i - 1], out[i])]

LEMMA PutsExist ==
  ASSUME NEW t, NEW out
  PROVE  \A n \in Nat : \E f : f = [i \in 0 .. n |-> IF i = 0 THEN t ELSE Put(f[i - 1], out[i])]
<1> DEFINE Val(f, i) == IF i = 0 THEN t ELSE Put(f[i - 1], out[i])
           S == {n \in Nat : \E f : f = [i \in 0 .. n |-> Val(f, i)]}
<1>1. 0 \in S
  <2> DEFINE f == [i \in 0 .. 0 |-> t]
  <2>1. \A i \in 0 .. 0 : i = 0 OBVIOUS
  <2>2. f = [i \in 0 .. 0 |-> Val(f, i)] BY <2>1
  <2>3. \E h : h = [i \in 0 .. 0 |-> Val(h, i)] BY <2>2
  <2> HIDE DEF Val
  <2> QED BY <2>3
<1>2. ASSUME NEW n \in Nat, n \in S PROVE n + 1 \in S
  <2>1. PICK f : f = [i \in 0 .. n |-> Val(f, i)] BY <1>2
  <2>0. \A i \in 0 .. n : f[i] = Val(f, i) BY <2>1
  <2> DEFINE g == [i \in 0 .. n + 1 |-> IF i <= n THEN f[i] ELSE Val(f, i)]
  <2>2. ASSUME NEW i \in 0 .. n + 1 PROVE g[i] = Val(g, i)
    <3>1. CASE i <= n
      <4>1. i \in 0 .. n BY <3>1
      <4>2. i = 0 \/ g[i - 1] = f[i - 1] BY <3>1
      <4>3. f[i] = Val(f, i) BY <2>0, <4>1
      <4> QED BY <3>1, <4>2, <4>3
    <3>2. CASE ~ (i <= n)
      <4>1. i = 0 \/ g[i - 1] = f[i - 1] BY <3>2
      <4> QED BY <3>2, <4>1
    <3> QED BY <3>1, <3>2
  <2>3. g = [i \in 0 .. n + 1 |-> g[i]] OBVIOUS
  <2> HIDE DEF g
  <2>4. g = [i \in 0 .. n + 1 |-> Val(g, i)] BY <2>2, <2>3
  <2>5. \E h : h = [i \in 0 .. n + 1 |-> Val(h, i)] BY <2>4
  <2>6. n + 1 \in Nat OBVIOUS
  <2> HIDE DEF Val
  <2> QED BY <2>5, <2>6
<1>3. Nat \subseteq S
  <2> HIDE DEF S
  <2> QED BY <1>1, <1>2, SetInduction
<1> QED BY <1>3

\* However many actions a read has, they leave the queue in order.
LEMMA SentQueued ==
  ASSUME SelTyped, ShowsView(drawn), drawn.slides <= slides, Queued(requests, asked),
         NEW out, Told(out)
  PROVE  LET all == Puts(out)[Len(out)] IN Queued(all.on, all.asked)
<1> DEFINE f == Puts(out)
           S == {n \in Nat : n <= Len(out) => Queued(f[n].on, f[n].asked)}
<1>1. Len(out) \in Nat BY LenProperties DEF Told, IsSeq
<1>2. f = [i \in 0 .. Len(out) |-> IF i = 0 THEN Waiting ELSE Put(f[i - 1], out[i])]
  BY <1>1, PutsExist DEF Puts
<1> HIDE DEF f
<1>3. /\ f[0] = Waiting
      /\ \A i \in 1 .. Len(out) : f[i] = Put(f[i - 1], out[i])
  BY <1>1, <1>2
<1>4. 0 \in S
  <2>1. f[0].on = requests /\ f[0].asked = asked BY <1>3 DEF Waiting
  <2> QED BY <2>1
<1>5. ASSUME NEW n \in Nat, n \in S PROVE n + 1 \in S
  <2> SUFFICES ASSUME n + 1 <= Len(out) PROVE Queued(f[n + 1].on, f[n + 1].asked)
    OBVIOUS
  <2>1. n <= Len(out) /\ n + 1 \in 1 .. Len(out) /\ (n + 1) - 1 = n BY <1>1
  <2>2. Queued(f[n].on, f[n].asked) BY <1>5, <2>1
  <2>3. IsAction(out[n + 1]) BY <2>1 DEF Told
  <2>4. f[n + 1] = Put(f[n], out[n + 1]) BY <1>3, <2>1
  <2> QED BY <2>2, <2>3, <2>4, PutQueued
<1>6. Nat \subseteq S
  <2> HIDE DEF S
  <2> QED BY <1>4, <1>5, SetInduction
<1> QED BY <1>1, <1>6 DEF f

LEMMA CurrentKept ==
  ASSUME SelTyped, SelTyped', NEW m, Current(m), handled' = handled, slides <= slides',
         slides' = slides => View' = View
  PROVE  Current(m)'
<1> SUFFICES ASSUME m.action[1] = "copy"
             PROVE  /\ m.slides \in Int /\ m.slides <= slides'
                    /\ ~ m.early => /\ m.before = handled'
                                    /\ m.slides = slides' => m.lines = CopiedText(m)'
  BY DEF Current
<1>1. /\ m.slides \in Int /\ m.slides <= slides
      /\ ~ m.early => m.before = handled /\ (m.slides = slides => m.lines = CopiedText(m))
  BY DEF Current
<1>2. slides \in Int /\ slides' \in Int BY DEF SelTyped
<1>3. m.slides <= slides' /\ (m.slides = slides' => slides' = slides) BY <1>1, <1>2
<1>4. slides' = slides => CopiedText(m)' = CopiedText(m) BY DEF CopiedText
<1> QED BY <1>1, <1>3, <1>4

LEMMA QueuedKept ==
  ASSUME SelTyped, SelTyped', Queued(requests, asked), requests' = requests, asked' = asked,
         handled' = handled, slides <= slides', slides' = slides => View' = View
  PROVE  Queued(requests, asked)'
<1>1. \A i \in 1 .. Len(requests) : Current(requests[i])
  BY DEF Queued
<1>2. \A m : Current(m) => Current(m)' BY CurrentKept
<1>3. \A i \in 1 .. Len(requests) : Current(requests[i])'
  BY <1>1, <1>2
<1> QED BY <1>3 DEF Queued, Numbered, Step

LEMMA CurrentLater ==
  ASSUME SelTyped, SelTyped', NEW m, Current(m), m.before \in Int, handled <= handled',
         handled' <= m.before, slides <= slides',
         handled' = handled => slides' = slides /\ View' = View
  PROVE  Current(m)'
<1>1. CASE handled' = handled
  BY <1>1, CurrentKept
<1>2. CASE handled' # handled
  <2>1. handled \in Int /\ handled' \in Int /\ slides \in Int /\ slides' \in Int
    BY DEF SelTyped
  <2>2. m.before # handled BY <1>2, <2>1
  <2>3. m.action[1] = "copy" => m.slides \in Int /\ m.slides <= slides /\ m.early
    BY <2>2 DEF Current
  <2>4. m.action[1] = "copy" => m.slides \in Int /\ m.slides <= slides' /\ m.early
    BY <2>1, <2>3
  <2> QED BY <2>4 DEF Current
<1> QED BY <1>1, <1>2

LEMMA QueuedTail ==
  ASSUME SelTyped, SelTyped', Queued(requests, asked), requests # <<>>,
         requests' = Tail(requests), asked' = asked, slides <= slides',
         handled' = handled + Step(Head(requests)),
         Step(Head(requests)) = 0 => slides' = slides /\ View' = View
  PROVE  Queued(requests, asked)'
<1> DEFINE on == Tail(requests)
<1>1. /\ IsSeq(on) /\ Len(requests) \in Nat /\ Len(requests) >= 1
      /\ Len(on) = Len(requests) - 1 /\ Head(requests) = requests[1]
      /\ \A i \in 1 .. Len(requests) - 1 : on[i] = requests[i + 1]
  BY TailParts DEF Queued
<1> HIDE DEF on
<1>2. /\ asked \in Int /\ handled <= asked /\ handled \in Int
      /\ \A i \in 1 .. Len(requests) :
           /\ requests[i].before \in Int /\ IsAction(requests[i].action) /\ Current(requests[i])
           /\ handled <= requests[i].before
           /\ requests[i].before + Step(requests[i]) <= asked
      /\ \A i \in 1 .. Len(requests) : \A j \in 1 .. Len(requests) :
           i < j => requests[i].before + Step(requests[i]) <= requests[j].before
  BY DEF Queued, Numbered, SelTyped
<1>3. 1 \in 1 .. Len(requests) /\ Step(Head(requests)) \in {0, 1} BY <1>1 DEF Step
<1>4. handled' \in Int /\ handled <= handled' /\ handled' <= asked
  BY <1>1, <1>2, <1>3
<1>5. \A i \in 1 .. Len(on) : i \in 1 .. Len(requests) - 1 /\ i + 1 \in 1 .. Len(requests) /\ 1 < i + 1
  BY <1>1
<1>6. ASSUME NEW i \in 1 .. Len(on), NEW m, m = on[i]
      PROVE  /\ m.before \in Int /\ IsAction(m.action)
             /\ handled' <= m.before /\ m.before + Step(m) <= asked
             /\ Current(m)'
  <2>1. m = requests[i + 1] /\ i + 1 \in 1 .. Len(requests) /\ 1 < i + 1 BY <1>1, <1>5, <1>6
  <2>2. /\ m.before \in Int /\ IsAction(m.action) /\ Current(m)
        /\ handled <= m.before /\ m.before + Step(m) <= asked
    BY <1>2, <2>1
  <2>3. requests[1].before + Step(requests[1]) <= m.before BY <1>2, <1>3, <2>1
  <2>4. handled' <= m.before
    <3> DEFINE first == requests[1].before
               st == Step(Head(requests))
    <3>1. first \in Int /\ handled <= first BY <1>2, <1>3
    <3>2. st \in {0, 1} /\ handled' = handled + st /\ first + st <= m.before
      BY <1>1, <1>3, <2>3
    <3> HIDE DEF first, st
    <3> QED BY <1>2, <2>2, <3>1, <3>2
  <2>5. handled' = handled => slides' = slides /\ View' = View BY <1>2, <1>3
  <2>6. Current(m)' BY <1>4, <2>2, <2>4, <2>5, CurrentLater
  <2> QED BY <2>2, <2>4, <2>6
<1>7. ASSUME NEW i \in 1 .. Len(on), NEW j \in 1 .. Len(on), i < j
      PROVE  on[i].before + Step(on[i]) <= on[j].before
  <2>1. i + 1 < j + 1 /\ i + 1 \in 1 .. Len(requests) /\ j + 1 \in 1 .. Len(requests)
    BY <1>5, <1>7
  <2>2. on[i] = requests[i + 1] /\ on[j] = requests[j + 1] BY <1>1, <1>5
  <2> QED BY <1>2, <2>1, <2>2
<1>8. requests' = on BY DEF on
<1>9. \A i \in 1 .. Len(requests') : /\ requests'[i].before \in Int
                                     /\ IsAction(requests'[i].action)
                                     /\ Current(requests[i])'
  BY <1>6, <1>8
<1>10. Numbered(requests, asked)'
  BY <1>4, <1>6, <1>7, <1>8 DEF Numbered, Step
<1> QED BY <1>1, <1>2, <1>8, <1>9, <1>10 DEF Queued

\* The Copy at the head of what is on its way.
LEMMA HeadCopied ==
  ASSUME SelInv
  PROVE  CopiedIsHighlighted
<1> SUFFICES ASSUME requests # <<>>, Head(requests).action[1] = "copy",
                    NEW m, m = Head(requests), ~ m.early, m.slides = slides
             PROVE  m.lines = CopiedText(m)
  BY DEF CopiedIsHighlighted
<1>1. Len(requests) >= 1 /\ Head(requests) = requests[1] /\ Len(requests) \in Nat
  BY TailParts DEF SelInv, Queued
<1>2. Current(requests[1])
  <2>1. 1 \in 1 .. Len(requests) BY <1>1
  <2> QED BY <2>1 DEF SelInv, Queued
<1> QED BY <1>1, <1>2 DEF Current

-----------------------------------------------------------------------------
(* The steps of the client.                                                *)

LEMMA SendsKeep ==
  ASSUME SelInv, NEW r, Run(r), Sends(r)
  PROVE  SelInv'
<1> DEFINE all == Puts(r.out)[Len(r.out)]
<1>1. requests' = all.on /\ asked' = all.asked BY DEF Sends, Puts, Waiting
<1>2. /\ input' = r.in
      /\ mark' = IF Selected(r.in) /\ r.in.anchor # input.anchor
                 THEN [line |-> drawn.view + r.in.anchor[1], slides |-> drawn.slides]
                 ELSE mark
      /\ UNCHANGED <<daemon, drawn, snapshots>>
  BY DEF Sends, Becomes
<1>3. /\ written' = written /\ offset' = offset /\ delta' = delta
      /\ handled' = handled /\ slides' = slides /\ drawn' = drawn /\ snapshots' = snapshots
      /\ Taking' = Taking /\ View' = View
  BY <1>2 DEF daemon, Taking, View, History
<1>4. SelTyped /\ OnItsLine /\ Linked /\ Seen /\ Queued(requests, asked) BY DEF SelInv
<1>5. r.in \in InputStates /\ Told(r.out) BY RunParts
<1>6. drawn.view \in Int /\ drawn.slides \in Int BY <1>4 DEF SelTyped, Shots
<1>7. mark' \in [line : Int, slides : Int]
  <2>1. CASE Selected(r.in)
    <3>1. r.in.anchor[1] \in Int BY <1>5, <2>1, LikeTypes DEF Selected
    <3>2. mark' = mark \/ mark' = [line |-> drawn.view + r.in.anchor[1], slides |-> drawn.slides]
      BY <1>2
    <3>3. drawn.view + r.in.anchor[1] \in Int BY <1>6, <3>1
    <3> QED BY <1>4, <1>6, <3>2, <3>3 DEF SelTyped
  <2>2. CASE ~ Selected(r.in)
    BY <1>2, <1>4, <2>2 DEF SelTyped
  <2> QED BY <2>1, <2>2
<1>8. SelTyped'
  BY <1>2, <1>3, <1>4, <1>5, <1>7 DEF SelTyped
<1>9. OnItsLine'
  <2>1. mark.slides <= drawn.slides /\ SelectionOnItsLine BY <1>4 DEF OnItsLine
  <2>2. CASE Selected(r.in) /\ r.in.anchor # input.anchor
    <3>1. mark'.line = drawn.view + r.in.anchor[1] /\ mark'.slides = drawn.slides BY <1>2, <2>2
    <3>2. mark'.slides <= drawn'.slides BY <1>3, <1>6, <3>1
    <3> QED BY <1>2, <1>3, <3>1, <3>2 DEF OnItsLine, SelectionOnItsLine
  <2>3. CASE ~ (Selected(r.in) /\ r.in.anchor # input.anchor)
    <3>1. mark' = mark BY <1>2, <2>3
    <3>2. Selected(r.in) => r.in.anchor = input.anchor /\ Selected(input)
      BY <2>3 DEF Selected
    <3> QED BY <1>2, <1>3, <2>1, <3>1, <3>2 DEF OnItsLine, SelectionOnItsLine
  <2> QED BY <2>2, <2>3
<1>10. drawn.slides <= slides BY <1>4, SlidesGrow
<1>11. Linked'
  BY <1>3, <1>4 DEF Linked, Link, Shot
<1>12. Seen'
  BY <1>3, <1>4 DEF Seen, ShowsView
<1>13. Queued(all.on, all.asked)
  BY <1>4, <1>5, <1>10, SentQueued DEF Seen
<1> HIDE DEF all
<1>14. Queued(requests, asked)'
  <2>1. \A m : Current(m) => Current(m)' BY <1>3 DEF Current, CopiedText
  <2>2. IsSeq(all.on) /\ \A i \in 1 .. Len(all.on) : Current(all.on[i]) BY <1>13 DEF Queued
  <2>3. \A i \in 1 .. Len(requests') : Current(requests[i])'
    <3>1. \A i \in 1 .. Len(requests') : \A m : m = requests'[i] => Current(m)' BY <1>1, <2>1, <2>2
    <3> QED BY <3>1
  <2> QED BY <1>1, <1>3, <1>13, <2>3 DEF Queued, Numbered, Step
<1> QED BY <1>8, <1>9, <1>11, <1>12, <1>14 DEF SelInv

\* A Snapshot is drawn: the selection goes with its delta.
LEMMA DrawKeeps ==
  ASSUME SelInv, Draw
  PROVE  SelInv'
<1> DEFINE s == Head(snapshots)
           screen == [input.screen EXCEPT !.history = s.history]
           shown == Shown(input, <<input.rows, input.cols>>, screen, s.delta, s.atEnd)
<1>1. SelTyped /\ OnItsLine /\ Linked /\ Seen /\ Queued(requests, asked) BY DEF SelInv
<1>2. /\ snapshots # <<>> /\ input' = shown /\ drawn' = s /\ snapshots' = Tail(snapshots)
      /\ UNCHANGED <<daemon, requests, asked, mark>>
  BY DEF Draw, Becomes
<1>3. /\ written' = written /\ offset' = offset /\ delta' = delta
      /\ handled' = handled /\ slides' = slides /\ requests' = requests /\ asked' = asked
      /\ mark' = mark /\ Taking' = Taking /\ View' = View
  BY <1>2 DEF daemon, Taking, View, History
<1>4. /\ Len(snapshots) \in Nat /\ Len(snapshots) >= 1 /\ s = snapshots[1]
      /\ snapshots' \in Seq(Shots) /\ Len(snapshots') = Len(snapshots) - 1
      /\ \A i \in 1 .. Len(snapshots) - 1 : snapshots'[i] = snapshots[i + 1]
  BY <1>1, <1>2, HeadTailProperties, LenProperties, EmptySeq DEF SelTyped
<1>5. s \in Shots
  <2>1. 1 \in 1 .. Len(snapshots) BY <1>4
  <2> QED BY <1>1, <1>4, <2>1, ShotTyped
<1>6. /\ Like(shown, input)
      /\ Selected(shown) => Selected(input) /\ shown.anchor[1] = input.anchor[1] + s.delta
  <2>1. /\ input \in InputStates /\ input.rows \in Nat \ {0} /\ input.cols \in Nat \ {0}
        /\ input.screen \in [mouse : BOOLEAN, alternate : BOOLEAN, history : BOOLEAN]
    BY <1>1 DEF SelTyped, InputStates
  <2>2. s.history \in BOOLEAN /\ s.delta \in Int BY <1>5 DEF Shots
  <2> HIDE DEF s
  <2>3. screen \in [mouse : BOOLEAN, alternate : BOOLEAN, history : BOOLEAN] BY <2>1, <2>2
  <2>4. <<input.rows, input.cols>>[1] = input.rows /\ <<input.rows, input.cols>>[2] = input.cols
    OBVIOUS
  <2> HIDE DEF screen
  <2> QED BY <2>1, <2>2, <2>3, <2>4, ShownLike
<1>7. SelTyped'
  BY <1>1, <1>2, <1>3, <1>4, <1>5, <1>6 DEF SelTyped, Like
<1>8. Link(drawn, s)
  <2>1. 0 \in 0 .. Len(snapshots) /\ 0 + 1 = 1 /\ Shot(0) = drawn /\ Shot(1) = s
    BY <1>4 DEF Shot
  <2> QED BY <1>1, <2>1 DEF Linked
<1> HIDE DEF s, shown
<1>9. OnItsLine'
  <2>1. /\ mark.slides \in Int /\ drawn.slides \in Int /\ s.slides \in Int
        /\ drawn.view \in Int /\ s.view \in Int /\ s.delta \in Int
    BY <1>1, <1>5 DEF SelTyped, Shots
  <2>2. mark.slides <= drawn.slides /\ drawn.slides <= s.slides BY <1>1, <1>8 DEF OnItsLine, Link
  <2>3. mark.slides <= s.slides BY <2>1, <2>2
  <2>4. ASSUME Selected(shown), s.slides = mark.slides
        PROVE  s.view + shown.anchor[1] = mark.line
    <3>1. drawn.slides = mark.slides /\ drawn.slides = s.slides BY <2>1, <2>2, <2>4
    <3>2. s.view + s.delta = drawn.view BY <1>8, <3>1 DEF Link
    <3>3. Selected(input) /\ shown.anchor[1] = input.anchor[1] + s.delta BY <1>6, <2>4
    <3>4. drawn.view + input.anchor[1] = mark.line
      BY <1>1, <3>1, <3>3 DEF OnItsLine, SelectionOnItsLine
    <3>5. input.anchor[1] \in Int BY <1>1, <3>3, LikeTypes DEF SelTyped, Selected
    <3> QED BY <2>1, <3>2, <3>3, <3>4, <3>5
  <2> QED BY <1>2, <1>3, <2>3, <2>4 DEF OnItsLine, SelectionOnItsLine
<1>10. ASSUME NEW i \in 0 .. Len(snapshots) - 1, NEW a, a = Shot(i)', NEW b, b = Shot(i + 1)'
       PROVE  Link(a, b)
  <2>1. ASSUME NEW j \in 0 .. Len(snapshots) PROVE Shot(j)' = Shot(j + 1)
    <3>1. CASE j = 0
      BY <1>2, <1>4, <3>1 DEF Shot
    <3>2. CASE j = Len(snapshots)
      BY <1>3, <1>4, <3>2 DEF Shot
    <3>3. CASE j # 0 /\ j # Len(snapshots)
      <4>1. j \in 1 .. Len(snapshots) - 1 /\ j + 1 # 0 /\ j + 1 <= Len(snapshots) BY <1>4, <3>3
      <4>2. j <= Len(snapshots') BY <1>4, <4>1
      <4> QED BY <1>4, <3>3, <4>1, <4>2 DEF Shot
    <3> QED BY <3>1, <3>2, <3>3
  <2>2. i \in 0 .. Len(snapshots) /\ i + 1 \in 0 .. Len(snapshots) BY <1>4
  <2>3. a = Shot(i + 1) /\ b = Shot(i + 1 + 1) BY <1>10, <2>1, <2>2
  <2> QED BY <1>1, <2>2, <2>3 DEF Linked
<1>11. Linked'
  BY <1>4, <1>10 DEF Linked
<1>12. Seen'
  <2>1. \A a : ShowsView(a) => ShowsView(a)' BY <1>3 DEF ShowsView
  <2>2. \A i \in 1 .. Len(snapshots) : ShowsView(snapshots[i]) BY <1>1 DEF Seen
  <2>3. \A i \in 1 .. Len(snapshots') : \A a : a = snapshots'[i] => ShowsView(a)
    <3>1. \A i \in 1 .. Len(snapshots') : i \in 1 .. Len(snapshots) - 1 /\ i + 1 \in 1 .. Len(snapshots)
      BY <1>4
    <3> QED BY <1>4, <2>2, <3>1
  <2>4. ShowsView(s)
    <3>1. 1 \in 1 .. Len(snapshots) BY <1>4
    <3> QED BY <1>4, <2>2, <3>1
  <2>5. \A a : a = drawn' => ShowsView(a)' BY <1>2, <2>1, <2>4
  <2>6. \A i \in 1 .. Len(snapshots') : \A a : a = snapshots'[i] => ShowsView(a)' BY <2>1, <2>3
  <2> QED BY <2>5, <2>6 DEF Seen
<1>13. Queued(requests, asked)'
  <2>1. slides <= slides' BY <1>1, <1>3 DEF SelTyped
  <2> QED BY <1>1, <1>3, <1>7, <2>1, QueuedKept
<1> QED BY <1>7, <1>9, <1>11, <1>12, <1>13 DEF SelInv

-----------------------------------------------------------------------------
(* The steps of the daemon.                                                *)

\* What is on the terminal and on its way does not change with the daemon.
LEMMA SeenStays ==
  ASSUME SelTyped, SelTyped', Linked, Seen, handled <= handled', slides <= slides',
         handled' = handled /\ slides' = slides => View' = View
  PROVE  \A a : a = drawn \/ (\E i \in 1 .. Len(snapshots) : a = snapshots[i]) =>
           ShowsView(a)'
<1>1. drawn \in Shots /\ \A i \in 1 .. Len(snapshots) : snapshots[i] \in Shots
  BY ShotTyped DEF SelTyped
<1>2. \A i \in 1 .. Len(snapshots) : snapshots[i].slides <= slides
  <2>1. \A i \in 1 .. Len(snapshots) : i \in 0 .. Len(snapshots) /\ Shot(i) = snapshots[i]
    BY ShotTyped DEF Shot
  <2> QED BY <2>1, SlidesGrow
<1>3. drawn.slides <= slides BY SlidesGrow
<1>4. ShowsView(drawn) /\ \A i \in 1 .. Len(snapshots) : ShowsView(snapshots[i]) BY DEF Seen
<1>5. \A a \in Shots : ShowsView(a) /\ a.slides <= slides => ShowsView(a)' BY StillShows
<1> QED BY <1>1, <1>2, <1>3, <1>4, <1>5

LEMMA SeenSame ==
  ASSUME SelTyped, SelTyped', Linked, Seen, handled <= handled', slides <= slides',
         handled' = handled /\ slides' = slides => View' = View,
         drawn' = drawn, snapshots' = snapshots
  PROVE  Seen'
<1>1. \A a : a = drawn \/ (\E i \in 1 .. Len(snapshots) : a = snapshots[i]) => ShowsView(a)'
  BY SeenStays
<1>2. \A a : a = drawn' => ShowsView(a)' BY <1>1
<1>3. \A i \in 1 .. Len(snapshots') : \A a : a = snapshots'[i] => ShowsView(a)' BY <1>1
<1> QED BY <1>2, <1>3 DEF Seen

LEMMA SeenAppend ==
  ASSUME SelTyped, SelTyped', Linked, Seen, handled <= handled', slides <= slides',
         handled' = handled /\ slides' = slides => View' = View,
         drawn' = drawn, NEW s \in Shots, snapshots' = Append(snapshots, s), ShowsView(s)'
  PROVE  Seen'
<1>1. \A a : a = drawn \/ (\E i \in 1 .. Len(snapshots) : a = snapshots[i]) => ShowsView(a)'
  BY SeenStays
<1>2. \A a : a = drawn' => ShowsView(a)' BY <1>1
<1>3. /\ Len(snapshots) \in Nat
      /\ Len(snapshots') = Len(snapshots) + 1
      /\ \A i \in 1 .. Len(snapshots) : snapshots'[i] = snapshots[i]
      /\ snapshots'[Len(snapshots) + 1] = s
  BY AppendProperties, LenProperties DEF SelTyped
<1>4. ASSUME NEW i \in 1 .. Len(snapshots'), NEW a, a = snapshots'[i] PROVE ShowsView(a)'
  <2>1. i \in 1 .. Len(snapshots) \/ i = Len(snapshots) + 1 BY <1>3
  <2>2. CASE i \in 1 .. Len(snapshots)
    BY <1>1, <1>3, <1>4, <2>2
  <2>3. CASE i = Len(snapshots) + 1
    <3>1. a = s BY <1>3, <1>4, <2>3
    <3> QED BY <3>1
  <2> QED BY <2>1, <2>2, <2>3
<1> QED BY <1>2, <1>4 DEF Seen

\* A handler that moves the view and answers, now or with the next Snapshot.
LEMMA AnswerKeeps ==
  ASSUME SelInv, NEW to \in Int, NEW moved \in Int, NEW slipping \in Int,
         ThenSnapshot(to, moved, slipping), slides <= slipping,
         slipping = slides => (written - to) + moved = View + delta,
         requests # <<>>, Step(Head(requests)) = 1,
         requests' = Tail(requests), UNCHANGED client
  PROVE  SelInv'
<1> DEFINE v == written - to
           e == to = 0
           h == handled + 1
           left == [Taking EXCEPT !.view = v, !.delta = moved, !.atEnd = e,
                                  !.handled = h, !.slides = slipping]
<1>1. SelTyped /\ OnItsLine /\ Linked /\ Seen /\ Queued(requests, asked) BY DEF SelInv
<1>2. /\ offset' = to /\ slides' = slipping /\ handled' = handled + 1 /\ written' = written
      /\ \/ delta' = moved /\ snapshots' = snapshots
         \/ delta' = 0 /\ snapshots' = Append(snapshots, left)
  BY DEF ThenSnapshot
<1>3. input' = input /\ drawn' = drawn /\ asked' = asked /\ mark' = mark BY DEF client
<1>4. v \in Int /\ h \in Int /\ e \in BOOLEAN BY <1>1 DEF SelTyped
<1>5. View' = v BY <1>2 DEF View
<1> HIDE DEF v, e
<1>6. /\ left \in Shots /\ left.view = v /\ left.delta = moved
      /\ left.handled = h /\ left.slides = slipping
  <2>1. Taking \in Shots BY <1>1, TakingIs
  <2> HIDE DEF h
  <2> QED BY <1>4, <2>1 DEF Shots
<1> HIDE DEF left
<1>7. snapshots' \in Seq(Shots)
  <2>1. snapshots \in Seq(Shots) BY <1>1 DEF SelTyped
  <2>2. Append(snapshots, left) \in Seq(Shots) BY <1>6, <2>1, AppendProperties
  <2> QED BY <1>2, <2>1, <2>2
<1>8. delta' \in Int /\ handled' \in Int BY <1>1, <1>2 DEF SelTyped
<1>9. SelTyped'
  BY <1>1, <1>2, <1>3, <1>7, <1>8 DEF SelTyped
<1>10. Taking'.view = v /\ Taking'.delta = delta' /\ Taking'.slides = slipping
  BY <1>2, <1>5 DEF Taking
<1>11. OnItsLine' BY <1>1, <1>3 DEF OnItsLine, SelectionOnItsLine
<1>12. ASSUME NEW x, x.view = v, x.delta = moved, x.slides = slipping
       PROVE  Link(Shot(Len(snapshots)), x)
  <2> DEFINE last == Shot(Len(snapshots))
  <2>1. /\ Len(snapshots) \in 0 .. Len(snapshots) /\ Len(snapshots) \in 0 .. Len(snapshots) + 1
        /\ Shot(Len(snapshots) + 1) = Taking
    BY <1>1, ShotTyped
  <2>2. last \in Shots /\ Link(last, Taking) BY <1>1, <2>1, ShotTyped DEF Linked
  <2> HIDE DEF last
  <2>3. last.slides <= slides /\ (last.slides = slides => View + delta = last.view)
    BY <1>1, <2>2, TakingIs DEF Link
  <2>4. last.slides \in Int /\ slides \in Int BY <1>1, <2>2 DEF Shots, SelTyped
  <2>5. last.slides <= slipping /\ (last.slides = slipping => slides = slipping /\ last.slides = slides)
    BY <2>3, <2>4
  <2>6. last.slides = slipping => v + moved = last.view BY <2>3, <2>5 DEF v
  <2> QED BY <1>12, <2>5, <2>6 DEF Link, last
<1>13. Linked'
  <2>1. CASE delta' = moved /\ snapshots' = snapshots
    <3>1. Link(Shot(Len(snapshots)), Taking') BY <1>10, <1>12, <2>1
    <3> QED BY <1>1, <1>3, <1>9, <2>1, <3>1, LinkedSame
  <2>2. CASE delta' = 0 /\ snapshots' = Append(snapshots, left)
    <3>1. Link(Shot(Len(snapshots)), left) BY <1>6, <1>12
    <3>2. v + 0 = v BY <1>4
    <3>3. Link(left, Taking') BY <1>6, <1>10, <2>2, <3>2 DEF Link
    <3> QED BY <1>1, <1>3, <1>6, <1>9, <2>2, <3>1, <3>3, LinkedAppend
  <2> QED BY <1>2, <2>1, <2>2
<1>14. handled <= handled' /\ handled' # handled BY <1>1, <1>2 DEF SelTyped
<1>15. Seen'
  <2>1. CASE snapshots' = snapshots
    BY <1>1, <1>2, <1>3, <1>9, <1>14, <2>1, SeenSame
  <2>2. CASE snapshots' = Append(snapshots, left)
    <3>1. ASSUME NEW s \in Shots, s = left PROVE ShowsView(s)'
      <4>1. s.handled = handled' /\ s.view = View' BY <1>2, <1>5, <1>6, <3>1 DEF h
      <4>2. handled' <= handled' BY <1>8
      <4> QED BY <4>1, <4>2 DEF ShowsView
    <3>2. \A s \in Shots : s = left => Seen'
      BY <1>1, <1>2, <1>3, <1>9, <1>14, <2>2, <3>1, SeenAppend
    <3> QED BY <1>6, <3>2
  <2> QED BY <1>2, <2>1, <2>2
<1>16. Queued(requests, asked)'
  BY <1>1, <1>2, <1>3, <1>9, QueuedTail
<1> QED BY <1>9, <1>11, <1>13, <1>15, <1>16 DEF SelInv

LEMMA HandleKeeps ==
  ASSUME SelInv, Handle
  PROVE  SelInv'
<1> DEFINE m == Head(requests)
           what == m.action[1]
<1>1. requests # <<>> /\ requests' = Tail(requests) /\ UNCHANGED client BY DEF Handle
<1>2. SelTyped /\ OnItsLine /\ Linked /\ Seen /\ Queued(requests, asked) BY DEF SelInv
<1>3. /\ written \in Int /\ offset \in Int /\ delta \in Int /\ slides \in Int
      /\ History \in Int /\ View = written - offset
  BY <1>2, HistoryTyped DEF SelTyped, View
<1>4. what \in Moves => Step(m) = 1 BY DEF Step
<1>5. ASSUME what \in Moves, NEW to \in Int, NEW by, ScrollTo(to, by) PROVE SelInv'
  <2> DEFINE moved == delta + (to - offset)
  <2>1. ThenSnapshot(to, moved, slides) BY <1>5 DEF ScrollTo
  <2>2. moved \in Int /\ (written - to) + moved = View + delta /\ slides <= slides BY <1>3
  <2> HIDE DEF moved
  <2> QED BY <1>1, <1>3, <1>4, <1>5, <2>1, <2>2, AnswerKeeps
<1>6. CASE what = "scroll" /\ ScrollTo(Within(0, offset + m.action[2], History), m.action[2])
  <2> DEFINE by == m.action[2]
             to == Within(0, offset + by, History)
  <2>1. by \in Int
    <3>1. Len(requests) \in Nat /\ Len(requests) >= 1 /\ m = requests[1]
      BY <1>1, <1>2, TailParts DEF Queued
    <3>2. 1 \in 1 .. Len(requests) BY <3>1
    <3>3. IsAction(requests[1].action) BY <1>2, <3>2 DEF Queued
    <3> QED BY <1>6, <3>1, <3>3 DEF IsAction
  <2> HIDE DEF by
  <2>2. to \in Int BY <1>3, <2>1 DEF Within
  <2>3. what \in Moves BY <1>6 DEF Moves
  <2>4. ScrollTo(to, by) BY <1>6 DEF by
  <2> HIDE DEF to
  <2> QED BY <1>5, <2>2, <2>3, <2>4
<1>7. CASE what = "scrollToTop" /\ ScrollTo(History, History - offset)
  <2>1. what \in Moves BY <1>7 DEF Moves
  <2> QED BY <1>3, <1>5, <1>7, <2>1
<1>8. CASE what = "scrollToBottom" /\ ScrollTo(0, -offset)
  <2>1. what \in Moves /\ 0 \in Int BY <1>8 DEF Moves
  <2> QED BY <1>5, <1>8, <2>1
<1>9. CASE what = "search" /\ \E to \in 0 .. History : Search(to)
  <2>1. PICK to \in 0 .. History : Search(to) BY <1>9
  <2> DEFINE slipping == slides + 1
  <2>2. ThenSnapshot(to, delta, slipping) BY <2>1 DEF Search
  <2>3. to \in Int /\ slipping \in Int /\ slides <= slipping /\ slipping # slides BY <1>3
  <2>4. Step(m) = 1 BY <1>4, <1>9 DEF Moves
  <2> HIDE DEF slipping
  <2> QED BY <1>1, <1>3, <2>2, <2>3, <2>4, AnswerKeeps
<1>10. CASE what = "copy" /\ UNCHANGED <<daemon, snapshots>>
  <2>1. Step(m) = 0 BY <1>10 DEF Step, Moves
  <2>2. /\ written' = written /\ offset' = offset /\ delta' = delta
        /\ handled' = handled /\ slides' = slides /\ snapshots' = snapshots
        /\ input' = input /\ drawn' = drawn /\ asked' = asked /\ mark' = mark
        /\ Taking' = Taking /\ View' = View
    BY <1>1, <1>10 DEF daemon, client, Taking, View, History
  <2>3. SelTyped' BY <1>2, <2>2 DEF SelTyped
  <2>4. /\ slides <= slides' /\ handled' = handled + Step(m) BY <1>2, <2>1, <2>2 DEF SelTyped
  <2>5. OnItsLine' BY <1>2, <2>2 DEF OnItsLine, SelectionOnItsLine
  <2>6. Linked' BY <1>2, <2>2 DEF Linked, Link, Shot
  <2>7. Seen' BY <1>2, <2>2 DEF Seen, ShowsView
  <2>8. Queued(requests, asked)' BY <1>1, <1>2, <2>2, <2>3, <2>4, QueuedTail
  <2> QED BY <2>3, <2>5, <2>6, <2>7, <2>8 DEF SelInv
<1>11. \/ what = "scroll" /\ ScrollTo(Within(0, offset + m.action[2], History), m.action[2])
       \/ what = "scrollToTop" /\ ScrollTo(History, History - offset)
       \/ what = "scrollToBottom" /\ ScrollTo(0, -offset)
       \/ what = "search" /\ \E to \in 0 .. History : Search(to)
       \/ what = "copy" /\ UNCHANGED <<daemon, snapshots>>
  BY DEF Handle
<1> QED BY <1>6, <1>7, <1>8, <1>9, <1>10, <1>11

\* Output, and what becomes of the Snapshot in flight: the view keeps its lines
\* or slides, and nothing is sent.
LEMMA QuietKeeps ==
  ASSUME SelInv, written' \in Int, offset' \in Int, slides' \in Int,
         slides <= slides', slides' = slides => View' = View,
         UNCHANGED <<delta, handled, client, requests, snapshots>>
  PROVE  SelInv'
<1>1. SelTyped /\ OnItsLine /\ Linked /\ Seen /\ Queued(requests, asked) BY DEF SelInv
<1>2. /\ delta' = delta /\ handled' = handled /\ snapshots' = snapshots /\ requests' = requests
      /\ input' = input /\ drawn' = drawn /\ asked' = asked /\ mark' = mark
  BY DEF client
<1>3. SelTyped' BY <1>1, <1>2 DEF SelTyped
<1>4. OnItsLine' BY <1>1, <1>2 DEF OnItsLine, SelectionOnItsLine
<1>5. Link(Shot(Len(snapshots)), Taking')
  <2> DEFINE last == Shot(Len(snapshots))
  <2>1. /\ Len(snapshots) \in 0 .. Len(snapshots) /\ Len(snapshots) \in 0 .. Len(snapshots) + 1
        /\ Shot(Len(snapshots) + 1) = Taking
    BY <1>1, ShotTyped
  <2>2. last \in Shots /\ Link(last, Taking) BY <1>1, <2>1, ShotTyped DEF Linked
  <2> HIDE DEF last
  <2>3. last.slides <= slides /\ (last.slides = slides => View + delta = last.view)
    BY <1>1, <2>2, TakingIs DEF Link
  <2>4. last.slides \in Int /\ slides \in Int BY <1>1, <2>2 DEF Shots, SelTyped
  <2>5. last.slides <= slides' /\ (last.slides = slides' => slides' = slides /\ last.slides = slides)
    BY <2>3, <2>4
  <2>6. Taking'.view = View' /\ Taking'.delta = delta /\ Taking'.slides = slides'
    BY <1>2 DEF Taking
  <2>7. last.slides = slides' => View' + delta = last.view BY <2>3, <2>5
  <2> QED BY <2>5, <2>6, <2>7 DEF Link, last
<1>6. Linked' BY <1>1, <1>2, <1>3, <1>5, LinkedSame
<1>7. handled <= handled' BY <1>1, <1>2 DEF SelTyped
<1>8. Seen' BY <1>1, <1>2, <1>3, <1>7, SeenSame
<1>9. Queued(requests, asked)' BY <1>1, <1>2, <1>3, QueuedKept
<1> QED BY <1>3, <1>4, <1>6, <1>8, <1>9 DEF SelInv

LEMMA OutputKeeps ==
  ASSUME SelInv, Output
  PROVE  SelInv'
<1>1. /\ written' = written + 1
      /\ offset' = IF offset = 0 THEN 0 ELSE Least(Least(written + 1, HistoryLimit), offset + 1)
      /\ slides' = IF written' - offset' = View THEN slides ELSE slides + 1
      /\ UNCHANGED <<delta, handled, client, requests, snapshots>>
  BY DEF Output
<1>2. written \in Int /\ offset \in Int /\ slides \in Int /\ HistoryLimit \in Int
  BY SelectionAssumption DEF SelInv, SelTyped
<1>3. written' \in Int /\ offset' \in Int BY <1>1, <1>2 DEF Least
<1>4. View' = written' - offset' BY DEF View
<1>5. slides' \in Int /\ slides <= slides' /\ (slides' = slides => View' = View)
  BY <1>1, <1>2, <1>4
<1> QED BY <1>1, <1>3, <1>5, QuietKeeps

LEMMA FlushKeeps ==
  ASSUME SelInv, Flush
  PROVE  SelInv'
<1>1. SelTyped /\ OnItsLine /\ Linked /\ Seen /\ Queued(requests, asked) BY DEF SelInv
<1>2. /\ snapshots' = Append(snapshots, Taking) /\ delta' = 0
      /\ written' = written /\ offset' = offset /\ handled' = handled /\ slides' = slides
      /\ requests' = requests
      /\ input' = input /\ drawn' = drawn /\ asked' = asked /\ mark' = mark
      /\ View' = View
  BY DEF Flush, client, View
<1>3. /\ Taking \in Shots /\ Taking.view = View
      /\ Taking.handled = handled /\ Taking.slides = slides
  BY <1>1, TakingIs
<1>4. snapshots' \in Seq(Shots)
  <2>1. snapshots \in Seq(Shots) BY <1>1 DEF SelTyped
  <2> QED BY <1>2, <1>3, <2>1, AppendProperties
<1>5. SelTyped' BY <1>1, <1>2, <1>4 DEF SelTyped
<1>6. OnItsLine' BY <1>1, <1>2 DEF OnItsLine, SelectionOnItsLine
<1>7. View \in Int /\ slides \in Int /\ handled \in Int BY <1>1, ViewTyped DEF SelTyped
<1>8. Linked'
  <2>1. Link(Shot(Len(snapshots)), Taking)
    <3>1. Len(snapshots) \in 0 .. Len(snapshots) /\ Shot(Len(snapshots) + 1) = Taking
      BY <1>1, ShotTyped
    <3> QED BY <1>1, <3>1 DEF Linked
  <2>2. Taking'.view = View /\ Taking'.delta = 0 /\ Taking'.slides = slides
    BY <1>2 DEF Taking
  <2>3. slides <= slides /\ View + 0 = View BY <1>7
  <2>4. Link(Taking, Taking') BY <1>3, <2>2, <2>3 DEF Link
  <2>5. \A a \in Shots : a = Taking => Linked'
    BY <1>1, <1>2, <1>5, <2>1, <2>4, LinkedAppend
  <2> QED BY <1>3, <2>5
<1>9. Seen'
  <2>1. ASSUME NEW s \in Shots, s = Taking PROVE ShowsView(s)'
    BY <1>2, <1>3, <1>7, <2>1 DEF ShowsView
  <2>2. handled <= handled' /\ slides <= slides' BY <1>2, <1>7
  <2>3. \A s \in Shots : s = Taking => Seen'
    BY <1>1, <1>2, <1>5, <2>1, <2>2, SeenAppend
  <2> QED BY <1>3, <2>3
<1>10. Queued(requests, asked)'
  <2>1. slides <= slides' BY <1>2, <1>7
  <2> QED BY <1>1, <1>2, <1>5, <2>1, QueuedKept
<1> QED BY <1>5, <1>6, <1>8, <1>9, <1>10 DEF SelInv

LEMMA WrittenKeeps ==
  ASSUME SelInv, Written
  PROVE  SelInv'
<1>1. /\ written' = written /\ offset' = offset /\ slides' = slides /\ View' = View
      /\ UNCHANGED <<delta, handled, client, requests, snapshots>>
  BY DEF Written, View
<1>2. written \in Int /\ offset \in Int /\ slides \in Int /\ slides <= slides
  BY DEF SelInv, SelTyped
<1> QED BY <1>1, <1>2, QuietKeeps

\* Where no delta is lost with the connection, the view is where the Snapshot on
\* the terminal and the delta that is not told yet put it.
LEMMA NothingLost ==
  ASSUME SelTyped, Linked, ~ Lost, drawn.slides = slides
  PROVE  View + delta = drawn.view
<1> DEFINE n == Len(snapshots)
           S == {k \in Nat : k <= n => Shot(k).view = drawn.view}
<1>1. /\ n \in Nat /\ Shot(0) = drawn /\ Shot(n + 1) = Taking
      /\ \A i \in 0 .. n + 1 : Shot(i) \in Shots
  BY ShotTyped
<1>2. \A i \in 0 .. n : Link(Shot(i), Shot(i + 1)) BY DEF Linked
<1>3. \A i \in 0 .. n : Shot(i).slides = slides
  <2>1. \A i \in 0 .. n : Shot(i).slides <= slides /\ slides <= Shot(i).slides BY SlidesGrow
  <2>2. \A i \in 0 .. n : Shot(i).slides \in Int
    <3>1. \A i \in 0 .. n : i \in 0 .. n + 1 BY <1>1
    <3> HIDE DEF n
    <3> QED BY <1>1, <3>1 DEF Shots
  <2>3. slides \in Int BY DEF SelTyped
  <2> HIDE DEF n
  <2> QED BY <2>1, <2>2, <2>3
<1>4. \A i \in 1 .. n : Shot(i).delta = 0
  <2>1. \A i \in 1 .. n : i \in DOMAIN snapshots /\ Shot(i) = snapshots[i]
    BY <1>1, LenProperties DEF SelTyped, Shot
  <2> QED BY <2>1 DEF Lost
<1> HIDE DEF n
<1>5. \A i \in 0 .. n + 1 : Shot(i).view \in Int BY <1>1 DEF Shots
<1>6. 0 \in S BY <1>1
<1>7. ASSUME NEW k \in Nat, k \in S PROVE k + 1 \in S
  <2> SUFFICES ASSUME k + 1 <= n PROVE Shot(k + 1).view = drawn.view OBVIOUS
  <2>1. /\ k <= n /\ k \in 0 .. n /\ k + 1 \in 0 .. n /\ k + 1 \in 1 .. n
        /\ k + 1 \in 0 .. n + 1
    BY <1>1
  <2>2. Shot(k + 1).view + Shot(k + 1).delta = Shot(k).view BY <1>2, <1>3, <2>1 DEF Link
  <2>3. Shot(k + 1).delta = 0 /\ Shot(k + 1).view \in Int /\ Shot(k).view = drawn.view
    BY <1>4, <1>5, <1>7, <2>1
  <2> QED BY <2>2, <2>3
<1>8. Nat \subseteq S
  <2> HIDE DEF S
  <2> QED BY <1>6, <1>7, SetInduction
<1>9. Shot(n).view = drawn.view BY <1>1, <1>8
<1>10. n \in 0 .. n BY <1>1
<1>11. Taking.slides = slides /\ Taking.view = View /\ Taking.delta = delta BY TakingIs
<1>12. View + delta = Shot(n).view BY <1>1, <1>2, <1>3, <1>10, <1>11 DEF Link
<1> QED BY <1>9, <1>12

LEMMA ReattachKeeps ==
  ASSUME SelInv, Reattach
  PROVE  SelInv'
<1> DEFINE l == IF Lost THEN slides + 1 ELSE slides
           left == [Taking EXCEPT !.handled = asked, !.slides = l]
<1>1. SelTyped /\ OnItsLine /\ Linked /\ Seen /\ Queued(requests, asked) BY DEF SelInv
<1>2. /\ requests' = <<>> /\ handled' = asked /\ slides' = l
      /\ snapshots' = <<[Taking EXCEPT !.handled = asked, !.slides = slides']>>
      /\ delta' = 0 /\ written' = written /\ offset' = offset
      /\ input' = input /\ drawn' = drawn /\ asked' = asked /\ mark' = mark
      /\ View' = View
  BY DEF Reattach, client, View
<1>3. slides \in Int /\ asked \in Int /\ handled \in Int /\ View \in Int /\ delta \in Int
      /\ handled <= asked
  BY <1>1, ViewTyped DEF SelTyped, Queued, Numbered
<1>4. l \in Int /\ slides <= l /\ (l = slides => ~ Lost) BY <1>3
<1>5. snapshots' = <<left>> BY <1>2
<1> HIDE DEF l
<1>6. /\ left \in Shots /\ left.view = View /\ left.delta = delta
      /\ left.handled = asked /\ left.slides = l
  <2>1. Taking \in Shots /\ Taking.view = View /\ Taking.delta = delta BY <1>1, TakingIs
  <2> QED BY <1>3, <1>4, <2>1 DEF Shots
<1> HIDE DEF left
<1>7. /\ snapshots' \in Seq(Shots) /\ Len(snapshots') = 1 /\ snapshots'[1] = left
  BY <1>5, <1>6
<1>8. SelTyped' BY <1>1, <1>2, <1>3, <1>4, <1>7 DEF SelTyped
<1>9. OnItsLine' BY <1>1, <1>2 DEF OnItsLine, SelectionOnItsLine
<1>10. drawn.slides \in Int /\ drawn.handled \in Int /\ drawn.slides <= slides
  BY <1>1, SlidesGrow DEF SelTyped, Shots
<1>11. Link(drawn, left)
  <2>1. drawn.slides <= l BY <1>3, <1>4, <1>10
  <2>2. ASSUME drawn.slides = l PROVE View + delta = drawn.view
    <3>1. drawn.slides = slides /\ l = slides BY <1>3, <1>4, <1>10, <2>2
    <3> QED BY <1>1, <1>4, <3>1, NothingLost
  <2> QED BY <1>6, <2>1, <2>2 DEF Link
<1>12. Link(left, Taking')
  <2>1. Taking'.view = View /\ Taking'.delta = 0 /\ Taking'.slides = l BY <1>2 DEF Taking
  <2>2. l <= l /\ View + 0 = View BY <1>3, <1>4
  <2> QED BY <1>6, <2>1, <2>2 DEF Link
<1>13. Linked'
  <2>1. ASSUME NEW i, i = 0 PROVE Shot(i)' = drawn BY <1>2, <2>1 DEF Shot
  <2>2. ASSUME NEW i, i = 1 PROVE Shot(i)' = left BY <1>7, <2>2 DEF Shot
  <2>3. ASSUME NEW i, i = 2 PROVE Shot(i)' = Taking' BY <1>7, <2>3 DEF Shot
  <2>4. ASSUME NEW i \in 0 .. 1, NEW a, a = Shot(i)', NEW b, b = Shot(i + 1)' PROVE Link(a, b)
    <3>1. CASE i = 0
      <4>1. i + 1 = 1 BY <3>1
      <4>2. a = drawn /\ b = left BY <2>1, <2>2, <2>4, <3>1, <4>1
      <4> QED BY <1>11, <4>2
    <3>2. CASE i = 1
      <4>1. i + 1 = 2 BY <3>2
      <4>2. a = left /\ b = Taking' BY <2>2, <2>3, <2>4, <3>2, <4>1
      <4> QED BY <1>12, <4>2
    <3> QED BY <3>1, <3>2
  <2> QED BY <1>7, <2>4 DEF Linked
<1>14. Seen'
  <2>1. ASSUME NEW a, a = drawn' PROVE ShowsView(a)'
    <3>1. a = drawn /\ a.handled <= handled /\ (a.handled = handled /\ a.slides = slides => a.view = View)
      BY <1>1, <1>2, <2>1 DEF Seen, ShowsView
    <3>2. a.handled <= asked BY <1>3, <1>10, <3>1
    <3>3. a.handled = asked /\ a.slides = l => a.handled = handled /\ a.slides = slides
      BY <1>3, <1>4, <1>10, <3>1
    <3> QED BY <1>2, <3>1, <3>2, <3>3 DEF ShowsView
  <2>2. ASSUME NEW a, a = left PROVE ShowsView(a)'
    <3>1. asked <= asked BY <1>3
    <3> QED BY <1>2, <1>6, <2>2, <3>1 DEF ShowsView
  <2>3. \A i \in 1 .. Len(snapshots') : \A a : a = snapshots'[i] => ShowsView(a)'
    <3>1. \A i \in 1 .. 1 : i = 1 OBVIOUS
    <3> QED BY <1>7, <2>2, <3>1
  <2> QED BY <2>1, <2>3 DEF Seen
<1>15. Queued(requests, asked)'
  <2>1. IsSeq(<<>>) /\ Len(<<>>) = 0 BY EmptyIsSeq
  <2>2. asked' \in Int /\ handled' <= asked' BY <1>2, <1>3
  <2>3. \A i \in 1 .. Len(requests') : FALSE BY <1>2, <2>1
  <2> QED BY <1>2, <2>1, <2>2, <2>3 DEF Queued, Numbered
<1> QED BY <1>8, <1>9, <1>13, <1>14, <1>15 DEF SelInv

-----------------------------------------------------------------------------
(* What the client and the daemon keep together.                           *)

LEMMA SelectionNextKeeps ==
  ASSUME SelInv, [SelectionNext]_allVars
  PROVE  SelInv'
<1>0. input \in InputStates BY DEF SelInv, SelTyped
<1>1. CASE \E b \in Gestures : Read(b)
  <2>1. PICK b \in Gestures : Read(b) BY <1>1
  <2>2. b \in Seq(Typed) BY SelectionAssumption
  <2>3. Run(Fed(input, b)) BY <1>0, <2>2, FedIs
  <2> QED BY <2>1, <2>3, SendsKeep DEF Read
<1>2. CASE AutoscrollPasses
  BY <1>0, <1>2, TicksLike, SendsKeep DEF AutoscrollPasses
<1>3. CASE EscapePasses
  BY <1>0, <1>3, TicksLike, SendsKeep DEF EscapePasses
<1>4. CASE Draw BY <1>4, DrawKeeps
<1>5. CASE Handle BY <1>5, HandleKeeps
<1>6. CASE Output BY <1>6, OutputKeeps
<1>7. CASE Flush BY <1>7, FlushKeeps
<1>8. CASE Written BY <1>8, WrittenKeeps
<1>9. CASE Reattach BY <1>9, ReattachKeeps
<1>10. CASE UNCHANGED allVars
  <2>1. /\ written' = written /\ offset' = offset /\ slides' = slides /\ View' = View
        /\ UNCHANGED <<delta, handled, client, requests, snapshots>>
    BY <1>10 DEF allVars, daemon, client, View
  <2>2. written \in Int /\ offset \in Int /\ slides \in Int /\ slides <= slides
    BY DEF SelInv, SelTyped
  <2> QED BY <2>1, <2>2, QuietKeeps
<1> QED BY <1>1, <1>2, <1>3, <1>4, <1>5, <1>6, <1>7, <1>8, <1>9, <1>10 DEF SelectionNext

LEMMA SelectionStarts ==
  ASSUME SelectionInit
  PROVE  SelInv
<1>1. PICK size \in Sizes : input = Start(size[1], size[2]) BY DEF SelectionInit, Init
<1>2. /\ written = HistoryLimit /\ offset = 0 /\ delta = 0
      /\ requests = <<>> /\ snapshots = <<>> /\ handled = 0 /\ slides = 0
      /\ drawn = Taking /\ asked = 0 /\ mark = [line |-> 0, slides |-> 0]
  BY DEF SelectionInit
<1>3. input \in InputStates BY <1>1, StartTyped
<1>4. ~ Selected(input) BY <1>1 DEF Start, Selected
<1>5. <<>> \in Seq(Shots) /\ Len(<<>>) = 0 OBVIOUS
<1> DEFINE v == View
           e == offset = 0
           h == History > 0
           zero == 0
<1>6. v \in Int /\ e \in BOOLEAN /\ h \in BOOLEAN /\ zero \in Int
  BY <1>2, SelectionAssumption DEF View
<1>7. drawn = [view |-> v, delta |-> zero, atEnd |-> e, history |-> h,
               handled |-> zero, slides |-> zero]
  BY <1>2 DEF Taking
<1> HIDE DEF v, e, h
<1>8. /\ drawn \in Shots /\ drawn.view = v /\ drawn.delta = 0
      /\ drawn.handled = 0 /\ drawn.slides = 0
  <2>1. drawn \in Shots
    <3> HIDE DEF zero
    <3> QED BY <1>6, <1>7 DEF Shots
  <2> QED BY <1>7, <2>1
<1>9. SelTyped
  <2>1. written \in Int BY <1>2, SelectionAssumption
  <2> QED BY <1>2, <1>3, <1>5, <1>8, <2>1 DEF SelTyped
<1>10. OnItsLine BY <1>2, <1>4, <1>8 DEF OnItsLine, SelectionOnItsLine
<1>11. Linked
  <2>1. Shot(0) = drawn /\ Shot(1) = drawn BY <1>2, <1>5 DEF Shot
  <2>2. Link(drawn, drawn) BY <1>6, <1>8 DEF Link
  <2>3. \A i \in 0 .. 0 : i = 0 /\ i + 1 = 1 OBVIOUS
  <2> QED BY <1>2, <1>5, <2>1, <2>2, <2>3 DEF Linked
<1>12. Seen
  <2>1. ShowsView(drawn) BY <1>2, <1>8 DEF ShowsView, v
  <2>2. \A i \in 1 .. Len(snapshots) : FALSE BY <1>2, <1>5
  <2> QED BY <2>1, <2>2 DEF Seen
<1>13. Queued(requests, asked)
  <2>1. \A i \in 1 .. Len(requests) : FALSE BY <1>2, <1>5
  <2> QED BY <1>2, <2>1, EmptyIsSeq DEF Queued, Numbered
<1> QED BY <1>9, <1>10, <1>11, <1>12, <1>13 DEF SelInv

\* The state of the client and of the daemon is one the program has; along the
\* Snapshots on their way the deltas say by how much the view has moved; and the
\* messages on their way are in the order in which they were sent.
THEOREM SelectionInductive == SelectionSpec => []SelInv
<1>1. SelectionInit => SelInv BY SelectionStarts
<1>2. SelInv /\ [SelectionNext]_allVars => SelInv' BY SelectionNextKeeps
<1> QED BY <1>1, <1>2, PTL DEF SelectionSpec

\* The row at which the client keeps the beginning of a selection shows the line
\* it was begun on (apply_viewport_scroll_delta), as long as the view does not
\* move without a delta.
THEOREM SelectionKeepsItsLine == SelectionSpec => []SelectionOnItsLine
<1>1. SelInv => SelectionOnItsLine BY DEF SelInv, OnItsLine
<1> QED BY <1>1, SelectionInductive, PTL

\* What a Copy takes when the daemon comes to it (selection_text) is what was
\* highlighted when it was asked for, if all requests had been answered by then
\* and the view has not moved by itself.
THEOREM CopyIsHighlighted == SelectionSpec => []CopiedIsHighlighted
<1>1. SelInv => CopiedIsHighlighted BY HeadCopied
<1> QED BY <1>1, SelectionInductive, PTL

=============================================================================
