----------------------------- MODULE Layout_proofs -----------------------------
(***************************************************************************)
(* Proofs about module Layout: what the operations make of the tree is a   *)
(* tree whose leaves are the panes; the rectangles of a tree tile the      *)
(* screen; ptys have the sizes of their rectangles; a split takes its room *)
(* from one pane; and the focus moves wherever there is something to move  *)
(* to.                                                                     *)
(***************************************************************************)
EXTENDS Layout, SequenceTheorems, FiniteSetTheorems, WellFoundedInduction, TLAPS

LEMMA SetInduction ==
  ASSUME NEW S, 0 \in S, \A n \in Nat : n \in S => n + 1 \in S
  PROVE  Nat \subseteq S
<1> SUFFICES ASSUME Nat \ S # {} PROVE FALSE
  OBVIOUS
<1>1. PICK x \in Nat \ S : \A y \in Nat \ S : ~ (<<y, x>> \in OpToRel(<, Nat))
  BY NatLessThanWellFounded, WFMin
<1>2. x # 0 /\ x - 1 \in Nat OBVIOUS
<1>3. <<x - 1, x>> \in OpToRel(<, Nat) BY <1>2 DEF OpToRel
<1>4. x - 1 \in S BY <1>1, <1>2, <1>3
<1>5. (x - 1) + 1 = x OBVIOUS
<1> QED BY <1>2, <1>4, <1>5

LEMMA LeastOf ==
  ASSUME NEW I, I \subseteq Nat, I # {}
  PROVE  \E x \in I : \A j \in I : x <= j
<1>1. PICK x \in I : \A y \in I : ~ (<<y, x>> \in OpToRel(<, Nat))
  BY NatLessThanWellFounded, WFMin
<1>2. ASSUME NEW y \in I, y < x PROVE FALSE
  <2>1. <<y, x>> \in OpToRel(<, Nat) BY <1>2 DEF OpToRel
  <2> QED BY <1>1, <2>1
<1>3. \A y \in I : x <= y BY <1>2
<1> QED BY <1>3

-----------------------------------------------------------------------------
(* Paths.                                                                  *)

Path == Seq({1, 2})

Upto(q, i) == SubSeq(q, 1, i)

LEMMA PathIs ==
  ASSUME NEW q \in Path
  PROVE  /\ Len(q) \in Nat /\ DOMAIN q = 1 .. Len(q)
         /\ \A i \in 1 .. Len(q) : q[i] \in {1, 2}
         /\ (q = <<>> <=> Len(q) = 0)
<1>1. Len(q) \in Nat /\ DOMAIN q = 1 .. Len(q) BY LenProperties DEF Path
<1>2. \A i \in 1 .. Len(q) : q[i] \in {1, 2} BY ElementOfSeq DEF Path
<1>3. q = <<>> => Len(q) = 0 OBVIOUS
<1>4. q # <<>> => Len(q) # 0 BY EmptySeq DEF Path
<1> QED BY <1>1, <1>2, <1>3, <1>4

LEMMA Same ==
  ASSUME NEW q \in Path, NEW r \in Path, Len(q) = Len(r),
         \A i \in 1 .. Len(q) : q[i] = r[i]
  PROVE  q = r
BY SeqEqual DEF Path

LEMMA UptoIs ==
  ASSUME NEW q \in Path, NEW n \in 0 .. Len(q)
  PROVE  /\ Upto(q, n) \in Path /\ Len(Upto(q, n)) = n
         /\ \A i \in 1 .. n : Upto(q, n)[i] = q[i]
<1>0. Len(q) \in Nat /\ n \in Int /\ n >= 0 /\ n <= Len(q) BY PathIs
<1>1. \A i \in 1 .. n : q[i] \in {1, 2} BY <1>0, PathIs
<1>2. /\ SubSeq(q, 1, n) \in Seq({1, 2})
      /\ Len(SubSeq(q, 1, n)) = IF 1 <= n THEN n - 1 + 1 ELSE 0
      /\ \A i \in 1 .. n - 1 + 1 : SubSeq(q, 1, n)[i] = q[1 + i - 1]
  BY <1>0, <1>1, SubSeqProperties
<1>3. (IF 1 <= n THEN n - 1 + 1 ELSE 0) = n /\ n - 1 + 1 = n BY <1>0
<1>4. \A i \in 1 .. n : 1 + i - 1 = i BY <1>0
<1> QED BY <1>2, <1>3, <1>4 DEF Upto, Path

LEMMA UptoEnds ==
  ASSUME NEW q \in Path
  PROVE  Upto(q, 0) = <<>> /\ Upto(q, Len(q)) = q
<1>1. Len(q) \in Nat /\ 0 \in 0 .. Len(q) /\ Len(q) \in 0 .. Len(q) BY PathIs
<1>2. Upto(q, 0) \in Path /\ Len(Upto(q, 0)) = 0 BY <1>1, UptoIs
<1>3. Upto(q, 0) = <<>> BY <1>2, PathIs
<1>4. /\ Upto(q, Len(q)) \in Path /\ Len(Upto(q, Len(q))) = Len(q)
      /\ \A i \in 1 .. Len(q) : Upto(q, Len(q))[i] = q[i]
  BY <1>1, UptoIs
<1>5. Upto(q, Len(q)) = q BY <1>4, Same
<1> QED BY <1>3, <1>5

LEMMA UptoUpto ==
  ASSUME NEW q \in Path, NEW n \in 0 .. Len(q), NEW m \in 0 .. n
  PROVE  Upto(Upto(q, n), m) = Upto(q, m)
<1>0. Len(q) \in Nat BY PathIs
<1>1. /\ Upto(q, n) \in Path /\ Len(Upto(q, n)) = n
      /\ \A i \in 1 .. n : Upto(q, n)[i] = q[i]
  BY UptoIs
<1>2. m \in 0 .. Len(q) /\ m \in 0 .. Len(Upto(q, n)) BY <1>0, <1>1
<1>3. /\ Upto(q, m) \in Path /\ Len(Upto(q, m)) = m
      /\ \A i \in 1 .. m : Upto(q, m)[i] = q[i]
  BY <1>2, UptoIs
<1>4. /\ Upto(Upto(q, n), m) \in Path /\ Len(Upto(Upto(q, n), m)) = m
      /\ \A i \in 1 .. m : Upto(Upto(q, n), m)[i] = Upto(q, n)[i]
  BY <1>1, <1>2, UptoIs
<1>5. \A i \in 1 .. m : i \in 1 .. n BY <1>0
<1>6. \A i \in 1 .. m : Upto(Upto(q, n), m)[i] = Upto(q, m)[i] BY <1>1, <1>3, <1>4, <1>5
<1> QED BY <1>3, <1>4, <1>6, Same

LEMMA AppendIs ==
  ASSUME NEW q \in Path, NEW c \in {1, 2}
  PROVE  LET a == Append(q, c) IN
         /\ a \in Path /\ a # <<>> /\ a # q
         /\ Len(a) = Len(q) + 1 /\ a[Len(q) + 1] = c
         /\ \A i \in 1 .. Len(q) : a[i] = q[i]
         /\ Front(a) = q /\ Last(a) = c /\ Upto(a, Len(q)) = q
<1> DEFINE a == Append(q, c)
<1>0. Len(q) \in Nat BY PathIs
<1>1. /\ a \in Path /\ a # <<>> /\ Len(a) = Len(q) + 1 /\ a[Len(q) + 1] = c
      /\ \A i \in 1 .. Len(q) : a[i] = q[i]
  BY AppendProperties DEF Path
<1> HIDE DEF a
<1>2. Len(q) \in 0 .. Len(a) BY <1>0, <1>1
<1>3. /\ Upto(a, Len(q)) \in Path /\ Len(Upto(a, Len(q))) = Len(q)
      /\ \A i \in 1 .. Len(q) : Upto(a, Len(q))[i] = a[i]
  BY <1>1, <1>2, UptoIs
<1>4. Upto(a, Len(q)) = q BY <1>1, <1>3, Same
<1>5. Len(a) - 1 = Len(q) BY <1>0, <1>1
<1>6. Front(a) = q BY <1>4, <1>5 DEF Front, Upto
<1>7. Last(a) = c BY <1>1 DEF Last
<1>8. a # q BY <1>0, <1>1
<1> QED BY <1>1, <1>4, <1>6, <1>7, <1>8 DEF a

\* Every path but that of the root is one step longer than another.
LEMMA FrontIs ==
  ASSUME NEW q \in Path, q # <<>>
  PROVE  /\ Front(q) \in Path /\ Last(q) \in {1, 2} /\ q = Append(Front(q), Last(q))
         /\ Len(Front(q)) = Len(q) - 1 /\ Front(q) = Upto(q, Len(q) - 1)
         /\ Last(q) = q[Len(q)] /\ Len(q) >= 1
<1>1. Len(q) \in Nat /\ Len(q) >= 1 BY PathIs
<1>2. Len(q) \in 1 .. Len(q) /\ Len(q) - 1 \in 0 .. Len(q) BY <1>1
<1>3. /\ Upto(q, Len(q) - 1) \in Path /\ Len(Upto(q, Len(q) - 1)) = Len(q) - 1
      /\ \A i \in 1 .. Len(q) - 1 : Upto(q, Len(q) - 1)[i] = q[i]
  BY <1>2, UptoIs
<1>4. Front(q) = Upto(q, Len(q) - 1) BY DEF Front, Upto
<1>5. Last(q) = q[Len(q)] /\ Last(q) \in {1, 2} BY <1>2, PathIs DEF Last
<1> DEFINE a == Append(Front(q), Last(q))
<1>6. /\ a \in Path /\ Len(a) = Len(Front(q)) + 1 /\ a[Len(Front(q)) + 1] = Last(q)
      /\ \A i \in 1 .. Len(Front(q)) : a[i] = Front(q)[i]
  BY <1>3, <1>4, <1>5, AppendIs
<1> HIDE DEF a
<1>7. Len(a) = Len(q) BY <1>1, <1>3, <1>4, <1>6
<1>8. ASSUME NEW i \in 1 .. Len(q) PROVE a[i] = q[i]
  <2>1. CASE i = Len(q) BY <1>1, <1>3, <1>4, <1>5, <1>6, <2>1
  <2>2. CASE i # Len(q)
    <3>1. i \in 1 .. Len(q) - 1 BY <1>1, <2>2
    <3> QED BY <1>3, <1>4, <1>6, <3>1
  <2> QED BY <2>1, <2>2
<1>9. a = q BY <1>6, <1>7, <1>8, Same
<1> QED BY <1>1, <1>3, <1>4, <1>5, <1>9 DEF a

\* The path one step further along q.
LEMMA UptoNext ==
  ASSUME NEW q \in Path, NEW n \in 0 .. Len(q) - 1
  PROVE  /\ n \in 0 .. Len(q) /\ n + 1 \in 1 .. Len(q) /\ q[n + 1] \in {1, 2}
         /\ Upto(q, n) \in Path /\ Upto(q, n + 1) = Append(Upto(q, n), q[n + 1])
<1>1. Len(q) \in Nat /\ n \in 0 .. Len(q) /\ n + 1 \in 1 .. Len(q) /\ n + 1 \in 0 .. Len(q)
      /\ n \in 0 .. n + 1 /\ (n + 1) - 1 = n
  BY PathIs
<1>2. q[n + 1] \in {1, 2} BY <1>1, PathIs
<1> DEFINE u == Upto(q, n + 1)
<1>3. u \in Path /\ Len(u) = n + 1 /\ \A i \in 1 .. n + 1 : u[i] = q[i] BY <1>1, UptoIs
<1>4. Upto(u, n) = Upto(q, n) BY <1>1, UptoUpto
<1> HIDE DEF u
<1>5. u # <<>> BY <1>1, <1>3, PathIs
<1>6. u = Append(Front(u), Last(u)) /\ Front(u) = Upto(u, n) /\ Last(u) = u[n + 1]
  BY <1>1, <1>3, <1>5, FrontIs
<1>7. u[n + 1] = q[n + 1] BY <1>1, <1>3
<1>8. Upto(q, n) \in Path BY <1>1, UptoIs
<1> QED BY <1>1, <1>2, <1>4, <1>6, <1>7, <1>8 DEF u

\* Two paths: one goes on where the other ends, or they part somewhere.
Parts(q, r, n) ==
  /\ n \in 0 .. Len(q) - 1 /\ n \in 0 .. Len(r) - 1
  /\ Upto(q, n) = Upto(r, n) /\ q[n + 1] # r[n + 1]

GoesOn(q, r) == Len(q) < Len(r) /\ Upto(r, Len(q)) = q

LEMMA TwoPaths ==
  ASSUME NEW q \in Path, NEW r \in Path, q # r
  PROVE  GoesOn(q, r) \/ GoesOn(r, q) \/ \E n \in Nat : Parts(q, r, n)
<1>0. Len(q) \in Nat /\ Len(r) \in Nat BY PathIs
<1> DEFINE I == {i \in Nat : i \in 1 .. Len(q) /\ i \in 1 .. Len(r) /\ q[i] # r[i]}
<1>1. CASE I # {}
  <2>1. PICK i \in I : \A j \in I : i <= j BY <1>1, LeastOf
  <2>2. i \in Nat /\ i \in 1 .. Len(q) /\ i \in 1 .. Len(r) /\ q[i] # r[i] BY <2>1
  <2> DEFINE n == i - 1
  <2>3. n \in Nat /\ n \in 0 .. Len(q) - 1 /\ n \in 0 .. Len(r) - 1 /\ n + 1 = i
        /\ n \in 0 .. Len(q) /\ n \in 0 .. Len(r)
    BY <1>0, <2>2
  <2>4. \A j \in 1 .. n : q[j] = r[j]
    <3> SUFFICES ASSUME NEW j \in 1 .. n, q[j] # r[j] PROVE FALSE
      OBVIOUS
    <3>1. j \in Nat /\ j \in 1 .. Len(q) /\ j \in 1 .. Len(r) /\ j < i BY <1>0, <2>2, <2>3
    <3>2. j \in I BY <3>1
    <3> HIDE DEF I
    <3> QED BY <2>1, <3>1, <3>2, <2>2
  <2> HIDE DEF n, I
  <2>5. /\ Upto(q, n) \in Path /\ Len(Upto(q, n)) = n /\ \A j \in 1 .. n : Upto(q, n)[j] = q[j]
        /\ Upto(r, n) \in Path /\ Len(Upto(r, n)) = n /\ \A j \in 1 .. n : Upto(r, n)[j] = r[j]
    BY <2>3, UptoIs
  <2>6. Upto(q, n) = Upto(r, n) BY <2>4, <2>5, Same
  <2> QED BY <2>2, <2>3, <2>6 DEF Parts
<1>2. CASE I = {}
  <2>1. \A i \in 1 .. Len(q) : i \in 1 .. Len(r) => q[i] = r[i] BY <1>0, <1>2
  <2> HIDE DEF I
  <2>2. CASE Len(q) = Len(r) BY <2>1, <2>2, Same
  <2>3. CASE Len(q) < Len(r)
    <3>1. Len(q) \in 0 .. Len(r) BY <1>0, <2>3
    <3>2. /\ Upto(r, Len(q)) \in Path /\ Len(Upto(r, Len(q))) = Len(q)
          /\ \A j \in 1 .. Len(q) : Upto(r, Len(q))[j] = r[j]
      BY <3>1, UptoIs
    <3>3. \A j \in 1 .. Len(q) : j \in 1 .. Len(r) BY <1>0, <2>3
    <3>4. Upto(r, Len(q)) = q BY <2>1, <3>2, <3>3, Same
    <3> QED BY <2>3, <3>4 DEF GoesOn
  <2>4. CASE Len(r) < Len(q)
    <3>1. Len(r) \in 0 .. Len(q) BY <1>0, <2>4
    <3>2. /\ Upto(q, Len(r)) \in Path /\ Len(Upto(q, Len(r))) = Len(r)
          /\ \A j \in 1 .. Len(r) : Upto(q, Len(r))[j] = q[j]
      BY <3>1, UptoIs
    <3>3. \A j \in 1 .. Len(r) : j \in 1 .. Len(q) BY <1>0, <2>4
    <3>4. \A j \in 1 .. Len(r) : Upto(q, Len(r))[j] = r[j] BY <2>1, <3>2, <3>3
    <3>5. Upto(q, Len(r)) = r BY <3>2, <3>4, Same
    <3> QED BY <2>4, <3>5 DEF GoesOn
  <2> QED BY <1>0, <2>2, <2>3, <2>4
<1> QED BY <1>1, <1>2

-----------------------------------------------------------------------------
(* Trees.                                                                  *)

Nodes(t) == DOMAIN t.leaf \cup DOMAIN t.split

Cuts == [dir : {"vertical", "horizontal"}, ratio : 0 .. 100]

Trees == [leaf : UNION {[D -> Nat] : D \in SUBSET Path},
          split : UNION {[D -> Cuts] : D \in SUBSET Path}]

\* What a LayoutNode is by its type: every node but the root is a part of a
\* split, which has two, and is a leaf or a split; and a tree is finite.
Tree(t) ==
  /\ t \in Trees
  /\ DOMAIN t.leaf \cap DOMAIN t.split = {}
  /\ <<>> \in Nodes(t)
  /\ \A q \in DOMAIN t.split : \A c \in {1, 2} : Append(q, c) \in Nodes(t)
  /\ \A q \in Nodes(t) : q # <<>> => Front(q) \in DOMAIN t.split
  /\ \E d \in Nat : \A q \in Nodes(t) : Len(q) <= d

LEMMA TreeIs ==
  ASSUME NEW t \in Trees
  PROVE  /\ Nodes(t) \subseteq Path
         /\ DOMAIN t.leaf \subseteq Path /\ t.leaf \in [DOMAIN t.leaf -> Nat]
         /\ DOMAIN t.split \subseteq Path /\ t.split \in [DOMAIN t.split -> Cuts]
         /\ \A q \in DOMAIN t.leaf : t.leaf[q] \in Nat
         /\ \A q \in DOMAIN t.split : t.split[q] \in Cuts
<1>1. PICK D \in SUBSET Path : t.leaf \in [D -> Nat] BY DEF Trees
<1>2. PICK E \in SUBSET Path : t.split \in [E -> Cuts] BY DEF Trees
<1>3. DOMAIN t.leaf = D /\ DOMAIN t.split = E BY <1>1, <1>2
<1> QED BY <1>1, <1>2, <1>3 DEF Nodes

LEMMA NodePrefix ==
  ASSUME NEW t, Tree(t), NEW q \in Nodes(t), NEW n \in 0 .. Len(q) - 1
  PROVE  Upto(q, n) \in DOMAIN t.split
<1>0. q \in Path /\ Len(q) \in Nat BY TreeIs, PathIs DEF Tree
<1> DEFINE S == {k \in Nat : k <= Len(q) - 1 => Upto(q, Len(q) - 1 - k) \in DOMAIN t.split}
<1>1. 0 \in S
  <2> SUFFICES ASSUME 0 <= Len(q) - 1 PROVE Upto(q, Len(q) - 1 - 0) \in DOMAIN t.split
    OBVIOUS
  <2>1. q # <<>> BY <1>0, PathIs
  <2>2. Front(q) = Upto(q, Len(q) - 1) BY <1>0, <2>1, FrontIs
  <2>3. Len(q) - 1 - 0 = Len(q) - 1 BY <1>0
  <2> QED BY <2>1, <2>2, <2>3 DEF Tree
<1>2. ASSUME NEW k \in Nat, k \in S PROVE k + 1 \in S
  <2> SUFFICES ASSUME k + 1 <= Len(q) - 1
               PROVE  Upto(q, Len(q) - 1 - (k + 1)) \in DOMAIN t.split
    OBVIOUS
  <2> DEFINE m == Len(q) - 1 - (k + 1)
  <2>1. m \in 0 .. Len(q) - 1 /\ m + 1 = Len(q) - 1 - k /\ k <= Len(q) - 1 BY <1>0
  <2>2. Upto(q, m + 1) \in DOMAIN t.split BY <1>2, <2>1
  <2> HIDE DEF m
  <2>3. /\ Upto(q, m) \in Path /\ q[m + 1] \in {1, 2}
        /\ Upto(q, m + 1) = Append(Upto(q, m), q[m + 1])
    BY <1>0, <2>1, UptoNext
  <2>4. Upto(q, m + 1) # <<>> /\ Front(Upto(q, m + 1)) = Upto(q, m)
    <3> DEFINE u == Upto(q, m)
               c == q[m + 1]
    <3>1. u \in Path /\ c \in {1, 2} BY <2>3
    <3> HIDE DEF u, c
    <3>2. Append(u, c) # <<>> /\ Front(Append(u, c)) = u BY <3>1, AppendIs
    <3> QED BY <2>3, <3>2 DEF u, c
  <2>5. Upto(q, m) \in DOMAIN t.split BY <2>2, <2>4 DEF Tree, Nodes
  <2> QED BY <2>5 DEF m
<1>3. Nat \subseteq S
  <2> HIDE DEF S
  <2> QED BY <1>1, <1>2, SetInduction
<1>4. Len(q) - 1 - n \in Nat /\ Len(q) - 1 - n <= Len(q) - 1
      /\ Len(q) - 1 - (Len(q) - 1 - n) = n
  BY <1>0
<1> QED BY <1>3, <1>4

\* Going down from a node, choosing a part at every split, ends in a leaf.
LEMMA Descent ==
  ASSUME NEW t, Tree(t), NEW W \in SUBSET Nodes(t), W # {},
         \A q \in W \cap DOMAIN t.split : \E c \in {1, 2} : Append(q, c) \in W
  PROVE  \E q \in W : q \in DOMAIN t.leaf
<1>0. \A q \in W : q \in Path /\ Len(q) \in Nat BY TreeIs, PathIs DEF Tree
<1>1. PICK d \in Nat : \A q \in Nodes(t) : Len(q) <= d BY DEF Tree
<1> DEFINE I == {d - Len(q) : q \in W}
<1>2. I \subseteq Nat /\ I # {} BY <1>0, <1>1
<1>3. PICK x \in I : \A j \in I : x <= j
  <2> HIDE DEF I
  <2> QED BY <1>2, LeastOf
<1>4. PICK q \in W : x = d - Len(q) BY <1>3
<1> SUFFICES ASSUME q \notin DOMAIN t.leaf PROVE FALSE
  OBVIOUS
<1>5. q \in DOMAIN t.split BY DEF Nodes
<1>6. PICK c \in {1, 2} : Append(q, c) \in W BY <1>5
<1>7. Len(Append(q, c)) = Len(q) + 1 BY <1>0, AppendIs
<1>8. d - (Len(q) + 1) \in I BY <1>6, <1>7
<1>9. x <= d - (Len(q) + 1) BY <1>3, <1>8
<1> HIDE DEF I
<1> QED BY <1>0, <1>1, <1>4, <1>9

-----------------------------------------------------------------------------
(* The recursion in Box and what it is at the root and at a part.          *)

Along(t, s, q, f, i) ==
  IF i = 0 THEN Whole(s) ELSE Part(f[i - 1], t.split[SubSeq(q, 1, i - 1)], q[i])

Boxes(t, s, q) == CHOOSE f : f = [i \in 0 .. Len(q) |-> Along(t, s, q, f, i)]

LEMMA BoxesExist ==
  ASSUME NEW t, NEW s, NEW q
  PROVE  \A n \in Nat : \E f : f = [i \in 0 .. n |-> Along(t, s, q, f, i)]
<1> DEFINE Val(f, i) == Along(t, s, q, f, i)
           S == {n \in Nat : \E f : f = [i \in 0 .. n |-> Val(f, i)]}
<1>1. 0 \in S
  <2> DEFINE f == [i \in 0 .. 0 |-> Whole(s)]
  <2>1. \A i \in 0 .. 0 : i = 0 OBVIOUS
  <2>2. f = [i \in 0 .. 0 |-> Val(f, i)] BY <2>1 DEF Along
  <2>3. \E h : h = [i \in 0 .. 0 |-> Val(h, i)] BY <2>2
  <2> HIDE DEF Val
  <2> QED BY <2>3
<1>2. ASSUME NEW n \in Nat, n \in S PROVE n + 1 \in S
  <2>1. PICK f : f = [i \in 0 .. n |-> Val(f, i)] BY <1>2
  <2>0. \A i \in 0 .. n : f[i] = Val(f, i) BY <2>1
  <2> DEFINE g == [i \in 0 .. n + 1 |-> IF i <= n THEN f[i] ELSE Val(f, i)]
  <2>2. ASSUME NEW i \in 0 .. n + 1 PROVE g[i] = Val(g, i)
    <3>1. CASE i <= n
      <4>1. i \in 0 .. n BY <3>1
      <4>2. i = 0 \/ g[i - 1] = f[i - 1] BY <3>1
      <4>3. f[i] = Val(f, i) BY <2>0, <4>1
      <4> QED BY <3>1, <4>2, <4>3 DEF Along
    <3>2. CASE ~ (i <= n)
      <4>1. i = 0 \/ g[i - 1] = f[i - 1] BY <3>2
      <4> QED BY <3>2, <4>1 DEF Along
    <3> QED BY <3>1, <3>2
  <2>3. g = [i \in 0 .. n + 1 |-> g[i]] OBVIOUS
  <2> HIDE DEF g
  <2>4. g = [i \in 0 .. n + 1 |-> Val(g, i)] BY <2>2, <2>3
  <2>5. \E h : h = [i \in 0 .. n + 1 |-> Val(h, i)] BY <2>4
  <2>6. n + 1 \in Nat OBVIOUS
  <2> HIDE DEF Val
  <2> QED BY <2>5, <2>6
<1>3. Nat \subseteq S
  <2> HIDE DEF S
  <2> QED BY <1>1, <1>2, SetInduction
<1> QED BY <1>3

LEMMA BoxesAre ==
  ASSUME NEW t, NEW s, NEW q \in Path
  PROVE  /\ Box(t, s, q) = Boxes(t, s, q)[Len(q)]
         /\ Boxes(t, s, q)[0] = Whole(s)
         /\ \A i \in 1 .. Len(q) :
              Boxes(t, s, q)[i] = Part(Boxes(t, s, q)[i - 1], t.split[Upto(q, i - 1)], q[i])
<1>1. Len(q) \in Nat BY PathIs
<1> DEFINE f == Boxes(t, s, q)
<1>2. f = [i \in 0 .. Len(q) |-> Along(t, s, q, f, i)]
  BY <1>1, BoxesExist DEF Boxes
<1>3. Box(t, s, q) = f[Len(q)] BY DEF Box, Boxes, Along
<1> HIDE DEF f
<1>4. \A i \in 0 .. Len(q) :
        f[i] = IF i = 0 THEN Whole(s) ELSE Part(f[i - 1], t.split[SubSeq(q, 1, i - 1)], q[i])
  BY <1>2 DEF Along
<1>5. f[0] = Whole(s) BY <1>1, <1>4
<1>6. ASSUME NEW i \in 1 .. Len(q) PROVE f[i] = Part(f[i - 1], t.split[Upto(q, i - 1)], q[i])
  <2>1. i \in 0 .. Len(q) /\ i # 0 BY <1>1
  <2> QED BY <1>4, <2>1 DEF Upto
<1> QED BY <1>3, <1>5, <1>6 DEF f

Agree(t, q, u, r, n) ==
  /\ n \in Nat /\ n <= Len(q) /\ n <= Len(r)
  /\ \A i \in 1 .. n : q[i] = r[i] /\ t.split[Upto(q, i - 1)] = u.split[Upto(r, i - 1)]

\* Trees that agree along two paths that agree have the same boxes there.
LEMMA BoxesSame ==
  ASSUME NEW t, NEW u, NEW s, NEW q \in Path, NEW r \in Path, NEW n, Agree(t, q, u, r, n)
  PROVE  Boxes(t, s, q)[n] = Boxes(u, s, r)[n]
<1>0. Len(q) \in Nat /\ Len(r) \in Nat BY PathIs
<1>a. n \in Nat /\ n <= Len(q) /\ n <= Len(r) BY DEF Agree
<1>b. \A i \in 1 .. n : q[i] = r[i] /\ t.split[Upto(q, i - 1)] = u.split[Upto(r, i - 1)]
  BY DEF Agree
<1> DEFINE f == Boxes(t, s, q)
           g == Boxes(u, s, r)
           S == {k \in Nat : k <= n => f[k] = g[k]}
<1>1. /\ f[0] = Whole(s) /\ g[0] = Whole(s)
      /\ \A i \in 1 .. Len(q) : f[i] = Part(f[i - 1], t.split[Upto(q, i - 1)], q[i])
      /\ \A i \in 1 .. Len(r) : g[i] = Part(g[i - 1], u.split[Upto(r, i - 1)], r[i])
  BY BoxesAre
<1> HIDE DEF f, g
<1>2. 0 \in S BY <1>1
<1>3. ASSUME NEW k \in Nat, k \in S PROVE k + 1 \in S
  <2> SUFFICES ASSUME k + 1 <= n PROVE f[k + 1] = g[k + 1]
    OBVIOUS
  <2>1. k + 1 \in 1 .. n /\ k + 1 \in 1 .. Len(q) /\ k + 1 \in 1 .. Len(r) /\ (k + 1) - 1 = k
    BY <1>0, <1>a
  <2>2. f[k] = g[k] BY <1>3, <1>a
  <2>3. q[k + 1] = r[k + 1] /\ t.split[Upto(q, k)] = u.split[Upto(r, k)] BY <2>1, <1>b
  <2>4. f[k + 1] = Part(f[k], t.split[Upto(q, k)], q[k + 1]) BY <1>1, <2>1
  <2>5. g[k + 1] = Part(g[k], u.split[Upto(r, k)], r[k + 1]) BY <1>1, <2>1
  <2> QED BY <2>2, <2>3, <2>4, <2>5
<1>4. Nat \subseteq S
  <2> HIDE DEF S
  <2> QED BY <1>2, <1>3, SetInduction
<1> QED BY <1>4, <1>a DEF f, g

LEMMA BoxRoot ==
  ASSUME NEW t, NEW s
  PROVE  Box(t, s, <<>>) = Whole(s)
<1>1. <<>> \in Path /\ Len(<<>>) = 0 BY EmptySeq DEF Path
<1> QED BY <1>1, BoxesAre

LEMMA BoxUpto ==
  ASSUME NEW t, NEW s, NEW q \in Path, NEW n \in 0 .. Len(q)
  PROVE  Box(t, s, Upto(q, n)) = Boxes(t, s, q)[n]
<1>0. Len(q) \in Nat BY PathIs
<1>1. /\ Upto(q, n) \in Path /\ Len(Upto(q, n)) = n
      /\ \A i \in 1 .. n : Upto(q, n)[i] = q[i]
  BY UptoIs
<1>2. \A i \in 1 .. n : Upto(Upto(q, n), i - 1) = Upto(q, i - 1)
  <2> TAKE i \in 1 .. n
  <2>1. i - 1 \in 0 .. n BY <1>0
  <2> QED BY <2>1, UptoUpto
<1>3. n \in Nat /\ n <= Len(q) /\ n <= Len(Upto(q, n)) BY <1>0, <1>1
<1>4. Boxes(t, s, Upto(q, n))[n] = Boxes(t, s, q)[n]
  <2> DEFINE u == Upto(q, n)
  <2>1. u \in Path /\ n \in Nat /\ n <= Len(u) /\ n <= Len(q) BY <1>1, <1>3
  <2>2. \A i \in 1 .. n : u[i] = q[i] /\ t.split[Upto(u, i - 1)] = t.split[Upto(q, i - 1)]
    BY <1>1, <1>2
  <2> HIDE DEF u
  <2>3. Agree(t, u, t, q, n) BY <2>1, <2>2 DEF Agree
  <2>4. Boxes(t, s, u)[n] = Boxes(t, s, q)[n] BY <2>1, <2>3, BoxesSame
  <2> QED BY <2>4 DEF u
<1> QED BY <1>1, <1>4, BoxesAre

LEMMA BoxPart ==
  ASSUME NEW t, NEW s, NEW q \in Path, NEW c \in {1, 2}
  PROVE  Box(t, s, Append(q, c)) = Part(Box(t, s, q), t.split[q], c)
<1> DEFINE a == Append(q, c)
<1>0. Len(q) \in Nat BY PathIs
<1>1. a \in Path /\ Len(a) = Len(q) + 1 /\ a[Len(q) + 1] = c /\ Upto(a, Len(q)) = q
  BY AppendIs
<1> HIDE DEF a
<1>2. Len(q) + 1 \in 1 .. Len(a) /\ Len(q) \in 0 .. Len(a) /\ (Len(q) + 1) - 1 = Len(q)
  BY <1>0, <1>1
<1>3. Box(t, s, a) = Boxes(t, s, a)[Len(a)] BY <1>1, BoxesAre
<1>4. Boxes(t, s, a)[Len(q) + 1] = Part(Boxes(t, s, a)[Len(q)], t.split[Upto(a, Len(q))], a[Len(q) + 1])
  BY <1>1, <1>2, BoxesAre
<1>5. Boxes(t, s, a)[Len(q)] = Box(t, s, q) BY <1>1, <1>2, BoxUpto
<1> QED BY <1>1, <1>3, <1>4, <1>5 DEF a

\* Where trees agree along a path they agree on its box and on whether it is shown.
LEMMA SameAlong ==
  ASSUME NEW t, NEW u, NEW s, NEW q \in Path,
         \A n \in 0 .. Len(q) - 1 : t.split[Upto(q, n)] = u.split[Upto(q, n)]
  PROVE  /\ \A n \in 0 .. Len(q) : Box(t, s, Upto(q, n)) = Box(u, s, Upto(q, n))
         /\ Box(t, s, q) = Box(u, s, q) /\ (Shown(t, s, q) <=> Shown(u, s, q))
<1>0. Len(q) \in Nat /\ Len(q) \in 0 .. Len(q) BY PathIs
<1>1. ASSUME NEW n \in 0 .. Len(q) PROVE Box(t, s, Upto(q, n)) = Box(u, s, Upto(q, n))
  <2>1. n \in Nat /\ n <= Len(q) BY <1>0
  <2>2. \A i \in 1 .. n : t.split[Upto(q, i - 1)] = u.split[Upto(q, i - 1)]
    <3> TAKE i \in 1 .. n
    <3>1. i - 1 \in 0 .. Len(q) - 1 BY <1>0
    <3> QED BY <3>1
  <2>3. Agree(t, q, u, q, n) BY <2>1, <2>2 DEF Agree
  <2>4. Boxes(t, s, q)[n] = Boxes(u, s, q)[n] BY <2>3, BoxesSame
  <2> QED BY <2>4, BoxUpto
<1>2. Box(t, s, q) = Box(u, s, q) BY <1>0, <1>1, UptoEnds
<1>3. \A i \in 1 .. Len(q) : Cut(t, s, Upto(q, i - 1)) <=> Cut(u, s, Upto(q, i - 1))
  <2> TAKE i \in 1 .. Len(q)
  <2>1. i - 1 \in 0 .. Len(q) - 1 /\ i - 1 \in 0 .. Len(q) BY <1>0
  <2>2. Box(t, s, Upto(q, i - 1)) = Box(u, s, Upto(q, i - 1)) BY <1>1, <2>1
  <2>3. t.split[Upto(q, i - 1)] = u.split[Upto(q, i - 1)] BY <2>1
  <2> QED BY <2>2, <2>3 DEF Cut
<1>4. Shown(t, s, q) <=> Shown(u, s, q) BY <1>3 DEF Shown, Upto
<1> QED BY <1>1, <1>2, <1>4

LEMMA ShownRoot ==
  ASSUME NEW t, NEW s
  PROVE  Shown(t, s, <<>>)
<1>1. Len(<<>>) = 0 BY EmptySeq
<1>2. 1 .. 0 = {} OBVIOUS
<1> QED BY <1>1, <1>2 DEF Shown

LEMMA ShownPart ==
  ASSUME NEW t, NEW s, NEW q \in Path, NEW c \in {1, 2}
  PROVE  Shown(t, s, Append(q, c)) <=> Shown(t, s, q) /\ (c = 2 => Cut(t, s, q))
<1> DEFINE a == Append(q, c)
<1>0. Len(q) \in Nat BY PathIs
<1>1. /\ a \in Path /\ Len(a) = Len(q) + 1 /\ a[Len(q) + 1] = c /\ Upto(a, Len(q)) = q
      /\ \A i \in 1 .. Len(q) : a[i] = q[i]
  BY AppendIs
<1> HIDE DEF a
<1>2. Len(q) \in 0 .. Len(a) /\ Len(a) \in 1 .. Len(a) /\ Len(a) - 1 = Len(q) BY <1>0, <1>1
<1>3. ASSUME NEW i \in 1 .. Len(q) PROVE i \in 1 .. Len(a) /\ Upto(a, i - 1) = Upto(q, i - 1)
  <2>1. i - 1 \in 0 .. Len(q) /\ i \in 1 .. Len(a) BY <1>0, <1>1
  <2> QED BY <1>1, <1>2, <2>1, UptoUpto
<1>4. ASSUME Shown(t, s, a) PROVE Shown(t, s, q) /\ (c = 2 => Cut(t, s, q))
  <2>1. \A i \in 1 .. Len(a) : a[i] = 2 => Cut(t, s, Upto(a, i - 1)) BY <1>4 DEF Shown, Upto
  <2>2. \A i \in 1 .. Len(q) : q[i] = 2 => Cut(t, s, Upto(q, i - 1)) BY <1>1, <1>3, <2>1
  <2>3. c = 2 => Cut(t, s, q) BY <1>1, <1>2, <2>1
  <2> QED BY <2>2, <2>3 DEF Shown, Upto
<1>5. ASSUME Shown(t, s, q), c = 2 => Cut(t, s, q) PROVE Shown(t, s, a)
  <2>1. \A i \in 1 .. Len(q) : q[i] = 2 => Cut(t, s, Upto(q, i - 1)) BY <1>5 DEF Shown, Upto
  <2>2. ASSUME NEW i \in 1 .. Len(a), a[i] = 2 PROVE Cut(t, s, Upto(a, i - 1))
    <3>1. CASE i \in 1 .. Len(q) BY <1>1, <1>3, <2>1, <2>2, <3>1
    <3>2. CASE i \notin 1 .. Len(q)
      <4>1. i = Len(q) + 1 /\ i - 1 = Len(q) BY <1>0, <1>1, <3>2
      <4> QED BY <1>1, <1>5, <2>2, <4>1
    <3> QED BY <3>1, <3>2
  <2> QED BY <2>2 DEF Shown, Upto
<1> QED BY <1>4, <1>5 DEF a

-----------------------------------------------------------------------------
(* The operations make trees of trees.                                     *)

\* The leaves are the panes, each once.
Leaves(t, panes) ==
  /\ {t.leaf[q] : q \in DOMAIN t.leaf} = panes
  /\ \A q, r \in DOMAIN t.leaf : t.leaf[q] = t.leaf[r] => q = r

LEMMA MakeTree ==
  ASSUME NEW D \in SUBSET Path, NEW f \in [D -> Nat], NEW E \in SUBSET Path, NEW g \in [E -> Cuts]
  PROVE  [leaf |-> f, split |-> g] \in Trees
BY DEF Trees

LEMMA PathOfIs ==
  ASSUME NEW t, NEW panes, Leaves(t, panes), NEW p \in panes
  PROVE  /\ PathOf(t, p) \in DOMAIN t.leaf /\ t.leaf[PathOf(t, p)] = p
         /\ \A q \in DOMAIN t.leaf : t.leaf[q] = p => q = PathOf(t, p)
<1>1. \E q \in DOMAIN t.leaf : t.leaf[q] = p BY DEF Leaves
<1>2. PathOf(t, p) \in DOMAIN t.leaf /\ t.leaf[PathOf(t, p)] = p BY <1>1 DEF PathOf
<1> QED BY <1>2 DEF Leaves

LEMMA RootPath == <<>> \in Path /\ Len(<<>>) = 0
BY EmptySeq DEF Path

LEMMA SingleTree ==
  ASSUME NEW p \in Nat
  PROVE  Tree(Single(p)) /\ Leaves(Single(p), {p})
<1> DEFINE f == [q \in {<<>>} |-> p]
           g == [q \in {} |-> p]
           t == Single(p)
<1>1. t.leaf = f /\ t.split = g /\ t = [leaf |-> f, split |-> g] BY DEF Single
<1>2. DOMAIN f = {<<>>} /\ DOMAIN g = {} /\ f[<<>>] = p OBVIOUS
<1>3. f \in [{<<>>} -> Nat] /\ g \in [{} -> Cuts] OBVIOUS
<1>4. {<<>>} \in SUBSET Path /\ {} \in SUBSET Path BY RootPath
<1> HIDE DEF f, g, t
<1>5. t \in Trees BY <1>1, <1>3, <1>4, MakeTree
<1>6. Nodes(t) = {<<>>} BY <1>1, <1>2 DEF Nodes
<1>7. \E d \in Nat : \A q \in Nodes(t) : Len(q) <= d
  <2>1. \A q \in Nodes(t) : Len(q) <= 0 BY <1>6, RootPath
  <2> QED BY <2>1
<1>8. Tree(t) BY <1>1, <1>2, <1>5, <1>6, <1>7 DEF Tree
<1>9. Leaves(t, {p}) BY <1>1, <1>2 DEF Leaves
<1> QED BY <1>8, <1>9 DEF t

\* There is nothing below a leaf.
LEMMA LeafEnds ==
  ASSUME NEW t, Tree(t), NEW at \in DOMAIN t.leaf, NEW q \in Nodes(t),
         NEW n \in 0 .. Len(q) - 1
  PROVE  Upto(q, n) # at
<1>1. Upto(q, n) \in DOMAIN t.split BY NodePrefix
<1> QED BY <1>1 DEF Tree

LEMMA PartsAreNew ==
  ASSUME NEW t, Tree(t), NEW at \in DOMAIN t.leaf
  PROVE  /\ at \in Path /\ at \notin DOMAIN t.split
         /\ Append(at, 1) \in Path /\ Append(at, 2) \in Path /\ Append(at, 1) # Append(at, 2)
         /\ Append(at, 1) # at /\ Append(at, 2) # at
         /\ Append(at, 1) \notin Nodes(t) /\ Append(at, 2) \notin Nodes(t)
<1>1. at \in Path /\ at \notin DOMAIN t.split BY TreeIs DEF Tree
<1>2. ASSUME NEW c \in {1, 2}
      PROVE  Append(at, c) \in Path /\ Append(at, c) # at /\ Append(at, c) \notin Nodes(t)
             /\ Last(Append(at, c)) = c
  <2> DEFINE a == Append(at, c)
  <2>1. a \in Path /\ a # at /\ Last(a) = c /\ Len(a) = Len(at) + 1 /\ Upto(a, Len(at)) = at
    BY <1>1, AppendIs
  <2> HIDE DEF a
  <2>2. Len(at) \in 0 .. Len(a) - 1 BY <1>1, <2>1, PathIs
  <2>3. a \notin Nodes(t) BY <2>1, <2>2, LeafEnds
  <2> QED BY <2>1, <2>3 DEF a
<1> QED BY <1>1, <1>2

LEMMA SplitIs ==
  ASSUME NEW t, Tree(t), NEW panes, Leaves(t, panes), NEW p \in panes,
         NEW new \in Nat, NEW dir \in {"vertical", "horizontal"}
  PROVE  LET u == SplitLeaf(t, p, new, dir)
             at == PathOf(t, p)
             first == Append(at, 1)
             second == Append(at, 2)
         IN /\ u \in Trees
            /\ DOMAIN u.leaf = (DOMAIN t.leaf \ {at}) \cup {first, second}
            /\ DOMAIN u.split = DOMAIN t.split \cup {at}
            /\ u.leaf[first] = p /\ u.leaf[second] = new
            /\ \A q \in DOMAIN t.leaf \ {at} : u.leaf[q] = t.leaf[q]
            /\ u.split[at] = [dir |-> dir, ratio |-> 50]
            /\ \A q \in DOMAIN t.split : u.split[q] = t.split[q]
<1> DEFINE at == PathOf(t, p)
           first == Append(at, 1)
           second == Append(at, 2)
           D == (DOMAIN t.leaf \ {at}) \cup {first, second}
           E == DOMAIN t.split \cup {at}
           cut == [dir |-> dir, ratio |-> 50]
           f == [q \in D |-> IF q = first THEN p ELSE IF q = second THEN new ELSE t.leaf[q]]
           g == [q \in E |-> IF q = at THEN cut ELSE t.split[q]]
           u == SplitLeaf(t, p, new, dir)
<1>1. u = [leaf |-> f, split |-> g] BY DEF SplitLeaf
<1>2. u.leaf = f /\ u.split = g BY <1>1
<1>3. at \in DOMAIN t.leaf /\ t.leaf[at] = p BY PathOfIs
<1>4. /\ at \in Path /\ at \notin DOMAIN t.split /\ first \in Path /\ second \in Path
      /\ first # second /\ first # at /\ second # at
      /\ first \notin Nodes(t) /\ second \notin Nodes(t)
  BY <1>3, PartsAreNew
<1>5. /\ DOMAIN t.leaf \subseteq Path /\ \A q \in DOMAIN t.leaf : t.leaf[q] \in Nat
      /\ DOMAIN t.split \subseteq Path /\ \A q \in DOMAIN t.split : t.split[q] \in Cuts
  BY TreeIs DEF Tree
<1>6. cut \in Cuts BY DEF Cuts
<1>7. p \in Nat BY <1>3, <1>5
<1>8. first \notin DOMAIN t.leaf /\ second \notin DOMAIN t.leaf BY <1>4 DEF Nodes
<1> HIDE DEF at, first, second, cut, u
<1>9. f \in [D -> Nat] /\ D \in SUBSET Path BY <1>4, <1>5, <1>7
<1>10. g \in [E -> Cuts] /\ E \in SUBSET Path BY <1>4, <1>5, <1>6
<1>11. /\ DOMAIN f = D /\ f[first] = p /\ f[second] = new
       /\ \A q \in DOMAIN t.leaf \ {at} : f[q] = t.leaf[q]
  BY <1>4, <1>8
<1>12. DOMAIN g = E /\ g[at] = cut /\ \A q \in DOMAIN t.split : g[q] = t.split[q] BY <1>4
<1> HIDE DEF f, g
<1>13. u \in Trees BY <1>1, <1>9, <1>10, MakeTree
<1> QED BY <1>2, <1>11, <1>12, <1>13 DEF u, cut, at, first, second

LEMMA SplitTree ==
  ASSUME NEW t, Tree(t), NEW panes, Leaves(t, panes), NEW p \in panes,
         NEW new \in Nat \ panes, NEW dir \in {"vertical", "horizontal"}
  PROVE  /\ Tree(SplitLeaf(t, p, new, dir))
         /\ Leaves(SplitLeaf(t, p, new, dir), panes \cup {new})
<1> DEFINE at == PathOf(t, p)
           first == Append(at, 1)
           second == Append(at, 2)
           u == SplitLeaf(t, p, new, dir)
<1>1. /\ u \in Trees
      /\ DOMAIN u.leaf = (DOMAIN t.leaf \ {at}) \cup {first, second}
      /\ DOMAIN u.split = DOMAIN t.split \cup {at}
      /\ u.leaf[first] = p /\ u.leaf[second] = new
      /\ \A q \in DOMAIN t.leaf \ {at} : u.leaf[q] = t.leaf[q]
  BY SplitIs
<1>2. /\ at \in DOMAIN t.leaf /\ t.leaf[at] = p
      /\ \A q \in DOMAIN t.leaf : t.leaf[q] = p => q = at
  BY PathOfIs
<1>3. /\ at \in Path /\ at \notin DOMAIN t.split /\ first \in Path /\ second \in Path
      /\ first # second /\ first # at /\ second # at
      /\ first \notin Nodes(t) /\ second \notin Nodes(t)
  BY <1>2, PartsAreNew
<1>4. /\ Front(first) = at /\ Front(second) = at
      /\ Len(first) = Len(at) + 1 /\ Len(second) = Len(at) + 1
  BY <1>3, AppendIs
<1>5. \A c \in {1, 2} : Append(at, c) \in {first, second} OBVIOUS
<1> HIDE DEF at, first, second, u
<1>6. Nodes(u) = Nodes(t) \cup {first, second} BY <1>1, <1>2 DEF Nodes
<1>7. DOMAIN u.leaf \cap DOMAIN u.split = {} BY <1>1, <1>3 DEF Tree, Nodes
<1>8. ASSUME NEW q \in DOMAIN u.split, NEW c \in {1, 2} PROVE Append(q, c) \in Nodes(u)
  <2>1. CASE q = at BY <1>5, <1>6, <2>1
  <2>2. CASE q # at
    <3>1. q \in DOMAIN t.split BY <1>1, <2>2
    <3>2. Append(q, c) \in Nodes(t) BY <3>1 DEF Tree
    <3> QED BY <1>6, <3>2
  <2> QED BY <2>1, <2>2
<1>9. ASSUME NEW q \in Nodes(u), q # <<>> PROVE Front(q) \in DOMAIN u.split
  <2>1. CASE q \in Nodes(t) BY <1>1, <1>9, <2>1 DEF Tree
  <2>2. CASE q \notin Nodes(t) BY <1>1, <1>4, <1>6, <2>2
  <2> QED BY <2>1, <2>2
<1>10. \E d \in Nat : \A q \in Nodes(u) : Len(q) <= d
  <2>1. PICK d \in Nat : \A q \in Nodes(t) : Len(q) <= d BY DEF Tree
  <2>2. \A q \in Nodes(t) : Len(q) \in Nat
    <3>1. Nodes(t) \subseteq Path BY TreeIs DEF Tree
    <3> QED BY <3>1, PathIs
  <2>3. at \in Nodes(t) BY <1>2 DEF Nodes
  <2>4. \A q \in Nodes(u) : Len(q) <= d + 1 BY <1>4, <1>6, <2>1, <2>2, <2>3
  <2>5. d + 1 \in Nat OBVIOUS
  <2> QED BY <2>4, <2>5
<1>11. Tree(u)
  <2>1. <<>> \in Nodes(u) BY <1>6 DEF Tree
  <2> QED BY <1>1, <1>7, <1>8, <1>9, <1>10, <2>1 DEF Tree
<1>12. {u.leaf[q] : q \in DOMAIN u.leaf} = panes \cup {new}
  <2>1. ASSUME NEW q \in DOMAIN u.leaf PROVE u.leaf[q] \in panes \cup {new}
    <3>1. CASE q \in DOMAIN t.leaf \ {at} BY <1>1, <3>1 DEF Leaves
    <3>2. CASE q \in {first, second} BY <1>1, <3>2
    <3> QED BY <1>1, <3>1, <3>2
  <2>2. ASSUME NEW r \in panes \cup {new} PROVE \E q \in DOMAIN u.leaf : u.leaf[q] = r
    <3>1. CASE r = new BY <1>1, <3>1
    <3>2. CASE r = p BY <1>1, <3>2
    <3>3. CASE r # p /\ r # new
      <4>1. PICK q \in DOMAIN t.leaf : t.leaf[q] = r BY <3>3 DEF Leaves
      <4>2. q # at BY <1>2, <3>3, <4>1
      <4> QED BY <1>1, <4>1, <4>2
    <3> QED BY <3>1, <3>2, <3>3
  <2> QED BY <2>1, <2>2
<1>13. ASSUME NEW q \in DOMAIN u.leaf, NEW r \in DOMAIN u.leaf, u.leaf[q] = u.leaf[r]
       PROVE  q = r
  <2>1. \A x \in DOMAIN t.leaf \ {at} : u.leaf[x] = t.leaf[x] /\ t.leaf[x] # p /\ t.leaf[x] # new
    BY <1>1, <1>2 DEF Leaves
  <2>2. p # new OBVIOUS
  <2>3. CASE q \in DOMAIN t.leaf \ {at} /\ r \in DOMAIN t.leaf \ {at}
    BY <1>13, <2>1, <2>3 DEF Leaves
  <2>4. CASE q \in {first, second} \/ r \in {first, second} BY <1>1, <1>13, <2>1, <2>2, <2>4
  <2> QED BY <1>1, <2>3, <2>4
<1> QED BY <1>11, <1>12, <1>13 DEF Leaves, u

\* With more than one pane no leaf is the root.
LEMMA LeafDeep ==
  ASSUME NEW t, Tree(t), NEW panes, Leaves(t, panes), NEW p \in panes, panes # {p}
  PROVE  /\ PathOf(t, p) \in Path /\ PathOf(t, p) # <<>>
         /\ Front(PathOf(t, p)) \in DOMAIN t.split
<1> DEFINE at == PathOf(t, p)
<1>1. at \in DOMAIN t.leaf /\ \A q \in DOMAIN t.leaf : t.leaf[q] = p => q = at BY PathOfIs
<1>2. at \in Path BY <1>1, PartsAreNew
<1> HIDE DEF at
<1>3. at # <<>>
  <2> SUFFICES ASSUME at = <<>> PROVE FALSE
    OBVIOUS
  <2>1. PICK r \in panes : r # p OBVIOUS
  <2>2. PICK q \in DOMAIN t.leaf : t.leaf[q] = r BY DEF Leaves
  <2>3. t.leaf[at] = p BY PathOfIs DEF at
  <2>4. q # <<>> BY <2>1, <2>2, <2>3
  <2>5. q \in Path /\ q \in Nodes(t) BY TreeIs DEF Tree, Nodes
  <2>6. 0 \in 0 .. Len(q) - 1 BY <2>4, <2>5, PathIs
  <2>7. Upto(q, 0) # at BY <1>1, <2>5, <2>6, LeafEnds
  <2> QED BY <2>5, <2>7, UptoEnds
<1>4. Front(at) \in DOMAIN t.split BY <1>1, <1>3 DEF Tree, Nodes
<1> QED BY <1>2, <1>3, <1>4 DEF at

LEMMA AdjustIs ==
  ASSUME NEW t, Tree(t), NEW panes, Leaves(t, panes), NEW p \in panes, panes # {p},
         NEW delta \in Int
  PROVE  LET u == AdjustRatioFor(t, p, delta)
         IN u \in Trees /\ u.leaf = t.leaf /\ DOMAIN u.split = DOMAIN t.split
<1> DEFINE up == Front(PathOf(t, p))
           u == AdjustRatioFor(t, p, delta)
           ratio == Clamp(t.split[up].ratio + delta, 10, 90)
           g == [t.split EXCEPT ![up].ratio = ratio]
<1>1. up \in DOMAIN t.split BY LeafDeep
<1>2. t \in Trees BY DEF Tree
<1>3. /\ t.leaf \in [DOMAIN t.leaf -> Nat] /\ DOMAIN t.leaf \in SUBSET Path
      /\ t.split \in [DOMAIN t.split -> Cuts] /\ DOMAIN t.split \in SUBSET Path
  BY <1>2, TreeIs
<1>4. t = [leaf |-> t.leaf, split |-> t.split] BY <1>2 DEF Trees
<1>5. u = [leaf |-> t.leaf, split |-> g] BY <1>4 DEF AdjustRatioFor
<1>6. t.split[up] \in Cuts BY <1>1, <1>3
<1>7. ratio \in 0 .. 100
  <2> DEFINE old == t.split[up].ratio
  <2>1. old \in 0 .. 100 BY <1>6 DEF Cuts
  <2> HIDE DEF old
  <2>2. Clamp(old + delta, 10, 90) \in 0 .. 100 BY <2>1 DEF Clamp
  <2> QED BY <2>2 DEF old
<1>8. [t.split[up] EXCEPT !.ratio = ratio] \in Cuts
  <2> HIDE DEF ratio
  <2> QED BY <1>6, <1>7 DEF Cuts
<1> HIDE DEF ratio, u, up
<1>9. g \in [DOMAIN t.split -> Cuts] BY <1>1, <1>3, <1>8
<1> HIDE DEF g
<1>10. u \in Trees BY <1>3, <1>5, <1>9, MakeTree
<1> QED BY <1>5, <1>9, <1>10 DEF u

LEMMA AdjustTree ==
  ASSUME NEW t, Tree(t), NEW panes, Leaves(t, panes), NEW p \in panes, panes # {p},
         NEW delta \in Int
  PROVE  Tree(AdjustRatioFor(t, p, delta)) /\ Leaves(AdjustRatioFor(t, p, delta), panes)
<1> DEFINE u == AdjustRatioFor(t, p, delta)
<1>1. u \in Trees /\ u.leaf = t.leaf /\ DOMAIN u.split = DOMAIN t.split BY AdjustIs
<1> HIDE DEF u
<1>2. Nodes(u) = Nodes(t) BY <1>1 DEF Nodes
<1>3. Tree(u) BY <1>1, <1>2 DEF Tree
<1>4. Leaves(u, panes) BY <1>1 DEF Leaves
<1> QED BY <1>3, <1>4 DEF u

-----------------------------------------------------------------------------
(* Closing a leaf.                                                         *)

Under(up, q) == Len(up) <= Len(q) /\ Upto(q, Len(up)) = up

LEMMA PrefixIs ==
  ASSUME NEW up \in Path, NEW q \in Path
  PROVE  IsPrefix(up, q) <=> Under(up, q)
<1>1. Upto(up, Len(up)) = up BY UptoEnds
<1> QED BY <1>1 DEF IsPrefix, Under, Upto

LEMMA RestIs ==
  ASSUME NEW q \in Path, NEW k \in 1 .. Len(q) + 1
  PROVE  /\ SubSeq(q, k, Len(q)) \in Path /\ Len(SubSeq(q, k, Len(q))) = Len(q) - k + 1
         /\ \A i \in 1 .. Len(q) - k + 1 : SubSeq(q, k, Len(q))[i] = q[k + i - 1]
<1>0. Len(q) \in Int /\ k \in Int /\ Len(q) >= 0 /\ 1 <= k /\ k <= Len(q) + 1 BY PathIs
<1>1. \A i \in k .. Len(q) : q[i] \in {1, 2}
  <2> TAKE i \in k .. Len(q)
  <2>1. i \in 1 .. Len(q) BY <1>0
  <2> QED BY <2>1, PathIs
<1>2. /\ SubSeq(q, k, Len(q)) \in Seq({1, 2})
      /\ Len(SubSeq(q, k, Len(q))) = IF k <= Len(q) THEN Len(q) - k + 1 ELSE 0
      /\ \A i \in 1 .. Len(q) - k + 1 : SubSeq(q, k, Len(q))[i] = q[k + i - 1]
  BY <1>0, <1>1, SubSeqProperties
<1>3. (IF k <= Len(q) THEN Len(q) - k + 1 ELSE 0) = Len(q) - k + 1 BY <1>0
<1> QED BY <1>2, <1>3 DEF Path

LEMMA ConcatIs ==
  ASSUME NEW q \in Path, NEW r \in Path
  PROVE  /\ q \o r \in Path /\ Len(q \o r) = Len(q) + Len(r)
         /\ \A i \in 1 .. Len(q) + Len(r) :
              (q \o r)[i] = IF i <= Len(q) THEN q[i] ELSE r[i - Len(q)]
BY ConcatProperties DEF Path

LEMMA OneStep ==
  ASSUME NEW c \in {1, 2}
  PROVE  <<c>> \in Path /\ Len(<<c>>) = 1 /\ <<c>>[1] = c
BY DEF Path

LEMMA InsertIs ==
  ASSUME NEW r \in Path, NEW k \in 1 .. Len(r) + 1, NEW c \in {1, 2}
  PROVE  LET w == InsertAt(r, k, c) IN
         /\ w \in Path /\ Len(w) = Len(r) + 1 /\ w[k] = c
         /\ \A i \in 1 .. k - 1 : w[i] = r[i]
         /\ \A i \in k .. Len(r) : w[i + 1] = r[i]
<1> DEFINE a == Upto(r, k - 1)
           b == SubSeq(r, k, Len(r))
           d == a \o <<c>>
           w == d \o b
<1>0. Len(r) \in Nat /\ k - 1 \in 0 .. Len(r) /\ k \in Int BY PathIs
<1>1. a \in Path /\ Len(a) = k - 1 /\ \A i \in 1 .. k - 1 : a[i] = r[i] BY <1>0, UptoIs
<1>2. /\ b \in Path /\ Len(b) = Len(r) - k + 1
      /\ \A i \in 1 .. Len(r) - k + 1 : b[i] = r[k + i - 1]
  BY RestIs
<1>3. InsertAt(r, k, c) = w BY DEF InsertAt, Upto
<1>4. <<c>> \in Path /\ Len(<<c>>) = 1 /\ <<c>>[1] = c BY OneStep
<1> HIDE DEF a, b
<1>5. /\ d \in Path /\ Len(d) = k
      /\ \A i \in 1 .. k : d[i] = IF i <= k - 1 THEN a[i] ELSE <<c>>[i - (k - 1)]
  <2>1. (k - 1) + 1 = k BY <1>0
  <2> QED BY <1>1, <1>4, <2>1, ConcatIs
<1>6. d[k] = c
  <2>1. k \in 1 .. k /\ ~ (k <= k - 1) /\ k - (k - 1) = 1 BY <1>0
  <2> QED BY <1>4, <1>5, <2>1
<1>7. \A i \in 1 .. k - 1 : d[i] = r[i]
  <2> TAKE i \in 1 .. k - 1
  <2>1. i \in 1 .. k /\ i <= k - 1 BY <1>0
  <2> QED BY <1>1, <1>5, <2>1
<1> HIDE DEF d
<1>8. /\ w \in Path /\ Len(w) = Len(r) + 1
      /\ \A i \in 1 .. Len(r) + 1 : w[i] = IF i <= k THEN d[i] ELSE b[i - k]
  <2>1. /\ w \in Path /\ Len(w) = Len(d) + Len(b)
        /\ \A i \in 1 .. Len(d) + Len(b) : w[i] = IF i <= Len(d) THEN d[i] ELSE b[i - Len(d)]
    BY <1>2, <1>5, ConcatIs
  <2>2. Len(d) + Len(b) = Len(r) + 1 /\ Len(d) = k BY <1>0, <1>2, <1>5
  <2> HIDE DEF w
  <2> QED BY <2>1, <2>2
<1> HIDE DEF w
<1>9. w[k] = c
  <2>1. k \in 1 .. Len(r) + 1 /\ k <= k BY <1>0
  <2> QED BY <1>6, <1>8, <2>1
<1>10. \A i \in 1 .. k - 1 : w[i] = r[i]
  <2> TAKE i \in 1 .. k - 1
  <2>1. i \in 1 .. Len(r) + 1 /\ i <= k BY <1>0
  <2> QED BY <1>7, <1>8, <2>1
<1>11. \A i \in k .. Len(r) : w[i + 1] = r[i]
  <2> TAKE i \in k .. Len(r)
  <2>1. /\ i + 1 \in 1 .. Len(r) + 1 /\ ~ (i + 1 <= k)
        /\ (i + 1) - k \in 1 .. Len(r) - k + 1 /\ k + ((i + 1) - k) - 1 = i
    BY <1>0
  <2>2. w[i + 1] = b[(i + 1) - k] BY <1>8, <2>1
  <2>3. b[(i + 1) - k] = r[k + ((i + 1) - k) - 1] BY <1>2, <2>1
  <2> QED BY <2>1, <2>2, <2>3
<1> QED BY <1>3, <1>8, <1>9, <1>10, <1>11

LEMMA RemoveIs ==
  ASSUME NEW q \in Path, NEW k \in 1 .. Len(q)
  PROVE  LET m == RemoveAt(q, k) IN
         /\ m \in Path /\ Len(m) = Len(q) - 1
         /\ \A i \in 1 .. k - 1 : m[i] = q[i]
         /\ \A i \in k .. Len(q) - 1 : m[i] = q[i + 1]
<1> DEFINE a == Upto(q, k - 1)
           b == SubSeq(q, k + 1, Len(q))
           m == a \o b
<1>0. Len(q) \in Nat /\ k - 1 \in 0 .. Len(q) /\ k \in Int /\ k + 1 \in 1 .. Len(q) + 1 BY PathIs
<1>1. a \in Path /\ Len(a) = k - 1 /\ \A i \in 1 .. k - 1 : a[i] = q[i] BY <1>0, UptoIs
<1>2. /\ b \in Path /\ Len(b) = Len(q) - (k + 1) + 1
      /\ \A i \in 1 .. Len(q) - (k + 1) + 1 : b[i] = q[(k + 1) + i - 1]
  BY <1>0, RestIs
<1>3. RemoveAt(q, k) = m BY DEF RemoveAt, Upto
<1> HIDE DEF a, b
<1>4. /\ m \in Path /\ Len(m) = Len(q) - 1
      /\ \A i \in 1 .. Len(q) - 1 : m[i] = IF i <= k - 1 THEN a[i] ELSE b[i - (k - 1)]
  <2>1. /\ m \in Path /\ Len(m) = Len(a) + Len(b)
        /\ \A i \in 1 .. Len(a) + Len(b) : m[i] = IF i <= Len(a) THEN a[i] ELSE b[i - Len(a)]
    BY <1>1, <1>2, ConcatIs
  <2>2. Len(a) + Len(b) = Len(q) - 1 /\ Len(a) = k - 1 BY <1>0, <1>1, <1>2
  <2> HIDE DEF m
  <2> QED BY <2>1, <2>2
<1> HIDE DEF m
<1>5. \A i \in 1 .. k - 1 : m[i] = q[i]
  <2> TAKE i \in 1 .. k - 1
  <2>1. i \in 1 .. Len(q) - 1 /\ i <= k - 1 BY <1>0
  <2> QED BY <1>1, <1>4, <2>1
<1>6. \A i \in k .. Len(q) - 1 : m[i] = q[i + 1]
  <2> TAKE i \in k .. Len(q) - 1
  <2>1. /\ i \in 1 .. Len(q) - 1 /\ ~ (i <= k - 1)
        /\ i - (k - 1) \in 1 .. Len(q) - (k + 1) + 1 /\ (k + 1) + (i - (k - 1)) - 1 = i + 1
    BY <1>0
  <2>2. m[i] = b[i - (k - 1)] BY <1>4, <2>1
  <2>3. b[i - (k - 1)] = q[(k + 1) + (i - (k - 1)) - 1] BY <1>2, <2>1
  <2> QED BY <2>1, <2>2, <2>3
<1> QED BY <1>3, <1>4, <1>5, <1>6

\* The closed leaf, the split around it and the other part of that.
Around(at, up, k, c) ==
  /\ at \in Path /\ at # <<>> /\ up = Front(at) /\ k = Len(at) /\ c = 3 - Last(at)

LEMMA AroundIs ==
  ASSUME NEW at, NEW up, NEW k, NEW c, Around(at, up, k, c)
  PROVE  /\ up \in Path /\ k \in Nat /\ k >= 1 /\ Len(up) = k - 1 /\ c \in {1, 2}
         /\ at[k] # c /\ Upto(at, k - 1) = up /\ at = Append(up, 3 - c)
<1>1. /\ up \in Path /\ Last(at) \in {1, 2} /\ at = Append(up, Last(at)) /\ Len(up) = k - 1
      /\ up = Upto(at, k - 1) /\ Last(at) = at[k] /\ k >= 1
  BY FrontIs DEF Around
<1>2. k \in Nat BY PathIs DEF Around
<1>3. c = 3 - Last(at) BY DEF Around
<1>4. c \in {1, 2} /\ at[k] # c /\ 3 - c = Last(at)
  <2> DEFINE x == Last(at)
  <2>1. x \in {1, 2} /\ c = 3 - x /\ x = at[k] BY <1>1, <1>3
  <2> HIDE DEF x
  <2>2. c \in {1, 2} /\ x # c /\ 3 - c = x BY <2>1
  <2> QED BY <2>1, <2>2 DEF x
<1> QED BY <1>1, <1>2, <1>4

LEMMA WasIs ==
  ASSUME NEW at, NEW up, NEW k, NEW c, Around(at, up, k, c), NEW r \in Path
  PROVE  LET w == Was(at, r) IN
         /\ w \in Path /\ (Under(up, w) <=> Under(up, r))
         /\ ~ Under(up, r) => w = r
         /\ Under(up, r) => /\ k - 1 <= Len(r) /\ Len(w) = Len(r) + 1 /\ w[k] = c
                            /\ \A i \in 1 .. k - 1 : w[i] = r[i]
                            /\ \A i \in k .. Len(r) : w[i + 1] = r[i]
<1> DEFINE w == Was(at, r)
<1>1. up \in Path /\ k \in Nat /\ k >= 1 /\ Len(up) = k - 1 /\ c \in {1, 2} BY AroundIs
<1>2. w = IF Under(up, r) THEN InsertAt(r, k, c) ELSE r
  BY <1>1, PrefixIs DEF Was, Around
<1>0. Len(r) \in Nat BY PathIs
<1>3. CASE ~ Under(up, r) BY <1>2, <1>3
<1>4. CASE Under(up, r)
  <2>1. k - 1 <= Len(r) /\ Upto(r, k - 1) = up BY <1>1, <1>4 DEF Under
  <2>2. k \in 1 .. Len(r) + 1 BY <1>0, <1>1, <2>1
  <2>3. w = InsertAt(r, k, c) BY <1>2, <1>4
  <2> HIDE DEF w
  <2>4. /\ w \in Path /\ Len(w) = Len(r) + 1 /\ w[k] = c
        /\ \A i \in 1 .. k - 1 : w[i] = r[i]
        /\ \A i \in k .. Len(r) : w[i + 1] = r[i]
    BY <1>1, <2>2, <2>3, InsertIs
  <2>5. k - 1 \in 0 .. Len(w) /\ k - 1 \in 0 .. Len(r) BY <1>0, <1>1, <2>1, <2>4
  <2>6. /\ Upto(w, k - 1) \in Path /\ Len(Upto(w, k - 1)) = k - 1
        /\ \A i \in 1 .. k - 1 : Upto(w, k - 1)[i] = w[i]
        /\ Upto(r, k - 1) \in Path /\ Len(Upto(r, k - 1)) = k - 1
        /\ \A i \in 1 .. k - 1 : Upto(r, k - 1)[i] = r[i]
    BY <2>4, <2>5, UptoIs
  <2>7. Upto(w, k - 1) = Upto(r, k - 1) BY <2>4, <2>6, Same
  <2>8. Under(up, w) BY <1>0, <1>1, <2>1, <2>4, <2>7 DEF Under
  <2> QED BY <1>4, <2>1, <2>4, <2>8 DEF w
<1> QED BY <1>3, <1>4

LEMMA MovedIs ==
  ASSUME NEW at, NEW up, NEW k, NEW c, Around(at, up, k, c), NEW q \in Path,
         Under(up, q) => k <= Len(q)
  PROVE  LET m == Moved(at, q) IN
         /\ m \in Path /\ (Under(up, m) <=> Under(up, q))
         /\ ~ Under(up, q) => m = q
         /\ Under(up, q) => /\ Len(m) = Len(q) - 1
                            /\ \A i \in 1 .. k - 1 : m[i] = q[i]
                            /\ \A i \in k .. Len(q) - 1 : m[i] = q[i + 1]
<1> DEFINE m == Moved(at, q)
<1>1. up \in Path /\ k \in Nat /\ k >= 1 /\ Len(up) = k - 1 /\ c \in {1, 2} BY AroundIs
<1>2. m = IF Under(up, q) THEN RemoveAt(q, k) ELSE q
  BY <1>1, PrefixIs DEF Moved, Around
<1>0. Len(q) \in Nat BY PathIs
<1>3. CASE ~ Under(up, q) BY <1>2, <1>3
<1>4. CASE Under(up, q)
  <2>2. k \in 1 .. Len(q) BY <1>0, <1>1, <1>4
  <2>3. m = RemoveAt(q, k) BY <1>2, <1>4
  <2> HIDE DEF m
  <2>4. /\ m \in Path /\ Len(m) = Len(q) - 1
        /\ \A i \in 1 .. k - 1 : m[i] = q[i]
        /\ \A i \in k .. Len(q) - 1 : m[i] = q[i + 1]
    BY <2>2, <2>3, RemoveIs
  <2>5. k - 1 \in 0 .. Len(q) /\ k - 1 \in 0 .. Len(m) BY <1>0, <1>1, <2>2, <2>4
  <2>6. /\ Upto(m, k - 1) \in Path /\ Len(Upto(m, k - 1)) = k - 1
        /\ \A i \in 1 .. k - 1 : Upto(m, k - 1)[i] = m[i]
        /\ Upto(q, k - 1) \in Path /\ Len(Upto(q, k - 1)) = k - 1
        /\ \A i \in 1 .. k - 1 : Upto(q, k - 1)[i] = q[i]
    BY <2>4, <2>5, UptoIs
  <2>7. Upto(m, k - 1) = Upto(q, k - 1) BY <2>4, <2>6, Same
  <2>8. Upto(q, k - 1) = up BY <1>1, <1>4 DEF Under
  <2>9. k - 1 <= Len(m) BY <2>5
  <2>10. Under(up, m) BY <1>1, <2>7, <2>8, <2>9 DEF Under
  <2> QED BY <1>4, <2>4, <2>10 DEF m
<1> QED BY <1>3, <1>4

LEMMA MovedWas ==
  ASSUME NEW at, NEW up, NEW k, NEW c, Around(at, up, k, c), NEW r \in Path
  PROVE  Moved(at, Was(at, r)) = r
<1> DEFINE w == Was(at, r)
           m == Moved(at, w)
<1>0. Len(r) \in Nat /\ k \in Nat /\ k >= 1 BY PathIs, AroundIs
<1>1. /\ w \in Path /\ (Under(up, w) <=> Under(up, r))
      /\ ~ Under(up, r) => w = r
      /\ Under(up, r) => /\ k - 1 <= Len(r) /\ Len(w) = Len(r) + 1
                         /\ \A i \in 1 .. k - 1 : w[i] = r[i]
                         /\ \A i \in k .. Len(r) : w[i + 1] = r[i]
  BY WasIs
<1> HIDE DEF w
<1>2. Under(up, w) => k <= Len(w) BY <1>0, <1>1
<1>3. /\ m \in Path
      /\ ~ Under(up, w) => m = w
      /\ Under(up, w) => /\ Len(m) = Len(w) - 1
                         /\ \A i \in 1 .. k - 1 : m[i] = w[i]
                         /\ \A i \in k .. Len(w) - 1 : m[i] = w[i + 1]
  BY <1>1, <1>2, MovedIs
<1> HIDE DEF m
<1>4. CASE ~ Under(up, r) BY <1>1, <1>3, <1>4 DEF m, w
<1>5. CASE Under(up, r)
  <2>1. Len(m) = Len(r) BY <1>0, <1>1, <1>3, <1>5
  <2>2. ASSUME NEW i \in 1 .. Len(m) PROVE m[i] = r[i]
    <3>1. CASE i < k
      <4>1. i \in 1 .. k - 1 BY <1>0, <3>1
      <4> QED BY <1>1, <1>3, <1>5, <4>1
    <3>2. CASE ~ (i < k)
      <4>1. i \in k .. Len(r) /\ i \in k .. Len(w) - 1 BY <1>0, <1>1, <1>5, <2>1, <3>2
      <4> QED BY <1>1, <1>3, <1>5, <4>1
    <3> QED BY <3>1, <3>2
  <2>3. m = r BY <1>3, <2>1, <2>2, Same
  <2> QED BY <2>3 DEF m, w
<1> QED BY <1>4, <1>5

LEMMA WasMoved ==
  ASSUME NEW at, NEW up, NEW k, NEW c, Around(at, up, k, c), NEW q \in Path,
         Under(up, q) => k <= Len(q) /\ q[k] = c
  PROVE  Was(at, Moved(at, q)) = q
<1> DEFINE m == Moved(at, q)
           w == Was(at, m)
<1>0. Len(q) \in Nat /\ k \in Nat /\ k >= 1 BY PathIs, AroundIs
<1>1. /\ m \in Path /\ (Under(up, m) <=> Under(up, q))
      /\ ~ Under(up, q) => m = q
      /\ Under(up, q) => /\ Len(m) = Len(q) - 1
                         /\ \A i \in 1 .. k - 1 : m[i] = q[i]
                         /\ \A i \in k .. Len(q) - 1 : m[i] = q[i + 1]
  BY MovedIs
<1> HIDE DEF m
<1>3. /\ w \in Path
      /\ ~ Under(up, m) => w = m
      /\ Under(up, m) => /\ Len(w) = Len(m) + 1 /\ w[k] = c
                         /\ \A i \in 1 .. k - 1 : w[i] = m[i]
                         /\ \A i \in k .. Len(m) : w[i + 1] = m[i]
  BY <1>1, WasIs
<1> HIDE DEF w
<1>4. CASE ~ Under(up, q) BY <1>1, <1>3, <1>4 DEF m, w
<1>5. CASE Under(up, q)
  <2>1. Len(w) = Len(q) BY <1>0, <1>1, <1>3, <1>5
  <2>2. ASSUME NEW i \in 1 .. Len(w) PROVE w[i] = q[i]
    <3>1. CASE i < k
      <4>1. i \in 1 .. k - 1 BY <1>0, <3>1
      <4> QED BY <1>1, <1>3, <1>5, <4>1
    <3>2. CASE i = k BY <1>1, <1>3, <1>5, <3>2
    <3>3. CASE i > k
      <4>1. i - 1 \in k .. Len(q) - 1 /\ i - 1 \in k .. Len(m) /\ (i - 1) + 1 = i
        BY <1>0, <1>1, <1>5, <2>1, <3>3
      <4>2. m[i - 1] = q[i] BY <1>1, <1>5, <4>1
      <4>3. w[i] = m[i - 1] BY <1>1, <1>3, <1>5, <4>1
      <4> QED BY <4>2, <4>3
    <3> QED BY <1>0, <3>1, <3>2, <3>3
  <2>3. w = q BY <1>3, <2>1, <2>2, Same
  <2> QED BY <2>3 DEF m, w
<1> QED BY <1>4, <1>5

\* What was one step further along.
LEMMA WasAppend ==
  ASSUME NEW at, NEW up, NEW k, NEW c, Around(at, up, k, c), NEW r \in Path, NEW e \in {1, 2}
  PROVE  Was(at, Append(r, e)) =
           IF Append(r, e) = up THEN Append(up, c) ELSE Append(Was(at, r), e)
<1> DEFINE a == Append(r, e)
           w == Was(at, r)
           v == Was(at, a)
<1>0. Len(r) \in Nat /\ k \in Nat /\ k >= 1 /\ up \in Path /\ Len(up) = k - 1 /\ c \in {1, 2}
  BY PathIs, AroundIs
<1>1. /\ a \in Path /\ Len(a) = Len(r) + 1 /\ a[Len(r) + 1] = e
      /\ \A i \in 1 .. Len(r) : a[i] = r[i]
      /\ Upto(a, Len(r)) = r
  BY AppendIs
<1>2. /\ w \in Path
      /\ ~ Under(up, r) => w = r
      /\ Under(up, r) => /\ k - 1 <= Len(r) /\ Len(w) = Len(r) + 1 /\ w[k] = c
                         /\ \A i \in 1 .. k - 1 : w[i] = r[i]
                         /\ \A i \in k .. Len(r) : w[i + 1] = r[i]
  BY WasIs
<1> HIDE DEF a
<1>3. /\ v \in Path
      /\ ~ Under(up, a) => v = a
      /\ Under(up, a) => /\ k - 1 <= Len(a) /\ Len(v) = Len(a) + 1 /\ v[k] = c
                         /\ \A i \in 1 .. k - 1 : v[i] = a[i]
                         /\ \A i \in k .. Len(a) : v[i + 1] = a[i]
  BY <1>1, WasIs
<1> HIDE DEF w, v
<1>4. Under(up, a) <=> Under(up, r) \/ a = up
  <2>1. ASSUME Under(up, r) PROVE Under(up, a)
    <3>1. Len(up) <= Len(r) /\ Upto(r, Len(up)) = up BY <2>1 DEF Under
    <3>2. Len(r) \in 0 .. Len(a) /\ Len(up) \in 0 .. Len(r) /\ Len(up) <= Len(a)
      BY <1>0, <1>1, <3>1
    <3>3. Upto(Upto(a, Len(r)), Len(up)) = Upto(a, Len(up)) BY <1>1, <3>2, UptoUpto
    <3> QED BY <1>1, <3>1, <3>2, <3>3 DEF Under
  <2>2. ASSUME a = up PROVE Under(up, a)
    <3>1. Upto(up, Len(up)) = up BY <1>0, UptoEnds
    <3> QED BY <1>0, <2>2, <3>1 DEF Under
  <2>3. ASSUME Under(up, a), a # up PROVE Under(up, r)
    <3>1. Len(up) <= Len(a) /\ Upto(a, Len(up)) = up BY <2>3 DEF Under
    <3>2. Len(up) # Len(a) BY <1>1, <2>3, <3>1, UptoEnds
    <3>3. Len(r) \in 0 .. Len(a) /\ Len(up) \in 0 .. Len(r) /\ Len(up) <= Len(r)
      BY <1>0, <1>1, <3>1, <3>2
    <3>4. Upto(Upto(a, Len(r)), Len(up)) = Upto(a, Len(up)) BY <1>1, <3>3, UptoUpto
    <3> QED BY <1>1, <3>1, <3>3, <3>4 DEF Under
  <2> QED BY <2>1, <2>2, <2>3
<1>5. CASE a = up
  <2> DEFINE b == Append(up, c)
  <2>1. /\ b \in Path /\ Len(b) = Len(up) + 1 /\ b[Len(up) + 1] = c
        /\ \A i \in 1 .. Len(up) : b[i] = up[i]
    BY <1>0, AppendIs
  <2> HIDE DEF b
  <2>2. Under(up, a) BY <1>4, <1>5
  <2>3. Len(v) = Len(b) /\ Len(b) = k BY <1>0, <1>3, <1>5, <2>1, <2>2
  <2>4. ASSUME NEW i \in 1 .. Len(v) PROVE v[i] = b[i]
    <3>1. CASE i = k
      <4>1. k = Len(up) + 1 BY <1>0
      <4> QED BY <1>3, <2>1, <2>2, <3>1, <4>1
    <3>2. CASE i # k
      <4>1. i \in 1 .. k - 1 /\ i \in 1 .. Len(up) BY <1>0, <2>3, <3>2
      <4> QED BY <1>3, <1>5, <2>1, <2>2, <4>1
    <3> QED BY <3>1, <3>2
  <2>5. v = b BY <1>3, <2>1, <2>3, <2>4, Same
  <2> QED BY <1>5, <2>5 DEF a, v, b
<1>6. CASE a # up /\ ~ Under(up, r)
  <2>1. v = a /\ w = r BY <1>2, <1>3, <1>4, <1>6
  <2> QED BY <1>6, <2>1 DEF a, v, w
<1>7. CASE a # up /\ Under(up, r)
  <2> DEFINE b == Append(w, e)
  <2>1. /\ b \in Path /\ Len(b) = Len(w) + 1 /\ b[Len(w) + 1] = e
        /\ \A i \in 1 .. Len(w) : b[i] = w[i]
    BY <1>2, AppendIs
  <2> HIDE DEF b
  <2>2. Under(up, a) BY <1>4, <1>7
  <2>3. Len(w) = Len(r) + 1 /\ Len(v) = Len(r) + 2 /\ Len(b) = Len(r) + 2 /\ k - 1 <= Len(r)
    BY <1>0, <1>1, <1>2, <1>3, <1>7, <2>1, <2>2
  <2>4. ASSUME NEW i \in 1 .. Len(v) PROVE v[i] = b[i]
    <3>1. CASE i < k
      <4>1. i \in 1 .. k - 1 /\ i \in 1 .. Len(r) /\ i \in 1 .. Len(w) BY <1>0, <2>3, <3>1
      <4> QED BY <1>1, <1>2, <1>3, <1>7, <2>1, <2>2, <4>1
    <3>2. CASE i = k
      <4>1. k \in 1 .. Len(w) BY <1>0, <2>3
      <4> QED BY <1>2, <1>3, <1>7, <2>1, <2>2, <3>2, <4>1
    <3>3. CASE k < i /\ i <= Len(r) + 1
      <4>1. /\ i - 1 \in k .. Len(r) /\ i - 1 \in k .. Len(a) /\ i - 1 \in 1 .. Len(r)
            /\ i \in 1 .. Len(w) /\ (i - 1) + 1 = i
        BY <1>0, <1>1, <2>3, <3>3
      <4>2. v[i] = a[i - 1] /\ w[i] = r[i - 1] /\ a[i - 1] = r[i - 1]
        BY <1>1, <1>2, <1>3, <1>7, <2>2, <4>1
      <4> QED BY <2>1, <4>1, <4>2
    <3>4. CASE i = Len(r) + 2
      <4>1. Len(r) + 1 \in k .. Len(a) /\ (Len(r) + 1) + 1 = i /\ i = Len(w) + 1
        BY <1>0, <1>1, <2>3, <3>4
      <4>2. v[i] = a[Len(r) + 1] BY <1>3, <2>2, <4>1
      <4> QED BY <1>1, <2>1, <4>1, <4>2
    <3> QED BY <1>0, <2>3, <3>1, <3>2, <3>3, <3>4
  <2>5. v = b BY <1>3, <2>1, <2>3, <2>4, Same
  <2> QED BY <1>7, <2>5 DEF a, v, b, w
<1> QED BY <1>5, <1>6, <1>7 DEF a

\* Every other node under the split is under its other part.
LEMMA OtherPart ==
  ASSUME NEW t, Tree(t), NEW at \in DOMAIN t.leaf, NEW up, NEW k, NEW c, Around(at, up, k, c),
         NEW q \in Nodes(t), q # at, q # up, Under(up, q)
  PROVE  k <= Len(q) /\ q[k] = c
<1>0. /\ q \in Path /\ Len(q) \in Nat /\ up \in Path /\ k \in Nat /\ k >= 1 /\ Len(up) = k - 1
      /\ c \in {1, 2} /\ at = Append(up, 3 - c) /\ at \in Path /\ k = Len(at)
  BY TreeIs, PathIs, AroundIs DEF Tree, Around
<1>1. k - 1 <= Len(q) /\ Upto(q, k - 1) = up BY <1>0 DEF Under
<1>2. k - 1 # Len(q)
  <2> SUFFICES ASSUME k - 1 = Len(q) PROVE FALSE
    OBVIOUS
  <2>1. Upto(q, Len(q)) = q BY <1>0, UptoEnds
  <2> QED BY <1>1, <2>1
<1>3. k <= Len(q) /\ k \in 1 .. Len(q) /\ k - 1 \in 0 .. Len(q) - 1 /\ (k - 1) + 1 = k
  BY <1>0, <1>1, <1>2
<1>4. q[k] \in {1, 2} BY <1>0, <1>3, PathIs
<1>5. q[k] = c
  <2> SUFFICES ASSUME q[k] # c PROVE FALSE
    BY <1>3
  <2>1. q[k] = 3 - c BY <1>0, <1>4
  <2>2. Upto(q, k) = Append(up, q[k]) BY <1>0, <1>1, <1>3, UptoNext
  <2>3. Upto(q, k) = at BY <1>0, <2>1, <2>2
  <2>4. CASE k = Len(q)
    <3>1. Upto(q, Len(q)) = q BY <1>0, UptoEnds
    <3> QED BY <2>3, <2>4, <3>1
  <2>5. CASE k # Len(q)
    <3>1. k \in 0 .. Len(q) - 1 BY <1>0, <1>3, <2>5
    <3> QED BY <2>3, <3>1, LeafEnds
  <2> QED BY <2>4, <2>5
<1> QED BY <1>3, <1>5

LEMMA WasAnother ==
  ASSUME NEW at, NEW up, NEW k, NEW c, Around(at, up, k, c), NEW r \in Path
  PROVE  Was(at, r) # at /\ Was(at, r) # up
<1> DEFINE w == Was(at, r)
<1>0. /\ Len(r) \in Nat /\ up \in Path /\ k \in Nat /\ k >= 1 /\ Len(up) = k - 1
      /\ at[k] # c /\ Upto(at, k - 1) = up /\ k = Len(at)
  BY PathIs, AroundIs DEF Around
<1>1. /\ (Under(up, w) <=> Under(up, r)) /\ (~ Under(up, r) => w = r)
      /\ Under(up, r) => k - 1 <= Len(r) /\ Len(w) = Len(r) + 1 /\ w[k] = c
  BY WasIs
<1> HIDE DEF w
<1>2. Under(up, at) BY <1>0 DEF Under
<1>3. Under(up, up) BY <1>0, UptoEnds DEF Under
<1>4. w # at /\ w # up BY <1>0, <1>1, <1>2, <1>3
<1> QED BY <1>4 DEF w

LEMMA KeptIs ==
  ASSUME NEW t, Tree(t), NEW at \in DOMAIN t.leaf, NEW up, NEW k, NEW c, Around(at, up, k, c),
         NEW D \in SUBSET Nodes(t)
  PROVE  {Moved(at, q) : q \in D \ {at, up}} = {r \in Path : Was(at, r) \in D}
<1>0. Nodes(t) \subseteq Path BY TreeIs DEF Tree
<1>1. ASSUME NEW q \in D \ {at, up} PROVE Moved(at, q) \in Path /\ Was(at, Moved(at, q)) = q
  <2>1. q \in Path /\ q \in Nodes(t) /\ q # at /\ q # up BY <1>0
  <2>2. Under(up, q) => k <= Len(q) /\ q[k] = c BY <2>1, OtherPart
  <2> QED BY <2>1, <2>2, MovedIs, WasMoved
<1>2. ASSUME NEW r \in Path, Was(at, r) \in D
      PROVE  \E q \in D \ {at, up} : r = Moved(at, q)
  <2>1. Was(at, r) # at /\ Was(at, r) # up BY WasAnother
  <2>2. Moved(at, Was(at, r)) = r BY MovedWas
  <2> QED BY <1>2, <2>1, <2>2
<1> QED BY <1>1, <1>2

LEMMA CloseIs ==
  ASSUME NEW t, Tree(t), NEW panes, Leaves(t, panes), NEW p \in panes, panes # {p}
  PROVE  LET u == CloseLeaf(t, p)
             at == PathOf(t, p)
         IN /\ u \in Trees
            /\ DOMAIN u.leaf = {r \in Path : Was(at, r) \in DOMAIN t.leaf}
            /\ DOMAIN u.split = {r \in Path : Was(at, r) \in DOMAIN t.split}
            /\ \A r \in DOMAIN u.leaf : u.leaf[r] = t.leaf[Was(at, r)]
            /\ \A r \in DOMAIN u.split : u.split[r] = t.split[Was(at, r)]
<1> DEFINE at == PathOf(t, p)
           up == Front(at)
           k == Len(at)
           c == 3 - Last(at)
           D == {r \in Path : Was(at, r) \in DOMAIN t.leaf}
           E == {r \in Path : Was(at, r) \in DOMAIN t.split}
           f == [q \in D |-> t.leaf[Was(at, q)]]
           g == [q \in E |-> t.split[Was(at, q)]]
           u == CloseLeaf(t, p)
<1>1. at \in DOMAIN t.leaf /\ Around(at, up, k, c) BY PathOfIs, LeafDeep DEF Around
<1>2. /\ DOMAIN t.leaf \in SUBSET Nodes(t) /\ DOMAIN t.split \in SUBSET Nodes(t)
      /\ \A q \in DOMAIN t.leaf : t.leaf[q] \in Nat
      /\ \A q \in DOMAIN t.split : t.split[q] \in Cuts
  BY TreeIs DEF Tree, Nodes
<1>3. u = [leaf |-> [q \in {Moved(at, q) : q \in DOMAIN t.leaf \ {at, up}} |-> t.leaf[Was(at, q)]],
           split |-> [q \in {Moved(at, q) : q \in DOMAIN t.split \ {at, up}} |-> t.split[Was(at, q)]]]
  BY DEF CloseLeaf
<1> HIDE DEF at, up, k, c, u
<1>4. {Moved(at, q) : q \in DOMAIN t.leaf \ {at, up}} = D BY <1>1, <1>2, KeptIs
<1>5. {Moved(at, q) : q \in DOMAIN t.split \ {at, up}} = E BY <1>1, <1>2, KeptIs
<1>6. u = [leaf |-> f, split |-> g] BY <1>3, <1>4, <1>5
<1>7. f \in [D -> Nat] /\ D \in SUBSET Path BY <1>2
<1>8. g \in [E -> Cuts] /\ E \in SUBSET Path BY <1>2
<1>9. DOMAIN f = D /\ \A r \in D : f[r] = t.leaf[Was(at, r)] OBVIOUS
<1>10. DOMAIN g = E /\ \A r \in E : g[r] = t.split[Was(at, r)] OBVIOUS
<1> HIDE DEF f, g
<1>11. u \in Trees BY <1>6, <1>7, <1>8, MakeTree
<1>12. u.leaf = f /\ u.split = g BY <1>6
<1> QED BY <1>9, <1>10, <1>11, <1>12 DEF u, at

LEMMA CloseTree ==
  ASSUME NEW t, Tree(t), NEW panes, Leaves(t, panes), NEW p \in panes, panes # {p}
  PROVE  Tree(CloseLeaf(t, p)) /\ Leaves(CloseLeaf(t, p), panes \ {p})
<1> DEFINE at == PathOf(t, p)
           up == Front(at)
           k == Len(at)
           c == 3 - Last(at)
           u == CloseLeaf(t, p)
<1>1. /\ at \in DOMAIN t.leaf /\ t.leaf[at] = p /\ Around(at, up, k, c)
      /\ up \in DOMAIN t.split /\ \A q \in DOMAIN t.leaf : t.leaf[q] = p => q = at
  BY PathOfIs, LeafDeep DEF Around
<1>2. /\ u \in Trees
      /\ DOMAIN u.leaf = {r \in Path : Was(at, r) \in DOMAIN t.leaf}
      /\ DOMAIN u.split = {r \in Path : Was(at, r) \in DOMAIN t.split}
      /\ \A r \in DOMAIN u.leaf : u.leaf[r] = t.leaf[Was(at, r)]
  BY CloseIs
<1> HIDE DEF at, up, k, c, u
<1>3. /\ up \in Path /\ c \in {1, 2} /\ k \in Nat /\ k >= 1 /\ Len(up) = k - 1
  BY <1>1, AroundIs
<1>4. Nodes(u) = {r \in Path : Was(at, r) \in Nodes(t)} BY <1>2 DEF Nodes
<1>5. DOMAIN u.leaf \cap DOMAIN u.split = {} BY <1>2 DEF Tree
<1>6. Append(up, c) \in Nodes(t) BY <1>1, <1>3 DEF Tree
<1>7. <<>> \in Nodes(u)
  <2>0. PICK o \in Path : o = <<>> /\ Len(o) = 0 BY RootPath
  <2>1. /\ Was(at, o) \in Path
        /\ ~ Under(up, o) => Was(at, o) = o
        /\ Under(up, o) => /\ k - 1 <= Len(o) /\ Len(Was(at, o)) = Len(o) + 1 /\ Was(at, o)[k] = c
    BY <1>1, WasIs
  <2>2. CASE ~ Under(up, o) BY <1>4, <2>0, <2>1, <2>2 DEF Tree
  <2>3. CASE Under(up, o)
    <3> DEFINE w == Was(at, o)
               b == Append(up, c)
    <3>1. k = 1 /\ Len(up) = 0 /\ w \in Path /\ Len(w) = 1 /\ w[1] = c BY <1>3, <2>0, <2>1, <2>3
    <3>2. b \in Path /\ Len(b) = Len(up) + 1 /\ b[Len(up) + 1] = c BY <1>3, AppendIs
    <3> HIDE DEF w, b
    <3>3. Len(b) = 1 /\ b[1] = c BY <3>1, <3>2
    <3>4. \A i \in 1 .. 1 : i = 1 OBVIOUS
    <3>5. w = b BY <3>1, <3>2, <3>3, <3>4, Same
    <3> QED BY <1>4, <1>6, <2>0, <3>5 DEF w, b
  <2> QED BY <2>2, <2>3
<1>8. ASSUME NEW r \in DOMAIN u.split, NEW e \in {1, 2} PROVE Append(r, e) \in Nodes(u)
  <2>1. r \in Path /\ Was(at, r) \in DOMAIN t.split BY <1>2
  <2>2. Append(r, e) \in Path BY <2>1, AppendIs
  <2>3. Was(at, Append(r, e)) =
          IF Append(r, e) = up THEN Append(up, c) ELSE Append(Was(at, r), e)
    BY <1>1, <2>1, WasAppend
  <2>4. Append(Was(at, r), e) \in Nodes(t) BY <2>1 DEF Tree
  <2>5. Was(at, Append(r, e)) \in Nodes(t) BY <1>6, <2>3, <2>4
  <2> QED BY <1>4, <2>2, <2>5
<1>9. ASSUME NEW r \in Nodes(u), r # <<>> PROVE Front(r) \in DOMAIN u.split
  <2> DEFINE f == Front(r)
             e == Last(r)
  <2>1. r \in Path /\ Was(at, r) \in Nodes(t) BY <1>4
  <2>2. f \in Path /\ e \in {1, 2} /\ r = Append(f, e) /\ Len(f) = Len(r) - 1 BY <1>9, <2>1, FrontIs
  <2> HIDE DEF f, e
  <2>3. Was(at, r) = IF r = up THEN Append(up, c) ELSE Append(Was(at, f), e)
    BY <1>1, <2>2, WasAppend
  <2>4. CASE r = up
    <3>1. up # <<>> /\ up \in Nodes(t) BY <1>1, <1>9, <2>4 DEF Nodes
    <3>2. f \in DOMAIN t.split BY <2>4, <3>1 DEF Tree, f
    <3>3. ~ Under(up, f)
      <4>1. ~ (Len(up) <= Len(f)) BY <1>3, <2>2, <2>4, PathIs
      <4> QED BY <4>1 DEF Under
    <3>4. Was(at, f) = f BY <1>1, <2>2, <3>3, WasIs
    <3> QED BY <1>2, <2>2, <3>2, <3>4 DEF f
  <2>5. CASE r # up
    <3>1. Append(Was(at, f), e) \in Nodes(t) BY <2>1, <2>3, <2>5
    <3>2. Was(at, f) \in Path BY <1>1, <2>2, WasIs
    <3>3. Append(Was(at, f), e) # <<>> /\ Front(Append(Was(at, f), e)) = Was(at, f)
      <4> DEFINE w == Was(at, f)
      <4>1. w \in Path BY <3>2
      <4> HIDE DEF w
      <4>2. Append(w, e) # <<>> /\ Front(Append(w, e)) = w BY <2>2, <4>1, AppendIs
      <4> QED BY <4>2 DEF w
    <3>4. Was(at, f) \in DOMAIN t.split BY <3>1, <3>3 DEF Tree
    <3> QED BY <1>2, <2>2, <3>4 DEF f
  <2> QED BY <2>4, <2>5
<1>10. \E d \in Nat : \A r \in Nodes(u) : Len(r) <= d
  <2>1. PICK d \in Nat : \A q \in Nodes(t) : Len(q) <= d BY DEF Tree
  <2>2. ASSUME NEW r \in Nodes(u) PROVE Len(r) <= d
    <3>1. r \in Path /\ Was(at, r) \in Nodes(t) BY <1>4
    <3>2. Len(r) \in Nat /\ Len(Was(at, r)) \in {Len(r), Len(r) + 1} BY <1>1, <3>1, WasIs, PathIs
    <3>3. Len(Was(at, r)) <= d BY <2>1, <3>1
    <3> QED BY <3>2, <3>3
  <2> QED BY <2>2
<1>11. Tree(u) BY <1>2, <1>5, <1>7, <1>8, <1>9, <1>10 DEF Tree
<1>12. {u.leaf[r] : r \in DOMAIN u.leaf} = panes \ {p}
  <2>1. ASSUME NEW r \in DOMAIN u.leaf PROVE u.leaf[r] \in panes \ {p}
    <3>1. r \in Path /\ Was(at, r) \in DOMAIN t.leaf BY <1>2
    <3>2. Was(at, r) # at BY <1>1, <3>1, WasAnother
    <3>3. t.leaf[Was(at, r)] # p /\ t.leaf[Was(at, r)] \in panes BY <1>1, <3>1, <3>2 DEF Leaves
    <3> QED BY <1>2, <3>3
  <2>2. ASSUME NEW x \in panes \ {p} PROVE \E r \in DOMAIN u.leaf : u.leaf[r] = x
    <3>1. PICK q \in DOMAIN t.leaf : t.leaf[q] = x BY DEF Leaves
    <3>2. q # at /\ q # up BY <1>1, <3>1 DEF Tree
    <3>3. q \in Nodes(t) /\ q \in Path BY TreeIs DEF Tree, Nodes
    <3>4. Under(up, q) => k <= Len(q) /\ q[k] = c BY <1>1, <3>2, <3>3, OtherPart
    <3>5. Moved(at, q) \in Path BY <1>1, <3>3, <3>4, MovedIs
    <3>6. Was(at, Moved(at, q)) = q BY <1>1, <3>3, <3>4, WasMoved
    <3>7. Moved(at, q) \in DOMAIN u.leaf BY <1>2, <3>5, <3>6
    <3>8. u.leaf[Moved(at, q)] = x BY <1>2, <3>1, <3>6, <3>7
    <3> QED BY <3>7, <3>8
  <2> QED BY <2>1, <2>2
<1>13. ASSUME NEW q \in DOMAIN u.leaf, NEW r \in DOMAIN u.leaf, u.leaf[q] = u.leaf[r]
       PROVE  q = r
  <2>1. /\ q \in Path /\ r \in Path
        /\ Was(at, q) \in DOMAIN t.leaf /\ Was(at, r) \in DOMAIN t.leaf
        /\ t.leaf[Was(at, q)] = t.leaf[Was(at, r)]
    BY <1>2, <1>13
  <2>2. Was(at, q) = Was(at, r) BY <2>1 DEF Leaves
  <2>3. Moved(at, Was(at, q)) = q /\ Moved(at, Was(at, r)) = r BY <1>1, <2>1, MovedWas
  <2> QED BY <2>2, <2>3
<1> QED BY <1>11, <1>12, <1>13 DEF Leaves, u

\* The first pane is one of the panes.
LEMMA FirstPaneIs ==
  ASSUME NEW t, Tree(t), NEW panes, Leaves(t, panes)
  PROVE  FirstPane(t) \in panes
<1> DEFINE W == {q \in Nodes(t) : \A i \in DOMAIN q : q[i] = 1}
<1>0. Nodes(t) \subseteq Path BY TreeIs DEF Tree
<1>1. <<>> \in W
  <2>1. DOMAIN <<>> = {} BY RootPath, PathIs
  <2> QED BY <2>1 DEF Tree
<1>2. ASSUME NEW q \in W \cap DOMAIN t.split PROVE \E c \in {1, 2} : Append(q, c) \in W
  <2> DEFINE a == Append(q, 1)
  <2>0. q \in Path /\ Len(q) \in Nat /\ DOMAIN q = 1 .. Len(q) BY <1>0, PathIs
  <2>1. a \in Nodes(t) BY DEF Tree
  <2>2. /\ a \in Path /\ Len(a) = Len(q) + 1 /\ a[Len(q) + 1] = 1
        /\ \A i \in 1 .. Len(q) : a[i] = q[i]
    BY <2>0, AppendIs
  <2> HIDE DEF a
  <2>3. DOMAIN a = 1 .. Len(q) + 1 BY <2>2, PathIs
  <2>4. \A i \in DOMAIN a : a[i] = 1
    <3> TAKE i \in DOMAIN a
    <3>1. CASE i = Len(q) + 1 BY <2>2, <3>1
    <3>2. CASE i # Len(q) + 1
      <4>1. i \in 1 .. Len(q) BY <2>0, <2>3, <3>2
      <4> QED BY <2>0, <2>2, <4>1
    <3> QED BY <3>1, <3>2
  <2> QED BY <2>1, <2>4 DEF a
<1>3. \E q \in W : q \in DOMAIN t.leaf
  <2> HIDE DEF W
  <2>1. W \in SUBSET Nodes(t) BY DEF W
  <2> QED BY <1>1, <1>2, <2>1, Descent
<1>4. \E q \in DOMAIN t.leaf : \A i \in DOMAIN q : q[i] = 1 BY <1>3
<1>5. FirstPane(t) \in {t.leaf[q] : q \in DOMAIN t.leaf} BY <1>4 DEF FirstPane
<1> QED BY <1>5 DEF Leaves

-----------------------------------------------------------------------------
(* Rectangles.                                                             *)

Sides == Nat \ {0}
Screens == Sides \X Sides
Areas == [x : Nat, y : Nat, rows : Sides, cols : Sides]

Within(a, b) ==
  /\ b.x <= a.x /\ a.x + a.cols <= b.x + b.cols
  /\ b.y <= a.y /\ a.y + a.rows <= b.y + b.rows

LEMMA ShareIs ==
  ASSUME NEW length \in Nat, length >= 3, NEW ratio \in 0 .. 100
  PROVE  Share(length, ratio) \in 1 .. length - 2
<1> DEFINE n == ((length - 1) * ratio % U16) \div 100
<1>1. n \in Int
  <2> DEFINE m == (length - 1) * ratio
  <2>1. m \in Int OBVIOUS
  <2> HIDE DEF m
  <2>2. m % U16 \in Int BY <2>1 DEF U16
  <2> QED BY <2>2 DEF m
<1>2. Share(length, ratio) = Clamp(n, 1, length - 2) BY DEF Share
<1> HIDE DEF n
<1> QED BY <1>1, <1>2 DEF Clamp

LEMMA AreaIs ==
  ASSUME NEW a \in Areas
  PROVE  /\ a.x \in Nat /\ a.y \in Nat /\ a.rows \in Nat /\ a.cols \in Nat
         /\ a.rows >= 1 /\ a.cols >= 1
BY DEF Areas, Sides

\* A split of a box into its parts and the border between them.
LEMMA PartsAre ==
  ASSUME NEW box \in Areas, NEW cut \in Cuts
  PROVE  /\ \A c \in {1, 2} : Part(box, cut, c) \in Areas /\ Within(Part(box, cut, c), box)
         /\ ~ Divides(box, cut) => \A c \in {1, 2} : Part(box, cut, c) = box
         /\ Divides(box, cut) =>
              /\ Border(box, cut) \in Areas /\ Within(Border(box, cut), box)
              /\ Disjoint(Part(box, cut, 1), Part(box, cut, 2))
              /\ \A c \in {1, 2} : Disjoint(Part(box, cut, c), Border(box, cut))
              /\ \A x, y \in Int : Holds(box, x, y) =>
                   \/ Holds(Part(box, cut, 1), x, y) \/ Holds(Part(box, cut, 2), x, y)
                   \/ Holds(Border(box, cut), x, y)
<1>0. /\ box.x \in Nat /\ box.y \in Nat /\ box.rows \in Nat /\ box.cols \in Nat
      /\ box.rows >= 1 /\ box.cols >= 1
  BY AreaIs
<1>a. box = [x |-> box.x, y |-> box.y, rows |-> box.rows, cols |-> box.cols] BY DEF Areas
<1>1. CASE ~ Divides(box, cut)
  <2>1. \A c \in {1, 2} : Part(box, cut, c) = box BY <1>1 DEF Part
  <2>2. Within(box, box) BY <1>0 DEF Within
  <2> QED BY <1>1, <2>1, <2>2
<1>2. CASE Divides(box, cut) /\ cut.dir = "horizontal"
  <2> DEFINE n == Share(Extent(box, cut), cut.ratio)
             a == Part(box, cut, 1)
             b == Part(box, cut, 2)
             d == Border(box, cut)
  <2>1. Extent(box, cut) = box.rows /\ box.rows >= 3 BY <1>2 DEF Divides, Extent
  <2>2. n \in 1 .. box.rows - 2 BY <1>0, <2>1, ShareIs DEF Cuts
  <2>3. a = [box EXCEPT !.rows = n] BY <1>2 DEF Part
  <2>5. d = [x |-> box.x, y |-> box.y + n, rows |-> 1, cols |-> box.cols] BY <1>2, <1>a DEF Border
  <2> HIDE DEF n, a, b, d
  <2>4. b = [x |-> box.x, y |-> box.y + n + 1, rows |-> box.rows - 1 - n, cols |-> box.cols]
    <3>1. b = [box EXCEPT !.y = box.y + n + 1, !.rows = box.rows - 1 - n] BY <1>2 DEF Part, b, n
    <3> QED BY <1>a, <3>1
  <2>6. a.x = box.x /\ a.y = box.y /\ a.rows = n /\ a.cols = box.cols /\ a \in Areas
    BY <1>0, <2>2, <2>3 DEF Areas, Sides
  <2>7. /\ b.x = box.x /\ b.y = box.y + n + 1 /\ b.rows = box.rows - 1 - n /\ b.cols = box.cols
        /\ b \in Areas
    BY <1>0, <2>2, <2>4 DEF Areas, Sides
  <2>8. /\ d.x = box.x /\ d.y = box.y + n /\ d.rows = 1 /\ d.cols = box.cols /\ d \in Areas
    BY <1>0, <2>2, <2>5 DEF Areas, Sides
  <2>9. Within(a, box) /\ Within(b, box) /\ Within(d, box)
    BY <1>0, <2>2, <2>6, <2>7, <2>8 DEF Within
  <2>10. Disjoint(a, b) /\ Disjoint(a, d) /\ Disjoint(b, d)
    BY <1>0, <2>2, <2>6, <2>7, <2>8 DEF Disjoint
  <2>11. ASSUME NEW x \in Int, NEW y \in Int, Holds(box, x, y)
         PROVE  Holds(a, x, y) \/ Holds(b, x, y) \/ Holds(d, x, y)
    <3>1. x >= box.x /\ x < box.x + box.cols /\ y >= box.y /\ y < box.y + box.rows
      BY <1>0, <2>11 DEF Holds
    <3>2. y < box.y + n \/ y = box.y + n \/ y > box.y + n BY <1>0, <2>2
    <3> QED BY <1>0, <2>2, <2>6, <2>7, <2>8, <3>1, <3>2 DEF Holds
  <2> QED BY <1>2, <2>6, <2>7, <2>8, <2>9, <2>10, <2>11 DEF a, b, d
<1>3. CASE Divides(box, cut) /\ cut.dir # "horizontal"
  <2> DEFINE n == Share(Extent(box, cut), cut.ratio)
             a == Part(box, cut, 1)
             b == Part(box, cut, 2)
             d == Border(box, cut)
  <2>1. Extent(box, cut) = box.cols /\ box.cols >= 3 BY <1>3 DEF Divides, Extent
  <2>2. n \in 1 .. box.cols - 2 BY <1>0, <2>1, ShareIs DEF Cuts
  <2>3. a = [box EXCEPT !.cols = n] BY <1>3 DEF Part
  <2>5. d = [x |-> box.x + n, y |-> box.y, rows |-> box.rows, cols |-> 1] BY <1>3, <1>a DEF Border
  <2> HIDE DEF n, a, b, d
  <2>4. b = [x |-> box.x + n + 1, y |-> box.y, rows |-> box.rows, cols |-> box.cols - 1 - n]
    <3>1. b = [box EXCEPT !.x = box.x + n + 1, !.cols = box.cols - 1 - n] BY <1>3 DEF Part, b, n
    <3> QED BY <1>a, <3>1
  <2>6. a.x = box.x /\ a.y = box.y /\ a.rows = box.rows /\ a.cols = n /\ a \in Areas
    BY <1>0, <2>2, <2>3 DEF Areas, Sides
  <2>7. /\ b.x = box.x + n + 1 /\ b.y = box.y /\ b.rows = box.rows /\ b.cols = box.cols - 1 - n
        /\ b \in Areas
    BY <1>0, <2>2, <2>4 DEF Areas, Sides
  <2>8. /\ d.x = box.x + n /\ d.y = box.y /\ d.rows = box.rows /\ d.cols = 1 /\ d \in Areas
    BY <1>0, <2>2, <2>5 DEF Areas, Sides
  <2>9. Within(a, box) /\ Within(b, box) /\ Within(d, box)
    BY <1>0, <2>2, <2>6, <2>7, <2>8 DEF Within
  <2>10. Disjoint(a, b) /\ Disjoint(a, d) /\ Disjoint(b, d)
    BY <1>0, <2>2, <2>6, <2>7, <2>8 DEF Disjoint
  <2>11. ASSUME NEW x \in Int, NEW y \in Int, Holds(box, x, y)
         PROVE  Holds(a, x, y) \/ Holds(b, x, y) \/ Holds(d, x, y)
    <3>1. x >= box.x /\ x < box.x + box.cols /\ y >= box.y /\ y < box.y + box.rows
      BY <1>0, <2>11 DEF Holds
    <3>2. x < box.x + n \/ x = box.x + n \/ x > box.x + n BY <1>0, <2>2
    <3> QED BY <1>0, <2>2, <2>6, <2>7, <2>8, <3>1, <3>2 DEF Holds
  <2> QED BY <1>3, <2>6, <2>7, <2>8, <2>9, <2>10, <2>11 DEF a, b, d
<1> QED BY <1>1, <1>2, <1>3

LEMMA WholeIs ==
  ASSUME NEW s \in Screens
  PROVE  /\ Whole(s) \in Areas /\ s[1] \in Nat /\ s[2] \in Nat /\ s[1] >= 1 /\ s[2] >= 1
         /\ Whole(s).x = 0 /\ Whole(s).y = 0 /\ Whole(s).rows = s[1] /\ Whole(s).cols = s[2]
<1>1. s[1] \in Sides /\ s[2] \in Sides BY DEF Screens
<1>2. 0 \in Nat OBVIOUS
<1>3. Whole(s) \in Areas BY <1>1, <1>2 DEF Whole, Areas
<1> QED BY <1>1, <1>3 DEF Whole, Sides

LEMMA BoxIs ==
  ASSUME NEW t, Tree(t), NEW s \in Screens, NEW q \in Nodes(t)
  PROVE  Box(t, s, q) \in Areas
<1>0. q \in Path /\ Len(q) \in Nat BY TreeIs, PathIs DEF Tree
<1> DEFINE S == {k \in Nat : k <= Len(q) => Box(t, s, Upto(q, k)) \in Areas}
<1>1. 0 \in S BY <1>0, UptoEnds, BoxRoot, WholeIs
<1>2. ASSUME NEW k \in Nat, k \in S PROVE k + 1 \in S
  <2> SUFFICES ASSUME k + 1 <= Len(q) PROVE Box(t, s, Upto(q, k + 1)) \in Areas
    OBVIOUS
  <2>1. k \in 0 .. Len(q) - 1 BY <1>0
  <2>2. q[k + 1] \in {1, 2} /\ Upto(q, k) \in Path /\ Upto(q, k + 1) = Append(Upto(q, k), q[k + 1])
    BY <1>0, <2>1, UptoNext
  <2>3. Upto(q, k) \in DOMAIN t.split BY <2>1, NodePrefix
  <2>4. t.split[Upto(q, k)] \in Cuts BY <2>3, TreeIs DEF Tree
  <2>5. Box(t, s, Upto(q, k)) \in Areas BY <1>0, <1>2, <2>1
  <2>6. Box(t, s, Upto(q, k + 1)) = Part(Box(t, s, Upto(q, k)), t.split[Upto(q, k)], q[k + 1])
    <3> DEFINE u == Upto(q, k)
               c == q[k + 1]
    <3>1. u \in Path /\ c \in {1, 2} BY <2>2
    <3> HIDE DEF u, c
    <3>2. Box(t, s, Append(u, c)) = Part(Box(t, s, u), t.split[u], c) BY <3>1, BoxPart
    <3> QED BY <2>2, <3>2 DEF u, c
  <2> QED BY <2>2, <2>4, <2>5, <2>6, PartsAre
<1>3. Nat \subseteq S
  <2> HIDE DEF S
  <2> QED BY <1>1, <1>2, SetInduction
<1>4. Box(t, s, Upto(q, Len(q))) \in Areas BY <1>0, <1>3
<1> QED BY <1>0, <1>4, UptoEnds

\* The box of a split and those of its parts.
LEMMA BoxSplits ==
  ASSUME NEW t, Tree(t), NEW s \in Screens, NEW q \in DOMAIN t.split
  PROVE  LET b == Box(t, s, q)
             cut == t.split[q]
             d == Border(b, cut)
         IN /\ b \in Areas
            /\ \A c \in {1, 2} : /\ Box(t, s, Append(q, c)) = Part(b, cut, c)
                                 /\ Part(b, cut, c) \in Areas /\ Within(Part(b, cut, c), b)
            /\ ~ Cut(t, s, q) => \A c \in {1, 2} : Part(b, cut, c) = b
            /\ Cut(t, s, q) =>
                 /\ d \in Areas /\ Within(d, b)
                 /\ Disjoint(Part(b, cut, 1), Part(b, cut, 2))
                 /\ \A c \in {1, 2} : Disjoint(Part(b, cut, c), d)
                 /\ \A x, y \in Int : Holds(b, x, y) =>
                      Holds(Part(b, cut, 1), x, y) \/ Holds(Part(b, cut, 2), x, y) \/ Holds(d, x, y)
<1>1. q \in Path /\ q \in Nodes(t) /\ t.split[q] \in Cuts BY TreeIs DEF Tree, Nodes
<1>2. Box(t, s, q) \in Areas BY <1>1, BoxIs
<1>3. \A c \in {1, 2} : Box(t, s, Append(q, c)) = Part(Box(t, s, q), t.split[q], c)
  BY <1>1, BoxPart
<1> QED BY <1>1, <1>2, <1>3, PartsAre DEF Cut

LEMMA WithinWithin ==
  ASSUME NEW a \in Areas, NEW b \in Areas, NEW d \in Areas, Within(a, b), Within(b, d)
  PROVE  Within(a, d)
BY AreaIs DEF Within

LEMMA DisjointWithin ==
  ASSUME NEW a \in Areas, NEW b \in Areas, NEW d \in Areas, NEW e \in Areas,
         Within(a, d), Within(b, e), Disjoint(d, e)
  PROVE  Disjoint(a, b)
BY AreaIs DEF Within, Disjoint

LEMMA DisjointSides ==
  ASSUME NEW a \in Areas, NEW b \in Areas, Disjoint(a, b)
  PROVE  Disjoint(b, a)
BY AreaIs DEF Disjoint

\* A node has its room within that of every node above it.
LEMMA BoxWithin ==
  ASSUME NEW t, Tree(t), NEW s \in Screens, NEW q \in Nodes(t), NEW n \in 0 .. Len(q)
  PROVE  Box(t, s, Upto(q, n)) \in Areas /\ Within(Box(t, s, q), Box(t, s, Upto(q, n)))
<1>0. q \in Path /\ Len(q) \in Nat BY TreeIs, PathIs DEF Tree
<1>1. ASSUME NEW k \in 0 .. Len(q) PROVE Upto(q, k) \in Nodes(t) /\ Box(t, s, Upto(q, k)) \in Areas
  <2>1. CASE k = Len(q) BY <1>0, <2>1, UptoEnds, BoxIs
  <2>2. CASE k # Len(q)
    <3>1. k \in 0 .. Len(q) - 1 BY <1>0, <2>2
    <3>2. Upto(q, k) \in Nodes(t) BY <3>1, NodePrefix DEF Nodes
    <3> QED BY <3>2, BoxIs
  <2> QED BY <2>1, <2>2
<1> DEFINE W(k) == Within(Box(t, s, Upto(q, k)), Box(t, s, Upto(q, n)))
           S == {k \in Nat : n + k <= Len(q) => W(n + k)}
<1>2. 0 \in S
  <2>1. Box(t, s, Upto(q, n)) \in Areas /\ n + 0 = n BY <1>1
  <2> QED BY <2>1, AreaIs DEF Within
<1>3. ASSUME NEW k \in Nat, k \in S PROVE k + 1 \in S
  <2> SUFFICES ASSUME n + (k + 1) <= Len(q) PROVE W(n + (k + 1))
    OBVIOUS
  <2> DEFINE m == n + k
  <2>1. m \in 0 .. Len(q) - 1 /\ m \in 0 .. Len(q) /\ m + 1 \in 0 .. Len(q) /\ n + (k + 1) = m + 1
    BY <1>0
  <2>2. W(m) BY <1>0, <1>3, <2>1
  <2> HIDE DEF m
  <2>3. q[m + 1] \in {1, 2} /\ Upto(q, m) \in Path /\ Upto(q, m + 1) = Append(Upto(q, m), q[m + 1])
    BY <1>0, <2>1, UptoNext
  <2>4. Within(Box(t, s, Upto(q, m + 1)), Box(t, s, Upto(q, m)))
    <3> DEFINE u == Upto(q, m)
               c == q[m + 1]
    <3>1. u \in DOMAIN t.split /\ c \in {1, 2} BY <2>1, <2>3, NodePrefix
    <3> HIDE DEF u, c
    <3>2. Within(Box(t, s, Append(u, c)), Box(t, s, u)) BY <3>1, BoxSplits
    <3> QED BY <2>3, <3>2 DEF u, c
  <2>5. /\ Box(t, s, Upto(q, m + 1)) \in Areas /\ Box(t, s, Upto(q, m)) \in Areas
        /\ Box(t, s, Upto(q, n)) \in Areas
    BY <1>1, <2>1
  <2>6. Within(Box(t, s, Upto(q, m + 1)), Box(t, s, Upto(q, n))) BY <2>2, <2>4, <2>5, WithinWithin
  <2> QED BY <2>1, <2>6
<1>4. Nat \subseteq S
  <2> HIDE DEF S
  <2> QED BY <1>2, <1>3, SetInduction
<1>5. Len(q) - n \in Nat /\ n + (Len(q) - n) = Len(q) BY <1>0
<1>6. W(Len(q))
  <2> HIDE DEF W
  <2> QED BY <1>4, <1>5
<1> QED BY <1>0, <1>1, <1>6, UptoEnds

-----------------------------------------------------------------------------
(* The tiles: the rectangles of shown leaves and the borders of cuts.      *)

TilesOf(t, s) ==
  LET rects == Rects(t, s)
      borders == Borders(t, s)
  IN [q \in DOMAIN rects \cup DOMAIN borders |->
        IF q \in DOMAIN rects THEN rects[q] ELSE borders[q]]

Area(t, s, q) == IF q \in DOMAIN t.leaf THEN Box(t, s, q) ELSE Border(Box(t, s, q), t.split[q])

Spans(r, a) == r.x = a.x /\ r.y = a.y /\ r.rows = a.rows /\ r.cols = a.cols

LEMMA RectIs ==
  ASSUME NEW p, NEW a \in Areas
  PROVE  Rect(p, a).pane = p /\ Spans(Rect(p, a), a)
<1>1. Larger(a.rows, 1) = a.rows /\ Larger(a.cols, 1) = a.cols BY AreaIs DEF Larger
<1> QED BY <1>1 DEF Rect, Spans

LEMMA RectsAre ==
  ASSUME NEW t, Tree(t), NEW s \in Screens
  PROVE  /\ DOMAIN Rects(t, s) = {q \in DOMAIN t.leaf : Shown(t, s, q)}
         /\ \A q \in DOMAIN Rects(t, s) :
              /\ Rects(t, s)[q] = Rect(t.leaf[q], Box(t, s, q))
              /\ Rects(t, s)[q].pane = t.leaf[q]
              /\ Box(t, s, q) \in Areas /\ Spans(Rects(t, s)[q], Box(t, s, q))
<1>1. /\ DOMAIN Rects(t, s) = {q \in DOMAIN t.leaf : Shown(t, s, q)}
      /\ \A q \in DOMAIN Rects(t, s) : Rects(t, s)[q] = Rect(t.leaf[q], Box(t, s, q))
  BY DEF Rects
<1>2. ASSUME NEW q \in DOMAIN Rects(t, s)
      PROVE  Box(t, s, q) \in Areas /\ Rects(t, s)[q].pane = t.leaf[q]
             /\ Spans(Rects(t, s)[q], Box(t, s, q))
  <2>1. q \in Nodes(t) BY <1>1 DEF Nodes
  <2>2. Box(t, s, q) \in Areas BY <2>1, BoxIs
  <2> QED BY <1>1, <2>2, RectIs
<1> QED BY <1>1, <1>2

LEMMA TileIs ==
  ASSUME NEW t, Tree(t), NEW s \in Screens, NEW q
  PROVE  /\ q \in DOMAIN TilesOf(t, s) <=>
              /\ q \in Nodes(t) /\ Shown(t, s, q)
              /\ q \in DOMAIN t.split => Cut(t, s, q)
         /\ q \in DOMAIN TilesOf(t, s) =>
              /\ Area(t, s, q) \in Areas /\ Within(Area(t, s, q), Box(t, s, q))
              /\ Spans(TilesOf(t, s)[q], Area(t, s, q))
<1> DEFINE D == DOMAIN Rects(t, s)
           E == DOMAIN Borders(t, s)
<1>1. /\ DOMAIN TilesOf(t, s) = D \cup E
      /\ \A r \in D \cup E : TilesOf(t, s)[r] = IF r \in D THEN Rects(t, s)[r] ELSE Borders(t, s)[r]
  BY DEF TilesOf
<1>2. D = {r \in DOMAIN t.leaf : Shown(t, s, r)} BY RectsAre
<1>3. /\ E = {r \in DOMAIN t.split : Shown(t, s, r) /\ Cut(t, s, r)}
      /\ \A r \in E : Borders(t, s)[r] = Border(Box(t, s, r), t.split[r])
  BY DEF Borders
<1> HIDE DEF D, E
<1>4. DOMAIN t.leaf \cap DOMAIN t.split = {} BY DEF Tree
<1>5. q \in DOMAIN TilesOf(t, s) <=>
        q \in Nodes(t) /\ Shown(t, s, q) /\ (q \in DOMAIN t.split => Cut(t, s, q))
  BY <1>1, <1>2, <1>3, <1>4 DEF Nodes
<1>6. CASE q \in D
  <2>1. Box(t, s, q) \in Areas /\ Spans(Rects(t, s)[q], Box(t, s, q)) BY <1>6, RectsAre DEF D
  <2>2. Area(t, s, q) = Box(t, s, q) BY <1>2, <1>6 DEF Area
  <2>3. Within(Box(t, s, q), Box(t, s, q)) BY <2>1, AreaIs DEF Within
  <2> QED BY <1>1, <1>5, <1>6, <2>1, <2>2, <2>3
<1>7. CASE q \in E
  <2>1. q \in DOMAIN t.split /\ Cut(t, s, q) /\ q \notin DOMAIN t.leaf BY <1>3, <1>4, <1>7
  <2>2. Area(t, s, q) = Border(Box(t, s, q), t.split[q]) BY <2>1 DEF Area
  <2>3. Area(t, s, q) \in Areas /\ Within(Area(t, s, q), Box(t, s, q)) BY <2>1, <2>2, BoxSplits
  <2>4. TilesOf(t, s)[q] = Area(t, s, q) BY <1>1, <1>2, <1>3, <1>7, <2>1, <2>2
  <2>5. Spans(TilesOf(t, s)[q], Area(t, s, q)) BY <2>4 DEF Spans
  <2> QED BY <1>5, <2>3, <2>5
<1> QED BY <1>1, <1>5, <1>6, <1>7

\* Of two parts of a split that are both shown, one is the second: so it is cut.
LEMMA PartsShown ==
  ASSUME NEW t, NEW s, NEW q \in Path, NEW r \in Path, Shown(t, s, q), Shown(t, s, r),
         NEW n \in Nat, Parts(q, r, n)
  PROVE  Cut(t, s, Upto(q, n))
<1>0. /\ Len(q) \in Nat /\ Len(r) \in Nat /\ n + 1 \in 1 .. Len(q) /\ n + 1 \in 1 .. Len(r)
      /\ Upto(q, n) = Upto(r, n) /\ q[n + 1] # r[n + 1] /\ (n + 1) - 1 = n
  BY PathIs DEF Parts
<1>1. q[n + 1] \in {1, 2} /\ r[n + 1] \in {1, 2} BY <1>0, PathIs
<1>2. q[n + 1] = 2 => Cut(t, s, Upto(q, n)) BY <1>0 DEF Shown, Upto
<1>3. r[n + 1] = 2 => Cut(t, s, Upto(r, n)) BY <1>0 DEF Shown, Upto
<1> QED BY <1>0, <1>1, <1>2, <1>3

LEMMA PartedApart ==
  ASSUME NEW t, Tree(t), NEW s \in Screens, NEW q \in Nodes(t), NEW r \in Nodes(t),
         Shown(t, s, q), Shown(t, s, r), NEW n \in Nat, Parts(q, r, n)
  PROVE  Disjoint(Box(t, s, q), Box(t, s, r))
<1>0. q \in Path /\ r \in Path /\ Len(q) \in Nat /\ Len(r) \in Nat BY TreeIs, PathIs DEF Tree
<1> DEFINE u == Upto(q, n)
           c == q[n + 1]
           e == r[n + 1]
<1>1. n \in 0 .. Len(q) - 1 /\ n \in 0 .. Len(r) - 1 /\ u = Upto(r, n) /\ c # e BY DEF Parts
<1>2. /\ c \in {1, 2} /\ n + 1 \in 0 .. Len(q) /\ Upto(q, n + 1) = Append(u, c)
      /\ e \in {1, 2} /\ n + 1 \in 0 .. Len(r) /\ Upto(r, n + 1) = Append(u, e)
  BY <1>0, <1>1, UptoNext
<1>3. u \in DOMAIN t.split BY <1>1, NodePrefix
<1>4. Cut(t, s, u) BY <1>0, PartsShown
<1>5. /\ Box(t, s, Append(u, c)) \in Areas /\ Within(Box(t, s, q), Box(t, s, Append(u, c)))
      /\ Box(t, s, Append(u, e)) \in Areas /\ Within(Box(t, s, r), Box(t, s, Append(u, e)))
  BY <1>2, BoxWithin
<1> HIDE DEF u, c, e
<1>6. Disjoint(Box(t, s, Append(u, 1)), Box(t, s, Append(u, 2))) BY <1>3, <1>4, BoxSplits
<1>7. Disjoint(Box(t, s, Append(u, c)), Box(t, s, Append(u, e)))
  <2>1. CASE c = 1 BY <1>1, <1>2, <1>6, <2>1
  <2>2. CASE c = 2
    <3>1. e = 1 BY <1>1, <1>2, <2>2
    <3> QED BY <1>5, <1>6, <2>2, <3>1, DisjointSides
  <2> QED BY <1>2, <2>1, <2>2
<1>8. Box(t, s, q) \in Areas /\ Box(t, s, r) \in Areas BY BoxIs
<1> QED BY <1>5, <1>7, <1>8, DisjointWithin

\* A border is apart from all that is below its split.
LEMMA BorderApart ==
  ASSUME NEW t, Tree(t), NEW s \in Screens, NEW q \in DOMAIN t.split, NEW r \in Nodes(t),
         Cut(t, s, q), GoesOn(q, r)
  PROVE  Disjoint(Border(Box(t, s, q), t.split[q]), Box(t, s, r))
<1>0. q \in Path /\ r \in Path /\ Len(q) \in Nat /\ Len(r) \in Nat BY TreeIs, PathIs DEF Tree
<1> DEFINE n == Len(q)
           c == r[n + 1]
           d == Border(Box(t, s, q), t.split[q])
           b == Box(t, s, Append(q, c))
<1>1. n \in 0 .. Len(r) - 1 /\ Upto(r, n) = q BY <1>0 DEF GoesOn
<1>2. c \in {1, 2} /\ n + 1 \in 0 .. Len(r) /\ Upto(r, n + 1) = Append(q, c)
  BY <1>0, <1>1, UptoNext
<1>3. b \in Areas /\ Within(Box(t, s, r), b) BY <1>2, BoxWithin
<1> HIDE DEF c, n
<1>4. d \in Areas /\ Disjoint(b, d) BY <1>2, BoxSplits
<1> HIDE DEF d, b
<1>5. Box(t, s, r) \in Areas BY BoxIs
<1>6. Within(d, d) BY <1>4, AreaIs DEF Within
<1>7. Disjoint(Box(t, s, r), d) BY <1>3, <1>4, <1>5, <1>6, DisjointWithin
<1> QED BY <1>4, <1>5, <1>7, DisjointSides DEF d

LEMMA TilesApart ==
  ASSUME NEW t, Tree(t), NEW s \in Screens,
         NEW q \in DOMAIN TilesOf(t, s), NEW r \in DOMAIN TilesOf(t, s), q # r
  PROVE  Disjoint(Area(t, s, q), Area(t, s, r))
<1>1. \A x \in {q, r} :
        /\ x \in Nodes(t) /\ Shown(t, s, x) /\ (x \in DOMAIN t.split => Cut(t, s, x))
        /\ Area(t, s, x) \in Areas /\ Within(Area(t, s, x), Box(t, s, x)) /\ Box(t, s, x) \in Areas
  BY TileIs, BoxIs
<1>2. q \in Path /\ r \in Path BY <1>1, TreeIs DEF Tree
<1>3. ASSUME NEW x \in {q, r}, NEW y \in {q, r}, GoesOn(x, y)
      PROVE  Disjoint(Area(t, s, x), Area(t, s, y))
  <2>1. x \in Path /\ y \in Path /\ Len(x) \in Nat /\ Len(y) \in Nat BY <1>2, PathIs
  <2>2. Len(x) \in 0 .. Len(y) - 1 /\ Upto(y, Len(x)) = x BY <1>3, <2>1 DEF GoesOn
  <2>3. x \in DOMAIN t.split /\ x \notin DOMAIN t.leaf
    <3>1. x \in DOMAIN t.split BY <1>1, <2>2, NodePrefix
    <3> QED BY <3>1 DEF Tree
  <2>4. Disjoint(Border(Box(t, s, x), t.split[x]), Box(t, s, y)) BY <1>1, <1>3, <2>3, BorderApart
  <2>5. Area(t, s, x) = Border(Box(t, s, x), t.split[x]) BY <2>3 DEF Area
  <2>6. Within(Area(t, s, x), Area(t, s, x)) BY <1>1, AreaIs DEF Within
  <2> QED BY <1>1, <2>4, <2>5, <2>6, DisjointWithin
<1>4. CASE GoesOn(q, r) BY <1>3, <1>4
<1>5. CASE GoesOn(r, q) BY <1>1, <1>3, <1>5, DisjointSides
<1>6. CASE \E n \in Nat : Parts(q, r, n)
  <2>1. Disjoint(Box(t, s, q), Box(t, s, r)) BY <1>1, <1>6, PartedApart
  <2> QED BY <1>1, <2>1, DisjointWithin
<1> QED BY <1>2, <1>4, <1>5, <1>6, TwoPaths

LEMMA TilesCover ==
  ASSUME NEW t, Tree(t), NEW s \in Screens, NEW x \in 0 .. s[2] - 1, NEW y \in 0 .. s[1] - 1
  PROVE  \E q \in DOMAIN TilesOf(t, s) : Holds(Area(t, s, q), x, y)
<1> DEFINE W == {q \in Nodes(t) : Shown(t, s, q) /\ Holds(Box(t, s, q), x, y)}
<1>0. Nodes(t) \subseteq Path /\ DOMAIN t.leaf \cap DOMAIN t.split = {} BY TreeIs DEF Tree
<1>1. <<>> \in W
  <2>1. /\ s[1] \in Nat /\ s[2] \in Nat /\ Whole(s).x = 0 /\ Whole(s).y = 0
        /\ Whole(s).rows = s[1] /\ Whole(s).cols = s[2]
    BY WholeIs
  <2>2. Holds(Whole(s), x, y) BY <2>1 DEF Holds
  <2>3. <<>> \in Nodes(t) /\ Shown(t, s, <<>>) BY ShownRoot DEF Tree
  <2> QED BY <2>2, <2>3, BoxRoot
<1> SUFFICES ASSUME \A q \in DOMAIN TilesOf(t, s) : ~ Holds(Area(t, s, q), x, y)
             PROVE  FALSE
  OBVIOUS
<1>2. ASSUME NEW q \in W \cap DOMAIN t.split PROVE \E c \in {1, 2} : Append(q, c) \in W
  <2>1. /\ q \in Nodes(t) /\ q \in Path /\ Shown(t, s, q) /\ Holds(Box(t, s, q), x, y)
        /\ \A c \in {1, 2} : Append(q, c) \in Nodes(t)
    BY <1>0 DEF Tree
  <2>2. \A c \in {1, 2} : Box(t, s, Append(q, c)) = Part(Box(t, s, q), t.split[q], c)
    BY BoxSplits
  <2>3. CASE ~ Cut(t, s, q)
    <3>1. Shown(t, s, Append(q, 1)) BY <2>1, ShownPart
    <3>2. Box(t, s, Append(q, 1)) = Box(t, s, q) BY <2>2, <2>3, BoxSplits
    <3> QED BY <2>1, <3>1, <3>2
  <2>4. CASE Cut(t, s, q)
    <3>1. \A c \in {1, 2} : Shown(t, s, Append(q, c)) BY <2>1, <2>4, ShownPart
    <3>2. q \in DOMAIN TilesOf(t, s) BY <2>1, <2>4, TileIs
    <3>3. Area(t, s, q) = Border(Box(t, s, q), t.split[q]) BY <1>0 DEF Area
    <3>4. ~ Holds(Border(Box(t, s, q), t.split[q]), x, y) BY <3>2, <3>3
    <3>5. x \in Int /\ y \in Int OBVIOUS
    <3>6. \E c \in {1, 2} : Holds(Part(Box(t, s, q), t.split[q], c), x, y)
      BY <2>1, <2>4, <3>4, <3>5, BoxSplits
    <3> QED BY <2>1, <2>2, <3>1, <3>6
  <2> QED BY <2>3, <2>4
<1>3. W \in SUBSET Nodes(t) OBVIOUS
<1>4. PICK q \in W : q \in DOMAIN t.leaf
  <2> HIDE DEF W
  <2> QED BY <1>1, <1>2, <1>3, Descent
<1>5. q \in Nodes(t) /\ Shown(t, s, q) /\ Holds(Box(t, s, q), x, y) BY <1>4
<1>6. q \in DOMAIN TilesOf(t, s) BY <1>0, <1>4, <1>5, TileIs
<1>7. Area(t, s, q) = Box(t, s, q) BY <1>4 DEF Area
<1> QED BY <1>5, <1>6, <1>7

\* The tiles lie in the screen, apart, and every cell is of one.
LEMMA TilesAre ==
  ASSUME NEW t, Tree(t), NEW s \in Screens
  PROVE  LET tiles == TilesOf(t, s) IN
         /\ \A q \in DOMAIN tiles :
              /\ tiles[q].x \in Nat /\ tiles[q].y \in Nat /\ tiles[q].rows \in Nat
              /\ tiles[q].cols \in Nat /\ Inside(tiles[q], s)
         /\ \A q, r \in DOMAIN tiles : q # r => Disjoint(tiles[q], tiles[r])
         /\ \A x \in 0 .. s[2] - 1, y \in 0 .. s[1] - 1 :
              \E q \in DOMAIN tiles : Holds(tiles[q], x, y)
<1> DEFINE tiles == TilesOf(t, s)
<1>1. \A q \in DOMAIN tiles :
        /\ q \in Nodes(t) /\ Area(t, s, q) \in Areas /\ Within(Area(t, s, q), Box(t, s, q))
        /\ Spans(tiles[q], Area(t, s, q)) /\ Box(t, s, q) \in Areas
  BY TileIs, BoxIs
<1>2. ASSUME NEW q \in DOMAIN tiles
      PROVE  /\ tiles[q].x \in Nat /\ tiles[q].y \in Nat /\ tiles[q].rows \in Nat
             /\ tiles[q].cols \in Nat /\ Inside(tiles[q], s)
  <2>1. q \in Path /\ Len(q) \in Nat /\ 0 \in 0 .. Len(q) BY <1>1, TreeIs, PathIs DEF Tree
  <2>2. Within(Box(t, s, q), Box(t, s, Upto(q, 0))) BY <1>1, <2>1, BoxWithin
  <2>3. Box(t, s, Upto(q, 0)) = Whole(s) BY <2>1, UptoEnds, BoxRoot
  <2>4. Within(Area(t, s, q), Whole(s)) BY <1>1, <2>2, <2>3, WholeIs, WithinWithin
  <2>5. Spans(tiles[q], Area(t, s, q)) /\ Area(t, s, q) \in Areas BY <1>1
  <2> HIDE DEF tiles
  <2> QED BY <2>4, <2>5, AreaIs, WholeIs DEF Spans, Within, Inside
<1>3. ASSUME NEW q \in DOMAIN tiles, NEW r \in DOMAIN tiles, q # r
      PROVE  Disjoint(tiles[q], tiles[r])
  <2>1. Disjoint(Area(t, s, q), Area(t, s, r)) BY <1>3, TilesApart
  <2>2. Spans(tiles[q], Area(t, s, q)) /\ Spans(tiles[r], Area(t, s, r)) BY <1>1
  <2> HIDE DEF tiles
  <2> QED BY <2>1, <2>2 DEF Spans, Disjoint
<1>4. ASSUME NEW x \in 0 .. s[2] - 1, NEW y \in 0 .. s[1] - 1
      PROVE  \E q \in DOMAIN tiles : Holds(tiles[q], x, y)
  <2>1. PICK q \in DOMAIN tiles : Holds(Area(t, s, q), x, y) BY TilesCover
  <2>2. Spans(tiles[q], Area(t, s, q)) BY <1>1
  <2> HIDE DEF tiles
  <2> QED BY <2>1, <2>2 DEF Spans, Holds
<1> QED BY <1>2, <1>3, <1>4

-----------------------------------------------------------------------------
(* The nearest pane.                                                       *)

\* A finite set that an order makes a chain has a first element.
LEMMA FirstOf ==
  ASSUME NEW S, IsFiniteSet(S), S # {}, NEW R,
         \A a, b, c \in S : <<a, b>> \in R /\ <<b, c>> \in R => <<a, c>> \in R,
         \A a, b \in S : a # b => <<a, b>> \in R \/ <<b, a>> \in R
  PROVE  \E m \in S : \A r \in S \ {m} : <<m, r>> \in R
<1> DEFINE Has(T) == \E m \in T : \A r \in T \ {m} : <<m, r>> \in R
           N == {n \in Nat : \A T \in SUBSET S : T # {} /\ Cardinality(T) <= n => Has(T)}
<1>0. \A T \in SUBSET S : IsFiniteSet(T) /\ Cardinality(T) \in Nat
  BY FS_Subset, FS_CardinalityType
<1>1. 0 \in N
  <2> SUFFICES ASSUME NEW T \in SUBSET S, T # {}, Cardinality(T) <= 0 PROVE FALSE
    OBVIOUS
  <2>1. Cardinality(T) = 0 BY <1>0
  <2> QED BY <1>0, <2>1, FS_EmptySet
<1>2. ASSUME NEW n \in Nat, n \in N PROVE n + 1 \in N
  <2> SUFFICES ASSUME NEW T \in SUBSET S, T # {}, Cardinality(T) <= n + 1 PROVE Has(T)
    BY <1>2
  <2>1. PICK x \in T : TRUE OBVIOUS
  <2> DEFINE U == T \ {x}
  <2>2. U \in SUBSET S /\ Cardinality(U) <= n
    <3>1. Cardinality(U) = Cardinality(T) - 1 BY <1>0, <2>1, FS_RemoveElement
    <3> QED BY <1>0, <3>1
  <2>3. CASE U = {} BY <2>1, <2>3
  <2>4. CASE U # {}
    <3>1. Has(U) BY <1>2, <2>2, <2>4
    <3>2. PICK m \in U : \A r \in U \ {m} : <<m, r>> \in R BY <3>1
    <3>3. CASE <<m, x>> \in R BY <2>1, <3>2, <3>3
    <3>4. CASE <<x, m>> \in R
      <4>1. \A r \in T \ {x} : <<x, r>> \in R BY <2>1, <3>2, <3>4
      <4> QED BY <2>1, <4>1
    <3> QED BY <2>1, <3>2, <3>3, <3>4
  <2> QED BY <2>3, <2>4
<1>3. Nat \subseteq N
  <2> HIDE DEF N
  <2> QED BY <1>1, <1>2, SetInduction
<1>4. Has(S) BY <1>0, <1>3
<1> QED BY <1>4

\* Of two leaves one is before the other.
LEMMA LeavesInOrder ==
  ASSUME NEW t, Tree(t), NEW q \in DOMAIN t.leaf, NEW r \in DOMAIN t.leaf, q # r
  PROVE  Before(q, r) \/ Before(r, q)
<1>0. q \in Path /\ r \in Path /\ q \in Nodes(t) /\ r \in Nodes(t) BY TreeIs DEF Tree, Nodes
<1>1. Len(q) \in Nat /\ Len(r) \in Nat /\ DOMAIN q = 1 .. Len(q) /\ DOMAIN r = 1 .. Len(r)
  BY <1>0, PathIs
<1>2. ~ GoesOn(q, r)
  <2> SUFFICES ASSUME GoesOn(q, r) PROVE FALSE
    OBVIOUS
  <2>1. Len(q) \in 0 .. Len(r) - 1 /\ Upto(r, Len(q)) = q BY <1>1 DEF GoesOn
  <2> QED BY <1>0, <2>1, LeafEnds
<1>3. ~ GoesOn(r, q)
  <2> SUFFICES ASSUME GoesOn(r, q) PROVE FALSE
    OBVIOUS
  <2>1. Len(r) \in 0 .. Len(q) - 1 /\ Upto(q, Len(r)) = r BY <1>1 DEF GoesOn
  <2> QED BY <1>0, <2>1, LeafEnds
<1>4. PICK n \in Nat : Parts(q, r, n) BY <1>0, <1>2, <1>3, TwoPaths
<1> DEFINE i == n + 1
<1>5. /\ i \in 1 .. Len(q) /\ i \in 1 .. Len(r) /\ i - 1 = n
      /\ Upto(q, n) = Upto(r, n) /\ q[i] # r[i]
  BY <1>1, <1>4 DEF Parts
<1>6. i \in DOMAIN q \cap DOMAIN r /\ SubSeq(q, 1, i - 1) = SubSeq(r, 1, i - 1)
  BY <1>1, <1>5 DEF Upto
<1>7. q[i] \in {1, 2} /\ r[i] \in {1, 2} BY <1>0, <1>5, PathIs
<1> HIDE DEF i
<1>8. q[i] < r[i] \/ r[i] < q[i] BY <1>5, <1>7
<1> QED BY <1>6, <1>8 DEF Before

LEMMA BeforeBefore ==
  ASSUME NEW q \in Path, NEW r \in Path, NEW w \in Path, Before(q, r), Before(r, w)
  PROVE  Before(q, w)
<1>0. /\ Len(q) \in Nat /\ Len(r) \in Nat /\ Len(w) \in Nat
      /\ DOMAIN q = 1 .. Len(q) /\ DOMAIN r = 1 .. Len(r) /\ DOMAIN w = 1 .. Len(w)
  BY PathIs
<1>1. PICK i \in DOMAIN q \cap DOMAIN r : q[i] < r[i] /\ Upto(q, i - 1) = Upto(r, i - 1)
  BY DEF Before, Upto
<1>2. PICK j \in DOMAIN r \cap DOMAIN w : r[j] < w[j] /\ Upto(r, j - 1) = Upto(w, j - 1)
  BY DEF Before, Upto
<1>3. /\ i \in 1 .. Len(q) /\ i \in 1 .. Len(r) /\ i \in Nat
      /\ j \in 1 .. Len(r) /\ j \in 1 .. Len(w) /\ j \in Nat
  BY <1>0
<1>4. /\ i - 1 \in 0 .. Len(q) /\ i - 1 \in 0 .. Len(r)
      /\ j - 1 \in 0 .. Len(r) /\ j - 1 \in 0 .. Len(w)
  BY <1>0, <1>3
<1>5. q[i] \in Int /\ r[i] \in Int /\ r[j] \in Int /\ w[j] \in Int
  <2>1. q[i] \in {1, 2} /\ r[i] \in {1, 2} /\ r[j] \in {1, 2} /\ w[j] \in {1, 2} BY <1>3, PathIs
  <2> QED BY <2>1
<1>6. CASE i < j
  <2>1. i - 1 \in 0 .. j - 1 /\ i \in 1 .. j - 1 /\ i \in DOMAIN w BY <1>0, <1>3, <1>6
  <2>2. Upto(Upto(r, j - 1), i - 1) = Upto(r, i - 1) /\ Upto(Upto(w, j - 1), i - 1) = Upto(w, i - 1)
    BY <1>4, <2>1, UptoUpto
  <2>3. Upto(r, j - 1)[i] = r[i] /\ Upto(w, j - 1)[i] = w[i] BY <1>4, <2>1, UptoIs
  <2>4. q[i] < w[i] /\ Upto(q, i - 1) = Upto(w, i - 1) BY <1>1, <1>2, <2>2, <2>3
  <2> QED BY <2>1, <2>4 DEF Before, Upto
<1>7. CASE i = j
  <2>1. q[i] < w[i] /\ Upto(q, i - 1) = Upto(w, i - 1) BY <1>1, <1>2, <1>5, <1>7
  <2> QED BY <1>7, <2>1 DEF Before, Upto
<1>8. CASE j < i
  <2>1. j - 1 \in 0 .. i - 1 /\ j \in 1 .. i - 1 /\ j \in DOMAIN q BY <1>0, <1>3, <1>8
  <2>2. Upto(Upto(q, i - 1), j - 1) = Upto(q, j - 1) /\ Upto(Upto(r, i - 1), j - 1) = Upto(r, j - 1)
    BY <1>4, <2>1, UptoUpto
  <2>3. Upto(q, i - 1)[j] = q[j] /\ Upto(r, i - 1)[j] = r[j] BY <1>4, <2>1, UptoIs
  <2>4. q[j] < w[j] /\ Upto(q, j - 1) = Upto(w, j - 1) BY <1>1, <1>2, <2>2, <2>3
  <2> QED BY <2>1, <2>4 DEF Before, Upto
<1> QED BY <1>3, <1>6, <1>7, <1>8

\* What Apart measures is two numbers.
LEMMA ApartIs ==
  ASSUME NEW dir, NEW r, NEW from, NEW a \in Areas, NEW b \in Areas, Spans(r, a), Spans(from, b)
  PROVE  \E m, n \in Int : Apart(dir, r, from) = <<m, n>>
<1> DEFINE dx == Gap(r.x + r.cols \div 2, from.x + from.cols \div 2)
           dy == Gap(r.y + r.rows \div 2, from.y + from.rows \div 2)
<1>1. /\ r.x \in Nat /\ r.y \in Nat /\ r.rows \in Nat /\ r.cols \in Nat
      /\ from.x \in Nat /\ from.y \in Nat /\ from.rows \in Nat /\ from.cols \in Nat
  BY AreaIs DEF Spans
<1>2. dx \in Int /\ dy \in Int BY <1>1 DEF Gap
<1>3. Apart(dir, r, from) = IF dir \in {"left", "right"} THEN <<dx, dy>> ELSE <<dy, dx>>
  BY DEF Apart
<1> HIDE DEF dx, dy
<1> QED BY <1>2, <1>3

\* The panes that lie in the direction of a shown one, and the one of them that is
\* chosen: no other is nearer.
There(t, s, dir, q) ==
  {r \in DOMAIN Rects(t, s) : Lies(dir, Rects(t, s)[r], Rects(t, s)[q])}

LEMMA NeighborIs ==
  ASSUME NEW t, Tree(t), NEW panes, Leaves(t, panes), IsFiniteSet(panes), NEW p \in panes,
         NEW s \in Screens, NEW dir
  PROVE  LET q == PathOf(t, p)
             rects == Rects(t, s)
             to == FocusNeighbor(t, p, dir, s)
         IN /\ to \in panes
            /\ q \notin DOMAIN rects => to = p
            /\ q \in DOMAIN rects /\ There(t, s, dir, q) = {} => to = p
            /\ q \in DOMAIN rects /\ There(t, s, dir, q) # {} =>
                 /\ PathOf(t, to) \in There(t, s, dir, q)
                 /\ \A r \in There(t, s, dir, q) :
                      ~ Nearer(Apart(dir, rects[r], rects[q]),
                               Apart(dir, rects[PathOf(t, to)], rects[q]))
<1> DEFINE q == PathOf(t, p)
           rects == Rects(t, s)
           to == FocusNeighbor(t, p, dir, s)
           from == {r \in DOMAIN rects : rects[r].pane = p}
           there == {r \in DOMAIN rects : \E f \in from : Lies(dir, rects[r], rects[f])}
           Distance(r) == Apart(dir, rects[r], rects[CHOOSE f \in from : TRUE])
           Sooner(r, w) == \/ Nearer(Distance(r), Distance(w))
                           \/ Distance(r) = Distance(w) /\ Before(r, w)
           next == CHOOSE r \in there : \A w \in there \ {r} : Sooner(r, w)
<1>1. to = IF there = {} THEN p ELSE rects[next].pane BY DEF FocusNeighbor
<1>2. /\ DOMAIN rects \subseteq DOMAIN t.leaf
      /\ \A r \in DOMAIN rects :
           rects[r].pane = t.leaf[r] /\ Box(t, s, r) \in Areas /\ Spans(rects[r], Box(t, s, r))
  BY RectsAre
<1>3. q \in DOMAIN t.leaf /\ t.leaf[q] = p /\ \A r \in DOMAIN t.leaf : t.leaf[r] = p => r = q
  BY PathOfIs
<1> HIDE DEF q, rects, to
<1>4. from = IF q \in DOMAIN rects THEN {q} ELSE {} BY <1>2, <1>3
<1>5. CASE q \notin DOMAIN rects
  <2>1. there = {} BY <1>4, <1>5
  <2>2. to = p BY <1>1, <2>1
  <2> QED BY <1>5, <2>2 DEF q, rects, to
<1>6. CASE q \in DOMAIN rects
  <2>1. from = {q} /\ (CHOOSE f \in from : TRUE) = q BY <1>4, <1>6
  <2>2. there = There(t, s, dir, q) BY <2>1 DEF There, rects
  <2>3. CASE there = {}
    <3>1. to = p BY <1>1, <2>3
    <3> QED BY <1>6, <2>2, <2>3, <3>1 DEF q, rects, to
  <2>4. CASE there # {}
    <3>2. \A r \in DOMAIN rects : \E m, n \in Int : Distance(r) = <<m, n>>
      BY <1>2, <1>6, <2>1, ApartIs
    <3>3. there \subseteq DOMAIN t.leaf /\ there \subseteq DOMAIN rects BY <1>2
    <3>4. IsFiniteSet(there)
      <4> DEFINE f == [r \in there |-> t.leaf[r]]
      <4>1. f \in [there -> panes] /\ \A a, b \in there : f[a] = f[b] => a = b
        BY <3>3 DEF Leaves
      <4>2. DOMAIN f = there OBVIOUS
      <4> HIDE DEF f, there
      <4>3. f \in Injection(there, panes) BY <4>1, <4>2 DEF Injection, IsInjective
      <4> QED BY <4>3, FS_Injection
    <3>5. there \subseteq Path BY <3>3, TreeIs DEF Tree
    <3> DEFINE R == {e \in there \X there : Sooner(e[1], e[2])}
    <3>6. ASSUME NEW a \in there, NEW b \in there, NEW c \in there, Sooner(a, b), Sooner(b, c)
          PROVE  Sooner(a, c)
      <4>1. PICK a1 \in Int, a2 \in Int : Distance(a) = <<a1, a2>> BY <3>2, <3>3
      <4>2. PICK b1 \in Int, b2 \in Int : Distance(b) = <<b1, b2>> BY <3>2, <3>3
      <4>3. PICK c1 \in Int, c2 \in Int : Distance(c) = <<c1, c2>> BY <3>2, <3>3
      <4>4. a \in Path /\ b \in Path /\ c \in Path BY <3>5
      <4>5. Before(a, b) /\ Before(b, c) => Before(a, c) BY <4>4, BeforeBefore
      <4>6. \/ a1 < b1 \/ (a1 = b1 /\ a2 < b2)
            \/ a1 = b1 /\ a2 = b2 /\ Before(a, b)
        <5> HIDE DEF Distance
        <5> QED BY <3>6, <4>1, <4>2 DEF Nearer
      <4>7. \/ b1 < c1 \/ (b1 = c1 /\ b2 < c2)
            \/ b1 = c1 /\ b2 = c2 /\ Before(b, c)
        <5> HIDE DEF Distance
        <5> QED BY <3>6, <4>2, <4>3 DEF Nearer
      <4>8. \/ a1 < c1 \/ (a1 = c1 /\ a2 < c2)
            \/ a1 = c1 /\ a2 = c2 /\ Before(a, c)
        BY <4>5, <4>6, <4>7
      <4> HIDE DEF Distance
      <4> QED BY <4>1, <4>3, <4>8 DEF Nearer
    <3>7. ASSUME NEW a \in there, NEW b \in there, a # b PROVE Sooner(a, b) \/ Sooner(b, a)
      <4>1. PICK a1 \in Int, a2 \in Int : Distance(a) = <<a1, a2>> BY <3>2, <3>3
      <4>2. PICK b1 \in Int, b2 \in Int : Distance(b) = <<b1, b2>> BY <3>2, <3>3
      <4>3. Before(a, b) \/ Before(b, a) BY <3>3, <3>7, LeavesInOrder
      <4>4. a1 < b1 \/ b1 < a1 \/ (a1 = b1 /\ (a2 < b2 \/ b2 < a2 \/ a2 = b2)) OBVIOUS
      <4> HIDE DEF Distance
      <4> QED BY <4>1, <4>2, <4>3, <4>4 DEF Nearer
    <3>8. \A a, b \in there : <<a, b>> \in R <=> Sooner(a, b)
      <4> HIDE DEF there, Sooner
      <4> QED OBVIOUS
    <3>9. \E m \in there : \A r \in there \ {m} : <<m, r>> \in R
      <4> HIDE DEF there, R, Sooner
      <4>1. \A a, b, c \in there : <<a, b>> \in R /\ <<b, c>> \in R => <<a, c>> \in R
        BY <3>6, <3>8
      <4>2. \A a, b \in there : a # b => <<a, b>> \in R \/ <<b, a>> \in R BY <3>7, <3>8
      <4> QED BY <2>4, <3>4, <4>1, <4>2, FirstOf
    <3>10. next \in there /\ \A w \in there \ {next} : Sooner(next, w)
      <4> HIDE DEF there, R, Sooner
      <4>1. \E m \in there : \A r \in there \ {m} : Sooner(m, r) BY <3>8, <3>9
      <4> QED BY <4>1
    <3>11. to = rects[next].pane /\ next \in DOMAIN t.leaf BY <1>1, <2>4, <3>3, <3>10
    <3>12. to = t.leaf[next] /\ to \in panes
      <4>1. next \in DOMAIN rects BY <3>3, <3>10
      <4> HIDE DEF next, there, from
      <4>2. to = t.leaf[next] BY <1>2, <3>11, <4>1
      <4>3. t.leaf[next] \in panes BY <3>11 DEF Leaves
      <4> QED BY <4>2, <4>3
    <3>13. PathOf(t, to) = next BY <3>11, <3>12, PathOfIs
    <3>14. ASSUME NEW r \in there
           PROVE  ~ Nearer(Apart(dir, rects[r], rects[q]), Apart(dir, rects[next], rects[q]))
      <4>1. PICK a1 \in Int, a2 \in Int : Distance(r) = <<a1, a2>> BY <3>2, <3>3
      <4>2. PICK b1 \in Int, b2 \in Int : Distance(next) = <<b1, b2>> BY <3>2, <3>3, <3>10
      <4>3. Distance(r) = Apart(dir, rects[r], rects[q])
            /\ Distance(next) = Apart(dir, rects[next], rects[q])
        BY <2>1
      <4>4. r = next \/ Sooner(next, r)
        <5> HIDE DEF there, Sooner, next
        <5> QED BY <3>10
      <4> HIDE DEF Distance, next, there
      <4>5. r = next => a1 = b1 /\ a2 = b2 BY <4>1, <4>2
      <4>6. Sooner(next, r) => b1 < a1 \/ (b1 = a1 /\ b2 <= a2)
        BY <4>1, <4>2 DEF Nearer
      <4>7. ~ (a1 < b1 \/ (a1 = b1 /\ a2 < b2)) BY <4>4, <4>5, <4>6
      <4> QED BY <4>1, <4>2, <4>3, <4>7 DEF Nearer
    <3>15. next \in there BY <3>10
    <3> HIDE DEF there, next
    <3> QED BY <1>6, <2>2, <2>4, <3>12, <3>13, <3>14, <3>15 DEF q, rects, to
  <2> QED BY <2>3, <2>4
<1> QED BY <1>5, <1>6

-----------------------------------------------------------------------------
(* The session.                                                            *)

ShownSized(rects, of) ==
  \A q \in DOMAIN rects : of[rects[q].pane] = <<rects[q].rows, rects[q].cols>>

LayoutInv ==
  /\ Tree(layout) /\ Leaves(layout, Panes)
  /\ nextPane \in Nat /\ Panes \subseteq 1 .. nextPane - 1
  /\ focused \in Panes
  /\ zoomed \in BOOLEAN /\ unsized \in BOOLEAN
  \* Only a screen that was never resized may have one row; it was never split.
  /\ screen \in Screens
  /\ DOMAIN layout.split # {} => screen[1] >= 2
  /\ unsized \/ ShownSized(Visible, size)

LEMMA ConstantsAre == Sizes \subseteq Screens /\ Deltas \subseteq Int
<1>1. /\ Sizes \subseteq (1 .. U16 - 1) \X (1 .. U16 - 1) /\ Deltas \subseteq Int
  BY LayoutAssumption
<1>2. 1 .. U16 - 1 \subseteq Sides BY DEF U16, Sides
<1> DEFINE D == 1 .. U16 - 1
<1>3. D \X D \subseteq Sides \X Sides
  <2>1. D \subseteq Sides BY <1>2
  <2> HIDE DEF D
  <2> QED BY <2>1
<1> QED BY <1>1, <1>3 DEF Screens

LEMMA FitsIs ==
  ASSUME NEW s \in Screens
  PROVE  Fits(s) \in Screens /\ Fits(s)[1] >= 2 /\ (s[1] >= 2 => Fits(s) = s)
<1>1. s[1] \in Sides /\ s[2] \in Sides /\ s = <<s[1], s[2]>> BY DEF Screens
<1>2. Larger(s[1], 2) \in Sides /\ Larger(s[1], 2) >= 2 /\ (s[1] >= 2 => Larger(s[1], 2) = s[1])
  BY <1>1 DEF Larger, Sides
<1>3. Fits(s) = <<Larger(s[1], 2), s[2]>> BY DEF Fits
<1> QED BY <1>1, <1>2, <1>3 DEF Screens

\* What is shown are panes, each once.
LEMMA RectanglesAre ==
  ASSUME NEW t, Tree(t), NEW panes, Leaves(t, panes), NEW at \in panes, NEW s \in Screens,
         NEW zoom \in BOOLEAN
  PROVE  LET rects == Rectangles(t, zoom, at, s) IN
         /\ \A q \in DOMAIN rects : rects[q].pane \in panes
         /\ \A q, r \in DOMAIN rects : rects[q].pane = rects[r].pane => q = r
<1>1. CASE zoom
  <2> DEFINE rects == [q \in {<<>>} |-> Rect(at, Whole(s))]
  <2>1. Rectangles(t, zoom, at, s) = rects BY <1>1 DEF Rectangles
  <2>2. Rect(at, Whole(s)).pane = at BY DEF Rect
  <2>3. DOMAIN rects = {<<>>} /\ rects[<<>>].pane = at BY <2>2
  <2> HIDE DEF rects
  <2> QED BY <2>1, <2>3
<1>2. CASE ~ zoom
  <2>1. Rectangles(t, zoom, at, s) = Rects(t, s) BY <1>2 DEF Rectangles
  <2>2. /\ DOMAIN Rects(t, s) \subseteq DOMAIN t.leaf
        /\ \A q \in DOMAIN Rects(t, s) : Rects(t, s)[q].pane = t.leaf[q]
    BY RectsAre
  <2> QED BY <2>1, <2>2 DEF Leaves
<1> QED BY <1>1, <1>2

LEMMA SizedByIs ==
  ASSUME NEW rects, NEW old,
         \A q \in DOMAIN rects : rects[q].pane \in DOMAIN old,
         \A q, r \in DOMAIN rects : rects[q].pane = rects[r].pane => q = r
  PROVE  ShownSized(rects, SizedBy(rects, DOMAIN rects, old))
<1> SUFFICES ASSUME NEW q \in DOMAIN rects
             PROVE  SizedBy(rects, DOMAIN rects, old)[rects[q].pane] = <<rects[q].rows, rects[q].cols>>
  BY DEF ShownSized
<1>1. (CHOOSE r \in DOMAIN rects : rects[r].pane = rects[q].pane) = q OBVIOUS
<1> QED BY <1>1 DEF SizedBy

LEMMA SizedByDomain ==
  ASSUME NEW rects, NEW done, NEW old
  PROVE  DOMAIN SizedBy(rects, done, old) = DOMAIN old
BY DEF SizedBy

\* A resize gives every visible pane its rectangle, or fails.
LEMMA ResizeIs ==
  ASSUME NEW t, NEW old, Tree(t), Leaves(t, DOMAIN old), NEW at \in DOMAIN old,
         NEW s \in Screens, NEW zoom \in BOOLEAN, ResizeAll(t, zoom, at, s, old)
  PROVE  /\ screen' = Fits(s) /\ screen' \in Screens /\ screen'[1] >= 2
         /\ DOMAIN size' = DOMAIN old /\ unsized' \in BOOLEAN
         /\ unsized' \/ ShownSized(Rectangles(t, zoom, at, screen'), size')
<1> DEFINE rects == Rectangles(t, zoom, at, Fits(s))
<1>1. Fits(s) \in Screens /\ Fits(s)[1] >= 2 BY FitsIs
<1>2. screen' = Fits(s) BY DEF ResizeAll, ResizeFails
<1>3. CASE ResizeFails(t, zoom, at, s, old)
  <2>1. unsized' = TRUE /\ \E failing \in DOMAIN rects :
          size' = SizedBy(rects, {q \in DOMAIN rects : Before(q, failing)}, old)
    BY <1>3 DEF ResizeFails
  <2> HIDE DEF rects
  <2> QED BY <1>1, <1>2, <2>1, SizedByDomain
<1>4. CASE unsized' = FALSE /\ size' = SizedBy(rects, DOMAIN rects, old)
  <2>1. /\ \A q \in DOMAIN rects : rects[q].pane \in DOMAIN old
        /\ \A q, r \in DOMAIN rects : rects[q].pane = rects[r].pane => q = r
    BY <1>1, RectanglesAre
  <2> HIDE DEF rects
  <2>2. ShownSized(rects, size') BY <1>4, <2>1, SizedByIs
  <2> QED BY <1>1, <1>2, <1>4, <2>2, SizedByDomain DEF rects
<1> QED BY <1>3, <1>4 DEF ResizeAll

\* What has been resized satisfies the invariant.
LEMMA Resized ==
  ASSUME NEW t, NEW old, Tree(t), Leaves(t, DOMAIN old), NEW at \in DOMAIN old,
         NEW s \in Screens, NEW zoom \in BOOLEAN, ResizeAll(t, zoom, at, s, old),
         layout' = t, focused' = at, zoomed' = zoom,
         nextPane' \in Nat, DOMAIN old \subseteq 1 .. nextPane' - 1
  PROVE  LayoutInv'
<1>1. /\ screen' \in Screens /\ screen'[1] >= 2
      /\ DOMAIN size' = DOMAIN old /\ unsized' \in BOOLEAN
      /\ unsized' \/ ShownSized(Rectangles(t, zoom, at, screen'), size')
  BY ResizeIs
<1>2. Visible' = Rectangles(t, zoom, at, screen') BY DEF Visible
<1> QED BY <1>1, <1>2 DEF LayoutInv, Panes

LEMMA InitInv == Init => LayoutInv
<1> SUFFICES ASSUME Init PROVE LayoutInv
  OBVIOUS
<1>1. layout = Single(1) /\ 1 \in Nat BY DEF Init
<1>2. Tree(layout) /\ Leaves(layout, {1}) BY <1>1, SingleTree
<1>3. Panes = {1} BY DEF Init, Panes
<1>4. DOMAIN layout.split = {} BY <1>1 DEF Single
<1>5. screen \in Screens BY ConstantsAre DEF Init
<1>6. nextPane = 2 /\ {1} \subseteq 1 .. 2 - 1 BY DEF Init
<1>7. focused = 1 /\ zoomed = FALSE /\ unsized = TRUE BY DEF Init
<1> QED BY <1>2, <1>3, <1>4, <1>5, <1>6, <1>7 DEF LayoutInv

LEMMA PanesAre ==
  ASSUME LayoutInv
  PROVE  /\ IsFiniteSet(Panes) /\ Panes \subseteq Nat /\ nextPane \notin Panes
         /\ Cardinality(Panes) > 1 => Panes # {focused}
<1>1. nextPane \in Nat /\ Panes \subseteq 1 .. nextPane - 1 BY DEF LayoutInv
<1>2. IsFiniteSet(1 .. nextPane - 1) BY <1>1, FS_Interval
<1>3. IsFiniteSet(Panes) BY <1>1, <1>2, FS_Subset
<1>4. nextPane \notin Panes /\ Panes \subseteq Nat BY <1>1
<1>5. Cardinality({focused}) = 1 BY FS_Singleton
<1> QED BY <1>3, <1>4, <1>5

LEMMA SplitInv ==
  ASSUME LayoutInv, NEW dir \in {"vertical", "horizontal"}, Split(dir)
  PROVE  LayoutInv'
<1>1. nextPane \in Nat /\ nextPane' = nextPane + 1 /\ Panes \subseteq 1 .. nextPane - 1
      /\ screen \in Screens
  BY DEF Split, LayoutInv
<1>2. CASE UNCHANGED <<layout, focused, zoomed, screen, size, unsized, failures>>
  <2>1. Panes' = Panes /\ Visible' = Visible BY <1>2 DEF Panes, Visible
  <2>2. nextPane' \in Nat /\ Panes \subseteq 1 .. nextPane' - 1 BY <1>1
  <2> QED BY <1>2, <2>1, <2>2 DEF LayoutInv
<1>3. CASE /\ layout' = SplitLeaf(layout, focused, nextPane, dir)
           /\ focused' = nextPane /\ zoomed' = FALSE
           /\ ResizeAll(layout', FALSE, nextPane, screen,
                        [p \in Panes \cup {nextPane} |-> IF p = nextPane THEN Spawned ELSE size[p]])
  <2> DEFINE old == [p \in Panes \cup {nextPane} |-> IF p = nextPane THEN Spawned ELSE size[p]]
             t == SplitLeaf(layout, focused, nextPane, dir)
  <2>1. DOMAIN old = Panes \cup {nextPane} OBVIOUS
  <2>2. Tree(t) /\ Leaves(t, Panes \cup {nextPane}) BY <1>1, PanesAre, SplitTree DEF LayoutInv
  <2>3. ResizeAll(t, FALSE, nextPane, screen, old) BY <1>3
  <2>4. nextPane' \in Nat /\ Panes \cup {nextPane} \subseteq 1 .. nextPane' - 1
    <3>1. nextPane - 1 < nextPane' - 1 /\ nextPane' \in Nat BY <1>1
    <3>2. nextPane >= 1 BY <1>1 DEF LayoutInv
    <3>3. \A p \in Panes \cup {nextPane} : p \in 1 .. nextPane' - 1 BY <1>1, <3>1, <3>2
    <3> QED BY <3>1, <3>3
  <2>5. layout' = t BY <1>3
  <2> HIDE DEF old, t
  <2> QED BY <1>1, <1>3, <2>1, <2>2, <2>3, <2>4, <2>5, Resized
<1> QED BY <1>2, <1>3 DEF Split

LEMMA AdjustInv ==
  ASSUME LayoutInv, NEW delta \in Deltas, AdjustRatio(delta)
  PROVE  LayoutInv'
<1> DEFINE t == AdjustRatioFor(layout, focused, delta)
<1>1. delta \in Int BY ConstantsAre
<1>2. Panes # {focused} BY PanesAre DEF AdjustRatio
<1>3. Tree(t) /\ Leaves(t, Panes) BY <1>1, <1>2, AdjustTree DEF LayoutInv
<1>4. /\ layout' = t /\ ResizeAll(t, zoomed, focused, screen, size)
      /\ focused' = focused /\ zoomed' = zoomed /\ nextPane' = nextPane
  BY DEF AdjustRatio
<1> HIDE DEF t
<1> QED BY <1>3, <1>4, Resized DEF LayoutInv, Panes

LEMMA CloseInv ==
  ASSUME LayoutInv, CloseFocused
  PROVE  LayoutInv'
<1> DEFINE t == CloseLeaf(layout, focused)
           old == [p \in Panes \ {focused} |-> size[p]]
           at == FirstPane(t)
<1>1. Panes # {focused} BY PanesAre DEF CloseFocused
<1>2. Tree(t) /\ Leaves(t, Panes \ {focused}) BY <1>1, CloseTree DEF LayoutInv
<1>3. at \in Panes \ {focused} BY <1>2, FirstPaneIs
<1>4. /\ layout' = t /\ focused' = at /\ zoomed' = FALSE /\ nextPane' = nextPane
      /\ ResizeAll(t, FALSE, at, screen, old)
  BY DEF CloseFocused
<1>5. DOMAIN old = Panes \ {focused} OBVIOUS
<1>6. Panes \ {focused} \subseteq 1 .. nextPane - 1 /\ nextPane \in Nat /\ screen \in Screens
  BY DEF LayoutInv
<1> HIDE DEF t, old, at
<1> QED BY <1>2, <1>3, <1>4, <1>5, <1>6, Resized

LEMMA FocusInv ==
  ASSUME LayoutInv, NEW dir, Focus(dir)
  PROVE  LayoutInv'
<1>1. focused' \in Panes
  <2>1. IsFiniteSet(Panes) BY PanesAre
  <2>2. FocusNeighbor(layout, focused, dir, screen) \in Panes BY <2>1, NeighborIs DEF LayoutInv
  <2> QED BY <2>2 DEF Focus
<1>2. /\ UNCHANGED <<layout, zoomed, screen, size, nextPane>>
      /\ unsized' = (unsized \/ (zoomed /\ focused' # focused))
  BY DEF Focus
<1>3. Panes' = Panes BY <1>2 DEF Panes
<1>4. unsized' \in BOOLEAN BY <1>2 DEF LayoutInv
<1>5. unsized' \/ ShownSized(Visible', size')
  <2> SUFFICES ASSUME ~ unsized' PROVE ShownSized(Visible', size')
    OBVIOUS
  <2>1. ~ unsized /\ (~ zoomed \/ focused' = focused) BY <1>2
  <2>2. Visible' = Visible BY <1>2, <2>1 DEF Visible, Rectangles
  <2> QED BY <1>2, <2>1, <2>2 DEF LayoutInv
<1> QED BY <1>1, <1>2, <1>3, <1>4, <1>5 DEF LayoutInv

LEMMA AttachInv ==
  ASSUME LayoutInv, NEW s \in Sizes, Attach(s)
  PROVE  LayoutInv'
<1> DEFINE restarted == [size EXCEPT ![focused] = Spawned]
           rects == Rectangles(layout, zoomed, focused, Fits(screen))
           given == SizedBy(rects, DOMAIN rects, restarted)
<1>1. /\ UNCHANGED <<layout, focused, zoomed, nextPane>>
      /\ \/ ResizeAll(layout, zoomed, focused, s, size)
         \/ ResizeFails(layout, zoomed, focused, screen, restarted)
         \/ ResizeAll(layout, zoomed, focused, s, given)
  BY DEF Attach
<1>2. s \in Screens BY ConstantsAre
<1>3. DOMAIN restarted = Panes BY DEF Panes
<1>4. DOMAIN given = Panes BY <1>3, SizedByDomain
<1>5. /\ Tree(layout) /\ Leaves(layout, Panes) /\ focused \in Panes /\ zoomed \in BOOLEAN
      /\ screen \in Screens /\ nextPane \in Nat /\ Panes \subseteq 1 .. nextPane - 1
  BY DEF LayoutInv
<1> HIDE DEF restarted, given
<1>6. \A old, r : DOMAIN old = Panes /\ r \in Screens /\ ResizeAll(layout, zoomed, focused, r, old)
        => LayoutInv'
  <2> TAKE old, r
  <2> HAVE DOMAIN old = Panes /\ r \in Screens /\ ResizeAll(layout, zoomed, focused, r, old)
  <2> QED BY <1>1, <1>5, Resized
<1>7. DOMAIN size = Panes BY DEF Panes
<1>8. ResizeFails(layout, zoomed, focused, screen, restarted)
        => ResizeAll(layout, zoomed, focused, screen, restarted)
  BY DEF ResizeAll
<1> QED BY <1>1, <1>2, <1>3, <1>4, <1>5, <1>6, <1>7, <1>8

LEMMA NextInv == LayoutInv /\ [Next]_vars => LayoutInv'
<1> SUFFICES ASSUME LayoutInv, [Next]_vars PROVE LayoutInv'
  OBVIOUS
<1>1. ASSUME NEW dir \in {"vertical", "horizontal"}, Split(dir) PROVE LayoutInv'
  BY <1>1, SplitInv
<1>2. ASSUME NEW delta \in Deltas, AdjustRatio(delta) PROVE LayoutInv'
  BY <1>2, AdjustInv
<1>3. ASSUME NEW dir \in Directions, Focus(dir) PROVE LayoutInv'
  BY <1>3, FocusInv
<1>4. ASSUME NEW s \in Sizes, Resize(s) PROVE LayoutInv'
  <2>1. /\ UNCHANGED <<layout, focused, zoomed, nextPane>>
        /\ ResizeAll(layout, zoomed, focused, s, size)
    BY <1>4 DEF Resize
  <2>2. s \in Screens BY ConstantsAre
  <2> QED BY <2>1, <2>2, Resized DEF LayoutInv, Panes
<1>5. ASSUME NEW s \in Sizes, Attach(s) PROVE LayoutInv'
  BY <1>5, AttachInv
<1>6. CASE CloseFocused
  BY <1>6, CloseInv
<1>7. CASE ToggleZoom
  <2>1. /\ zoomed' = ~ zoomed /\ unsized' = TRUE
        /\ UNCHANGED <<layout, focused, screen, size, nextPane>>
    BY <1>7 DEF ToggleZoom
  <2> QED BY <2>1 DEF LayoutInv, Panes
<1>8. CASE UNCHANGED vars
  BY <1>8 DEF vars, LayoutInv, Panes, Visible
<1> QED BY <1>1, <1>2, <1>3, <1>4, <1>5, <1>6, <1>7, <1>8 DEF Next

-----------------------------------------------------------------------------
(* The focus moves wherever there is something to move to.                 *)

\* What a border has beside it.
LEMMA Beside ==
  ASSUME NEW box \in Areas, NEW cut \in Cuts, Divides(box, cut)
  PROVE  LET a == Part(box, cut, 1)
             b == Part(box, cut, 2)
             d == Border(box, cut)
         IN /\ a.x + a.cols <= d.x + d.cols /\ a.y + a.rows <= d.y + d.rows
            /\ b.x >= d.x /\ b.y >= d.y
<1>0. /\ box.x \in Nat /\ box.y \in Nat /\ box.rows \in Nat /\ box.cols \in Nat
      /\ box = [x |-> box.x, y |-> box.y, rows |-> box.rows, cols |-> box.cols]
  BY AreaIs DEF Areas
<1> DEFINE n == Share(Extent(box, cut), cut.ratio)
           a == Part(box, cut, 1)
           b == Part(box, cut, 2)
           d == Border(box, cut)
<1>1. CASE cut.dir = "horizontal"
  <2>1. Extent(box, cut) = box.rows /\ box.rows >= 3 BY <1>1 DEF Divides, Extent
  <2>2. n \in 1 .. box.rows - 2 BY <1>0, <2>1, ShareIs DEF Cuts
  <2>3. a = [box EXCEPT !.rows = n] BY <1>1 DEF Part
  <2>4. b = [box EXCEPT !.y = box.y + n + 1, !.rows = box.rows - 1 - n] BY <1>1 DEF Part
  <2>5. d = [box EXCEPT !.y = box.y + n, !.rows = 1] BY <1>1 DEF Border
  <2> HIDE DEF n, a, b, d
  <2>6. a.x = box.x /\ a.y = box.y /\ a.rows = n /\ a.cols = box.cols BY <1>0, <2>3
  <2>7. b.x = box.x /\ b.y = box.y + n + 1 BY <1>0, <2>4
  <2>8. d.x = box.x /\ d.y = box.y + n /\ d.rows = 1 /\ d.cols = box.cols BY <1>0, <2>5
  <2>9. /\ a.x + a.cols <= d.x + d.cols /\ a.y + a.rows <= d.y + d.rows
        /\ b.x >= d.x /\ b.y >= d.y
    BY <1>0, <2>2, <2>6, <2>7, <2>8
  <2> QED BY <2>9 DEF a, b, d
<1>2. CASE cut.dir # "horizontal"
  <2>1. Extent(box, cut) = box.cols /\ box.cols >= 3 BY <1>2 DEF Divides, Extent
  <2>2. n \in 1 .. box.cols - 2 BY <1>0, <2>1, ShareIs DEF Cuts
  <2>3. a = [box EXCEPT !.cols = n] BY <1>2 DEF Part
  <2>4. b = [box EXCEPT !.x = box.x + n + 1, !.cols = box.cols - 1 - n] BY <1>2 DEF Part
  <2>5. d = [box EXCEPT !.x = box.x + n, !.cols = 1] BY <1>2 DEF Border
  <2> HIDE DEF n, a, b, d
  <2>6. a.x = box.x /\ a.y = box.y /\ a.rows = box.rows /\ a.cols = n BY <1>0, <2>3
  <2>7. b.x = box.x + n + 1 /\ b.y = box.y BY <1>0, <2>4
  <2>8. d.x = box.x + n /\ d.y = box.y /\ d.rows = box.rows /\ d.cols = 1 BY <1>0, <2>5
  <2>9. /\ a.x + a.cols <= d.x + d.cols /\ a.y + a.rows <= d.y + d.rows
        /\ b.x >= d.x /\ b.y >= d.y
    BY <1>0, <2>2, <2>6, <2>7, <2>8
  <2> QED BY <2>9 DEF a, b, d
<1> QED BY <1>1, <1>2

\* Where a node is shown, some leaf below it is.
LEMMA LeafIn ==
  ASSUME NEW t, Tree(t), NEW s \in Screens, NEW q \in Nodes(t), Shown(t, s, q)
  PROVE  \E r \in DOMAIN t.leaf : Shown(t, s, r) /\ Within(Box(t, s, r), Box(t, s, q))
<1> DEFINE W == {r \in Nodes(t) : Shown(t, s, r) /\ Within(Box(t, s, r), Box(t, s, q))}
<1>0. Box(t, s, q) \in Areas BY BoxIs
<1>1. q \in W BY <1>0, AreaIs DEF Within
<1>2. ASSUME NEW r \in W \cap DOMAIN t.split PROVE \E c \in {1, 2} : Append(r, c) \in W
  <2>1. /\ r \in Path /\ r \in Nodes(t) /\ Shown(t, s, r) /\ Within(Box(t, s, r), Box(t, s, q))
        /\ Append(r, 1) \in Nodes(t)
    BY TreeIs DEF Tree
  <2>2. /\ Box(t, s, r) \in Areas /\ Box(t, s, Append(r, 1)) \in Areas
        /\ Within(Box(t, s, Append(r, 1)), Box(t, s, r))
    BY BoxSplits
  <2>3. Within(Box(t, s, Append(r, 1)), Box(t, s, q)) BY <1>0, <2>1, <2>2, WithinWithin
  <2>4. Shown(t, s, Append(r, 1)) BY <2>1, ShownPart
  <2> QED BY <2>1, <2>3, <2>4
<1>3. W \in SUBSET Nodes(t) OBVIOUS
<1>4. PICK r \in W : r \in DOMAIN t.leaf
  <2> HIDE DEF W
  <2> QED BY <1>1, <1>2, <1>3, Descent
<1> QED BY <1>4

\* The cell next to an area in a direction.
NextTo(dir, a) ==
  CASE dir = "left" -> <<a.x - 1, a.y>>
    [] dir = "right" -> <<a.x + a.cols, a.y>>
    [] dir = "up" -> <<a.x, a.y - 1>>
    [] dir = "down" -> <<a.x, a.y + a.rows>>

LEMMA NextToIs ==
  ASSUME NEW s \in Screens, NEW a \in Areas, NEW dir \in Directions,
         Within(a, Whole(s)), ~ AtEdge(dir, a, s)
  PROVE  /\ NextTo(dir, a)[1] \in 0 .. s[2] - 1 /\ NextTo(dir, a)[2] \in 0 .. s[1] - 1
         /\ ~ Holds(a, NextTo(dir, a)[1], NextTo(dir, a)[2])
         /\ \A b \in Areas : Disjoint(a, b) /\ Holds(b, NextTo(dir, a)[1], NextTo(dir, a)[2])
                               => Lies(dir, b, a)
<1>0. /\ a.x \in Nat /\ a.y \in Nat /\ a.rows \in Nat /\ a.cols \in Nat /\ a.rows >= 1 /\ a.cols >= 1
      /\ s[1] \in Nat /\ s[2] \in Nat
      /\ a.x + a.cols <= s[2] /\ a.y + a.rows <= s[1]
  BY AreaIs, WholeIs DEF Within
<1>1. \A b \in Areas : /\ b.x \in Nat /\ b.y \in Nat /\ b.rows \in Nat /\ b.cols \in Nat
                       /\ b.rows >= 1 /\ b.cols >= 1
  BY AreaIs
<1>2. CASE dir = "left"
  <2>1. NextTo(dir, a) = <<a.x - 1, a.y>> /\ a.x # 0 BY <1>2 DEF NextTo, AtEdge
  <2>2. \A b : Lies(dir, b, a) <=> b.x + b.cols <= a.x BY <1>2 DEF Lies
  <2> QED BY <1>0, <1>1, <2>1, <2>2 DEF Holds, Disjoint
<1>3. CASE dir = "right"
  <2>1. NextTo(dir, a) = <<a.x + a.cols, a.y>> /\ a.x + a.cols # s[2] BY <1>3 DEF NextTo, AtEdge
  <2>2. \A b : Lies(dir, b, a) <=> b.x >= a.x + a.cols BY <1>3 DEF Lies
  <2> QED BY <1>0, <1>1, <2>1, <2>2 DEF Holds, Disjoint
<1>4. CASE dir = "up"
  <2>1. NextTo(dir, a) = <<a.x, a.y - 1>> /\ a.y # 0 BY <1>4 DEF NextTo, AtEdge
  <2>2. \A b : Lies(dir, b, a) <=> b.y + b.rows <= a.y BY <1>4 DEF Lies
  <2> QED BY <1>0, <1>1, <2>1, <2>2 DEF Holds, Disjoint
<1>5. CASE dir = "down"
  <2>1. NextTo(dir, a) = <<a.x, a.y + a.rows>> /\ a.y + a.rows # s[1] BY <1>5 DEF NextTo, AtEdge
  <2>2. \A b : Lies(dir, b, a) <=> b.y >= a.y + a.rows BY <1>5 DEF Lies
  <2> QED BY <1>0, <1>1, <2>1, <2>2 DEF Holds, Disjoint
<1> QED BY <1>2, <1>3, <1>4, <1>5 DEF Directions

\* The part of a split that is on the far side of its border, seen from what the
\* border lies beside.
FarPart(dir) == IF dir \in {"left", "up"} THEN 1 ELSE 2

LEMMA FarPartLies ==
  ASSUME NEW box \in Areas, NEW cut \in Cuts, Divides(box, cut), NEW a \in Areas,
         NEW dir \in Directions, Lies(dir, Border(box, cut), a), NEW b \in Areas,
         Within(b, Part(box, cut, FarPart(dir)))
  PROVE  Lies(dir, b, a)
<1> DEFINE p == Part(box, cut, 1)
           r == Part(box, cut, 2)
           d == Border(box, cut)
<1>1. p \in Areas /\ r \in Areas /\ d \in Areas BY PartsAre
<1>2. /\ p.x + p.cols <= d.x + d.cols /\ p.y + p.rows <= d.y + d.rows
      /\ r.x >= d.x /\ r.y >= d.y
  BY Beside
<1> HIDE DEF p, r, d
<1>3. /\ dir \in {"left", "up"} => Within(b, p)
      /\ dir \in {"right", "down"} => Within(b, r)
  BY DEF FarPart, p, r
<1>4. Lies(dir, d, a) BY DEF d
<1>5. CASE dir = "left" BY <1>1, <1>2, <1>3, <1>4, <1>5, AreaIs DEF Lies, Within
<1>6. CASE dir = "right" BY <1>1, <1>2, <1>3, <1>4, <1>6, AreaIs DEF Lies, Within
<1>7. CASE dir = "up" BY <1>1, <1>2, <1>3, <1>4, <1>7, AreaIs DEF Lies, Within
<1>8. CASE dir = "down" BY <1>1, <1>2, <1>3, <1>4, <1>8, AreaIs DEF Lies, Within
<1> QED BY <1>5, <1>6, <1>7, <1>8 DEF Directions

LEMMA LiesSpans ==
  ASSUME NEW dir \in Directions, NEW r, NEW a, Spans(r, a), NEW f, NEW b, Spans(f, b)
  PROVE  Lies(dir, r, f) <=> Lies(dir, a, b)
BY DEF Lies, Spans, Directions

\* Unless a shown pane is at that edge of the screen, there is one in the direction.
LEMMA SomeThere ==
  ASSUME NEW t, Tree(t), NEW s \in Screens, NEW q \in DOMAIN Rects(t, s), NEW dir \in Directions
  PROVE  There(t, s, dir, q) = {} <=> AtEdge(dir, Rects(t, s)[q], s)
<1> DEFINE rects == Rects(t, s)
           a == Box(t, s, q)
<1>0. /\ DOMAIN rects = {r \in DOMAIN t.leaf : Shown(t, s, r)}
      /\ \A r \in DOMAIN rects : Box(t, s, r) \in Areas /\ Spans(rects[r], Box(t, s, r))
  BY RectsAre
<1>1. \A r \in DOMAIN rects : r \in Nodes(t) /\ Within(Box(t, s, r), Whole(s))
  <2> TAKE r \in DOMAIN rects
  <2>1. r \in Nodes(t) BY <1>0 DEF Nodes
  <2>2. r \in Path /\ Len(r) \in Nat /\ 0 \in 0 .. Len(r) BY <2>1, TreeIs, PathIs DEF Tree
  <2>3. Within(Box(t, s, r), Box(t, s, Upto(r, 0))) BY <2>1, <2>2, BoxWithin
  <2> QED BY <2>1, <2>2, <2>3, UptoEnds, BoxRoot
<1>2. There(t, s, dir, q) = {r \in DOMAIN rects : Lies(dir, Box(t, s, r), a)}
  <2>1. \A r \in DOMAIN rects : Lies(dir, rects[r], rects[q]) <=> Lies(dir, Box(t, s, r), a)
    BY <1>0, LiesSpans
  <2> QED BY <2>1 DEF There
<1>3. AtEdge(dir, rects[q], s) <=> AtEdge(dir, a, s)
  <2>1. Spans(rects[q], a) BY <1>0
  <2> HIDE DEF rects, a
  <2> QED BY <2>1 DEF AtEdge, Spans, Directions
<1>4. a \in Areas /\ Within(a, Whole(s)) BY <1>0, <1>1
<1>5. ASSUME AtEdge(dir, a, s), NEW r \in DOMAIN rects, Lies(dir, Box(t, s, r), a) PROVE FALSE
  <2> DEFINE b == Box(t, s, r)
  <2>1. b \in Areas /\ Within(b, Whole(s)) BY <1>0, <1>1
  <2>2. Lies(dir, b, a) BY <1>5
  <2>3. /\ Whole(s).x = 0 /\ Whole(s).y = 0 /\ Whole(s).rows = s[1] /\ Whole(s).cols = s[2]
        /\ s[1] \in Nat /\ s[2] \in Nat
    BY WholeIs
  <2> HIDE DEF a, b, rects
  <2>4. CASE dir = "left" BY <1>4, <1>5, <2>1, <2>2, <2>3, <2>4, AreaIs DEF Lies, AtEdge, Within
  <2>5. CASE dir = "right" BY <1>4, <1>5, <2>1, <2>2, <2>3, <2>5, AreaIs DEF Lies, AtEdge, Within
  <2>6. CASE dir = "up" BY <1>4, <1>5, <2>1, <2>2, <2>3, <2>6, AreaIs DEF Lies, AtEdge, Within
  <2>7. CASE dir = "down" BY <1>4, <1>5, <2>1, <2>2, <2>3, <2>7, AreaIs DEF Lies, AtEdge, Within
  <2> QED BY <2>4, <2>5, <2>6, <2>7 DEF Directions
<1>6. ASSUME ~ AtEdge(dir, a, s) PROVE \E r \in DOMAIN rects : Lies(dir, Box(t, s, r), a)
  <2> DEFINE x == NextTo(dir, a)[1]
             y == NextTo(dir, a)[2]
  <2>1. /\ x \in 0 .. s[2] - 1 /\ y \in 0 .. s[1] - 1 /\ ~ Holds(a, x, y)
        /\ \A b \in Areas : Disjoint(a, b) /\ Holds(b, x, y) => Lies(dir, b, a)
    BY <1>4, <1>6, NextToIs
  <2> HIDE DEF x, y
  <2>2. PICK k \in DOMAIN TilesOf(t, s) : Holds(Area(t, s, k), x, y) BY <2>1, TilesCover
  <2>3. q \in DOMAIN TilesOf(t, s) /\ Area(t, s, q) = a
    <3>1. q \in DOMAIN t.leaf /\ Shown(t, s, q) /\ q \in Nodes(t) BY <1>0 DEF Nodes
    <3>2. q \notin DOMAIN t.split BY <3>1 DEF Tree
    <3> QED BY <3>1, <3>2, TileIs DEF Area
  <2>4. Disjoint(a, Area(t, s, k)) BY <2>1, <2>2, <2>3, TilesApart
  <2>5. /\ k \in Nodes(t) /\ Shown(t, s, k) /\ (k \in DOMAIN t.split => Cut(t, s, k))
        /\ Area(t, s, k) \in Areas
    BY TileIs
  <2>6. Lies(dir, Area(t, s, k), a) BY <2>1, <2>2, <2>4, <2>5
  <2>7. CASE k \in DOMAIN t.leaf
    <3>1. k \in DOMAIN rects /\ Area(t, s, k) = Box(t, s, k) BY <1>0, <2>5, <2>7 DEF Area
    <3> QED BY <2>6, <3>1
  <2>8. CASE k \notin DOMAIN t.leaf
    <3> DEFINE c == FarPart(dir)
               box == Box(t, s, k)
               cut == t.split[k]
    <3>1. k \in DOMAIN t.split /\ k \in Path BY <2>5, <2>8, TreeIs DEF Nodes, Tree
    <3>2. c \in {1, 2} BY DEF FarPart
    <3>3. /\ box \in Areas /\ cut \in Cuts /\ Divides(box, cut)
          /\ Area(t, s, k) = Border(box, cut)
      BY <2>5, <2>8, <3>1, BoxIs, TreeIs DEF Cut, Area, Tree
    <3>4. Box(t, s, Append(k, c)) = Part(box, cut, c) BY <3>1, <3>2, BoxPart
    <3>5. Append(k, c) \in Nodes(t) /\ Shown(t, s, Append(k, c))
      BY <2>5, <3>1, <3>2, ShownPart DEF Tree
    <3>6. PICK r \in DOMAIN t.leaf : Shown(t, s, r) /\ Within(Box(t, s, r), Box(t, s, Append(k, c)))
      BY <3>5, LeafIn
    <3>7. r \in DOMAIN rects /\ Box(t, s, r) \in Areas BY <1>0, <3>6
    <3> HIDE DEF box, cut, rects, a
    <3>8. Within(Box(t, s, r), Part(box, cut, FarPart(dir))) BY <3>4, <3>6
    <3>9. Lies(dir, Border(box, cut), a) BY <2>6, <3>3
    <3>10. Lies(dir, Box(t, s, r), a) BY <1>4, <3>3, <3>7, <3>8, <3>9, FarPartLies
    <3> QED BY <3>7, <3>10
  <2> QED BY <2>7, <2>8
<1> HIDE DEF rects, a
<1> QED BY <1>2, <1>3, <1>5, <1>6 DEF rects

-----------------------------------------------------------------------------
(* What a split takes.                                                     *)

\* Half of a length that is enough and does not make the product wrap.
LEMMA HalfIs ==
  ASSUME NEW length \in Nat, length >= 7, ~ HalfOverflows(length)
  PROVE  LET n == Share(length, 50) IN
         /\ n \in Nat /\ n >= 3 /\ length - 1 - n >= 3
         /\ length >= 21 => n >= 10 /\ length - 1 - n >= 10
<1> DEFINE m == (length - 1) * 50
           n == (m % U16) \div 100
<1>1. m \in Nat /\ m < 65536 BY DEF HalfOverflows, U16
<1>2. m % U16 = m
  <2> HIDE DEF m
  <2> QED BY <1>1 DEF U16
<1>3. n = m \div 100 BY <1>2
<1>4. /\ n \in Nat /\ n >= 3 /\ n <= length - 4
      /\ length >= 21 => n >= 10 /\ length - 1 - n >= 10
  BY <1>3
<1>5. Share(length, 50) = Clamp(n, 1, length - 2) BY DEF Share
<1> HIDE DEF n
<1>6. Clamp(n, 1, length - 2) = n BY <1>4 DEF Clamp
<1> QED BY <1>4, <1>5, <1>6

\* Both halves of a pane with enough space.
LEMMA HalvesAre ==
  ASSUME NEW box \in Areas, NEW dir \in {"vertical", "horizontal"}, EnoughSpace(box, dir),
         NEW c \in {1, 2}
  PROVE  LET half == Part(box, [dir |-> dir, ratio |-> 50], c) IN
         /\ half.rows >= 3 \/ half.rows = box.rows \/ HalfOverflows(box.rows)
         /\ half.cols >= 10 \/ half.cols = box.cols \/ HalfOverflows(box.cols)
<1> DEFINE cut == [dir |-> dir, ratio |-> 50]
           half == Part(box, cut, c)
           n == Share(Extent(box, cut), cut.ratio)
<1>0. /\ box.x \in Nat /\ box.y \in Nat /\ box.rows \in Nat /\ box.cols \in Nat
      /\ box = [x |-> box.x, y |-> box.y, rows |-> box.rows, cols |-> box.cols]
  BY AreaIs DEF Areas
<1>1. CASE dir = "horizontal"
  <2>1. box.rows >= 7 BY <1>1 DEF EnoughSpace
  <2>2. Extent(box, cut) = box.rows /\ cut.dir = "horizontal" /\ cut.ratio = 50
    BY <1>1 DEF Extent
  <2>3. Divides(box, cut) BY <1>0, <2>1, <2>2 DEF Divides
  <2>4. n = Share(box.rows, 50) BY <2>2
  <2>5. c = 1 => half = [box EXCEPT !.rows = n] BY <2>2, <2>3 DEF Part
  <2>6. c = 2 => half = [box EXCEPT !.y = box.y + n + 1, !.rows = box.rows - 1 - n]
    BY <2>2, <2>3 DEF Part
  <2> HIDE DEF n, half, cut
  <2>7. ~ HalfOverflows(box.rows) => n >= 3 /\ box.rows - 1 - n >= 3 BY <1>0, <2>1, <2>4, HalfIs
  <2>8. CASE c = 1
    <3>1. half.rows = n /\ half.cols = box.cols BY <1>0, <2>5, <2>8
    <3> QED BY <2>7, <3>1 DEF half, cut
  <2>9. CASE c = 2
    <3>1. half.rows = box.rows - 1 - n /\ half.cols = box.cols BY <1>0, <2>6, <2>9
    <3> QED BY <2>7, <3>1 DEF half, cut
  <2> QED BY <2>8, <2>9
<1>2. CASE dir = "vertical"
  <2>1. box.cols >= 21 BY <1>2 DEF EnoughSpace
  <2>2. Extent(box, cut) = box.cols /\ cut.dir # "horizontal" /\ cut.ratio = 50
    BY <1>2 DEF Extent
  <2>3. Divides(box, cut) BY <1>0, <2>1, <2>2 DEF Divides
  <2>4. n = Share(box.cols, 50) BY <2>2
  <2>5. c = 1 => half = [box EXCEPT !.cols = n] BY <2>2, <2>3 DEF Part
  <2>6. c = 2 => half = [box EXCEPT !.x = box.x + n + 1, !.cols = box.cols - 1 - n]
    BY <2>2, <2>3 DEF Part
  <2> HIDE DEF n, half, cut
  <2>7. ~ HalfOverflows(box.cols) => n >= 10 /\ box.cols - 1 - n >= 10
    <3>1. box.cols >= 7 BY <1>0, <2>1
    <3> QED BY <1>0, <2>1, <2>4, <3>1, HalfIs
  <2>8. CASE c = 1
    <3>1. half.cols = n /\ half.rows = box.rows BY <1>0, <2>5, <2>8
    <3> QED BY <2>7, <3>1 DEF half, cut
  <2>9. CASE c = 2
    <3>1. half.cols = box.cols - 1 - n /\ half.rows = box.rows BY <1>0, <2>6, <2>9
    <3> QED BY <2>7, <3>1 DEF half, cut
  <2> QED BY <2>8, <2>9
<1> QED BY <1>1, <1>2

\* In a tree with a split leaf the other leaves stay, and its box has the halves.
LEMMA SplitKeeps ==
  ASSUME NEW t, Tree(t), NEW panes, Leaves(t, panes), NEW p \in panes,
         NEW new \in Nat \ panes, NEW dir \in {"vertical", "horizontal"}, NEW s \in Screens
  PROVE  LET u == SplitLeaf(t, p, new, dir)
             at == PathOf(t, p)
         IN /\ \A q \in DOMAIN Rects(t, s) \ {at} :
                 q \in DOMAIN Rects(u, s) /\ Rects(u, s)[q] = Rects(t, s)[q]
            /\ \A q \in DOMAIN Rects(u, s) : Rects(u, s)[q].pane \in {p, new} =>
                 /\ Shown(t, s, at)
                 /\ \E c \in {1, 2} :
                      Spans(Rects(u, s)[q], Part(Box(t, s, at), [dir |-> dir, ratio |-> 50], c))
<1> DEFINE u == SplitLeaf(t, p, new, dir)
           at == PathOf(t, p)
           first == Append(at, 1)
           second == Append(at, 2)
           cut == [dir |-> dir, ratio |-> 50]
<1>1. /\ u \in Trees
      /\ DOMAIN u.leaf = (DOMAIN t.leaf \ {at}) \cup {first, second}
      /\ u.leaf[first] = p /\ u.leaf[second] = new
      /\ \A q \in DOMAIN t.leaf \ {at} : u.leaf[q] = t.leaf[q]
      /\ u.split[at] = cut
      /\ \A q \in DOMAIN t.split : u.split[q] = t.split[q]
  BY SplitIs
<1>2. Tree(u) /\ Leaves(u, panes \cup {new}) BY SplitTree
<1>3. at \in DOMAIN t.leaf /\ at \in Path BY PathOfIs, PartsAreNew
<1>4. DOMAIN t.leaf \subseteq Nodes(t) /\ Nodes(t) \subseteq Path BY TreeIs DEF Tree, Nodes
<1> HIDE DEF u, at, first, second, cut
<1>5. ASSUME NEW q \in Nodes(t)
      PROVE  Box(t, s, q) = Box(u, s, q) /\ (Shown(t, s, q) <=> Shown(u, s, q))
  <2>1. \A n \in 0 .. Len(q) - 1 : t.split[Upto(q, n)] = u.split[Upto(q, n)] BY <1>1, NodePrefix
  <2>2. q \in Path BY <1>4
  <2> QED BY <2>1, <2>2, SameAlong
<1>6. /\ DOMAIN Rects(t, s) = {q \in DOMAIN t.leaf : Shown(t, s, q)}
      /\ \A q \in DOMAIN Rects(t, s) : Rects(t, s)[q] = Rect(t.leaf[q], Box(t, s, q))
  BY RectsAre
<1>7. /\ DOMAIN Rects(u, s) = {q \in DOMAIN u.leaf : Shown(u, s, q)}
      /\ \A q \in DOMAIN Rects(u, s) :
           /\ Rects(u, s)[q] = Rect(u.leaf[q], Box(u, s, q)) /\ Rects(u, s)[q].pane = u.leaf[q]
           /\ Spans(Rects(u, s)[q], Box(u, s, q))
  BY <1>2, RectsAre
<1>8. ASSUME NEW q \in DOMAIN Rects(t, s) \ {at}
      PROVE  q \in DOMAIN Rects(u, s) /\ Rects(u, s)[q] = Rects(t, s)[q]
  <2>1. q \in DOMAIN t.leaf \ {at} /\ Shown(t, s, q) /\ q \in Nodes(t) BY <1>4, <1>6
  <2>2. q \in DOMAIN u.leaf /\ u.leaf[q] = t.leaf[q] BY <1>1, <2>1
  <2>3. Box(t, s, q) = Box(u, s, q) /\ Shown(u, s, q) BY <1>5, <2>1
  <2> QED BY <1>6, <1>7, <2>1, <2>2, <2>3
<1>9. ASSUME NEW q \in DOMAIN Rects(u, s), Rects(u, s)[q].pane \in {p, new}
      PROVE  /\ Shown(t, s, at)
             /\ \E c \in {1, 2} : Spans(Rects(u, s)[q], Part(Box(t, s, at), cut, c))
  <2>1. q \in DOMAIN u.leaf /\ Shown(u, s, q) /\ u.leaf[q] \in {p, new} BY <1>7, <1>9
  <2>2. q \in {first, second}
    <3>1. first \in DOMAIN u.leaf /\ second \in DOMAIN u.leaf BY <1>1
    <3> QED BY <1>1, <1>2, <2>1, <3>1 DEF Leaves
  <2>3. PICK c \in {1, 2} : q = Append(at, c) BY <2>2 DEF first, second
  <2>4. Shown(u, s, at) BY <1>3, <2>1, <2>3, ShownPart
  <2>5. Shown(t, s, at) /\ Box(u, s, at) = Box(t, s, at) BY <1>3, <1>4, <1>5, <2>4
  <2>6. Box(u, s, q) = Part(Box(u, s, at), u.split[at], c) BY <1>3, <2>3, BoxPart
  <2>7. Box(u, s, q) = Part(Box(t, s, at), cut, c) BY <1>1, <2>5, <2>6
  <2> QED BY <1>7, <2>5, <2>7
<1> QED BY <1>8, <1>9 DEF u, at, cut

\* Only a split that is done makes a new pane.
LEMMA NewPaneIsSplit ==
  ASSUME LayoutInv, [Next]_vars, nextPane \in DOMAIN size'
  PROVE  \E dir \in {"vertical", "horizontal"} :
           /\ \E q \in DOMAIN Visible : Visible[q].pane = focused /\ EnoughSpace(Visible[q], dir)
           /\ layout' = SplitLeaf(layout, focused, nextPane, dir)
           /\ screen' = Fits(screen)
<1>0. /\ nextPane \notin Panes /\ Tree(layout) /\ Leaves(layout, Panes) /\ focused \in Panes
      /\ screen \in Screens /\ zoomed \in BOOLEAN /\ DOMAIN size = Panes
  BY PanesAre DEF LayoutInv, Panes
<1>1. ASSUME NEW t, NEW old, NEW zoom, NEW at, NEW s, ResizeAll(t, zoom, at, s, old)
      PROVE  DOMAIN size' = DOMAIN old /\ screen' = Fits(s)
  <2> DEFINE rects == Rectangles(t, zoom, at, Fits(s))
  <2>1. /\ screen' = Fits(s)
        /\ \/ size' = SizedBy(rects, DOMAIN rects, old)
           \/ \E failing \in DOMAIN rects :
                size' = SizedBy(rects, {q \in DOMAIN rects : Before(q, failing)}, old)
    BY <1>1 DEF ResizeAll, ResizeFails
  <2> HIDE DEF rects
  <2>2. \E done : size' = SizedBy(rects, done, old) BY <2>1
  <2>3. PICK done : size' = SizedBy(rects, done, old) BY <2>2
  <2>4. DOMAIN SizedBy(rects, done, old) = DOMAIN old BY SizedByDomain
  <2> QED BY <2>1, <2>3, <2>4
<1>2. ASSUME NEW delta \in Deltas, AdjustRatio(delta) PROVE FALSE
  <2>1. ResizeAll(layout', zoomed, focused, screen, size) BY <1>2 DEF AdjustRatio
  <2> QED BY <1>0, <1>1, <2>1
<1>3. ASSUME NEW dir \in Directions, Focus(dir) PROVE FALSE
  BY <1>0, <1>3 DEF Focus
<1>4. ASSUME NEW s \in Sizes, Resize(s) PROVE FALSE
  <2>1. ResizeAll(layout, zoomed, focused, s, size) BY <1>4 DEF Resize
  <2> QED BY <1>0, <1>1, <2>1
<1>5. ASSUME NEW s \in Sizes, Attach(s) PROVE FALSE
  <2> DEFINE restarted == [size EXCEPT ![focused] = Spawned]
             rects == Rectangles(layout, zoomed, focused, Fits(screen))
             given == SizedBy(rects, DOMAIN rects, restarted)
  <2>1. \/ ResizeAll(layout, zoomed, focused, s, size)
        \/ ResizeAll(layout, zoomed, focused, screen, restarted)
        \/ ResizeAll(layout, zoomed, focused, s, given)
    BY <1>5 DEF Attach, ResizeAll
  <2>2. DOMAIN restarted = Panes BY <1>0
  <2> HIDE DEF restarted
  <2>3. DOMAIN given = Panes
    <3> HIDE DEF rects
    <3>1. DOMAIN SizedBy(rects, DOMAIN rects, restarted) = DOMAIN restarted BY SizedByDomain
    <3> QED BY <2>2, <3>1
  <2> HIDE DEF given
  <2>4. DOMAIN size' = Panes BY <1>0, <1>1, <2>1, <2>2, <2>3
  <2> QED BY <1>0, <2>4
<1>6. ASSUME CloseFocused PROVE FALSE
  <2>1. ResizeAll(layout', FALSE, focused', screen, [p \in Panes \ {focused} |-> size[p]])
    BY <1>6 DEF CloseFocused
  <2>2. DOMAIN size' = DOMAIN [p \in Panes \ {focused} |-> size[p]] BY <1>1, <2>1
  <2> QED BY <1>0, <2>2
<1>7. ASSUME ToggleZoom PROVE FALSE BY <1>0, <1>7 DEF ToggleZoom
<1>8. ASSUME UNCHANGED vars PROVE FALSE BY <1>0, <1>8 DEF vars
<1>9. PICK dir \in {"vertical", "horizontal"} : Split(dir)
  <2>1. CASE \E dir \in {"vertical", "horizontal"} : Split(dir) BY <2>1
  <2>2. CASE \E delta \in Deltas : AdjustRatio(delta) BY <1>2, <2>2
  <2>3. CASE \E dir \in Directions : Focus(dir) BY <1>3, <2>3
  <2>4. CASE \E s \in Sizes : Resize(s) \/ Attach(s) BY <1>4, <1>5, <2>4
  <2> QED BY <1>6, <1>7, <1>8, <2>1, <2>2, <2>3, <2>4 DEF Next
<1>10. size' # size BY <1>0
<1>11. /\ \E q \in DOMAIN Visible : Visible[q].pane = focused /\ EnoughSpace(Visible[q], dir)
       /\ layout' = SplitLeaf(layout, focused, nextPane, dir)
       /\ ResizeAll(layout', FALSE, nextPane, screen,
                    [p \in Panes \cup {nextPane} |-> IF p = nextPane THEN Spawned ELSE size[p]])
  BY <1>9, <1>10 DEF Split
<1>12. screen' = Fits(screen) BY <1>1, <1>11
<1> QED BY <1>11, <1>12

\* The pane that is split has on the screen of the resize what it has on the old one,
\* along what is divided.
LEMMA SpaceStays ==
  ASSUME LayoutInv, ~ zoomed, NEW dir \in {"vertical", "horizontal"},
         \E q \in DOMAIN Visible : Visible[q].pane = focused /\ EnoughSpace(Visible[q], dir)
  PROVE  EnoughSpace(Box(layout, Fits(screen), PathOf(layout, focused)), dir)
<1> DEFINE at == PathOf(layout, focused)
<1>0. /\ Tree(layout) /\ Leaves(layout, Panes) /\ focused \in Panes /\ screen \in Screens
      /\ DOMAIN layout.split # {} => screen[1] >= 2
  BY DEF LayoutInv
<1>1. Visible = Rects(layout, screen) BY DEF Visible, Rectangles
<1>2. PICK q \in DOMAIN Visible : Visible[q].pane = focused /\ EnoughSpace(Visible[q], dir)
  OBVIOUS
<1>3. /\ q \in DOMAIN layout.leaf /\ layout.leaf[q] = focused
      /\ Box(layout, screen, q) \in Areas /\ Spans(Visible[q], Box(layout, screen, q))
  BY <1>0, <1>1, <1>2, RectsAre
<1>4. q = at BY <1>0, <1>3, PathOfIs
<1>5. EnoughSpace(Box(layout, screen, at), dir) BY <1>2, <1>3, <1>4 DEF EnoughSpace, Spans
<1> HIDE DEF at
<1>6. CASE screen[1] >= 2
  <2>1. Fits(screen) = screen BY <1>0, <1>6, FitsIs
  <2> QED BY <1>5, <2>1 DEF at
<1>7. CASE ~ (screen[1] >= 2)
  <2>1. DOMAIN layout.split = {} BY <1>0, <1>7
  <2>2. at \in Nodes(layout) /\ at = <<>> BY <1>0, <1>3, <1>4, <2>1 DEF Tree, Nodes
  <2>3. Box(layout, screen, at) = Whole(screen) /\ Box(layout, Fits(screen), at) = Whole(Fits(screen))
    BY <2>2, BoxRoot
  <2>4. /\ Whole(screen).cols = screen[2] /\ Whole(screen).rows = screen[1]
        /\ Whole(Fits(screen)).cols = Fits(screen)[2] /\ screen[1] \in Nat
    BY <1>0, FitsIs, WholeIs
  <2>5. Fits(screen)[2] = screen[2] BY DEF Fits
  <2>6. dir = "vertical" /\ screen[2] >= 21 BY <1>5, <1>7, <2>3, <2>4 DEF EnoughSpace
  <2> QED BY <2>3, <2>4, <2>5, <2>6 DEF EnoughSpace, at
<1> QED BY <1>6, <1>7

LEMMA SplitDivides ==
  ASSUME LayoutInv, [Next]_vars, nextPane \in DOMAIN size'
  PROVE  OthersStay /\ (zoomed \/ HalvesSuffice)
<1>0. /\ Tree(layout) /\ Leaves(layout, Panes) /\ focused \in Panes /\ screen \in Screens
      /\ nextPane \in Nat \ Panes /\ zoomed \in BOOLEAN
  BY PanesAre DEF LayoutInv
<1>1. PICK dir \in {"vertical", "horizontal"} :
        /\ \E q \in DOMAIN Visible : Visible[q].pane = focused /\ EnoughSpace(Visible[q], dir)
        /\ layout' = SplitLeaf(layout, focused, nextPane, dir)
        /\ screen' = Fits(screen)
  BY NewPaneIsSplit
<1> DEFINE s == Fits(screen)
           at == PathOf(layout, focused)
           before == Rects(layout, s)
           after == Rects(SplitLeaf(layout, focused, nextPane, dir), s)
           box == Box(layout, s, at)
           cut == [dir |-> dir, ratio |-> 50]
<1>2. s \in Screens BY <1>0, FitsIs
<1>3. Rects(layout, screen') = before /\ Rects(layout', screen') = after BY <1>1
<1>4. /\ \A q \in DOMAIN before \ {at} : q \in DOMAIN after /\ after[q] = before[q]
      /\ \A q \in DOMAIN after : after[q].pane \in {focused, nextPane} =>
           Shown(layout, s, at) /\ \E c \in {1, 2} : Spans(after[q], Part(box, cut, c))
  BY <1>0, <1>2, SplitKeeps
<1>5. /\ DOMAIN before = {q \in DOMAIN layout.leaf : Shown(layout, s, q)}
      /\ \A q \in DOMAIN before :
           before[q].pane = layout.leaf[q] /\ Spans(before[q], Box(layout, s, q))
  BY <1>0, <1>2, RectsAre
<1>6. /\ at \in DOMAIN layout.leaf /\ layout.leaf[at] = focused
      /\ \A q \in DOMAIN layout.leaf : layout.leaf[q] = focused => q = at
  BY <1>0, PathOfIs
<1>7. box \in Areas BY <1>0, <1>2, <1>6, BoxIs DEF Nodes
<1>8. ~ zoomed => EnoughSpace(box, dir) BY <1>1, SpaceStays
<1> HIDE DEF s, before, after, box, cut, at
<1>9. OthersStay BY <1>3, <1>4, <1>5, <1>6 DEF OthersStay
<1>10. ASSUME ~ zoomed PROVE HalvesSuffice
  <2> DEFINE old == before[CHOOSE q \in DOMAIN before : before[q].pane = focused]
  <2> SUFFICES ASSUME NEW r \in DOMAIN after, after[r].pane \in {focused, nextPane}
               PROVE  /\ after[r].rows >= 3 \/ after[r].rows = old.rows \/ HalfOverflows(old.rows)
                      /\ after[r].cols >= 10 \/ after[r].cols = old.cols \/ HalfOverflows(old.cols)
    BY <1>3 DEF HalvesSuffice
  <2>1. Shown(layout, s, at) /\ \E c \in {1, 2} : Spans(after[r], Part(box, cut, c)) BY <1>4
  <2>2. at \in DOMAIN before /\ before[at].pane = focused BY <1>5, <1>6, <2>1
  <2>3. \A q \in DOMAIN before : before[q].pane = focused => q = at BY <1>5, <1>6
  <2>4. old = before[at] BY <2>2, <2>3
  <2>5. old.rows = box.rows /\ old.cols = box.cols BY <1>5, <2>2, <2>4 DEF box, Spans
  <2>6. PICK c \in {1, 2} : Spans(after[r], Part(box, cut, c)) BY <2>1
  <2>7. /\ Part(box, cut, c).rows >= 3 \/ Part(box, cut, c).rows = box.rows \/ HalfOverflows(box.rows)
        /\ Part(box, cut, c).cols >= 10 \/ Part(box, cut, c).cols = box.cols \/ HalfOverflows(box.cols)
    BY <1>7, <1>8, <1>10, HalvesAre DEF cut
  <2> HIDE DEF old
  <2> QED BY <2>5, <2>6, <2>7 DEF Spans
<1> QED BY <1>9, <1>10

-----------------------------------------------------------------------------
(* The theorems.                                                           *)

\* Whatever is split, closed, adjusted, zoomed and resized, and whichever resizes
\* fail, the layout stays a tree whose leaves are the panes of the session.
THEOREM LayoutInductive == Spec => []LayoutInv
<1>1. Init => LayoutInv BY InitInv
<1>2. LayoutInv /\ [Next]_vars => LayoutInv' BY NextInv
<1> QED BY <1>1, <1>2, PTL DEF Spec

\* The rectangles of collect_rects lie in the screen, are not empty, do not overlap
\* each other or a border, and leave no cell over.
THEOREM TilesScreen == Spec => []ScreenIsTiled
<1>1. LayoutInv => ScreenIsTiled
  <2> SUFFICES ASSUME LayoutInv PROVE ScreenIsTiled
    OBVIOUS
  <2> DEFINE tiles == TilesOf(layout, screen)
             columns == {0} \cup {tiles[q].x + tiles[q].cols : q \in DOMAIN tiles}
             lines == {0} \cup {tiles[q].y + tiles[q].rows : q \in DOMAIN tiles}
  <2>1. Tiles = tiles BY DEF Tiles, TilesOf
  <2>2. /\ \A q \in DOMAIN tiles :
             /\ tiles[q].x \in Nat /\ tiles[q].y \in Nat /\ tiles[q].rows \in Nat
             /\ tiles[q].cols \in Nat /\ Inside(tiles[q], screen)
        /\ \A q, r \in DOMAIN tiles : q # r => Disjoint(tiles[q], tiles[r])
        /\ \A x \in 0 .. screen[2] - 1, y \in 0 .. screen[1] - 1 :
             \E q \in DOMAIN tiles : Holds(tiles[q], x, y)
    BY TilesAre DEF LayoutInv
  <2>3. screen[1] \in Nat /\ screen[2] \in Nat BY WholeIs DEF LayoutInv
  <2> HIDE DEF tiles
  <2>4. columns \subseteq Nat /\ lines \subseteq Nat BY <2>2
  <2>5. ASSUME NEW x \in columns, NEW y \in lines, x < screen[2], y < screen[1]
        PROVE  \E q \in DOMAIN tiles : Holds(tiles[q], x, y)
    <3>1. x \in 0 .. screen[2] - 1 /\ y \in 0 .. screen[1] - 1 BY <2>3, <2>4, <2>5
    <3> QED BY <2>2, <3>1
  <2> QED BY <2>1, <2>2, <2>5 DEF ScreenIsTiled
<1>2. Spec => []LayoutInv BY LayoutInductive
<1> QED BY <1>1, <1>2, PTL

\* Every cell of the screen is a pane's or a border's, and of one only.
EveryCellOnce ==
  LET tiles == Tiles IN
  \A x \in 0 .. screen[2] - 1, y \in 0 .. screen[1] - 1 :
    \E q \in DOMAIN tiles : /\ Holds(tiles[q], x, y)
                            /\ \A r \in DOMAIN tiles : Holds(tiles[r], x, y) => r = q

\* What a cell shows does not depend on the order in which the client draws panes
\* and borders.
THEOREM CellsAreShared == Spec => []EveryCellOnce
<1>1. LayoutInv => EveryCellOnce
  <2> SUFFICES ASSUME LayoutInv,
                      NEW x \in 0 .. screen[2] - 1, NEW y \in 0 .. screen[1] - 1
               PROVE  \E q \in DOMAIN Tiles : /\ Holds(Tiles[q], x, y)
                        /\ \A r \in DOMAIN Tiles : Holds(Tiles[r], x, y) => r = q
    BY DEF EveryCellOnce
  <2> DEFINE tiles == TilesOf(layout, screen)
  <2>1. Tiles = tiles BY DEF Tiles, TilesOf
  <2>2. /\ \A q \in DOMAIN tiles :
             /\ tiles[q].x \in Nat /\ tiles[q].y \in Nat /\ tiles[q].rows \in Nat
             /\ tiles[q].cols \in Nat
        /\ \A q, r \in DOMAIN tiles : q # r => Disjoint(tiles[q], tiles[r])
        /\ \A i \in 0 .. screen[2] - 1, j \in 0 .. screen[1] - 1 :
             \E q \in DOMAIN tiles : Holds(tiles[q], i, j)
    BY TilesAre DEF LayoutInv
  <2> HIDE DEF tiles
  <2>3. PICK q \in DOMAIN tiles : Holds(tiles[q], x, y) BY <2>2
  <2>4. ASSUME NEW r \in DOMAIN tiles, Holds(tiles[r], x, y), r # q PROVE FALSE
    <3>1. Disjoint(tiles[q], tiles[r]) BY <2>2, <2>4
    <3> DEFINE a == tiles[q]
               b == tiles[r]
    <3>2. /\ a.x \in Nat /\ a.y \in Nat /\ a.rows \in Nat /\ a.cols \in Nat
          /\ b.x \in Nat /\ b.y \in Nat /\ b.rows \in Nat /\ b.cols \in Nat
          /\ Holds(a, x, y) /\ Holds(b, x, y) /\ Disjoint(a, b)
      BY <2>2, <2>3, <2>4, <3>1
    <3> HIDE DEF a, b
    <3> QED BY <3>2 DEF Holds, Disjoint
  <2> QED BY <2>1, <2>3, <2>4
<1>2. Spec => []LayoutInv BY LayoutInductive
<1> QED BY <1>1, <1>2, PTL

\* Tree, panes, focus and the sizes of ptys go together.
THEOREM FitsPanes == Spec => []LayoutFitsPanes
<1>1. LayoutInv => LayoutFitsPanes
  BY DEF LayoutInv, LayoutFitsPanes, Leaves, ShownSized
<1>2. Spec => []LayoutInv BY LayoutInductive
<1> QED BY <1>1, <1>2, PTL

\* focus_neighbor stays where it is at an edge of the screen only, and goes to a
\* nearest pane otherwise, however many panes there are.
THEOREM FocusFinds == Spec => []FocusMoves
<1>1. LayoutInv => FocusMoves
  <2> SUFFICES ASSUME LayoutInv, NEW q \in DOMAIN Rects(layout, screen), NEW dir \in Directions
      PROVE  LET rects == Rects(layout, screen)
                 to == FocusNeighbor(layout, rects[q].pane, dir, screen)
                 there == {r \in DOMAIN rects : Lies(dir, rects[r], rects[q])}
                 Ahead(r) == Apart(dir, rects[r], rects[q])[1]
             IN IF AtEdge(dir, rects[q], screen) THEN to = rects[q].pane
                ELSE \E r \in there : rects[r].pane = to /\ \A w \in there : Ahead(r) <= Ahead(w)
    BY DEF FocusMoves
  <2> DEFINE rects == Rects(layout, screen)
             p == rects[q].pane
             to == FocusNeighbor(layout, p, dir, screen)
             there == There(layout, screen, dir, q)
             D(r) == Apart(dir, rects[r], rects[q])
             r == PathOf(layout, to)
  <2>0. Tree(layout) /\ Leaves(layout, Panes) /\ IsFiniteSet(Panes) /\ screen \in Screens
    BY PanesAre DEF LayoutInv
  <2>1. /\ DOMAIN rects \subseteq DOMAIN layout.leaf
        /\ \A w \in DOMAIN rects : /\ rects[w].pane = layout.leaf[w]
                                   /\ Box(layout, screen, w) \in Areas
                                   /\ Spans(rects[w], Box(layout, screen, w))
    BY <2>0, RectsAre
  <2>2. p \in Panes /\ q = PathOf(layout, p)
    <3>1. q \in DOMAIN layout.leaf /\ layout.leaf[q] = p BY <2>1
    <3> HIDE DEF p, rects
    <3>2. p \in Panes BY <2>0, <3>1 DEF Leaves
    <3> QED BY <2>0, <3>1, <3>2, PathOfIs
  <2>3. there = {} <=> AtEdge(dir, rects[q], screen) BY <2>0, SomeThere
  <2>4. /\ to \in Panes /\ (there = {} => to = p)
        /\ there # {} => r \in there /\ \A w \in there : ~ Nearer(D(w), D(r))
    BY <2>0, <2>2, NeighborIs
  <2>5. there = {w \in DOMAIN rects : Lies(dir, rects[w], rects[q])} BY DEF There
  <2>6. \A w \in there : \E m, n \in Int : D(w) = <<m, n>> BY <2>1, <2>5, ApartIs
  <2>7. rects[r].pane = to \/ there = {}
    <3> SUFFICES ASSUME there # {} PROVE rects[r].pane = to
      OBVIOUS
    <3>1. r \in DOMAIN rects BY <2>4, <2>5
    <3>2. layout.leaf[r] = to BY <2>0, <2>4, PathOfIs
    <3> QED BY <2>1, <3>1, <3>2
  <2>8. ASSUME there # {}, NEW w \in there PROVE D(r)[1] <= D(w)[1]
    <3>1. PICK a1 \in Int, a2 \in Int : D(w) = <<a1, a2>> BY <2>6, <2>8
    <3>2. PICK b1 \in Int, b2 \in Int : D(r) = <<b1, b2>> BY <2>4, <2>6, <2>8
    <3>3. ~ Nearer(D(w), D(r)) BY <2>4, <2>8
    <3> HIDE DEF D, r, there
    <3> QED BY <3>1, <3>2, <3>3 DEF Nearer
  <2> HIDE DEF to, r, rects, there
  <2>9. IF AtEdge(dir, rects[q], screen) THEN to = p
        ELSE r \in there /\ rects[r].pane = to /\ \A w \in there : D(r)[1] <= D(w)[1]
    BY <2>3, <2>4, <2>7, <2>8
  <2> QED BY <2>5, <2>9 DEF to, rects
<1>2. Spec => []LayoutInv BY LayoutInductive
<1> QED BY <1>1, <1>2, PTL

\* A split leaves every other pane where it was, and gives both halves the minimum
\* that the daemon asks for, on any screen on which the product does not overflow.
THEOREM SplitsDivide == Spec => SplitDividesFocused
<1>1. LayoutInv /\ [Next]_vars
        => [(nextPane \in DOMAIN size') => OthersStay /\ (zoomed \/ HalvesSuffice)]_vars
  BY SplitDivides
<1>2. Spec => []LayoutInv BY LayoutInductive
<1> QED BY <1>1, <1>2, PTL DEF Spec, SplitDividesFocused
=============================================================================
