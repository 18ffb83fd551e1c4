-------------------------- MODULE ClientLoop_proofs --------------------------
(***************************************************************************)
(* Proofs about module ClientLoop: what is typed is written at most once,  *)
(* in the order it is typed, into the connection it was typed in, and none *)
(* of it is lost while that connection is up.                              *)
(***************************************************************************)
EXTENDS ClientLoop, SequenceTheorems, WellFoundedInduction, TLAPS

-----------------------------------------------------------------------------
(* Natural numbers. *)

LEMMA SetInduction ==
  ASSUME NEW S, 0 \in S, \A n \in Nat : n \in S => n + 1 \in S
  PROVE  Nat \subseteq S
<1> SUFFICES ASSUME Nat \ S # {} PROVE FALSE
  OBVIOUS
<1>1. PICK x \in Nat \ S : \A y \in Nat \ S : ~ (<<y, x>> \in OpToRel(<, Nat))
  BY NatLessThanWellFounded, WFMin
<1>2. x # 0 /\ x - 1 \in Nat OBVIOUS
<1>3. <<x - 1, x>> \in OpToRel(<, Nat) BY <1>2 DEF OpToRel
<1>4. x - 1 \in S BY <1>1, <1>2, <1>3
<1>5. (x - 1) + 1 = x OBVIOUS
<1> QED BY <1>2, <1>4, <1>5

LEMMA LeastOf ==
  ASSUME NEW I, I \subseteq Nat, I # {}
  PROVE  Min(I) \in I /\ \A j \in I : Min(I) <= j
<1>1. PICK x \in I : \A y \in I : ~ (<<y, x>> \in OpToRel(<, Nat))
  BY NatLessThanWellFounded, WFMin
<1>2. ASSUME NEW y \in I, y < x PROVE FALSE
  <2>1. <<y, x>> \in OpToRel(<, Nat) BY <1>2 DEF OpToRel
  <2> QED BY <1>1, <2>1
<1>3. \A y \in I : x <= y BY <1>2
<1> QED BY <1>3 DEF Min

-----------------------------------------------------------------------------
(* The order of tokens.  `loose` is TRUE when they need only be different. *)

Follows(loose, x, y) == IF loose THEN x # y ELSE x < y

Own(loose, a) == \A i, j \in DOMAIN a : i < j => Follows(loose, a[i], a[j])

Before(loose, a, b) ==
  \A i \in DOMAIN a, j \in DOMAIN b : Follows(loose, a[i], b[j])

Below(a, n) == \A i \in DOMAIN a : a[i] <= n

\* The elements of a concatenation.
LEMMA Halves ==
  ASSUME NEW a \in Seq(Nat), NEW b \in Seq(Nat)
  PROVE  /\ a \o b \in Seq(Nat)
         /\ \A i \in DOMAIN a : i \in DOMAIN (a \o b) /\ (a \o b)[i] = a[i]
         /\ \A j \in DOMAIN b : /\ Len(a) + j \in DOMAIN (a \o b)
                                /\ (a \o b)[Len(a) + j] = b[j]
         /\ \A k \in DOMAIN (a \o b) :
              k \in DOMAIN a \/ \E j \in DOMAIN b : k = Len(a) + j
<1>1. /\ a \o b \in Seq(Nat) /\ Len(a \o b) = Len(a) + Len(b)
      /\ \A i \in 1 .. Len(a) + Len(b) :
           (a \o b)[i] = IF i <= Len(a) THEN a[i] ELSE b[i - Len(a)]
  BY ConcatProperties
<1>2. /\ DOMAIN a = 1 .. Len(a) /\ DOMAIN b = 1 .. Len(b)
      /\ DOMAIN (a \o b) = 1 .. Len(a) + Len(b)
      /\ Len(a) \in Nat /\ Len(b) \in Nat
  BY <1>1, LenProperties
<1>3. ASSUME NEW j \in DOMAIN b
      PROVE  Len(a) + j \in DOMAIN (a \o b) /\ (a \o b)[Len(a) + j] = b[j]
  <2>1. /\ j \in 1 .. Len(b) /\ Len(a) + j \in 1 .. Len(a) + Len(b)
        /\ ~ (Len(a) + j <= Len(a)) /\ (Len(a) + j) - Len(a) = j
    BY <1>2
  <2> QED BY <1>1, <1>2, <2>1
<1>4. ASSUME NEW k \in DOMAIN (a \o b), k \notin DOMAIN a
      PROVE  \E j \in DOMAIN b : k = Len(a) + j
  <2>1. k - Len(a) \in DOMAIN b /\ k = Len(a) + (k - Len(a)) BY <1>2, <1>4
  <2> QED BY <2>1
<1>5. \A i \in DOMAIN a : i \in DOMAIN (a \o b) /\ (a \o b)[i] = a[i]
  BY <1>1, <1>2
<1> QED BY <1>1, <1>3, <1>4, <1>5

LEMMA Associative == \A a, b, c \in Seq(Nat) : (a \o b) \o c = a \o (b \o c)
BY ConcatAssociative

LEMMA OwnConcat ==
  ASSUME NEW l, NEW a \in Seq(Nat), NEW b \in Seq(Nat)
  PROVE  Own(l, a \o b) <=> Own(l, a) /\ Own(l, b) /\ Before(l, a, b)
<1>0. /\ DOMAIN a = 1 .. Len(a) /\ DOMAIN b = 1 .. Len(b)
      /\ Len(a) \in Nat /\ Len(b) \in Nat
  BY LenProperties
<1>1. ASSUME Own(l, a \o b) PROVE Own(l, a) /\ Own(l, b) /\ Before(l, a, b)
  <2>1. Own(l, a) BY <1>1, Halves DEF Own
  <2>2. Own(l, b)
    <3> SUFFICES ASSUME NEW i \in DOMAIN b, NEW j \in DOMAIN b, i < j
                 PROVE  Follows(l, b[i], b[j])
      BY DEF Own
    <3>1. Len(a) + i < Len(a) + j BY <1>0
    <3> QED BY <1>1, <3>1, Halves DEF Own
  <2>3. Before(l, a, b)
    <3> SUFFICES ASSUME NEW i \in DOMAIN a, NEW j \in DOMAIN b
                 PROVE  Follows(l, a[i], b[j])
      BY DEF Before
    <3>1. i < Len(a) + j BY <1>0
    <3> QED BY <1>1, <3>1, Halves DEF Own
  <2> QED BY <2>1, <2>2, <2>3
<1>2. ASSUME Own(l, a), Own(l, b), Before(l, a, b) PROVE Own(l, a \o b)
  <2> SUFFICES ASSUME NEW i \in DOMAIN (a \o b), NEW j \in DOMAIN (a \o b), i < j
               PROVE  Follows(l, (a \o b)[i], (a \o b)[j])
    BY DEF Own
  <2>1. CASE i \in DOMAIN a /\ j \in DOMAIN a
    BY <1>2, <2>1, Halves DEF Own
  <2>2. CASE i \in DOMAIN a /\ j \notin DOMAIN a
    BY <1>2, <2>2, Halves DEF Before
  <2>3. CASE i \notin DOMAIN a
    <3>1. PICK k \in DOMAIN b : i = Len(a) + k BY <2>3, Halves
    <3>2. j \notin DOMAIN a BY <1>0, <3>1
    <3>3. PICK m \in DOMAIN b : j = Len(a) + m BY <3>2, Halves
    <3>4. k < m BY <1>0, <3>1, <3>3
    <3> QED BY <1>2, <3>1, <3>3, <3>4, Halves DEF Own
  <2> QED BY <2>1, <2>2, <2>3
<1> QED BY <1>1, <1>2

\* A statement about every element of a concatenation.
LEMMA EachHalf ==
  ASSUME NEW a \in Seq(Nat), NEW b \in Seq(Nat), NEW X
  PROVE  (\A k \in DOMAIN (a \o b) : (a \o b)[k] \in X)
           <=> (\A i \in DOMAIN a : a[i] \in X) /\ (\A j \in DOMAIN b : b[j] \in X)
<1>1. ASSUME \A k \in DOMAIN (a \o b) : (a \o b)[k] \in X
      PROVE  (\A i \in DOMAIN a : a[i] \in X) /\ (\A j \in DOMAIN b : b[j] \in X)
  <2>1. ASSUME NEW i \in DOMAIN a PROVE a[i] \in X
    BY <1>1, Halves
  <2>2. ASSUME NEW j \in DOMAIN b PROVE b[j] \in X
    <3>1. Len(a) + j \in DOMAIN (a \o b) /\ (a \o b)[Len(a) + j] = b[j] BY Halves
    <3> QED BY <1>1, <3>1
  <2> QED BY <2>1, <2>2
<1>2. ASSUME \A i \in DOMAIN a : a[i] \in X, \A j \in DOMAIN b : b[j] \in X,
             NEW k \in DOMAIN (a \o b)
      PROVE  (a \o b)[k] \in X
  <2>1. CASE k \in DOMAIN a BY <1>2, <2>1, Halves
  <2>2. CASE k \notin DOMAIN a
    <3>1. PICK j \in DOMAIN b : k = Len(a) + j BY <2>2, Halves
    <3> QED BY <1>2, <3>1, Halves
  <2> QED BY <2>1, <2>2
<1> QED BY <1>1, <1>2

LEMMA Elements ==
  ASSUME NEW a \in Seq(Nat)
  PROVE  \A i \in DOMAIN a : a[i] \in Nat
BY ElementOfSeq, LenProperties

LEMMA BeforeLeft ==
  ASSUME NEW l, NEW a \in Seq(Nat), NEW b \in Seq(Nat), NEW c
  PROVE  Before(l, a \o b, c) <=> Before(l, a, c) /\ Before(l, b, c)
<1> DEFINE X == {x \in Nat : \A j \in DOMAIN c : Follows(l, x, c[j])}
<1>1. \A d \in Seq(Nat) : Before(l, d, c) <=> \A i \in DOMAIN d : d[i] \in X
  BY Elements DEF Before
<1> HIDE DEF X
<1>2. a \o b \in Seq(Nat) BY Halves
<1> QED BY <1>1, <1>2, EachHalf

LEMMA BeforeRight ==
  ASSUME NEW l, NEW a \in Seq(Nat), NEW b \in Seq(Nat), NEW c
  PROVE  Before(l, c, a \o b) <=> Before(l, c, a) /\ Before(l, c, b)
<1> DEFINE X == {x \in Nat : \A i \in DOMAIN c : Follows(l, c[i], x)}
<1>1. \A d \in Seq(Nat) : Before(l, c, d) <=> \A j \in DOMAIN d : d[j] \in X
  BY Elements DEF Before
<1> HIDE DEF X
<1>2. a \o b \in Seq(Nat) BY Halves
<1> QED BY <1>1, <1>2, EachHalf

LEMMA BelowConcat ==
  ASSUME NEW a \in Seq(Nat), NEW b \in Seq(Nat), NEW n
  PROVE  Below(a \o b, n) <=> Below(a, n) /\ Below(b, n)
<1> DEFINE X == {x \in Nat : x <= n}
<1>1. \A d \in Seq(Nat) : Below(d, n) <=> \A i \in DOMAIN d : d[i] \in X
  BY Elements DEF Below
<1> HIDE DEF X
<1>2. a \o b \in Seq(Nat) BY Halves
<1> QED BY <1>1, <1>2, EachHalf

LEMMA ToSetConcat ==
  ASSUME NEW a \in Seq(Nat), NEW b \in Seq(Nat)
  PROVE  ToSet(a \o b) = ToSet(a) \cup ToSet(b)
<1> DEFINE X == ToSet(a) \cup ToSet(b)
<1>1. ToSet(a \o b) \subseteq X
  <2>1. (\A i \in DOMAIN a : a[i] \in X) /\ (\A j \in DOMAIN b : b[j] \in X)
    BY DEF ToSet
  <2> HIDE DEF X
  <2>2. \A k \in DOMAIN (a \o b) : (a \o b)[k] \in X BY <2>1, EachHalf
  <2> QED BY <2>2 DEF ToSet
<1>2. X \subseteq ToSet(a \o b)
  <2>1. \A i \in DOMAIN a : a[i] \in ToSet(a \o b) BY Halves DEF ToSet
  <2>2. ASSUME NEW j \in DOMAIN b PROVE b[j] \in ToSet(a \o b)
    <3>1. Len(a) + j \in DOMAIN (a \o b) /\ (a \o b)[Len(a) + j] = b[j] BY Halves
    <3> QED BY <3>1 DEF ToSet
  <2> QED BY <2>1, <2>2 DEF ToSet
<1> QED BY <1>1, <1>2

LEMMA NothingInOrder ==
  /\ <<>> \in Seq(Nat)
  /\ \A l : Own(l, <<>>)
  /\ \A l, a : Before(l, <<>>, a) /\ Before(l, a, <<>>)
  /\ \A n : Below(<<>>, n)
BY DEF Own, Before, Below

LEMMA Loosen ==
  ASSUME NEW l \in BOOLEAN, NEW a \in Seq(Nat), NEW b \in Seq(Nat)
  PROVE  /\ Own(FALSE, a) => Own(l, a)
         /\ Before(FALSE, a, b) => Before(l, a, b)
         /\ Own(l, a) => Own(TRUE, a)
         /\ Before(l, a, b) => Before(TRUE, a, b)
<1>1. \A i \in DOMAIN a : a[i] \in Nat BY ElementOfSeq, LenProperties
<1>2. \A i \in DOMAIN b : b[i] \in Nat BY ElementOfSeq, LenProperties
<1>3. \A x, y \in Nat : /\ Follows(FALSE, x, y) => Follows(l, x, y)
                        /\ Follows(l, x, y) => Follows(TRUE, x, y)
  BY DEF Follows
<1> QED BY <1>1, <1>2, <1>3 DEF Own, Before

LEMMA Swap ==
  ASSUME NEW a, NEW b, Before(TRUE, a, b)
  PROVE  Before(TRUE, b, a)
BY DEF Before, Follows

-----------------------------------------------------------------------------
(* Sequences of events, and their tokens. *)

Event == [paste : BOOLEAN, tokens : Seq(Nat)]

\* The function FlattenSeq builds.
Flattened(s) ==
  CHOOSE f : f = [i \in 1 .. Len(s) |-> IF i = 1 THEN s[i] ELSE f[i - 1] \o s[i]]

LEMMA FlattenedExists ==
  ASSUME NEW s
  PROVE  \A n \in Nat :
           \E f : f = [i \in 1 .. n |-> IF i = 1 THEN s[i] ELSE f[i - 1] \o s[i]]
<1> DEFINE Val(f, i) == IF i = 1 THEN s[i] ELSE f[i - 1] \o s[i]
           S == {n \in Nat : \E f : f = [i \in 1 .. n |-> Val(f, i)]}
<1>1. 0 \in S
  <2> DEFINE f == [i \in 1 .. 0 |-> 0]
  <2>1. f = [i \in 1 .. 0 |-> Val(f, i)] OBVIOUS
  <2> QED BY <2>1
<1>2. ASSUME NEW n \in Nat, n \in S PROVE n + 1 \in S
  <2>1. PICK f : f = [i \in 1 .. n |-> Val(f, i)] BY <1>2
  <2>0. \A i \in 1 .. n : f[i] = Val(f, i) BY <2>1
  <2> DEFINE g == [i \in 1 .. n + 1 |-> IF i <= n THEN f[i] ELSE Val(f, i)]
  <2>2. ASSUME NEW i \in 1 .. n + 1 PROVE g[i] = Val(g, i)
    <3>1. CASE i <= n
      <4>1. i \in 1 .. n BY <3>1
      <4>3. f[i] = Val(f, i) BY <2>0, <4>1
      <4>2. i = 1 \/ g[i - 1] = f[i - 1] BY <3>1
      <4> QED BY <3>1, <4>2, <4>3
    <3>2. CASE ~ (i <= n)
      <4>1. i = 1 \/ g[i - 1] = f[i - 1] BY <3>2
      <4> QED BY <3>2, <4>1
    <3> QED BY <3>1, <3>2
  <2>3. g = [i \in 1 .. n + 1 |-> g[i]] OBVIOUS
  <2> HIDE DEF g
  <2>4. g = [i \in 1 .. n + 1 |-> Val(g, i)] BY <2>2, <2>3
  <2>5. \E h : h = [i \in 1 .. n + 1 |-> Val(h, i)] BY <2>4
  <2>6. n + 1 \in Nat OBVIOUS
  <2> HIDE DEF Val
  <2> QED BY <2>5, <2>6
<1>3. Nat \subseteq S
  <2> HIDE DEF S
  <2> QED BY <1>1, <1>2, SetInduction
<1> QED BY <1>3

LEMMA FlattenIs ==
  ASSUME NEW T, NEW s \in Seq(T), s # <<>>
  PROVE  /\ FlattenSeq(s) = Flattened(s)[Len(s)]
         /\ Len(s) \in Nat /\ Len(s) >= 1
         /\ \A i \in 1 .. Len(s) :
              Flattened(s)[i] = IF i = 1 THEN s[i] ELSE Flattened(s)[i - 1] \o s[i]
<1>1. Len(s) \in Nat /\ Len(s) # 0
  BY LenProperties, EmptySeq
<1> DEFINE f == Flattened(s)
<1>2. f = [i \in 1 .. Len(s) |-> IF i = 1 THEN s[i] ELSE f[i - 1] \o s[i]]
  BY <1>1, FlattenedExists DEF Flattened
<1>3. FlattenSeq(s) = f[Len(s)] BY <1>1 DEF FlattenSeq, Flattened
<1> HIDE DEF f
<1>4. \A i \in 1 .. Len(s) : f[i] = IF i = 1 THEN s[i] ELSE f[i - 1] \o s[i]
  BY <1>2
<1> QED BY <1>1, <1>3, <1>4 DEF f

\* What is flattened first does not depend on what follows.
LEMMA FlattenedPrefix ==
  ASSUME NEW T, NEW s \in Seq(T), NEW t \in Seq(T), s # <<>>, Len(s) <= Len(t),
         \A i \in 1 .. Len(s) : t[i] = s[i]
  PROVE  \A i \in 1 .. Len(s) : Flattened(t)[i] = Flattened(s)[i]
<1>0. /\ Len(s) \in Nat /\ Len(t) \in Nat /\ t # <<>>
      /\ \A i \in 1 .. Len(s) :
           Flattened(s)[i] = IF i = 1 THEN s[i] ELSE Flattened(s)[i - 1] \o s[i]
      /\ \A i \in 1 .. Len(t) :
           Flattened(t)[i] = IF i = 1 THEN t[i] ELSE Flattened(t)[i - 1] \o t[i]
  <2>1. Len(s) \in Nat /\ Len(s) >= 1 /\ Len(t) \in Nat BY FlattenIs, LenProperties
  <2>2. t # <<>> BY <2>1, EmptySeq
  <2> QED BY <2>1, <2>2, FlattenIs
<1> DEFINE S == {n \in Nat : n \in 1 .. Len(s) => Flattened(t)[n] = Flattened(s)[n]}
<1>1. 0 \in S OBVIOUS
<1>2. ASSUME NEW n \in Nat, n \in S PROVE n + 1 \in S
  <2> SUFFICES ASSUME n + 1 \in 1 .. Len(s)
               PROVE  Flattened(t)[n + 1] = Flattened(s)[n + 1]
    OBVIOUS
  <2>1. (n + 1) - 1 = n /\ n + 1 \in 1 .. Len(t) BY <1>0
  <2>2. CASE n = 0 BY <1>0, <2>1, <2>2
  <2>3. CASE n # 0
    <3>1. n \in 1 .. Len(s) /\ n + 1 # 1 BY <1>0, <2>3
    <3>2. Flattened(t)[n] = Flattened(s)[n] BY <1>2, <3>1
    <3>3. Flattened(t)[n + 1] = Flattened(t)[n] \o t[n + 1] BY <1>0, <2>1, <3>1
    <3>4. Flattened(s)[n + 1] = Flattened(s)[n] \o s[n + 1] BY <1>0, <2>1, <3>1
    <3> QED BY <3>2, <3>3, <3>4
  <2> QED BY <2>2, <2>3
<1>3. Nat \subseteq S
  <2> HIDE DEF S
  <2> QED BY <1>1, <1>2, SetInduction
<1> QED BY <1>0, <1>3

LEMMA FlattenAppend ==
  ASSUME NEW s \in Seq(Seq(Nat)), NEW x \in Seq(Nat)
  PROVE  FlattenSeq(Append(s, x)) = FlattenSeq(s) \o x
<1> DEFINE t == Append(s, x)
<1>1. /\ t \in Seq(Seq(Nat)) /\ t # <<>> /\ Len(t) = Len(s) + 1 /\ Len(s) \in Nat
      /\ \A i \in 1 .. Len(s) : t[i] = s[i]
      /\ t[Len(s) + 1] = x
  BY AppendProperties, LenProperties
<1> HIDE DEF t
<1>2. FlattenSeq(t) = Flattened(t)[Len(s) + 1] BY <1>1, FlattenIs
<1>3. CASE s = <<>>
  <2>1. Len(s) = 0 /\ FlattenSeq(s) = <<>> BY <1>3 DEF FlattenSeq
  <2>2. Flattened(t)[1] = t[1] BY <1>1, <2>1, FlattenIs
  <2>3. <<>> \o x = x BY ConcatEmptySeq
  <2> QED BY <1>1, <1>2, <2>1, <2>2, <2>3 DEF t
<1>4. CASE s # <<>>
  <2>1. Len(s) >= 1 /\ FlattenSeq(s) = Flattened(s)[Len(s)] BY <1>4, FlattenIs
  <2>0. /\ Len(s) + 1 \in 1 .. Len(t) /\ Len(s) + 1 # 1
        /\ Len(s) <= Len(t) /\ Len(s) \in 1 .. Len(s)
    BY <1>1, <2>1
  <2>5. \A i \in 1 .. Len(t) :
          Flattened(t)[i] = IF i = 1 THEN t[i] ELSE Flattened(t)[i - 1] \o t[i]
    BY <1>1, FlattenIs
  <2>2. Flattened(t)[Len(s) + 1] = Flattened(t)[(Len(s) + 1) - 1] \o t[Len(s) + 1]
    BY <2>0, <2>5
  <2>3. (Len(s) + 1) - 1 = Len(s) BY <1>1
  <2>4. Flattened(t)[Len(s)] = Flattened(s)[Len(s)]
    <3>1. \A i \in 1 .. Len(s) : Flattened(t)[i] = Flattened(s)[i]
      BY <1>1, <1>4, <2>0, FlattenedPrefix
    <3> QED BY <2>0, <3>1
  <2> QED BY <1>1, <1>2, <2>1, <2>2, <2>3, <2>4 DEF t
<1> QED BY <1>3, <1>4

LEMMA TokensEmpty == Tokens(<<>>) = <<>>
<1>1. [i \in DOMAIN <<>> |-> <<>>[i].tokens] = <<>> OBVIOUS
<1> QED BY <1>1 DEF Tokens, FlattenSeq

LEMMA TokensAppend ==
  ASSUME NEW out \in Seq(Event), NEW e \in Event
  PROVE  Tokens(Append(out, e)) = Tokens(out) \o e.tokens
<1> DEFINE s == [i \in DOMAIN out |-> out[i].tokens]
           t == [i \in DOMAIN Append(out, e) |-> Append(out, e)[i].tokens]
<1>1. /\ Len(out) \in Nat /\ DOMAIN out = 1 .. Len(out)
      /\ \A i \in 1 .. Len(out) : out[i] \in Event
  BY LenProperties, ElementOfSeq
<1>2. /\ DOMAIN Append(out, e) = 1 .. Len(out) + 1
      /\ \A i \in 1 .. Len(out) : Append(out, e)[i] = out[i]
      /\ Append(out, e)[Len(out) + 1] = e
  BY <1>1, AppendProperties, LenProperties
<1>3. e.tokens \in Seq(Nat) BY DEF Event
<1>4. s \in Seq(Seq(Nat)) /\ Len(s) = Len(out)
  BY <1>1 DEF Event
<1>5. t = Append(s, e.tokens)
  <2>1. t \in Seq(Seq(Nat)) /\ Len(t) = Len(out) + 1
    BY <1>1, <1>2, <1>3 DEF Event
  <2>2. /\ Append(s, e.tokens) \in Seq(Seq(Nat))
        /\ Len(Append(s, e.tokens)) = Len(out) + 1
        /\ \A i \in 1 .. Len(out) : Append(s, e.tokens)[i] = s[i]
        /\ Append(s, e.tokens)[Len(out) + 1] = e.tokens
    BY <1>3, <1>4, AppendProperties
  <2>3. ASSUME NEW i \in 1 .. Len(out) + 1 PROVE t[i] = Append(s, e.tokens)[i]
    <3>1. CASE i \in 1 .. Len(out) BY <1>1, <1>2, <2>2, <3>1
    <3>2. CASE i = Len(out) + 1 BY <1>1, <1>2, <2>2, <3>2
    <3> QED BY <1>1, <3>1, <3>2
  <2> HIDE DEF s, t
  <2> QED BY <2>1, <2>2, <2>3, SeqEqual
<1> HIDE DEF s, t
<1>6. FlattenSeq(t) = FlattenSeq(s) \o e.tokens BY <1>3, <1>4, <1>5, FlattenAppend
<1> QED BY <1>6 DEF Tokens, s, t

LEMMA TokensType ==
  ASSUME NEW out \in Seq(Event)
  PROVE  Tokens(out) \in Seq(Nat)
<1> DEFINE S == {n \in Nat : \A o \in Seq(Event) : Len(o) = n => Tokens(o) \in Seq(Nat)}
<1>1. 0 \in S
  <2>1. ASSUME NEW o \in Seq(Event), Len(o) = 0 PROVE Tokens(o) \in Seq(Nat)
    <3>1. o = <<>> BY <2>1, EmptySeq
    <3> QED BY <3>1, TokensEmpty, EmptySeq
  <2> QED BY <2>1
<1>2. ASSUME NEW n \in Nat, n \in S PROVE n + 1 \in S
  <2>1. ASSUME NEW o \in Seq(Event), Len(o) = n + 1 PROVE Tokens(o) \in Seq(Nat)
    <3>1. o # <<>> BY <2>1, EmptySeq
    <3>2. PICK p \in Seq(Event), e \in Event : o = Append(p, e)
      BY <3>1, SequenceEmptyOrAppend
    <3>3. Len(p) = n BY <2>1, <3>2, AppendProperties, LenProperties
    <3>4. Tokens(p) \in Seq(Nat) BY <1>2, <3>3
    <3>5. e.tokens \in Seq(Nat) BY DEF Event
    <3> QED BY <3>2, <3>4, <3>5, TokensAppend, ConcatProperties
  <2>2. n + 1 \in Nat OBVIOUS
  <2> QED BY <2>1, <2>2
<1>3. Nat \subseteq S
  <2> HIDE DEF S
  <2> QED BY <1>1, <1>2, SetInduction
<1> QED BY <1>3, LenProperties

LEMMA TokensConcat ==
  ASSUME NEW a \in Seq(Event), NEW b \in Seq(Event)
  PROVE  Tokens(a \o b) = Tokens(a) \o Tokens(b)
<1> DEFINE S == {n \in Nat : \A o \in Seq(Event) :
                               Len(o) = n => Tokens(a \o o) = Tokens(a) \o Tokens(o)}
<1>0. Tokens(a) \in Seq(Nat) BY TokensType
<1>1. 0 \in S
  <2>1. ASSUME NEW o \in Seq(Event), Len(o) = 0
        PROVE  Tokens(a \o o) = Tokens(a) \o Tokens(o)
    <3>1. o = <<>> BY <2>1, EmptySeq
    <3> QED BY <1>0, <3>1, TokensEmpty, ConcatEmptySeq
  <2> QED BY <2>1
<1>2. ASSUME NEW n \in Nat, n \in S PROVE n + 1 \in S
  <2>1. ASSUME NEW o \in Seq(Event), Len(o) = n + 1
        PROVE  Tokens(a \o o) = Tokens(a) \o Tokens(o)
    <3>1. o # <<>> BY <2>1, EmptySeq
    <3>2. PICK p \in Seq(Event), e \in Event : o = Append(p, e)
      BY <3>1, SequenceEmptyOrAppend
    <3>3. Len(p) = n BY <2>1, <3>2, AppendProperties, LenProperties
    <3>4. Tokens(a \o p) = Tokens(a) \o Tokens(p) BY <1>2, <3>3
    <3>5. e.tokens \in Seq(Nat) /\ Tokens(p) \in Seq(Nat) /\ a \o p \in Seq(Event)
      BY TokensType, ConcatProperties DEF Event
    <3>6. a \o o = Append(a \o p, e)
      <4>1. o = p \o <<e>> BY <3>2, AppendIsConcat
      <4>2. <<e>> \in Seq(Event) OBVIOUS
      <4>3. a \o (p \o <<e>>) = (a \o p) \o <<e>> BY <4>2, ConcatAssociative
      <4>4. Append(a \o p, e) = (a \o p) \o <<e>> BY <3>5, AppendIsConcat
      <4> QED BY <4>1, <4>3, <4>4
    <3>7. Tokens(a \o o) = (Tokens(a) \o Tokens(p)) \o e.tokens
      BY <3>4, <3>5, <3>6, TokensAppend
    <3>8. Tokens(o) = Tokens(p) \o e.tokens BY <3>2, TokensAppend
    <3>9. (Tokens(a) \o Tokens(p)) \o e.tokens = Tokens(a) \o (Tokens(p) \o e.tokens)
      BY <1>0, <3>5, Associative, Zenon
    <3> QED BY <3>7, <3>8, <3>9
  <2>2. n + 1 \in Nat OBVIOUS
  <2> QED BY <2>1, <2>2
<1>3. Nat \subseteq S
  <2> HIDE DEF S
  <2> QED BY <1>1, <1>2, SetInduction
<1> QED BY <1>3, LenProperties

\* The tokens before, in and after the event at k.
LEMMA TokensAround ==
  ASSUME NEW out \in Seq(Event), NEW k \in 1 .. Len(out)
  PROVE  /\ Tokens(SubSeq(out, 1, k - 1)) \in Seq(Nat)
         /\ out[k].tokens \in Seq(Nat)
         /\ Tokens(SubSeq(out, k + 1, Len(out))) \in Seq(Nat)
         /\ Tokens(out) = Tokens(SubSeq(out, 1, k - 1))
                            \o (out[k].tokens \o Tokens(SubSeq(out, k + 1, Len(out))))
<1> DEFINE a == SubSeq(out, 1, k - 1)
           b == SubSeq(out, 1, k)
           c == SubSeq(out, k + 1, Len(out))
<1>0. /\ Len(out) \in Nat /\ \A i \in 1 .. Len(out) : out[i] \in Event
  BY LenProperties, ElementOfSeq
<1>1. a \in Seq(Event) /\ b \in Seq(Event) /\ c \in Seq(Event)
  <2>1. \A i \in 1 .. k - 1 : out[i] \in Event BY <1>0
  <2>2. \A i \in 1 .. k : out[i] \in Event BY <1>0
  <2>3. \A i \in k + 1 .. Len(out) : out[i] \in Event BY <1>0
  <2>4. k \in Int /\ k - 1 \in Int /\ k + 1 \in Int /\ Len(out) \in Int BY <1>0
  <2> QED BY <2>1, <2>2, <2>3, <2>4, SubSeqProperties
<1>2. b \o c = out
  <2>1. 1 \in 1 .. Len(out) + 1 /\ k \in 1 - 1 .. Len(out) /\ Len(out) \in k .. Len(out)
    BY <1>0
  <2>2. b \o c = SubSeq(out, 1, Len(out)) BY <2>1, ConcatAdjacentSubSeq
  <2> QED BY <2>2, SubSeqFull
<1>3. b = Append(a, out[k])
  <2>1. 1 \in 1 .. Len(out) /\ k \in 1 .. Len(out) BY <1>0
  <2>2. b = a \o <<out[k]>> BY <2>1, SubSeqRecursiveSecond
  <2>3. out[k] \in Event BY <1>0
  <2>4. Append(a, out[k]) = a \o <<out[k]>> BY <1>1, <2>3, AppendIsConcat
  <2> QED BY <2>2, <2>4
<1> HIDE DEF a, b, c
<1>4. out[k] \in Event BY <1>0
<1>5. /\ out[k].tokens \in Seq(Nat)
      /\ Tokens(a) \in Seq(Nat) /\ Tokens(c) \in Seq(Nat)
  BY <1>1, <1>4, TokensType DEF Event
<1>6. Tokens(out) = (Tokens(a) \o out[k].tokens) \o Tokens(c)
  <2>1. Tokens(b \o c) = Tokens(b) \o Tokens(c) BY <1>1, TokensConcat
  <2>2. Tokens(b) = Tokens(a) \o out[k].tokens BY <1>1, <1>3, <1>4, TokensAppend
  <2> QED BY <1>2, <2>1, <2>2
<1>7. Tokens(out) = Tokens(a) \o (out[k].tokens \o Tokens(c))
  <2>1. (Tokens(a) \o out[k].tokens) \o Tokens(c)
          = Tokens(a) \o (out[k].tokens \o Tokens(c))
    BY <1>5, Associative, Zenon
  <2> QED BY <1>6, <2>1
<1> QED BY <1>5, <1>7 DEF a, c

-----------------------------------------------------------------------------
(* The paste detector gives out, or holds back, all that it is fed, and    *)
(* leaves it in its order.                                                 *)

Scanning == [active : BOOLEAN, held : Seq(Nat), plain : Seq(Nat), out : Seq(Event)]

Shape(d) == (d.active => d.plain = <<>>) /\ (~d.active => d.held = <<>>)

Whole(d) == Tokens(d.out) \o (d.plain \o d.held)

LEMMA Appended ==
  ASSUME NEW a \in Seq(Nat), NEW t \in Nat
  PROVE  /\ Append(a, t) \in Seq(Nat) /\ <<t>> \in Seq(Nat)
         /\ Append(a, t) = a \o <<t>>
BY AppendProperties, AppendIsConcat

LEMMA EmptyUnit ==
  \A a \in Seq(Nat) : a \o <<>> = a /\ <<>> \o a = a /\ <<>> \in Seq(Nat)
BY ConcatEmptySeq

LEMMA ConcatType == \A a, b \in Seq(Nat) : a \o b \in Seq(Nat)
BY ConcatProperties

\* The plain text so far goes out before a paste.
LEMMA PlainOut ==
  ASSUME NEW d \in Scanning, NEW b,
         b = IF d.plain = <<>> THEN d.out
             ELSE Append(d.out, [paste |-> FALSE, tokens |-> d.plain])
  PROVE  b \in Seq(Event) /\ Tokens(b) = Tokens(d.out) \o d.plain
<1>0. d.out \in Seq(Event) /\ d.plain \in Seq(Nat) /\ Tokens(d.out) \in Seq(Nat)
  BY TokensType DEF Scanning
<1>1. CASE d.plain = <<>>
  BY <1>0, <1>1, EmptyUnit
<1>2. CASE d.plain # <<>>
  <2> DEFINE e == [paste |-> FALSE, tokens |-> d.plain]
  <2>1. e \in Event /\ e.tokens = d.plain BY <1>0 DEF Event
  <2>2. b = Append(d.out, e) BY <1>2
  <2> HIDE DEF e
  <2>3. Tokens(Append(d.out, e)) = Tokens(d.out) \o e.tokens BY <1>0, <2>1, TokensAppend
  <2>4. Append(d.out, e) \in Seq(Event) BY <1>0, <2>1, AppendProperties
  <2> QED BY <2>1, <2>2, <2>3, <2>4
<1> QED BY <1>1, <1>2

LEMMA PasteOut ==
  ASSUME NEW b \in Seq(Event), NEW ts \in Seq(Nat), NEW c,
         c = Append(b, [paste |-> TRUE, tokens |-> ts])
  PROVE  c \in Seq(Event) /\ Tokens(c) = Tokens(b) \o ts
<1> DEFINE e == [paste |-> TRUE, tokens |-> ts]
<1>1. e \in Event /\ e.tokens = ts BY DEF Event
<1> HIDE DEF e
<1>2. c = Append(b, e) BY DEF e
<1>3. Tokens(Append(b, e)) = Tokens(b) \o e.tokens BY <1>1, TokensAppend
<1>4. Append(b, e) \in Seq(Event) BY <1>1, AppendProperties
<1> QED BY <1>1, <1>2, <1>3, <1>4

LEMMA ScanKeeps ==
  ASSUME NEW d \in Scanning, Shape(d), NEW t \in Nat
  PROVE  /\ Scan(d, t) \in Scanning
         /\ Shape(Scan(d, t))
         /\ Whole(Scan(d, t)) = Whole(d) \o <<t>>
<1> DEFINE x == Scan(d, t)
           b == IF d.plain = <<>> THEN d.out
                ELSE Append(d.out, [paste |-> FALSE, tokens |-> d.plain])
<1>0. /\ d.active \in BOOLEAN /\ d.held \in Seq(Nat) /\ d.plain \in Seq(Nat)
      /\ d.out \in Seq(Event) /\ Tokens(d.out) \in Seq(Nat)
      /\ <<t>> \in Seq(Nat)
  BY TokensType DEF Scanning
<1>1. CASE d.active /\ KindOf(t) = "end"
  <2>1. x = [d EXCEPT !.active = FALSE, !.held = <<>>, !.plain = <<>>,
                      !.out = Append(@, [paste |-> TRUE, tokens |-> Append(d.held, t)])]
    BY <1>1 DEF Scan
  <2>2. /\ x.active = FALSE /\ x.held = <<>> /\ x.plain = <<>>
        /\ x.out = Append(d.out, [paste |-> TRUE, tokens |-> Append(d.held, t)])
        /\ x = [active |-> x.active, held |-> x.held, plain |-> x.plain, out |-> x.out]
    BY <2>1 DEF Scanning
  <2>3. /\ Append(d.held, t) \in Seq(Nat) /\ Append(d.held, t) = d.held \o <<t>>
    BY <1>0, Appended
  <2>4. x.out \in Seq(Event) /\ Tokens(x.out) = Tokens(d.out) \o (d.held \o <<t>>)
    BY <1>0, <2>2, <2>3, PasteOut
  <2> HIDE DEF x
  <2>5. Whole(x) = Tokens(d.out) \o (d.held \o <<t>>)
    BY <1>0, <2>2, <2>4, EmptyUnit, ConcatType DEF Whole
  <2>6. Whole(d) = Tokens(d.out) \o d.held
    BY <1>0, <1>1, EmptyUnit DEF Whole, Shape
  <2>7. (Tokens(d.out) \o d.held) \o <<t>> = Tokens(d.out) \o (d.held \o <<t>>)
    BY <1>0, Associative, Zenon
  <2>8. x \in Scanning BY <2>2, <2>4, EmptyUnit, <1>0 DEF Scanning
  <2>9. Shape(x) BY <2>2 DEF Shape
  <2> QED BY <2>5, <2>6, <2>7, <2>8, <2>9 DEF x
<1>2. CASE d.active /\ KindOf(t) # "end"
  <2>1. x = [d EXCEPT !.held = Append(@, t)]
    BY <1>2 DEF Scan
  <2>2. /\ x.active = d.active /\ x.held = Append(d.held, t)
        /\ x.plain = d.plain /\ x.out = d.out
        /\ x = [active |-> x.active, held |-> x.held, plain |-> x.plain, out |-> x.out]
    BY <2>1 DEF Scanning
  <2>3. /\ Append(d.held, t) \in Seq(Nat) /\ Append(d.held, t) = d.held \o <<t>>
    BY <1>0, Appended
  <2>4. d.plain = <<>> BY <1>2 DEF Shape
  <2> HIDE DEF x
  <2>5. Whole(x) = Tokens(d.out) \o (d.held \o <<t>>)
    BY <1>0, <2>2, <2>3, <2>4, EmptyUnit DEF Whole
  <2>6. Whole(d) = Tokens(d.out) \o d.held
    BY <1>0, <2>4, EmptyUnit DEF Whole
  <2>7. (Tokens(d.out) \o d.held) \o <<t>> = Tokens(d.out) \o (d.held \o <<t>>)
    BY <1>0, Associative, Zenon
  <2>8. x \in Scanning BY <1>0, <2>2, <2>3 DEF Scanning
  <2>9. Shape(x) BY <1>2, <2>2, <2>4 DEF Shape
  <2> QED BY <2>5, <2>6, <2>7, <2>8, <2>9 DEF x
<1>3. CASE ~d.active
  <2>0. d.held = <<>> BY <1>3 DEF Shape
  <2>1. b \in Seq(Event) /\ Tokens(b) = Tokens(d.out) \o d.plain
    BY PlainOut
  <2>2. Whole(d) = Tokens(d.out) \o d.plain
    BY <1>0, <2>0, EmptyUnit DEF Whole
  <2>3. Tokens(b) \in Seq(Nat) BY <2>1, TokensType
  <2> HIDE DEF b
  <2>4. CASE KindOf(t) = "start"
    <3>1. x = [active |-> TRUE, held |-> <<t>>, plain |-> <<>>, out |-> b]
      BY <1>3, <2>4 DEF Scan, b
    <3>2. Whole(x) = Tokens(b) \o <<t>>
      BY <1>0, <3>1, EmptyUnit DEF Whole
    <3>3. x \in Scanning BY <1>0, <2>1, <3>1, EmptyUnit DEF Scanning
    <3>4. Shape(x) BY <3>1 DEF Shape
    <3> QED BY <2>1, <2>2, <3>2, <3>3, <3>4
  <2>5. CASE KindOf(t) = "paste"
    <3>1. x = [d EXCEPT !.plain = <<>>,
                        !.out = Append(b, [paste |-> TRUE, tokens |-> <<t>>])]
      BY <1>3, <2>5 DEF Scan, b
    <3>2. /\ x.active = d.active /\ x.held = d.held /\ x.plain = <<>>
          /\ x.out = Append(b, [paste |-> TRUE, tokens |-> <<t>>])
          /\ x = [active |-> x.active, held |-> x.held, plain |-> x.plain, out |-> x.out]
      BY <3>1 DEF Scanning
    <3>3. x.out \in Seq(Event) /\ Tokens(x.out) = Tokens(b) \o <<t>>
      BY <1>0, <2>1, <3>2, PasteOut
    <3> HIDE DEF x
    <3>4. Whole(x) = Tokens(b) \o <<t>>
      BY <1>0, <2>0, <2>3, <3>2, <3>3, EmptyUnit, ConcatType DEF Whole
    <3>5. x \in Scanning BY <1>0, <3>2, <3>3, EmptyUnit DEF Scanning
    <3>6. Shape(x) BY <1>3, <2>0, <3>2 DEF Shape
    <3> QED BY <2>1, <2>2, <3>4, <3>5, <3>6 DEF x
  <2>6. CASE KindOf(t) # "start" /\ KindOf(t) # "paste"
    <3>1. x = [d EXCEPT !.plain = Append(@, t)]
      BY <1>3, <2>6 DEF Scan
    <3>2. /\ x.active = d.active /\ x.held = d.held /\ x.plain = Append(d.plain, t)
          /\ x.out = d.out
          /\ x = [active |-> x.active, held |-> x.held, plain |-> x.plain, out |-> x.out]
      BY <3>1 DEF Scanning
    <3>3. /\ Append(d.plain, t) \in Seq(Nat) /\ Append(d.plain, t) = d.plain \o <<t>>
      BY <1>0, Appended
    <3> HIDE DEF x
    <3>4. Whole(x) = Tokens(d.out) \o (d.plain \o <<t>>)
      BY <1>0, <2>0, <3>2, <3>3, EmptyUnit DEF Whole
    <3>5. (Tokens(d.out) \o d.plain) \o <<t>> = Tokens(d.out) \o (d.plain \o <<t>>)
      BY <1>0, Associative, Zenon
    <3>6. x \in Scanning BY <1>0, <3>2, <3>3 DEF Scanning
    <3>7. Shape(x) BY <1>3, <2>0, <3>2 DEF Shape
    <3> QED BY <2>2, <3>4, <3>5, <3>6, <3>7 DEF x
  <2> QED BY <2>4, <2>5, <2>6
<1> QED BY <1>0, <1>1, <1>2, <1>3

\* An Esc at the end is held back, the rest of the plain text goes out.
LEMMA SettleKeeps ==
  ASSUME NEW d \in Scanning, Shape(d)
  PROVE  /\ Settle(d).detector \in [active : BOOLEAN, held : Seq(Nat)]
         /\ Settle(d).out \in Seq(Event)
         /\ Tokens(Settle(d).out) \o Settle(d).detector.held = Whole(d)
<1> DEFINE keep == d.plain # <<>> /\ KindOf(Last(d.plain)) = "esc"
           plain == IF keep THEN Front(d.plain) ELSE d.plain
           held == IF keep THEN <<Last(d.plain)>> ELSE d.held
           out == IF plain = <<>> THEN d.out
                  ELSE Append(d.out, [paste |-> FALSE, tokens |-> plain])
<1>0. /\ d.active \in BOOLEAN /\ d.held \in Seq(Nat) /\ d.plain \in Seq(Nat)
      /\ d.out \in Seq(Event) /\ Tokens(d.out) \in Seq(Nat)
  BY TokensType DEF Scanning
<1>1. /\ Settle(d).detector = [active |-> d.active, held |-> held]
      /\ Settle(d).out = out
  BY DEF Settle
<1>2. plain \in Seq(Nat) /\ held \in Seq(Nat) /\ plain \o held = d.plain \o d.held
  <2>1. CASE keep
    <3>1. ~d.active /\ d.held = <<>> BY <1>0, <2>1 DEF Shape
    <3>2. Len(d.plain) \in Nat \ {0} BY <1>0, <2>1, EmptySeq
    <3>3. Last(d.plain) \in Nat BY <1>0, <3>2, ElementOfSeq DEF Last
    <3>4. Front(d.plain) \in Seq(Nat)
      <4>1. \A j \in 1 .. Len(d.plain) - 1 : d.plain[j] \in Nat
        BY <1>0, <3>2, ElementOfSeq
      <4>2. 1 \in Int /\ Len(d.plain) - 1 \in Int BY <3>2
      <4> QED BY <4>1, <4>2, SubSeqProperties DEF Front
    <3>5. Front(d.plain) \o <<Last(d.plain)>> = d.plain
      <4>1. 1 \in 1 .. Len(d.plain) /\ Len(d.plain) \in 1 .. Len(d.plain) BY <3>2
      <4>2. SubSeq(d.plain, 1, Len(d.plain))
              = SubSeq(d.plain, 1, Len(d.plain) - 1) \o <<d.plain[Len(d.plain)]>>
        BY <1>0, <4>1, SubSeqRecursiveSecond
      <4>3. SubSeq(d.plain, 1, Len(d.plain)) = d.plain BY <1>0, SubSeqFull
      <4> QED BY <4>2, <4>3 DEF Front, Last
    <3>6. plain = Front(d.plain) /\ held = <<Last(d.plain)>> BY <2>1
    <3>7. held \in Seq(Nat)
      <4>1. <<Last(d.plain)>> \in Seq(Nat) BY <3>3
      <4> HIDE DEF held
      <4> QED BY <3>6, <4>1
    <3>8. d.plain \o d.held = d.plain BY <1>0, <3>1, EmptyUnit
    <3> QED BY <3>4, <3>5, <3>6, <3>7, <3>8
  <2>2. CASE ~keep BY <1>0, <2>2
  <2> QED BY <2>1, <2>2
<1> HIDE DEF keep, plain, held
<1>3. out \in Seq(Event) /\ Tokens(out) = Tokens(d.out) \o plain
  <2> DEFINE e == [d EXCEPT !.plain = plain]
  <2>1. e \in Scanning /\ e.plain = plain /\ e.out = d.out
    BY <1>0, <1>2 DEF Scanning
  <2>2. out = IF e.plain = <<>> THEN e.out
              ELSE Append(e.out, [paste |-> FALSE, tokens |-> e.plain])
    BY <2>1
  <2> HIDE DEF e, out
  <2>3. out \in Seq(Event) /\ Tokens(out) = Tokens(e.out) \o e.plain
    BY <2>1, <2>2, PlainOut
  <2> QED BY <2>1, <2>3
<1> HIDE DEF out
<1>4. (Tokens(d.out) \o plain) \o held = Tokens(d.out) \o (plain \o held)
  BY <1>0, <1>2, Associative, Zenon
<1>5. Tokens(out) \o held = Tokens(d.out) \o (d.plain \o d.held)
  BY <1>2, <1>3, <1>4
<1>6. [active |-> d.active, held |-> held] \in [active : BOOLEAN, held : Seq(Nat)]
  BY <1>0, <1>2
<1>7. Settle(d).detector.held = held BY <1>1
<1> QED BY <1>1, <1>3, <1>5, <1>6, <1>7 DEF Whole

\* f is the function Feed builds, for the first n tokens.
IsScan(f, start, input, n) ==
  f = [i \in 0 .. n |-> IF i = 0 THEN start ELSE Scan(f[i - 1], input[i])]

Scanned(start, input) == CHOOSE f : IsScan(f, start, input, Len(input))

LEMMA ScannedExists ==
  ASSUME NEW start, NEW input
  PROVE  \A n \in Nat : \E f : IsScan(f, start, input, n)
<1> DEFINE Val(f, i) == IF i = 0 THEN start ELSE Scan(f[i - 1], input[i])
           S == {n \in Nat : \E f : f = [i \in 0 .. n |-> Val(f, i)]}
<1>1. 0 \in S
  <2> DEFINE f == [i \in 0 .. 0 |-> start]
  <2>1. \A i \in 0 .. 0 : f[i] = Val(f, i) OBVIOUS
  <2>2. f = [i \in 0 .. 0 |-> f[i]] OBVIOUS
  <2> HIDE DEF f
  <2>3. f = [i \in 0 .. 0 |-> Val(f, i)] BY <2>1, <2>2
  <2>4. \E g : g = [i \in 0 .. 0 |-> Val(g, i)] BY <2>3
  <2> HIDE DEF Val
  <2> QED BY <2>4
<1>2. ASSUME NEW n \in Nat, n \in S PROVE n + 1 \in S
  <2>1. PICK f : f = [i \in 0 .. n |-> Val(f, i)] BY <1>2
  <2>0. \A i \in 0 .. n : f[i] = Val(f, i) BY <2>1
  <2> DEFINE g == [i \in 0 .. n + 1 |-> IF i <= n THEN f[i] ELSE Val(f, i)]
  <2>2. ASSUME NEW i \in 0 .. n + 1 PROVE g[i] = Val(g, i)
    <3>1. CASE i <= n
      <4>1. i \in 0 .. n BY <3>1
      <4>2. i = 0 \/ g[i - 1] = f[i - 1] BY <3>1
      <4>3. f[i] = Val(f, i) BY <2>0, <4>1
      <4> QED BY <3>1, <4>2, <4>3
    <3>2. CASE ~ (i <= n)
      <4>1. i = 0 \/ g[i - 1] = f[i - 1] BY <3>2
      <4> QED BY <3>2, <4>1
    <3> QED BY <3>1, <3>2
  <2>3. g = [i \in 0 .. n + 1 |-> g[i]] OBVIOUS
  <2> HIDE DEF g
  <2>4. g = [i \in 0 .. n + 1 |-> Val(g, i)] BY <2>2, <2>3
  <2>5. \E h : h = [i \in 0 .. n + 1 |-> Val(h, i)] BY <2>4
  <2>6. n + 1 \in Nat OBVIOUS
  <2> HIDE DEF Val
  <2> QED BY <2>5, <2>6
<1>3. Nat \subseteq S
  <2> HIDE DEF S
  <2> QED BY <1>1, <1>2, SetInduction
<1> QED BY <1>3 DEF IsScan

LEMMA ScannedKeeps ==
  ASSUME NEW start \in Scanning, Shape(start), NEW input \in Seq(Nat)
  PROVE  LET d == Scanned(start, input)[Len(input)] IN
         d \in Scanning /\ Shape(d) /\ Whole(d) = Whole(start) \o input
<1> DEFINE f == Scanned(start, input)
           S == {n \in Nat : n \in 0 .. Len(input) =>
                   /\ f[n] \in Scanning /\ Shape(f[n])
                   /\ Whole(f[n]) = Whole(start) \o SubSeq(input, 1, n)}
<1>0. Len(input) \in Nat /\ \A i \in 1 .. Len(input) : input[i] \in Nat
  BY LenProperties, ElementOfSeq
<1>1. f = [i \in 0 .. Len(input) |-> IF i = 0 THEN start ELSE Scan(f[i - 1], input[i])]
  <2> HIDE DEF S
  <2>1. \E g : IsScan(g, start, input, Len(input)) BY <1>0, ScannedExists
  <2>2. IsScan(Scanned(start, input), start, input, Len(input)) BY <2>1 DEF Scanned
  <2> QED BY <2>2 DEF IsScan
<1> HIDE DEF f
<1>2. \A i \in 0 .. Len(input) : f[i] = IF i = 0 THEN start ELSE Scan(f[i - 1], input[i])
  BY <1>1
<1>3. Whole(start) \in Seq(Nat)
  BY TokensType, ConcatType DEF Whole, Scanning
<1>4. 0 \in S
  <2>1. f[0] = start BY <1>0, <1>2
  <2>2. SubSeq(input, 1, 0) = <<>> BY SubSeqEmpty
  <2>3. Whole(start) \o <<>> = Whole(start) BY <1>3, EmptyUnit
  <2> QED BY <2>1, <2>2, <2>3
<1>5. ASSUME NEW n \in Nat, n \in S PROVE n + 1 \in S
  <2> SUFFICES ASSUME n + 1 \in 0 .. Len(input)
               PROVE  /\ f[n + 1] \in Scanning /\ Shape(f[n + 1])
                      /\ Whole(f[n + 1]) = Whole(start) \o SubSeq(input, 1, n + 1)
    OBVIOUS
  <2>1. /\ n \in 0 .. Len(input) /\ n + 1 # 0 /\ (n + 1) - 1 = n
        /\ n + 1 \in 1 .. Len(input) /\ 1 \in 1 .. Len(input) /\ n \in Int
    BY <1>0
  <2>2. f[n + 1] = Scan(f[n], input[n + 1]) BY <1>2, <2>1
  <2>3. /\ f[n] \in Scanning /\ Shape(f[n])
        /\ Whole(f[n]) = Whole(start) \o SubSeq(input, 1, n)
    BY <1>5, <2>1
  <2> DEFINE t == input[n + 1]
             q == SubSeq(input, 1, n)
  <2>4. t \in Nat BY <1>0, <2>1
  <2>5. q \in Seq(Nat)
    <3>1. \A i \in 1 .. n : input[i] \in Nat BY <1>0, <2>1
    <3> QED BY <2>1, <3>1, SubSeqProperties
  <2>6. SubSeq(input, 1, n + 1) = q \o <<t>>
    <3>1. SubSeq(input, 1, n + 1) = SubSeq(input, 1, (n + 1) - 1) \o <<input[n + 1]>>
      BY <2>1, SubSeqRecursiveSecond
    <3> QED BY <2>1, <3>1
  <2> HIDE DEF t, q
  <2>7. /\ Scan(f[n], t) \in Scanning /\ Shape(Scan(f[n], t))
        /\ Whole(Scan(f[n], t)) = Whole(f[n]) \o <<t>>
    BY <2>3, <2>4, ScanKeeps
  <2>8. <<t>> \in Seq(Nat) BY <2>4, Appended
  <2>9. (Whole(start) \o q) \o <<t>> = Whole(start) \o (q \o <<t>>)
    BY <1>3, <2>5, <2>8, Associative, Zenon
  <2>10. Whole(f[n]) = Whole(start) \o q BY <2>3 DEF q
  <2>11. f[n + 1] = Scan(f[n], t) BY <2>2 DEF t
  <2> QED BY <2>6, <2>7, <2>9, <2>10, <2>11
<1>6. Nat \subseteq S
  <2> HIDE DEF S
  <2> QED BY <1>4, <1>5, SetInduction
<1>7. SubSeq(input, 1, Len(input)) = input BY SubSeqFull
<1> QED BY <1>0, <1>6, <1>7 DEF f

\* PasteDetector::feed
LEMMA FeedKeeps ==
  ASSUME NEW ts \in Seq(Nat), detector \in [active : BOOLEAN, held : Seq(Nat)]
  PROVE  /\ Feed(ts).detector \in [active : BOOLEAN, held : Seq(Nat)]
         /\ Feed(ts).out \in Seq(Event)
         /\ Tokens(Feed(ts).out) \in Seq(Nat)
         /\ Tokens(Feed(ts).out) \o Feed(ts).detector.held = detector.held \o ts
<1> DEFINE start == [active |-> detector.active, plain |-> <<>>, out |-> <<>>,
                     held |-> IF detector.active THEN detector.held ELSE <<>>]
           input == IF detector.active THEN ts ELSE detector.held \o ts
           d == Scanned(start, input)[Len(input)]
<1>0. detector.held \in Seq(Nat) /\ detector.active \in BOOLEAN OBVIOUS
<1>1. input \in Seq(Nat) BY <1>0, ConcatType
<1>2. start \in Scanning /\ Shape(start)
  BY <1>0, EmptyUnit DEF Scanning, Shape
<1>3. Whole(start) \o input = detector.held \o ts
  <2>1. Whole(start) = start.held
    BY <1>2, TokensEmpty, EmptyUnit DEF Whole, Scanning
  <2>2. CASE detector.active BY <2>1, <2>2
  <2>3. CASE ~detector.active
    BY <1>1, <2>1, <2>3, EmptyUnit
  <2> QED BY <2>2, <2>3
<1>4. Feed(ts) = Settle(d)
  BY DEF Feed, Scanned, IsScan
<1> HIDE DEF start, input
<1>5. d \in Scanning /\ Shape(d) /\ Whole(d) = detector.held \o ts
  BY <1>1, <1>2, <1>3, ScannedKeeps
<1> HIDE DEF d
<1> QED BY <1>4, <1>5, SettleKeeps, TokensType

-----------------------------------------------------------------------------
(* Places: where what was typed is, in the order it is to be written. *)

\* The order of what was written, and then of each place where input is held.
Line(l, s, h, o, q, r) ==
  /\ Own(l, s) /\ Own(l, h) /\ Own(l, o) /\ Own(l, q) /\ Own(l, r)
  /\ Before(l, s, h) /\ Before(l, s, o) /\ Before(l, s, q) /\ Before(l, s, r)
  /\ Before(l, h, o) /\ Before(l, h, q) /\ Before(l, h, r)
  /\ Before(l, o, q) /\ Before(l, o, r)
  /\ Before(l, q, r)

\* Input that the loop has not taken, the reads is, comes after a; n tokens were
\* typed.
Earlier(a, n, is) == Below(a, n) /\ \A i \in DOMAIN is : Before(FALSE, a, is[i])

AllEarlier(n, is, s, h, o, q, r) ==
  /\ Earlier(s, n, is) /\ Earlier(h, n, is) /\ Earlier(o, n, is)
  /\ Earlier(q, n, is) /\ Earlier(r, n, is)

LEMMA LineIsOwn ==
  ASSUME NEW l, NEW s \in Seq(Nat), NEW h \in Seq(Nat), NEW o \in Seq(Nat),
         NEW q \in Seq(Nat), NEW r \in Seq(Nat)
  PROVE  Own(l, s \o (h \o o \o q \o r)) <=> Line(l, s, h, o, q, r)
<1> DEFINE ho == h \o o
           hoq == ho \o q
           all == hoq \o r
<1>1. ho \in Seq(Nat) /\ (Own(l, ho) <=> Own(l, h) /\ Own(l, o) /\ Before(l, h, o))
  BY ConcatType, OwnConcat
<1>2. \A c : Before(l, ho, c) <=> Before(l, h, c) /\ Before(l, o, c)
  BY BeforeLeft
<1>3. \A c : Before(l, c, ho) <=> Before(l, c, h) /\ Before(l, c, o)
  BY BeforeRight
<1> HIDE DEF ho
<1>4. hoq \in Seq(Nat) /\ (Own(l, hoq) <=> Own(l, ho) /\ Own(l, q) /\ Before(l, ho, q))
  BY <1>1, ConcatType, OwnConcat
<1>5. \A c : Before(l, hoq, c) <=> Before(l, ho, c) /\ Before(l, q, c)
  BY <1>1, BeforeLeft
<1>6. \A c : Before(l, c, hoq) <=> Before(l, c, ho) /\ Before(l, c, q)
  BY <1>1, BeforeRight
<1> HIDE DEF hoq
<1>7. all \in Seq(Nat) /\ (Own(l, all) <=> Own(l, hoq) /\ Own(l, r) /\ Before(l, hoq, r))
  BY <1>4, ConcatType, OwnConcat
<1>8. \A c : Before(l, c, all) <=> Before(l, c, hoq) /\ Before(l, c, r)
  BY <1>4, BeforeRight
<1> HIDE DEF all
<1>9. Own(l, s \o all) <=> Own(l, s) /\ Own(l, all) /\ Before(l, s, all)
  BY <1>7, OwnConcat
<1>10. Own(l, s \o all) <=> Line(l, s, h, o, q, r)
  BY <1>1, <1>2, <1>3, <1>4, <1>5, <1>6, <1>7, <1>8, <1>9, Zenon DEF Line
<1> QED BY <1>10 DEF all, hoq, ho

LEMMA EarlierConcat ==
  ASSUME NEW a \in Seq(Nat), NEW b \in Seq(Nat), NEW n, NEW is
  PROVE  Earlier(a \o b, n, is) <=> Earlier(a, n, is) /\ Earlier(b, n, is)
<1>1. Below(a \o b, n) <=> Below(a, n) /\ Below(b, n) BY BelowConcat
<1>2. \A c : Before(FALSE, a \o b, c) <=> Before(FALSE, a, c) /\ Before(FALSE, b, c)
  BY BeforeLeft
<1> QED BY <1>1, <1>2 DEF Earlier

LEMMA NothingEarlier == \A n, is : Earlier(<<>>, n, is)
BY NothingInOrder DEF Earlier

\* What is written, p, begins the sequence a = p \o z.
LEMMA WriteLine ==
  ASSUME NEW l, NEW s \in Seq(Nat), NEW p \in Seq(Nat), NEW z \in Seq(Nat), NEW a,
         NEW h, NEW o, NEW q, NEW r, a = p \o z,
         Line(l, s, h, o, q, r), Line(l, a, h, o, q, r), Before(l, s, a)
  PROVE  Line(l, s \o p, h, o, q, r)
<1>1. Own(l, p) /\ Before(l, s, p)
  BY OwnConcat, BeforeRight DEF Line
<1>2. Own(l, s \o p) BY <1>1, OwnConcat DEF Line
<1>3. \A c : Before(l, s, c) /\ Before(l, a, c) => Before(l, s \o p, c)
  BY BeforeLeft
<1> QED BY <1>2, <1>3 DEF Line

LEMMA WriteEarlier ==
  ASSUME NEW s \in Seq(Nat), NEW p \in Seq(Nat), NEW z \in Seq(Nat), NEW a,
         NEW n, NEW is, a = p \o z, Earlier(s, n, is), Earlier(a, n, is)
  PROVE  Earlier(s \o p, n, is)
BY EarlierConcat

LEMMA Disjoint ==
  ASSUME NEW a, NEW b, Before(TRUE, a, b)
  PROVE  ToSet(a) \cap ToSet(b) = {}
BY DEF Before, Follows, ToSet

\* A part of a line that is empty, and what is left when it becomes so.
LEMMA LineWithout ==
  ASSUME NEW l, NEW s, NEW h, NEW o, NEW q, NEW r, Line(l, s, h, o, q, r)
  PROVE  /\ Line(l, s, h, o, q, <<>>) /\ Line(l, s, h, <<>>, <<>>, q)
         /\ Line(l, s, <<>>, o, q, r) /\ Line(l, s, h, <<>>, q, r)
         /\ Line(l, s, h, o, <<>>, r)
BY NothingInOrder DEF Line

-----------------------------------------------------------------------------
(* Writing. *)

LEMMA PrefixOf ==
  ASSUME NEW a \in Seq(Nat), NEW n \in 0 .. Len(a)
  PROVE  /\ SubSeq(a, 1, n) \in Seq(Nat) /\ SubSeq(a, n + 1, Len(a)) \in Seq(Nat)
         /\ a = SubSeq(a, 1, n) \o SubSeq(a, n + 1, Len(a))
<1>0. Len(a) \in Nat /\ \A i \in 1 .. Len(a) : a[i] \in Nat
  BY LenProperties, ElementOfSeq
<1>1. SubSeq(a, 1, n) \in Seq(Nat)
  <2>1. \A i \in 1 .. n : a[i] \in Nat BY <1>0
  <2> QED BY <1>0, <2>1, SubSeqProperties
<1>2. SubSeq(a, n + 1, Len(a)) \in Seq(Nat)
  <2>1. \A i \in n + 1 .. Len(a) : a[i] \in Nat BY <1>0
  <2>2. n + 1 \in Int /\ Len(a) \in Int BY <1>0
  <2> QED BY <2>1, <2>2, SubSeqProperties
<1>3. 1 \in 1 .. Len(a) + 1 /\ n \in 1 - 1 .. Len(a) /\ Len(a) \in n .. Len(a)
  BY <1>0
<1>4. SubSeq(a, 1, n) \o SubSeq(a, n + 1, Len(a)) = SubSeq(a, 1, Len(a))
  BY <1>3, ConcatAdjacentSubSeq
<1> QED BY <1>1, <1>2, <1>4, SubSeqFull

LEMMA WrittenBeforeDetach ==
  ASSUME NEW ts \in Seq(Nat), Detaches(ts)
  PROVE  \E n \in 0 .. Len(ts) : BeforeDetach(ts) = SubSeq(ts, 1, n)
<1> DEFINE I == {i \in 1 .. Len(ts) : KindOf(ts[i]) = "detach"}
<1>0. Len(ts) \in Nat BY LenProperties
<1>1. I # {} /\ I \subseteq Nat BY <1>0, LenProperties DEF Detaches
<1>2. SelectInSeq(ts, LAMBDA t : KindOf(t) = "detach") = Min(I)
  BY <1>1 DEF SelectInSeq
<1>3. Min(I) \in 1 .. Len(ts)
  <2>1. I \subseteq 1 .. Len(ts) OBVIOUS
  <2> HIDE DEF I
  <2> QED BY <1>1, <2>1, LeastOf
<1>4. BeforeDetach(ts) = SubSeq(ts, 1, Min(I) - 1) BY <1>2 DEF BeforeDetach
<1> HIDE DEF I
<1>5. Min(I) - 1 \in 0 .. Len(ts) BY <1>0, <1>3
<1> QED BY <1>4, <1>5

\* dispatch_input_bytes writes a part from the beginning.
LEMMA WhatIsWritten ==
  ASSUME NEW ts \in Seq(Nat), Delivered(ts) \/ DetachedBy(ts) \/ WriteFails(ts)
  PROVE  \E p, z \in Seq(Nat) : ts = p \o z /\ sent' = sent \o p
<1>1. CASE Delivered(ts)
  <2>1. ts = ts \o <<>> /\ <<>> \in Seq(Nat) BY EmptyUnit
  <2> QED BY <1>1, <2>1 DEF Delivered, Written
<1>2. ASSUME Detaches(ts)
      PROVE  /\ BeforeDetach(ts) \in Seq(Nat)
             /\ \E z \in Seq(Nat) : ts = BeforeDetach(ts) \o z
  BY <1>2, WrittenBeforeDetach, PrefixOf
<1>3. CASE DetachedBy(ts)
  BY <1>2, <1>3 DEF DetachedBy, Written
<1>4. CASE WriteFails(ts)
  <2> DEFINE all == IF Detaches(ts) THEN BeforeDetach(ts) ELSE ts
  <2>1. all \in Seq(Nat) /\ \E z \in Seq(Nat) : ts = all \o z
    <3>1. ts = ts \o <<>> /\ <<>> \in Seq(Nat) BY EmptyUnit
    <3> QED BY <1>2, <3>1
  <2>2. PICK n \in 0 .. Len(all) - 1 : sent' = sent \o SubSeq(all, 1, n)
    BY <1>4 DEF WriteFails, Written
  <2> HIDE DEF all
  <2>3. n \in 0 .. Len(all) BY <2>1, LenProperties
  <2> DEFINE p == SubSeq(all, 1, n)
             y == SubSeq(all, n + 1, Len(all))
  <2>4. p \in Seq(Nat) /\ y \in Seq(Nat) /\ all = p \o y BY <2>1, <2>3, PrefixOf
  <2>5. PICK z \in Seq(Nat) : ts = all \o z BY <2>1
  <2>6. sent' = sent \o p BY <2>2
  <2> HIDE DEF p, y
  <2>7. (p \o y) \o z = p \o (y \o z) BY <2>4, Associative, Zenon
  <2>8. y \o z \in Seq(Nat) BY <2>4, ConcatType
  <2>9. ts = p \o (y \o z) BY <2>4, <2>5, <2>7
  <2> QED BY <2>4, <2>6, <2>8, <2>9
<1> QED BY <1>1, <1>3, <1>4

\* The first paste among the events of the detector.
LEMMA FirstPaste ==
  ASSUME NEW out \in Seq(Event)
  PROVE  SelectInSeq(out, LAMBDA e : e.paste) \in 0 .. Len(out)
<1> DEFINE I == {i \in 1 .. Len(out) : out[i].paste}
<1>0. Len(out) \in Nat BY LenProperties
<1>1. I \subseteq Nat /\ I \subseteq 1 .. Len(out) BY <1>0
<1>2. SelectInSeq(out, LAMBDA e : e.paste) = IF I # {} THEN Min(I) ELSE 0
  BY DEF SelectInSeq
<1> HIDE DEF I
<1>3. I # {} => Min(I) \in 1 .. Len(out) BY <1>1, LeastOf
<1> QED BY <1>0, <1>2, <1>3

-----------------------------------------------------------------------------
(* The inductive invariant. *)

Typed == typed \in Seq(Kinds) /\ inputs \in Seq(Seq(Nat))

Types ==
  /\ sent \in Seq(Nat) /\ queued \in Seq(Nat) /\ replay \in Seq(Nat)
  /\ detector \in [active : BOOLEAN, held : Seq(Nat)]
  /\ upload \in [id : Nat, original : Seq(Nat)]
  /\ uploads \in Nat
  /\ failed \in BOOLEAN /\ straddles \in BOOLEAN
  /\ \A w \in workers : w.id \in Nat /\ w.original \in Seq(Nat)

\* A worker has the paste of the upload its id belongs to.
Workers ==
  /\ upload.id <= uploads
  /\ upload.id = 0 => upload.original = <<>>
  /\ \A w \in workers :
       /\ w.id <= uploads
       /\ w.id = upload.id /\ upload.id # 0 => w.original = upload.original

\* What is held where, in which mode of the loop.
Modes ==
  /\ failed => upload.id = 0
  /\ phase = "connected" /\ ~Busy => queued = <<>>
  /\ replay # <<>> => ~Busy
  /\ Busy /\ ~straddles => detector.held = <<>>
  /\ phase = "waiting" =>
       detector.held = <<>> /\ upload.id = 0 /\ queued = <<>> /\ replay = <<>>
  /\ phase \in {"lost", "waiting"} => owed = {}

\* The order of everything that was typed: what was written, what is held, and
\* the reads the loop has not taken.
Placed(l, s, h, o, q, r, n, is) ==
  Line(l, s, h, o, q, r) /\ AllEarlier(n, is, s, h, o, q, r)

InOrder ==
  Placed(straddles, sent, detector.held, upload.original, queued, replay,
         Len(typed), inputs)

Unread(n, is) ==
  /\ \A i \in DOMAIN is : Own(FALSE, is[i]) /\ Below(is[i], n)
  /\ \A i, j \in DOMAIN is : i < j => Before(FALSE, is[i], is[j])

OnHand ==
  ToSet(detector.held) \cup ToSet(upload.original) \cup ToSet(queued) \cup ToSet(replay)

Accounted ==
  phase = "connected" => OnHand \subseteq owed /\ owed \subseteq ToSet(sent) \cup OnHand

IInv ==
  Typed /\ Types /\ Workers /\ Modes /\ InOrder /\ Unread(Len(typed), inputs) /\ Accounted

-----------------------------------------------------------------------------
(* Input. *)

\* What the detector makes of h \o ts: a is written, b is uploaded, c is queued
\* behind it, and d is held back.
Split(h, ts, a, b, c, d) ==
  /\ h \in Seq(Nat) /\ ts \in Seq(Nat)
  /\ a \in Seq(Nat) /\ b \in Seq(Nat) /\ c \in Seq(Nat) /\ d \in Seq(Nat)
  /\ a \o (b \o (c \o d)) = h \o ts

LEMMA DispatchLine ==
  ASSUME NEW l \in BOOLEAN, NEW s \in Seq(Nat), NEW h, NEW ts,
         NEW a, NEW b, NEW c, NEW d,
         Split(h, ts, a, b, c, d), Line(l, s, h, <<>>, <<>>, ts)
  PROVE  /\ Line(l, s, d, <<>>, <<>>, <<>>) /\ Line(l, a, d, <<>>, <<>>, <<>>)
         /\ Before(l, s, a)
         /\ Line(l \/ d # <<>>, s, d, b, c, <<>>)
         /\ Line(l \/ d # <<>>, a, d, b, c, <<>>)
         /\ Before(l \/ d # <<>>, s, a)
<1>0. /\ h \in Seq(Nat) /\ ts \in Seq(Nat)
      /\ a \in Seq(Nat) /\ b \in Seq(Nat) /\ c \in Seq(Nat) /\ d \in Seq(Nat)
      /\ a \o (b \o (c \o d)) = h \o ts
  BY DEF Split
<1>1. c \o d \in Seq(Nat) /\ b \o (c \o d) \in Seq(Nat) BY <1>0, ConcatType
<1>2. Own(l, h \o ts) /\ Before(l, s, h \o ts)
  BY <1>0, OwnConcat, BeforeRight DEF Line
<1> DEFINE cd == c \o d
           bcd == b \o cd
<1>3. \A x : /\ Before(l, x, cd) <=> Before(l, x, c) /\ Before(l, x, d)
             /\ Before(l, x, bcd) <=> Before(l, x, b) /\ Before(l, x, cd)
             /\ Before(l, x, a \o bcd) <=> Before(l, x, a) /\ Before(l, x, bcd)
  BY <1>0, <1>1, BeforeRight
<1>4. /\ Own(l, cd) <=> Own(l, c) /\ Own(l, d) /\ Before(l, c, d)
      /\ Own(l, bcd) <=> Own(l, b) /\ Own(l, cd) /\ Before(l, b, cd)
      /\ Own(l, a \o bcd) <=> Own(l, a) /\ Own(l, bcd) /\ Before(l, a, bcd)
  BY <1>0, <1>1, OwnConcat
<1>5. Own(l, a \o bcd) /\ Before(l, s, a \o bcd) BY <1>0, <1>2
<1> HIDE DEF cd, bcd
<1>6. /\ Own(l, a) /\ Own(l, b) /\ Own(l, c) /\ Own(l, d)
      /\ Before(l, s, a) /\ Before(l, s, b) /\ Before(l, s, c) /\ Before(l, s, d)
      /\ Before(l, a, b) /\ Before(l, a, c) /\ Before(l, a, d)
      /\ Before(l, b, c) /\ Before(l, b, d) /\ Before(l, c, d)
  BY <1>3, <1>4, <1>5
<1>7. Own(l, s) BY DEF Line
<1>8. Line(l, s, d, <<>>, <<>>, <<>>) /\ Line(l, a, d, <<>>, <<>>, <<>>)
  BY <1>6, <1>7, NothingInOrder DEF Line
<1>9. CASE d = <<>>
  <2>1. Line(l, s, d, b, c, <<>>) /\ Line(l, a, d, b, c, <<>>)
    BY <1>6, <1>7, <1>9, NothingInOrder DEF Line
  <2>2. (l \/ d # <<>>) <=> l BY <1>9
  <2>3. (l \/ d # <<>>) = l BY <2>2, Zenon
  <2> QED BY <1>6, <1>8, <2>1, <2>3
<1>10. CASE d # <<>>
  <2>1. /\ Own(TRUE, a) /\ Own(TRUE, b) /\ Own(TRUE, c) /\ Own(TRUE, d) /\ Own(TRUE, s)
        /\ Before(TRUE, s, a) /\ Before(TRUE, s, b) /\ Before(TRUE, s, c)
        /\ Before(TRUE, s, d)
        /\ Before(TRUE, a, b) /\ Before(TRUE, a, c) /\ Before(TRUE, a, d)
        /\ Before(TRUE, b, c) /\ Before(TRUE, b, d) /\ Before(TRUE, c, d)
    BY <1>0, <1>6, <1>7, Loosen
  <2>2. Before(TRUE, d, b) /\ Before(TRUE, d, c) BY <2>1, Swap
  <2>3. Line(TRUE, s, d, b, c, <<>>) /\ Line(TRUE, a, d, b, c, <<>>)
    BY <2>1, <2>2, NothingInOrder DEF Line
  <2>4. (l \/ d # <<>>) = TRUE BY <1>10
  <2> QED BY <1>6, <1>8, <2>1, <2>3, <2>4
<1> QED BY <1>9, <1>10

LEMMA DispatchEarlier ==
  ASSUME NEW h, NEW ts, NEW a, NEW b, NEW c, NEW d, Split(h, ts, a, b, c, d),
         NEW n, NEW is, Earlier(h, n, is), Earlier(ts, n, is)
  PROVE  Earlier(a, n, is) /\ Earlier(b, n, is) /\ Earlier(c, n, is) /\ Earlier(d, n, is)
<1>0. /\ h \in Seq(Nat) /\ ts \in Seq(Nat)
      /\ a \in Seq(Nat) /\ b \in Seq(Nat) /\ c \in Seq(Nat) /\ d \in Seq(Nat)
      /\ a \o (b \o (c \o d)) = h \o ts
  BY DEF Split
<1>1. c \o d \in Seq(Nat) /\ b \o (c \o d) \in Seq(Nat) BY <1>0, ConcatType
<1>2. Earlier(h \o ts, n, is) BY <1>0, EarlierConcat
<1> DEFINE x == b \o (c \o d)
<1>3. x \in Seq(Nat) /\ Earlier(a \o x, n, is) BY <1>0, <1>1, <1>2
<1> HIDE DEF x
<1>4. Earlier(a, n, is) /\ Earlier(x, n, is) BY <1>0, <1>3, EarlierConcat
<1>5. Earlier(b, n, is) /\ Earlier(c \o d, n, is) BY <1>0, <1>1, <1>4, EarlierConcat DEF x
<1>6. Earlier(c, n, is) /\ Earlier(d, n, is) BY <1>0, <1>5, EarlierConcat
<1> QED BY <1>4, <1>5, <1>6

LEMMA DispatchSet ==
  ASSUME NEW h, NEW ts, NEW a, NEW b, NEW c, NEW d, Split(h, ts, a, b, c, d)
  PROVE  ToSet(a) \cup ToSet(b) \cup ToSet(c) \cup ToSet(d) = ToSet(h) \cup ToSet(ts)
<1>0. /\ h \in Seq(Nat) /\ ts \in Seq(Nat)
      /\ a \in Seq(Nat) /\ b \in Seq(Nat) /\ c \in Seq(Nat) /\ d \in Seq(Nat)
      /\ a \o (b \o (c \o d)) = h \o ts
  BY DEF Split
<1>1. c \o d \in Seq(Nat) /\ b \o (c \o d) \in Seq(Nat) BY <1>0, ConcatType
<1>2. ToSet(h \o ts) = ToSet(h) \cup ToSet(ts) BY <1>0, ToSetConcat
<1>3. ToSet(a \o (b \o (c \o d))) = ToSet(a) \cup ToSet(b \o (c \o d))
  BY <1>0, <1>1, ToSetConcat
<1>4. ToSet(b \o (c \o d)) = ToSet(b) \cup ToSet(c \o d) BY <1>0, <1>1, ToSetConcat
<1>5. ToSet(c \o d) = ToSet(c) \cup ToSet(d) BY <1>0, ToSetConcat
<1> QED BY <1>0, <1>2, <1>3, <1>4, <1>5

\* Writing the sequence a: what of it was written, p, comes after s.
LEMMA WritePlaced ==
  ASSUME NEW l, NEW s \in Seq(Nat), NEW a \in Seq(Nat),
         NEW h, NEW o, NEW q, NEW r, NEW n, NEW is,
         Placed(l, s, h, o, q, r, n, is), Line(l, a, h, o, q, r), Before(l, s, a),
         Earlier(a, n, is),
         NEW p \in Seq(Nat), NEW z \in Seq(Nat), a = p \o z
  PROVE  s \o p \in Seq(Nat) /\ Placed(l, s \o p, h, o, q, r, n, is)
<1>1. Line(l, s \o p, h, o, q, r) BY WriteLine DEF Placed
<1>2. Earlier(s \o p, n, is) BY WriteEarlier DEF Placed, AllEarlier
<1> QED BY <1>1, <1>2, ConcatType DEF Placed, AllEarlier

\* What input leaves: ts was taken, the reads is have not been.
Ready(ts, n, is) ==
  /\ ts \in Seq(Nat) /\ replay \in {<<>>, ts}
  /\ Placed(straddles, sent, detector.held, upload.original, queued, ts, n, is)

Settled(n, is) ==
  /\ Types' /\ Workers' /\ Modes' /\ Accounted'
  /\ Placed(straddles', sent', detector'.held, upload'.original, queued', replay', n, is)

LEMMA PlacedWithout ==
  ASSUME NEW l, NEW s, NEW h, NEW o, NEW q, NEW r, NEW n, NEW is,
         Placed(l, s, h, o, q, r, n, is)
  PROVE  /\ Placed(l, s, h, o, q, <<>>, n, is)
         /\ Placed(l, s, h, <<>>, <<>>, q, n, is)
         /\ Placed(l, s, h, o, <<>>, r, n, is)
         /\ Placed(l, s, h, <<>>, q, r, n, is)
         /\ Placed(l, s, <<>>, o, q, r, n, is)
BY NothingInOrder, NothingEarlier DEF Placed, Line, AllEarlier

LEMMA NothingIn == ToSet(<<>>) = {}
BY DEF ToSet

LEMMA InputLostKeeps ==
  ASSUME Types, Workers, Modes, Accounted, NEW ts, NEW n, NEW is, Ready(ts, n, is),
         InputLost(ts), replay' = Replayed(ts)
  PROVE  Settled(n, is)
<1>1. /\ phase # "connected" /\ phase' \in {phase, "ended"} /\ replay' = <<>>
      /\ detector' = detector /\ upload' = upload /\ uploads' = uploads
      /\ failed' = failed /\ workers' = workers /\ queued' = queued
      /\ straddles' = straddles /\ sent' = sent /\ owed' = owed
  BY DEF InputLost, End, Still, Replayed, CancelKey
<1>2. Types' BY <1>1, NothingInOrder DEF Types
<1>3. Workers' BY <1>1 DEF Workers
<1>4. Modes' BY <1>1 DEF Modes, Busy
<1>5. Accounted' BY <1>1 DEF Accounted
<1>6. Placed(straddles, sent, detector.held, upload.original, queued, <<>>, n, is)
  BY PlacedWithout DEF Ready
<1> QED BY <1>1, <1>2, <1>3, <1>4, <1>5, <1>6 DEF Settled

LEMMA CancelsKeeps ==
  ASSUME Types, Workers, Modes, Accounted, NEW ts, NEW n, NEW is, Ready(ts, n, is),
         Cancels(ts), replay' = Replayed(ts)
  PROVE  Settled(n, is)
<1>1. /\ phase = "connected" /\ upload.id # 0 /\ replay' = queued
      /\ phase' = phase /\ detector' = detector /\ upload' = NoUpload
      /\ uploads' = uploads /\ failed' = failed /\ workers' = workers
      /\ queued' = <<>> /\ straddles' = straddles /\ sent' = sent
      /\ owed' = owed \ ToSet(upload.original)
  BY DEF Cancels, CancelKey, Replayed
<1>2. NoUpload.id = 0 /\ NoUpload.original = <<>> BY DEF NoUpload
<1>3. Types' BY <1>1, NothingInOrder DEF Types, NoUpload
<1>4. Workers' BY <1>1, <1>2 DEF Types, Workers
<1>5. ~failed' /\ ~Busy' BY <1>1, <1>2 DEF Modes, Busy, Types
<1>6. Modes' BY <1>1, <1>2, <1>5 DEF Modes
<1>7. Placed(straddles, sent, detector.held, <<>>, <<>>, queued, n, is)
  BY PlacedWithout DEF Ready
<1>8. Accounted'
  <2>1. replay = <<>> BY <1>1 DEF Modes, Busy
  <2>2. Line(TRUE, sent, detector.held, upload.original, queued, ts)
    BY Loosen DEF Ready, Placed, Line, Types
  <2>3. /\ ToSet(detector.held) \cap ToSet(upload.original) = {}
        /\ ToSet(upload.original) \cap ToSet(queued) = {}
    BY <2>2, Disjoint DEF Line
  <2>4. /\ OnHand = ToSet(detector.held) \cup ToSet(upload.original) \cup ToSet(queued)
        /\ OnHand' = ToSet(detector.held) \cup ToSet(queued)
    BY <1>1, <1>2, <2>1, NothingIn DEF OnHand
  <2>5. OnHand \subseteq owed /\ owed \subseteq ToSet(sent) \cup OnHand
    BY <1>1 DEF Accounted
  <2>6. OnHand' \subseteq owed' BY <1>1, <2>3, <2>4, <2>5
  <2>7. owed' \subseteq ToSet(sent) \cup OnHand' BY <1>1, <2>4, <2>5
  <2> QED BY <1>1, <2>6, <2>7 DEF Accounted
<1> QED BY <1>1, <1>2, <1>3, <1>4, <1>6, <1>7, <1>8 DEF Settled

LEMMA DiscardsKeeps ==
  ASSUME Types, Workers, Modes, Accounted, NEW ts, NEW n, NEW is, Ready(ts, n, is),
         Discards(ts), replay' = Replayed(ts)
  PROVE  Settled(n, is)
<1>1. /\ phase = "connected" /\ failed /\ upload.id = 0 /\ replay' = <<>>
      /\ phase' = phase /\ detector' = detector /\ upload' = upload
      /\ uploads' = uploads /\ failed' = FALSE /\ workers' = workers
      /\ queued' = <<>> /\ straddles' = straddles /\ sent' = sent
      /\ owed' = owed \ ToSet(queued)
  BY DEF Discards, CancelKey, Replayed, Modes
<1>2. upload.original = <<>> /\ replay = <<>> BY <1>1 DEF Workers, Modes, Busy
<1>3. Types' BY <1>1, NothingInOrder DEF Types
<1>4. Workers' BY <1>1 DEF Workers
<1>5. ~Busy' BY <1>1 DEF Busy
<1>6. Modes' BY <1>1, <1>5 DEF Modes
<1>7. Placed(straddles, sent, detector.held, upload.original, <<>>, <<>>, n, is)
  BY PlacedWithout DEF Ready
<1>8. Accounted'
  <2>2. Line(TRUE, sent, detector.held, upload.original, queued, ts)
    BY Loosen DEF Ready, Placed, Line, Types
  <2>3. ToSet(detector.held) \cap ToSet(queued) = {}
    BY <2>2, Disjoint DEF Line
  <2>4. /\ OnHand = ToSet(detector.held) \cup ToSet(queued)
        /\ OnHand' = ToSet(detector.held)
    BY <1>1, <1>2, NothingIn DEF OnHand
  <2>5. OnHand \subseteq owed /\ owed \subseteq ToSet(sent) \cup OnHand
    BY <1>1 DEF Accounted
  <2>6. OnHand' \subseteq owed' BY <1>1, <2>3, <2>4, <2>5
  <2>7. owed' \subseteq ToSet(sent) \cup OnHand' BY <1>1, <2>4, <2>5
  <2> QED BY <1>1, <2>6, <2>7 DEF Accounted
<1> QED BY <1>1, <1>3, <1>4, <1>6, <1>7, <1>8 DEF Settled

LEMMA QueuesKeeps ==
  ASSUME Types, Workers, Modes, Accounted, NEW ts, NEW n, NEW is, Ready(ts, n, is),
         Queues(ts), replay' = Replayed(ts)
  PROVE  Settled(n, is)
<1>1. /\ phase = "connected" /\ Busy /\ replay' = <<>>
      /\ phase' = phase /\ detector' = detector /\ upload' = upload
      /\ uploads' = uploads /\ failed' = failed /\ workers' = workers
      /\ queued' = queued \o ts /\ straddles' = straddles /\ sent' = sent
      /\ owed' = owed \cup ToSet(ts)
  BY DEF Queues, CancelKey, Replayed
<1>2. ts \in Seq(Nat) /\ queued \in Seq(Nat) /\ queued \o ts \in Seq(Nat)
  BY ConcatType DEF Ready, Types
<1>3. Types' BY <1>1, <1>2, NothingInOrder DEF Types
<1>4. Workers' BY <1>1 DEF Workers
<1>5. Busy' BY <1>1 DEF Busy
<1>6. Modes' BY <1>1, <1>5 DEF Modes
<1>7. Placed(straddles, sent, detector.held, upload.original, queued \o ts, <<>>, n, is)
  <2>1. \A x : Before(straddles, x, queued \o ts)
                 <=> Before(straddles, x, queued) /\ Before(straddles, x, ts)
    BY <1>2, BeforeRight
  <2>2. Own(straddles, queued \o ts)
    BY <1>2, OwnConcat DEF Ready, Placed, Line
  <2>3. Line(straddles, sent, detector.held, upload.original, queued \o ts, <<>>)
    BY <2>1, <2>2, NothingInOrder DEF Ready, Placed, Line
  <2>4. Earlier(queued \o ts, n, is)
    BY <1>2, EarlierConcat DEF Ready, Placed, AllEarlier
  <2> QED BY <2>3, <2>4, NothingEarlier DEF Ready, Placed, AllEarlier
<1>8. Accounted'
  <2>1. replay = <<>> BY <1>1 DEF Modes
  <2>2. ToSet(queued \o ts) = ToSet(queued) \cup ToSet(ts) BY <1>2, ToSetConcat
  <2>3. OnHand' = OnHand \cup ToSet(ts)
    BY <1>1, <2>1, <2>2, NothingIn DEF OnHand
  <2>4. OnHand \subseteq owed /\ owed \subseteq ToSet(sent) \cup OnHand
    BY <1>1 DEF Accounted
  <2> QED BY <1>1, <2>3, <2>4 DEF Accounted
<1> QED BY <1>1, <1>3, <1>4, <1>6, <1>7, <1>8 DEF Settled

LEMMA ContinuesKeeps ==
  ASSUME Types, Workers, Modes, Accounted, NEW ts, NEW n, NEW is, Ready(ts, n, is),
         Continues(ts), replay' = Replayed(ts)
  PROVE  Settled(n, is)
<1> DEFINE all == queued \o ts
<1>1. /\ phase = "connected" /\ failed /\ upload.id = 0 /\ replay' = <<>>
      /\ detector' = detector /\ upload' = upload
      /\ uploads' = uploads /\ failed' = FALSE /\ workers' = workers
      /\ queued' = <<>> /\ straddles' = straddles
  BY DEF Continues, CancelKey, Replayed, Modes
<1>2. \/ Delivered(all) /\ owed' = owed \cup ToSet(ts) /\ phase' = phase
      \/ DetachedBy(all)
      \/ WriteFails(all)
  BY DEF Continues
<1>3. /\ ts \in Seq(Nat) /\ queued \in Seq(Nat) /\ all \in Seq(Nat) /\ sent \in Seq(Nat)
      /\ detector.held \in Seq(Nat) /\ straddles \in BOOLEAN
  BY ConcatType DEF Ready, Types
<1>4. upload.original = <<>> /\ replay = <<>> /\ Busy
  BY <1>1 DEF Workers, Modes, Busy
<1>5. ~Busy' BY <1>1 DEF Busy
<1>6. Placed(straddles, sent, detector.held, <<>>, <<>>, <<>>, n, is)
  BY NothingInOrder, NothingEarlier DEF Ready, Placed, Line, AllEarlier
<1>7. Line(straddles, all, detector.held, <<>>, <<>>, <<>>) /\ Before(straddles, sent, all)
      /\ Earlier(all, n, is)
  <2>1. Own(straddles, all) /\ Before(straddles, sent, all)
    BY <1>3, OwnConcat, BeforeRight DEF Ready, Placed, Line
  <2>2. Before(straddles, all, detector.held)
    <3>1. CASE straddles
      <4>1. Before(TRUE, detector.held, all)
        BY <1>3, <3>1, BeforeRight DEF Ready, Placed, Line
      <4>2. straddles = TRUE BY <3>1, <1>3
      <4> HIDE DEF all
      <4> QED BY <4>1, <4>2, Swap
    <3>2. CASE ~straddles
      <4>1. detector.held = <<>> BY <1>4, <3>2 DEF Modes
      <4> QED BY <4>1, NothingInOrder
    <3> QED BY <3>1, <3>2
  <2>3. Earlier(all, n, is) BY <1>3, EarlierConcat DEF Ready, Placed, AllEarlier
  <2> HIDE DEF all
  <2> QED BY <2>1, <2>2, <2>3, NothingInOrder DEF Ready, Placed, Line
<1>8. ToSet(all) = ToSet(queued) \cup ToSet(ts) BY <1>3, ToSetConcat
<1> HIDE DEF all
<1>9. PICK p \in Seq(Nat), z \in Seq(Nat) : all = p \o z /\ sent' = sent \o p
  BY <1>2, <1>3, WhatIsWritten
<1>10. sent' \in Seq(Nat) /\ Placed(straddles, sent', detector.held, <<>>, <<>>, <<>>, n, is)
  BY <1>3, <1>6, <1>7, <1>9, WritePlaced
<1>11. Types' BY <1>1, <1>10, NothingInOrder DEF Types
<1>12. Workers' BY <1>1 DEF Workers
<1>13. \/ phase' = "connected" /\ Delivered(all) /\ owed' = owed \cup ToSet(ts)
       \/ phase' = "lost" /\ owed' = {}
       \/ phase' = "ended"
  BY <1>1, <1>2 DEF DetachedBy, WriteFails, Lost, End
<1>14. Modes' BY <1>1, <1>5, <1>13 DEF Modes
<1>15. Accounted'
  <2>1. SUFFICES ASSUME phase' = "connected" PROVE Accounted'
    BY DEF Accounted
  <2>2. sent' = sent \o all /\ owed' = owed \cup ToSet(ts)
    BY <1>13, <2>1 DEF Delivered, Written
  <2>3. ToSet(sent') = ToSet(sent) \cup ToSet(all) BY <1>3, <2>2, ToSetConcat
  <2>4. OnHand = ToSet(detector.held) \cup ToSet(queued) /\ OnHand' = ToSet(detector.held)
    BY <1>1, <1>4, NothingIn DEF OnHand
  <2>5. OnHand \subseteq owed /\ owed \subseteq ToSet(sent) \cup OnHand
    BY <1>1 DEF Accounted
  <2> QED BY <1>8, <2>2, <2>3, <2>4, <2>5 DEF Accounted
<1> QED BY <1>1, <1>4, <1>10, <1>11, <1>12, <1>14, <1>15 DEF Settled

\* What Dispatch makes of the events of the detector, the first paste being at k.
Now(out, k) == Tokens(IF k = 0 THEN out ELSE SubSeq(out, 1, k - 1))
Pasted(out, k) == IF k = 0 THEN <<>> ELSE out[k].tokens
Behind(out, k) == Tokens(IF k = 0 THEN <<>> ELSE SubSeq(out, k + 1, Len(out)))

LEMMA DispatchParts ==
  ASSUME NEW out \in Seq(Event), NEW held \in Seq(Nat), NEW k \in 0 .. Len(out),
         NEW before \in Seq(Nat), Tokens(out) \o held = before
  PROVE  /\ Now(out, k) \in Seq(Nat) /\ Pasted(out, k) \in Seq(Nat)
         /\ Behind(out, k) \in Seq(Nat)
         /\ Now(out, k) \o (Pasted(out, k) \o (Behind(out, k) \o held)) = before
<1>1. CASE k = 0
  <2>1. Tokens(out) \in Seq(Nat) BY TokensType
  <2>2. <<>> \o (<<>> \o held) = held BY EmptyUnit
  <2> QED BY <1>1, <2>1, <2>2, TokensEmpty, EmptyUnit DEF Now, Pasted, Behind
<1>2. CASE k # 0
  <2> DEFINE a == Tokens(SubSeq(out, 1, k - 1))
             b == out[k].tokens
             c == Tokens(SubSeq(out, k + 1, Len(out)))
  <2>1. k \in 1 .. Len(out) BY <1>2, LenProperties
  <2>2. /\ a \in Seq(Nat) /\ b \in Seq(Nat) /\ c \in Seq(Nat)
        /\ Tokens(out) = a \o (b \o c)
    BY <2>1, TokensAround
  <2> HIDE DEF a, b, c
  <2> DEFINE x == b \o c
  <2>3. x \in Seq(Nat) /\ Tokens(out) = a \o x BY <2>2, ConcatType
  <2>4. x \o held = b \o (c \o held) BY <2>2, Associative, Zenon
  <2> HIDE DEF x
  <2>5. (a \o x) \o held = a \o (x \o held)
    <3>1. a \in Seq(Nat) /\ x \in Seq(Nat) /\ held \in Seq(Nat) BY <2>2, <2>3
    <3> QED BY <3>1, Associative, Zenon
  <2>6. a \o (b \o (c \o held)) = before BY <2>3, <2>4, <2>5
  <2> QED BY <1>2, <2>2, <2>6 DEF a, b, c, Now, Pasted, Behind
<1> QED BY <1>1, <1>2

LEMMA DispatchKeeps ==
  ASSUME Types, Workers, Modes, Accounted, NEW ts, NEW n, NEW is, Ready(ts, n, is),
         phase = "connected", ~Busy, Dispatch(ts), replay' = Replayed(ts)
  PROVE  Settled(n, is)
<1> DEFINE fed == Feed(ts)
           first == IF remote THEN SelectInSeq(fed.out, LAMBDA e : e.paste) ELSE 0
           d == fed.detector.held
           a == Now(fed.out, first)
           b == Pasted(fed.out, first)
           c == Behind(fed.out, first)
           w == [id |-> uploads + 1, generation |-> generation, original |-> b]
           h == detector.held
<1>1. /\ upload.id = 0 /\ ~failed /\ upload.original = <<>> /\ queued = <<>>
      /\ replay' = <<>>
  BY DEF Busy, Workers, Modes, Replayed, CancelKey
<1>2. /\ ts \in Seq(Nat) /\ sent \in Seq(Nat) /\ h \in Seq(Nat)
      /\ straddles \in BOOLEAN /\ uploads \in Nat
      /\ detector \in [active : BOOLEAN, held : Seq(Nat)]
      /\ h \o ts \in Seq(Nat)
  BY ConcatType DEF Ready, Types
<1>3. /\ fed.detector \in [active : BOOLEAN, held : Seq(Nat)]
      /\ fed.out \in Seq(Event) /\ d \in Seq(Nat)
      /\ Tokens(fed.out) \o d = h \o ts
  BY <1>2, FeedKeeps
<1>4. first \in 0 .. Len(fed.out)
  <2>1. Len(fed.out) \in Nat BY <1>3, LenProperties
  <2>2. SelectInSeq(fed.out, LAMBDA e : e.paste) \in 0 .. Len(fed.out)
    BY <1>3, FirstPaste
  <2> QED BY <2>1, <2>2
<1>5. detector' = fed.detector /\ failed' = failed
  BY DEF Dispatch
<1>6. \/ /\ Delivered(a) /\ owed' = owed \cup ToSet(ts) /\ phase' = phase
         /\ \/ /\ first = 0
               /\ upload' = upload /\ uploads' = uploads /\ workers' = workers
               /\ queued' = queued /\ straddles' = straddles
            \/ /\ first # 0
               /\ straddles' = (straddles \/ d # <<>>)
               /\ upload' = [id |-> w.id, original |-> w.original]
               /\ uploads' = w.id
               /\ workers' = workers \cup {w}
               /\ queued' = queued \o c
      \/ /\ DetachedBy(a) \/ WriteFails(a)
         /\ upload' = upload /\ uploads' = uploads /\ workers' = workers
         /\ queued' = queued /\ straddles' = straddles
  BY DEF Dispatch, Now, Pasted, Behind
<1>7. /\ a \in Seq(Nat) /\ b \in Seq(Nat) /\ c \in Seq(Nat)
      /\ a \o (b \o (c \o d)) = h \o ts
  <2> DEFINE out == fed.out
             all == h \o ts
  <2>1. out \in Seq(Event) /\ d \in Seq(Nat) /\ first \in 0 .. Len(out)
        /\ all \in Seq(Nat) /\ Tokens(out) \o d = all
    BY <1>2, <1>3, <1>4
  <2> HIDE DEF fed, first, h, d, out, all
  <2>2. /\ Now(out, first) \in Seq(Nat) /\ Pasted(out, first) \in Seq(Nat)
        /\ Behind(out, first) \in Seq(Nat)
        /\ Now(out, first) \o (Pasted(out, first) \o (Behind(out, first) \o d)) = all
    BY <2>1, DispatchParts, Zenon
  <2> QED BY <2>2 DEF out, all
<1>8. first = 0 => b = <<>> /\ c = <<>> BY TokensEmpty DEF Pasted, Behind
<1>9. Line(straddles, sent, h, <<>>, <<>>, ts)
  BY <1>1 DEF Ready, Placed
<1>10. Earlier(sent, n, is) /\ Earlier(h, n, is) /\ Earlier(ts, n, is)
  BY DEF Ready, Placed, AllEarlier
<1>11. w.id = uploads + 1 /\ w.original = b OBVIOUS
<1>12. d = fed.detector.held /\ h = detector.held OBVIOUS
<1> HIDE DEF fed, first, h, d, a, b, c, w
<1>23. /\ sent \in Seq(Nat) /\ h \in Seq(Nat) /\ ts \in Seq(Nat) /\ straddles \in BOOLEAN
      /\ a \in Seq(Nat) /\ b \in Seq(Nat) /\ c \in Seq(Nat) /\ d \in Seq(Nat)
  BY <1>2, <1>3, <1>7
<1>24. Split(h, ts, a, b, c, d) BY <1>23, <1>7 DEF Split
<1>13. /\ Line(straddles, sent, d, <<>>, <<>>, <<>>) /\ Line(straddles, a, d, <<>>, <<>>, <<>>)
       /\ Before(straddles, sent, a)
       /\ Line(straddles \/ d # <<>>, sent, d, b, c, <<>>)
       /\ Line(straddles \/ d # <<>>, a, d, b, c, <<>>)
       /\ Before(straddles \/ d # <<>>, sent, a)
  BY <1>23, <1>24, <1>9, DispatchLine
<1>14. Earlier(a, n, is) /\ Earlier(b, n, is) /\ Earlier(c, n, is) /\ Earlier(d, n, is)
  BY <1>23, <1>24, <1>10, DispatchEarlier
<1>15. ToSet(a) \cup ToSet(b) \cup ToSet(c) \cup ToSet(d) = ToSet(h) \cup ToSet(ts)
  BY <1>23, <1>24, DispatchSet
<1>16. PICK p \in Seq(Nat), z \in Seq(Nat) : a = p \o z /\ sent' = sent \o p
  BY <1>6, <1>7, WhatIsWritten
<1>17. ASSUME Delivered(a) PROVE sent' = sent \o a /\ ToSet(sent') = ToSet(sent) \cup ToSet(a)
  BY <1>2, <1>7, <1>17, ToSetConcat DEF Delivered, Written
<1>18. OnHand \subseteq owed /\ owed \subseteq ToSet(sent) \cup OnHand
  BY DEF Accounted
<1>19. OnHand = ToSet(h) \cup ToSet(replay) /\ ToSet(replay) \subseteq ToSet(ts)
  BY <1>1, <1>12, NothingIn DEF OnHand, Ready
<1>20. ~failed' BY <1>1, <1>5
<1>21. CASE upload' = upload /\ uploads' = uploads /\ workers' = workers
            /\ queued' = queued /\ straddles' = straddles
  <2>1. Placed(straddles, sent, d, <<>>, <<>>, <<>>, n, is)
    BY <1>10, <1>13, <1>14, NothingEarlier DEF Placed, AllEarlier
  <2>2. sent' \in Seq(Nat) /\ Placed(straddles, sent', d, <<>>, <<>>, <<>>, n, is)
    BY <1>2, <1>7, <1>13, <1>14, <1>16, <2>1, WritePlaced
  <2>3. Types' BY <1>1, <1>3, <1>5, <1>21, <2>2, NothingInOrder DEF Types
  <2>4. Workers' BY <1>21 DEF Workers
  <2>5. ~Busy' BY <1>1, <1>20, <1>21 DEF Busy
  <2>6. \/ phase' = "connected" /\ Delivered(a) /\ owed' = owed \cup ToSet(ts)
           /\ first = 0
        \/ phase' = "lost" /\ owed' = {}
        \/ phase' = "ended"
    <3>1. ASSUME first # 0, upload' = [id |-> w.id, original |-> w.original]
          PROVE  FALSE
      BY <1>1, <1>2, <1>11, <1>21, <3>1
    <3> QED BY <1>6, <3>1 DEF DetachedBy, WriteFails, Lost, End
  <2>7. Modes' BY <1>1, <1>20, <1>21, <2>5, <2>6 DEF Modes
  <2>8. Accounted'
    <3>1. SUFFICES ASSUME phase' = "connected" PROVE Accounted'
      BY DEF Accounted
    <3>2. OnHand' = ToSet(d)
      BY <1>1, <1>5, <1>12, <1>21, NothingIn DEF OnHand
    <3>3. ToSet(a) \cup ToSet(d) = ToSet(h) \cup ToSet(ts)
      BY <1>8, <1>15, <2>6, <3>1, NothingIn
    <3>4. ToSet(sent') = ToSet(sent) \cup ToSet(a) /\ owed' = owed \cup ToSet(ts)
      BY <1>17, <2>6, <3>1
    <3> QED BY <1>18, <1>19, <3>2, <3>3, <3>4 DEF Accounted
  <2> QED BY <1>1, <1>5, <1>12, <1>21, <2>2, <2>3, <2>4, <2>7, <2>8 DEF Settled
<1>22. CASE /\ Delivered(a) /\ owed' = owed \cup ToSet(ts) /\ phase' = phase
            /\ straddles' = (straddles \/ d # <<>>)
            /\ upload' = [id |-> w.id, original |-> w.original]
            /\ uploads' = w.id
            /\ workers' = workers \cup {w}
            /\ queued' = queued \o c
  <2>1. queued' = c BY <1>1, <1>7, <1>22, EmptyUnit
  <2>2. /\ upload'.id = uploads + 1 /\ upload'.original = b /\ uploads' = uploads + 1
        /\ upload' \in [id : Nat, original : Seq(Nat)]
    BY <1>2, <1>7, <1>11, <1>22
  <2>3. Placed(straddles', sent, d, b, c, <<>>, n, is)
    BY <1>10, <1>13, <1>14, <1>22, NothingEarlier DEF Placed, AllEarlier
  <2>4. Line(straddles', a, d, b, c, <<>>) /\ Before(straddles', sent, a)
    BY <1>13, <1>22
  <2>5. sent' \in Seq(Nat) /\ Placed(straddles', sent', d, b, c, <<>>, n, is)
    BY <1>2, <1>7, <1>14, <1>16, <2>3, <2>4, WritePlaced
  <2>6. Types'
    <3>1. straddles' \in BOOLEAN BY <1>22
    <3>2. w.id \in Nat /\ w.original \in Seq(Nat) BY <1>2, <1>7, <1>11
    <3>3. \A v \in workers' : v.id \in Nat /\ v.original \in Seq(Nat)
      BY <1>22, <3>2 DEF Types
    <3> QED BY <1>1, <1>2, <1>3, <1>5, <1>7, <2>1, <2>2, <2>5, <3>1, <3>3, NothingInOrder
            DEF Types
  <2>7. Workers'
    <3>1. \A v \in workers : v.id \in Nat /\ v.id <= uploads BY DEF Types, Workers
    <3>2. ASSUME NEW v \in workers'
          PROVE  v.id <= uploads' /\ (v.id = upload'.id => v.original = upload'.original)
      <4>1. CASE v = w BY <1>2, <1>11, <2>2, <4>1
      <4>2. CASE v \in workers BY <1>2, <2>2, <3>1, <4>2
      <4> QED BY <1>22, <4>1, <4>2
    <3>3. upload'.id # 0 /\ upload'.id <= uploads' BY <1>2, <2>2
    <3> QED BY <3>2, <3>3 DEF Workers
  <2>8. Modes'
    <3>1. upload'.id # 0 BY <1>2, <2>2
    <3>2. straddles' \/ detector'.held = <<>> BY <1>5, <1>12, <1>22
    <3>3. phase' = "connected" /\ Busy' BY <1>22, <3>1 DEF Busy
    <3> QED BY <1>1, <1>20, <3>1, <3>2, <3>3 DEF Modes
  <2>9. Accounted'
    <3>1. OnHand' = ToSet(d) \cup ToSet(b) \cup ToSet(c)
      BY <1>1, <1>5, <1>12, <2>1, <2>2, NothingIn DEF OnHand
    <3>2. ToSet(sent') = ToSet(sent) \cup ToSet(a) BY <1>17, <1>22
    <3>3. owed' = owed \cup ToSet(ts) BY <1>22
    <3> QED BY <1>15, <1>18, <1>19, <3>1, <3>2, <3>3 DEF Accounted
  <2> QED BY <1>1, <1>5, <1>12, <2>1, <2>2, <2>5, <2>6, <2>7, <2>8, <2>9 DEF Settled
<1> QED BY <1>6, <1>21, <1>22

LEMMA InputKeeps ==
  ASSUME Types, Workers, Modes, Accounted, NEW ts, NEW n, NEW is, Ready(ts, n, is),
         Input(ts)
  PROVE  Settled(n, is)
BY InputLostKeeps, CancelsKeeps, DiscardsKeeps, ContinuesKeeps, QueuesKeeps,
   DispatchKeeps DEF Input

LEMMA TypeEarlier ==
  ASSUME NEW a \in Seq(Nat), NEW n \in Nat, NEW m \in Nat, NEW is \in Seq(Seq(Nat)),
         Earlier(a, n, is), NEW ts \in Seq(Nat), \A j \in DOMAIN ts : ts[j] = n + j
  PROVE  Earlier(a, n + m, Append(is, ts))
<1>1. \A i \in DOMAIN a : a[i] \in Nat /\ a[i] <= n
  BY Elements DEF Earlier, Below
<1>2. Below(a, n + m) BY <1>1 DEF Below
<1>3. Before(FALSE, a, ts)
  <2>1. \A j \in DOMAIN ts : j \in Nat /\ j > 0 BY LenProperties
  <2> QED BY <1>1, <2>1 DEF Before, Follows
<1>4. \A i \in DOMAIN Append(is, ts) : i \in DOMAIN is \/ Append(is, ts)[i] = ts
  BY AppendProperties, LenProperties
<1>5. \A i \in DOMAIN is : Append(is, ts)[i] = is[i]
  BY AppendProperties, LenProperties
<1>6. ASSUME NEW i \in DOMAIN Append(is, ts) PROVE Before(FALSE, a, Append(is, ts)[i])
  BY <1>3, <1>4, <1>5 DEF Earlier
<1> QED BY <1>2, <1>6 DEF Earlier

LEMMA TypeUnread ==
  ASSUME NEW n \in Nat, NEW m \in Nat, NEW is \in Seq(Seq(Nat)), Unread(n, is),
         NEW ts \in Seq(Nat), \A j \in DOMAIN ts : ts[j] = n + j /\ j <= m
  PROVE  Unread(n + m, Append(is, ts))
<1>0. Len(is) \in Nat /\ DOMAIN is = 1 .. Len(is) /\ \A i \in DOMAIN is : is[i] \in Seq(Nat)
  BY LenProperties, ElementOfSeq
<1>1. /\ DOMAIN Append(is, ts) = 1 .. Len(is) + 1
      /\ \A i \in 1 .. Len(is) : Append(is, ts)[i] = is[i]
      /\ Append(is, ts)[Len(is) + 1] = ts
  BY AppendProperties, LenProperties
<1>2. Own(FALSE, ts) /\ Below(ts, n + m)
  <2>1. \A j \in DOMAIN ts : j \in Nat BY LenProperties
  <2> QED BY <2>1 DEF Own, Below, Follows
<1>3. ASSUME NEW i \in DOMAIN is
      PROVE  /\ Own(FALSE, is[i]) /\ Below(is[i], n + m) /\ Before(FALSE, is[i], ts)
  <2>1. is[i] \in Seq(Nat) BY <1>0
  <2>2. Below(is[i], n) BY DEF Unread
  <2>3. \A k \in DOMAIN is[i] : is[i][k] \in Nat /\ is[i][k] <= n
    BY <2>1, <2>2, Elements DEF Below
  <2>4. \A j \in DOMAIN ts : j \in Nat /\ j > 0 BY LenProperties
  <2>5. Below(is[i], n + m) BY <2>3 DEF Below
  <2>6. Before(FALSE, is[i], ts) BY <2>3, <2>4 DEF Before, Follows
  <2> QED BY <2>5, <2>6 DEF Unread
<1> DEFINE js == Append(is, ts)
<1>4. \A i \in 1 .. Len(is) + 1 : i \in 1 .. Len(is) \/ i = Len(is) + 1 BY <1>0
<1>5. ASSUME NEW i \in DOMAIN js PROVE Own(FALSE, js[i]) /\ Below(js[i], n + m)
  BY <1>0, <1>1, <1>2, <1>3, <1>4
<1>6. ASSUME NEW i \in DOMAIN js, NEW j \in DOMAIN js, i < j
      PROVE  Before(FALSE, js[i], js[j])
  <2>1. i \in 1 .. Len(is) BY <1>0, <1>1, <1>6
  <2>2. CASE j \in 1 .. Len(is)
    <3>1. Before(FALSE, is[i], is[j]) BY <1>0, <1>6, <2>1, <2>2 DEF Unread
    <3> QED BY <1>1, <2>1, <2>2, <3>1
  <2>3. CASE j = Len(is) + 1 BY <1>0, <1>1, <1>3, <2>1, <2>3
  <2> QED BY <1>1, <1>4, <2>2, <2>3
<1> QED BY <1>5, <1>6 DEF Unread

LEMMA ReadNext ==
  ASSUME NEW n, NEW is \in Seq(Seq(Nat)), is # <<>>, Unread(n, is)
  PROVE  /\ Head(is) \in Seq(Nat) /\ Tail(is) \in Seq(Seq(Nat))
         /\ Own(FALSE, Head(is)) /\ Earlier(Head(is), n, Tail(is))
         /\ Unread(n, Tail(is))
         /\ \A a : Earlier(a, n, is) =>
              Before(FALSE, a, Head(is)) /\ Earlier(a, n, Tail(is))
<1>1. /\ Head(is) \in Seq(Nat) /\ Tail(is) \in Seq(Seq(Nat))
      /\ Len(Tail(is)) = Len(is) - 1
      /\ \A i \in 1 .. Len(Tail(is)) : Tail(is)[i] = is[i + 1]
      /\ Len(is) \in Nat \ {0} /\ DOMAIN is = 1 .. Len(is)
      /\ DOMAIN Tail(is) = 1 .. Len(is) - 1
  BY HeadTailProperties, LenProperties, EmptySeq
<1>2. Head(is) = is[1] /\ 1 \in DOMAIN is BY <1>1
<1>3. \A i \in DOMAIN Tail(is) : i + 1 \in DOMAIN is /\ 1 < i + 1 /\ Tail(is)[i] = is[i + 1]
  BY <1>1
<1>4. Own(FALSE, Head(is)) /\ Below(Head(is), n) BY <1>2 DEF Unread
<1>5. \A i \in DOMAIN Tail(is) : Before(FALSE, Head(is), Tail(is)[i])
  BY <1>2, <1>3 DEF Unread
<1>6. Unread(n, Tail(is))
  <2>1. \A i \in DOMAIN Tail(is) : Own(FALSE, Tail(is)[i]) /\ Below(Tail(is)[i], n)
    BY <1>3 DEF Unread
  <2>2. ASSUME NEW i \in DOMAIN Tail(is), NEW j \in DOMAIN Tail(is), i < j
        PROVE  Before(FALSE, Tail(is)[i], Tail(is)[j])
    <3>1. i + 1 < j + 1 BY <1>1, <2>2
    <3> QED BY <1>3, <3>1 DEF Unread
  <2> QED BY <2>1, <2>2 DEF Unread
<1>7. \A a : Earlier(a, n, is) => Before(FALSE, a, Head(is)) /\ Earlier(a, n, Tail(is))
  BY <1>2, <1>3 DEF Earlier
<1> QED BY <1>1, <1>4, <1>5, <1>6, <1>7 DEF Earlier

-----------------------------------------------------------------------------
(* The steps. *)

LEMMA InitHolds == Init => IInv
<1> SUFFICES ASSUME Init PROVE IInv
  OBVIOUS
<1>1. Typed BY EmptySeq DEF Init, Typed
<1>2. Types BY NothingInOrder DEF Init, Types, Idle, NoUpload
<1>3. Workers BY DEF Init, Workers, NoUpload
<1>4. Modes BY DEF Init, Modes, Idle, NoUpload, Busy
<1>5. InOrder
  BY NothingInOrder, NothingEarlier
  DEF Init, InOrder, Placed, Line, AllEarlier, Idle, NoUpload
<1>6. Unread(Len(typed), inputs) BY DEF Init, Unread
<1>7. Accounted
  BY NothingIn DEF Init, Accounted, OnHand, Idle, NoUpload
<1> QED BY <1>1, <1>2, <1>3, <1>4, <1>5, <1>6, <1>7 DEF IInv

\* Steps that leave alone what was typed, written and held.
LEMMA FrameKeeps ==
  ASSUME IInv, typed' = typed, inputs' = inputs, paste' = paste, sent' = sent,
         \/ phase' = phase /\ owed' = owed
         \/ phase = "waiting" /\ phase' = "connected" /\ owed' = owed
         \/ phase' = "lost" /\ owed' = {}
         \/ phase' = "ended"
  PROVE  IInv'
<1>1. /\ detector' = detector /\ upload' = upload /\ uploads' = uploads
      /\ failed' = failed /\ workers' = workers /\ queued' = queued
      /\ replay' = replay /\ straddles' = straddles
  BY DEF paste
<1>2. Typed' BY DEF IInv, Typed
<1>3. Types' BY <1>1 DEF IInv, Types
<1>4. Workers' BY <1>1 DEF IInv, Workers
<1>5. Modes' BY <1>1 DEF IInv, Modes, Busy
<1>6. InOrder' BY <1>1 DEF IInv, InOrder
<1>7. Unread(Len(typed), inputs)' BY DEF IInv
<1>8. Accounted'
  <2>1. OnHand' = OnHand BY <1>1 DEF OnHand
  <2>2. CASE phase = "waiting"
    <3>1. /\ detector.held = <<>> /\ upload.original = <<>> /\ queued = <<>>
          /\ replay = <<>> /\ owed = {}
      BY <2>2 DEF IInv, Modes, Workers
    <3>2. OnHand = {} BY <3>1, NothingIn DEF OnHand
    <3>3. phase' = "connected" => owed' = {} BY <2>2, <3>1
    <3> QED BY <2>1, <3>2, <3>3 DEF Accounted
  <2>3. CASE phase # "waiting" BY <2>1, <2>3 DEF IInv, Accounted
  <2> QED BY <2>2, <2>3
<1> QED BY <1>2, <1>3, <1>4, <1>5, <1>6, <1>7, <1>8 DEF IInv

LEMMA EnvironmentKeeps ==
  ASSUME IInv, SessionEnds \/ Cut \/ TakenOver \/ Released
  PROVE  IInv'
<1>1. /\ typed' = typed /\ inputs' = inputs /\ paste' = paste /\ sent' = sent
      /\ phase' = phase /\ owed' = owed
  BY DEF SessionEnds, Cut, TakenOver, Released, terminal, loop
<1> QED BY <1>1, FrameKeeps

LEMMA LoopFrameKeeps ==
  ASSUME IInv, ConnectionFails \/ GivesUp \/ InputClosed \/ \E g \in Conn : Server(g)
  PROVE  IInv'
<1>1. CASE ConnectionFails
  BY <1>1, FrameKeeps DEF ConnectionFails, Lost, Quiet, terminal
<1>2. CASE GivesUp
  BY <1>2, FrameKeeps DEF GivesUp, End, Quiet, Still, terminal
<1>3. CASE InputClosed
  BY <1>3, FrameKeeps DEF InputClosed, End, Quiet, Still, terminal
<1>4. ASSUME NEW g \in Conn, Server(g) PROVE IInv'
  <2>1. typed' = typed /\ inputs' = inputs /\ paste' = paste /\ sent' = sent
    BY <1>4 DEF Server, ServerMessage, ServerClosed, OldMessage, TakesServer, terminal
  <2>2. \/ phase' = phase /\ owed' = owed
        \/ phase = "waiting" /\ phase' = "connected" /\ owed' = owed
        \/ phase' = "lost" /\ owed' = {}
        \/ phase' = "ended"
    BY <1>4 DEF Server, ServerMessage, ServerClosed, OldMessage
  <2> QED BY <2>1, <2>2, FrameKeeps
<1> QED BY <1>1, <1>2, <1>3, <1>4

LEMMA TypeKeeps ==
  ASSUME IInv, Type
  PROVE  IInv'
<1>1. PICK ks \in SeqOf(Kinds, MaxRead) :
        /\ typed' = typed \o ks
        /\ inputs' = Append(inputs, [i \in DOMAIN ks |-> Len(typed) + i])
  BY DEF Type
<1> DEFINE ts == [i \in DOMAIN ks |-> Len(typed) + i]
<1>2. /\ phase' = phase /\ owed' = owed /\ sent' = sent
      /\ detector' = detector /\ upload' = upload /\ uploads' = uploads
      /\ failed' = failed /\ workers' = workers /\ queued' = queued
      /\ replay' = replay /\ straddles' = straddles
  BY DEF Type, paste, loop
<1>3. ks \in Seq(Kinds)
  <2>1. PICK m \in 0 .. MaxRead : ks \in [1 .. m -> Kinds] BY DEF SeqOf
  <2>2. m \in Nat BY ClientAssumption
  <2> QED BY <2>1, <2>2
<1>4. /\ Len(typed) \in Nat /\ Len(ks) \in Nat /\ DOMAIN ks = 1 .. Len(ks)
      /\ typed' \in Seq(Kinds) /\ Len(typed') = Len(typed) + Len(ks)
  BY <1>1, <1>3, LenProperties, ConcatProperties DEF IInv, Typed
<1>5. ts \in Seq(Nat) /\ \A j \in DOMAIN ts : ts[j] = Len(typed) + j /\ j <= Len(ks)
  BY <1>4
<1>6. inputs' = Append(inputs, ts) BY <1>1
<1> HIDE DEF ts
<1>7. inputs \in Seq(Seq(Nat)) /\ inputs' \in Seq(Seq(Nat))
  BY <1>5, <1>6, AppendProperties DEF IInv, Typed
<1>8. Typed' BY <1>4, <1>7 DEF Typed
<1>9. Types' BY <1>2 DEF IInv, Types
<1>10. Workers' BY <1>2 DEF IInv, Workers
<1>11. Modes' BY <1>2 DEF IInv, Modes, Busy
<1>12. Accounted' BY <1>2 DEF IInv, Accounted, OnHand
<1>13. Unread(Len(typed), inputs)'
  BY <1>4, <1>5, <1>6, <1>7, TypeUnread DEF IInv
<1>14. InOrder'
  <2>1. \A a \in Seq(Nat) :
          Earlier(a, Len(typed), inputs) => Earlier(a, Len(typed'), inputs')
    BY <1>4, <1>5, <1>6, <1>7, TypeEarlier
  <2>2. /\ sent \in Seq(Nat) /\ detector.held \in Seq(Nat)
        /\ upload.original \in Seq(Nat) /\ queued \in Seq(Nat) /\ replay \in Seq(Nat)
    BY DEF IInv, Types
  <2>3. AllEarlier(Len(typed'), inputs', sent, detector.held, upload.original, queued, replay)
    BY <2>1, <2>2 DEF IInv, InOrder, Placed, AllEarlier
  <2> QED BY <1>2, <2>3 DEF IInv, InOrder, Placed
<1> QED BY <1>8, <1>9, <1>10, <1>11, <1>12, <1>13, <1>14 DEF IInv

LEMMA ReattachKeeps ==
  ASSUME IInv, Reattach
  PROVE  IInv'
<1>1. /\ typed' = typed /\ inputs' = inputs /\ sent' = sent
      /\ detector' = Idle /\ upload' = NoUpload /\ uploads' = uploads
      /\ failed' = FALSE /\ workers' = workers /\ queued' = <<>> /\ replay' = <<>>
      /\ straddles' = straddles /\ owed' = owed /\ phase = "lost" /\ phase' = "waiting"
  BY DEF Reattach, FreshDetector, terminal
<1>2. /\ NoUpload.id = 0 /\ NoUpload.original = <<>> /\ Idle.held = <<>>
      /\ NoUpload \in [id : Nat, original : Seq(Nat)]
      /\ Idle \in [active : BOOLEAN, held : Seq(Nat)]
  BY NothingInOrder DEF NoUpload, Idle
<1>3. Typed' BY <1>1 DEF IInv, Typed
<1>4. Types' BY <1>1, <1>2, NothingInOrder DEF IInv, Types
<1>5. Workers' BY <1>1, <1>2 DEF IInv, Types, Workers
<1>6. Modes' BY <1>1, <1>2 DEF IInv, Modes
<1>7. InOrder'
  BY <1>1, <1>2, NothingInOrder, NothingEarlier
  DEF IInv, InOrder, Placed, Line, AllEarlier
<1>8. Unread(Len(typed), inputs)' BY <1>1 DEF IInv
<1>9. Accounted' BY <1>1 DEF Accounted
<1> QED BY <1>3, <1>4, <1>5, <1>6, <1>7, <1>8, <1>9 DEF IInv

\* The paste goes back before what was queued behind it.
LEMMA OriginalPlaced ==
  ASSUME NEW l, NEW s, NEW h, NEW o \in Seq(Nat), NEW q \in Seq(Nat), NEW r, NEW n, NEW is,
         Placed(l, s, h, o, q, r, n, is)
  PROVE  o \o q \in Seq(Nat) /\ Placed(l, s, h, <<>>, o \o q, r, n, is)
<1>1. Own(l, o \o q) BY OwnConcat DEF Placed, Line
<1>2. \A x : Before(l, x, o \o q) <=> Before(l, x, o) /\ Before(l, x, q)
  BY BeforeRight
<1>3. \A x : Before(l, o \o q, x) <=> Before(l, o, x) /\ Before(l, q, x)
  BY BeforeLeft
<1>4. Earlier(o \o q, n, is) BY EarlierConcat DEF Placed, AllEarlier
<1>5. Line(l, s, h, <<>>, o \o q, r)
  BY <1>1, <1>2, <1>3, NothingInOrder DEF Placed, Line
<1> QED BY <1>4, <1>5, ConcatType, NothingEarlier DEF Placed, AllEarlier

\* An upload that fails or times out: its paste is held as the first of what is
\* queued.
LEMMA FailureKeeps ==
  ASSUME IInv, upload.id # 0, queued' = Original, failed' = TRUE, upload' = NoUpload,
         workers' \subseteq workers,
         typed' = typed, inputs' = inputs, sent' = sent, phase' = phase, owed' = owed,
         detector' = detector, uploads' = uploads, replay' = replay,
         straddles' = straddles
  PROVE  IInv'
<1>0. /\ upload.original \in Seq(Nat) /\ queued \in Seq(Nat) /\ replay = <<>>
      /\ Busy /\ Busy'
  BY DEF IInv, Types, Modes, Busy
<1>1. /\ NoUpload.id = 0 /\ NoUpload.original = <<>>
      /\ NoUpload \in [id : Nat, original : Seq(Nat)]
  BY NothingInOrder DEF NoUpload
<1>2. /\ queued' \in Seq(Nat)
      /\ Placed(straddles, sent, detector.held, <<>>, queued', replay, Len(typed), inputs)
  BY <1>0, OriginalPlaced DEF IInv, InOrder, Original
<1>3. Typed' BY DEF IInv, Typed
<1>4. Types' BY <1>1, <1>2 DEF IInv, Types
<1>5. Workers' BY <1>1 DEF IInv, Types, Workers
<1>6. Modes' BY <1>0, <1>1 DEF IInv, Modes
<1>7. InOrder' BY <1>1, <1>2 DEF InOrder
<1>8. Unread(Len(typed), inputs)' BY DEF IInv
<1>9. Accounted'
  <2>1. ToSet(queued') = ToSet(upload.original) \cup ToSet(queued)
    BY <1>0, ToSetConcat DEF Original
  <2>2. OnHand' = OnHand BY <1>1, <2>1, NothingIn DEF OnHand
  <2> QED BY <2>2 DEF IInv, Accounted
<1> QED BY <1>3, <1>4, <1>5, <1>6, <1>7, <1>8, <1>9 DEF IInv

LEMMA ReleaseHeldKeeps ==
  ASSUME IInv, ReleaseHeld
  PROVE  IInv'
<1> DEFINE h == detector.held
<1>1. /\ phase = "connected" /\ ~Busy /\ detector' = Idle
      /\ upload' = upload /\ uploads' = uploads /\ failed' = failed
      /\ workers' = workers /\ queued' = queued /\ replay' = replay
      /\ straddles' = straddles /\ typed' = typed /\ inputs' = inputs
  BY DEF ReleaseHeld, Quiet, terminal
<1>2. /\ Delivered(h) \/ DetachedBy(h) \/ WriteFails(h)
      /\ \/ phase' = "connected" /\ Delivered(h) /\ owed' = owed
         \/ phase' = "lost" /\ owed' = {}
         \/ phase' = "ended"
  BY <1>1 DEF ReleaseHeld, DetachedBy, WriteFails, Lost, End
<1>3. /\ h \in Seq(Nat) /\ sent \in Seq(Nat) /\ upload.original = <<>> /\ queued = <<>>
      /\ upload.id = 0 /\ ~failed
  BY <1>1 DEF IInv, Types, Modes, Workers, Busy
<1>4. /\ Idle.held = <<>> /\ Idle \in [active : BOOLEAN, held : Seq(Nat)]
  BY NothingInOrder DEF Idle
<1>5. PICK p \in Seq(Nat), z \in Seq(Nat) : h = p \o z /\ sent' = sent \o p
  BY <1>2, <1>3, WhatIsWritten
<1>6. Placed(straddles, sent, h, <<>>, <<>>, replay, Len(typed), inputs)
  BY <1>3 DEF IInv, InOrder
<1> HIDE DEF h
<1>7. /\ Placed(straddles, sent, <<>>, <<>>, <<>>, replay, Len(typed), inputs)
      /\ Line(straddles, h, <<>>, <<>>, <<>>, replay) /\ Before(straddles, sent, h)
      /\ Earlier(h, Len(typed), inputs)
  BY <1>6, NothingInOrder, NothingEarlier DEF Placed, Line, AllEarlier
<1>8. /\ sent' \in Seq(Nat)
      /\ Placed(straddles, sent', <<>>, <<>>, <<>>, replay, Len(typed), inputs)
  BY <1>3, <1>5, <1>7, WritePlaced
<1>9. Typed' BY <1>1 DEF IInv, Typed
<1>10. Types' BY <1>1, <1>4, <1>8 DEF IInv, Types
<1>11. Workers' BY <1>1 DEF IInv, Workers
<1>12. ~Busy' BY <1>1, <1>3 DEF Busy
<1>13. Modes' BY <1>1, <1>2, <1>3, <1>4, <1>12 DEF IInv, Modes
<1>14. InOrder' BY <1>1, <1>3, <1>4, <1>8 DEF InOrder
<1>15. Unread(Len(typed), inputs)' BY <1>1 DEF IInv
<1>16. Accounted'
  <2>1. SUFFICES ASSUME phase' = "connected" PROVE Accounted'
    BY DEF Accounted
  <2>2. sent' = sent \o h /\ owed' = owed BY <1>2, <2>1 DEF Delivered, Written
  <2>3. ToSet(sent') = ToSet(sent) \cup ToSet(h) BY <1>3, <2>2, ToSetConcat
  <2>4. OnHand = ToSet(h) \cup ToSet(replay) /\ OnHand' = ToSet(replay)
    BY <1>1, <1>3, <1>4, NothingIn DEF OnHand, h
  <2>5. OnHand \subseteq owed /\ owed \subseteq ToSet(sent) \cup OnHand
    BY <1>1 DEF IInv, Accounted
  <2> QED BY <2>2, <2>3, <2>4, <2>5 DEF Accounted
<1> QED BY <1>9, <1>10, <1>11, <1>13, <1>14, <1>15, <1>16 DEF IInv

\* From the parts of the invariant that input settles.
LEMMA SettledKeeps ==
  ASSUME Settled(Len(typed), inputs'), Typed', Unread(Len(typed'), inputs'), typed' = typed
  PROVE  IInv'
BY DEF Settled, IInv, InOrder

LEMMA ReplayKeeps ==
  ASSUME IInv, Replay
  PROVE  IInv'
<1>1. typed' = typed /\ inputs' = inputs /\ Input(replay)
  BY DEF Replay, Quiet, terminal
<1>2. Ready(replay, Len(typed), inputs) BY DEF Ready, IInv, InOrder, Types
<1>3. Settled(Len(typed), inputs) BY <1>1, <1>2, InputKeeps DEF IInv
<1>4. Typed' /\ Unread(Len(typed'), inputs') BY <1>1 DEF IInv, Typed
<1> QED BY <1>1, <1>3, <1>4, SettledKeeps

LEMMA ReadInputKeeps ==
  ASSUME IInv, ReadInput
  PROVE  IInv'
<1> DEFINE ts == Head(inputs)
           is == Tail(inputs)
           n == Len(typed)
<1>1. /\ typed' = typed /\ inputs' = is /\ Input(ts)
      /\ replay = <<>> /\ inputs # <<>>
  BY DEF ReadInput, Quiet, terminal
<1>2. /\ ts \in Seq(Nat) /\ is \in Seq(Seq(Nat)) /\ Own(FALSE, ts) /\ Earlier(ts, n, is)
      /\ Unread(n, is)
      /\ \A a : Earlier(a, n, inputs) => Before(FALSE, a, ts) /\ Earlier(a, n, is)
  BY <1>1, ReadNext DEF IInv, Typed
<1> HIDE DEF ts, is, n
<1>3. /\ sent \in Seq(Nat) /\ detector.held \in Seq(Nat)
      /\ upload.original \in Seq(Nat) /\ queued \in Seq(Nat) /\ straddles \in BOOLEAN
  BY DEF IInv, Types
<1>4. AllEarlier(n, inputs, sent, detector.held, upload.original, queued, replay)
  BY DEF IInv, InOrder, Placed, n
<1>5. /\ Before(straddles, sent, ts) /\ Before(straddles, detector.held, ts)
      /\ Before(straddles, upload.original, ts) /\ Before(straddles, queued, ts)
      /\ Own(straddles, ts)
  BY <1>2, <1>3, <1>4, Loosen DEF AllEarlier
<1>6. Line(straddles, sent, detector.held, upload.original, queued, ts)
  BY <1>5 DEF IInv, InOrder, Placed, Line
<1>7. AllEarlier(n, is, sent, detector.held, upload.original, queued, ts)
  BY <1>2, <1>4 DEF AllEarlier
<1>8. Ready(ts, n, is) BY <1>1, <1>2, <1>6, <1>7 DEF Ready, Placed
<1>9. Settled(n, is) BY <1>1, <1>8, InputKeeps DEF IInv
<1>10. Typed' /\ Unread(Len(typed'), inputs')
  BY <1>1, <1>2 DEF IInv, Typed, n
<1> QED BY <1>1, <1>9, <1>10, SettledKeeps DEF n

LEMMA UploadDoneKeeps ==
  ASSUME IInv, NEW w \in workers, replay = <<>>, UploadDone(w),
         workers' = workers \ {w}, typed' = typed, inputs' = inputs
  PROVE  IInv'
<1> DEFINE o == upload.original
           h == detector.held
<1>1. /\ phase = "connected" /\ upload.id # 0 /\ w.id = upload.id /\ w.original = o
      /\ upload' = NoUpload /\ detector' = detector /\ uploads' = uploads
      /\ failed' = failed /\ straddles' = straddles
  BY DEF UploadDone, ThisUpload, IInv, Workers
<1>2. \/ Delivered(o) /\ replay' = queued /\ queued' = <<>> /\ phase' = phase /\ owed' = owed
      \/ WriteFails(o) /\ replay' = <<>> /\ queued' = queued
  BY <1>1 DEF UploadDone, TakesQueue
<1>3. /\ o \in Seq(Nat) /\ h \in Seq(Nat) /\ sent \in Seq(Nat) /\ queued \in Seq(Nat)
      /\ straddles \in BOOLEAN /\ ~failed /\ Busy
  BY <1>1 DEF IInv, Types, Modes, Busy
<1>4. /\ NoUpload.id = 0 /\ NoUpload.original = <<>>
      /\ NoUpload \in [id : Nat, original : Seq(Nat)]
  BY NothingInOrder DEF NoUpload
<1>5. PICK p \in Seq(Nat), z \in Seq(Nat) : o = p \o z /\ sent' = sent \o p
  BY <1>2, <1>3, WhatIsWritten
<1>6. Placed(straddles, sent, h, o, queued, <<>>, Len(typed), inputs)
  BY DEF IInv, InOrder
<1>7. straddles \/ h = <<>> BY <1>3 DEF IInv, Modes
<1>8. h = detector.held /\ o = upload.original OBVIOUS
<1> HIDE DEF h, o
<1>9. Before(straddles, o, h)
  <2>1. CASE straddles
    <3>1. straddles = TRUE BY <1>3, <2>1
    <3>2. Before(TRUE, h, o) BY <1>6, <3>1 DEF Placed, Line
    <3> QED BY <3>1, <3>2, Swap
  <2>2. CASE h = <<>> BY <2>2, NothingInOrder
  <2> QED BY <1>7, <2>1, <2>2
<1>10. /\ Placed(straddles, sent, h, <<>>, <<>>, queued, Len(typed), inputs)
       /\ Placed(straddles, sent, h, <<>>, queued, <<>>, Len(typed), inputs)
       /\ Line(straddles, o, h, <<>>, <<>>, queued) /\ Line(straddles, o, h, <<>>, queued, <<>>)
       /\ Before(straddles, sent, o) /\ Earlier(o, Len(typed), inputs)
  BY <1>6, <1>9, NothingInOrder, NothingEarlier DEF Placed, Line, AllEarlier
<1>11. /\ sent' \in Seq(Nat)
       /\ Placed(straddles, sent', h, <<>>, <<>>, queued, Len(typed), inputs)
       /\ Placed(straddles, sent', h, <<>>, queued, <<>>, Len(typed), inputs)
  BY <1>3, <1>5, <1>10, WritePlaced
<1>12. \/ phase' = "connected" /\ Delivered(o) /\ owed' = owed
          /\ replay' = queued /\ queued' = <<>>
       \/ phase' = "lost" /\ owed' = {} /\ replay' = <<>> /\ queued' = queued
  BY <1>1, <1>2 DEF WriteFails, Lost
<1>13. ~Busy' BY <1>1, <1>3, <1>4 DEF Busy
<1>14. Typed' BY DEF IInv, Typed
<1>15. Types'
  <2>1. queued' \in Seq(Nat) /\ replay' \in Seq(Nat) BY <1>3, <1>12, NothingInOrder
  <2> QED BY <1>1, <1>4, <1>11, <2>1 DEF IInv, Types
<1>16. Workers' BY <1>1, <1>4 DEF IInv, Types, Workers
<1>17. Modes' BY <1>1, <1>3, <1>4, <1>12, <1>13 DEF Modes
<1>18. InOrder' BY <1>1, <1>4, <1>8, <1>11, <1>12 DEF InOrder
<1>19. Unread(Len(typed), inputs)' BY DEF IInv
<1>20. Accounted'
  <2>1. SUFFICES ASSUME phase' = "connected" PROVE Accounted'
    BY DEF Accounted
  <2>2. /\ sent' = sent \o o /\ owed' = owed /\ replay' = queued /\ queued' = <<>>
    BY <1>12, <2>1 DEF Delivered, Written
  <2>3. ToSet(sent') = ToSet(sent) \cup ToSet(o) BY <1>3, <2>2, ToSetConcat
  <2>4. /\ OnHand = ToSet(h) \cup ToSet(o) \cup ToSet(queued)
        /\ OnHand' = ToSet(h) \cup ToSet(queued)
    BY <1>1, <1>4, <1>8, <2>2, NothingIn DEF OnHand
  <2>5. OnHand \subseteq owed /\ owed \subseteq ToSet(sent) \cup OnHand
    BY <1>1 DEF IInv, Accounted
  <2> QED BY <2>2, <2>3, <2>4, <2>5 DEF Accounted
<1> QED BY <1>14, <1>15, <1>16, <1>17, <1>18, <1>19, <1>20 DEF IInv

LEMMA UploadKeeps ==
  ASSUME IInv, NEW w \in workers, UploadFinished(w)
  PROVE  IInv'
<1>1. /\ replay = <<>> /\ workers' = workers \ {w} /\ typed' = typed /\ inputs' = inputs
  BY DEF UploadFinished, Quiet, terminal
<1>2. CASE UploadIgnored(w)
  <2>1. /\ phase' = phase /\ owed' = owed /\ sent' = sent
        /\ detector' = detector /\ upload' = upload /\ uploads' = uploads
        /\ failed' = failed /\ queued' = queued /\ replay' = replay
        /\ straddles' = straddles
    BY <1>2 DEF UploadIgnored, Still
  <2>2. Typed' BY <1>1 DEF IInv, Typed
  <2>3. Types' BY <1>1, <2>1 DEF IInv, Types
  <2>4. Workers' BY <1>1, <2>1 DEF IInv, Workers
  <2>5. Modes' BY <2>1 DEF IInv, Modes, Busy
  <2>6. InOrder' BY <1>1, <2>1 DEF IInv, InOrder
  <2>7. Accounted' BY <2>1 DEF IInv, Accounted, OnHand
  <2>8. Unread(Len(typed), inputs)' BY <1>1 DEF IInv
  <2> QED BY <2>2, <2>3, <2>4, <2>5, <2>6, <2>7, <2>8 DEF IInv
<1>3. CASE UploadFailed(w)
  BY <1>1, <1>3, FailureKeeps DEF UploadFailed, ThisUpload, Still
<1>4. CASE UploadDone(w)
  BY <1>1, <1>4, UploadDoneKeeps
<1> QED BY <1>2, <1>3, <1>4 DEF UploadFinished

LEMMA StepKeeps == IInv /\ [Next]_vars => IInv'
<1> SUFFICES ASSUME IInv, [Next]_vars PROVE IInv'
  OBVIOUS
<1>1. CASE Environment
  BY <1>1, TypeKeeps, EnvironmentKeeps DEF Environment
<1>2. CASE Loop
  <2>1. CASE UploadTimesOut
    BY <2>1, FailureKeeps DEF UploadTimesOut, Quiet, Still, terminal
  <2>2. CASE \E w \in workers : UploadFinished(w) BY <2>2, UploadKeeps
  <2>3. CASE ConnectionFails \/ GivesUp \/ InputClosed \/ \E g \in Conn : Server(g)
    BY <2>3, LoopFrameKeeps
  <2> QED
    BY <1>2, <2>1, <2>2, <2>3, ReattachKeeps, ReleaseHeldKeeps, ReplayKeeps, ReadInputKeeps
    DEF Loop
<1>3. CASE UNCHANGED vars
  <2>1. /\ typed' = typed /\ inputs' = inputs /\ paste' = paste /\ sent' = sent
        /\ phase' = phase /\ owed' = owed
    BY <1>3 DEF vars, terminal, loop
  <2> QED BY <2>1, FrameKeeps
<1> QED BY <1>1, <1>2, <1>3 DEF Next

-----------------------------------------------------------------------------
(* The theorems. *)

\* The inductive invariant: where the tokens are that were typed, in which order,
\* and in which mode of the loop.
THEOREM InputInvariant == Spec => []IInv
BY InitHolds, StepKeeps, PTL DEF Spec

LEMMA HeldSet ==
  ASSUME Types
  PROVE  /\ Held \in Seq(Nat) /\ ToSet(Held) = OnHand
         /\ ToSet(sent \o Held) = ToSet(sent) \cup OnHand
<1> DEFINE h == detector.held
           o == upload.original
           ho == h \o o
           hoq == ho \o queued
<1>0. /\ h \in Seq(Nat) /\ o \in Seq(Nat) /\ sent \in Seq(Nat)
      /\ queued \in Seq(Nat) /\ replay \in Seq(Nat)
  BY DEF Types
<1>1. ho \in Seq(Nat) /\ ToSet(ho) = ToSet(h) \cup ToSet(o)
  BY <1>0, ConcatType, ToSetConcat
<1>2. Held = hoq \o replay BY DEF Held
<1>3. OnHand = ToSet(h) \cup ToSet(o) \cup ToSet(queued) \cup ToSet(replay)
  BY DEF OnHand
<1> HIDE DEF h, o, ho
<1>4. hoq \in Seq(Nat) /\ ToSet(hoq) = ToSet(ho) \cup ToSet(queued)
  BY <1>0, <1>1, ConcatType, ToSetConcat
<1> HIDE DEF hoq
<1>5. Held \in Seq(Nat) /\ ToSet(Held) = ToSet(hoq) \cup ToSet(replay)
  BY <1>0, <1>2, <1>4, ConcatType, ToSetConcat
<1>6. ToSet(Held) = OnHand BY <1>1, <1>3, <1>4, <1>5
<1>7. ToSet(sent \o Held) = ToSet(sent) \cup ToSet(Held) BY <1>0, <1>5, ToSetConcat
<1> QED BY <1>5, <1>6, <1>7

\* What is typed goes to the session at most once: no token is written twice, or
\* written and still held, or held in two places.
THEOREM TypedAtMostOnce == Spec => []AtMostOnce
<1>1. ASSUME IInv PROVE AtMostOnce
  <2>1. Types /\ Line(straddles, sent, detector.held, upload.original, queued, replay)
    BY <1>1 DEF IInv, InOrder, Placed
  <2>2. Line(TRUE, sent, detector.held, upload.original, queued, replay)
    BY <2>1, Loosen DEF Types, Line
  <2>3. Own(TRUE, sent \o Held) BY <2>1, <2>2, LineIsOwn DEF Types, Held
  <2> DEFINE a == sent \o Held
  <2>4. a \in Seq(Nat) BY <2>1, HeldSet, ConcatType DEF Types
  <2>5. Own(TRUE, a) BY <2>3
  <2> HIDE DEF a
  <2>6. ASSUME NEW i \in DOMAIN a, NEW j \in DOMAIN a, a[i] = a[j] PROVE i = j
    <3>1. i \in Nat /\ j \in Nat BY <2>4, LenProperties
    <3>2. ~ (i < j) /\ ~ (j < i) BY <2>5, <2>6 DEF Own, Follows
    <3> QED BY <3>1, <3>2
  <2>7. IsInjective(a) BY <2>6 DEF IsInjective
  <2> QED BY <2>7 DEF AtMostOnce, a
<1> QED BY <1>1, InputInvariant, PTL

\* Everything taken on a connection that is up has been written or is held, unless
\* the user discarded it.
THEOREM NoInputLost == Spec => []NothingLost
<1>1. ASSUME IInv PROVE NothingLost
  BY <1>1, HeldSet DEF IInv, Accounted, NothingLost
<1> QED BY <1>1, InputInvariant, PTL

\* What is held while a connection is up was typed into that connection.
THEOREM NoStaleInput == Spec => []NothingStale
<1>1. ASSUME IInv PROVE NothingStale
  BY <1>1, HeldSet DEF IInv, Accounted, NothingStale
<1> QED BY <1>1, InputInvariant, PTL

\* Input is written in the order it is typed, also behind an upload.
THEOREM WrittenAsTyped == Spec => []WrittenInOrder
<1>1. ASSUME IInv PROVE WrittenInOrder
  <2>1. straddles \in BOOLEAN /\ Own(straddles, sent)
    BY <1>1 DEF IInv, Types, InOrder, Placed, Line
  <2> QED BY <2>1 DEF WrittenInOrder, Own, Follows
<1> QED BY <1>1, InputInvariant, PTL

LEMMA InputPhase ==
  ASSUME NEW ts, Input(ts)
  PROVE  phase' \in {phase, "lost", "ended"}
<1>1. CASE InputLost(ts) BY <1>1 DEF InputLost, End
<1>2. CASE Cancels(ts) BY <1>2 DEF Cancels
<1>3. CASE Discards(ts) BY <1>3 DEF Discards
<1>4. CASE Continues(ts)
  BY <1>4 DEF Continues, DetachedBy, WriteFails, Lost, End
<1>5. CASE Queues(ts) BY <1>5 DEF Queues
<1>6. CASE Dispatch(ts)
  BY <1>6 DEF Dispatch, DetachedBy, WriteFails, Lost, End
<1> QED BY <1>1, <1>2, <1>3, <1>4, <1>5, <1>6 DEF Input

\* Only the first Snapshot of the present connection makes a client connected.
LEMMA PhaseMoves ==
  ASSUME [Next]_vars
  PROVE  \/ /\ generation' = generation /\ view' = view
            /\ phase' \in {phase, "lost", "ended"}
         \/ phase' = "waiting"
         \/ generation' = generation /\ view' = generation
<1>1. CASE Environment
  BY <1>1 DEF Environment, Type, SessionEnds, Cut, TakenOver, Released, loop
<1>2. CASE Loop
  <2>1. CASE ConnectionFails BY <2>1 DEF ConnectionFails, Lost, Quiet
  <2>2. CASE Reattach BY <2>2 DEF Reattach
  <2>3. CASE GivesUp BY <2>3 DEF GivesUp, End, Quiet
  <2>4. CASE UploadTimesOut BY <2>4 DEF UploadTimesOut, Quiet
  <2>5. CASE ReleaseHeld
    BY <2>5 DEF ReleaseHeld, DetachedBy, WriteFails, Lost, End, Quiet
  <2>6. CASE Replay BY <2>6, InputPhase DEF Replay, Quiet
  <2>7. CASE ReadInput BY <2>7, InputPhase DEF ReadInput, Quiet
  <2>8. CASE InputClosed BY <2>8 DEF InputClosed, End, Quiet
  <2>9. ASSUME NEW w \in workers, UploadFinished(w)
        PROVE  generation' = generation /\ view' = view /\ phase' \in {phase, "lost"}
    BY <2>9 DEF UploadFinished, UploadIgnored, UploadFailed, UploadDone, WriteFails, Lost,
                Quiet
  <2>10. ASSUME NEW g \in Conn, Server(g)
         PROVE  /\ generation' = generation
                /\ \/ view' = view /\ phase' \in {phase, "lost", "ended"}
                   \/ view' = generation
    <3>1. generation' = generation
      BY <2>10 DEF Server, ServerMessage, ServerClosed, OldMessage, TakesServer
    <3>2. CASE ServerMessage(g)
      BY <3>1, <3>2 DEF ServerMessage, Current
    <3>3. CASE ServerClosed(g) BY <3>1, <3>3 DEF ServerClosed
    <3>4. CASE OldMessage(g) BY <3>1, <3>4 DEF OldMessage
    <3> QED BY <2>10, <3>1, <3>2, <3>3, <3>4 DEF Server
  <2> QED BY <1>2, <2>1, <2>2, <2>3, <2>4, <2>5, <2>6, <2>7, <2>8, <2>9, <2>10 DEF Loop
<1>3. CASE UNCHANGED vars BY <1>3 DEF vars, loop
<1> QED BY <1>1, <1>2, <1>3 DEF Next

\* A client that is connected again shows the screen of its present connection.
THEOREM PresentScreen == Spec => []ViewIsCurrent
<1>1. Init => ViewIsCurrent BY DEF Init, ViewIsCurrent
<1>2. ViewIsCurrent /\ [Next]_vars => ViewIsCurrent'
  BY PhaseMoves DEF ViewIsCurrent
<1> QED BY <1>1, <1>2, PTL DEF Spec
=============================================================================
