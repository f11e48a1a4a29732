--------------------------- MODULE WordEditorProofs ---------------------------
(***************************************************************************)
(* Theorems about WordEditor, for all manuscripts, templates and edits.    *)
(*                                                                         *)
(* The argument is one about sequences of nodes.  A sequence is tidy if no *)
(* two of its places hold a common piece; "Holds(b, S, A)" says that the   *)
(* body b is tidy, holds the pieces A and keeps those of S out of the      *)
(* nodes that may go.  Each pass is shown to keep this (the lemmas ...Hold *)
(* and ...Holds) with the same A, or with a part of A that has lost at    *)
(* most pieces of the journal's metadata and of the front's paragraphs     *)
(* without text.  The invariant says it of the body in every *)
(* phase, with what the pass that runs has still to place.                 *)
(***************************************************************************)
EXTENDS WordEditor, FiniteSetTheorems, SequenceTheorems, TLAPS

-----------------------------------------------------------------------------
(* Least and greatest numbers.                                             *)

\* A set of natural numbers has a least element.
LEMMA NatMin ==
    ASSUME NEW T \in SUBSET Nat, T # {}
    PROVE \E x \in T : \A y \in T : x <= y
<1> DEFINE R == {ss \in Nat \X Nat : ss[1] < ss[2]}
<1>1. IsWellFoundedOn(R, Nat)
  BY NatLessThanWellFounded DEF OpToRel
<1>2. \E x \in T : \A y \in T : ~ (<<y, x>> \in R)
  BY <1>1, WFMin
<1>3. \A x, y \in Nat : y < x => <<y, x>> \in R
  OBVIOUS
<1> HIDE DEF R
<1>4. PICK x \in T : \A y \in T : ~ (<<y, x>> \in R)
  BY <1>2
<1>5. \A y \in T : ~ (y < x)
  BY <1>3, <1>4
<1> QED
  BY <1>5

\* A bounded set of natural numbers has a greatest element.
LEMMA NatMax ==
    ASSUME NEW T \in SUBSET Nat, T # {}, NEW bound \in Nat, \A y \in T : y <= bound
    PROVE  \E x \in T : \A y \in T : y <= x
<1> DEFINE above == {x \in Nat : \A y \in T : y <= x}
<1>1. bound \in above
  OBVIOUS
<1>2. PICK x \in above : \A z \in above : x <= z
  BY <1>1, NatMin
<1>3. x \in Nat /\ \A y \in T : y \in Nat /\ y <= x
  OBVIOUS
<1>6. \A n \in Nat : (\A y \in T : y <= n) => n \in above
  OBVIOUS
<1> HIDE DEF above
<1>4. CASE x \in T
  BY <1>3, <1>4
<1>5. CASE x \notin T
  <2>1. \A y \in T : y < x
    BY <1>3, <1>5
  <2>2. PICK y \in T : TRUE
    OBVIOUS
  <2>3. x - 1 \in Nat /\ \A z \in T : z <= x - 1
    BY <1>3, <2>1
  <2>4. x - 1 \in above
    BY <1>6, <2>3
  <2> QED
    BY <1>2, <1>3, <2>4
<1> QED
  BY <1>4, <1>5

\* What holds of 0 and of the successor of each number it holds of.
LEMMA NatsByInduction ==
    ASSUME NEW T \in SUBSET Nat, 0 \in T, \A n \in T : n + 1 \in T
    PROVE  T = Nat
<1> SUFFICES ASSUME Nat \ T # {} PROVE FALSE
  OBVIOUS
<1>1. PICK x \in Nat \ T : \A y \in Nat \ T : x <= y
  BY NatMin
<1>2. x # 0 /\ x - 1 \in Nat
  BY <1>1
<1>3. x - 1 \in T
  BY <1>1, <1>2
<1> QED
  BY <1>1, <1>2, <1>3

\* Max and Min are these elements.
LEMMA MaxOf ==
    ASSUME NEW T \in SUBSET Nat, T # {}, NEW bound \in Nat, \A y \in T : y <= bound
    PROVE  Max(T) \in T /\ \A y \in T : y <= Max(T)
<1>1. PICK x \in T : \A y \in T : y <= x
  BY NatMax
<1>2. x \in T /\ \A y \in T : x >= y
  BY <1>1
<1> QED
  BY <1>2 DEF Max

LEMMA MinOf ==
    ASSUME NEW T \in SUBSET Nat, T # {}
    PROVE  Min(T) \in T /\ \A y \in T : Min(T) <= y
<1>1. PICK x \in T : \A y \in T : x <= y
  BY NatMin
<1> QED
  BY <1>1 DEF Min

-----------------------------------------------------------------------------
(* FlattenSeq, which the passes are built from.                            *)

\* g holds the first i of the sequences ss, one behind the other.
GluedUpto(ss, g, n) ==
    g = [i \in 1..n |-> IF i = 1 THEN ss[i] ELSE g[i - 1] \o ss[i]]

\* The parts of a sequence of sequences can be glued one by one.
LEMMA GluedExists ==
    ASSUME NEW ss PROVE \A n \in Nat : \E g : GluedUpto(ss, g, n)
<1> DEFINE T == {n \in Nat : \E g : GluedUpto(ss, g, n)}
<1>1. 0 \in T
  <2> DEFINE g == [i \in 1..0 |-> << >>]
  <2>1. GluedUpto(ss, g, 0)
    BY DEF GluedUpto
  <2> HIDE DEF g
  <2> QED
    BY <2>1
<1>2. ASSUME NEW n \in T PROVE n + 1 \in T
  <2>1. PICK g : GluedUpto(ss, g, n)
    OBVIOUS
  <2> DEFINE Value(h, k) == IF k = 1 THEN ss[k] ELSE h[k - 1] \o ss[k]
             h == [k \in 1..(n + 1) |-> IF k <= n THEN g[k] ELSE Value(g, k)]
  <2>2. n \in Nat
    OBVIOUS
  <2>3. \A k \in 1..n : g[k] = Value(g, k) /\ h[k] = g[k]
    <3>1. \A k \in 1..n : k \in 1..(n + 1) /\ k <= n
      BY <2>2
    <3>2. g = [k \in 1..n |-> Value(g, k)]
      BY <2>1 DEF GluedUpto
    <3> HIDE DEF Value
    <3>3. \A k \in 1..n : g[k] = Value(g, k)
      BY <3>2, Zenon
    <3>4. \A k \in 1..n : h[k] = g[k]
      BY <3>1
    <3> QED
      BY <3>3, <3>4
  <2>4. ASSUME NEW k \in 1..(n + 1) PROVE h[k] = Value(h, k)
    <3>1. h[k] = Value(g, k)
      <4>1. CASE k <= n
        <5>1. k \in 1..n
          BY <2>2, <4>1
        <5> QED
          BY <2>3, <5>1
      <4>2. CASE ~(k <= n)
        BY <4>2
      <4> QED
        BY <4>1, <4>2
    <3>2. CASE k = 1
      BY <3>1, <3>2
    <3>3. CASE k # 1
      <4>1. k - 1 \in 1..n
        BY <2>2, <3>3
      <4>2. h[k - 1] = g[k - 1]
        BY <2>3, <4>1
      <4> HIDE DEF h
      <4> QED
        BY <3>1, <3>3, <4>2
    <3> QED
      BY <3>2, <3>3
  <2>5. h = [k \in 1..(n + 1) |-> Value(h, k)]
    <3>1. h = [k \in 1..(n + 1) |-> h[k]]
      OBVIOUS
    <3> HIDE DEF h, Value
    <3> QED
      BY <2>4, <3>1
  <2> HIDE DEF h
  <2>6. GluedUpto(ss, h, n + 1)
    BY <2>5 DEF GluedUpto
  <2> QED
    BY <2>2, <2>6
<1>3. T \in SUBSET Nat
  OBVIOUS
<1>4. T = Nat
  <2> HIDE DEF T
  <2> QED
    BY <1>1, <1>2, <1>3, NatsByInduction
<1> QED
  BY <1>4

\* Induction over the sequences of ss: H[i] is what holds of the first i.
LEMMA FlattenInduct ==
    ASSUME NEW n \in Nat \ {0}, NEW ss, Len(ss) = n, NEW H, ss[1] \in H[1],
           \A i \in 1..(n - 1) : \A x \in H[i] : x \o ss[i + 1] \in H[i + 1]
    PROVE  FlattenSeq(ss) \in H[n]
<1> DEFINE g == CHOOSE g : GluedUpto(ss, g, n)
<1>1. GluedUpto(ss, g, n)
  BY GluedExists
<1>2. FlattenSeq(ss) = g[n]
  BY DEF FlattenSeq, GluedUpto
<1> HIDE DEF g
<1>3. \A i \in 1..n : g[i] = IF i = 1 THEN ss[i] ELSE g[i - 1] \o ss[i]
  BY <1>1, Zenon DEF GluedUpto
<1> DEFINE T == {i \in Nat : i + 1 <= n => g[i + 1] \in H[i + 1]}
<1>4. 0 \in T
  <2>1. g[1] = ss[1]
    BY <1>3
  <2>2. 0 + 1 = 1 /\ g[1] \in H[1]
    BY <2>1
  <2> QED
    BY <2>2
<1>5. ASSUME NEW i \in T PROVE i + 1 \in T
  <2>1. CASE i + 2 <= n
    <3>1. /\ i \in Nat /\ i + 1 <= n /\ i + 1 \in 1..(n - 1)
          /\ i + 2 \in 1..n /\ i + 2 # 1 /\ (i + 2) - 1 = i + 1 /\ (i + 1) + 1 = i + 2
      BY <2>1
    <3>2. g[i + 1] \in H[i + 1]
      BY <3>1
    <3>3. g[i + 2] = g[i + 1] \o ss[i + 2]
      BY <1>3, <3>1
    <3>4. g[i + 1] \o ss[i + 2] \in H[i + 2]
      <4> HIDE DEF T
      <4> QED
        BY <3>1, <3>2
    <3>5. g[(i + 1) + 1] \in H[(i + 1) + 1]
      BY <3>1, <3>3, <3>4
    <3> QED
      BY <3>1, <3>5
  <2>2. CASE ~(i + 2 <= n)
    BY <2>2
  <2> QED
    BY <2>1, <2>2
<1>6. T = Nat
  <2>1. T \in SUBSET Nat
    OBVIOUS
  <2> HIDE DEF T
  <2> QED
    BY <1>4, <1>5, <2>1, NatsByInduction
<1>7. n - 1 \in T /\ (n - 1) + 1 = n
  <2>1. n - 1 \in Nat /\ (n - 1) + 1 = n
    OBVIOUS
  <2> HIDE DEF T
  <2> QED
    BY <1>6, <2>1
<1>8. g[n] \in H[n]
  <2>1. n - 1 + 1 <= n
    OBVIOUS
  <2>2. g[(n - 1) + 1] \in H[(n - 1) + 1]
    BY <1>7, <2>1
  <2> QED
    BY <1>7, <2>2
<1> QED
  BY <1>2, <1>8

\* Nothing is made of nothing.
LEMMA FlattenNone == ASSUME NEW ss, Len(ss) = 0 PROVE FlattenSeq(ss) = ss
BY DEF FlattenSeq

-----------------------------------------------------------------------------
(* Sequences whose elements hold things, no two of them the same.          *)

\* What the elements of s at the places T hold; P[x] is what x holds.
Across(s, P, T) == UNION {P[s[i]] : i \in T}

\* What one place of T holds, no other place of it does.
Apartness(s, P, T) == \A i, j \in T : i # j => P[s[i]] \cap P[s[j]] = {}

Tidy(s, S, P, A) ==
    s \in Seq(S) /\ Apartness(s, P, 1..Len(s)) /\ Across(s, P, 1..Len(s)) = A

\* A function on 1..m is a sequence.
LEMMA Elements ==
    ASSUME NEW S, NEW m \in Nat, NEW f \in [1..m -> S]
    PROVE  f \in Seq(S) /\ Len(f) = m /\ DOMAIN f = 1..m
OBVIOUS

\* The empty sequence, one element and two of them.
LEMMA TidyNone ==
    ASSUME NEW S, NEW P PROVE Tidy(<< >>, S, P, {})
<1>1. << >> \in Seq(S) /\ Len(<< >>) = 0 /\ 1..0 = {}
  OBVIOUS
<1> QED
  BY <1>1 DEF Tidy, Apartness, Across

LEMMA TidyOne ==
    ASSUME NEW S, NEW P, NEW x \in S PROVE Tidy(<<x>>, S, P, P[x])
<1>1. <<x>> \in Seq(S) /\ Len(<<x>>) = 1 /\ 1..1 = {1} /\ <<x>>[1] = x
  OBVIOUS
<1> HIDE DEF Tidy
<1> QED
  BY <1>1 DEF Tidy, Apartness, Across

LEMMA TwoElements ==
    ASSUME NEW S, NEW x \in S, NEW y \in S PROVE <<x>> \o <<y>> = <<x, y>>
<1>1. /\ <<x>> \in Seq(S) /\ <<y>> \in Seq(S) /\ <<x, y>> \in Seq(S)
      /\ Len(<<x>>) = 1 /\ Len(<<y>>) = 1 /\ Len(<<x, y>>) = 2
      /\ <<x>>[1] = x /\ <<y>>[1] = y /\ <<x, y>>[1] = x /\ <<x, y>>[2] = y
  OBVIOUS
<1> DEFINE st == <<x>> \o <<y>>
<1>2. /\ st \in Seq(S) /\ Len(st) = 2
      /\ \A k \in 1..2 : st[k] = IF k <= 1 THEN <<x>>[k] ELSE <<y>>[k - 1]
  BY <1>1, ConcatProperties
<1>3. st[1] = x /\ st[2] = y
  BY <1>1, <1>2
<1> HIDE DEF st
<1>4. \A k \in 1..2 : st[k] = <<x, y>>[k]
  BY <1>1, <1>3
<1> QED
  BY <1>1, <1>2, <1>4, SeqEqual DEF st

\* Two tidy sequences that hold different things make a tidy one.
LEMMA TidyConcat ==
    ASSUME NEW S, NEW P, NEW A, NEW B, NEW s, NEW t,
           Tidy(s, S, P, A), Tidy(t, S, P, B), A \cap B = {}
    PROVE  Tidy(s \o t, S, P, A \cup B)
<1> DEFINE n == Len(s)
           m == Len(t)
           st == s \o t
<1>1. s \in Seq(S) /\ t \in Seq(S)
  BY DEF Tidy
<1>2. /\ st \in Seq(S) /\ Len(st) = n + m /\ n \in Nat /\ m \in Nat
      /\ \A k \in 1..(n + m) : st[k] = IF k <= n THEN s[k] ELSE t[k - n]
  BY <1>1, ConcatProperties, LenProperties
<1>3. /\ Apartness(s, P, 1..n) /\ Across(s, P, 1..n) = A
      /\ Apartness(t, P, 1..m) /\ Across(t, P, 1..m) = B
  BY DEF Tidy
<1> HIDE DEF n, m, st
<1>4. /\ \A k \in 1..n : k \in 1..(n + m) /\ st[k] = s[k]
      /\ \A k \in 1..m : k + n \in 1..(n + m) /\ st[k + n] = t[k]
  BY <1>2
<1>5. \A k \in 1..(n + m) : k \in 1..n \/ (k - n \in 1..m /\ k = (k - n) + n)
  BY <1>2
<1>6. Across(st, P, 1..(n + m)) = A \cup B
  BY <1>3, <1>4, <1>5 DEF Across
<1>7. /\ \A k \in 1..n : P[st[k]] \subseteq A
      /\ \A k \in 1..m : P[st[k + n]] \subseteq B
  BY <1>3, <1>4 DEF Across
<1>8. ASSUME NEW k \in 1..(n + m), NEW l \in 1..(n + m), k # l
      PROVE  P[st[k]] \cap P[st[l]] = {}
  <2>1. CASE k \in 1..n /\ l \in 1..n
    BY <1>3, <1>4, <1>8, <2>1 DEF Apartness
  <2>2. CASE k \notin 1..n /\ l \notin 1..n
    <3>1. /\ k - n \in 1..m /\ k = (k - n) + n
          /\ l - n \in 1..m /\ l = (l - n) + n /\ k - n # l - n
      BY <1>2, <1>5, <1>8, <2>2
    <3> QED
      BY <1>3, <1>4, <3>1 DEF Apartness
  <2>3. CASE k \in 1..n /\ l \notin 1..n
    <3>1. l - n \in 1..m /\ l = (l - n) + n
      BY <1>5, <2>3
    <3> QED
      BY <1>7, <2>3, <3>1
  <2>4. CASE k \notin 1..n /\ l \in 1..n
    <3>1. k - n \in 1..m /\ k = (k - n) + n
      BY <1>5, <2>4
    <3> QED
      BY <1>7, <2>4, <3>1
  <2> QED
    BY <2>1, <2>2, <2>3, <2>4
<1> QED
  BY <1>2, <1>6, <1>8 DEF Tidy, Apartness, st

Altogether(B, n) == UNION {B[i] : i \in 1..n}

\* The sequences of ss one behind the other, when each is tidy and no two of
\* them hold the same: ss[i] holds B[i].
LEMMA TidyFlatten ==
    ASSUME NEW S, NEW P, NEW n \in Nat, NEW ss, NEW B, DOMAIN ss = 1..n,
           ss = [i \in 1..n |-> ss[i]],
           \A i \in 1..n : Tidy(ss[i], S, P, B[i]),
           \A i, j \in 1..n : i # j => B[i] \cap B[j] = {}
    PROVE  Tidy(FlattenSeq(ss), S, P, Altogether(B, n))
<1>1. ss \in [1..n -> Seq(S)]
  BY DEF Tidy
<1>2. ss \in Seq(Seq(S)) /\ Len(ss) = n
  BY <1>1, Elements
<1>3. CASE n = 0
  <2>1. ss = << >>
    BY <1>2, <1>3, EmptySeq
  <2>2. FlattenSeq(ss) = << >> /\ 1..n = {}
    BY <1>2, <1>3, <2>1, FlattenNone
  <2>3. Altogether(B, n) = {}
    BY <2>2 DEF Altogether
  <2> QED
    BY <2>2, <2>3, TidyNone
<1>4. CASE n # 0
  <2> DEFINE upto(i) == UNION {B[k] : k \in 1..i}
             H == [i \in 1..n |-> {x \in Seq(S) : Tidy(x, S, P, upto(i))}]
  <2>1. ss[1] \in H[1]
    <3>1. 1 \in 1..n /\ upto(1) = B[1]
      <4>1. 1..1 = {1} /\ 1 \in 1..n
        BY <1>4
      <4> QED
        BY <4>1
    <3>2. Tidy(ss[1], S, P, upto(1)) /\ ss[1] \in Seq(S)
      BY <3>1 DEF Tidy
    <3> HIDE DEF upto
    <3> QED
      BY <3>1, <3>2
  <2>2. ASSUME NEW i \in 1..(n - 1), NEW x \in H[i] PROVE x \o ss[i + 1] \in H[i + 1]
    <3>1. /\ i \in 1..n /\ i + 1 \in 1..n
          /\ \A k \in 1..i : k \in 1..n /\ k # i + 1
          /\ 1..(i + 1) = (1..i) \cup {i + 1}
      OBVIOUS
    <3>2. upto(i + 1) = upto(i) \cup B[i + 1]
      BY <3>1
    <3>3. \A k \in 1..i : B[k] \cap B[i + 1] = {}
      BY <3>1
    <3>4. upto(i) \cap B[i + 1] = {}
      BY <3>3
    <3> HIDE DEF upto
    <3>5. Tidy(x, S, P, upto(i)) /\ Tidy(ss[i + 1], S, P, B[i + 1])
      BY <3>1
    <3>6. Tidy(x \o ss[i + 1], S, P, upto(i + 1))
      BY <3>2, <3>4, <3>5, TidyConcat
    <3>7. x \o ss[i + 1] \in Seq(S)
      BY <3>6 DEF Tidy
    <3> QED
      BY <3>1, <3>6, <3>7
  <2> HIDE DEF H
  <2>3. FlattenSeq(ss) \in H[n]
    BY <1>2, <1>4, <2>1, <2>2, FlattenInduct
  <2>4. n \in 1..n
    BY <1>4
  <2> QED
    BY <2>3, <2>4 DEF H, Altogether
<1> QED
  BY <1>3, <1>4

\* The elements may be taken from a larger set.
LEMMA TidyWithin ==
    ASSUME NEW S, NEW R, S \subseteq R, NEW P, NEW A, NEW s, Tidy(s, S, P, A)
    PROVE  Tidy(s, R, P, A)
BY DEF Tidy

\* What is picked from a sequence, and a run of it, are tidy.
LEMMA TidyPicked ==
    ASSUME NEW S, NEW P, NEW s \in Seq(S), NEW T \in SUBSET (1..Len(s)),
           Apartness(s, P, T)
    PROVE  Tidy(Picked(s, T), S, P, Across(s, P, T)) /\ Picked(s, T) \in Seq({s[i] : i \in T})
<1> DEFINE n == Len(s)
           ss == [i \in 1..n |-> IF i \in T THEN <<s[i]>> ELSE << >>]
           B == [i \in 1..n |-> IF i \in T THEN P[s[i]] ELSE {}]
           R == {s[i] : i \in T}
<1>1. n \in Nat /\ DOMAIN s = 1..n /\ R \subseteq S /\ \A i \in T : s[i] \in R
  BY LenProperties
<1>2. Picked(s, T) = FlattenSeq(ss)
  BY <1>1 DEF Picked
<1>3. \A i \in 1..n : Tidy(ss[i], R, P, B[i])
  <2> SUFFICES ASSUME NEW i \in 1..n PROVE Tidy(ss[i], R, P, B[i])
    OBVIOUS
  <2>1. CASE i \in T
    BY <1>1, <2>1, TidyOne
  <2>2. CASE i \notin T
    BY <2>2, TidyNone
  <2> QED
    BY <2>1, <2>2
<1>4. \A i, j \in 1..n : i # j => B[i] \cap B[j] = {}
  BY DEF Apartness
<1>5. Altogether(B, n) = Across(s, P, T)
  BY DEF Across, Altogether
<1>6. DOMAIN ss = 1..n /\ ss = [i \in 1..n |-> ss[i]]
  OBVIOUS
<1> HIDE DEF n, ss, B, R
<1>7. Tidy(FlattenSeq(ss), R, P, Altogether(B, n))
  BY <1>1, <1>3, <1>4, <1>6, TidyFlatten
<1>8. Tidy(Picked(s, T), R, P, Across(s, P, T))
  BY <1>2, <1>5, <1>7
<1>9. Tidy(Picked(s, T), S, P, Across(s, P, T))
  BY <1>1, <1>8, TidyWithin
<1> QED
  BY <1>8, <1>9 DEF Tidy, R

LEMMA TidySubSeq ==
    ASSUME NEW S, NEW P, NEW s \in Seq(S), NEW i \in Nat, NEW j \in Nat,
           1 <= i, i <= j + 1, j <= Len(s), Apartness(s, P, i..j)
    PROVE  /\ Tidy(SubSeq(s, i, j), S, P, Across(s, P, i..j))
           /\ Len(SubSeq(s, i, j)) = j + 1 - i
           /\ \A k \in 1..(j + 1 - i) : SubSeq(s, i, j)[k] = s[k + i - 1]
           /\ ToSet(SubSeq(s, i, j)) = {s[k] : k \in i..j}
<1> DEFINE t == SubSeq(s, i, j)
           m == j + 1 - i
<1>0. m \in Nat
  OBVIOUS
<1>1. t \in Seq(S) /\ Len(t) = m /\ \A k \in 1..m : t[k] = s[k + i - 1]
  BY SubSeqProperties
<1>2. DOMAIN t = 1..m
  BY <1>1
<1>3. /\ \A k \in 1..m : k + i - 1 \in i..j
      /\ \A k, l \in 1..m : k # l => k + i - 1 # l + i - 1
      /\ \A k \in i..j : k - i + 1 \in 1..m /\ k = (k - i + 1) + i - 1
  OBVIOUS
<1>7. i..j = {k + i - 1 : k \in 1..m}
  BY <1>3
<1> HIDE DEF t, m
<1>4. Apartness(t, P, 1..m)
  <2> SUFFICES ASSUME NEW k \in 1..m, NEW l \in 1..m, k # l
               PROVE  P[t[k]] \cap P[t[l]] = {}
    BY DEF Apartness
  <2>1. k + i - 1 \in i..j /\ l + i - 1 \in i..j /\ k + i - 1 # l + i - 1
    BY <1>3
  <2> QED
    BY <1>1, <2>1 DEF Apartness
<1>5. Across(t, P, 1..m) = Across(s, P, i..j)
  <2>1. {P[t[k]] : k \in 1..m} = {P[s[k + i - 1]] : k \in 1..m}
    BY <1>1
  <2>2. {P[s[k + i - 1]] : k \in 1..m} = {P[s[k]] : k \in i..j}
    BY <1>7
  <2> QED
    BY <2>1, <2>2 DEF Across
<1>6. ToSet(t) = {s[k] : k \in i..j}
  <2>1. ToSet(t) = {t[k] : k \in 1..m}
    BY <1>2 DEF ToSet
  <2>2. {t[k] : k \in 1..m} = {s[k + i - 1] : k \in 1..m}
    BY <1>1
  <2> QED
    BY <1>7, <2>1, <2>2
<1> QED
  BY <1>1, <1>4, <1>5, <1>6 DEF Tidy, t, m

\* What a tidy sequence holds at two sets of places.
LEMMA AcrossPlaces ==
    ASSUME NEW s, NEW P, NEW T, NEW U
    PROVE  /\ Across(s, P, T \cup U) = Across(s, P, T) \cup Across(s, P, U)
           /\ Apartness(s, P, T) /\ U \subseteq T => Apartness(s, P, U)
           /\ Apartness(s, P, T \cup U) /\ T \cap U = {} =>
                 Across(s, P, T) \cap Across(s, P, U) = {}
           /\ U \subseteq T => Across(s, P, U) \subseteq Across(s, P, T)
BY DEF Across, Apartness

-----------------------------------------------------------------------------
(* Nodes and the pieces they hold.                                         *)

Itself == [x \in Piece |-> {x}]

Contents == [n \in Node |-> ToSet(n.items)]

\* The pieces A, each of them once.
Lists(s, A) == Tidy(s, Piece, Itself, A)

Single == {n \in Node : Apartness(n.items, Itself, 1..Len(n.items))}

\* A node of the body, when S are the pieces that are not to be lost: what is
\* blank holds nothing, what is the journal's nothing of S, and a picture is
\* a figure with a piece of its own.
Fitting(S) ==
    {n \in Single :
        /\ n.obj = "blank" => n.items = << >>
        /\ MayGo(n) => Contents[n] \cap S = {}
        /\ n.obj = "picture" => n.role = "figure" /\ n.items # << >>}

\* A list names each of its pieces once.
LEMMA ListsElements ==
    ASSUME NEW s \in Seq(Piece), NEW A
    PROVE  Lists(s, A) <=> /\ \A k, l \in 1..Len(s) : s[k] = s[l] => k = l
                           /\ ToSet(s) = A
<1>1. DOMAIN s = 1..Len(s) /\ \A k \in 1..Len(s) : s[k] \in Piece
  OBVIOUS
<1>2. \A k \in 1..Len(s) : Itself[s[k]] = {s[k]}
  BY <1>1 DEF Itself
<1>3. Across(s, Itself, 1..Len(s)) = ToSet(s)
  BY <1>1, <1>2 DEF Across, ToSet
<1>4. Apartness(s, Itself, 1..Len(s)) <=> \A k, l \in 1..Len(s) : s[k] = s[l] => k = l
  <2>1. \A k, l \in 1..Len(s) : Itself[s[k]] \cap Itself[s[l]] = {} <=> s[k] # s[l]
    BY <1>2
  <2> QED
    BY <2>1 DEF Apartness
<1> QED
  BY <1>3, <1>4 DEF Lists, Tidy

\* The items of a node list its contents.
LEMMA ItemsListed ==
    ASSUME NEW n \in Single
    PROVE  /\ n \in Node /\ n.items \in Seq(Piece) /\ Lists(n.items, Contents[n])
           /\ Contents[n] = ToSet(n.items)
           /\ n.items = << >> <=> Contents[n] = {}
<1>1. n \in Node /\ n.items \in Seq(Piece) /\ Contents[n] = ToSet(n.items)
  BY DEF Single, Node, Contents
<1>2. Lists(n.items, ToSet(n.items))
  <2>1. Apartness(n.items, Itself, 1..Len(n.items))
    BY DEF Single
  <2>2. DOMAIN n.items = 1..Len(n.items) /\ \A k \in 1..Len(n.items) : n.items[k] \in Piece
    BY <1>1
  <2>3. Across(n.items, Itself, 1..Len(n.items)) = ToSet(n.items)
    BY <2>2 DEF Across, ToSet, Itself
  <2> QED
    BY <1>1, <2>1, <2>3 DEF Lists, Tidy
<1>3. n.items = << >> <=> ToSet(n.items) = {}
  <2>1. DOMAIN n.items = 1..Len(n.items) /\ Len(n.items) \in Nat
    BY <1>1
  <2>2. n.items = << >> <=> Len(n.items) = 0
    BY <1>1, EmptySeq
  <2>3. Len(n.items) # 0 => 1 \in 1..Len(n.items)
    BY <2>1
  <2>4. Len(n.items) = 0 => 1..Len(n.items) = {}
    BY <2>1
  <2> QED
    BY <2>1, <2>2, <2>3, <2>4 DEF ToSet
<1> QED
  BY <1>1, <1>2, <1>3

LEMMA ListsSingle ==
    ASSUME NEW n \in Node, NEW A, Lists(n.items, A)
    PROVE  n \in Single /\ Contents[n] = A
<1>1. n.items \in Seq(Piece)
  BY DEF Node
<1>2. ToSet(n.items) = A
  BY <1>1, ListsElements
<1> QED
  BY <1>2 DEF Single, Contents, Lists, Tidy

\* Two lists of different pieces make one.
LEMMA ListsConcat ==
    ASSUME NEW A, NEW B, NEW s, NEW t, Lists(s, A), Lists(t, B), A \cap B = {}
    PROVE  Lists(s \o t, A \cup B)
BY TidyConcat DEF Lists

\* The flow of a body lists what its nodes hold.
LEMMA FlowListed ==
    ASSUME NEW b, NEW A, Tidy(b, Single, Contents, A)
    PROVE  Lists(Flow(b), A) /\ Flow(b) \in Seq(Piece) /\ ToSet(Flow(b)) = A
<1> DEFINE n == Len(b)
           ss == [i \in 1..n |-> b[i].items]
           B == [i \in 1..n |-> Contents[b[i]]]
<1>1. /\ b \in Seq(Single) /\ n \in Nat /\ DOMAIN b = 1..n
      /\ \A i \in 1..n : b[i] \in Single
  BY LenProperties DEF Tidy
<1>2. Flow(b) = FlattenSeq(ss)
  BY <1>1 DEF Flow
<1>3. \A i \in 1..n : Tidy(ss[i], Piece, Itself, B[i])
  BY <1>1, ItemsListed DEF Lists
<1>4. \A i, j \in 1..n : i # j => B[i] \cap B[j] = {}
  BY DEF Tidy, Apartness
<1>5. Altogether(B, n) = A
  BY DEF Tidy, Across, Altogether
<1>6. DOMAIN ss = 1..n /\ ss = [i \in 1..n |-> ss[i]]
  OBVIOUS
<1> HIDE DEF n, ss, B
<1>7. Tidy(FlattenSeq(ss), Piece, Itself, Altogether(B, n))
  BY <1>1, <1>3, <1>4, <1>6, TidyFlatten
<1>8. Lists(Flow(b), A)
  BY <1>2, <1>5, <1>7 DEF Lists
<1>9. Flow(b) \in Seq(Piece)
  BY <1>8 DEF Lists, Tidy
<1> QED
  BY <1>8, <1>9, ListsElements

\* A node with other pieces.
LEMMA WithItems ==
    ASSUME NEW n \in Node, NEW items \in Seq(Piece)
    PROVE  LET m == [n EXCEPT !.items = items]
           IN  /\ m \in Node /\ m.items = items /\ m.obj = n.obj /\ m.role = n.role
               /\ m.zone = n.zone
BY DEF Node

\* One node made of the nodes of a tidy sequence.
LEMMA JoinedHolds ==
    ASSUME NEW s, NEW A, Tidy(s, Single, Contents, A), Len(s) # 0
    PROVE  /\ Joined(s) \in Single /\ Contents[Joined(s)] = A
           /\ Joined(s).obj = s[1].obj /\ Joined(s).role = s[1].role
           /\ Joined(s).zone = s[1].zone /\ Joined(s).items = Flow(s)
<1>1. s \in Seq(Single)
  BY DEF Tidy
<1>2. s[1] \in Single
  BY <1>1
<1>3. s[1] \in Node
  BY <1>2 DEF Single
<1>4. Flow(s) \in Seq(Piece) /\ Lists(Flow(s), A)
  BY FlowListed
<1>5. /\ Joined(s) \in Node /\ Joined(s).items = Flow(s)
      /\ Joined(s).obj = s[1].obj /\ Joined(s).role = s[1].role
      /\ Joined(s).zone = s[1].zone
  BY <1>3, <1>4, WithItems DEF Joined
<1> QED
  BY <1>4, <1>5, ListsSingle

\* What the editor makes itself holds nothing.
LEMMA SpacerFits ==
    ASSUME NEW S
    PROVE  /\ Spacer \in Node /\ Spacer \in Fitting(S) /\ Contents[Spacer] = {}
           /\ \A c \in 0..2 : Mark(c) \in Fitting(S) /\ Contents[Mark(c)] = {}
<1>0. "paragraph" \in Role
  BY DEF Role
<1>1. << >> \in Seq(Piece) /\ 0 \in Nat /\ {} \in SUBSET {"udc", "doi"} /\ 0 \in 0..2
  OBVIOUS
<1>2. Spacer \in Node /\ Spacer.items = << >> /\ Spacer.obj = "blank" /\ Spacer.role = "paragraph"
  BY <1>0, <1>1 DEF Spacer, Node
<1>3. \A c \in 0..2 : /\ Mark(c) \in Node /\ Mark(c).items = << >>
                      /\ Mark(c).obj = "section" /\ Mark(c).role = "paragraph"
  BY <1>0, <1>1 DEF Mark, Spacer, Node
<1>4. Lists(<< >>, {})
  BY TidyNone DEF Lists
<1>5. ASSUME NEW n \in Node, n.items = << >>, n.obj \in {"blank", "section"},
             n.role = "paragraph"
      PROVE  n \in Fitting(S) /\ Contents[n] = {}
  <2>1. n \in Single /\ Contents[n] = {}
    BY <1>4, <1>5, ListsSingle
  <2> QED
    BY <1>5, <2>1 DEF Fitting
<1> QED
  BY <1>2, <1>3, <1>5

-----------------------------------------------------------------------------
(* Bodies.                                                                 *)

\* b is a body that holds the pieces A, each of them once.
Holds(b, S, A) == Tidy(b, Fitting(S), Contents, A)

\* What is known of every place of a body.
LEMMA Places ==
    ASSUME NEW b, NEW S, NEW A, Holds(b, S, A)
    PROVE  /\ b \in Seq(Fitting(S)) /\ Len(b) \in Nat /\ DOMAIN b = 1..Len(b)
           /\ \A i \in 1..Len(b) : /\ b[i] \in Fitting(S) /\ b[i] \in Single
                                   /\ b[i] \in Node /\ Contents[b[i]] \subseteq A
           /\ Apartness(b, Contents, 1..Len(b)) /\ Across(b, Contents, 1..Len(b)) = A
           /\ Tidy(b, Single, Contents, A)
<1>1. /\ b \in Seq(Fitting(S)) /\ Apartness(b, Contents, 1..Len(b))
      /\ Across(b, Contents, 1..Len(b)) = A
  BY DEF Holds, Tidy
<1>2. Fitting(S) \subseteq Single /\ Single \subseteq Node
  BY DEF Fitting, Single
<1>3. \A i \in 1..Len(b) : b[i] \in Fitting(S) /\ Contents[b[i]] \subseteq A
  BY <1>1 DEF Across
<1> QED
  BY <1>1, <1>2, <1>3, TidyWithin, LenProperties DEF Holds

\* When a node may stand in a body.
LEMMA Fits ==
    ASSUME NEW n \in Single, NEW S,
           n.obj = "blank" => Contents[n] = {},
           MayGo(n) => Contents[n] \cap S = {},
           n.obj = "picture" => n.role = "figure" /\ Contents[n] # {}
    PROVE  n \in Fitting(S)
BY ItemsListed DEF Fitting

\* A run of the body and places picked from it hold what stood there.
LEMMA PartHolds ==
    ASSUME NEW b, NEW S, NEW A, Holds(b, S, A)
    PROVE  /\ \A T \in SUBSET (1..Len(b)) :
                 Holds(Picked(b, T), S, Across(b, Contents, T))
           /\ \A i, j \in Nat : 1 <= i /\ i <= j + 1 /\ j <= Len(b) =>
                 Holds(SubSeq(b, i, j), S, Across(b, Contents, i..j))
           /\ \A T, U \in SUBSET (1..Len(b)) : T \cap U = {} =>
                 Across(b, Contents, T) \cap Across(b, Contents, U) = {}
<1>1. b \in Seq(Fitting(S)) /\ Len(b) \in Nat /\ Apartness(b, Contents, 1..Len(b))
  BY Places
<1>2. \A T \in SUBSET (1..Len(b)) : Apartness(b, Contents, T)
  BY <1>1 DEF Apartness
<1>3. ASSUME NEW T \in SUBSET (1..Len(b))
      PROVE  Holds(Picked(b, T), S, Across(b, Contents, T))
  BY <1>1, <1>2, TidyPicked DEF Holds
<1>4. ASSUME NEW i \in Nat, NEW j \in Nat, 1 <= i, i <= j + 1, j <= Len(b)
      PROVE  Holds(SubSeq(b, i, j), S, Across(b, Contents, i..j))
  <2>1. i..j \in SUBSET (1..Len(b))
    BY <1>1, <1>4
  <2>2. Apartness(b, Contents, i..j)
    BY <1>2, <2>1
  <2> QED
    BY <1>1, <1>4, <2>2, TidySubSeq DEF Holds
<1>5. ASSUME NEW T \in SUBSET (1..Len(b)), NEW U \in SUBSET (1..Len(b)), T \cap U = {}
      PROVE  Across(b, Contents, T) \cap Across(b, Contents, U) = {}
  <2>1. Apartness(b, Contents, T \cup U)
    BY <1>2
  <2> QED
    BY <1>5, <2>1, AcrossPlaces
<1> QED
  BY <1>3, <1>4, <1>5

\* Bodies are joined of parts, of single nodes and of sequences of parts.
LEMMA ConcatHolds ==
    ASSUME NEW S, NEW A, NEW B, NEW b, NEW c, Holds(b, S, A), Holds(c, S, B),
           A \cap B = {}
    PROVE  Holds(b \o c, S, A \cup B)
BY TidyConcat DEF Holds

LEMMA NodeHolds ==
    ASSUME NEW S, NEW n \in Fitting(S)
    PROVE  Holds(<<n>>, S, Contents[n]) /\ Holds(<< >>, S, {})
BY TidyOne, TidyNone DEF Holds

LEMMA FlattenHolds ==
    ASSUME NEW S, NEW n \in Nat, NEW ss, NEW B, DOMAIN ss = 1..n,
           ss = [i \in 1..n |-> ss[i]],
           \A i \in 1..n : Holds(ss[i], S, B[i]),
           \A i, j \in 1..n : i # j => B[i] \cap B[j] = {}
    PROVE  Holds(FlattenSeq(ss), S, Altogether(B, n))
<1>1. \A i \in 1..n : Tidy(ss[i], Fitting(S), Contents, B[i])
  BY DEF Holds
<1>2. Tidy(FlattenSeq(ss), Fitting(S), Contents, Altogether(B, n))
  BY <1>1, TidyFlatten
<1> QED
  BY <1>2 DEF Holds

-----------------------------------------------------------------------------
(* The manuscript, and pictures that leave the text.                       *)

\* The article as it is read.
LEMMA ManuscriptHolds ==
    ASSUME NEW m \in Manuscripts
    PROVE  /\ m \in Seq(Node) /\ Tidy(m, Single, Contents, Across(m, Contents, 1..Len(m)))
           /\ Kept(m) \subseteq Across(m, Contents, 1..Len(m))
           /\ \A i \in 1..Len(m) :
                 MayGo(m[i]) => Contents[m[i]] \cap Kept(m) = {}
<1>1. /\ m \in Seq(Node) /\ DOMAIN m = 1..Len(m)
      /\ \A i, j \in 1..Len(m) : \A k \in DOMAIN m[i].items, l \in DOMAIN m[j].items :
            m[i].items[k] = m[j].items[l] => i = j /\ k = l
  BY ManuscriptsAssumption DEF IsManuscript
<1>2. \A i \in 1..Len(m) : /\ m[i] \in Node /\ m[i].items \in Seq(Piece)
                           /\ DOMAIN m[i].items = 1..Len(m[i].items)
                           /\ Contents[m[i]] = ToSet(m[i].items)
  <2> SUFFICES ASSUME NEW i \in 1..Len(m)
               PROVE  /\ m[i] \in Node /\ m[i].items \in Seq(Piece)
                      /\ DOMAIN m[i].items = 1..Len(m[i].items)
                      /\ Contents[m[i]] = ToSet(m[i].items)
    OBVIOUS
  <2>1. m[i] \in Node
    BY <1>1
  <2>2. m[i].items \in Seq(Piece) /\ Contents[m[i]] = ToSet(m[i].items)
    BY <2>1 DEF Node, Contents
  <2>3. DOMAIN m[i].items = 1..Len(m[i].items)
    BY <2>2
  <2> QED
    BY <2>1, <2>2, <2>3
<1>3. \A i \in 1..Len(m) : m[i] \in Single
  <2> SUFFICES ASSUME NEW i \in 1..Len(m) PROVE m[i] \in Single
    OBVIOUS
  <2>1. \A k, l \in 1..Len(m[i].items) : m[i].items[k] = m[i].items[l] => k = l
    BY <1>1, <1>2
  <2>2. Lists(m[i].items, ToSet(m[i].items))
    BY <1>2, <2>1, ListsElements
  <2> QED
    BY <1>2, <2>2, ListsSingle
<1>4. \A i, j \in 1..Len(m) : i # j => Contents[m[i]] \cap Contents[m[j]] = {}
  BY <1>1, <1>2 DEF ToSet
<1>5. m \in Seq(Single)
  BY <1>1, <1>3
<1>6. Tidy(m, Single, Contents, Across(m, Contents, 1..Len(m)))
  BY <1>4, <1>5 DEF Tidy, Apartness
<1>7. Kept(m) = UNION {Contents[m[i]] : i \in {k \in 1..Len(m) : ~MayGo(m[k])}}
  BY <1>1, <1>2 DEF Kept
<1>8. Kept(m) \subseteq Across(m, Contents, 1..Len(m))
  BY <1>7 DEF Across
<1>9. \A i \in 1..Len(m) : MayGo(m[i]) => Contents[m[i]] \cap Kept(m) = {}
  BY <1>4, <1>7
<1> QED
  BY <1>1, <1>6, <1>8, <1>9

\* The words and the pictures of a paragraph.
LEMMA PiecesSplit ==
    ASSUME NEW items \in Seq(Piece), NEW A, Lists(items, A)
    PROVE  \E W, Q : /\ Lists(Words(items), W) /\ Lists(Pictures(items), Q)
                     /\ W \cap Q = {} /\ W \cup Q = A
                     /\ (\E k \in DOMAIN items : items[k].of = "picture") => Q # {}
<1> DEFINE n == Len(items)
           T == {k \in DOMAIN items : items[k].of = "picture"}
           U == {k \in DOMAIN items : items[k].of # "picture"}
           W == Across(items, Itself, U)
           Q == Across(items, Itself, T)
<1>1. DOMAIN items = 1..n /\ \A k \in 1..n : items[k] \in Piece
  OBVIOUS
<1>2. T \in SUBSET (1..n) /\ U \in SUBSET (1..n) /\ T \cap U = {} /\ U \cup T = 1..n
  BY <1>1
<1>3. Apartness(items, Itself, 1..n) /\ Across(items, Itself, 1..n) = A
  BY DEF Lists, Tidy
<1>4. /\ Apartness(items, Itself, T) /\ Apartness(items, Itself, U)
      /\ W \cap Q = {} /\ W \cup Q = A
  <2> HIDE DEF T, U
  <2>1. Apartness(items, Itself, U \cup T) /\ U \cap T = {}
    BY <1>2, <1>3
  <2> QED
    BY <1>2, <1>3, <2>1, AcrossPlaces
<1>5. Lists(Words(items), W) /\ Lists(Pictures(items), Q)
  <2>1. Words(items) = Picked(items, U) /\ Pictures(items) = Picked(items, T)
    BY DEF Words, Pictures
  <2> HIDE DEF T, U
  <2> QED
    <3>1. Tidy(Picked(items, U), Piece, Itself, W)
      BY <1>2, <1>4, TidyPicked
    <3>2. Tidy(Picked(items, T), Piece, Itself, Q)
      BY <1>2, <1>4, TidyPicked
    <3> QED
      BY <2>1, <3>1, <3>2 DEF Lists
<1>6. (\E k \in DOMAIN items : items[k].of = "picture") => Q # {}
  BY <1>1 DEF Across, Itself
<1> HIDE DEF W, Q
<1> QED
  BY <1>4, <1>5, <1>6

\* A node in another group stays a node and keeps all else.
LEMMA Regrouped ==
    ASSUME NEW x \in Node, NEW g \in Nat
    PROVE  LET y == [x EXCEPT !.group = g]
           IN  /\ y \in Node /\ y.items = x.items /\ y.obj = x.obj /\ y.role = x.role
               /\ y.zone = x.zone
BY DEF Node

\* A node that becomes a figure stays a node with its pieces.
LEMMA MadeFigure ==
    ASSUME NEW x \in Node, NEW g \in Nat, NEW z \in {"none", "front", "body", "back"}
    PROVE  LET y == [x EXCEPT !.role = "figure", !.group = g, !.zone = z]
           IN  y \in Node /\ y.items = x.items /\ y.obj = x.obj /\ y.role = "figure"
<1>1. "figure" \in Role
  BY DEF Role
<1> QED
  BY <1>1 DEF Node

\* A node with its picture detached holds what it held before.
LEMMA DetachedHolds ==
    ASSUME NEW m \in Manuscripts, NEW i \in 1..Len(m)
    PROVE  Holds(Detached(m, i), Kept(m), Contents[m[i]])
<1> DEFINE S == Kept(m)
           n == IF i > 1 /\ IsCaption(m[i]) /\ m[i - 1].obj = "picture"
                THEN [m[i] EXCEPT !.group = FigureGroup(m, i - 1)] ELSE m[i]
           zone == IF i < Len(m) /\ IsCaption(m[i + 1]) /\ m[i + 1].zone = "body"
                   THEN "body" ELSE n.zone
           figure == [n EXCEPT !.role = "figure", !.group = FigureGroup(m, i), !.zone = zone]
           text == [n EXCEPT !.obj = "text", !.items = Words(@)]
           picture == [n EXCEPT !.obj = "picture", !.role = "figure", !.zone = "body",
                         !.group = NativeGroup(i), !.items = Pictures(@)]
           carries == n.obj = "carrier" /\ n.role \in Detachable /\ n.label # "field"
<1>1. /\ m \in Seq(Node) /\ m[i] \in Node /\ m[i] \in Single
      /\ MayGo(m[i]) => Contents[m[i]] \cap S = {}
      /\ Len(m) \in Nat /\ \A k \in 1..Len(m) : m[k] \in Node
  BY ManuscriptHolds DEF Tidy
<1>2. \A k \in 1..Len(m) : FigureGroup(m, k) \in Nat
  <2> SUFFICES ASSUME NEW k \in 1..Len(m) PROVE FigureGroup(m, k) \in Nat
    OBVIOUS
  <2>1. NativeGroup(k) \in Nat
    BY DEF NativeGroup
  <2>2. ASSUME k < Len(m) PROVE m[k + 1].group \in Nat
    <3>1. m[k + 1] \in Node
      BY <1>1, <2>2
    <3> QED
      BY <3>1 DEF Node
  <2> QED
    BY <2>1, <2>2 DEF FigureGroup
<1>3. /\ n \in Node /\ n.items = m[i].items /\ n.obj = m[i].obj /\ n.role = m[i].role
      /\ n.zone = m[i].zone
  <2>1. i > 1 => i - 1 \in 1..Len(m)
    BY <1>1
  <2>2. i > 1 => FigureGroup(m, i - 1) \in Nat
    BY <1>2, <2>1
  <2> QED
    <3>1. CASE i > 1
      <4> DEFINE g == FigureGroup(m, i - 1)
                 y == [m[i] EXCEPT !.group = g]
      <4>1. /\ y \in Node /\ y.items = m[i].items /\ y.obj = m[i].obj /\ y.role = m[i].role
            /\ y.zone = m[i].zone
        <5> HIDE DEF g
        <5> QED
          BY <1>1, <2>2, <3>1, Regrouped DEF g
      <4>2. n = y \/ n = m[i]
        OBVIOUS
      <4> HIDE DEF y, n
      <4> QED
        BY <1>1, <4>1, <4>2
    <3>2. CASE ~(i > 1)
      BY <1>1, <3>2
    <3> QED
      BY <3>1, <3>2
<1>4. /\ m[i].obj = "blank" => m[i].items = << >>
      /\ m[i].obj = "picture" => m[i].items # << >>
      /\ m[i].obj = "carrier" =>
            \E k \in DOMAIN m[i].items : m[i].items[k].of = "picture"
  <2>1. i \in DOMAIN m
    BY <1>1
  <2> QED
    BY <2>1, ManuscriptsAssumption DEF IsManuscript
<1>5. /\ Lists(m[i].items, Contents[m[i]]) /\ m[i].items \in Seq(Piece)
      /\ m[i].items = << >> <=> Contents[m[i]] = {}
  BY <1>1, ItemsListed
<1>6. Detached(m, i) = IF n.obj = "picture" THEN <<figure>>
                       ELSE IF carries THEN <<text, picture>> ELSE <<n>>
  BY DEF Detached
<1>7. zone \in {"none", "front", "body", "back"}
  BY <1>3 DEF Node
<1> HIDE DEF n, zone
<1>8. CASE n.obj = "picture"
  <2>1. /\ figure \in Node /\ figure.items = m[i].items /\ figure.obj = "picture"
        /\ figure.role = "figure"
    <3> DEFINE g == FigureGroup(m, i)
    <3>1. g \in Nat
      BY <1>2
    <3> HIDE DEF g
    <3>2. LET y == [n EXCEPT !.role = "figure", !.group = g, !.zone = zone]
          IN  y \in Node /\ y.items = n.items /\ y.obj = n.obj /\ y.role = "figure"
      BY <1>3, <1>7, <3>1, MadeFigure
    <3> QED
      BY <1>3, <1>8, <3>2 DEF g
  <2>2. figure \in Single /\ Contents[figure] = Contents[m[i]]
    BY <1>5, <2>1, ListsSingle
  <2>3. figure \in Fitting(S)
    BY <1>3, <1>4, <1>5, <1>8, <2>1, <2>2, Fits DEF Metadata, MayGo
  <2> QED
    BY <1>6, <1>8, <2>2, <2>3, NodeHolds
<1>9. CASE n.obj # "picture" /\ carries
  <2>1. PICK W, Q : /\ Lists(Words(m[i].items), W) /\ Lists(Pictures(m[i].items), Q)
                    /\ W \cap Q = {} /\ W \cup Q = Contents[m[i]] /\ Q # {}
    <3> DEFINE items == m[i].items
    <3>1. \E k \in DOMAIN items : items[k].of = "picture"
      BY <1>3, <1>4, <1>9
    <3>2. items \in Seq(Piece) /\ Lists(items, Contents[m[i]])
      BY <1>5
    <3> HIDE DEF items
    <3>3. \E W, Q : /\ Lists(Words(items), W) /\ Lists(Pictures(items), Q)
                    /\ W \cap Q = {} /\ W \cup Q = Contents[m[i]]
                    /\ (\E k \in DOMAIN items : items[k].of = "picture") => Q # {}
      BY <3>2, PiecesSplit
    <3> QED
      BY <3>1, <3>3 DEF items
  <2>2. Words(m[i].items) \in Seq(Piece) /\ Pictures(m[i].items) \in Seq(Piece)
    BY <2>1 DEF Lists, Tidy
  <2>3. /\ text \in Node /\ text.items = Words(m[i].items) /\ text.obj = "text"
        /\ text.role = n.role
    BY <1>3, <2>2 DEF Node
  <2>4. /\ picture \in Node /\ picture.items = Pictures(m[i].items)
        /\ picture.obj = "picture" /\ picture.role = "figure"
    <3>1. NativeGroup(i) \in Nat
      BY DEF NativeGroup
    <3>2. picture = [n EXCEPT !.obj = "picture", !.role = "figure", !.zone = "body",
                       !.group = NativeGroup(i), !.items = Pictures(m[i].items)]
      BY <1>3
    <3>3. "figure" \in Role
      BY DEF Role
    <3> HIDE DEF picture
    <3> QED
      BY <1>3, <2>2, <3>1, <3>2, <3>3 DEF Node
  <2> HIDE DEF text, picture
  <2>5. text \in Single /\ Contents[text] = W /\ picture \in Single /\ Contents[picture] = Q
    <3>1. Lists(text.items, W) /\ Lists(picture.items, Q)
      BY <2>1, <2>3, <2>4
    <3>2. text \in Single /\ Contents[text] = W
      BY <2>3, <3>1, ListsSingle
    <3>3. picture \in Single /\ Contents[picture] = Q
      BY <2>4, <3>1, ListsSingle
    <3> QED
      BY <3>2, <3>3
  <2>6. text \in Fitting(S)
    BY <1>9, <2>3, <2>5, Fits DEF Metadata, MayGo, Detachable
  <2>7. picture \in Fitting(S)
    BY <2>1, <2>4, <2>5, Fits DEF Metadata, MayGo
  <2>8. Holds(<<text>>, S, W) /\ Holds(<<picture>>, S, Q)
    BY <2>5, <2>6, <2>7, NodeHolds
  <2>9. Holds(<<text>> \o <<picture>>, S, W \cup Q)
    BY <2>1, <2>8, ConcatHolds
  <2>10. <<text>> \o <<picture>> = <<text, picture>>
    BY <2>5, TwoElements
  <2> QED
    BY <1>6, <1>9, <2>1, <2>9, <2>10
<1>10. CASE n.obj # "picture" /\ ~carries
  <2>1. n \in Single /\ Contents[n] = Contents[m[i]]
    BY <1>3, <1>5, ListsSingle
  <2>2. MayGo(n) <=> MayGo(m[i])
    BY <1>3 DEF MayGo
  <2>3. n \in Fitting(S)
    BY <1>1, <1>3, <1>4, <1>5, <1>10, <2>1, <2>2, Fits
  <2> QED
    BY <1>6, <1>10, <2>1, <2>3, NodeHolds
<1> QED
  BY <1>8, <1>9, <1>10

LEMMA DetachHolds ==
    ASSUME NEW m \in Manuscripts
    PROVE  Holds(FlattenSeq([i \in DOMAIN m |-> Detached(m, i)]), Kept(m),
                 Across(m, Contents, 1..Len(m)))
<1> DEFINE n == Len(m)
           ss == [i \in 1..n |-> Detached(m, i)]
           B == [i \in 1..n |-> Contents[m[i]]]
<1>1. n \in Nat /\ DOMAIN m = 1..n /\ Apartness(m, Contents, 1..n)
  BY ManuscriptHolds DEF Tidy
<1>2. \A i \in 1..n : Holds(ss[i], Kept(m), B[i])
  BY DetachedHolds
<1>3. \A i, j \in 1..n : i # j => B[i] \cap B[j] = {}
  BY <1>1 DEF Apartness
<1>4. Altogether(B, n) = Across(m, Contents, 1..n)
  BY DEF Altogether, Across
<1>5. DOMAIN ss = 1..n /\ ss = [i \in 1..n |-> ss[i]]
  OBVIOUS
<1>6. FlattenSeq([i \in DOMAIN m |-> Detached(m, i)]) = FlattenSeq(ss)
  BY <1>1
<1> HIDE DEF n, ss, B
<1>7. Holds(FlattenSeq(ss), Kept(m), Altogether(B, n))
  BY <1>1, <1>2, <1>3, <1>5, FlattenHolds
<1> QED
  BY <1>4, <1>6, <1>7 DEF n

-----------------------------------------------------------------------------
(* The front: titles, groups and the order of the parts.                   *)

\* One node made of a body fits where its first node would.
LEMMA JoinedFits ==
    ASSUME NEW b, NEW S, NEW A, Holds(b, S, A), Len(b) # 0,
           b[1].obj = "blank" => A = {}, MayGo(b[1]) => A \cap S = {},
           b[1].obj = "picture" => A = Contents[b[1]]
    PROVE  Holds(<<Joined(b)>>, S, A)
<1>1. /\ Joined(b) \in Single /\ Contents[Joined(b)] = A
      /\ MayGo(Joined(b)) <=> MayGo(b[1])
      /\ Joined(b).obj = b[1].obj /\ Joined(b).role = b[1].role
  BY Places, JoinedHolds DEF MayGo
<1>2. 1 \in 1..Len(b) /\ b[1] \in Fitting(S) /\ b[1] \in Single
  BY Places
<1>3. b[1].obj = "picture" => b[1].role = "figure" /\ Contents[b[1]] # {}
  BY <1>2, ItemsListed DEF Fitting
<1>4. Joined(b) \in Fitting(S)
  BY <1>1, <1>3, Fits
<1> QED
  BY <1>1, <1>4, NodeHolds

\* Where the lines of a title end.
LEMMA TitleEnds ==
    ASSUME NEW b, NEW n \in Nat, Len(b) = n, NEW i \in 1..n
    PROVE  /\ TitleEnd(b, i) \in i..n
           /\ \A k \in (i + 1)..TitleEnd(b, i) : TitleGoesOn(b, k)
           /\ \A e \in i..n : (\A k \in (i + 1)..e : TitleGoesOn(b, k)) => e <= TitleEnd(b, i)
<1> DEFINE E == {e \in i .. Len(b) : \A k \in (i + 1) .. e : TitleGoesOn(b, k)}
<1>1. E \in SUBSET Nat /\ \A e \in E : e <= n
  OBVIOUS
<1>2. i \in i..n /\ (i + 1)..i = {}
  OBVIOUS
<1>3. i \in E
  BY <1>2
<1>4. TitleEnd(b, i) = Max(E)
  BY DEF TitleEnd
<1>5. \A e : e \in E <=> e \in i..n /\ \A k \in (i + 1)..e : TitleGoesOn(b, k)
  OBVIOUS
<1> HIDE DEF E
<1>6. Max(E) \in E /\ \A e \in E : e <= Max(E)
  BY <1>1, <1>3, MaxOf
<1> QED
  BY <1>4, <1>5, <1>6

\* Each place belongs to the title that begins at or before it, and to no other.
LEMMA TitleRuns ==
    ASSUME NEW b, NEW n \in Nat, Len(b) = n
    PROVE  /\ \A k \in 1..n : \E i \in 1..n : ~TitleGoesOn(b, i) /\ k \in i..TitleEnd(b, i)
           /\ \A i, j \in 1..n : ~TitleGoesOn(b, i) /\ ~TitleGoesOn(b, j) /\ i # j =>
                 (i..TitleEnd(b, i)) \cap (j..TitleEnd(b, j)) = {}
<1>1. ASSUME NEW k \in 1..n
      PROVE  \E i \in 1..n : ~TitleGoesOn(b, i) /\ k \in i..TitleEnd(b, i)
  <2> DEFINE starts == {i \in 1..k : ~TitleGoesOn(b, i)}
  <2>1. 1 \in starts
    BY DEF TitleGoesOn
  <2>2. starts \in SUBSET Nat /\ k \in Nat /\ \A i \in starts : i <= k
    OBVIOUS
  <2>3. \A i : i \in starts <=> i \in 1..k /\ ~TitleGoesOn(b, i)
    OBVIOUS
  <2> HIDE DEF starts
  <2>4. PICK i \in starts : \A j \in starts : j <= i
    BY <2>1, <2>2, NatMax
  <2>5. i \in 1..k /\ i \in 1..n /\ ~TitleGoesOn(b, i)
    BY <2>3
  <2>6. \A j \in (i + 1)..k : j \in 1..k /\ ~(j <= i)
    BY <2>5
  <2>7. \A j \in (i + 1)..k : TitleGoesOn(b, j)
    BY <2>3, <2>4, <2>6
  <2>8. k \in i..n
    BY <2>5
  <2>9. k <= TitleEnd(b, i) /\ TitleEnd(b, i) \in i..n
    BY <2>5, <2>7, <2>8, TitleEnds
  <2> QED
    BY <2>5, <2>8, <2>9
<1>2. ASSUME NEW i \in 1..n, NEW j \in 1..n, ~TitleGoesOn(b, j), i < j
      PROVE  (i..TitleEnd(b, i)) \cap (j..TitleEnd(b, j)) = {}
  <2>1. /\ TitleEnd(b, i) \in i..n
        /\ \A k \in (i + 1)..TitleEnd(b, i) : TitleGoesOn(b, k)
    BY TitleEnds
  <2>2. ~ (j <= TitleEnd(b, i))
    <3>1. j <= TitleEnd(b, i) => j \in (i + 1)..TitleEnd(b, i)
      BY <1>2, <2>1
    <3> QED
      BY <1>2, <2>1, <3>1
  <2> QED
    BY <2>1, <2>2
<1>3. \A i, j \in 1..n : i # j => i < j \/ j < i
  OBVIOUS
<1> QED
  BY <1>1, <1>2, <1>3

\* Merging the lines of titles keeps the pieces.
LEMMA TitlesHold ==
    ASSUME NEW b, NEW S, NEW A, Holds(b, S, A)
    PROVE  Holds(TitlesMerged(b), S, A)
<1> DEFINE n == Len(b)
           run(i) == SubSeq(b, i, TitleEnd(b, i))
           ss == [i \in 1..n |-> IF TitleGoesOn(b, i) THEN << >> ELSE <<Joined(run(i))>>]
           B == [i \in 1..n |-> IF TitleGoesOn(b, i) THEN {}
                                ELSE Across(b, Contents, i..TitleEnd(b, i))]
<1>1. n \in Nat /\ DOMAIN b = 1..n /\ b \in Seq(Fitting(S)) /\ Across(b, Contents, 1..n) = A
  BY Places
<1>2. TitlesMerged(b) = FlattenSeq(ss)
  BY <1>1 DEF TitlesMerged
<1>3. \A i \in 1..n : TitleEnd(b, i) \in i..n
  BY <1>1, TitleEnds
<1>4. \A i \in 1..n : Holds(ss[i], S, B[i])
  <2> SUFFICES ASSUME NEW i \in 1..n PROVE Holds(ss[i], S, B[i])
    OBVIOUS
  <2>1. CASE TitleGoesOn(b, i)
    <3>1. Holds(<< >>, S, {})
      BY TidyNone DEF Holds
    <3> QED
      BY <2>1, <3>1
  <2>2. CASE ~TitleGoesOn(b, i)
    <3> DEFINE e == TitleEnd(b, i)
               A2 == Across(b, Contents, i..e)
    <3>1. /\ e \in i..n /\ e \in Nat /\ i \in Nat /\ 1 <= i /\ i <= e + 1 /\ e <= n
          /\ \A k \in (i + 1)..e : TitleGoesOn(b, k)
      BY <1>1, TitleEnds
    <3> HIDE DEF e
    <3>2. Holds(SubSeq(b, i, e), S, A2)
      BY <1>1, <3>1, PartHolds
    <3>3. Len(SubSeq(b, i, e)) # 0 /\ SubSeq(b, i, e)[1] = b[i]
      <4>1. Len(SubSeq(b, i, e)) = e - i + 1 /\ 1 \in 1..(e - i + 1)
        BY <1>1, <3>1, SubSeqProperties
      <4>2. SubSeq(b, i, e)[1] = b[i + 1 - 1] /\ i + 1 - 1 = i
        BY <1>1, <3>1, <4>1, SubSeqProperties
      <4> QED
        BY <3>1, <4>1, <4>2
    <3>4. b[i] \in Fitting(S) /\ b[i] \in Single
      BY Places
    <3>5. /\ b[i].obj = "blank" => A2 = {}
          /\ MayGo(b[i]) => A2 \cap S = {}
          /\ b[i].obj = "picture" => A2 = Contents[b[i]]
      <4>1. CASE e = i
        <5>1. i..i = {i}
          BY <3>1
        <5>2. A2 = Contents[b[i]]
          BY <4>1, <5>1 DEF Across
        <5> QED
          BY <3>4, <5>2, ItemsListed DEF Fitting
      <4>2. CASE e # i
        <5>1. i + 1 \in (i + 1)..e /\ (i + 1) - 1 = i
          BY <3>1, <4>2
        <5>2. b[i].obj = "text" /\ b[i].role = "title"
          BY <3>1, <5>1 DEF TitleGoesOn
        <5> QED
          BY <5>2 DEF Metadata, MayGo
      <4> QED
        BY <4>1, <4>2
    <3> HIDE DEF A2
    <3>6. Holds(<<Joined(SubSeq(b, i, e))>>, S, A2)
      BY <3>2, <3>3, <3>5, JoinedFits
    <3> QED
      BY <2>2, <3>6 DEF A2, e
  <2> QED
    BY <2>1, <2>2
<1>5. ASSUME NEW i \in 1..n, NEW j \in 1..n, i # j PROVE B[i] \cap B[j] = {}
  <2>1. CASE TitleGoesOn(b, i) \/ TitleGoesOn(b, j)
    BY <2>1
  <2>2. CASE ~TitleGoesOn(b, i) /\ ~TitleGoesOn(b, j)
    <3>1. (i..TitleEnd(b, i)) \cap (j..TitleEnd(b, j)) = {}
      BY <1>1, <1>5, <2>2, TitleRuns
    <3>2. i..TitleEnd(b, i) \in SUBSET (1..n) /\ j..TitleEnd(b, j) \in SUBSET (1..n)
      BY <1>3
    <3> QED
      BY <2>2, <3>1, <3>2, PartHolds
  <2> QED
    BY <2>1, <2>2
<1>6. Altogether(B, n) = A
  <2>1. \A i \in 1..n : B[i] \subseteq A
    <3>1. \A i \in 1..n : i..TitleEnd(b, i) \subseteq 1..n
      BY <1>3
    <3> QED
      BY <1>1, <3>1, AcrossPlaces
  <2>2. ASSUME NEW k \in 1..n PROVE \E i \in 1..n : Contents[b[k]] \subseteq B[i]
    <3>1. PICK i \in 1..n : ~TitleGoesOn(b, i) /\ k \in i..TitleEnd(b, i)
      BY <1>1, TitleRuns
    <3>2. Contents[b[k]] \subseteq Across(b, Contents, i..TitleEnd(b, i))
      BY <3>1 DEF Across
    <3> QED
      BY <3>1, <3>2
  <2> HIDE DEF B
  <2> QED
    BY <1>1, <2>1, <2>2 DEF Altogether, Across
<1>7. DOMAIN ss = 1..n /\ ss = [i \in 1..n |-> ss[i]]
  OBVIOUS
<1> HIDE DEF n, ss, B
<1>8. Holds(FlattenSeq(ss), S, Altogether(B, n))
  BY <1>1, <1>4, <1>5, <1>7, FlattenHolds
<1> QED
  BY <1>2, <1>6, <1>8

Numbered == [x \in Nat |-> {x}]

\* What elements hold that hold themselves.
LEMMA Singletons ==
    ASSUME NEW T, NEW v, NEW P, \A i \in T : P[v[i]] = {v[i]}
    PROVE  Across(v, P, T) = {v[i] : i \in T}
BY DEF Across

\* The first place of T with the value of a place of T.
LEMMA FirstWith ==
    ASSUME NEW T \in SUBSET Nat, NEW v, NEW i \in T
    PROVE  \E j \in T : v[j] = v[i] /\ \A k \in T : k < j => v[k] # v[i]
<1> DEFINE same == {j \in T : v[j] = v[i]}
<1>1. i \in same /\ same \in SUBSET Nat
  OBVIOUS
<1>2. \A j : j \in same <=> j \in T /\ v[j] = v[i]
  OBVIOUS
<1> HIDE DEF same
<1>3. PICK j \in same : \A k \in same : j <= k
  BY <1>1, NatMin
<1>4. j \in T /\ v[j] = v[i]
  BY <1>2
<1>5. ASSUME NEW k \in T, k < j PROVE v[k] # v[i]
  <2>1. k \in Nat /\ j \in Nat /\ ~(j <= k)
    BY <1>4, <1>5
  <2> QED
    BY <1>2, <1>3, <2>1
<1> QED
  BY <1>4, <1>5

\* A place that is selected is one of those asked for.
LEMMA SelectedPlace ==
    ASSUME NEW n \in Nat, NEW I \in SUBSET (1..n)
    PROVE  /\ (IF I # {} THEN Min(I) ELSE 0) \in 0..n
           /\ (IF I # {} THEN Min(I) ELSE 0) # 0 => Min(I) \in I
<1>1. I \in SUBSET Nat
  OBVIOUS
<1>2. I # {} => Min(I) \in I
  BY <1>1, MinOf
<1>3. 0 \in 0..n /\ \A x \in I : x \in 0..n
  OBVIOUS
<1>4. CASE I = {}
  BY <1>3, <1>4
<1>5. CASE I # {}
  BY <1>2, <1>3, <1>5
<1> QED
  BY <1>4, <1>5

\* The groups in their order: each of them once.
LEMMA GroupOrderListed ==
    ASSUME NEW f \in Seq(Node), NEW T \in SUBSET (1..Len(f)), template \in Profile
    PROVE  Tidy(GroupOrder(f, T), Nat, Numbered, {f[i].group : i \in T})
<1> DEFINE n == Len(f)
           L == Len(template.languages)
           groups == [i \in DOMAIN f |-> f[i].group]
           begins == {i \in T : \A j \in T : j < i => f[j].group # f[i].group}
           titles(g) == {i \in T : f[i].group = g /\ f[i].role = "title"}
           rank(g) == IF titles(g) = {} THEN 0
                      ELSE SelectInSeq(template.languages, LAMBDA l : l = f[Min(titles(g))].lang)
           idx(r) == {i \in begins : rank(f[i].group) = r}
           ranked(r) == Picked(groups, idx(r))
           ss == [r \in 1..L |-> ranked(r)]
           B == [r \in 1..L |-> Across(groups, Numbered, idx(r))]
<1>0. \A v : \A i \in T : \E j \in T : v[j] = v[i] /\ \A k \in T : k < j => v[k] # v[i]
  <2>1. T \in SUBSET Nat
    OBVIOUS
  <2> QED
    BY <2>1, FirstWith
<1>1. GroupOrder(f, T) = FlattenSeq(ss) \o ranked(0)
  BY DEF GroupOrder
<1>2. L \in Nat /\ n \in Nat /\ DOMAIN f = 1..n
  <2>1. template.languages \in Seq(Language)
    BY DEF Profile
  <2> QED
    BY <2>1
<1>3. \A i \in 1..n : f[i].group \in Nat
  <2>1. \A i \in 1..n : f[i] \in Node
    OBVIOUS
  <2>2. \A x \in Node : x.group \in Nat
    BY DEF Node
  <2> QED
    BY <2>1, <2>2
<1>4. /\ groups \in Seq(Nat) /\ Len(groups) = n
      /\ \A i \in 1..n : groups[i] = f[i].group /\ Numbered[groups[i]] = {f[i].group}
  BY <1>2, <1>3 DEF Numbered
<1>5. \A g : rank(g) \in 0..L
  <2> SUFFICES ASSUME NEW g PROVE rank(g) \in 0..L
    OBVIOUS
  <2>1. CASE titles(g) = {}
    BY <1>2, <2>1
  <2>2. CASE titles(g) # {}
    <3> DEFINE I == {k \in 1..L : template.languages[k] = f[Min(titles(g))].lang}
    <3>1. rank(g) = IF I # {} THEN Min(I) ELSE 0
      BY <2>2 DEF SelectInSeq
    <3>2. I \in SUBSET (1..L)
      OBVIOUS
    <3> HIDE DEF I, L
    <3> QED
      BY <1>2, <3>1, <3>2, SelectedPlace
  <2> QED
    BY <2>1, <2>2
<1> HIDE DEF rank
<1>6. begins \in SUBSET (1..n) /\ \A r : idx(r) \subseteq begins
  OBVIOUS
<1>7. \A i, j \in begins : f[i].group = f[j].group => i = j
  <2>1. \A i, j \in begins : i \in Nat /\ j \in Nat /\ (i < j \/ j < i \/ i = j)
    BY <1>6
  <2> QED
    BY <2>1
<1>8. \A i \in begins : i \in idx(rank(f[i].group)) /\ rank(f[i].group) \in 0..L
  BY <1>5
<1>9. \A r, q : r # q => idx(r) \cap idx(q) = {}
  OBVIOUS
<1>10. UNION {Across(groups, Numbered, idx(r)) : r \in 0..L} = {f[i].group : i \in T}
  <2>1. \A r : Across(groups, Numbered, idx(r)) = {groups[i] : i \in idx(r)}
    <3> SUFFICES ASSUME NEW r
                 PROVE  Across(groups, Numbered, idx(r)) = {groups[i] : i \in idx(r)}
      OBVIOUS
    <3>1. \A i \in idx(r) : Numbered[groups[i]] = {groups[i]}
      BY <1>4, <1>6
    <3> HIDE DEF groups, idx
    <3> QED
      BY <3>1, Singletons
  <2>2. ASSUME NEW i \in T
        PROVE  \E j \in begins : groups[j] = groups[i]
    <3>1. \A j \in T : groups[j] = f[j].group
      BY <1>4
    <3> HIDE DEF groups
    <3>2. \E j \in T : groups[j] = groups[i] /\ \A k \in T : k < j => groups[k] # groups[i]
      BY <1>0
    <3>3. PICK j \in T : groups[j] = groups[i] /\ \A k \in T : k < j => groups[k] # groups[i]
      BY <3>2
    <3>4. f[j].group = f[i].group /\ \A k \in T : k < j => f[k].group # f[j].group
      BY <3>1, <3>3
    <3> QED
      BY <3>3, <3>4
  <2>3. begins \subseteq T
    OBVIOUS
  <2>4. {f[i].group : i \in T} = {groups[i] : i \in T}
    BY <1>4
  <2>5. begins = UNION {idx(r) : r \in 0..L}
    BY <1>6, <1>8
  <2> HIDE DEF begins, groups, idx
  <2>6. {groups[i] : i \in T} = {groups[i] : i \in begins}
    BY <2>2, <2>3
  <2>7. UNION {{groups[i] : i \in idx(r)} : r \in 0..L} = {groups[i] : i \in UNION {idx(r) : r \in 0..L}}
    OBVIOUS
  <2> QED
    BY <2>1, <2>4, <2>5, <2>6, <2>7
<1> HIDE DEF begins, groups, idx, n, L
<1>11. Apartness(groups, Numbered, begins)
  BY <1>4, <1>6, <1>7 DEF Apartness
<1>12. \A r : /\ idx(r) \in SUBSET (1..n) /\ Apartness(groups, Numbered, idx(r))
              /\ Tidy(ranked(r), Nat, Numbered, Across(groups, Numbered, idx(r)))
  <2> SUFFICES ASSUME NEW r
               PROVE  /\ idx(r) \in SUBSET (1..n) /\ Apartness(groups, Numbered, idx(r))
                      /\ Tidy(ranked(r), Nat, Numbered, Across(groups, Numbered, idx(r)))
    OBVIOUS
  <2>1. idx(r) \in SUBSET (1..n)
    BY <1>6
  <2>2. Apartness(groups, Numbered, idx(r))
    BY <1>6, <1>11, AcrossPlaces
  <2> QED
    BY <1>4, <2>1, <2>2, TidyPicked
<1>13. \A r, q : r # q => Across(groups, Numbered, idx(r)) \cap Across(groups, Numbered, idx(q)) = {}
  <2> SUFFICES ASSUME NEW r, NEW q, r # q
               PROVE  Across(groups, Numbered, idx(r)) \cap Across(groups, Numbered, idx(q)) = {}
    OBVIOUS
  <2>1. Apartness(groups, Numbered, idx(r) \cup idx(q))
    BY <1>6, <1>11, AcrossPlaces
  <2> QED
    BY <1>9, <2>1, AcrossPlaces
<1>14. /\ \A r \in 1..L : Tidy(ss[r], Nat, Numbered, B[r])
       /\ \A r, q \in 1..L : r # q => B[r] \cap B[q] = {}
       /\ DOMAIN ss = 1..L /\ ss = [r \in 1..L |-> ss[r]]
  BY <1>12, <1>13
<1>15. Altogether(B, L) \cap Across(groups, Numbered, idx(0)) = {}
  <2>1. \A r \in 1..L : r # 0
    BY <1>2
  <2> QED
    BY <1>13, <2>1 DEF Altogether
<1>16. Altogether(B, L) \cup Across(groups, Numbered, idx(0)) = {f[i].group : i \in T}
  <2>1. 0..L = (1..L) \cup {0}
    BY <1>2
  <2>2. Altogether(B, L) = UNION {Across(groups, Numbered, idx(r)) : r \in 1..L}
    BY DEF Altogether
  <2> QED
    BY <1>10, <2>1, <2>2
<1> HIDE DEF ss, B
<1>17. Tidy(FlattenSeq(ss), Nat, Numbered, Altogether(B, L))
  BY <1>2, <1>14, TidyFlatten
<1>18. Tidy(ranked(0), Nat, Numbered, Across(groups, Numbered, idx(0)))
  BY <1>12
<1> HIDE DEF ranked
<1>19. Tidy(FlattenSeq(ss) \o ranked(0), Nat, Numbered, {f[i].group : i \in T})
  BY <1>15, <1>16, <1>17, <1>18, TidyConcat
<1> QED
  BY <1>1, <1>19

\* What the parts hold is what stands at the places T.
LEMMA Covers ==
    ASSUME NEW n, NEW B, NEW b, NEW P, NEW T,
           \A k \in 1..n : \A x \in B[k] : \E i \in T : x \in P[b[i]],
           \A i \in T : \E k \in 1..n : P[b[i]] \subseteq B[k]
    PROVE  Altogether(B, n) = Across(b, P, T)
<1>1. \A x \in Altogether(B, n) : x \in Across(b, P, T)
  BY DEF Altogether, Across
<1>2. \A x \in Across(b, P, T) : x \in Altogether(B, n)
  BY DEF Altogether, Across
<1> QED
  BY <1>1, <1>2

\* The elements picked are those at the places.
LEMMA PickedFrom ==
    ASSUME NEW b, NEW S, NEW A, Holds(b, S, A), NEW T \in SUBSET (1..Len(b))
    PROVE  Picked(b, T) \in Seq({b[i] : i \in T})
<1>1. b \in Seq(Fitting(S)) /\ Apartness(b, Contents, 1..Len(b))
  BY Places
<1>2. Apartness(b, Contents, T)
  BY <1>1 DEF Apartness
<1> QED
  BY <1>1, <1>2, TidyPicked

\* The paragraphs of one role, merged where the template merges them.
LEMMA PlacedHolds ==
    ASSUME NEW f, NEW S, NEW A, Holds(f, S, A), NEW T \in SUBSET (1..Len(f)),
           \A i \in T : f[i].obj = "text", NEW r
    PROVE  Holds(Placed(f, T, r), S, Across(f, Contents, {i \in T : f[i].role = r}))
<1> DEFINE idx == {i \in T : f[i].role = r}
           A2 == Across(f, Contents, idx)
           s == OfRole(f, T, r)
<1>1. idx \in SUBSET (1..Len(f)) /\ s = Picked(f, idx)
  BY DEF OfRole
<1>2. \A i \in idx : f[i].obj = "text" /\ f[i].role = r /\ f[i] \in Fitting(S)
  BY Places
<1>3. r \in Metadata => A2 \cap S = {}
  <2>1. r \in Metadata => \A i \in idx : Contents[f[i]] \cap S = {}
    BY <1>2 DEF Fitting, MayGo
  <2> HIDE DEF idx
  <2> QED
    BY <2>1 DEF Across
<1> HIDE DEF idx
<1>4. Holds(s, S, A2) /\ s \in Seq({f[i] : i \in idx})
  BY <1>1, PartHolds, PickedFrom
<1> HIDE DEF s
<1>5. Placed(f, T, r) = IF r \in template.merges /\ Len(s) > 1 THEN <<Joined(s)>> ELSE s
  BY DEF Placed, s
<1>6. CASE r \in template.merges /\ Len(s) > 1
  <2>1. Len(s) # 0 /\ s[1] \in {f[i] : i \in idx}
    BY <1>4, <1>6
  <2>2. s[1].obj = "text" /\ s[1].role = r
    BY <1>2, <2>1
  <2> HIDE DEF A2
  <2>3. Holds(<<Joined(s)>>, S, A2)
    BY <1>3, <1>4, <2>1, <2>2, JoinedFits DEF MayGo
  <2> QED
    BY <1>5, <1>6, <2>3 DEF A2, idx
<1>7. CASE ~(r \in template.merges /\ Len(s) > 1)
  BY <1>4, <1>5, <1>7 DEF idx
<1> QED
  BY <1>6, <1>7

\* The roles of the template, each placed once.
LEMMA KnownRolesHold ==
    ASSUME NEW f, NEW S, NEW A, Holds(f, S, A), NEW T \in SUBSET (1..Len(f)),
           \A i \in T : f[i].obj = "text", template \in Profile
    PROVE  Holds(KnownRoles(f, T), S,
                 Across(f, Contents, {i \in T : Contains(template.roles, f[i].role)}))
<1> DEFINE known == template.roles
           n == Len(known)
           again(k) == \E l \in 1 .. (k - 1) : known[l] = known[k]
           idx(r) == {i \in T : f[i].role = r}
           ss == [k \in 1..n |-> IF again(k) THEN << >> ELSE Placed(f, T, known[k])]
           B == [k \in 1..n |-> IF again(k) THEN {} ELSE Across(f, Contents, idx(known[k]))]
<1>1. n \in Nat /\ DOMAIN known = 1..n
  <2>1. known \in Seq(Role)
    BY DEF Profile
  <2> QED
    BY <2>1
<1>2. KnownRoles(f, T) = FlattenSeq(ss)
  BY <1>1 DEF KnownRoles
<1>3. \A k \in 1..n : Holds(ss[k], S, B[k])
  <2> SUFFICES ASSUME NEW k \in 1..n PROVE Holds(ss[k], S, B[k])
    OBVIOUS
  <2>1. Holds(<< >>, S, {})
    BY TidyNone DEF Holds
  <2>2. Holds(Placed(f, T, known[k]), S, Across(f, Contents, idx(known[k])))
    BY PlacedHolds
  <2> QED
    BY <2>1, <2>2
<1>4. ASSUME NEW k \in 1..n, NEW l \in 1..n, k # l PROVE B[k] \cap B[l] = {}
  <2>1. CASE again(k) \/ again(l)
    BY <2>1
  <2>2. CASE ~again(k) /\ ~again(l)
    <3>1. k \in 1..(l - 1) \/ l \in 1..(k - 1)
      BY <1>1, <1>4
    <3>2. known[k] # known[l]
      BY <2>2, <3>1
    <3>3. /\ idx(known[k]) \in SUBSET (1..Len(f)) /\ idx(known[l]) \in SUBSET (1..Len(f))
          /\ idx(known[k]) \cap idx(known[l]) = {}
      BY <3>2
    <3> HIDE DEF idx
    <3>4. Across(f, Contents, idx(known[k])) \cap Across(f, Contents, idx(known[l])) = {}
      BY <3>3, PartHolds
    <3> QED
      BY <2>2, <3>4
  <2> QED
    BY <2>1, <2>2
<1>5. Altogether(B, n) = Across(f, Contents, {i \in T : Contains(known, f[i].role)})
  <2>1. \A k \in 1..n : \A i \in idx(known[k]) : i \in T /\ Contains(known, f[i].role)
    BY DEF Contains
  <2>2. ASSUME NEW i \in T, Contains(known, f[i].role)
        PROVE  \E k \in 1..n : ~again(k) /\ i \in idx(known[k])
    <3>1. PICK q \in 1..n : known[q] = f[i].role
      BY <2>2 DEF Contains
    <3>2. \A v : \A i2 \in 1..n :
             \E j \in 1..n : v[j] = v[i2] /\ \A k \in 1..n : k < j => v[k] # v[i2]
      <4>1. 1..n \in SUBSET Nat
        BY <1>1
      <4> QED
        BY <4>1, FirstWith
    <3>3. PICK k \in 1..n : known[k] = known[q] /\ \A l \in 1..n : l < k => known[l] # known[q]
      BY <3>2
    <3>4. \A l \in 1..(k - 1) : l \in 1..n /\ l < k
      BY <1>1
    <3> QED
      BY <3>1, <3>3, <3>4
  <2>3. \A k \in 1..n : B[k] = IF again(k) THEN {} ELSE Across(f, Contents, idx(known[k]))
    OBVIOUS
  <2>4. ASSUME NEW k \in 1..n
        PROVE  \A x \in B[k] : \E i \in T : Contains(known, f[i].role) /\ x \in Contents[f[i]]
    <3>1. B[k] \subseteq UNION {Contents[f[i]] : i \in idx(known[k])}
      BY DEF Across
    <3>2. \A i \in idx(known[k]) : i \in T /\ Contains(known, f[i].role)
      BY <2>1
    <3> HIDE DEF again, idx, B
    <3> QED
      BY <3>1, <3>2
  <2>5. ASSUME NEW i \in T, Contains(known, f[i].role)
        PROVE  \E k \in 1..n : Contents[f[i]] \subseteq B[k]
    <3>1. PICK k \in 1..n : ~again(k) /\ i \in idx(known[k])
      BY <2>2, <2>5
    <3> HIDE DEF again, idx, B
    <3> QED
      BY <2>3, <3>1 DEF Across
  <2> HIDE DEF B
  <2> QED
    <3> DEFINE T2 == {i \in T : Contains(known, f[i].role)}
    <3>1. T2 \subseteq T /\ \A i \in T : i \in T2 <=> Contains(known, f[i].role)
      OBVIOUS
    <3> HIDE DEF T2
    <3>2. \A k \in 1..n : \A x \in B[k] : \E i \in T2 : x \in Contents[f[i]]
      BY <2>4, <3>1
    <3>3. \A i \in T2 : \E k \in 1..n : Contents[f[i]] \subseteq B[k]
      BY <2>5, <3>1
    <3>4. Altogether(B, n) = Across(f, Contents, T2)
      BY <3>2, <3>3, Covers, SMTT(30)
    <3> QED
      BY <3>4 DEF T2
<1>6. DOMAIN ss = 1..n /\ ss = [k \in 1..n |-> ss[k]]
  OBVIOUS
<1> HIDE DEF n, ss, B
<1>7. Holds(FlattenSeq(ss), S, Altogether(B, n))
  BY <1>1, <1>3, <1>4, <1>6, FlattenHolds
<1> QED
  BY <1>2, <1>5, <1>7

\* The other roles, each placed once.
LEMMA OtherRolesHold ==
    ASSUME NEW f, NEW S, NEW A, Holds(f, S, A), NEW T \in SUBSET (1..Len(f)),
           \A i \in T : f[i].obj = "text"
    PROVE  Holds(OtherRoles(f, T), S,
                 Across(f, Contents, {i \in T : ~Contains(template.roles, f[i].role)}))
<1> DEFINE n == Len(f)
           other(i) == ~Contains(template.roles, f[i].role)
           T2 == {i \in T : other(i)}
           begins(i) == /\ i \in T /\ ~Contains(template.roles, f[i].role)
                        /\ \A j \in T : j < i => f[j].role # f[i].role
           idx(r) == {i \in T : f[i].role = r}
           ss == [i \in 1..n |-> IF begins(i) THEN OfRole(f, T, f[i].role) ELSE << >>]
           B == [i \in 1..n |-> IF begins(i) THEN Across(f, Contents, idx(f[i].role)) ELSE {}]
<1>1. n \in Nat /\ DOMAIN f = 1..n
  BY Places
<1>2. OtherRoles(f, T) = FlattenSeq(ss)
  BY <1>1 DEF OtherRoles
<1>3. \A i \in 1..n : Holds(ss[i], S, B[i])
  <2> SUFFICES ASSUME NEW i \in 1..n PROVE Holds(ss[i], S, B[i])
    OBVIOUS
  <2>1. Holds(<< >>, S, {})
    BY TidyNone DEF Holds
  <2>2. idx(f[i].role) \in SUBSET (1..n) /\ OfRole(f, T, f[i].role) = Picked(f, idx(f[i].role))
    BY DEF OfRole
  <2>3. Holds(OfRole(f, T, f[i].role), S, Across(f, Contents, idx(f[i].role)))
    BY <2>2, PartHolds
  <2> QED
    BY <2>1, <2>3
<1>4. ASSUME NEW i \in 1..n, NEW j \in 1..n, i # j PROVE B[i] \cap B[j] = {}
  <2>1. CASE ~begins(i) \/ ~begins(j)
    BY <2>1
  <2>2. CASE begins(i) /\ begins(j)
    <3>1. i < j \/ j < i
      BY <1>4
    <3>2. f[i].role # f[j].role
      BY <2>2, <3>1
    <3>3. /\ idx(f[i].role) \in SUBSET (1..Len(f)) /\ idx(f[j].role) \in SUBSET (1..Len(f))
          /\ idx(f[i].role) \cap idx(f[j].role) = {}
      BY <3>2
    <3> HIDE DEF idx, begins
    <3>4. Across(f, Contents, idx(f[i].role)) \cap Across(f, Contents, idx(f[j].role)) = {}
      BY <3>3, PartHolds
    <3> QED
      BY <2>2, <3>4
  <2> QED
    BY <2>1, <2>2
<1>5. Altogether(B, n) = Across(f, Contents, {i \in T : other(i)})
  <2>1. \A i \in 1..n : begins(i) => \A j \in idx(f[i].role) : j \in T /\ other(j)
    OBVIOUS
  <2>2. ASSUME NEW i \in T, other(i)
        PROVE  \E k \in 1..n : begins(k) /\ i \in idx(f[k].role)
    <3> DEFINE role == [k \in 1..n |-> f[k].role]
    <3>1. T \in SUBSET Nat /\ \A k \in T : role[k] = f[k].role
      OBVIOUS
    <3>2. \A v : \A i2 \in T :
             \E j \in T : v[j] = v[i2] /\ \A k \in T : k < j => v[k] # v[i2]
      <4>1. T \in SUBSET Nat
        BY <3>1
      <4> QED
        BY <4>1, FirstWith
    <3> HIDE DEF role
    <3>3. PICK k \in T : role[k] = role[i] /\ \A l \in T : l < k => role[l] # role[i]
      BY <3>2
    <3>4. f[k].role = f[i].role /\ \A l \in T : l < k => f[l].role # f[k].role
      BY <3>1, <3>3
    <3>5. begins(k)
      BY <2>2, <3>4
    <3> QED
      BY <3>4, <3>5
  <2>3. \A i \in 1..n : B[i] = IF begins(i) THEN Across(f, Contents, idx(f[i].role)) ELSE {}
    OBVIOUS
  <2>4. ASSUME NEW k \in 1..n
        PROVE  \A x \in B[k] : \E i \in T : other(i) /\ x \in Contents[f[i]]
    <3>1. B[k] \subseteq UNION {Contents[f[i]] : i \in idx(f[k].role)}
      BY DEF Across
    <3>2. B[k] # {} => \A i \in idx(f[k].role) : i \in T /\ other(i)
      BY <2>1
    <3> HIDE DEF begins, idx, other, B
    <3> QED
      BY <3>1, <3>2
  <2>5. ASSUME NEW i \in T, other(i)
        PROVE  \E k \in 1..n : Contents[f[i]] \subseteq B[k]
    <3>1. PICK k \in 1..n : begins(k) /\ i \in idx(f[k].role)
      BY <2>2, <2>5
    <3>2. B[k] = Across(f, Contents, idx(f[k].role))
      BY <3>1
    <3> HIDE DEF begins, idx, other, B
    <3> QED
      BY <3>1, <3>2 DEF Across
  <2>6. T2 \subseteq T /\ \A i \in T : i \in T2 <=> other(i)
    OBVIOUS
  <2> HIDE DEF B, T2, other
  <2>7. \A k \in 1..n : \A x \in B[k] : \E i \in T2 : x \in Contents[f[i]]
    BY <2>4, <2>6
  <2>8. \A i \in T2 : \E k \in 1..n : Contents[f[i]] \subseteq B[k]
    BY <2>5, <2>6
  <2>9. Altogether(B, n) = Across(f, Contents, T2)
    BY <2>7, <2>8, Covers
  <2> QED
    BY <2>9 DEF T2
<1>6. DOMAIN ss = 1..n /\ ss = [k \in 1..n |-> ss[k]]
  OBVIOUS
<1> HIDE DEF n, ss, B
<1>7. Holds(FlattenSeq(ss), S, Altogether(B, n))
  BY <1>1, <1>3, <1>4, <1>6, FlattenHolds
<1> QED
  BY <1>2, <1>5, <1>7

\* A group keeps its pieces in the template's order of roles.
LEMMA GroupHolds ==
    ASSUME NEW f, NEW S, NEW A, Holds(f, S, A), NEW T \in SUBSET (1..Len(f)),
           \A i \in T : f[i].obj = "text", template \in Profile
    PROVE  Holds(GroupArranged(f, T), S, Across(f, Contents, T))
<1> DEFINE K == {i \in T : Contains(template.roles, f[i].role)}
           O == {i \in T : ~Contains(template.roles, f[i].role)}
<1>1. /\ K \in SUBSET (1..Len(f)) /\ O \in SUBSET (1..Len(f)) /\ K \cap O = {}
      /\ K \cup O = T
  OBVIOUS
<1>2. Holds(KnownRoles(f, T), S, Across(f, Contents, K))
  BY KnownRolesHold
<1>3. Holds(OtherRoles(f, T), S, Across(f, Contents, O))
  BY OtherRolesHold
<1> HIDE DEF K, O
<1>4. Across(f, Contents, K) \cap Across(f, Contents, O) = {}
  BY <1>1, PartHolds
<1>5. Across(f, Contents, K) \cup Across(f, Contents, O) = Across(f, Contents, T)
  BY <1>1, AcrossPlaces
<1>6. Holds(KnownRoles(f, T) \o OtherRoles(f, T), S, Across(f, Contents, T))
  BY <1>2, <1>3, <1>4, <1>5, ConcatHolds
<1> QED
  BY <1>6 DEF GroupArranged

\* A node without pieces may be appended.
LEMMA AppendHolds ==
    ASSUME NEW b, NEW S, NEW A, Holds(b, S, A), NEW n \in Fitting(S), Contents[n] = {}
    PROVE  Holds(Append(b, n), S, A)
<1>1. b \in Seq(Fitting(S))
  BY Places
<1>2. Append(b, n) = b \o <<n>>
  BY <1>1, AppendIsConcat
<1>3. Holds(<<n>>, S, {})
  BY NodeHolds
<1>4. Holds(b \o <<n>>, S, A \cup {})
  BY <1>3, ConcatHolds
<1> QED
  BY <1>2, <1>4

\* Places that are put one part behind the other.
LEMMA ConcatPlaces ==
    ASSUME NEW f, NEW S, NEW A, Holds(f, S, A), NEW b, NEW c,
           NEW T \in SUBSET (1..Len(f)), NEW U \in SUBSET (1..Len(f)), T \cap U = {},
           Holds(b, S, Across(f, Contents, T)), Holds(c, S, Across(f, Contents, U))
    PROVE  Holds(b \o c, S, Across(f, Contents, T \cup U))
<1>1. Across(f, Contents, T) \cap Across(f, Contents, U) = {}
  BY PartHolds
<1>2. Across(f, Contents, T \cup U) = Across(f, Contents, T) \cup Across(f, Contents, U)
  BY AcrossPlaces
<1>3. Holds(b \o c, S, Across(f, Contents, T) \cup Across(f, Contents, U))
  BY <1>1, ConcatHolds
<1> QED
  BY <1>2, <1>3

\* The groups of a front, with their blank lines.
LEMMA GroupsHold ==
    ASSUME NEW f, NEW S, NEW A, Holds(f, S, A), NEW T \in SUBSET (1..Len(f)),
           \A i \in T : f[i].obj = "text", template \in Profile
    PROVE  Holds(GroupsArranged(f, T), S, Across(f, Contents, T))
<1> DEFINE order == GroupOrder(f, T)
           n == Len(order)
           idx(k) == {i \in T : f[i].group = order[k]}
           group(k) == GroupArranged(f, {i \in T : f[i].group = order[k]})
           ss == [k \in 1..n |-> IF k = n THEN group(k) ELSE Append(group(k), Spacer)]
           B == [k \in 1..n |-> Across(f, Contents, idx(k))]
<1>0. f \in Seq(Node)
  <2>1. Fitting(S) \subseteq Node
    BY DEF Fitting, Single
  <2>2. f \in Seq(Fitting(S))
    BY Places
  <2> QED
    BY <2>1, <2>2
<1>1. Tidy(order, Nat, Numbered, {f[i].group : i \in T})
  BY <1>0, GroupOrderListed
<1>2. GroupsArranged(f, T) = FlattenSeq([k \in DOMAIN order |->
         IF k = Len(order) THEN group(k) ELSE Append(group(k), Spacer)])
  BY DEF GroupsArranged
<1> HIDE DEF order
<1>3. /\ n \in Nat /\ DOMAIN order = 1..n /\ \A k \in 1..n : order[k] \in Nat
      /\ Apartness(order, Numbered, 1..n)
      /\ Across(order, Numbered, 1..n) = {f[i].group : i \in T}
  BY <1>1 DEF Tidy
<1>4. GroupsArranged(f, T) = FlattenSeq(ss)
  BY <1>2, <1>3
<1>5. \A k \in 1..n : Holds(ss[k], S, B[k])
  <2> SUFFICES ASSUME NEW k \in 1..n PROVE Holds(ss[k], S, B[k])
    OBVIOUS
  <2>1. idx(k) \in SUBSET (1..Len(f)) /\ \A i \in idx(k) : f[i].obj = "text"
    OBVIOUS
  <2>2. Holds(group(k), S, Across(f, Contents, idx(k)))
    BY <2>1, GroupHolds
  <2>3. Holds(Append(group(k), Spacer), S, Across(f, Contents, idx(k)))
    <3> HIDE DEF group, idx
    <3> QED
      BY <2>2, SpacerFits, AppendHolds
  <2> QED
    BY <2>2, <2>3
<1>6. ASSUME NEW k \in 1..n, NEW l \in 1..n, k # l PROVE B[k] \cap B[l] = {}
  <2>1. order[k] # order[l]
    BY <1>3, <1>6 DEF Apartness, Numbered
  <2>2. idx(k) \in SUBSET (1..Len(f)) /\ idx(l) \in SUBSET (1..Len(f)) /\ idx(k) \cap idx(l) = {}
    BY <2>1
  <2>3. B[k] = Across(f, Contents, idx(k)) /\ B[l] = Across(f, Contents, idx(l))
    OBVIOUS
  <2> HIDE DEF idx, B
  <2> QED
    BY <2>2, <2>3, PartHolds
<1>7. Altogether(B, n) = Across(f, Contents, T)
  <2>1. \A k \in 1..n : B[k] = UNION {Contents[f[i]] : i \in idx(k)}
    BY DEF Across
  <2>2. \A k \in 1..n : idx(k) \subseteq T
    OBVIOUS
  <2>3. ASSUME NEW i \in T PROVE \E k \in 1..n : i \in idx(k)
    <3>1. f[i].group \in Across(order, Numbered, 1..n)
      BY <1>3
    <3>2. PICK k \in 1..n : f[i].group \in Numbered[order[k]]
      BY <3>1 DEF Across
    <3>3. f[i].group = order[k]
      BY <1>3, <3>2 DEF Numbered
    <3> QED
      BY <3>3
  <2> HIDE DEF B, idx, n
  <2>4. ASSUME NEW k \in 1..n, NEW x \in B[k] PROVE \E i \in T : x \in Contents[f[i]]
    <3>1. PICK i \in idx(k) : x \in Contents[f[i]]
      BY <2>1
    <3> QED
      BY <2>2, <3>1
  <2>5. ASSUME NEW i \in T PROVE \E k \in 1..n : Contents[f[i]] \subseteq B[k]
    BY <2>1, <2>3
  <2>6. /\ \A k \in 1..n : \A x \in B[k] : \E i \in T : x \in Contents[f[i]]
        /\ \A i \in T : \E k \in 1..n : Contents[f[i]] \subseteq B[k]
    BY <2>4, <2>5
  <2>7. \A x \in Altogether(B, n) : x \in Across(f, Contents, T)
    BY <2>6 DEF Altogether, Across
  <2>8. \A x \in Across(f, Contents, T) : x \in Altogether(B, n)
    BY <2>6 DEF Altogether, Across
  <2> QED
    BY <2>7, <2>8
<1>8. DOMAIN ss = 1..n /\ ss = [k \in 1..n |-> ss[k]]
  OBVIOUS
<1> HIDE DEF n, ss, B
<1>9. Holds(FlattenSeq(ss), S, Altogether(B, n))
  BY <1>3, <1>5, <1>6, <1>8, FlattenHolds
<1> QED
  BY <1>4, <1>7, <1>9

\* The arranged front keeps all of it but blank lines and lines of the form.
LEMMA FrontHolds ==
    ASSUME NEW f, NEW S, NEW A, Holds(f, S, A), template \in Profile,
           \A i \in 1..Len(f) : f[i].obj \in {"text", "blank", "anchor"} /\ f[i].zone # "body"
    PROVE  \E K \in SUBSET (1..Len(f)) :
              /\ Holds(FrontArranged(f), S, Across(f, Contents, K))
              /\ \A i \in (1..Len(f)) \ K : Contents[f[i]] \cap S = {}
<1> DEFINE n == Len(f)
           kept == {i \in DOMAIN f : ~Dropped(f[i], f)}
           single == {i \in kept : f[i].group = 0}
           ofRole(r) == {i \in single : f[i].role = r}
           named == {i \in ofRole("editorial_metadata") : f[i].fields # {}}
           other == {i \in ofRole("editorial_metadata") \ named :
                        template.style = "jamt" \/ f[i].label # "rubric"}
           rest == {i \in single : f[i].role \notin Metadata}
           K1 == ofRole("article_type")
           K2 == ofRole("rubric")
           K5 == kept \ single
<1>1. FrontArranged(f) = Picked(f, K1) \o Picked(f, K2) \o Picked(f, other) \o Picked(f, named)
                         \o GroupsArranged(f, K5) \o Picked(f, rest)
  BY DEF FrontArranged
<1>2. DOMAIN f = 1..n
  BY Places
<1>3. /\ K1 \in SUBSET (1..n) /\ K2 \in SUBSET (1..n) /\ other \in SUBSET (1..n)
      /\ named \in SUBSET (1..n) /\ K5 \in SUBSET (1..n) /\ rest \in SUBSET (1..n)
  BY <1>2
<1>4. /\ K1 \cap K2 = {} /\ (K1 \cup K2) \cap other = {}
      /\ (K1 \cup K2 \cup other) \cap named = {}
      /\ (K1 \cup K2 \cup other \cup named) \cap K5 = {}
      /\ (K1 \cup K2 \cup other \cup named \cup K5) \cap rest = {}
  BY DEF Metadata
<1>5. \A i \in K5 : f[i].obj = "text"
  BY <1>2 DEF Dropped
<1>6. \A i \in (1..n) \ (K1 \cup K2 \cup other \cup named \cup K5 \cup rest) :
         Contents[f[i]] \cap S = {}
  <2> SUFFICES ASSUME NEW i \in 1..n,
                      i \notin K1 \cup K2 \cup other \cup named \cup K5 \cup rest
               PROVE  Contents[f[i]] \cap S = {}
    OBVIOUS
  <2>1. f[i] \in Fitting(S) /\ f[i] \in Single
    BY Places
  <2>2. f[i].obj = "blank" \/ MayGo(f[i])
    BY <1>2 DEF Dropped, Metadata, MayGo
  <2> QED
    BY <2>1, <2>2, ItemsListed DEF Fitting
<1> HIDE DEF kept, single, ofRole, named, other, rest, K1, K2, K5
<1>7. \A T \in SUBSET (1..n) : Holds(Picked(f, T), S, Across(f, Contents, T))
  BY PartHolds
<1>8. Holds(GroupsArranged(f, K5), S, Across(f, Contents, K5))
  BY <1>3, <1>5, GroupsHold
<1> HIDE DEF n
<1>9. ASSUME NEW b, NEW c, NEW T \in SUBSET (1..n), NEW U \in SUBSET (1..n), T \cap U = {},
             Holds(b, S, Across(f, Contents, T)), Holds(c, S, Across(f, Contents, U))
      PROVE  Holds(b \o c, S, Across(f, Contents, T \cup U))
  BY <1>9, ConcatPlaces DEF n
<1>10. Holds(Picked(f, K1) \o Picked(f, K2), S, Across(f, Contents, K1 \cup K2))
  BY <1>3, <1>4, <1>7, <1>9
<1>11. Holds(Picked(f, K1) \o Picked(f, K2) \o Picked(f, other), S,
             Across(f, Contents, K1 \cup K2 \cup other))
  BY <1>3, <1>4, <1>7, <1>9, <1>10
<1>12. Holds(Picked(f, K1) \o Picked(f, K2) \o Picked(f, other) \o Picked(f, named), S,
             Across(f, Contents, K1 \cup K2 \cup other \cup named))
  BY <1>3, <1>4, <1>7, <1>9, <1>11
<1>13. Holds(Picked(f, K1) \o Picked(f, K2) \o Picked(f, other) \o Picked(f, named)
             \o GroupsArranged(f, K5), S,
             Across(f, Contents, K1 \cup K2 \cup other \cup named \cup K5))
  BY <1>3, <1>4, <1>8, <1>9, <1>12
<1>15. Holds(Picked(f, K1) \o Picked(f, K2) \o Picked(f, other) \o Picked(f, named)
             \o GroupsArranged(f, K5) \o Picked(f, rest), S,
             Across(f, Contents, K1 \cup K2 \cup other \cup named \cup K5 \cup rest))
  BY <1>3, <1>4, <1>7, <1>9, <1>13
<1>14. Holds(FrontArranged(f), S,
             Across(f, Contents, K1 \cup K2 \cup other \cup named \cup K5 \cup rest))
  BY <1>1, <1>15
<1> QED
  BY <1>3, <1>6, <1>14 DEF n

\* b keeps the pieces S of A.
Retains(b, S, A) == \E B \in SUBSET A : Holds(b, S, B) /\ S \cap A \subseteq B

\* The first place asked for; 0 if there is none.
LEMMA SelectedIn ==
    ASSUME NEW n \in Nat, NEW I \in SUBSET (1..n), NEW s,
           s = IF I # {} THEN Min(I) ELSE 0
    PROVE  s \in 0..n /\ (s # 0 => s \in I) /\ \A i \in 1..n : i < s => i \notin I
<1>1. I \in SUBSET Nat
  OBVIOUS
<1>2. CASE I # {}
  <2>1. Min(I) \in I /\ \A y \in I : Min(I) <= y
    BY <1>1, <1>2, MinOf
  <2>2. s = Min(I)
    BY <1>2
  <2>3. s \in I /\ s \in 1..n /\ \A y \in I : s <= y
    BY <2>1, <2>2
  <2> QED
    BY <2>3
<1>3. CASE I = {}
  BY <1>3
<1> QED
  BY <1>2, <1>3

\* A line of a form that is written anew is the journal's.
LEMMA TypesHold ==
    ASSUME NEW f, NEW S, NEW A, Holds(f, S, A)
    PROVE  /\ \E B \in SUBSET A : Holds(TypesRewritten(f), S, B) /\ S \cap A \subseteq B
           /\ Len(TypesRewritten(f)) = Len(f)
           /\ \A i \in 1..Len(f) : /\ TypesRewritten(f)[i].obj = f[i].obj
                                    /\ TypesRewritten(f)[i].zone = f[i].zone
<1> DEFINE n == Len(f)
           g == TypesRewritten(f)
           B == Across(g, Contents, 1..n)
           new(i) == /\ f[i].role = "article_type" /\ f[i].group = 0 /\ f[i].label = "form"
                     /\ template.style = ""
<1>1. /\ n \in Nat /\ DOMAIN f = 1..n /\ Apartness(f, Contents, 1..n)
      /\ Across(f, Contents, 1..n) = A
      /\ \A i \in 1..n : f[i] \in Fitting(S) /\ f[i] \in Single /\ f[i] \in Node
  BY Places
<1>2. /\ DOMAIN g = 1..n /\ g = [i \in 1..n |-> g[i]]
      /\ \A i \in 1..n : g[i] = IF new(i) THEN [f[i] EXCEPT !.items = << >>] ELSE f[i]
  BY <1>1 DEF TypesRewritten
<1> HIDE DEF g, n
<1>3. ASSUME NEW i \in 1..n
      PROVE  /\ g[i] \in Fitting(S) /\ g[i].obj = f[i].obj /\ g[i].zone = f[i].zone
             /\ Contents[g[i]] \subseteq Contents[f[i]]
             /\ Contents[f[i]] \cap S \subseteq Contents[g[i]]
  <2>1. CASE new(i)
    <3> DEFINE x == f[i]
               y == [x EXCEPT !.items = << >>]
    <3>1. x \in Node /\ x \in Fitting(S) /\ x \in Single /\ x.role = "article_type"
      BY <1>1, <2>1
    <3>2. g[i] = y
      BY <1>2, <2>1
    <3> HIDE DEF x
    <3>3. << >> \in Seq(Piece)
      OBVIOUS
    <3>4. /\ y \in Node /\ y.items = << >> /\ y.obj = x.obj /\ y.role = x.role
          /\ y.zone = x.zone
      BY <3>1, <3>3, WithItems
    <3> HIDE DEF y
    <3>5. y \in Single /\ Contents[y] = {}
      BY <3>4, ListsSingle, TidyNone DEF Lists
    <3>6. x.obj # "picture" /\ Contents[x] \cap S = {}
      BY <3>1 DEF Fitting, MayGo, Metadata
    <3>7. y \in Fitting(S)
      BY <3>4, <3>5, <3>6, Fits
    <3> QED
      BY <3>2, <3>4, <3>5, <3>6, <3>7 DEF x
  <2>2. CASE ~new(i)
    BY <1>1, <1>2, <2>2
  <2> QED
    BY <2>1, <2>2
<1>4. g \in Seq(Fitting(S)) /\ Len(g) = n
  <2>1. g \in [1..n -> Fitting(S)]
    BY <1>2, <1>3
  <2> QED
    BY <1>1, <2>1, SeqDef DEF n
<1>5. Apartness(g, Contents, 1..n)
  BY <1>1, <1>3 DEF Apartness
<1>6. Holds(g, S, B)
  BY <1>4, <1>5 DEF Holds, Tidy
<1>7. B \in SUBSET A /\ S \cap A \subseteq B
  BY <1>1, <1>3 DEF Across
<1> QED
  BY <1>3, <1>4, <1>6, <1>7 DEF g, n

\* The front is put in order; only the journal's lines may go, and bookmarks
\* without text.
LEMMA FrontMatterHolds ==
    ASSUME NEW b, NEW S, NEW A, Holds(b, S, A), template \in Profile
    PROVE  Retains(NormaliseFront(b), S, A)
<1> DEFINE m == TitlesMerged(b)
           n == Len(m)
           s == BodyStart(m)
           f == SubSeq(m, 1, s - 1)
           g == TypesRewritten(f)
<1>1. Holds(m, S, A)
  BY TitlesHold
<1>2. NormaliseFront(b) = IF s > 0 /\ MaySort(f) THEN FrontArranged(g) \o SubSeq(m, s, Len(m)) ELSE m
  BY DEF NormaliseFront
<1> HIDE DEF m
<1>3. n \in Nat /\ Across(m, Contents, 1..n) = A
  BY <1>1, Places
<1>4. s \in 0..n /\ \A i \in 1..n : i < s => m[i].zone # "body"
  <2> DEFINE I == {i \in 1..n : m[i].zone = "body"}
  <2>1. s = IF I # {} THEN Min(I) ELSE 0
    BY DEF BodyStart, SelectInSeq
  <2>2. I \in SUBSET (1..n) /\ \A i \in 1..n : i \in I <=> m[i].zone = "body"
    OBVIOUS
  <2> HIDE DEF I, s, n
  <2> QED
    BY <1>3, <2>1, <2>2, SelectedIn
<1> HIDE DEF s
<1>5. CASE s > 0 /\ MaySort(f)
  <2>1. s \in Nat /\ s - 1 \in Nat /\ 1 <= s /\ s <= n /\ s <= n + 1 /\ s - 1 <= n /\ 1 <= (s - 1) + 1
    BY <1>3, <1>4, <1>5
  <2> DEFINE AF == Across(m, Contents, 1..(s - 1))
             AB == Across(m, Contents, s..n)
  <2>2. Holds(f, S, AF) /\ Holds(SubSeq(m, s, n), S, AB)
    BY <1>1, <1>3, <2>1, PartHolds
  <2>3. AF \cap AB = {} /\ AF \cup AB = A
    <3>1. /\ 1..(s - 1) \in SUBSET (1..n) /\ s..n \in SUBSET (1..n)
          /\ (1..(s - 1)) \cap (s..n) = {} /\ (1..(s - 1)) \cup (s..n) = 1..n
      BY <1>3, <2>1
    <3> QED
      <4>1. AF \cap AB = {}
        BY <1>1, <3>1, PartHolds
      <4>2. AF \cup AB = Across(m, Contents, 1..n)
        <5>1. \A T, U : Across(m, Contents, T \cup U)
                          = Across(m, Contents, T) \cup Across(m, Contents, U)
          BY AcrossPlaces
        <5> QED
          BY <3>1, <5>1
      <4> QED
        BY <1>3, <4>1, <4>2
  <2>4. Len(f) = s - 1 /\ \A i \in 1..Len(f) : f[i] = m[i] /\ f[i].zone # "body"
    <3>1. m \in Seq(Fitting(S))
      BY <1>1, Places
    <3>2. Len(f) = s - 1
      BY <1>3, <2>1, <3>1, SubSeqProperties
    <3>3. ASSUME NEW i \in 1..(s - 1) PROVE f[i] = m[i] /\ m[i].zone # "body"
      <4>1. i \in 1..n /\ i < s /\ 1 + i - 1 = i
        BY <1>3, <2>1
      <4>2. f[i] = m[i]
        BY <1>3, <2>1, <3>1, <3>2, <4>1, SubSeqProperties
      <4> QED
        BY <1>4, <4>1, <4>2
    <3> QED
      BY <3>2, <3>3
  <2> HIDE DEF f, AF, AB
  <2>5. PICK AG \in SUBSET AF : Holds(g, S, AG) /\ S \cap AF \subseteq AG
    BY <2>2, TypesHold
  <2>6. \A i \in 1..Len(g) : g[i].obj \in {"text", "blank", "anchor"} /\ g[i].zone # "body"
    <3>1. \A i \in 1..Len(f) : f[i].obj \in {"text", "blank", "anchor"} /\ f[i].zone # "body"
      BY <1>5, <2>2, <2>4, Places DEF MaySort
    <3> QED
      BY <2>2, <3>1, TypesHold
  <2> HIDE DEF g
  <2>7. PICK K \in SUBSET (1..Len(g)) :
              /\ Holds(FrontArranged(g), S, Across(g, Contents, K))
              /\ \A i \in (1..Len(g)) \ K : Contents[g[i]] \cap S = {}
    BY <2>5, <2>6, FrontHolds
  <2>8. Across(g, Contents, K) \subseteq AF /\ S \cap AF \subseteq Across(g, Contents, K)
    <3>1. AG = Across(g, Contents, 1..Len(g))
      BY <2>5, Places
    <3> QED
      BY <2>5, <2>7, <3>1 DEF Across
  <2>9. Holds(FrontArranged(g) \o SubSeq(m, s, n), S, Across(g, Contents, K) \cup AB)
    BY <2>2, <2>3, <2>7, <2>8, ConcatHolds
  <2> DEFINE B == Across(g, Contents, K) \cup AB
  <2>10. B \in SUBSET A /\ S \cap A \subseteq B /\ Holds(NormaliseFront(b), S, B)
    BY <1>2, <1>5, <2>3, <2>8, <2>9
  <2> HIDE DEF B
  <2> QED
    BY <2>10 DEF Retains
<1>6. CASE ~(s > 0 /\ MaySort(f))
  BY <1>1, <1>2, <1>6 DEF Retains
<1> QED
  BY <1>5, <1>6

-----------------------------------------------------------------------------
(* The fixed style, and what the template lends the front.                 *)

\* A body is cut in two, and a node without pieces put in.
LEMMA SplitHolds ==
    ASSUME NEW b, NEW S, NEW A, Holds(b, S, A), NEW k \in 0..Len(b)
    PROVE  \E F, B : /\ Holds(SubSeq(b, 1, k), S, F) /\ Holds(SubSeq(b, k + 1, Len(b)), S, B)
                     /\ F \cap B = {} /\ F \cup B = A
                     /\ F = Across(b, Contents, 1..k)
                     /\ B = Across(b, Contents, (k + 1)..Len(b))
<1> DEFINE n == Len(b)
           F == Across(b, Contents, 1..k)
           B == Across(b, Contents, (k + 1)..n)
<1>1. n \in Nat /\ Across(b, Contents, 1..n) = A
  BY Places
<1> HIDE DEF n
<1>2. /\ k \in Nat /\ k + 1 \in Nat /\ 1 <= 1 /\ 1 <= k + 1 /\ k <= n
      /\ k + 1 <= n + 1 /\ n <= n
  BY <1>1 DEF n
<1>3. Holds(SubSeq(b, 1, k), S, F) /\ Holds(SubSeq(b, k + 1, n), S, B)
  BY <1>1, <1>2, PartHolds DEF n
<1>4. /\ 1..k \in SUBSET (1..n) /\ (k + 1)..n \in SUBSET (1..n)
      /\ (1..k) \cap ((k + 1)..n) = {} /\ (1..k) \cup ((k + 1)..n) = 1..n
  BY <1>1, <1>2
<1>5. F \cap B = {}
  BY <1>4, PartHolds DEF n
<1>6. \A T, U : Across(b, Contents, T \cup U) = Across(b, Contents, T) \cup Across(b, Contents, U)
  BY AcrossPlaces
<1>7. F \cup B = A
  BY <1>1, <1>4, <1>6
<1> QED
  BY <1>3, <1>5, <1>7 DEF n

LEMMA InsertHolds ==
    ASSUME NEW b, NEW S, NEW A, Holds(b, S, A), NEW s \in 1..(Len(b) + 1),
           NEW x \in Fitting(S), Contents[x] = {}
    PROVE  Holds(InsertAt(b, s, x), S, A)
<1>1. Len(b) \in Nat
  BY Places
<1>2. s - 1 \in 0..Len(b) /\ (s - 1) + 1 = s
  BY <1>1
<1>3. PICK F, B : /\ Holds(SubSeq(b, 1, s - 1), S, F) /\ Holds(SubSeq(b, (s - 1) + 1, Len(b)), S, B)
                  /\ F \cap B = {} /\ F \cup B = A
  <2> DEFINE k == s - 1
  <2>1. k \in 0..Len(b)
    BY <1>2
  <2> HIDE DEF k
  <2>2. \E F, B : /\ Holds(SubSeq(b, 1, k), S, F) /\ Holds(SubSeq(b, k + 1, Len(b)), S, B)
                 /\ F \cap B = {} /\ F \cup B = A
    BY <2>1, SplitHolds
  <2> QED
    BY <2>2 DEF k
<1>4. Holds(<<x>>, S, {})
  BY NodeHolds
<1>5. Holds(SubSeq(b, 1, s - 1) \o <<x>>, S, F \cup {})
  BY <1>3, <1>4, ConcatHolds
<1>6. Holds(SubSeq(b, 1, s - 1) \o <<x>> \o SubSeq(b, s, Len(b)), S, (F \cup {}) \cup B)
  BY <1>2, <1>3, <1>5, ConcatHolds
<1>7. (F \cup {}) \cup B = A
  BY <1>3
<1> QED
  BY <1>6, <1>7 DEF InsertAt

\* Nodes without pieces may go.
LEMMA EmptyRemoved ==
    ASSUME NEW b, NEW S, NEW A, Holds(b, S, A), NEW T \in SUBSET (1..Len(b)),
           \A i \in (1..Len(b)) \ T : Contents[b[i]] = {}
    PROVE  Holds(Picked(b, T), S, A)
<1>1. Holds(Picked(b, T), S, Across(b, Contents, T))
  BY PartHolds
<1>2. Across(b, Contents, 1..Len(b)) = A
  BY Places
<1>3. Across(b, Contents, T) = Across(b, Contents, 1..Len(b))
  BY DEF Across
<1> QED
  BY <1>1, <1>2, <1>3

\* A node takes what another holds, and the other one goes.
LEMMA RemoveHolds ==
    ASSUME NEW b, NEW S, NEW A, Holds(b, S, A), NEW p \in 1..Len(b), NEW q \in 1..Len(b),
           p < q, NEW x \in Fitting(S), Contents[x] = Contents[b[p]] \cup Contents[b[q]]
    PROVE  Holds(RemoveAt(ReplaceAt(b, p, x), q), S, A)
<1> DEFINE n == Len(b)
           c == ReplaceAt(b, p, x)
           F == Across(c, Contents, 1..(q - 1))
           B == Across(c, Contents, (q + 1)..n)
<1>1. /\ b \in Seq(Fitting(S)) /\ n \in Nat /\ DOMAIN b = 1..n
      /\ Across(b, Contents, 1..n) = A
      /\ \A i, j \in 1..n : i # j => Contents[b[i]] \cap Contents[b[j]] = {}
  BY Places DEF Apartness
<1>2. /\ c \in Seq(Fitting(S)) /\ Len(c) = n
      /\ c[p] = x /\ \A i \in 1..n : i # p => c[i] = b[i]
  BY <1>1 DEF ReplaceAt
<1>3. RemoveAt(c, q) = SubSeq(c, 1, q - 1) \o SubSeq(c, q + 1, n)
  BY <1>2 DEF RemoveAt
<1> HIDE DEF c, n
<1>4. /\ p \in Nat /\ q \in Nat /\ p \in 1..n /\ q \in 1..n /\ q - 1 \in Nat /\ q + 1 \in Nat
      /\ 1 <= q + 1 /\ q + 1 <= n + 1 /\ 1 <= (q - 1) + 1 /\ q - 1 <= n
      /\ p \in 1..(q - 1) /\ p # q
      /\ 1..(q - 1) \subseteq 1..n /\ (q + 1)..n \subseteq 1..n
      /\ \A i \in 1..n : i # q => i \in 1..(q - 1) \/ i \in (q + 1)..n
      /\ \A i \in 1..(q - 1) : i # q /\ i \notin (q + 1)..n
      /\ \A i \in (q + 1)..n : i # q /\ i # p
  BY <1>1 DEF n
<1>5. \A i, j \in 1..n : i # j /\ i # q /\ j # q => Contents[c[i]] \cap Contents[c[j]] = {}
  <2>1. \A i \in 1..n : i # p => Contents[c[i]] = Contents[b[i]]
    BY <1>2
  <2>2. \A j \in 1..n : j # p /\ j # q => Contents[c[p]] \cap Contents[c[j]] = {}
    BY <1>1, <1>2, <1>4, <2>1
  <2> QED
    BY <1>1, <2>1, <2>2
<1>6. Apartness(c, Contents, 1..(q - 1)) /\ Apartness(c, Contents, (q + 1)..n) /\ F \cap B = {}
  BY <1>4, <1>5 DEF Apartness, Across
<1>7. Holds(SubSeq(c, 1, q - 1), S, F)
  <2> DEFINE k == q - 1
  <2>1. c \in Seq(Fitting(S)) /\ k \in Nat /\ 1 \in Nat /\ 1 <= 1 /\ 1 <= k + 1 /\ k <= Len(c)
    BY <1>2, <1>4
  <2>2. Apartness(c, Contents, 1..k)
    BY <1>6
  <2> HIDE DEF k
  <2>3. Tidy(SubSeq(c, 1, k), Fitting(S), Contents, Across(c, Contents, 1..k))
    BY <2>1, <2>2, TidySubSeq
  <2> QED
    BY <2>3 DEF Holds, k
<1>8. Holds(SubSeq(c, q + 1, n), S, B)
  <2> DEFINE k == q + 1
  <2>1. /\ c \in Seq(Fitting(S)) /\ k \in Nat /\ n \in Nat /\ 1 <= k
        /\ k <= n + 1 /\ n <= Len(c)
    BY <1>1, <1>2, <1>4
  <2>2. Apartness(c, Contents, k..n)
    BY <1>6
  <2> HIDE DEF k
  <2>3. Tidy(SubSeq(c, k, n), Fitting(S), Contents, Across(c, Contents, k..n))
    BY <2>1, <2>2, TidySubSeq
  <2> QED
    BY <2>3 DEF Holds, k
<1>9. F \cup B = A
  <2>1. \A i \in 1..n : Contents[b[i]] \subseteq F \cup B
    <3>1. \A i \in 1..n : i # q => Contents[c[i]] \subseteq F \cup B
      BY <1>4 DEF Across
    <3>2. Contents[b[p]] \subseteq F \cup B /\ Contents[b[q]] \subseteq F \cup B
      BY <1>2, <1>4, <3>1
    <3> QED
      BY <1>2, <3>1, <3>2
  <2>2. \A i \in 1..n : Contents[b[i]] \subseteq A
    BY <1>1 DEF Across
  <2>3. \A i \in 1..n : i # q => Contents[c[i]] \subseteq A
    BY <1>2, <1>4, <2>2
  <2>4. F \subseteq A /\ B \subseteq A
    BY <1>4, <2>3 DEF Across
  <2>5. A \subseteq F \cup B
    BY <1>1, <2>1 DEF Across
  <2> QED
    BY <2>4, <2>5
<1>10. Holds(SubSeq(c, 1, q - 1) \o SubSeq(c, q + 1, n), S, A)
  <2> HIDE DEF F, B
  <2>1. Holds(SubSeq(c, 1, q - 1) \o SubSeq(c, q + 1, n), S, F \cup B)
    BY <1>6, <1>7, <1>8, ConcatHolds
  <2> QED
    BY <1>9, <2>1
<1> QED
  BY <1>3, <1>10 DEF c

\* The passes of the fixed style.
LEMMA IdentifiersHold ==
    ASSUME NEW b, NEW S, NEW A, Holds(b, S, A)
    PROVE  Holds(IdentifiersJoined(b), S, A)
<1> DEFINE places(f) == {i \in DOMAIN b : IsIdentifier(b[i]) /\ b[i].fields = f}
           u == Min(places({"udc"}))
           d == Min(places({"doi"}))
           pair == [Joined(<<b[u], b[d]>>) EXCEPT !.fields = {"udc", "doi"}]
           joins == /\ Cardinality(places({"udc"})) = 1 /\ Cardinality(places({"doi"})) = 1
                    /\ places({"udc", "doi"}) = {}
<1>1. IdentifiersJoined(b) = IF joins
         THEN RemoveAt(ReplaceAt(b, Min({u, d}), pair), Max({u, d})) ELSE b
  BY DEF IdentifiersJoined
<1>2. CASE ~joins
  BY <1>1, <1>2
<1>3. CASE joins
  <2>1. DOMAIN b = 1..Len(b) /\ Len(b) \in Nat
    BY Places
  <2>2. \A f : places(f) \in SUBSET Nat /\ places(f) \subseteq 1..Len(b)
    BY <2>1
  <2>3. places({"udc"}) # {} /\ places({"doi"}) # {}
    <3>1. \A X : Cardinality(X) = 1 => X # {}
      BY FS_EmptySet
    <3> HIDE DEF places
    <3> QED
      BY <1>3, <3>1
  <2>4. u \in places({"udc"}) /\ d \in places({"doi"})
    <3> HIDE DEF places
    <3> QED
      BY <2>2, <2>3, MinOf
  <2>5. /\ u \in 1..Len(b) /\ d \in 1..Len(b) /\ b[u].obj = "text" /\ b[d].obj = "text"
        /\ b[u].role = "editorial_metadata" /\ b[d].role = "editorial_metadata"
        /\ b[u].fields = {"udc"} /\ b[d].fields = {"doi"}
    BY <2>1, <2>4 DEF IsIdentifier
  <2>6. u # d
    <3>1. {"udc"} # {"doi"}
      OBVIOUS
    <3> QED
      BY <2>5, <3>1
  <2> HIDE DEF u, d, joins, places
  <2>7. /\ b[u] \in Fitting(S) /\ b[d] \in Fitting(S) /\ b[u] \in Single /\ b[d] \in Single
        /\ Contents[b[u]] \cap Contents[b[d]] = {}
    BY <2>5, <2>6, Places DEF Apartness
  <2>8. Holds(<<b[u], b[d]>>, S, Contents[b[u]] \cup Contents[b[d]])
    <3>1. Holds(<<b[u]>> \o <<b[d]>>, S, Contents[b[u]] \cup Contents[b[d]])
      BY <2>7, NodeHolds, ConcatHolds
    <3>2. <<b[u]>> \o <<b[d]>> = <<b[u], b[d]>>
      BY <2>7, TwoElements
    <3> QED
      BY <3>1, <3>2
  <2>9. /\ Joined(<<b[u], b[d]>>) \in Single
        /\ Contents[Joined(<<b[u], b[d]>>)] = Contents[b[u]] \cup Contents[b[d]]
        /\ Joined(<<b[u], b[d]>>).obj = "text"
        /\ Joined(<<b[u], b[d]>>).role = "editorial_metadata"
    <3>1. Len(<<b[u], b[d]>>) # 0 /\ <<b[u], b[d]>>[1] = b[u]
      OBVIOUS
    <3> QED
      BY <2>5, <2>8, <3>1, Places, JoinedHolds
  <2>10. pair \in Fitting(S) /\ Contents[pair] = Contents[b[u]] \cup Contents[b[d]]
    <3> DEFINE j == Joined(<<b[u], b[d]>>)
    <3>1. j \in Node /\ Lists(j.items, Contents[b[u]] \cup Contents[b[d]])
      BY <2>9, ItemsListed
    <3>2. pair = [j EXCEPT !.fields = {"udc", "doi"}]
      OBVIOUS
    <3> HIDE DEF j, pair
    <3>3. /\ pair \in Node /\ pair.items = j.items /\ pair.obj = j.obj /\ pair.role = j.role
      BY <3>1, <3>2 DEF Node
    <3>4. Lists(pair.items, Contents[b[u]] \cup Contents[b[d]])
      BY <3>1, <3>3
    <3>5. pair \in Single /\ Contents[pair] = Contents[b[u]] \cup Contents[b[d]]
      BY <3>3, <3>4, ListsSingle
    <3>6. Contents[b[u]] \cap S = {} /\ Contents[b[d]] \cap S = {}
      BY <2>5, <2>7 DEF Fitting, MayGo, Metadata
    <3>7. pair.obj = "text"
      BY <2>9, <3>3 DEF j
    <3>8. pair \in Fitting(S)
      BY <3>5, <3>6, <3>7, Fits
    <3> QED
      BY <3>5, <3>8
  <2>11. \E p, q \in 1..Len(b) : /\ p < q /\ Min({u, d}) = p /\ Max({u, d}) = q
                                 /\ Contents[pair] = Contents[b[p]] \cup Contents[b[q]]
    <3>1. {u, d} \in SUBSET Nat /\ {u, d} # {} /\ \A y \in {u, d} : y <= Len(b)
      BY <2>1, <2>5
    <3>2. Min({u, d}) \in {u, d} /\ \A y \in {u, d} : Min({u, d}) <= y
      BY <3>1, MinOf
    <3>3. Max({u, d}) \in {u, d} /\ \A y \in {u, d} : y <= Max({u, d})
      BY <2>1, <3>1, MaxOf
    <3>4. CASE u < d
      <4>1. Min({u, d}) = u /\ Max({u, d}) = d
        BY <2>5, <3>2, <3>3, <3>4
      <4> QED
        BY <2>5, <2>10, <3>4, <4>1
    <3>5. CASE d < u
      <4>1. Min({u, d}) = d /\ Max({u, d}) = u
        BY <2>5, <3>2, <3>3, <3>5
      <4> QED
        BY <2>5, <2>10, <3>5, <4>1
    <3>6. u < d \/ d < u
      BY <2>5, <2>6
    <3> QED
      BY <3>4, <3>5, <3>6
  <2> HIDE DEF pair
  <2>12. Holds(RemoveAt(ReplaceAt(b, Min({u, d}), pair), Max({u, d})), S, A)
    BY <2>10, <2>11, RemoveHolds
  <2> QED
    BY <1>1, <1>3, <2>12
<1> QED
  BY <1>2, <1>3

LEMMA DatesHold ==
    ASSUME NEW b, NEW S, NEW A, Holds(b, S, A)
    PROVE  Holds(DatesMoved(b), S, A)
<1> DEFINE isDate(i) == b[i].role = "received_metadata"
           R == {i \in DOMAIN b : ~isDate(i)}
           D == {i \in DOMAIN b : isDate(i)}
           rest == Picked(b, R)
           dates == Picked(b, D)
           c == SelectInSeq(rest, LAMBDA n : n.role = "copyright_metadata")
           cut == IF c = 0 THEN Len(rest) ELSE c - 1
           AR == Across(b, Contents, R)
           AD == Across(b, Contents, D)
<1>1. DatesMoved(b) = SubSeq(rest, 1, cut) \o dates \o SubSeq(rest, cut + 1, Len(rest))
  BY DEF DatesMoved
<1>2. DOMAIN b = 1..Len(b) /\ Across(b, Contents, 1..Len(b)) = A
  BY Places
<1>3. /\ R \in SUBSET (1..Len(b)) /\ D \in SUBSET (1..Len(b)) /\ R \cap D = {}
      /\ R \cup D = 1..Len(b)
  BY <1>2
<1> HIDE DEF R, D
<1>4. Holds(rest, S, AR) /\ Holds(dates, S, AD) /\ AR \cap AD = {} /\ AR \cup AD = A
  <2>1. \A T, U : Across(b, Contents, T \cup U) = Across(b, Contents, T) \cup Across(b, Contents, U)
    BY AcrossPlaces
  <2>2. AR \cup AD = A
    BY <1>2, <1>3, <2>1
  <2> QED
    BY <1>3, <2>2, PartHolds
<1> HIDE DEF rest, dates, AR, AD
<1>5. cut \in 0..Len(rest)
  <2> DEFINE I == {i \in 1..Len(rest) : rest[i].role = "copyright_metadata"}
  <2>1. c = IF I # {} THEN Min(I) ELSE 0
    BY DEF SelectInSeq
  <2>2. I \in SUBSET (1..Len(rest))
    OBVIOUS
  <2>3. Len(rest) \in Nat
    BY <1>4, Places
  <2> HIDE DEF I, c
  <2>4. c \in 0..Len(rest)
    BY <2>1, <2>2, <2>3, SelectedIn
  <2>5. CASE c = 0
    BY <2>3, <2>5
  <2>6. CASE c # 0
    BY <2>3, <2>4, <2>6
  <2> QED
    BY <2>5, <2>6
<1> HIDE DEF c, cut
<1>6. PICK F, B : /\ Holds(SubSeq(rest, 1, cut), S, F) /\ Holds(SubSeq(rest, cut + 1, Len(rest)), S, B)
                  /\ F \cap B = {} /\ F \cup B = AR
  BY <1>4, <1>5, SplitHolds
<1>7. Holds(SubSeq(rest, 1, cut) \o dates, S, F \cup AD)
  BY <1>4, <1>6, ConcatHolds
<1>8. Holds(SubSeq(rest, 1, cut) \o dates \o SubSeq(rest, cut + 1, Len(rest)), S, (F \cup AD) \cup B)
  BY <1>4, <1>6, <1>7, ConcatHolds
<1>9. (F \cup AD) \cup B = A
  BY <1>4, <1>6
<1> QED
  BY <1>1, <1>8, <1>9

LEMMA FrontBlanksHold ==
    ASSUME NEW b, NEW S, NEW A, Holds(b, S, A)
    PROVE  Holds(FrontBlanksRemoved(b), S, A)
<1> DEFINE s == BodyStart(b)
           front == IF s = 0 THEN DOMAIN b ELSE 1 .. (s - 1)
           T == {i \in DOMAIN b : i \in front => b[i].obj # "blank"}
<1>1. FrontBlanksRemoved(b) = Picked(b, T)
  BY DEF FrontBlanksRemoved
<1>2. DOMAIN b = 1..Len(b)
  BY Places
<1>3. T \in SUBSET (1..Len(b)) /\ \A i \in (1..Len(b)) \ T : b[i].obj = "blank"
  BY <1>2
<1> HIDE DEF T
<1>4. \A i \in (1..Len(b)) \ T : Contents[b[i]] = {}
  BY <1>3, Places, ItemsListed DEF Fitting
<1> QED
  BY <1>1, <1>3, <1>4, EmptyRemoved

\* The words among the pieces of a node.
LEMMA TextsListed ==
    ASSUME NEW x \in Single
    PROVE  \E W \in SUBSET Contents[x] : Lists(Texts(x.items), W)
<1> DEFINE items == x.items
           n == Len(items)
           T == {k \in DOMAIN items : items[k].of = "text"}
<1>1. items \in Seq(Piece) /\ Lists(items, Contents[x])
  BY ItemsListed
<1>2. Texts(items) = Picked(items, T) /\ T \in SUBSET (1..n)
  BY <1>1 DEF Texts
<1>3. Apartness(items, Itself, 1..n) /\ Across(items, Itself, 1..n) = Contents[x]
  BY <1>1 DEF Lists, Tidy
<1> HIDE DEF items, T, n
<1>4. Apartness(items, Itself, T)
  BY <1>2, <1>3 DEF Apartness
<1>5. Tidy(Picked(items, T), Piece, Itself, Across(items, Itself, T))
  BY <1>1, <1>2, <1>4, TidyPicked DEF n
<1>6. Across(items, Itself, T) \subseteq Contents[x]
  BY <1>2, <1>3 DEF Across
<1> QED
  BY <1>2, <1>5, <1>6 DEF Lists, items

\* The box takes the words of the first article type and the first rubric; the
\* journal's lines below it go.
LEMMA ShellHolds ==
    ASSUME NEW b, NEW S, NEW A, Holds(b, S, A)
    PROVE  Retains(ShellInstalled(b), S, A)
<1> DEFINE n == Len(b)
           isSource(x) == HasText(x) /\ x.role \in {"article_type", "rubric"}
           type == SelectInSeq(b, LAMBDA x : HasText(x) /\ x.role = "article_type")
           rubric == SelectInSeq(b, LAMBDA x : HasText(x) /\ x.role = "rubric")
           at == Min({type, rubric})
           shell == [Spacer EXCEPT !.obj = "text", !.role = "front_shell",
                       !.items = Texts(b[type].items) \o Texts(b[rubric].items)]
           T == {i \in at .. Len(b) : ~isSource(b[i])}
           installs == template.shell /\ type # 0 /\ rubric # 0
<1>1. ShellInstalled(b) =
         IF installs THEN SubSeq(b, 1, at - 1) \o <<shell, Spacer>> \o Picked(b, T) ELSE b
  BY DEF ShellInstalled
<1>2. CASE ~installs
  BY <1>1, <1>2 DEF Retains
<1>3. CASE installs
  <2>1. n \in Nat /\ Across(b, Contents, 1..n) = A
    BY Places
  <2>2. type \in 1..n /\ isSource(b[type]) /\ b[type].role = "article_type"
    <3> DEFINE I == {i \in 1..n : HasText(b[i]) /\ b[i].role = "article_type"}
    <3>1. type = IF I # {} THEN Min(I) ELSE 0
      BY DEF SelectInSeq
    <3>2. I \in SUBSET (1..n) /\ type # 0
      BY <1>3
    <3> HIDE DEF I, type, n
    <3>3. type \in I
      BY <2>1, <3>1, <3>2, SelectedIn
    <3> QED
      BY <3>3 DEF I
  <2>3. rubric \in 1..n /\ isSource(b[rubric]) /\ b[rubric].role = "rubric"
    <3> DEFINE I == {i \in 1..n : HasText(b[i]) /\ b[i].role = "rubric"}
    <3>1. rubric = IF I # {} THEN Min(I) ELSE 0
      BY DEF SelectInSeq
    <3>2. I \in SUBSET (1..n) /\ rubric # 0
      BY <1>3
    <3> HIDE DEF I, rubric, n
    <3>3. rubric \in I
      BY <2>1, <3>1, <3>2, SelectedIn
    <3> QED
      BY <3>3 DEF I
  <2> HIDE DEF type, rubric, installs
  <2>4. at \in 1..n /\ at <= type /\ at <= rubric /\ at \in Nat
    <3>1. {type, rubric} \in SUBSET Nat /\ {type, rubric} # {}
      BY <2>1, <2>2, <2>3
    <3>2. at \in {type, rubric} /\ \A y \in {type, rubric} : at <= y
      BY <3>1, MinOf
    <3> HIDE DEF at
    <3> QED
      BY <2>1, <2>2, <2>3, <3>2
  <2> HIDE DEF at
  <2>5. /\ b[type] \in Fitting(S) /\ b[type] \in Single /\ b[rubric] \in Fitting(S)
        /\ b[rubric] \in Single /\ Contents[b[type]] \cap Contents[b[rubric]] = {}
    <3>1. "article_type" # "rubric"
      OBVIOUS
    <3>2. type # rubric
      BY <2>2, <2>3, <3>1
    <3> QED
      BY <2>2, <2>3, <3>2, Places DEF Apartness
  <2>19. /\ MayGo(b[type]) /\ MayGo(b[rubric])
         /\ Contents[b[type]] \cap S = {} /\ Contents[b[rubric]] \cap S = {}
    BY <2>2, <2>3, <2>5 DEF MayGo, Metadata, Fitting
  <2>20. PICK W1 \in SUBSET Contents[b[type]] : Lists(Texts(b[type].items), W1)
    BY <2>5, TextsListed
  <2>21. PICK W2 \in SUBSET Contents[b[rubric]] : Lists(Texts(b[rubric].items), W2)
    BY <2>5, TextsListed
  <2> DEFINE AS == W1 \cup W2
  <2>6. shell \in Fitting(S) /\ Contents[shell] = AS
    <3> DEFINE items == Texts(b[type].items) \o Texts(b[rubric].items)
    <3>1. Lists(items, AS) /\ items \in Seq(Piece)
      <4>1. W1 \cap W2 = {}
        BY <2>5, <2>20, <2>21
      <4>2. Lists(items, AS)
        BY <2>20, <2>21, <4>1, ListsConcat
      <4> QED
        BY <4>2 DEF Lists, Tidy
    <3>2. shell = [Spacer EXCEPT !.obj = "text", !.role = "front_shell", !.items = items]
      OBVIOUS
    <3>3. "front_shell" \in Role /\ Spacer \in Node
      BY SpacerFits DEF Role
    <3> HIDE DEF shell, items
    <3>4. /\ shell \in Node /\ shell.items = items /\ shell.obj = "text"
          /\ shell.role = "front_shell"
      BY <3>1, <3>2, <3>3 DEF Node
    <3>5. Lists(shell.items, AS)
      BY <3>1, <3>4
    <3>6. shell \in Single /\ Contents[shell] = AS
      BY <3>4, <3>5, ListsSingle
    <3> QED
      BY <3>4, <3>6, Fits DEF Metadata, MayGo
  <2> HIDE DEF shell
  <2>7. Holds(<<shell, Spacer>>, S, AS)
    <3>1. Holds(<<shell>>, S, AS) /\ Holds(<<Spacer>>, S, {})
      BY <2>6, SpacerFits, NodeHolds
    <3>2. Holds(<<shell>> \o <<Spacer>>, S, AS \cup {})
      BY <3>1, ConcatHolds
    <3>3. <<shell>> \o <<Spacer>> = <<shell, Spacer>>
      BY <2>6, SpacerFits, TwoElements
    <3> QED
      BY <3>2, <3>3
  <2> DEFINE H == 1..(at - 1)
             U == {type, rubric}
  <2>8. /\ H \in SUBSET (1..n) /\ U \in SUBSET (1..n) /\ T \in SUBSET (1..n)
        /\ H \cap U = {} /\ (H \cup U) \cap T = {}
    BY <2>1, <2>2, <2>3, <2>4
  <2>9. \A i \in (1..n) \ (H \cup T) : MayGo(b[i])
    <3>1. \A i \in 1..n : i \in H \/ i \in at..n
      BY <2>1, <2>4
    <3> QED
      BY <3>1 DEF Metadata, MayGo
  <2>10. Holds(SubSeq(b, 1, at - 1), S, Across(b, Contents, H))
    <3>1. at - 1 \in Nat /\ 1 <= (at - 1) + 1 /\ at - 1 <= n
      BY <2>1, <2>4
    <3> QED
      BY <3>1, PartHolds
  <2>11. Holds(Picked(b, T), S, Across(b, Contents, T))
    <3> HIDE DEF T
    <3> QED
      BY <2>8, PartHolds
  <2>12. AS \subseteq Across(b, Contents, U)
    BY <2>20, <2>21 DEF Across
  <2> DEFINE AH == Across(b, Contents, H)
             AT == Across(b, Contents, T)
  <2>13. /\ AH \cap Across(b, Contents, U) = {} /\ AH \cap AT = {}
         /\ Across(b, Contents, U) \cap AT = {}
         /\ AH \subseteq A /\ AT \subseteq A /\ Across(b, Contents, U) \subseteq A
    <3> HIDE DEF H, U, T
    <3>1. H \cap U = {} /\ H \cap T = {} /\ U \cap T = {}
      BY <2>8
    <3>2. /\ AH \cap Across(b, Contents, U) = {} /\ AH \cap AT = {}
          /\ Across(b, Contents, U) \cap AT = {}
      BY <2>8, <3>1, PartHolds
    <3>3. AH \subseteq A /\ AT \subseteq A /\ Across(b, Contents, U) \subseteq A
      BY <2>1, <2>8, AcrossPlaces
    <3> QED
      BY <3>2, <3>3
  <2>14. \A i \in (1..n) \ (H \cup T) : Contents[b[i]] \cap S = {}
    <3>1. \A i \in 1..n : b[i] \in Fitting(S)
      BY Places DEF n
    <3> QED
      BY <2>9, <3>1 DEF Fitting
  <2> DEFINE B == AH \cup AS \cup AT
  <2>15. S \cap A \subseteq B
    BY <2>1, <2>14 DEF Across
  <2> HIDE DEF H, U, T, AS, AH, AT, n
  <2>16. Holds(SubSeq(b, 1, at - 1) \o <<shell, Spacer>>, S, AH \cup AS)
    BY <2>7, <2>10, <2>12, <2>13, ConcatHolds DEF AH
  <2>17. Holds(SubSeq(b, 1, at - 1) \o <<shell, Spacer>> \o Picked(b, T), S, B)
    BY <2>11, <2>12, <2>13, <2>16, ConcatHolds DEF AT
  <2>18. Holds(ShellInstalled(b), S, B) /\ B \subseteq A
    BY <1>1, <1>3, <2>12, <2>13, <2>17
  <2> HIDE DEF B
  <2> QED
    BY <2>15, <2>18 DEF Retains
<1> QED
  BY <1>2, <1>3

\* A node is edited and keeps its pieces.
LEMMA ReplaceHolds ==
    ASSUME NEW b, NEW S, NEW A, Holds(b, S, A), NEW t \in 1..Len(b),
           NEW x \in Fitting(S), Contents[x] = Contents[b[t]]
    PROVE  Holds([b EXCEPT ![t] = x], S, A)
<1> DEFINE n == Len(b)
           c == [b EXCEPT ![t] = x]
<1>1. /\ b \in Seq(Fitting(S)) /\ n \in Nat /\ DOMAIN b = 1..n
      /\ Apartness(b, Contents, 1..n) /\ Across(b, Contents, 1..n) = A
  BY Places
<1>2. c \in Seq(Fitting(S)) /\ Len(c) = n /\ \A i \in 1..n : c[i] = IF i = t THEN x ELSE b[i]
  BY <1>1
<1> HIDE DEF c, n
<1>3. \A i \in 1..n : Contents[c[i]] = Contents[b[i]]
  BY <1>2
<1>4. Apartness(c, Contents, 1..n) /\ Across(c, Contents, 1..n) = A
  BY <1>1, <1>3 DEF Apartness, Across
<1> QED
  BY <1>2, <1>4 DEF Holds, Tidy, c

\* Identifiers lent by the template, and blank lines that go.
LEMMA PlaceholdersHold ==
    ASSUME NEW b, NEW S, NEW A, Holds(b, S, A), template \in Profile
    PROVE  Holds(PlaceholdersInstalled(b), S, A)
<1> DEFINE n == Len(b)
           named == UNION {b[i].fields : i \in 1 .. Min({Len(b), Looked})}
           missing == template.fields \ named
           target == SelectInSeq(b, LAMBDA x : /\ x.obj = "text" /\ x.fields # {}
                                               /\ x.role = "editorial_metadata")
           anchor == SelectInSeq(b, LAMBDA x : x.role \in FrontRoles \ {"editorial_metadata"})
           line == [Spacer EXCEPT !.obj = "text", !.role = "editorial_metadata",
                      !.fields = missing]
<1>1. PlaceholdersInstalled(b) =
         IF missing = {} THEN b
         ELSE IF target # 0 THEN [b EXCEPT ![target].fields = @ \union missing]
         ELSE InsertAt(b, Max({anchor, 1}), line)
  BY DEF PlaceholdersInstalled
<1>2. missing \in SUBSET {"udc", "doi"}
  <2>1. template.fields \in SUBSET {"udc", "doi"}
    BY DEF Profile
  <2> QED
    BY <2>1
<1>3. n \in Nat /\ b \in Seq(Fitting(S)) /\ DOMAIN b = 1..n
  BY Places
<1>4. target \in 0..n
  <2> DEFINE I == {i \in 1..n : /\ b[i].obj = "text" /\ b[i].fields # {}
                                /\ b[i].role = "editorial_metadata"}
  <2>1. target = IF I # {} THEN Min(I) ELSE 0
    BY DEF SelectInSeq
  <2>2. I \in SUBSET (1..n)
    OBVIOUS
  <2> HIDE DEF I, target, n
  <2> QED
    BY <1>3, <2>1, <2>2, SelectedIn
<1>5. anchor \in 0..n
  <2> DEFINE I == {i \in 1..n : b[i].role \in FrontRoles \ {"editorial_metadata"}}
  <2>1. anchor = IF I # {} THEN Min(I) ELSE 0
    BY DEF SelectInSeq
  <2>2. I \in SUBSET (1..n)
    OBVIOUS
  <2> HIDE DEF I, anchor, n
  <2> QED
    BY <1>3, <2>1, <2>2, SelectedIn
<1> HIDE DEF missing, target, anchor
<1>6. CASE missing = {}
  BY <1>1, <1>6
<1>7. CASE missing # {} /\ target # 0
  <2> DEFINE old == b[target]
             new == [old EXCEPT !.fields = @ \union missing]
  <2>1. target \in 1..n
    BY <1>3, <1>4, <1>7
  <2>2. old \in Fitting(S) /\ old \in Single /\ old \in Node
    BY <2>1, Places
  <2> HIDE DEF old
  <2>3. /\ new \in Node /\ new.items = old.items /\ new.obj = old.obj /\ new.role = old.role
        /\ new.zone = old.zone
    <3>1. old.fields \union missing \in SUBSET {"udc", "doi"}
      BY <1>2, <2>2 DEF Node
    <3> QED
      BY <2>2, <3>1 DEF Node
  <2> HIDE DEF new
  <2>4. Lists(new.items, Contents[old])
    BY <2>2, <2>3, ItemsListed
  <2>5. new \in Single /\ Contents[new] = Contents[old]
    BY <2>3, <2>4, ListsSingle
  <2>6. new \in Fitting(S)
    BY <2>2, <2>3, <2>5 DEF Fitting, MayGo
  <2>7. Holds([b EXCEPT ![target] = new], S, A)
    BY <2>1, <2>5, <2>6, ReplaceHolds DEF old
  <2>8. [b EXCEPT ![target].fields = @ \union missing] = [b EXCEPT ![target] = new]
    BY DEF new, old
  <2> QED
    BY <1>1, <1>7, <2>7, <2>8
<1>8. CASE missing # {} /\ target = 0
  <2>1. Max({anchor, 1}) \in 1..(n + 1)
    <3>1. /\ {anchor, 1} \in SUBSET Nat /\ {anchor, 1} # {} /\ n + 1 \in Nat
          /\ \A y \in {anchor, 1} : y <= n + 1
      BY <1>3, <1>5
    <3>2. Max({anchor, 1}) \in {anchor, 1} /\ \A y \in {anchor, 1} : y <= Max({anchor, 1})
      BY <3>1, MaxOf
    <3> QED
      BY <1>3, <1>5, <3>2
  <2>2. line \in Fitting(S) /\ Contents[line] = {}
    <3>1. Spacer \in Node /\ Spacer.items = << >> /\ "editorial_metadata" \in Role
      BY SpacerFits DEF Spacer, Role
    <3>2. /\ line \in Node /\ line.items = << >> /\ line.obj = "text"
          /\ line.role = "editorial_metadata"
      BY <1>2, <3>1 DEF Node
    <3> HIDE DEF line
    <3>3. Lists(line.items, {})
      BY <3>2, TidyNone DEF Lists
    <3>4. line \in Single /\ Contents[line] = {}
      BY <3>2, <3>3, ListsSingle
    <3> QED
      BY <3>2, <3>4, Fits
  <2> HIDE DEF line
  <2>3. Holds(InsertAt(b, Max({anchor, 1}), line), S, A)
    BY <2>1, <2>2, InsertHolds
  <2> QED
    BY <1>1, <1>8, <2>3
<1> QED
  BY <1>6, <1>7, <1>8

LEMMA GapsHold ==
    ASSUME NEW b, NEW S, NEW A, Holds(b, S, A)
    PROVE  Holds(GapsApplied(b), S, A)
<1> DEFINE blank(x) == x.obj = "blank"
           inGap(i) == /\ blank(b[i])
                       /\ LET p == Before(b, i, blank)
                              q == Past(b, i, blank)
                          IN  /\ p > 0 /\ q <= Len(b) /\ b[p].role # b[q].role
                              /\ b[p].role \in FrontRoles /\ b[q].role \in FrontRoles
           T == {i \in DOMAIN b : ~inGap(i)}
<1>1. GapsApplied(b) = Picked(b, T)
  BY DEF GapsApplied
<1>2. DOMAIN b = 1..Len(b)
  BY Places
<1>3. T \in SUBSET (1..Len(b)) /\ \A i \in (1..Len(b)) \ T : b[i].obj = "blank"
  BY <1>2
<1> HIDE DEF T
<1>4. \A i \in (1..Len(b)) \ T : Contents[b[i]] = {}
  BY <1>3, Places, ItemsListed DEF Fitting
<1> QED
  BY <1>1, <1>3, <1>4, EmptyRemoved

-----------------------------------------------------------------------------
(* Figures, tables and sections.                                           *)

\* The elements of two sequences, one behind the other.
LEMMA ConcatSet ==
    ASSUME NEW S, NEW s \in Seq(S), NEW t \in Seq(S)
    PROVE  s \o t \in Seq(S) /\ ToSet(s \o t) = ToSet(s) \cup ToSet(t)
<1> DEFINE n == Len(s)
           m == Len(t)
           st == s \o t
<1>1. /\ st \in Seq(S) /\ Len(st) = n + m /\ n \in Nat /\ m \in Nat
      /\ \A k \in 1..(n + m) : st[k] = IF k <= n THEN s[k] ELSE t[k - n]
  BY ConcatProperties, LenProperties
<1>2. DOMAIN st = 1..(n + m) /\ DOMAIN s = 1..n /\ DOMAIN t = 1..m
  BY <1>1
<1> HIDE DEF n, m, st
<1>3. /\ \A k \in 1..n : k \in 1..(n + m) /\ st[k] = s[k]
      /\ \A k \in 1..m : k + n \in 1..(n + m) /\ st[k + n] = t[k]
  BY <1>1
<1>4. \A k \in 1..(n + m) : k \in 1..n \/ (k - n \in 1..m /\ k = (k - n) + n)
  BY <1>1
<1>5. ToSet(st) = ToSet(s) \cup ToSet(t)
  BY <1>2, <1>3, <1>4 DEF ToSet
<1> QED
  BY <1>1, <1>5 DEF st

\* c is made of the nodes of b at the places T.
IsPart(b, S, c, T) ==
    /\ T \in SUBSET (1..Len(b))
    /\ c \in Seq(Fitting(S))
    /\ Holds(c, S, Across(b, Contents, T))
    /\ ToSet(c) = {b[k] : k \in T}

\* Parts of a body are its runs, and parts joined; all of it is the body.
LEMMA StretchIsPart ==
    ASSUME NEW b, NEW S, NEW A, Holds(b, S, A), NEW i \in Nat, NEW j \in Nat,
           1 <= i, i <= j + 1, j <= Len(b)
    PROVE  IsPart(b, S, SubSeq(b, i, j), i..j)
<1>1. b \in Seq(Fitting(S)) /\ Len(b) \in Nat /\ Apartness(b, Contents, 1..Len(b))
  BY Places
<1>2. i..j \in SUBSET (1..Len(b))
  BY <1>1
<1>3. Apartness(b, Contents, i..j)
  BY <1>1, <1>2 DEF Apartness
<1> DEFINE R == Fitting(S)
<1>4. b \in Seq(R)
  BY <1>1
<1> HIDE DEF R
<1>5. Tidy(SubSeq(b, i, j), R, Contents, Across(b, Contents, i..j))
  BY <1>1, <1>3, <1>4, TidySubSeq
<1>7. ToSet(SubSeq(b, i, j)) = {b[k] : k \in i..j}
  <2> DEFINE c == SubSeq(b, i, j)
             m == j + 1 - i
  <2>1. Len(c) = m /\ \A k \in 1..m : c[k] = b[k + i - 1]
    BY <1>1, <1>3, <1>4, TidySubSeq
  <2>2. c \in Seq(R)
    BY <1>5 DEF Tidy
  <2>3. DOMAIN c = 1..m
    BY <2>1, <2>2
  <2>4. (\A k \in 1..m : k + i - 1 \in i..j) /\ \A k \in i..j : k + 1 - i \in 1..m /\ k = (k + 1 - i) + i - 1
    OBVIOUS
  <2> HIDE DEF c, m
  <2>5. ASSUME NEW k \in i..j PROVE b[k] \in ToSet(c)
    <3> DEFINE l == k + 1 - i
    <3>1. l \in 1..m /\ k = l + i - 1
      BY <2>4
    <3> HIDE DEF l
    <3>2. c[l] = b[k]
      BY <2>1, <3>1
    <3> QED
      BY <2>3, <3>1, <3>2 DEF ToSet
  <2>6. ASSUME NEW k \in 1..m PROVE c[k] \in {b[l] : l \in i..j}
    BY <2>1, <2>4
  <2>7. ToSet(c) = {c[k] : k \in 1..m}
    BY <2>3 DEF ToSet
  <2>8. ToSet(c) = {b[k] : k \in i..j}
    BY <2>5, <2>6, <2>7
  <2> QED
    BY <2>8 DEF c
<1>6. /\ Holds(SubSeq(b, i, j), S, Across(b, Contents, i..j))
      /\ SubSeq(b, i, j) \in Seq(Fitting(S))
  BY <1>5 DEF Holds, Tidy, R
<1> QED
  BY <1>2, <1>6, <1>7 DEF IsPart

LEMMA PartsJoin ==
    ASSUME NEW b, NEW S, NEW A, Holds(b, S, A), NEW c, NEW d, NEW T, NEW U,
           IsPart(b, S, c, T), IsPart(b, S, d, U), T \cap U = {}
    PROVE  IsPart(b, S, c \o d, T \cup U)
<1>1. /\ T \in SUBSET (1..Len(b)) /\ U \in SUBSET (1..Len(b))
      /\ c \in Seq(Fitting(S)) /\ d \in Seq(Fitting(S))
      /\ ToSet(c) = {b[k] : k \in T} /\ ToSet(d) = {b[k] : k \in U}
      /\ Holds(c, S, Across(b, Contents, T)) /\ Holds(d, S, Across(b, Contents, U))
  BY DEF IsPart
<1>2. Holds(c \o d, S, Across(b, Contents, T \cup U))
  BY <1>1, ConcatPlaces
<1>3. c \o d \in Seq(Fitting(S)) /\ ToSet(c \o d) = ToSet(c) \cup ToSet(d)
  BY <1>1, ConcatSet
<1>4. ToSet(c \o d) = {b[k] : k \in T \cup U}
  BY <1>1, <1>3
<1>5. T \cup U \in SUBSET (1..Len(b))
  BY <1>1
<1> QED
  BY <1>2, <1>3, <1>4, <1>5 DEF IsPart

LEMMA WholeIsPart ==
    ASSUME NEW b, NEW S, NEW A, Holds(b, S, A), NEW c, IsPart(b, S, c, 1..Len(b))
    PROVE  Holds(c, S, A) /\ ToSet(c) = ToSet(b)
<1>1. Across(b, Contents, 1..Len(b)) = A /\ DOMAIN b = 1..Len(b)
  BY Places
<1> QED
  BY <1>1 DEF IsPart, ToSet

\* Four stretches of a body in another order.
LEMMA FourParts ==
    ASSUME NEW b, NEW S, NEW A, Holds(b, S, A),
           NEW s1, NEW s2, NEW s3, NEW s4, NEW T1, NEW T2, NEW T3, NEW T4,
           IsPart(b, S, s1, T1), IsPart(b, S, s2, T2),
           IsPart(b, S, s3, T3), IsPart(b, S, s4, T4),
           T1 \cap T2 = {}, (T1 \cup T2) \cap T3 = {}, (T1 \cup T2 \cup T3) \cap T4 = {},
           T1 \cup T2 \cup T3 \cup T4 = 1..Len(b)
    PROVE  Holds(s1 \o s2 \o s3 \o s4, S, A) /\ ToSet(s1 \o s2 \o s3 \o s4) = ToSet(b)
<1>1. IsPart(b, S, s1 \o s2, T1 \cup T2)
  BY PartsJoin
<1> DEFINE s12 == s1 \o s2
           T12 == T1 \cup T2
<1>2. IsPart(b, S, s12, T12) /\ T12 \cap T3 = {}
  BY <1>1
<1> HIDE DEF s12, T12
<1>3. IsPart(b, S, s12 \o s3, T12 \cup T3)
  BY <1>2, PartsJoin
<1> DEFINE s123 == s12 \o s3
           T123 == T12 \cup T3
<1>4. IsPart(b, S, s123, T123) /\ T123 \cap T4 = {}
  BY <1>3 DEF T12
<1> HIDE DEF s123, T123
<1>5. IsPart(b, S, s123 \o s4, T123 \cup T4)
  BY <1>4, PartsJoin
<1>6. T123 \cup T4 = 1..Len(b) /\ s123 \o s4 = s1 \o s2 \o s3 \o s4
  BY DEF T123, T12, s123, s12
<1>7. IsPart(b, S, s1 \o s2 \o s3 \o s4, 1..Len(b))
  BY <1>5, <1>6
<1> DEFINE c == s1 \o s2 \o s3 \o s4
<1>8. IsPart(b, S, c, 1..Len(b))
  BY <1>7
<1> HIDE DEF c
<1>9. Holds(c, S, A) /\ ToSet(c) = ToSet(b)
  BY <1>8, WholeIsPart
<1> QED
  BY <1>9 DEF c

\* Nodes that are moved are in the body as before.
LEMMA MovedHolds ==
    ASSUME NEW b, NEW S, NEW A, Holds(b, S, A),
           NEW from \in 1..Len(b), NEW to \in from..Len(b), NEW after \in 0..Len(b),
           after > to \/ after < from
    PROVE  Holds(Moved(b, from, to, after), S, A)
           /\ ToSet(Moved(b, from, to, after)) = ToSet(b)
<1> DEFINE n == Len(b)
           h == from - 1
           t == to + 1
           r == after + 1
<1>1. n \in Nat
  BY Places
<1>2. /\ from \in 1..n /\ to \in from..n /\ after \in 0..n
  OBVIOUS
<1> HIDE DEF n
<1>3. /\ 1 \in Nat /\ h \in Nat /\ t \in Nat /\ after \in Nat /\ from \in Nat /\ to \in Nat
      /\ r \in Nat
  BY <1>1, <1>2
<1>4. IsPart(b, S, SubSeq(b, from, to), from..to)
  BY <1>1, <1>2, <1>3, StretchIsPart DEF n
<1>5. CASE after > to
  <2>1. /\ 1 <= h + 1 /\ h <= n /\ 1 <= t /\ t <= after + 1 /\ after <= n
        /\ 1 <= r /\ r <= n + 1
    BY <1>1, <1>2, <1>5
  <2>2. /\ (1..h) \cap (t..after) = {} /\ ((1..h) \cup (t..after)) \cap (from..to) = {}
        /\ ((1..h) \cup (t..after) \cup (from..to)) \cap (r..n) = {}
        /\ (1..h) \cup (t..after) \cup (from..to) \cup (r..n) = 1..n
    BY <1>1, <1>2, <1>5
  <2>3. Moved(b, from, to, after) = SubSeq(b, 1, h) \o SubSeq(b, t, after)
                                    \o SubSeq(b, from, to) \o SubSeq(b, r, n)
    BY <1>5 DEF Moved, n
  <2> HIDE DEF h, t, r
  <2>4. IsPart(b, S, SubSeq(b, 1, h), 1..h)
    BY <1>3, <2>1, StretchIsPart DEF n
  <2>5. IsPart(b, S, SubSeq(b, t, after), t..after)
    BY <1>3, <2>1, StretchIsPart DEF n
  <2>6. IsPart(b, S, SubSeq(b, r, n), r..n)
    BY <1>1, <1>3, <2>1, StretchIsPart DEF n
  <2> DEFINE s1 == SubSeq(b, 1, h)
             s2 == SubSeq(b, t, after)
             s3 == SubSeq(b, from, to)
             s4 == SubSeq(b, r, n)
             T1 == 1..h
             T2 == t..after
             T3 == from..to
             T4 == r..n
  <2>7. /\ IsPart(b, S, s1, T1) /\ IsPart(b, S, s2, T2)
        /\ IsPart(b, S, s3, T3) /\ IsPart(b, S, s4, T4)
        /\ T1 \cap T2 = {} /\ (T1 \cup T2) \cap T3 = {} /\ (T1 \cup T2 \cup T3) \cap T4 = {}
        /\ T1 \cup T2 \cup T3 \cup T4 = 1..Len(b)
    BY <1>4, <2>2, <2>4, <2>5, <2>6 DEF n
  <2> HIDE DEF s1, s2, s3, s4, T1, T2, T3, T4
  <2>8. Holds(s1 \o s2 \o s3 \o s4, S, A) /\ ToSet(s1 \o s2 \o s3 \o s4) = ToSet(b)
    BY <2>7, FourParts
  <2> QED
    BY <2>3, <2>8 DEF s1, s2, s3, s4
<1>6. CASE after < from
  <2>1. /\ 1 <= r /\ r <= h + 1 /\ h <= n /\ 1 <= t /\ t <= n + 1 /\ after <= n
        /\ 1 <= after + 1 /\ ~(after > to)
    BY <1>1, <1>2, <1>6
  <2>2. /\ (1..after) \cap (from..to) = {} /\ ((1..after) \cup (from..to)) \cap (r..h) = {}
        /\ ((1..after) \cup (from..to) \cup (r..h)) \cap (t..n) = {}
        /\ (1..after) \cup (from..to) \cup (r..h) \cup (t..n) = 1..n
    BY <1>1, <1>2, <1>6
  <2>3. Moved(b, from, to, after) = SubSeq(b, 1, after) \o SubSeq(b, from, to)
                                    \o SubSeq(b, r, h) \o SubSeq(b, t, n)
    BY <2>1 DEF Moved, n
  <2> HIDE DEF h, t, r
  <2>4. IsPart(b, S, SubSeq(b, 1, after), 1..after)
    BY <1>3, <2>1, StretchIsPart DEF n
  <2>5. IsPart(b, S, SubSeq(b, r, h), r..h)
    BY <1>3, <2>1, StretchIsPart DEF n
  <2>6. IsPart(b, S, SubSeq(b, t, n), t..n)
    BY <1>1, <1>3, <2>1, StretchIsPart DEF n
  <2> DEFINE s1 == SubSeq(b, 1, after)
             s2 == SubSeq(b, from, to)
             s3 == SubSeq(b, r, h)
             s4 == SubSeq(b, t, n)
             T1 == 1..after
             T2 == from..to
             T3 == r..h
             T4 == t..n
  <2>7. /\ IsPart(b, S, s1, T1) /\ IsPart(b, S, s2, T2)
        /\ IsPart(b, S, s3, T3) /\ IsPart(b, S, s4, T4)
        /\ T1 \cap T2 = {} /\ (T1 \cup T2) \cap T3 = {} /\ (T1 \cup T2 \cup T3) \cap T4 = {}
        /\ T1 \cup T2 \cup T3 \cup T4 = 1..Len(b)
    BY <1>4, <2>2, <2>4, <2>5, <2>6 DEF n
  <2> HIDE DEF s1, s2, s3, s4, T1, T2, T3, T4
  <2>8. Holds(s1 \o s2 \o s3 \o s4, S, A) /\ ToSet(s1 \o s2 \o s3 \o s4) = ToSet(b)
    BY <2>7, FourParts
  <2> QED
    BY <2>3, <2>8 DEF s1, s2, s3, s4
<1> QED
  BY <1>5, <1>6

\* The first place from k on that is open, or the place behind the last.
LEMMA FirstOpen ==
    ASSUME NEW n \in Nat, NEW k \in 1..(n + 1), NEW open \in SUBSET (k..n), NEW x,
           x = IF open = {} THEN n + 1 ELSE Min(open)
    PROVE  /\ x \in k..(n + 1) /\ (x <= n => x \in open)
           /\ \A y \in k..n : y < x => y \notin open
           /\ \A y \in open : x <= y
<1>1. open \in SUBSET Nat
  OBVIOUS
<1>2. CASE open # {}
  <2>1. Min(open) \in open /\ \A y \in open : Min(open) <= y
    BY <1>1, <1>2, MinOf
  <2>2. x = Min(open)
    BY <1>2
  <2>3. x \in open /\ x \in k..n /\ \A y \in open : x <= y
    BY <2>1, <2>2
  <2> QED
    BY <2>3
<1>3. CASE open = {}
  BY <1>3
<1> QED
  BY <1>2, <1>3

\* An object that waits has a place.
LEMMA PlaceFound ==
    ASSUME NEW b, Len(b) \in Nat, NEW items, \E i \in 1..Len(b) : b[i].items = items
    PROVE  PlaceOf(b, items) \in 1..Len(b) /\ b[PlaceOf(b, items)].items = items
<1> DEFINE I == {i \in 1..Len(b) : b[i].items = items}
           n == Len(b)
<1>1. PlaceOf(b, items) = IF I # {} THEN Min(I) ELSE 0
  BY DEF PlaceOf, SelectInSeq
<1>2. I # {} /\ I \in SUBSET Nat /\ I \subseteq 1..n
  OBVIOUS
<1> HIDE DEF I
<1>3. Min(I) \in I
  BY <1>2, MinOf
<1> QED
  BY <1>1, <1>2, <1>3 DEF I

\* A figure moves, its captions with it, or stays.
LEMMA FigureMovedHolds ==
    ASSUME NEW b, NEW S, NEW A, Holds(b, S, A),
           NEW items, \E i \in 1..Len(b) : b[i].items = items
    PROVE  Holds(FigureMoved(b, items), S, A) /\ ToSet(FigureMoved(b, items)) = ToSet(b)
<1> DEFINE n == Len(b)
           i == PlaceOf(b, items)
           j == Past(b, i + 1, LAMBDA x : x.obj = "blank")
           e == CaptionsEnd(b, j)
           d == Description(b, i, j, e)
           stays == j > Len(b) \/ ~IsCaption(b[j]) \/ d = 0
<1>1. FigureMoved(b, items) = IF stays THEN b ELSE Moved(b, i, e, d)
  BY DEF FigureMoved
<1>2. CASE stays
  BY <1>1, <1>2
<1>3. CASE ~stays
  <2>1. n \in Nat /\ i \in 1..n
    BY Places, PlaceFound
  <2> HIDE DEF i
  <2>2. j \in (i + 1)..(n + 1)
    <3> DEFINE open == {q \in (i + 1)..Len(b) : ~(b[q].obj = "blank")}
               k == i + 1
    <3>1. j = IF open = {} THEN n + 1 ELSE Min(open)
      BY DEF Past
    <3>2. open \in SUBSET (k..n) /\ k \in 1..(n + 1)
      BY <2>1
    <3> HIDE DEF open, j, n, k
    <3>3. j \in k..(n + 1)
      BY <2>1, <3>1, <3>2, FirstOpen
    <3> QED
      BY <3>3 DEF k
  <2>3. j \in 1..n /\ j >= i + 1
    BY <1>3, <2>1, <2>2
  <2> HIDE DEF j
  <2>4. e \in j..n
    <3> DEFINE open == {q \in j..Len(b) : ~(b[q].role = "figure_caption")}
               x == IF open = {} THEN n + 1 ELSE Min(open)
    <3>1. e = x - 1
      BY DEF CaptionsEnd, Past
    <3>2. open \in SUBSET (j..n) /\ j \in 1..(n + 1) /\ j \notin open
      BY <1>3, <2>1, <2>3 DEF IsCaption
    <3>3. x \in j..(n + 1) /\ (x <= n => x \in open)
      <4> HIDE DEF open, n
      <4> QED
        BY <2>1, <3>2, FirstOpen
    <3>4. x # j
      <4> HIDE DEF x
      <4> QED
        BY <2>3, <3>2, <3>3
    <3> HIDE DEF x, n, open, e
    <3> QED
      BY <2>1, <2>3, <3>1, <3>3, <3>4
  <2> HIDE DEF e
  <2>5. d \in 0..n /\ d > e
    <3> DEFINE reach == (e + 1) .. Min({Len(b), e + Lookahead})
               prose(c) == \A k \in (e + 1) .. c : b[k].obj = "blank" \/ b[k].role = "body"
               found == {c \in reach : prose(c) /\ Mentions(b[c], b[j].fig)}
               old == \E k \in 1 .. (i - 1) : Mentions(b[k], b[j].fig)
    <3>1. d = IF old \/ found = {} THEN 0 ELSE Min(found)
      BY DEF Description
    <3>2. found # {} /\ d = Min(found)
      <4> HIDE DEF found, old, d
      <4> QED
        BY <1>3, <3>1
    <3>3. Min({Len(b), e + Lookahead}) <= n
      <4>1. {Len(b), e + Lookahead} \in SUBSET Nat /\ {Len(b), e + Lookahead} # {}
        BY <2>1, <2>3, <2>4, BoundsAssumption
      <4> QED
        BY <4>1, MinOf
    <3>4. e \in Nat /\ Min({Len(b), e + Lookahead}) \in Nat
      <4>1. {Len(b), e + Lookahead} \in SUBSET Nat /\ {Len(b), e + Lookahead} # {} /\ e \in Nat
        BY <2>1, <2>3, <2>4, BoundsAssumption
      <4> QED
        BY <4>1, MinOf
    <3>5. found \in SUBSET Nat /\ \A c \in found : c > e /\ c <= n
      <4>1. \A c \in reach : c \in Nat /\ c > e /\ c <= n
        <5> DEFINE m == Min({Len(b), e + Lookahead})
        <5>1. m \in Nat /\ m <= n
          BY <3>3, <3>4
        <5> HIDE DEF m
        <5> QED
          BY <2>1, <3>4, <5>1 DEF m
      <4>2. found \subseteq reach
        OBVIOUS
      <4> HIDE DEF found, reach
      <4> QED
        BY <4>1, <4>2
    <3> HIDE DEF found, d
    <3>6. d \in found
      BY <3>2, <3>5, MinOf
    <3> QED
      BY <2>1, <3>5, <3>6
  <2>6. i \in 1..n /\ e \in i..n /\ d \in 0..n /\ (d > e \/ d < i)
    BY <2>1, <2>3, <2>4, <2>5
  <2> HIDE DEF d, stays
  <2>7. Holds(Moved(b, i, e, d), S, A) /\ ToSet(Moved(b, i, e, d)) = ToSet(b)
    BY <2>6, MovedHolds
  <2> QED
    BY <1>1, <1>3, <2>7
<1> QED
  BY <1>2, <1>3

\* The last place up to k that is open; 0 if there is none.
LEMMA LastOpen ==
    ASSUME NEW k \in Nat, NEW open \in SUBSET (1..k), NEW x,
           x = IF open = {} THEN 0 ELSE Max(open)
    PROVE  x \in 0..k /\ (x # 0 => x \in open)
<1>1. open \in SUBSET Nat /\ \A y \in open : y <= k
  OBVIOUS
<1>2. CASE open # {}
  <2>1. Max(open) \in open
    BY <1>1, <1>2, MaxOf
  <2> QED
    BY <1>2, <2>1
<1>3. CASE open = {}
  BY <1>3
<1> QED
  BY <1>2, <1>3

\* The caption of a table stands above it, and the anchor above the caption.
LEMMA TableCaptionAbove ==
    ASSUME NEW b, NEW t \in Nat \ {0}
    PROVE  /\ TableCaption(b, t) \in 0..(t - 1)
           /\ TableCaption(b, t) # 0 => ~Textless(b[TableCaption(b, t)])
<1> DEFINE k == t - 1
           open == {i \in 1..(t - 1) : ~Textless(b[i])}
           c == IF open = {} THEN 0 ELSE Max(open)
<1>1. TableCaption(b, t) = IF c > 0 /\ b[c].role = "table_caption" THEN c ELSE 0
  BY DEF TableCaption, Before
<1>2. k \in Nat /\ open \in SUBSET (1..k)
  OBVIOUS
<1>3. \A i \in open : ~Textless(b[i])
  OBVIOUS
<1> HIDE DEF k, open
<1>4. c \in 0..k /\ (c # 0 => c \in open)
  <2> DEFINE x == c
  <2>1. x = IF open = {} THEN 0 ELSE Max(open)
    OBVIOUS
  <2> HIDE DEF x
  <2>2. x \in 0..k /\ (x # 0 => x \in open)
    BY <1>2, <2>1, LastOpen
  <2> QED
    BY <2>2 DEF x
<1> HIDE DEF c
<1>5. TableCaption(b, t) = c \/ TableCaption(b, t) = 0
  BY <1>1
<1>6. 0 \in 0..k
  BY <1>2
<1> QED
  BY <1>3, <1>4, <1>5, <1>6 DEF k

LEMMA FloatAnchorAbove ==
    ASSUME NEW b, NEW c \in Nat \ {0}, NEW max
    PROVE  FloatAnchor(b, c, max) \in 0..(c - 1)
<1> DEFINE k == c - 1
           skipped(x) == Textless(x) \/ (HasText(x) /\ x.role = "body")
           open == {i \in 1..(c - 1) : ~skipped(b[i])}
           a == IF open = {} THEN 0 ELSE Max(open)
           crossed == Cardinality({q \in (a + 1) .. (c - 1) : HasText(b[q])})
<1>1. FloatAnchor(b, c, max)
        = IF a > 0 /\ HasText(b[a]) /\ b[a].role = "figure_caption" /\ crossed \in 1 .. max
          THEN a ELSE 0
  BY DEF FloatAnchor, Before
<1>2. k \in Nat /\ open \in SUBSET (1..k)
  OBVIOUS
<1> HIDE DEF k, open
<1>3. a \in 0..k
  <2> DEFINE x == a
  <2>1. x = IF open = {} THEN 0 ELSE Max(open)
    OBVIOUS
  <2> HIDE DEF x
  <2>2. x \in 0..k
    BY <1>2, <2>1, LastOpen
  <2> QED
    BY <2>2 DEF x
<1>4. 0 \in 0..k
  BY <1>2
<1> HIDE DEF a, crossed
<1>5. FloatAnchor(b, c, max) = a \/ FloatAnchor(b, c, max) = 0
  BY <1>1
<1> QED
  BY <1>3, <1>4, <1>5 DEF k

\* A table moves up with its caption, or stays.
LEMMA TableFloatedHolds ==
    ASSUME NEW b, NEW S, NEW A, Holds(b, S, A), NEW max,
           NEW items, \E i \in 1..Len(b) : b[i].items = items
    PROVE  Holds(TableFloated(b, items, max), S, A)
           /\ ToSet(TableFloated(b, items, max)) = ToSet(b)
<1> DEFINE n == Len(b)
           t == PlaceOf(b, items)
           c == TableCaption(b, t)
           a == FloatAnchor(b, c, max)
           p == Past(b, a + 1, Textless)
           stays == c = 0 \/ a = 0
<1>1. TableFloated(b, items, max) = IF stays THEN b ELSE Moved(b, c, t, p - 1)
  BY DEF TableFloated
<1>2. CASE stays
  BY <1>1, <1>2
<1>3. CASE ~stays
  <2>1. n \in Nat /\ t \in 1..n
    BY Places, PlaceFound
  <2> HIDE DEF t
  <2>2. c \in 1..(t - 1) /\ ~Textless(b[c])
    <3>1. t \in Nat \ {0}
      BY <2>1
    <3>2. c \in 0..(t - 1) /\ (c # 0 => ~Textless(b[c]))
      BY <3>1, TableCaptionAbove
    <3> HIDE DEF c
    <3> QED
      BY <1>3, <2>1, <3>2
  <2> HIDE DEF c
  <2>3. a \in 1..(c - 1)
    <3>1. c \in Nat \ {0}
      BY <2>1, <2>2
    <3>2. a \in 0..(c - 1)
      BY <3>1, FloatAnchorAbove
    <3> HIDE DEF a
    <3> QED
      BY <1>3, <3>1, <3>2
  <2> HIDE DEF a
  <2>4. p \in (a + 1)..c
    <3> DEFINE k == a + 1
               open == {i \in (a + 1)..Len(b) : ~Textless(b[i])}
    <3>1. p = IF open = {} THEN n + 1 ELSE Min(open)
      BY DEF Past
    <3>2. open \in SUBSET (k..n) /\ k \in 1..(n + 1) /\ c \in open
      BY <2>1, <2>2, <2>3
    <3> HIDE DEF open, p, n, k
    <3>3. p \in k..(n + 1)
      BY <2>1, <3>1, <3>2, FirstOpen
    <3>4. p <= c
      <4>1. open \in SUBSET Nat /\ open # {} /\ p = Min(open)
        BY <2>1, <3>1, <3>2
      <4> QED
        BY <3>2, <4>1, MinOf
    <3> QED
      BY <2>1, <2>3, <3>2, <3>3, <3>4 DEF k
  <2> DEFINE after == p - 1
  <2> HIDE DEF p, n
  <2>5. c \in 1..n /\ t \in c..n /\ after \in 0..n /\ after < c
    BY <2>1, <2>2, <2>3, <2>4
  <2> HIDE DEF after, stays
  <2>6. Holds(Moved(b, c, t, after), S, A) /\ ToSet(Moved(b, c, t, after)) = ToSet(b)
    BY <2>5, MovedHolds DEF n
  <2> QED
    BY <1>1, <1>3, <2>6 DEF after
<1> QED
  BY <1>2, <1>3

\* Section marks are put between the nodes.
LEMMA FrontClosedHolds ==
    ASSUME NEW b, NEW S, NEW A, Holds(b, S, A)
    PROVE  Holds(FrontClosed(b), S, A)
<1> DEFINE n == Len(b)
           s == BodyStart(b)
           I == {i \in 1..Len(b) : b[i].zone = "body"}
<1>1. s = IF I # {} THEN Min(I) ELSE 0
  BY DEF BodyStart, SelectInSeq
<1>2. n \in Nat /\ I \in SUBSET (1..n)
  BY Places
<1> HIDE DEF I, n, s
<1>3. s \in 0..n
  BY <1>1, <1>2, SelectedIn
<1>4. FrontClosed(b) = IF s = 0 THEN b ELSE InsertAt(b, s, Mark(1))
  BY DEF FrontClosed, s
<1>5. CASE s = 0
  BY <1>4, <1>5
<1>6. CASE s # 0
  <2>1. s \in 1..(n + 1)
    BY <1>2, <1>3, <1>6
  <2>2. Mark(1) \in Fitting(S) /\ Contents[Mark(1)] = {}
    BY SpacerFits
  <2>3. Holds(InsertAt(b, s, Mark(1)), S, A)
    BY <2>1, <2>2, InsertHolds DEF n
  <2> QED
    BY <1>4, <1>6, <2>3
<1> QED
  BY <1>5, <1>6

LEMMA SpansMarkedHolds ==
    ASSUME NEW b, NEW S, NEW A, Holds(b, S, A), template \in Profile, NEW spans
    PROVE  Holds(SpansMarked(b, spans), S, A)
<1>0. template.columns \in 1..2
  BY DEF Profile
<1> DEFINE n == Len(b)
           opens(i) == \E k \in DOMAIN spans : spans[k][1] = i
           ends(i) == \E k \in DOMAIN spans : spans[k][2] = i
           before(i) == IF opens(i) THEN <<Mark(template.columns)>> ELSE << >>
           behind(i) == IF ends(i) THEN <<Mark(1)>> ELSE << >>
           ss == [i \in 1..n |-> before(i) \o <<b[i]>> \o behind(i)]
           B == [i \in 1..n |-> Contents[b[i]]]
<1>1. /\ n \in Nat /\ DOMAIN b = 1..n /\ Across(b, Contents, 1..n) = A
      /\ Apartness(b, Contents, 1..n) /\ \A i \in 1..n : b[i] \in Fitting(S)
  BY Places
<1>2. SpansMarked(b, spans) = FlattenSeq(ss)
  BY <1>1 DEF SpansMarked
<1>3. /\ Mark(1) \in Fitting(S) /\ Contents[Mark(1)] = {}
      /\ Mark(template.columns) \in Fitting(S) /\ Contents[Mark(template.columns)] = {}
  <2>1. 1 \in 0..2 /\ template.columns \in 0..2
    BY <1>0
  <2> QED
    BY <2>1, SpacerFits
<1>4. ASSUME NEW i \in 1..n PROVE Holds(ss[i], S, Contents[b[i]])
  <2> DEFINE p == before(i)
             q == behind(i)
             x == b[i]
  <2>1. Holds(p, S, {}) /\ Holds(q, S, {})
    BY <1>3, NodeHolds
  <2>2. ss[i] = p \o <<x>> \o q
    OBVIOUS
  <2> HIDE DEF p, q, ss
  <2>3. Holds(<<x>>, S, Contents[x])
    BY <1>1, NodeHolds
  <2>4. Holds(p \o <<x>>, S, {} \cup Contents[x])
    BY <2>1, <2>3, ConcatHolds
  <2>5. Holds(p \o <<x>> \o q, S, ({} \cup Contents[x]) \cup {})
    BY <2>1, <2>4, ConcatHolds
  <2>6. ({} \cup Contents[x]) \cup {} = Contents[x]
    OBVIOUS
  <2> QED
    BY <2>2, <2>5, <2>6
<1>5. /\ DOMAIN ss = 1..n /\ ss = [i \in 1..n |-> ss[i]]
      /\ \A i \in 1..n : B[i] = Contents[b[i]]
  OBVIOUS
<1>6. Altogether(B, n) = A
  BY <1>1, <1>5 DEF Altogether, Across
<1> HIDE DEF ss, B, n
<1>7. \A i \in 1..n : Holds(ss[i], S, B[i])
  BY <1>4, <1>5
<1>8. \A i, j \in 1..n : i # j => B[i] \cap B[j] = {}
  BY <1>1, <1>5 DEF Apartness
<1>9. Holds(FlattenSeq(ss), S, Altogether(B, n))
  BY <1>1, <1>5, <1>7, <1>8, FlattenHolds
<1> QED
  BY <1>2, <1>6, <1>9

\* Nodes wrapped in a row.
LEMMA RowHolds ==
    ASSUME NEW s, NEW S, NEW A, Tidy(s, Single, Contents, A), Len(s) # 0
    PROVE  LET row == [Joined(s) EXCEPT !.obj = "row", !.role = "none", !.zone = "none"]
           IN  Holds(<<row>>, S, A)
<1> DEFINE j == Joined(s)
           row == [j EXCEPT !.obj = "row", !.role = "none", !.zone = "none"]
<1>1. j \in Single /\ Contents[j] = A
  BY JoinedHolds
<1>2. j \in Node /\ Lists(j.items, A)
  BY <1>1, ItemsListed
<1>3. "none" \in Role
  BY DEF Role
<1> HIDE DEF j
<1>4. row \in Node /\ row.items = j.items /\ row.obj = "row" /\ row.role = "none"
  BY <1>2, <1>3 DEF Node
<1> HIDE DEF row
<1>5. row \in Single /\ Contents[row] = A
  BY <1>2, <1>4, ListsSingle
<1>6. row \in Fitting(S)
  BY <1>4, <1>5, Fits DEF Metadata, MayGo
<1>7. Holds(<<row>>, S, A)
  BY <1>5, <1>6, NodeHolds
<1> QED
  BY <1>7 DEF row, j

\* A picture and the captions behind it become one row; the other pictures
\* stay.
LEMMA PictureWrappedHolds ==
    ASSUME NEW b, NEW S, NEW A, Holds(b, S, A),
           NEW items, \E i \in 1..Len(b) : b[i].items = items
    PROVE  /\ Holds(PictureWrapped(b, items), S, A)
           /\ \A q \in 1..Len(b) : b[q].obj = "picture" /\ b[q].items # items =>
                 b[q] \in ToSet(PictureWrapped(b, items))
<1> DEFINE n == Len(b)
           i == PlaceOf(b, items)
           j == Past(b, i + 1, LAMBDA x : x.obj = "blank")
           p == Past(b, j + 1, LAMBDA x : x.role = "figure_caption" /\ x.group = b[j].group)
           e == p - 1
           row == [Joined(SubSeq(b, i, e)) EXCEPT !.obj = "row", !.role = "none", !.zone = "none"]
           stays == j > Len(b) \/ b[j].role # "figure_caption"
           c == SubSeq(b, 1, i - 1) \o <<row>> \o SubSeq(b, e + 1, Len(b))
<1>1. PictureWrapped(b, items) = IF stays THEN b ELSE c
  BY DEF PictureWrapped
<1>2. /\ b \in Seq(Fitting(S)) /\ n \in Nat /\ DOMAIN b = 1..n
      /\ Across(b, Contents, 1..n) = A /\ Tidy(b, Single, Contents, A)
      /\ \A q \in 1..n : b[q] \in Fitting(S)
  BY Places
<1>3. CASE stays
  BY <1>1, <1>2, <1>3 DEF ToSet
<1>4. CASE ~stays
  <2>1. i \in 1..n /\ b[i].items = items
    BY <1>2, PlaceFound
  <2> HIDE DEF i
  <2>2. j \in (i + 1)..(n + 1) /\ \A q \in (i + 1)..n : q < j => b[q].obj = "blank"
    <3> DEFINE open == {q \in (i + 1)..Len(b) : ~(b[q].obj = "blank")}
               k == i + 1
    <3>1. j = IF open = {} THEN n + 1 ELSE Min(open)
      BY DEF Past
    <3>2. open \in SUBSET (k..n) /\ k \in 1..(n + 1)
      BY <1>2, <2>1
    <3>3. \A q \in k..n : q \notin open => b[q].obj = "blank"
      OBVIOUS
    <3> HIDE DEF open, j, n, k
    <3>4. j \in k..(n + 1) /\ \A y \in k..n : y < j => y \notin open
      BY <1>2, <3>1, <3>2, FirstOpen, SMTT(30)
    <3> QED
      BY <3>3, <3>4 DEF k
  <2>3. j \in 1..n /\ j >= i + 1 /\ b[j].role = "figure_caption"
    BY <1>4, <1>2, <2>1, <2>2
  <2> HIDE DEF j
  <2>4. p \in (j + 1)..(n + 1) /\ \A q \in (j + 1)..n : q < p => b[q].role = "figure_caption"
    <3> DEFINE open == {q \in (j + 1)..Len(b) :
                           ~(b[q].role = "figure_caption" /\ b[q].group = b[j].group)}
               k == j + 1
    <3>1. p = IF open = {} THEN n + 1 ELSE Min(open)
      BY DEF Past
    <3>2. open \in SUBSET (k..n) /\ k \in 1..(n + 1)
      BY <1>2, <2>3
    <3>3. \A q \in k..n : q \notin open => b[q].role = "figure_caption"
      OBVIOUS
    <3> HIDE DEF open, p, n, k
    <3>4. p \in k..(n + 1) /\ \A y \in k..n : y < p => y \notin open
      BY <1>2, <3>1, <3>2, FirstOpen, SMTT(30)
    <3> QED
      BY <3>3, <3>4 DEF k
  <2> HIDE DEF p
  <2>5. /\ e \in Nat /\ i \in Nat /\ i <= e /\ e <= n
        /\ \A q \in (i + 1)..e : b[q].obj = "blank" \/ b[q].role = "figure_caption"
    BY <1>2, <2>1, <2>2, <2>3, <2>4
  <2> DEFINE h == i - 1
             t == e + 1
             s1 == SubSeq(b, 1, h)
             s2 == SubSeq(b, i, e)
             s3 == SubSeq(b, t, n)
  <2> HIDE DEF e, n
  <2>6. /\ h \in Nat /\ t \in Nat /\ 1 \in Nat
        /\ 1 <= h + 1 /\ h <= n /\ 1 <= i /\ i <= e + 1 /\ e <= n /\ 1 <= t /\ t <= n + 1
    BY <1>2, <2>1, <2>5
  <2>7. /\ 1..h \in SUBSET (1..n) /\ i..e \in SUBSET (1..n) /\ t..n \in SUBSET (1..n)
        /\ (1..h) \cap (i..e) = {} /\ ((1..h) \cup (i..e)) \cap (t..n) = {}
        /\ (1..h) \cup (i..e) \cup (t..n) = 1..n
    BY <1>2, <2>1, <2>5
  <2>8. c = s1 \o <<row>> \o s3
    BY DEF n
  <2> HIDE DEF h, t
  <2>9. IsPart(b, S, s1, 1..h)
    BY <2>6, StretchIsPart DEF n
  <2>10. IsPart(b, S, s3, t..n)
    BY <1>2, <2>6, StretchIsPart DEF n
  <2>11. Tidy(s2, Single, Contents, Across(b, Contents, i..e)) /\ Len(s2) # 0
    <3>1. b \in Seq(Single) /\ Apartness(b, Contents, 1..Len(b))
      BY <1>2 DEF Tidy
    <3>2. Apartness(b, Contents, i..e)
      BY <2>7, <3>1 DEF Apartness, n
    <3>3. Tidy(s2, Single, Contents, Across(b, Contents, i..e))
      BY <2>5, <2>6, <3>1, <3>2, TidySubSeq DEF n
    <3>4. Len(s2) = e + 1 - i
      BY <2>5, <2>6, <3>1, <3>2, TidySubSeq DEF n
    <3>5. e + 1 - i # 0
      BY <1>2, <2>1, <2>5
    <3> HIDE DEF s2
    <3> QED
      BY <3>3, <3>4, <3>5
  <2> HIDE DEF s1, s3
  <2>12. Holds(<<row>>, S, Across(b, Contents, i..e))
    <3> HIDE DEF s2
    <3>1. row = [Joined(s2) EXCEPT !.obj = "row", !.role = "none", !.zone = "none"]
      BY DEF s2
    <3>2. Holds(<<[Joined(s2) EXCEPT !.obj = "row", !.role = "none", !.zone = "none"]>>, S,
                Across(b, Contents, i..e))
      BY <2>11, RowHolds
    <3> QED
      BY <3>1, <3>2
  <2> HIDE DEF row, c, s2, stays
  <2> DEFINE T1 == 1..h
             T2 == i..e
             T3 == t..n
  <2>13. /\ T1 \in SUBSET (1..Len(b)) /\ T2 \in SUBSET (1..Len(b)) /\ T3 \in SUBSET (1..Len(b))
         /\ T1 \cap T2 = {} /\ (T1 \cup T2) \cap T3 = {} /\ T1 \cup T2 \cup T3 = 1..Len(b)
         /\ Holds(s1, S, Across(b, Contents, T1)) /\ Holds(<<row>>, S, Across(b, Contents, T2))
         /\ Holds(s3, S, Across(b, Contents, T3))
    BY <2>7, <2>9, <2>10, <2>12 DEF n, IsPart
  <2> HIDE DEF T1, T2, T3
  <2>14. Holds(s1 \o <<row>>, S, Across(b, Contents, T1 \cup T2))
    BY <2>13, ConcatPlaces
  <2>15. Holds(s1 \o <<row>> \o s3, S, Across(b, Contents, T1 \cup T2 \cup T3))
    BY <2>13, <2>14, ConcatPlaces
  <2>16. Holds(c, S, A)
    BY <1>2, <2>8, <2>13, <2>15 DEF n
  <2>17. ASSUME NEW q \in 1..n, b[q].obj = "picture", b[q].items # items
         PROVE  b[q] \in ToSet(c)
    <3>1. q \notin T2
      <4>1. q # i
        BY <2>1, <2>17
      <4>2. b[q].role = "figure"
        BY <1>2, <2>17 DEF Fitting
      <4>3. q \notin (i + 1)..e
        BY <2>5, <2>17, <4>2
      <4> QED
        BY <1>2, <2>1, <2>5, <4>1, <4>3 DEF T2
    <3>2. q \in T1 \/ q \in T3
      BY <2>13, <3>1 DEF n
    <3>3. b[q] \in ToSet(s1) \/ b[q] \in ToSet(s3)
      BY <2>9, <2>10, <3>2 DEF IsPart, T1, T3
    <3>4. s1 \in Seq(Fitting(S)) /\ s3 \in Seq(Fitting(S)) /\ <<row>> \in Seq(Fitting(S))
      BY <2>9, <2>10, <2>12 DEF IsPart, Holds, Tidy
    <3> DEFINE s12 == s1 \o <<row>>
    <3>5. s12 \in Seq(Fitting(S)) /\ ToSet(s12) = ToSet(s1) \cup ToSet(<<row>>)
      BY <3>4, ConcatSet
    <3> HIDE DEF s12
    <3>6. ToSet(s12 \o s3) = ToSet(s12) \cup ToSet(s3)
      BY <3>4, <3>5, ConcatSet
    <3>7. c = s12 \o s3
      BY <2>8 DEF s12
    <3> QED
      BY <3>3, <3>5, <3>6, <3>7
  <2> QED
    BY <1>1, <1>4, <2>16, <2>17 DEF n
<1> QED
  BY <1>3, <1>4

-----------------------------------------------------------------------------
(* What a pass has still to place.                                         *)

\* The objects of a pass; with pieces of their own, no two are the same.
LEMMA ObjectsListed ==
    ASSUME NEW b, NEW S, NEW A, Holds(b, S, A), NEW T \in SUBSET (1..Len(b))
    PROVE  /\ Objects(b, T) \in Seq({b[i].items : i \in T})
           /\ Objects(b, T) \in Seq(Seq(Piece))
           /\ (\A i \in T : b[i].items # << >>) =>
                 \A k, l \in 1..Len(Objects(b, T)) :
                    Objects(b, T)[k] = Objects(b, T)[l] => k = l
<1> DEFINE n == Len(b)
           f == [i \in 1..n |-> b[i].items]
           o == Objects(b, T)
           None == [x \in Seq(Piece) |-> {}]
           One == [x \in Seq(Piece) |-> {x}]
<1>1. /\ n \in Nat /\ DOMAIN b = 1..n /\ Apartness(b, Contents, 1..n)
      /\ \A i \in 1..n : b[i] \in Single
  BY Places
<1>2. o = Picked(f, T)
  BY <1>1 DEF Objects
<1>3. \A i \in 1..n : b[i].items \in Seq(Piece)
  BY <1>1, ItemsListed
<1>4. f \in Seq(Seq(Piece)) /\ Len(f) = n /\ \A i \in 1..n : f[i] = b[i].items
  <2>1. f \in [1..n -> Seq(Piece)]
    BY <1>3
  <2> HIDE DEF n
  <2>2. f \in Seq(Seq(Piece)) /\ Len(f) = n
    BY <1>1, <2>1, Elements
  <2> QED
    BY <2>2
<1>5. T \in SUBSET (1..Len(f))
  BY <1>4
<1>6. \A x \in Seq(Piece) : None[x] = {} /\ One[x] = {x}
  OBVIOUS
<1> HIDE DEF f, o, None, One, n
<1>7. o \in Seq({f[i] : i \in T}) /\ o \in Seq(Seq(Piece))
  <2>1. Apartness(f, None, T)
    BY <1>3, <1>4, <1>5, <1>6 DEF Apartness
  <2> DEFINE R == Seq(Piece)
  <2>4. f \in Seq(R)
    BY <1>4
  <2> HIDE DEF R
  <2>2. /\ Tidy(Picked(f, T), R, None, Across(f, None, T))
        /\ Picked(f, T) \in Seq({f[i] : i \in T})
    BY <1>5, <2>1, <2>4, TidyPicked
  <2> QED
    BY <1>2, <2>2 DEF Tidy, R
<1>8. {f[i] : i \in T} = {b[i].items : i \in T}
  BY <1>4, <1>5
<1>9. ASSUME \A i \in T : b[i].items # << >>,
             NEW k \in 1..Len(o), NEW l \in 1..Len(o), o[k] = o[l]
      PROVE  k = l
  <2>1. Apartness(f, One, T)
    <3>1. ASSUME NEW i \in T, NEW j \in T, i # j PROVE f[i] # f[j]
      <4>1. i \in 1..n /\ j \in 1..n
        BY <1>4, <1>5, <3>1
      <4>2. Contents[b[i]] \cap Contents[b[j]] = {} /\ Contents[b[i]] # {}
        BY <1>1, <1>9, <3>1, <4>1, ItemsListed DEF Apartness
      <4>3. Contents[b[i]] = ToSet(b[i].items) /\ Contents[b[j]] = ToSet(b[j].items)
        BY <1>1, <4>1, ItemsListed
      <4> QED
        BY <1>4, <4>1, <4>2, <4>3
    <3>2. \A i \in T : One[f[i]] = {f[i]}
      BY <1>3, <1>4, <1>5, <1>6
    <3>3. ASSUME NEW i \in T, NEW j \in T, i # j PROVE One[f[i]] \cap One[f[j]] = {}
      <4>1. f[i] # f[j] /\ One[f[i]] = {f[i]} /\ One[f[j]] = {f[j]}
        BY <3>1, <3>2, <3>3
      <4> QED
        BY <4>1
    <3> QED
      BY <3>3 DEF Apartness
  <2>2. Tidy(Picked(f, T), Seq(Piece), One, Across(f, One, T))
    BY <1>4, <1>5, <2>1, TidyPicked
  <2>3. Apartness(o, One, 1..Len(o)) /\ o \in Seq(Seq(Piece))
    BY <1>2, <2>2 DEF Tidy
  <2>4. One[o[k]] = {o[k]} /\ One[o[l]] = {o[l]}
    BY <1>6, <2>3
  <2> QED
    BY <1>9, <2>3, <2>4 DEF Apartness
<1> QED
  BY <1>7, <1>8, <1>9 DEF o

\* The next one and the others.
LEMMA HeadAndTail ==
    ASSUME NEW X, NEW s \in Seq(X), s # << >>
    PROVE  /\ Head(s) \in ToSet(s) /\ Tail(s) \in Seq(X) /\ ToSet(Tail(s)) \subseteq ToSet(s)
           /\ (\A k, l \in 1..Len(s) : s[k] = s[l] => k = l) =>
                 /\ Head(s) \notin ToSet(Tail(s))
                 /\ \A k, l \in 1..Len(Tail(s)) : Tail(s)[k] = Tail(s)[l] => k = l
<1> DEFINE m == Len(s)
           t == Tail(s)
<1>1. /\ m \in Nat \ {0} /\ DOMAIN s = 1..m /\ Head(s) = s[1]
      /\ t \in Seq(X) /\ Len(t) = m - 1 /\ \A k \in 1..(m - 1) : t[k] = s[k + 1]
  BY HeadTailProperties
<1>2. DOMAIN t = 1..(m - 1)
  BY <1>1
<1> HIDE DEF m, t
<1>3. ToSet(s) = {s[k] : k \in 1..m} /\ ToSet(t) = {t[k] : k \in 1..(m - 1)}
  BY <1>1, <1>2 DEF ToSet
<1>4. \A k \in 1..(m - 1) : k + 1 \in 1..m /\ k + 1 # 1
  BY <1>1
<1>5. 1 \in 1..m
  BY <1>1
<1>6. Head(s) \in ToSet(s) /\ ToSet(t) \subseteq ToSet(s)
  BY <1>1, <1>3, <1>4, <1>5
<1>7. ASSUME \A k, l \in 1..m : s[k] = s[l] => k = l
      PROVE  Head(s) \notin ToSet(t) /\ \A k, l \in 1..(m - 1) : t[k] = t[l] => k = l
  <2>1. \A k \in 1..(m - 1) : t[k] # s[1]
    BY <1>1, <1>4, <1>5, <1>7
  <2>2. ASSUME NEW k \in 1..(m - 1), NEW l \in 1..(m - 1), t[k] = t[l] PROVE k = l
    <3>1. s[k + 1] = s[l + 1]
      BY <1>1, <2>2
    <3>2. k + 1 = l + 1
      BY <1>4, <1>7, <2>2, <3>1
    <3> QED
      BY <1>1, <3>2
  <2> QED
    BY <1>1, <1>3, <2>1, <2>2
<1> QED
  BY <1>1, <1>6, <1>7 DEF m, t

-----------------------------------------------------------------------------
(* The texts on the authors, side by side.                                 *)

\* A set of two elements is the pair of them.
LEMMA PairOfTwo ==
    ASSUME NEW n \in Nat, NEW T \in SUBSET (1..n), Cardinality(T) = 2,
           NEW a \in T, NEW c \in T, a # c
    PROVE  T = {a, c}
<1>1. IsFiniteSet(T)
  <2>1. 1 \in Int /\ n \in Int
    OBVIOUS
  <2>2. IsFiniteSet(1..n)
    BY <2>1, FS_Interval
  <2> QED
    BY <2>2, FS_Subset
<1>2. IsFiniteSet(T \ {a}) /\ Cardinality(T \ {a}) = 1
  BY <1>1, FS_RemoveElement
<1>3. c \in T \ {a}
  OBVIOUS
<1>4. IsFiniteSet((T \ {a}) \ {c}) /\ Cardinality((T \ {a}) \ {c}) = 0
  BY <1>2, <1>3, FS_RemoveElement
<1>5. (T \ {a}) \ {c} = {}
  BY <1>4, FS_EmptySet
<1>6. ASSUME NEW x \in T PROVE x \in {a, c}
  <2>1. x \notin (T \ {a}) \ {c}
    BY <1>5
  <2> QED
    BY <2>1
<1> QED
  BY <1>6

\* Parts of a body whose nodes need not fit, as after the recovery.
LEMMA TidyPlaces ==
    ASSUME NEW b, NEW A, Tidy(b, Single, Contents, A), NEW s, NEW t,
           NEW T \in SUBSET (1..Len(b)), NEW U \in SUBSET (1..Len(b)), T \cap U = {}
    PROVE  /\ Tidy(s, Single, Contents, Across(b, Contents, T))
              /\ Tidy(t, Single, Contents, Across(b, Contents, U))
              => Tidy(s \o t, Single, Contents, Across(b, Contents, T \cup U))
           /\ Lists(s, Across(b, Contents, T)) /\ Lists(t, Across(b, Contents, U))
              => Lists(s \o t, Across(b, Contents, T \cup U))
<1>1. Apartness(b, Contents, 1..Len(b))
  BY DEF Tidy
<1>2. Apartness(b, Contents, T \cup U)
  BY <1>1 DEF Apartness
<1> DEFINE B == Across(b, Contents, T)
           C == Across(b, Contents, U)
<1>3. B \cap C = {} /\ Across(b, Contents, T \cup U) = B \cup C
  BY <1>2, AcrossPlaces
<1> HIDE DEF B, C
<1>4. Tidy(s, Single, Contents, B) /\ Tidy(t, Single, Contents, C)
      => Tidy(s \o t, Single, Contents, B \cup C)
  BY <1>3, TidyConcat
<1>5. Lists(s, B) /\ Lists(t, C) => Lists(s \o t, B \cup C)
  BY <1>3, ListsConcat
<1> QED
  BY <1>3, <1>4, <1>5 DEF B, C

LEMMA TidyStretch ==
    ASSUME NEW b, NEW A, Tidy(b, Single, Contents, A), NEW i \in Nat, NEW j \in Nat,
           1 <= i, i <= j + 1, j <= Len(b)
    PROVE  Tidy(SubSeq(b, i, j), Single, Contents, Across(b, Contents, i..j))
<1>1. b \in Seq(Single) /\ Apartness(b, Contents, 1..Len(b)) /\ Len(b) \in Nat
  BY LenProperties DEF Tidy
<1>2. i..j \in SUBSET (1..Len(b))
  BY <1>1
<1>3. Apartness(b, Contents, i..j)
  BY <1>1, <1>2 DEF Apartness
<1> QED
  BY <1>1, <1>3, TidySubSeq

\* The two texts change their places and their nodes, and lose nothing.
LEMMA AuthorsHold ==
    ASSUME NEW b, NEW A, Tidy(b, Single, Contents, A)
    PROVE  Tidy(AuthorsSideBySide(b), Single, Contents, A)
<1> DEFINE n == Len(b)
           heads == {i \in DOMAIN b : b[i].role = "author_information"}
           isBio(x) == x.role = "author_bio"
           head(l) == CHOOSE i \in heads : b[i].lang = l
           end(i) == Past(b, i + 1, isBio) - 1
           bios(l) == SubSeq(b, head(l) + 1, end(head(l)))
           first == Min(heads)
           second == Max(heads)
           a == head("en")
           c == head("ru")
           line == Joined(<<b[a], b[c]>>)
           row == [Spacer EXCEPT !.obj = "row", !.role = "none", !.zone = "none",
                     !.items = Flow(bios("en")) \o Flow(bios("ru"))]
           joins == /\ Cardinality(heads) = 2 /\ {b[i].lang : i \in heads} = {"en", "ru"}
                    /\ bios("en") # << >> /\ bios("ru") # << >> /\ end(first) + 1 = second
           new == SubSeq(b, 1, first - 1) \o <<line, row>> \o SubSeq(b, end(second) + 1, Len(b))
<1>1. AuthorsSideBySide(b) = IF joins THEN new ELSE b
  BY DEF AuthorsSideBySide
<1>2. /\ b \in Seq(Single) /\ n \in Nat /\ DOMAIN b = 1..n
      /\ Across(b, Contents, 1..n) = A
      /\ \A i \in 1..n : b[i] \in Single
  BY LenProperties DEF Tidy
<1>3. CASE joins
  <2>1. heads \in SUBSET (1..n)
    BY <1>2
  <2>2. a \in heads /\ c \in heads /\ a # c
    <3>1. b[a].lang = "en" /\ a \in heads
      <4>1. \E i \in heads : b[i].lang = "en"
        BY <1>3
      <4> QED
        BY <4>1
    <3>2. b[c].lang = "ru" /\ c \in heads
      <4>1. \E i \in heads : b[i].lang = "ru"
        BY <1>3
      <4> QED
        BY <4>1
    <3> HIDE DEF a, c, heads
    <3> QED
      BY <3>1, <3>2
  <2>3. \A x \in 1..n : end(x) \in x..n
    <3>1. ASSUME NEW x \in 1..n PROVE end(x) \in x..n
      <4> DEFINE open == {q \in (x + 1)..Len(b) : ~(b[q].role = "author_bio")}
                 k == x + 1
                 p == Past(b, x + 1, isBio)
      <4>1. p = IF open = {} THEN n + 1 ELSE Min(open)
        BY DEF Past
      <4>2. open \in SUBSET (k..n) /\ k \in 1..(n + 1)
        BY <1>2
      <4>3. end(x) = p - 1
        OBVIOUS
      <4> HIDE DEF open, p, n, k, end
      <4>4. p \in k..(n + 1)
        BY <1>2, <4>1, <4>2, FirstOpen
      <4> QED
        BY <1>2, <4>3, <4>4 DEF k
    <3> QED
      BY <3>1
  <2>4. Cardinality(heads) = 2 /\ end(first) + 1 = second
    BY <1>3
  <2>5. /\ bios("en") = SubSeq(b, a + 1, end(a)) /\ bios("ru") = SubSeq(b, c + 1, end(c))
        /\ bios("en") # << >> /\ bios("ru") # << >>
    BY <1>3
  <2> HIDE DEF a, c, end, joins, heads
  <2>6. heads = {a, c} /\ a \in 1..n /\ c \in 1..n
    <3>1. a \in 1..n /\ c \in 1..n
      BY <2>1, <2>2
    <3> HIDE DEF n
    <3>2. heads = {a, c}
      BY <1>2, <2>1, <2>2, <2>4, PairOfTwo
    <3> QED
      BY <3>1, <3>2
  <2>7. first \in heads /\ second \in heads /\ first <= a /\ first <= c /\ a <= second /\ c <= second
    <3>1. heads \in SUBSET Nat /\ heads # {} /\ \A y \in heads : y <= n
      BY <1>2, <2>1, <2>2
    <3>2. first \in heads /\ \A y \in heads : first <= y
      BY <3>1, MinOf
    <3>3. second \in heads /\ \A y \in heads : y <= second
      BY <1>2, <3>1, MaxOf
    <3> HIDE DEF first, second
    <3> QED
      BY <2>2, <3>2, <3>3
  <2> HIDE DEF first, second
  <2>8. (first = a /\ second = c) \/ (first = c /\ second = a)
    BY <2>2, <2>6, <2>7
  <2> DEFINE g == end(second)
             h == first - 1
             t == g + 1
             Ta == (a + 1)..end(a)
             Tc == (c + 1)..end(c)
             H == {a, c}
             M == H \cup (Ta \cup Tc)
             T1 == 1..h
             T3 == t..n
             s1 == SubSeq(b, 1, h)
             s3 == SubSeq(b, t, n)
  <2>9. /\ end(a) \in a..n /\ end(c) \in c..n /\ g \in second..n
        /\ first \in 1..n /\ second \in 1..n /\ first < second
    BY <1>2, <2>2, <2>3, <2>6, <2>7, <2>8
  <2>10. new = s1 \o <<line, row>> \o s3
    OBVIOUS
  <2> HIDE DEF n, new, bios, line, row
  <2>11. h \in Nat /\ t \in Nat /\ 1 <= h + 1 /\ h <= n /\ 1 <= t /\ t <= n + 1
    BY <1>2, <2>9
  <2>12. Ta \cap Tc = {} /\ H \cap (Ta \cup Tc) = {}
    <3>1. CASE first = a /\ second = c
      <4>1. end(a) + 1 = c /\ a < c
        BY <2>4, <2>9, <3>1
      <4> QED
        BY <1>2, <2>6, <2>9, <4>1
    <3>2. CASE first = c /\ second = a
      <4>1. end(c) + 1 = a /\ c < a
        BY <2>4, <2>9, <3>2
      <4> QED
        BY <1>2, <2>6, <2>9, <4>1
    <3> QED
      BY <2>8, <3>1, <3>2
  <2>13. M = first..g
    <3>1. CASE first = a /\ second = c
      <4>1. end(a) + 1 = c /\ a < c /\ g = end(c)
        BY <2>4, <2>9, <3>1
      <4> HIDE DEF g
      <4> QED
        BY <1>2, <2>6, <2>9, <3>1, <4>1
    <3>2. CASE first = c /\ second = a
      <4>1. end(c) + 1 = a /\ c < a /\ g = end(a)
        BY <2>4, <2>9, <3>2
      <4> HIDE DEF g
      <4> QED
        BY <1>2, <2>6, <2>9, <3>2, <4>1
    <3> QED
      BY <2>8, <3>1, <3>2
  <2> HIDE DEF M, g
  <2>14. /\ T1 \cap M = {} /\ (T1 \cup M) \cap T3 = {} /\ T1 \cup M \cup T3 = 1..n
         /\ T1 \in SUBSET (1..n) /\ M \in SUBSET (1..n) /\ T3 \in SUBSET (1..n)
    BY <1>2, <2>9, <2>13
  <2>15. /\ {a} \in SUBSET (1..n) /\ {c} \in SUBSET (1..n) /\ H \in SUBSET (1..n)
         /\ Ta \in SUBSET (1..n) /\ Tc \in SUBSET (1..n) /\ Ta \cup Tc \in SUBSET (1..n)
    BY <1>2, <2>6, <2>9
  <2>16. line \in Single /\ Contents[line] = Across(b, Contents, H)
    <3>1. b[a] \in Single /\ b[c] \in Single
      BY <1>2, <2>6
    <3>2. Tidy(<<b[a]>>, Single, Contents, Across(b, Contents, {a}))
      <4>1. Tidy(<<b[a]>>, Single, Contents, Contents[b[a]])
        BY <3>1, TidyOne
      <4>2. Across(b, Contents, {a}) = Contents[b[a]]
        BY DEF Across
      <4> QED
        BY <4>1, <4>2
    <3>3. Tidy(<<b[c]>>, Single, Contents, Across(b, Contents, {c}))
      <4>1. Tidy(<<b[c]>>, Single, Contents, Contents[b[c]])
        BY <3>1, TidyOne
      <4>2. Across(b, Contents, {c}) = Contents[b[c]]
        BY DEF Across
      <4> QED
        BY <4>1, <4>2
    <3>4. {a} \cap {c} = {} /\ {a} \cup {c} = H
      BY <2>2
    <3>5. Tidy(<<b[a]>> \o <<b[c]>>, Single, Contents, Across(b, Contents, {a} \cup {c}))
      BY <2>15, <3>2, <3>3, <3>4, TidyPlaces DEF n
    <3>6. <<b[a]>> \o <<b[c]>> = <<b[a], b[c]>>
      BY <3>1, TwoElements
    <3>9. Len(<<b[a], b[c]>>) # 0
      OBVIOUS
    <3> DEFINE s == <<b[a], b[c]>>
    <3>7. Tidy(s, Single, Contents, Across(b, Contents, H)) /\ Len(s) # 0
      <4>1. Tidy(s, Single, Contents, Across(b, Contents, {a} \cup {c}))
        BY <3>5, <3>6
      <4> HIDE DEF s, H
      <4>2. Tidy(s, Single, Contents, Across(b, Contents, H))
        BY <3>4, <4>1
      <4> QED
        BY <3>9, <4>2 DEF s
    <3>8. line = Joined(s)
      BY DEF line
    <3> HIDE DEF s, H
    <3> QED
      BY <3>7, <3>8, JoinedHolds
  <2>17. row \in Single /\ Contents[row] = Across(b, Contents, Ta \cup Tc)
    <3> DEFINE x == bios("en")
               y == bios("ru")
               a1 == a + 1
               c1 == c + 1
               ea == end(a)
               ec == end(c)
    <3>1. /\ a1 \in Nat /\ c1 \in Nat /\ ea \in Nat /\ ec \in Nat
          /\ 1 <= a1 /\ a1 <= ea + 1 /\ ea <= n /\ 1 <= c1 /\ c1 <= ec + 1 /\ ec <= n
      BY <1>2, <2>6, <2>9
    <3>2. x = SubSeq(b, a1, ea) /\ y = SubSeq(b, c1, ec)
      BY <2>5
    <3>3. Ta = a1..ea /\ Tc = c1..ec
      OBVIOUS
    <3>4. row = [Spacer EXCEPT !.obj = "row", !.role = "none", !.zone = "none",
                   !.items = Flow(x) \o Flow(y)]
      BY DEF row
    <3> HIDE DEF a1, c1, ea, ec, x, y, Ta, Tc
    <3>5. Tidy(x, Single, Contents, Across(b, Contents, Ta))
      BY <3>1, <3>2, <3>3, TidyStretch DEF n
    <3>6. Tidy(y, Single, Contents, Across(b, Contents, Tc))
      BY <3>1, <3>2, <3>3, TidyStretch DEF n
    <3>7. Lists(Flow(x), Across(b, Contents, Ta)) /\ Lists(Flow(y), Across(b, Contents, Tc))
      BY <3>5, <3>6, FlowListed
    <3>8. Lists(Flow(x) \o Flow(y), Across(b, Contents, Ta \cup Tc))
      BY <2>12, <2>15, <3>7, TidyPlaces DEF n
    <3> DEFINE its == Flow(x) \o Flow(y)
    <3>9. its \in Seq(Piece) /\ Lists(its, Across(b, Contents, Ta \cup Tc))
      BY <3>8 DEF Lists, Tidy
    <3>10. Spacer \in Node /\ "none" \in Role
      BY SpacerFits DEF Role
    <3>11. row = [Spacer EXCEPT !.obj = "row", !.role = "none", !.zone = "none", !.items = its]
      BY <3>4
    <3> HIDE DEF its
    <3>12. row \in Node /\ row.items = its
      BY <3>9, <3>10, <3>11 DEF Node
    <3> QED
      BY <3>9, <3>12, ListsSingle
  <2> HIDE DEF Ta, Tc, H
  <2>18. Tidy(<<line, row>>, Single, Contents, Across(b, Contents, M))
    <3>1. Tidy(<<line>>, Single, Contents, Across(b, Contents, H))
      BY <2>16, TidyOne
    <3>2. Tidy(<<row>>, Single, Contents, Across(b, Contents, Ta \cup Tc))
      BY <2>17, TidyOne
    <3> DEFINE U == Ta \cup Tc
    <3>3. U \in SUBSET (1..n) /\ H \cap U = {} /\ M = H \cup U
      BY <2>12, <2>15 DEF M
    <3> HIDE DEF U
    <3>4. Tidy(<<line>> \o <<row>>, Single, Contents, Across(b, Contents, H \cup U))
      BY <2>15, <3>1, <3>2, <3>3, TidyPlaces DEF n, U
    <3>5. <<line>> \o <<row>> = <<line, row>>
      BY <2>16, <2>17, TwoElements
    <3> QED
      BY <3>3, <3>4, <3>5
  <2>19. Tidy(s1, Single, Contents, Across(b, Contents, T1))
    <3> HIDE DEF h
    <3> QED
      BY <2>11, TidyStretch DEF n
  <2>20. Tidy(s3, Single, Contents, Across(b, Contents, T3))
    <3> HIDE DEF t
    <3> QED
      BY <1>2, <2>11, TidyStretch DEF n
  <2> HIDE DEF s1, s3, T1, T3
  <2> DEFINE pair == <<line, row>>
  <2>21. Tidy(pair, Single, Contents, Across(b, Contents, M)) /\ new = s1 \o pair \o s3
    BY <2>10, <2>18
  <2> HIDE DEF pair
  <2>22. Tidy(s1 \o pair, Single, Contents, Across(b, Contents, T1 \cup M))
    BY <2>14, <2>19, <2>21, TidyPlaces DEF n
  <2> DEFINE s2 == s1 \o pair
             T2 == T1 \cup M
  <2>23. Tidy(s2, Single, Contents, Across(b, Contents, T2)) /\ T2 \in SUBSET (1..n) /\ T2 \cap T3 = {}
    BY <2>14, <2>22
  <2> HIDE DEF s2, T2
  <2>24. Tidy(s2 \o s3, Single, Contents, Across(b, Contents, T2 \cup T3))
    BY <2>14, <2>20, <2>23, TidyPlaces DEF n
  <2>25. Tidy(new, Single, Contents, A)
    BY <1>2, <2>14, <2>21, <2>24 DEF s2, T2
  <2> QED
    BY <1>1, <1>3, <2>25
<1>4. CASE ~joins
  BY <1>1, <1>4
<1> QED
  BY <1>3, <1>4

-----------------------------------------------------------------------------
(* The invariant.                                                          *)

\* The phases before the checkpoints, those of the passes, and the last ones.
Fresh == {"read", "detached", "sorted", "styled", "fronted"}

Passes == {"detached", "sorted", "styled", "fronted", "checked", "formatted",
           "described", "placed", "sectioned", "wrapped", "recovered"}

Ends == {"arranged", "written", "refused"}

\* The body b of the article m holds all that is not to be lost, cp included,
\* each piece once.
Standing(m, b, cp) ==
    \E A : Holds(b, Kept(m), A) /\ Kept(m) \subseteq A /\ cp \subseteq A

Whole(m, b) == \E A : Tidy(b, Single, Contents, A) /\ Kept(m) \subseteq A

\* The objects a pass has still to place are in the body.
Waiting(t, b) ==
    t \in Seq(Seq(Piece)) /\ \A x \in ToSet(t) : \E n \in ToSet(b) : n.items = x

PicturesWait(t, b) ==
    /\ t \in Seq(Seq(Piece))
    /\ \A k, l \in 1..Len(t) : t[k] = t[l] => k = l
    /\ \A x \in ToSet(t) : \E n \in ToSet(b) : n.items = x /\ n.obj = "picture"

Invariant ==
    /\ manuscript \in Manuscripts
    /\ template \in Profile
    /\ phase \in {"read"} \cup Passes \cup Ends
    /\ phase = "read" => body = manuscript
    /\ phase \in Fresh => checkpoints = {}
    /\ phase \in Passes => Standing(manuscript, body, checkpoints)
    /\ phase \in Ends => Whole(manuscript, body)
    /\ phase \in {"described", "placed"} => Waiting(todo, body)
    /\ phase = "wrapped" => PicturesWait(todo, body)
    /\ phase \in {"recovered", "arranged"} =>
          checkpoints \cap lost = {} \/ template.style = "jamt"
    /\ LossesAreExplained

\* A whole body, read in order.
LEMMA WholeFlow ==
    ASSUME NEW m, NEW b, Whole(m, b)
    PROVE  /\ Flow(b) \in Seq(Piece) /\ Kept(m) \subseteq ToSet(Flow(b))
           /\ \A k, l \in 1..Len(Flow(b)) : Flow(b)[k] = Flow(b)[l] => k = l
<1>1. PICK A : Tidy(b, Single, Contents, A) /\ Kept(m) \subseteq A
  BY DEF Whole
<1>2. Lists(Flow(b), A) /\ Flow(b) \in Seq(Piece) /\ ToSet(Flow(b)) = A
  BY <1>1, FlowListed
<1> DEFINE s == Flow(b)
<1>3. Lists(s, A) /\ s \in Seq(Piece)
  BY <1>2
<1> HIDE DEF s
<1>4. \A k, l \in 1..Len(s) : s[k] = s[l] => k = l
  BY <1>3, ListsElements
<1> QED
  BY <1>1, <1>2, <1>4 DEF s

LEMMA StandingIsWhole ==
    ASSUME NEW m, NEW b, NEW cp, Standing(m, b, cp)
    PROVE  Whole(m, b) /\ cp \subseteq ToSet(Flow(b))
<1>1. PICK A : Holds(b, Kept(m), A) /\ Kept(m) \subseteq A /\ cp \subseteq A
  BY DEF Standing
<1>2. Tidy(b, Single, Contents, A)
  BY <1>1, Places
<1>3. ToSet(Flow(b)) = A
  BY <1>2, FlowListed
<1> QED
  BY <1>1, <1>2, <1>3 DEF Whole

\* What a pass leaves of a body, when it drops at most what is the journal's.
LEMMA RetainsStanding ==
    ASSUME NEW m, NEW b, NEW c, Standing(m, b, {}),
           \A A : Holds(b, Kept(m), A) => Retains(c, Kept(m), A)
    PROVE  Standing(m, c, {})
<1>1. PICK A : Holds(b, Kept(m), A) /\ Kept(m) \subseteq A
  BY DEF Standing
<1>2. PICK B \in SUBSET A : Holds(c, Kept(m), B) /\ Kept(m) \cap A \subseteq B
  BY <1>1 DEF Retains
<1>3. Kept(m) \subseteq B
  BY <1>1, <1>2
<1> QED
  BY <1>2, <1>3 DEF Standing

\* What a pass leaves that drops nothing.
LEMMA HoldsStanding ==
    ASSUME NEW m, NEW b, NEW c, NEW cp, Standing(m, b, cp),
           \A A : Holds(b, Kept(m), A) => Holds(c, Kept(m), A)
    PROVE  Standing(m, c, cp)
BY DEF Standing

\* The invariant, action by action.
LEMMA DetachKeeps ==
    ASSUME Invariant, DetachDisplayObjects PROVE Invariant'
<1> DEFINE b2 == FlattenSeq([i \in DOMAIN body |-> Detached(body, i)])
<1>1. /\ manuscript \in Manuscripts /\ template \in Profile /\ body = manuscript
      /\ checkpoints = {} /\ phase' = "detached" /\ manuscript' = manuscript
      /\ template' = template /\ body' = b2 /\ checkpoints' = checkpoints
  BY DEF Invariant, DetachDisplayObjects, article, pieces, Fresh
<1>2. /\ Holds(b2, Kept(manuscript), Across(manuscript, Contents, 1..Len(manuscript)))
      /\ Kept(manuscript) \subseteq Across(manuscript, Contents, 1..Len(manuscript))
  BY <1>1, DetachHolds, ManuscriptHolds
<1> HIDE DEF b2
<1>3. Standing(manuscript, b2, {})
  BY <1>2 DEF Standing
<1> QED
  BY <1>1, <1>3 DEF Invariant, Fresh, Passes, Ends, LossesAreExplained

LEMMA NormaliseKeeps ==
    ASSUME Invariant, NormaliseFrontMatter PROVE Invariant'
<1>1. /\ manuscript \in Manuscripts /\ template \in Profile
      /\ checkpoints = {} /\ Standing(manuscript, body, {})
      /\ phase' = "sorted" /\ manuscript' = manuscript
      /\ template' = template /\ body' = NormaliseFront(body) /\ checkpoints' = checkpoints
  BY DEF Invariant, NormaliseFrontMatter, article, pieces, Fresh, Passes
<1>2. \A A : Holds(body, Kept(manuscript), A) =>
                Retains(NormaliseFront(body), Kept(manuscript), A)
  BY <1>1, FrontMatterHolds
<1>3. Standing(manuscript, NormaliseFront(body), {})
  BY <1>1, <1>2, RetainsStanding
<1> QED
  BY <1>1, <1>3 DEF Invariant, Fresh, Passes, Ends, LossesAreExplained

LEMMA ArrangeStyleKeeps ==
    ASSUME Invariant, ArrangeFixedStyle PROVE Invariant'
<1> DEFINE S == Kept(manuscript)
           b1 == IdentifiersJoined(body)
           b2 == DatesMoved(b1)
           b3 == FrontBlanksRemoved(b2)
<1>1. /\ manuscript \in Manuscripts /\ template \in Profile
      /\ checkpoints = {} /\ Standing(manuscript, body, {})
      /\ phase' = "styled" /\ manuscript' = manuscript
      /\ template' = template /\ checkpoints' = checkpoints /\ (body' = b3 \/ body' = body)
  BY DEF Invariant, ArrangeFixedStyle, article, pieces, Fresh, Passes
<1>2. ASSUME NEW A, Holds(body, S, A) PROVE Holds(b3, S, A)
  <2> HIDE DEF S
  <2>1. Holds(b1, S, A)
    BY <1>2, IdentifiersHold
  <2> HIDE DEF b1
  <2>2. Holds(b2, S, A)
    BY <2>1, DatesHold
  <2> HIDE DEF b2
  <2> QED
    BY <2>2, FrontBlanksHold
<1> HIDE DEF b3
<1>3. Standing(manuscript, b3, {})
  BY <1>1, <1>2, HoldsStanding
<1>4. Standing(manuscript, body', {})
  BY <1>1, <1>3
<1> QED
  BY <1>1, <1>4 DEF Invariant, Fresh, Passes, Ends, LossesAreExplained

LEMMA InstallFrontKeeps ==
    ASSUME Invariant, InstallTemplateFront PROVE Invariant'
<1> DEFINE S == Kept(manuscript)
           b1 == ShellInstalled(body)
           b2 == PlaceholdersInstalled(b1)
<1>1. /\ manuscript \in Manuscripts /\ template \in Profile
      /\ checkpoints = {} /\ Standing(manuscript, body, {})
      /\ phase' = "fronted" /\ manuscript' = manuscript
      /\ template' = template /\ checkpoints' = checkpoints /\ body' = b2
  BY DEF Invariant, InstallTemplateFront, article, pieces, Fresh, Passes
<1>2. \A A : Holds(body, S, A) => Retains(b1, S, A)
  BY ShellHolds
<1> HIDE DEF b1
<1>3. Standing(manuscript, b1, {})
  BY <1>1, <1>2, RetainsStanding
<1>4. \A A : Holds(b1, S, A) => Holds(b2, S, A)
  BY <1>1, PlaceholdersHold
<1> HIDE DEF b2
<1>5. Standing(manuscript, b2, {})
  BY <1>3, <1>4, HoldsStanding
<1> QED
  BY <1>1, <1>5 DEF Invariant, Fresh, Passes, Ends, LossesAreExplained

LEMMA CheckpointsKeep ==
    ASSUME Invariant, TakeCheckpoints PROVE Invariant'
<1>1. /\ manuscript \in Manuscripts /\ template \in Profile
      /\ Standing(manuscript, body, {}) /\ phase' = "checked" /\ manuscript' = manuscript
      /\ template' = template /\ checkpoints' = ToSet(Flow(body)) \ lost' /\ body' = body
  BY DEF Invariant, TakeCheckpoints, article, Fresh, Passes
<1>2. PICK A : Holds(body, Kept(manuscript), A) /\ Kept(manuscript) \subseteq A
  BY <1>1 DEF Standing
<1>3. ToSet(Flow(body)) = A
  <2>1. Tidy(body, Single, Contents, A)
    BY <1>2, Places
  <2> QED
    BY <2>1, FlowListed
<1>4. Standing(manuscript, body, checkpoints')
  BY <1>1, <1>2, <1>3 DEF Standing
<1> QED
  BY <1>1, <1>4 DEF Invariant, Fresh, Passes, Ends, LossesAreExplained

LEMMA FormatKeeps ==
    ASSUME Invariant, FormatParagraphs PROVE Invariant'
<1>1. /\ manuscript \in Manuscripts /\ template \in Profile
      /\ Standing(manuscript, body, checkpoints) /\ phase' = "formatted"
      /\ manuscript' = manuscript /\ template' = template /\ checkpoints' = checkpoints
      /\ body' = GapsApplied(body) \/ body' = body
  BY DEF Invariant, FormatParagraphs, article, Passes
<1>2. \A A : Holds(body, Kept(manuscript), A) => Holds(GapsApplied(body), Kept(manuscript), A)
  BY GapsHold
<1>3. Standing(manuscript, GapsApplied(body), checkpoints)
  BY <1>1, <1>2, HoldsStanding
<1>4. Standing(manuscript, body', checkpoints)
  BY <1>1, <1>3
<1> QED
  BY <1>1, <1>4 DEF Invariant, Fresh, Passes, Ends, LossesAreExplained

\* The objects of a pass stand in the body.
LEMMA ObjectsWait ==
    ASSUME NEW m, NEW b, NEW cp, Standing(m, b, cp), NEW T \in SUBSET (DOMAIN b)
    PROVE  /\ Waiting(Objects(b, T), b)
           /\ (\A i \in T : b[i].obj = "picture") => PicturesWait(Objects(b, T), b)
<1> DEFINE o == Objects(b, T)
           S == Kept(m)
<1>1. PICK A : Holds(b, S, A)
  BY DEF Standing
<1>2. /\ DOMAIN b = 1..Len(b) /\ \A i \in 1..Len(b) : b[i] \in Fitting(S)
  BY <1>1, Places
<1> HIDE DEF S
<1>3. T \in SUBSET (1..Len(b))
  BY <1>2
<1>4. o \in Seq({b[i].items : i \in T}) /\ o \in Seq(Seq(Piece))
  BY <1>1, <1>3, ObjectsListed
<1>5. (\A i \in T : b[i].items # << >>) => \A k, l \in 1..Len(o) : o[k] = o[l] => k = l
  BY <1>1, <1>3, ObjectsListed
<1> HIDE DEF o
<1>6. \A x \in ToSet(o) : \E i \in T : b[i].items = x
  <2>1. \A k \in DOMAIN o : o[k] \in {b[i].items : i \in T}
    BY <1>4
  <2> QED
    BY <2>1 DEF ToSet
<1>7. \A i \in T : b[i] \in ToSet(b)
  BY DEF ToSet
<1>8. Waiting(o, b)
  BY <1>4, <1>6, <1>7 DEF Waiting
<1>9. ASSUME \A i \in T : b[i].obj = "picture" PROVE PicturesWait(o, b)
  <2>1. \A i \in T : b[i].items # << >>
    BY <1>2, <1>3, <1>9 DEF Fitting
  <2>2. \A k, l \in 1..Len(o) : o[k] = o[l] => k = l
    BY <1>5, <2>1
  <2>3. \A x \in ToSet(o) : \E n \in ToSet(b) : n.items = x /\ n.obj = "picture"
    BY <1>6, <1>7, <1>9
  <2> QED
    BY <1>4, <2>2, <2>3 DEF PicturesWait
<1> QED
  BY <1>8, <1>9 DEF o

\* The next object stands somewhere, and the others keep waiting.
LEMMA NextWaits ==
    ASSUME NEW b, NEW S, NEW A, Holds(b, S, A), NEW t, Waiting(t, b), t # << >>
    PROVE  /\ \E i \in 1..Len(b) : b[i].items = Head(t)
           /\ \A c : ToSet(c) = ToSet(b) => Waiting(Tail(t), c)
<1>1. DOMAIN b = 1..Len(b)
  BY Places
<1>2. t \in Seq(Seq(Piece)) /\ \A x \in ToSet(t) : \E n \in ToSet(b) : n.items = x
  BY DEF Waiting
<1> DEFINE X == Seq(Piece)
<1>3. t \in Seq(X)
  BY <1>2
<1> HIDE DEF X
<1>4. Head(t) \in ToSet(t) /\ Tail(t) \in Seq(X) /\ ToSet(Tail(t)) \subseteq ToSet(t)
  BY <1>3, HeadAndTail
<1>5. PICK n \in ToSet(b) : n.items = Head(t)
  BY <1>2, <1>4
<1>6. \E i \in 1..Len(b) : b[i].items = Head(t)
  BY <1>1, <1>5 DEF ToSet
<1>7. \A c : ToSet(c) = ToSet(b) => Waiting(Tail(t), c)
  BY <1>2, <1>4 DEF Waiting, X
<1> QED
  BY <1>6, <1>7

\* Figures, tables, sections and rows.
LEMMA FiguresWaitKeeps ==
    ASSUME Invariant, DescriptionsBeforeFigures PROVE Invariant'
<1> DEFINE T == {i \in DOMAIN body : IsFigure(body[i])}
<1>1. /\ manuscript \in Manuscripts /\ template \in Profile
      /\ Standing(manuscript, body, checkpoints) /\ phase' = "described"
      /\ manuscript' = manuscript /\ template' = template /\ checkpoints' = checkpoints
      /\ body' = body /\ todo' = Objects(body, T)
  BY DEF Invariant, DescriptionsBeforeFigures, article, pieces, Passes
<1>2. T \in SUBSET (DOMAIN body)
  OBVIOUS
<1> HIDE DEF T
<1>3. Waiting(Objects(body, T), body)
  BY <1>1, <1>2, ObjectsWait
<1>4. Waiting(todo', body')
  BY <1>1, <1>3
<1> QED
  BY <1>1, <1>4 DEF Invariant, Fresh, Passes, Ends, LossesAreExplained

LEMMA DescribeKeeps ==
    ASSUME Invariant, DescribeFigure PROVE Invariant'
<1> DEFINE S == Kept(manuscript)
           c == FigureMoved(body, Head(todo))
<1>1. /\ manuscript \in Manuscripts /\ template \in Profile
      /\ Standing(manuscript, body, checkpoints) /\ phase' = "described"
      /\ manuscript' = manuscript /\ template' = template /\ checkpoints' = checkpoints
      /\ body' = c /\ todo' = Tail(todo) /\ todo # << >> /\ Waiting(todo, body)
  BY DEF Invariant, DescribeFigure, article, pieces, Passes
<1>2. PICK A : Holds(body, S, A) /\ S \subseteq A /\ checkpoints \subseteq A
  BY <1>1 DEF Standing
<1>3. \E i \in 1..Len(body) : body[i].items = Head(todo)
  BY <1>1, <1>2, NextWaits
<1>4. \A x : ToSet(x) = ToSet(body) => Waiting(Tail(todo), x)
  BY <1>1, <1>2, NextWaits
<1>5. Holds(c, S, A) /\ ToSet(c) = ToSet(body)
  BY <1>2, <1>3, FigureMovedHolds
<1> HIDE DEF c
<1>6. Waiting(Tail(todo), c)
  BY <1>4, <1>5
<1>7. Standing(manuscript, c, checkpoints)
  BY <1>2, <1>5 DEF Standing
<1> QED
  BY <1>1, <1>6, <1>7 DEF Invariant, Fresh, Passes, Ends, LossesAreExplained

LEMMA TablesWaitKeeps ==
    ASSUME Invariant, FloatCompactTables PROVE Invariant'
<1> DEFINE T == {i \in DOMAIN body : Compact(body[i])}
<1>1. /\ manuscript \in Manuscripts /\ template \in Profile
      /\ Standing(manuscript, body, checkpoints) /\ phase' = "placed"
      /\ manuscript' = manuscript /\ template' = template /\ checkpoints' = checkpoints
      /\ body' = body /\ (todo' = Objects(body, T) \/ todo' = << >>)
  BY DEF Invariant, FloatCompactTables, article, pieces, Passes
<1>2. T \in SUBSET (DOMAIN body)
  OBVIOUS
<1> HIDE DEF T
<1>3. Waiting(Objects(body, T), body)
  BY <1>1, <1>2, ObjectsWait
<1>4. Waiting(<< >>, body)
  BY DEF Waiting, ToSet
<1>5. Waiting(todo', body')
  BY <1>1, <1>3, <1>4
<1> QED
  BY <1>1, <1>5 DEF Invariant, Fresh, Passes, Ends, LossesAreExplained

LEMMA FloatKeeps ==
    ASSUME Invariant, FloatTable PROVE Invariant'
<1> DEFINE S == Kept(manuscript)
<1>1. /\ manuscript \in Manuscripts /\ template \in Profile
      /\ Standing(manuscript, body, checkpoints) /\ phase' = "placed"
      /\ manuscript' = manuscript /\ template' = template /\ checkpoints' = checkpoints
      /\ todo' = Tail(todo) /\ todo # << >> /\ Waiting(todo, body)
  BY DEF Invariant, FloatTable, article, pieces, Passes
<1>0. PICK max : body' = TableFloated(body, Head(todo), max)
  BY DEF FloatTable
<1> DEFINE c == TableFloated(body, Head(todo), max)
<1>2. PICK A : Holds(body, S, A) /\ S \subseteq A /\ checkpoints \subseteq A
  BY <1>1 DEF Standing
<1>3. \E i \in 1..Len(body) : body[i].items = Head(todo)
  BY <1>1, <1>2, NextWaits
<1>4. \A x : ToSet(x) = ToSet(body) => Waiting(Tail(todo), x)
  BY <1>1, <1>2, NextWaits
<1>5. Holds(c, S, A) /\ ToSet(c) = ToSet(body)
  BY <1>2, <1>3, TableFloatedHolds
<1>8. body' = c
  BY <1>0
<1> HIDE DEF c
<1>6. Waiting(Tail(todo), c)
  BY <1>4, <1>5
<1>7. Standing(manuscript, c, checkpoints)
  BY <1>2, <1>5 DEF Standing
<1> QED
  BY <1>1, <1>6, <1>7, <1>8 DEF Invariant, Fresh, Passes, Ends, LossesAreExplained

LEMMA SectionsKeep ==
    ASSUME Invariant, InstallSections PROVE Invariant'
<1> DEFINE S == Kept(manuscript)
           closed == FrontClosed(body)
           marked == SpansMarked(closed, Spans(closed))
           last == Mark(template.columns)
<1>1. /\ manuscript \in Manuscripts /\ template \in Profile
      /\ Standing(manuscript, body, checkpoints) /\ phase' = "sectioned"
      /\ manuscript' = manuscript /\ template' = template /\ checkpoints' = checkpoints
      /\ body' = marked \/ body' = Append(marked, last)
  BY DEF Invariant, InstallSections, article, pieces, Passes
<1>2. template.columns \in 0..2
  <2>1. template \in Profile
    BY <1>1
  <2>2. template.columns \in 1..2
    BY <2>1 DEF Profile
  <2> QED
    BY <2>2
<1>3. last \in Fitting(S) /\ Contents[last] = {}
  BY <1>2, SpacerFits
<1>4. ASSUME NEW A, Holds(body, S, A) PROVE Holds(marked, S, A) /\ Holds(Append(marked, last), S, A)
  <2>1. Holds(closed, S, A)
    BY <1>4, FrontClosedHolds
  <2> DEFINE spans == Spans(closed)
  <2> HIDE DEF closed, spans
  <2>2. Holds(SpansMarked(closed, spans), S, A)
    BY <1>1, <2>1, SpansMarkedHolds
  <2>3. Holds(marked, S, A)
    BY <2>2 DEF spans
  <2> HIDE DEF marked, last
  <2> QED
    BY <1>3, <2>3, AppendHolds
<1> HIDE DEF marked, last
<1>5. Standing(manuscript, marked, checkpoints) /\ Standing(manuscript, Append(marked, last), checkpoints)
  BY <1>1, <1>4 DEF Standing
<1>6. Standing(manuscript, body', checkpoints)
  BY <1>1, <1>5
<1> QED
  BY <1>1, <1>6 DEF Invariant, Fresh, Passes, Ends, LossesAreExplained

LEMMA PicturesWaitKeeps ==
    ASSUME Invariant, WrapPictureCaptions PROVE Invariant'
<1> DEFINE T == {i \in DOMAIN body : body[i].obj = "picture"}
<1>1. /\ manuscript \in Manuscripts /\ template \in Profile
      /\ Standing(manuscript, body, checkpoints) /\ phase' = "wrapped"
      /\ manuscript' = manuscript /\ template' = template /\ checkpoints' = checkpoints
      /\ body' = body /\ todo' = Objects(body, T)
  BY DEF Invariant, WrapPictureCaptions, article, pieces, Passes
<1>2. T \in SUBSET (DOMAIN body) /\ \A i \in T : body[i].obj = "picture"
  OBVIOUS
<1> HIDE DEF T
<1>3. PicturesWait(Objects(body, T), body)
  BY <1>1, <1>2, ObjectsWait
<1>4. PicturesWait(todo', body')
  BY <1>1, <1>3
<1> QED
  BY <1>1, <1>4 DEF Invariant, Fresh, Passes, Ends, LossesAreExplained

LEMMA WrapKeeps ==
    ASSUME Invariant, WrapPicture PROVE Invariant'
<1> DEFINE S == Kept(manuscript)
           c == PictureWrapped(body, Head(todo))
           X == Seq(Piece)
<1>1. /\ manuscript \in Manuscripts /\ template \in Profile
      /\ Standing(manuscript, body, checkpoints) /\ phase' = "wrapped"
      /\ manuscript' = manuscript /\ template' = template /\ checkpoints' = checkpoints
      /\ body' \in {body, c} /\ todo' = Tail(todo) /\ todo # << >> /\ PicturesWait(todo, body)
  BY DEF Invariant, WrapPicture, article, pieces, Passes
<1>2. PICK A : Holds(body, S, A) /\ S \subseteq A /\ checkpoints \subseteq A
  BY <1>1 DEF Standing
<1>3. /\ todo \in Seq(X) /\ \A k, l \in 1..Len(todo) : todo[k] = todo[l] => k = l
      /\ \A x \in ToSet(todo) : \E n \in ToSet(body) : n.items = x /\ n.obj = "picture"
  BY <1>1 DEF PicturesWait
<1>4. DOMAIN body = 1..Len(body)
  BY <1>2, Places
<1> HIDE DEF X, S
<1>5. Head(todo) \in ToSet(todo) /\ Tail(todo) \in Seq(X) /\ ToSet(Tail(todo)) \subseteq ToSet(todo)
  BY <1>1, <1>3, HeadAndTail
<1>6. /\ Head(todo) \notin ToSet(Tail(todo))
      /\ \A k, l \in 1..Len(Tail(todo)) : Tail(todo)[k] = Tail(todo)[l] => k = l
  BY <1>1, <1>3, HeadAndTail
<1>7. \E i \in 1..Len(body) : body[i].items = Head(todo)
  <2>1. PICK n \in ToSet(body) : n.items = Head(todo)
    BY <1>3, <1>5
  <2> QED
    BY <1>4, <2>1 DEF ToSet
<1>8. Holds(c, S, A)
  BY <1>2, <1>7, PictureWrappedHolds
<1>9. \A q \in 1..Len(body) : body[q].obj = "picture" /\ body[q].items # Head(todo) =>
         body[q] \in ToSet(c)
  BY <1>2, <1>7, PictureWrappedHolds
<1> HIDE DEF c
<1>10. ASSUME NEW x \in ToSet(Tail(todo))
       PROVE  \E n \in ToSet(c) : n.items = x /\ n.obj = "picture"
  <2>1. x # Head(todo) /\ x \in ToSet(todo)
    BY <1>5, <1>6
  <2>2. PICK n \in ToSet(body) : n.items = x /\ n.obj = "picture"
    BY <1>3, <2>1
  <2>3. PICK q \in 1..Len(body) : body[q] = n
    BY <1>4 DEF ToSet
  <2>4. n \in ToSet(c)
    BY <1>9, <2>1, <2>2, <2>3
  <2> QED
    BY <2>2, <2>4
<1>11. PicturesWait(Tail(todo), c)
  BY <1>5, <1>6, <1>10 DEF PicturesWait, X
<1>12. Standing(manuscript, c, checkpoints)
  BY <1>2, <1>8 DEF Standing, S
<1>13. PicturesWait(Tail(todo), body)
  BY <1>3, <1>5, <1>6 DEF PicturesWait, X
<1>14. PicturesWait(todo', body') /\ Standing(manuscript, body', checkpoints)
  BY <1>1, <1>11, <1>12, <1>13
<1> QED
  BY <1>1, <1>14 DEF Invariant, Fresh, Passes, Ends, LossesAreExplained

\* The end of the render.
LEMMA RecoverKeeps ==
    ASSUME Invariant, Recover PROVE Invariant'
<1>1. /\ manuscript \in Manuscripts /\ template \in Profile
      /\ Standing(manuscript, body, checkpoints) /\ manuscript' = manuscript
      /\ template' = template /\ checkpoints' = checkpoints /\ body' = body
  BY DEF Invariant, Recover, article, Passes
<1>2. checkpoints \subseteq ToSet(Flow(body))
  BY <1>1, StandingIsWhole
<1>3. phase' = "recovered" /\ lost' = lost \ checkpoints
  BY <1>2 DEF Recover
<1> QED
  BY <1>1, <1>3 DEF Invariant, Fresh, Passes, Ends, LossesAreExplained

LEMMA AuthorsKeep ==
    ASSUME Invariant, ArrangeAuthorColumns PROVE Invariant'
<1> DEFINE c == AuthorsSideBySide(body)
<1>1. /\ manuscript \in Manuscripts /\ template \in Profile
      /\ Standing(manuscript, body, checkpoints) /\ manuscript' = manuscript
      /\ template' = template /\ checkpoints' = checkpoints /\ phase' = "arranged"
      /\ body' = c \/ body' = body
      /\ checkpoints \cap lost = {} \/ template.style = "jamt"
  BY DEF Invariant, ArrangeAuthorColumns, article, Passes
<1>2. lost' = lost \/ template.style = "jamt"
  BY DEF ArrangeAuthorColumns
<1>3. PICK A : Holds(body, Kept(manuscript), A) /\ Kept(manuscript) \subseteq A
  BY <1>1 DEF Standing
<1>4. Tidy(body, Single, Contents, A)
  BY <1>3, Places
<1>5. Tidy(c, Single, Contents, A)
  BY <1>4, AuthorsHold
<1> HIDE DEF c
<1>6. Whole(manuscript, body')
  BY <1>1, <1>3, <1>4, <1>5 DEF Whole
<1> QED
  BY <1>1, <1>2, <1>6 DEF Invariant, Fresh, Passes, Ends, LossesAreExplained

\* At the comparison: a piece that is missing and no journal's line was lost
\* unseen, since it stands in the body and the recovery has been.
LEMMA MissingWereLost ==
    ASSUME Invariant, phase = "arranged"
    PROVE  \A it \in Missing : LostUnseen(it) \/ it \notin Kept(manuscript)
<1>1. Whole(manuscript, body) /\ (checkpoints \cap lost = {} \/ template.style = "jamt")
  BY DEF Invariant, Ends
<1>2. Kept(manuscript) \subseteq ToSet(Flow(body))
  BY <1>1, WholeFlow
<1>3. ASSUME NEW it \in Missing, it \in Kept(manuscript) PROVE LostUnseen(it)
  <2>1. it \notin ToSet(Flow(body)) \ lost
    BY <1>3 DEF Missing
  <2>2. it \in lost
    BY <1>2, <1>3, <2>1
  <2> QED
    BY <1>1, <2>2 DEF LostUnseen
<1> QED
  BY <1>3

LEMMA WriteKeeps ==
    ASSUME Invariant, WriteDocument \/ RefuseDocument PROVE Invariant'
<1>1. /\ manuscript \in Manuscripts /\ template \in Profile
      /\ phase = "arranged" /\ Whole(manuscript, body) /\ manuscript' = manuscript
      /\ template' = template /\ checkpoints' = checkpoints /\ body' = body /\ lost' = lost
      /\ phase' = "written" \/ (phase' = "refused" /\ Missing # {})
  BY DEF Invariant, WriteDocument, RefuseDocument, article, pieces, Ends
<1>2. \A it \in Missing : LostUnseen(it) \/ it \notin Kept(manuscript)
  BY <1>1, MissingWereLost
<1>3. LossesAreExplained'
  BY <1>1, <1>2 DEF LossesAreExplained, Missing, LostUnseen
<1> QED
  BY <1>1, <1>3 DEF Invariant, Fresh, Passes, Ends

\* The invariant of the editor, in every state of every render.
THEOREM InvariantHolds == Spec => []Invariant
<1>1. Init => Invariant
  BY TemplatesAssumption DEF Init, Invariant, Fresh, Passes, Ends, LossesAreExplained
<1>2. Invariant /\ [Next]_vars => Invariant'
  <2> SUFFICES ASSUME Invariant, [Next]_vars PROVE Invariant'
    OBVIOUS
  <2>1. CASE DetachDisplayObjects
    BY <2>1, DetachKeeps
  <2>2. CASE NormaliseFrontMatter
    BY <2>2, NormaliseKeeps
  <2>3. CASE ArrangeFixedStyle
    BY <2>3, ArrangeStyleKeeps
  <2>4. CASE InstallTemplateFront
    BY <2>4, InstallFrontKeeps
  <2>5. CASE TakeCheckpoints
    BY <2>5, CheckpointsKeep
  <2>6. CASE FormatParagraphs
    BY <2>6, FormatKeeps
  <2>7. CASE DescriptionsBeforeFigures
    BY <2>7, FiguresWaitKeeps
  <2>8. CASE DescribeFigure
    BY <2>8, DescribeKeeps
  <2>9. CASE FloatCompactTables
    BY <2>9, TablesWaitKeeps
  <2>10. CASE FloatTable
    BY <2>10, FloatKeeps
  <2>11. CASE InstallSections
    BY <2>11, SectionsKeep
  <2>12. CASE WrapPictureCaptions
    BY <2>12, PicturesWaitKeeps
  <2>13. CASE WrapPicture
    BY <2>13, WrapKeeps
  <2>14. CASE Recover
    BY <2>14, RecoverKeeps
  <2>15. CASE ArrangeAuthorColumns
    BY <2>15, AuthorsKeep
  <2>16. CASE WriteDocument \/ RefuseDocument
    BY <2>16, WriteKeeps
  <2>17. CASE UNCHANGED vars
    BY <2>17 DEF vars, article, pieces, Invariant, LossesAreExplained, Missing, LostUnseen
  <2> QED
    BY <2>1, <2>2, <2>3, <2>4, <2>5, <2>6, <2>7, <2>8, <2>9, <2>10, <2>11, <2>12, <2>13,
       <2>14, <2>15, <2>16, <2>17 DEF Next
<1> QED
  BY <1>1, <1>2, PTL DEF Spec

\* In every phase, of every manuscript and template, no pass has dropped a
\* piece of the article (the journal's lines and the front's paragraphs
\* without text aside) and none stands twice.
THEOREM NothingDroppedOrDoubled == Spec => []EveryPieceStandsOnce
<1>1. Invariant => EveryPieceStandsOnce
  <2> SUFFICES ASSUME Invariant PROVE EveryPieceStandsOnce
    OBVIOUS
  <2>1. Whole(manuscript, body)
    <3>1. CASE phase = "read"
      <4>1. manuscript \in Manuscripts /\ body = manuscript
        BY <3>1 DEF Invariant
      <4>2. /\ Tidy(manuscript, Single, Contents, Across(manuscript, Contents, 1..Len(manuscript)))
            /\ Kept(manuscript) \subseteq Across(manuscript, Contents, 1..Len(manuscript))
        BY <4>1, ManuscriptHolds
      <4> QED
        BY <4>1, <4>2 DEF Whole
    <3>2. CASE phase \in Passes
      BY <3>2, StandingIsWhole DEF Invariant
    <3>3. CASE phase \in Ends
      BY <3>3 DEF Invariant
    <3> QED
      BY <3>1, <3>2, <3>3 DEF Invariant
  <2> DEFINE s == Flow(body)
  <2>2. /\ s \in Seq(Piece) /\ Kept(manuscript) \subseteq ToSet(s)
        /\ \A k, l \in 1..Len(s) : s[k] = s[l] => k = l
    BY <2>1, WholeFlow
  <2> HIDE DEF s
  <2>3. DOMAIN s = 1..Len(s)
    BY <2>2
  <2>4. IsInjective(s)
    BY <2>2, <2>3 DEF IsInjective
  <2> QED
    BY <2>2, <2>4 DEF EveryPieceStandsOnce, s
<1> QED
  BY <1>1, InvariantHolds, PTL

\* A loss the comparison finds, or misses, is one an edit made where the
\* checkpoints do not see it, or one of the journal's lines and of the front's
\* paragraphs without text: the other passes never cost a piece.
THEOREM LossesHaveReasons == Spec => []LossesAreExplained
<1>1. Invariant => LossesAreExplained
  BY DEF Invariant
<1> QED
  BY <1>1, InvariantHolds, PTL

\* What the checkpoints copied still stands in the body when the recovery
\* begins: the recovery itself refuses no article.
RecoveryFindsPlaces ==
    phase \in {"checked", "formatted", "described", "placed", "sectioned", "wrapped"} =>
        checkpoints \subseteq ToSet(Flow(body))

\* From the checkpoints to the recovery no pass removes what they copied.
THEOREM RecoveryNeverRefuses == Spec => []RecoveryFindsPlaces
<1>1. Invariant => RecoveryFindsPlaces
  BY StandingIsWhole DEF Invariant, Passes, RecoveryFindsPlaces
<1> QED
  BY <1>1, InvariantHolds, PTL

=============================================================================
