-------------------------- MODULE ConversionProofs --------------------------
(***************************************************************************)
(* What a conversion makes of its document: theorems for all sets of items *)
(* and documents of any length.                                            *)
(*                                                                         *)
(* The body of the article is compared with the items that were read:      *)
(* BodyFits says that its blocks stand in the order of their items and     *)
(* that a table has its blocks.  Reading one item, by any of the branches  *)
(* of the parser, adds its blocks at the end and changes at most the       *)
(* caption of an earlier one; after the last item paragraphs only leave    *)
(* the body.  What is written of the body so far fits it in the same way   *)
(* (PiecesFit, ListsFit).  The lists that are open before a token of the   *)
(* LaTeX source are defined by recursion; what they are is proved by       *)
(* induction over the numbers, which are well-founded.                     *)
(***************************************************************************)
EXTENDS Conversion, FiniteSetTheorems, FunctionTheorems, SequenceTheorems, TLAPS

-----------------------------------------------------------------------------
(* Numbers and places *)

LEMMA NatMin ==
    ASSUME NEW T \in SUBSET Nat, T # {}
    PROVE \E x \in T : \A y \in T : x <= y
<1> DEFINE R == {ss \in Nat \X Nat : ss[1] < ss[2]}
<1>1. IsWellFoundedOn(R, Nat)
  BY NatLessThanWellFounded DEF OpToRel
<1>2. \E x \in T : \A y \in T : ~ (<<y, x>> \in R)
  BY <1>1, WFMin
<1>3. \A x, y \in Nat : y < x => <<y, x>> \in R
  OBVIOUS
<1> HIDE DEF R
<1>4. PICK x \in T : \A y \in T : ~ (<<y, x>> \in R)
  BY <1>2
<1>5. \A y \in T : ~ (y < x)
  BY <1>3, <1>4
<1> QED
  BY <1>5

LEMMA NatMax ==
    ASSUME NEW T \in SUBSET Nat, T # {}, NEW bound \in Nat, \A y \in T : y <= bound
    PROVE  \E x \in T : \A y \in T : y <= x
<1> DEFINE above == {x \in Nat : \A y \in T : y <= x}
<1>1. bound \in above
  OBVIOUS
<1>2. PICK x \in above : \A z \in above : x <= z
  BY <1>1, NatMin
<1>3. x \in Nat /\ \A y \in T : y \in Nat /\ y <= x
  OBVIOUS
<1>6. \A n \in Nat : (\A y \in T : y <= n) => n \in above
  OBVIOUS
<1> HIDE DEF above
<1>4. CASE x \in T
  BY <1>3, <1>4
<1>5. CASE x \notin T
  <2>1. \A y \in T : y < x
    BY <1>3, <1>5
  <2>2. PICK y \in T : TRUE
    OBVIOUS
  <2>3. x - 1 \in Nat /\ \A z \in T : z <= x - 1
    BY <1>3, <2>1
  <2>4. x - 1 \in above
    BY <1>6, <2>3
  <2> QED
    BY <1>2, <1>3, <2>4
<1> QED
  BY <1>4, <1>5

\* What holds of 0 and of the successor of each number it holds of.
LEMMA NatsByInduction ==
    ASSUME NEW T \in SUBSET Nat, 0 \in T, \A n \in T : n + 1 \in T
    PROVE  T = Nat
<1> SUFFICES ASSUME Nat \ T # {} PROVE FALSE
  OBVIOUS
<1>1. PICK x \in Nat \ T : \A y \in Nat \ T : x <= y
  BY NatMin
<1>2. x # 0 /\ x - 1 \in Nat
  BY <1>1
<1>3. x - 1 \in T
  BY <1>1, <1>2
<1> QED
  BY <1>1, <1>2, <1>3

\* seq \in Seq(S) from its length and its elements.
LEMMA Elements ==
    ASSUME NEW S, NEW m \in Nat, NEW f \in [1..m -> S]
    PROVE  f \in Seq(S) /\ Len(f) = m
OBVIOUS

\* AtPlaces takes the elements of seq at the places, each once and in order.
LEMMA PlacesInOrder ==
    ASSUME NEW S, NEW seq \in Seq(S), NEW places \in SUBSET (1..Len(seq))
    PROVE  \E e \in [1..Len(AtPlaces(seq, places)) -> places] :
              /\ AtPlaces(seq, places) \in Seq(S)
              /\ \A k \in 1..Len(AtPlaces(seq, places)) :
                    AtPlaces(seq, places)[k] = seq[e[k]]
              /\ \A i, k \in 1..Len(AtPlaces(seq, places)) : i < k => e[i] < e[k]
              /\ \A n \in places : \E k \in 1..Len(AtPlaces(seq, places)) : e[k] = n
<1> DEFINE Upto(n) == {m \in places : m <= n}
           c == Cardinality(places)
           rank == [n \in places |-> Cardinality(Upto(n))]
           e == [k \in 1..c |-> CHOOSE n \in places : Cardinality(Upto(n)) = k]
<1>1. IsFiniteSet(places) /\ c \in Nat /\ Len(seq) \in Nat /\ places \subseteq Nat
  <2>1. Len(seq) \in Nat
    BY LenProperties
  <2>2. IsFiniteSet(1..Len(seq))
    BY <2>1, FS_Interval
  <2>3. IsFiniteSet(places)
    BY <2>2, FS_Subset
  <2> QED
    BY <2>1, <2>3, FS_CardinalityType
<1>2. ASSUME NEW n \in places
      PROVE  IsFiniteSet(Upto(n)) /\ Cardinality(Upto(n)) \in 1..c
  <2>1. IsFiniteSet(Upto(n)) /\ Cardinality(Upto(n)) <= c /\ Cardinality(Upto(n)) \in Nat
    BY <1>1, FS_Subset, FS_CardinalityType
  <2>2. n \in Upto(n)
    OBVIOUS
  <2>3. Cardinality(Upto(n)) # 0
    BY <2>1, <2>2, FS_EmptySet
  <2> QED
    BY <1>1, <2>1, <2>3
<1>3. ASSUME NEW m \in places, NEW n \in places, m < n
      PROVE  Cardinality(Upto(m)) < Cardinality(Upto(n))
  <2>1. Upto(m) \in SUBSET Upto(n) /\ n \in Upto(n) /\ n \notin Upto(m)
    <3>1. m \in Nat /\ n \in Nat /\ \A k \in places : k \in Nat
      BY <1>1
    <3>2. \A k \in places : k <= m => k <= n
      BY <1>3, <3>1
    <3>3. n <= n /\ ~(n <= m)
      BY <1>3, <3>1
    <3> QED
      BY <3>2, <3>3
  <2>2. /\ Cardinality(Upto(m)) <= Cardinality(Upto(n))
        /\ Cardinality(Upto(m)) # Cardinality(Upto(n))
    BY <1>2, <2>1, FS_Subset
  <2>3. Cardinality(Upto(m)) \in Nat /\ Cardinality(Upto(n)) \in Nat
    BY <1>2, FS_CardinalityType
  <2> HIDE DEF Upto
  <2> QED
    BY <2>2, <2>3
<1>4. rank \in Injection(places, 1..c)
  <2>1. rank \in [places -> 1..c]
    BY <1>2
  <2>2. ASSUME NEW m \in places, NEW n \in places, rank[m] = rank[n] PROVE m = n
    <3>1. m \in Nat /\ n \in Nat
      BY <1>1
    <3>2. rank[m] = Cardinality(Upto(m)) /\ rank[n] = Cardinality(Upto(n))
      OBVIOUS
    <3>3. rank[m] \in Nat /\ rank[n] \in Nat
      BY <1>2, <3>2, FS_CardinalityType
    <3>4. m < n => rank[m] < rank[n]
      BY <1>3, <3>2
    <3>5. n < m => rank[n] < rank[m]
      BY <1>3, <3>2
    <3> HIDE DEF rank, Upto
    <3> QED
      BY <2>2, <3>1, <3>3, <3>4, <3>5
  <2> QED
    BY <2>1, <2>2 DEF Injection, IsInjective
<1>5. rank \in Surjection(places, 1..c)
  <2>1. IsFiniteSet(1..c) /\ Cardinality(1..c) = c
    BY <1>1, FS_Interval
  <2> QED
    BY <1>4, <2>1, FS_Injection
<1>6. \A k \in 1..c : \E n \in places : Cardinality(Upto(n)) = k
  BY <1>5 DEF Surjection
<1>7. \A k \in 1..c : e[k] \in places /\ Cardinality(Upto(e[k])) = k
  BY <1>6
<1>8. e \in [1..c -> places]
  BY <1>7
<1>9. AtPlaces(seq, places) = [k \in 1..c |-> seq[e[k]]]
  BY DEF AtPlaces
<1>10. \A n \in places : seq[n] \in S
  BY ElementOfSeq
<1>11. AtPlaces(seq, places) \in Seq(S) /\ Len(AtPlaces(seq, places)) = c
  <2>1. [k \in 1..c |-> seq[e[k]]] \in [1..c -> S]
    BY <1>8, <1>10
  <2> QED
    BY <1>1, <1>9, <2>1, Elements
<1>12. \A i, k \in 1..c : i < k => e[i] < e[k]
  <2> SUFFICES ASSUME NEW i \in 1..c, NEW k \in 1..c, i < k, ~(e[i] < e[k]) PROVE FALSE
    OBVIOUS
  <2>1. e[i] \in places /\ e[k] \in places
    BY <1>7
  <2>2. e[i] \in Nat /\ e[k] \in Nat /\ i \in Nat /\ k \in Nat
    <3>1. \A n \in places : n \in Nat
      BY <1>1
    <3>2. e[i] \in Nat /\ e[k] \in Nat
      BY <2>1, <3>1
    <3>3. i \in Nat /\ k \in Nat
      BY <1>1
    <3> QED
      BY <3>2, <3>3
  <2>3. Cardinality(Upto(e[i])) = i /\ Cardinality(Upto(e[k])) = k
    BY <1>7
  <2>4. e[k] < e[i] => Cardinality(Upto(e[k])) < Cardinality(Upto(e[i]))
    BY <1>3, <2>1
  <2> HIDE DEF e, Upto
  <2>5. e[i] = e[k] => i = k
    BY <2>3
  <2>6. e[k] < e[i] => k < i
    BY <2>3, <2>4
  <2> QED
    BY <2>2, <2>5, <2>6
<1>13. \A n \in places : \E k \in 1..c : e[k] = n
  <2> SUFFICES ASSUME NEW n \in places PROVE e[Cardinality(Upto(n))] = n
    BY <1>2
  <2>1. Cardinality(Upto(n)) \in 1..c
    BY <1>2
  <2>2. /\ e[Cardinality(Upto(n))] \in places
        /\ Cardinality(Upto(e[Cardinality(Upto(n))])) = Cardinality(Upto(n))
    BY <1>7, <2>1
  <2> QED
    BY <1>4, <2>2 DEF Injection, IsInjective
<1> HIDE DEF e, c
<1> QED
  BY <1>8, <1>9, <1>11, <1>12, <1>13

-----------------------------------------------------------------------------
(* Types *)

AnyText == Texts \cup {NoText}
Entries == [at : Nat, text : AnyText]
References == [at : Nat, text : AnyText, key : Nat]
Warnings == {"title guessed", "authors guessed", "repeats removed",
             "references merged", "caption without object", "no title",
             "no authors", "no body"}

ArticleType ==
    [titles : Seq(Entries), subtitles : Seq(Entries), lines : Seq(Entries),
     authors : Seq(Entries), variants : Seq(Entries),
     affiliations : Seq(Entries),
     abstracts : Seq([at : Nat, text : AnyText, texts : SUBSET AnyText]),
     keywords : Seq(Entries), udc : Nat, doi : Nat, body : Seq(BlockType),
     references : Seq(References),
     citations : SUBSET [at : Nat, keys : SUBSET Nat],
     warnings : SUBSET Warnings]

ParserTypeOK ==
    /\ source \in Seq(Items)
    /\ article \in ArticleType
    /\ caption \in Nat
    /\ mode \in [references : BOOLEAN, secondary : BOOLEAN, editorial : BOOLEAN]

LEMMA ItemTypes ==
    ASSUME NEW item \in Items
    PROVE  /\ item.kind \in {"paragraph", "table"}
           /\ item.role \in Roles /\ item.form \in Forms /\ item.text \in AnyText
           /\ item.pics \in Nat /\ item.eqs \in Nat /\ item.bare \in BOOLEAN
           /\ item.cites \in SUBSET Nat /\ item.level \in Nat
           /\ item.ordered \in BOOLEAN /\ item.single \in BOOLEAN
           /\ item.portable \in BOOLEAN
           /\ item.text = NoText => /\ item.form = "plain"
                                   /\ item.role \notin CaptionRoles
<1>1. item \in ItemType
  BY ItemsAssumption
<1> QED
  BY <1>1, ItemsAssumption DEF ItemType, AnyText

LEMMA SourceItems ==
    ASSUME source \in Seq(Items), NEW n \in 1..Len(source)
    PROVE  source[n] \in Items
BY ElementOfSeq

LEMMA AppendedItem ==
    ASSUME NEW items \in Seq(Items), NEW item \in Items
    PROVE  /\ Append(items, item) \in Seq(Items)
           /\ Len(items) \in Nat
           /\ Len(Append(items, item)) = Len(items) + 1
           /\ Append(items, item)[Len(items) + 1] = item
           /\ \A n \in 1..Len(items) : Append(items, item)[n] = items[n]
BY AppendProperties, LenProperties

-----------------------------------------------------------------------------
(* The blocks of an item *)

\* What a block of item number n looks like.
BlockOf(block, n, item) ==
    /\ block \in BlockType
    /\ block.at = n
    /\ block.kind \in {"section", "paragraph", "item"} => item.kind = "paragraph"
    /\ block.kind = "figure" => item.pics > 0
    /\ block.kind = "table" => item.kind = "table" /\ ~IsLayout(item)
    /\ block.kind = "equation" /\ item.kind = "table" =>
          IsLayout(item) /\ item.pics = 0

BlocksOf(blocks, n, item) ==
    /\ blocks \in Seq(BlockType)
    /\ \A i \in 1..Len(blocks) : BlockOf(blocks[i], n, item)
    /\ item.kind = "table" => /\ blocks # <<>>
                              /\ item.pics <= 1 => Len(blocks) = 1

LEMMA ObjectBlocks ==
    ASSUME NEW n \in Nat, NEW item \in Items, NEW cap \in Nat
    PROVE  /\ Figures(n, item, cap) \in Seq(BlockType)
           /\ Len(Figures(n, item, cap)) = item.pics
           /\ Equations(n, item) \in Seq(BlockType)
           /\ Len(Equations(n, item)) = item.eqs
<1>1. item.pics \in Nat /\ item.eqs \in Nat
  BY ItemTypes
<1>2. /\ Figures(n, item, cap) \in [1..item.pics -> BlockType]
      /\ Equations(n, item) \in [1..item.eqs -> BlockType]
  BY DEF Figures, Equations, Block, BlockType, Kinds
<1> QED
  BY <1>1, <1>2, Elements

LEMMA ObjectFields ==
    ASSUME NEW n \in Nat, NEW item \in Items, NEW cap \in Nat
    PROVE  /\ \A i \in 1..item.pics : /\ Figures(n, item, cap)[i].kind = "figure"
                                      /\ Figures(n, item, cap)[i].at = n
           /\ \A i \in 1..item.eqs : /\ Equations(n, item)[i].kind = "equation"
                                     /\ Equations(n, item)[i].at = n
BY DEF Figures, Equations, Block

\* The blocks of a paragraph: at most one of its own, then its objects.
LEMMA ParagraphBlocks ==
    ASSUME NEW n \in Nat, NEW item \in Items, item.kind = "paragraph", NEW cap \in Nat,
           NEW first \in Seq(BlockType),
           \A i \in 1..Len(first) :
              first[i].at = n /\ first[i].kind \in {"section", "paragraph", "item"}
    PROVE  BlocksOf(first \o Objects(n, item, cap), n, item)
<1> DEFINE own == Objects(n, item, cap)
           eqs == Equations(n, item)
           figs == Figures(n, item, cap)
<1>1. item.pics \in Nat /\ item.eqs \in Nat
  BY ItemTypes
<1>2. /\ figs \in Seq(BlockType) /\ Len(figs) = item.pics
      /\ \A i \in 1..item.pics : figs[i].kind = "figure" /\ figs[i].at = n
      /\ eqs \in Seq(BlockType) /\ Len(eqs) = item.eqs
      /\ \A i \in 1..item.eqs : eqs[i].kind = "equation" /\ eqs[i].at = n
  <2>1. /\ figs \in Seq(BlockType) /\ Len(figs) = item.pics
        /\ eqs \in Seq(BlockType) /\ Len(eqs) = item.eqs
    BY ObjectBlocks
  <2>2. /\ \A i \in 1..item.pics : figs[i].kind = "figure" /\ figs[i].at = n
        /\ \A i \in 1..item.eqs : eqs[i].kind = "equation" /\ eqs[i].at = n
    BY ObjectFields
  <2> QED
    BY <2>1, <2>2
<1>3. own = eqs \o figs
  BY DEF Objects
<1> HIDE DEF own, eqs, figs
<1>4. /\ own \in Seq(BlockType) /\ Len(own) = item.eqs + item.pics
      /\ \A i \in 1..(item.eqs + item.pics) :
            own[i] = IF i <= item.eqs THEN eqs[i] ELSE figs[i - item.eqs]
  <2>1. /\ own \in Seq(BlockType) /\ Len(own) = Len(eqs) + Len(figs)
        /\ \A i \in 1..(Len(eqs) + Len(figs)) :
              own[i] = IF i <= Len(eqs) THEN eqs[i] ELSE figs[i - Len(eqs)]
    BY <1>2, <1>3, ConcatProperties
  <2> QED
    BY <1>2, <2>1
<1>5. ASSUME NEW i \in 1..Len(own) PROVE BlockOf(own[i], n, item)
  <2>1. own[i] \in BlockType
    BY <1>4, ElementOfSeq
  <2>2. CASE i <= item.eqs
    <3>1. own[i].kind = "equation" /\ own[i].at = n
      BY <1>1, <1>2, <1>4, <2>2
    <3> QED
      BY <2>1, <3>1 DEF BlockOf
  <2>3. CASE i > item.eqs
    <3>1. i - item.eqs \in 1..item.pics
      BY <1>1, <1>4, <2>3
    <3>2. own[i].kind = "figure" /\ own[i].at = n
      BY <1>1, <1>2, <1>4, <2>3, <3>1
    <3> QED
      BY <1>1, <2>1, <3>1, <3>2 DEF BlockOf
  <2> QED
    BY <1>1, <1>4, <2>2, <2>3
<1>6. /\ first \o own \in Seq(BlockType) /\ Len(first \o own) = Len(first) + Len(own)
      /\ Len(first) \in Nat /\ Len(own) \in Nat
      /\ \A i \in 1..(Len(first) + Len(own)) :
            (first \o own)[i] = IF i <= Len(first) THEN first[i] ELSE own[i - Len(first)]
  BY <1>4, ConcatProperties, LenProperties
<1>7. \A i \in 1..Len(first) : BlockOf(first[i], n, item)
  BY ElementOfSeq DEF BlockOf
<1>8. ASSUME NEW i \in 1..Len(first \o own) PROVE BlockOf((first \o own)[i], n, item)
  <2>1. CASE i <= Len(first)
    BY <1>6, <1>7, <2>1
  <2>2. CASE i > Len(first)
    <3>1. i - Len(first) \in 1..Len(own)
      BY <1>6, <2>2
    <3> QED
      BY <1>5, <1>6, <2>2, <3>1
  <2> QED
    BY <1>6, <2>1, <2>2
<1> QED
  BY <1>6, <1>8 DEF BlocksOf, own

LEMMA TableBlocksFit ==
    ASSUME NEW n \in Nat, NEW item \in Items, item.kind = "table", NEW cap \in Nat
    PROVE  BlocksOf(TableBlocks(n, item, cap), n, item)
<1>1. item.pics \in Nat /\ item.eqs \in Nat
  BY ItemTypes
<1>2. CASE item.pics > 0
  <2> DEFINE figs == Figures(n, item, cap)
  <2>1. TableBlocks(n, item, cap) = figs
    BY <1>2 DEF TableBlocks
  <2>2. /\ figs \in Seq(BlockType) /\ Len(figs) = item.pics
        /\ \A i \in 1..item.pics : figs[i].kind = "figure" /\ figs[i].at = n
    <3>1. figs \in Seq(BlockType) /\ Len(figs) = item.pics
      BY ObjectBlocks
    <3>2. \A i \in 1..item.pics : figs[i].kind = "figure" /\ figs[i].at = n
      BY ObjectFields
    <3> QED
      BY <3>1, <3>2
  <2> HIDE DEF figs
  <2>3. \A i \in 1..item.pics : BlockOf(figs[i], n, item)
    BY <1>2, <2>2, ElementOfSeq DEF BlockOf
  <2>4. figs # <<>> /\ (item.pics <= 1 => item.pics = 1)
    BY <1>1, <1>2, <2>2, EmptySeq
  <2> QED
    BY <2>1, <2>2, <2>3, <2>4 DEF BlocksOf
<1>3. CASE item.pics = 0
  <2> DEFINE block == TableBlocks(n, item, cap)[1]
  <2>1. TableBlocks(n, item, cap) = <<block>> /\ BlockOf(block, n, item)
    BY <1>1, <1>3 DEF TableBlocks, Block, BlockOf, BlockType, Kinds, IsLayout
  <2> HIDE DEF block
  <2> QED
    BY <2>1 DEF BlocksOf, BlockOf
<1> QED
  BY <1>1, <1>2, <1>3

-----------------------------------------------------------------------------
(* The body of the article and the items *)

\* The blocks stand in the order of their items; a table has blocks, and one
\* only unless it is of several pictures.
BodyFits(body, items) ==
    /\ \A i \in 1..Len(body) :
          /\ body[i].at \in 1..Len(items)
          /\ BlockOf(body[i], body[i].at, items[body[i].at])
    /\ \A i, j \in 1..Len(body) : i < j => body[i].at <= body[j].at
    /\ \A n \in 1..Len(items) : items[n].kind = "table" =>
          \E i \in 1..Len(body) : body[i].at = n
    /\ \A i, j \in 1..Len(body) :
          /\ body[i].at = body[j].at
          /\ items[body[i].at].kind = "table"
          /\ items[body[i].at].pics <= 1
          => i = j

\* The same blocks, perhaps with other captions.
Recaptioned(new, old) ==
    /\ new \in Seq(BlockType)
    /\ Len(new) = Len(old)
    /\ \A i \in 1..Len(old) : new[i].kind = old[i].kind /\ new[i].at = old[i].at

LEMMA GrownBodyFits ==
    ASSUME NEW items \in Seq(Items), NEW item \in Items,
           NEW body \in Seq(BlockType), BodyFits(body, items),
           NEW old, Recaptioned(old, body),
           NEW new, BlocksOf(new, Len(items) + 1, item)
    PROVE  old \o new \in Seq(BlockType) /\ BodyFits(old \o new, Append(items, item))
<1> DEFINE grown == old \o new
           more == Append(items, item)
<1>1. /\ more \in Seq(Items) /\ Len(items) \in Nat
      /\ Len(more) = Len(items) + 1 /\ more[Len(items) + 1] = item
      /\ \A n \in 1..Len(items) : more[n] = items[n]
  BY AppendedItem
<1>2. new \in Seq(BlockType) /\ old \in Seq(BlockType)
  BY DEF BlocksOf, Recaptioned
<1>3. /\ grown \in Seq(BlockType)
      /\ Len(grown) = Len(old) + Len(new)
      /\ Len(old) \in Nat /\ Len(new) \in Nat /\ Len(old) = Len(body)
  BY <1>2, ConcatProperties, LenProperties DEF Recaptioned
<1>4. \A i \in 1..Len(old) : grown[i] = old[i]
  BY <1>2, <1>3, ConcatProperties
<1>5. \A i \in (Len(old) + 1)..Len(grown) :
         i - Len(old) \in 1..Len(new) /\ grown[i] = new[i - Len(old)]
  BY <1>2, <1>3, ConcatProperties
<1> HIDE DEF grown, more
<1>6. ASSUME NEW i \in 1..Len(old)
      PROVE  /\ grown[i].at = body[i].at /\ grown[i].kind = body[i].kind
             /\ body[i].at \in 1..Len(items)
             /\ grown[i] \in BlockType
  <2>1. grown[i].at = body[i].at /\ grown[i].kind = body[i].kind
    BY <1>3, <1>4 DEF Recaptioned
  <2>2. old[i] \in BlockType
    BY <1>2, ElementOfSeq
  <2> QED
    BY <1>3, <1>4, <2>1, <2>2 DEF BodyFits
<1>7. ASSUME NEW i \in (Len(old) + 1)..Len(grown)
      PROVE  grown[i].at = Len(items) + 1 /\ BlockOf(grown[i], Len(items) + 1, item)
  BY <1>5 DEF BlocksOf, BlockOf
<1>8. ASSUME NEW i \in 1..Len(grown)
      PROVE  i \in 1..Len(old) \/ i \in (Len(old) + 1)..Len(grown)
  BY <1>3
<1>9. ASSUME NEW i \in 1..Len(grown)
      PROVE  grown[i].at \in 1..Len(more) /\ BlockOf(grown[i], grown[i].at, more[grown[i].at])
  <2>1. CASE i \in 1..Len(old)
    <3>1. BlockOf(body[i], body[i].at, items[body[i].at])
      BY <1>3, <2>1 DEF BodyFits
    <3>2. more[grown[i].at] = items[body[i].at] /\ grown[i].at \in 1..Len(more)
      BY <1>1, <1>6, <2>1
    <3> QED
      BY <1>6, <2>1, <3>1, <3>2 DEF BlockOf
  <2>2. CASE i \in (Len(old) + 1)..Len(grown)
    BY <1>1, <1>7, <2>2
  <2> QED
    BY <1>8, <2>1, <2>2
<1>10. ASSUME NEW i \in 1..Len(grown), NEW j \in 1..Len(grown), i < j
       PROVE  grown[i].at <= grown[j].at
  <2>1. CASE j \in 1..Len(old)
    <3>1. i \in 1..Len(old)
      BY <1>3, <1>10, <2>1
    <3>2. body[i].at <= body[j].at
      BY <1>3, <1>10, <2>1, <3>1 DEF BodyFits
    <3> QED
      BY <1>6, <2>1, <3>1, <3>2
  <2>2. CASE j \in (Len(old) + 1)..Len(grown)
    <3>1. grown[j].at = Len(items) + 1
      BY <1>7, <2>2
    <3>2. grown[i].at \in 1..(Len(items) + 1)
      BY <1>1, <1>9
    <3> QED
      BY <1>1, <3>1, <3>2
  <2> QED
    BY <1>8, <2>1, <2>2
<1>11. ASSUME NEW n \in 1..Len(more), more[n].kind = "table"
       PROVE  \E i \in 1..Len(grown) : grown[i].at = n
  <2>1. CASE n = Len(items) + 1
    <3>1. new # <<>>
      BY <1>1, <1>11, <2>1 DEF BlocksOf
    <3>2. Len(new) > 0
      BY <1>2, <1>3, <3>1, EmptySeq
    <3>3. Len(grown) \in (Len(old) + 1)..Len(grown) /\ Len(grown) \in 1..Len(grown)
      BY <1>3, <3>2
    <3> QED
      BY <1>7, <2>1, <3>3
  <2>2. CASE n # Len(items) + 1
    <3>1. n \in 1..Len(items) /\ items[n].kind = "table"
      BY <1>1, <1>11, <2>2
    <3>2. PICK i \in 1..Len(body) : body[i].at = n
      BY <3>1 DEF BodyFits
    <3>3. i \in 1..Len(old) /\ i \in 1..Len(grown)
      BY <1>3
    <3> QED
      BY <1>6, <3>2, <3>3
  <2> QED
    BY <2>1, <2>2
<1>12. ASSUME NEW i \in 1..Len(grown), NEW j \in 1..Len(grown),
              grown[i].at = grown[j].at, more[grown[i].at].kind = "table",
              more[grown[i].at].pics <= 1
       PROVE  i = j
  <2>1. CASE i \in 1..Len(old) /\ j \in 1..Len(old)
    <3>1. body[i].at = body[j].at /\ more[grown[i].at] = items[body[i].at]
      BY <1>1, <1>6, <1>12, <2>1
    <3> QED
      BY <1>3, <1>12, <2>1, <3>1 DEF BodyFits
  <2>2. CASE i \in (Len(old) + 1)..Len(grown) /\ j \in (Len(old) + 1)..Len(grown)
    <3>1. item.kind = "table" /\ item.pics <= 1
      BY <1>1, <1>7, <1>12, <2>2
    <3>2. Len(new) = 1
      BY <3>1 DEF BlocksOf
    <3> QED
      BY <1>3, <2>2, <3>2
  <2>3. CASE i \in 1..Len(old) /\ j \in (Len(old) + 1)..Len(grown)
    BY <1>1, <1>6, <1>7, <1>12, <2>3
  <2>4. CASE j \in 1..Len(old) /\ i \in (Len(old) + 1)..Len(grown)
    BY <1>1, <1>6, <1>7, <1>12, <2>4
  <2> QED
    BY <1>8, <2>1, <2>2, <2>3, <2>4
<1>13. BodyFits(grown, more)
  BY <1>9, <1>10, <1>11, <1>12 DEF BodyFits
<1> QED
  BY <1>3, <1>13 DEF grown, more

-----------------------------------------------------------------------------
(* After the last item: paragraphs leave the body *)

\* e takes the places of thin to those of body, where only paragraphs are not hit.
ThinnedBy(thin, body, e) ==
    /\ e \in [1..Len(thin) -> 1..Len(body)]
    /\ \A i \in 1..Len(thin) : thin[i] = body[e[i]]
    /\ \A i, j \in 1..Len(thin) : i < j => e[i] < e[j]
    /\ \A n \in 1..Len(body) :
          body[n].kind # "paragraph" => \E i \in 1..Len(thin) : e[i] = n

Thinned(thin, body) == thin \in Seq(BlockType) /\ \E e : ThinnedBy(thin, body, e)

LEMMA ThinnedSelf ==
    ASSUME NEW body \in Seq(BlockType)
    PROVE  Thinned(body, body)
<1> DEFINE e == [i \in 1..Len(body) |-> i]
<1>1. ThinnedBy(body, body, e)
  BY DEF ThinnedBy
<1> QED
  BY <1>1 DEF Thinned

LEMMA ThinnedTwice ==
    ASSUME NEW a \in Seq(BlockType), NEW b, Thinned(b, a), NEW c, Thinned(c, b)
    PROVE  Thinned(c, a)
<1>1. PICK e : ThinnedBy(b, a, e)
  BY DEF Thinned
<1>2. PICK f : ThinnedBy(c, b, f)
  BY DEF Thinned
<1> DEFINE g == [i \in 1..Len(c) |-> e[f[i]]]
<1>3. \A i \in 1..Len(c) : f[i] \in 1..Len(b) /\ e[f[i]] \in 1..Len(a)
  BY <1>1, <1>2 DEF ThinnedBy
<1>4. g \in [1..Len(c) -> 1..Len(a)]
  BY <1>3
<1>5. \A i \in 1..Len(c) : c[i] = a[g[i]]
  BY <1>1, <1>2, <1>3 DEF ThinnedBy
<1>6. \A i, j \in 1..Len(c) : i < j => g[i] < g[j]
  BY <1>1, <1>2, <1>3 DEF ThinnedBy
<1>7. ASSUME NEW n \in 1..Len(a), a[n].kind # "paragraph"
      PROVE  \E i \in 1..Len(c) : g[i] = n
  <2>1. PICK m \in 1..Len(b) : e[m] = n
    BY <1>1, <1>7 DEF ThinnedBy
  <2>2. b[m].kind # "paragraph"
    BY <1>1, <1>7, <2>1 DEF ThinnedBy
  <2>3. PICK i \in 1..Len(c) : f[i] = m
    BY <1>2, <2>2 DEF ThinnedBy
  <2> QED
    BY <2>1, <2>3
<1> HIDE DEF g
<1>8. ThinnedBy(c, a, g)
  BY <1>4, <1>5, <1>6, <1>7 DEF ThinnedBy
<1> QED
  BY <1>8 DEF Thinned

LEMMA ThinnedByOne ==
    ASSUME NEW body \in Seq(BlockType), NEW n \in 1..Len(body),
           body[n].kind = "paragraph"
    PROVE  Thinned(Without(body, n), body)
<1> DEFINE thin == Without(body, n)
           m == Len(body)
           e == [i \in 1..(m - 1) |-> IF i < n THEN i ELSE i + 1]
<1>1. m \in Nat /\ n \in Nat /\ \A i \in 1..m : body[i] \in BlockType
  BY LenProperties, ElementOfSeq
<1>2. /\ SubSeq(body, 1, n - 1) \in Seq(BlockType)
      /\ Len(SubSeq(body, 1, n - 1)) = n - 1
      /\ \A i \in 1..(n - 1) : SubSeq(body, 1, n - 1)[i] = body[i]
  BY <1>1
<1>3. /\ SubSeq(body, n + 1, m) \in Seq(BlockType)
      /\ Len(SubSeq(body, n + 1, m)) = m - n
      /\ \A i \in 1..(m - n) : SubSeq(body, n + 1, m)[i] = body[n + i]
  BY <1>1
<1>4. /\ thin \in Seq(BlockType) /\ Len(thin) = m - 1
      /\ \A i \in 1..(m - 1) : thin[i] = IF i < n THEN body[i] ELSE body[i + 1]
  <2> DEFINE s == SubSeq(body, 1, n - 1)
             t == SubSeq(body, n + 1, m)
  <2>1. thin = s \o t
    BY DEF Without
  <2> HIDE DEF s, t, thin
  <2>2. /\ thin \in Seq(BlockType) /\ Len(thin) = Len(s) + Len(t)
        /\ \A i \in 1..(Len(s) + Len(t)) :
              thin[i] = IF i <= Len(s) THEN s[i] ELSE t[i - Len(s)]
    BY <1>2, <1>3, <2>1, ConcatProperties DEF s, t
  <2>3. Len(s) = n - 1 /\ Len(t) = m - n
    BY <1>2, <1>3 DEF s, t
  <2>4. ASSUME NEW i \in 1..(m - 1) PROVE thin[i] = IF i < n THEN body[i] ELSE body[i + 1]
    <3>1. CASE i < n
      <4>1. thin[i] = s[i] /\ i \in 1..(n - 1)
        BY <1>1, <2>2, <2>3, <3>1
      <4> QED
        BY <1>2, <3>1, <4>1 DEF s
    <3>2. CASE ~(i < n)
      <4>1. thin[i] = t[i - n + 1] /\ i - n + 1 \in 1..(m - n)
        BY <1>1, <2>2, <2>3, <3>2
      <4>2. t[i - n + 1] = body[n + (i - n + 1)]
        BY <1>3, <4>1 DEF t
      <4>3. n + (i - n + 1) = i + 1
        BY <1>1
      <4> QED
        BY <3>2, <4>1, <4>2, <4>3
    <3> QED
      BY <3>1, <3>2
  <2> QED
    BY <1>1, <2>2, <2>3, <2>4
<1>5. e \in [1..(m - 1) -> 1..m] /\ \A i, j \in 1..(m - 1) : i < j => e[i] < e[j]
  BY <1>1
<1>6. \A i \in 1..(m - 1) : thin[i] = body[e[i]]
  BY <1>4
<1>7. ASSUME NEW k \in 1..m, body[k].kind # "paragraph"
      PROVE  \E i \in 1..(m - 1) : e[i] = k
  <2>1. k # n
    BY <1>7
  <2>2. CASE k < n
    <3>1. k \in 1..(m - 1) /\ e[k] = k
      BY <1>1, <2>2
    <3> QED
      BY <3>1
  <2>3. CASE k > n
    <3>1. k - 1 \in 1..(m - 1) /\ e[k - 1] = k
      BY <1>1, <2>3
    <3> QED
      BY <3>1
  <2> QED
    BY <1>1, <2>1, <2>2, <2>3
<1> HIDE DEF e, thin, m
<1>8. ThinnedBy(thin, body, e)
  BY <1>4, <1>5, <1>6, <1>7 DEF ThinnedBy, m
<1> QED
  BY <1>4, <1>8 DEF Thinned, thin

LEMMA ThinnedToPlaces ==
    ASSUME NEW body \in Seq(BlockType), NEW places \in SUBSET (1..Len(body)),
           \A n \in 1..Len(body) : body[n].kind # "paragraph" => n \in places
    PROVE  Thinned(AtPlaces(body, places), body)
<1> DEFINE thin == AtPlaces(body, places)
<1>1. PICK e \in [1..Len(thin) -> places] :
              /\ thin \in Seq(BlockType)
              /\ \A k \in 1..Len(thin) : thin[k] = body[e[k]]
              /\ \A i, k \in 1..Len(thin) : i < k => e[i] < e[k]
              /\ \A n \in places : \E k \in 1..Len(thin) : e[k] = n
  BY PlacesInOrder
<1> HIDE DEF thin
<1>2. ThinnedBy(thin, body, e)
  BY <1>1 DEF ThinnedBy
<1> QED
  BY <1>1, <1>2 DEF Thinned, thin

LEMMA ThinnedBodyFits ==
    ASSUME NEW items, NEW body \in Seq(BlockType), BodyFits(body, items),
           NEW thin, Thinned(thin, body)
    PROVE  BodyFits(thin, items)
<1>1. PICK e : ThinnedBy(thin, body, e)
  BY DEF Thinned
<1>2. \A i \in 1..Len(thin) : e[i] \in 1..Len(body) /\ thin[i] = body[e[i]]
  BY <1>1 DEF ThinnedBy
<1>3. \A i, j \in 1..Len(thin) : i < j => e[i] < e[j]
  BY <1>1 DEF ThinnedBy
<1>4. \A i \in 1..Len(thin) :
          /\ thin[i].at \in 1..Len(items)
          /\ BlockOf(thin[i], thin[i].at, items[thin[i].at])
  BY <1>2 DEF BodyFits
<1>5. \A i, j \in 1..Len(thin) : i < j => thin[i].at <= thin[j].at
  BY <1>2, <1>3 DEF BodyFits
<1>6. ASSUME NEW n \in 1..Len(items), items[n].kind = "table"
      PROVE  \E i \in 1..Len(thin) : thin[i].at = n
  <2>1. PICK m \in 1..Len(body) : body[m].at = n
    BY <1>6 DEF BodyFits
  <2>2. BlockOf(body[m], n, items[n])
    BY <2>1 DEF BodyFits
  <2>3. body[m].kind # "paragraph"
    BY <1>6, <2>2 DEF BlockOf
  <2>4. PICK i \in 1..Len(thin) : e[i] = m
    BY <1>1, <2>3 DEF ThinnedBy
  <2> QED
    BY <1>2, <2>1, <2>4
<1>7. ASSUME NEW i \in 1..Len(thin), NEW j \in 1..Len(thin),
             thin[i].at = thin[j].at, items[thin[i].at].kind = "table",
             items[thin[i].at].pics <= 1
      PROVE  i = j
  <2>1. e[i] = e[j]
    <3>1. e[i] \in 1..Len(body) /\ e[j] \in 1..Len(body)
      BY <1>2
    <3>2. /\ body[e[i]].at = body[e[j]].at
          /\ items[body[e[i]].at].kind = "table"
          /\ items[body[e[i]].at].pics <= 1
      BY <1>2, <1>7
    <3> QED
      BY <3>1, <3>2 DEF BodyFits
  <2>2. Len(thin) \in Nat /\ e[i] \in Nat
    BY <1>2, LenProperties DEF Thinned
  <2> QED
    BY <1>3, <2>1, <2>2
<1> QED
  BY <1>4, <1>5, <1>6, <1>7 DEF BodyFits

\* What the end of parsing may do to an article a.
Settles(b, a) ==
    /\ b \in ArticleType
    /\ Thinned(b.body, a.body)
    /\ BodyFits(b.body, source)
    /\ \A n \in 1..Len(b.references) :
          \E m \in 1..Len(a.references) : b.references[n] = a.references[m]
    /\ b.citations = a.citations

LEMMA SettlesTwice ==
    ASSUME NEW a \in ArticleType, NEW b, Settles(b, a), NEW c, Settles(c, b)
    PROVE  Settles(c, a)
<1>1. Thinned(c.body, a.body)
  <2>1. a.body \in Seq(BlockType) /\ b.body \in Seq(BlockType)
    BY DEF Settles, ArticleType
  <2> QED
    BY <2>1, ThinnedTwice DEF Settles
<1>2. ASSUME NEW n \in 1..Len(c.references)
      PROVE  \E m \in 1..Len(a.references) : c.references[n] = a.references[m]
  <2>1. PICK k \in 1..Len(b.references) : c.references[n] = b.references[k]
    BY DEF Settles
  <2> QED
    BY <2>1 DEF Settles
<1> QED
  BY <1>1, <1>2 DEF Settles

LEMMA SavedAuthorsSettle ==
    ASSUME NEW a \in ArticleType, BodyFits(a.body, source)
    PROVE  Settles(SavedAuthors(a), a)
<1> DEFINE lines == 1..Len(a.lines)
           others == {n \in lines \ {1} :
                    /\ a.titles # <<>>
                    /\ Language[a.lines[n].text] # Language[a.titles[1].text]}
<1>1. /\ a.lines \in Seq(Entries) /\ a.variants \in Seq(Entries)
      /\ a.body \in Seq(BlockType)
  BY DEF ArticleType
<1>2. /\ AtPlaces(a.lines, lines \ others) \in Seq(Entries)
      /\ AtPlaces(a.lines, others) \in Seq(Entries)
  BY <1>1, PlacesInOrder
<1>3. a.variants \o AtPlaces(a.lines, others) \in Seq(Entries)
  BY <1>1, <1>2, ConcatProperties
<1>4. SavedAuthors(a) = [a EXCEPT !.authors = AtPlaces(a.lines, lines \ others),
                                  !.variants = a.variants \o AtPlaces(a.lines, others)]
  BY DEF SavedAuthors
<1> HIDE DEF lines, others
<1>5. /\ SavedAuthors(a) \in ArticleType
      /\ SavedAuthors(a).body = a.body
      /\ SavedAuthors(a).references = a.references
      /\ SavedAuthors(a).citations = a.citations
  BY <1>2, <1>3, <1>4 DEF ArticleType
<1>6. Thinned(a.body, a.body)
  BY <1>1, ThinnedSelf
<1> QED
  BY <1>5, <1>6 DEF Settles

\* An article without one paragraph of the body, its text being entry.
LEMMA GuessSettles ==
    ASSUME source \in Seq(Items), NEW a \in ArticleType, BodyFits(a.body, source),
           NEW n \in 1..Len(a.body), a.body[n].kind = "paragraph",
           NEW b \in ArticleType, b.body = Without(a.body, n),
           b.references = a.references, b.citations = a.citations
    PROVE  Settles(b, a)
<1>1. a.body \in Seq(BlockType)
  BY DEF ArticleType
<1>2. Thinned(b.body, a.body)
  BY <1>1, ThinnedByOne
<1>3. BodyFits(b.body, source)
  BY <1>1, <1>2, ThinnedBodyFits
<1> QED
  BY <1>2, <1>3 DEF Settles

LEMMA GuessIsTyped ==
    ASSUME source \in Seq(Items), NEW a \in ArticleType, BodyFits(a.body, source),
           NEW n \in 1..Len(a.body), a.body[n].kind = "paragraph"
    PROVE  /\ <<[at |-> a.body[n].at, text |-> TextAt(a.body[n].at)]>> \in Seq(Entries)
           /\ Without(a.body, n) \in Seq(BlockType)
<1>1. a.body \in Seq(BlockType)
  BY DEF ArticleType
<1>2. Without(a.body, n) \in Seq(BlockType)
  BY <1>1, ThinnedByOne DEF Thinned
<1>3. a.body[n].at \in 1..Len(source) /\ a.body[n].at \in Nat
  BY DEF BodyFits
<1>4. TextAt(a.body[n].at) \in AnyText
  BY <1>3, ElementOfSeq, ItemTypes DEF TextAt
<1>5. [at |-> a.body[n].at, text |-> TextAt(a.body[n].at)] \in Entries
  BY <1>3, <1>4 DEF Entries
<1> QED
  BY <1>2, <1>5

LEMMA FirstOfPlaces ==
    ASSUME NEW places \in SUBSET Nat, places # {}
    PROVE  FirstOf(places) \in places
BY NatMin DEF FirstOf

LEMMA WithTitleSettles ==
    ASSUME source \in Seq(Items), NEW a \in ArticleType, BodyFits(a.body, source)
    PROVE  Settles(WithTitle(a), a)
<1> DEFINE places == {n \in 1..Len(a.body) :
                    /\ n <= 4
                    /\ a.body[n].kind = "paragraph"
                    /\ TextAt(a.body[n].at) # NoText
                    /\ source[a.body[n].at].form # "surnames"}
           n == FirstOf(places)
<1>1. a.body \in Seq(BlockType)
  BY DEF ArticleType
<1>2. CASE a.titles # <<>> \/ places = {}
  <2>1. WithTitle(a) = a
    BY <1>2 DEF WithTitle
  <2> QED
    BY <1>1, <2>1, ThinnedSelf DEF Settles
<1>3. CASE ~(a.titles # <<>> \/ places = {})
  <2>1. n \in places
    <3>1. places \in SUBSET Nat /\ places # {}
      BY <1>3
    <3> HIDE DEF places
    <3> QED
      BY <3>1, FirstOfPlaces
  <2>2. n \in 1..Len(a.body) /\ a.body[n].kind = "paragraph"
    BY <2>1
  <2>3. WithTitle(a) =
           [a EXCEPT !.titles = <<[at |-> a.body[n].at, text |-> TextAt(a.body[n].at)]>>,
                     !.body = Without(a.body, n),
                     !.warnings = a.warnings \cup {"title guessed"}]
    BY <1>3 DEF WithTitle
  <2> HIDE DEF n, places
  <2>4. /\ <<[at |-> a.body[n].at, text |-> TextAt(a.body[n].at)]>> \in Seq(Entries)
        /\ Without(a.body, n) \in Seq(BlockType)
    BY <2>2, GuessIsTyped
  <2>0. a.warnings \cup {"title guessed"} \in SUBSET Warnings
    BY DEF ArticleType, Warnings
  <2>5. /\ WithTitle(a) \in ArticleType
        /\ WithTitle(a).body = Without(a.body, n)
        /\ WithTitle(a).references = a.references
        /\ WithTitle(a).citations = a.citations
    BY <2>0, <2>3, <2>4 DEF ArticleType
  <2> QED
    BY <2>2, <2>5, GuessSettles
<1> QED
  BY <1>2, <1>3

LEMMA WithAuthorsSettles ==
    ASSUME source \in Seq(Items), NEW a \in ArticleType, BodyFits(a.body, source)
    PROVE  Settles(WithAuthors(a), a)
<1> DEFINE places == {n \in 1..Len(a.body) :
                    /\ n <= 6
                    /\ a.body[n].kind = "paragraph"
                    /\ source[a.body[n].at].form = "surnames"
                    /\ \A m \in 1..n : a.body[m].kind # "section"}
           n == FirstOf(places)
<1>1. a.body \in Seq(BlockType)
  BY DEF ArticleType
<1>2. CASE a.authors # <<>> \/ places = {}
  <2>1. WithAuthors(a) = a
    BY <1>2 DEF WithAuthors
  <2> QED
    BY <1>1, <2>1, ThinnedSelf DEF Settles
<1>3. CASE ~(a.authors # <<>> \/ places = {})
  <2>1. n \in places
    <3>1. places \in SUBSET Nat /\ places # {}
      BY <1>3
    <3> HIDE DEF places
    <3> QED
      BY <3>1, FirstOfPlaces
  <2>2. n \in 1..Len(a.body) /\ a.body[n].kind = "paragraph"
    BY <2>1
  <2>3. WithAuthors(a) =
           [a EXCEPT !.authors = <<[at |-> a.body[n].at, text |-> TextAt(a.body[n].at)]>>,
                     !.body = Without(a.body, n),
                     !.warnings = a.warnings \cup {"authors guessed"}]
    BY <1>3 DEF WithAuthors
  <2> HIDE DEF n, places
  <2>4. /\ <<[at |-> a.body[n].at, text |-> TextAt(a.body[n].at)]>> \in Seq(Entries)
        /\ Without(a.body, n) \in Seq(BlockType)
    BY <2>2, GuessIsTyped
  <2>0. a.warnings \cup {"authors guessed"} \in SUBSET Warnings
    BY DEF ArticleType, Warnings
  <2>5. /\ WithAuthors(a) \in ArticleType
        /\ WithAuthors(a).body = Without(a.body, n)
        /\ WithAuthors(a).references = a.references
        /\ WithAuthors(a).citations = a.citations
    BY <2>0, <2>3, <2>4 DEF ArticleType
  <2> QED
    BY <2>2, <2>5, GuessSettles
<1> QED
  BY <1>2, <1>3

LEMMA WithoutRepeatsSettles ==
    ASSUME source \in Seq(Items), NEW a \in ArticleType, BodyFits(a.body, source)
    PROVE  Settles(WithoutRepeats(a), a)
<1> DEFINE repeats == {n \in 1..Len(a.body) : RepeatsAbstract(a, a.body[n])}
           kept == AtPlaces(a.body, 1..Len(a.body) \ repeats)
<1>1. a.body \in Seq(BlockType)
  BY DEF ArticleType
<1>2. CASE repeats = {}
  <2>1. WithoutRepeats(a) = a
    BY <1>2 DEF WithoutRepeats
  <2> QED
    BY <1>1, <2>1, ThinnedSelf DEF Settles
<1>3. CASE repeats # {}
  <2>1. WithoutRepeats(a) = [a EXCEPT !.body = kept,
                                      !.warnings = a.warnings \cup {"repeats removed"}]
    BY <1>3 DEF WithoutRepeats
  <2>2. Thinned(kept, a.body)
    <3>1. \A n \in 1..Len(a.body) : a.body[n].kind # "paragraph" => n \notin repeats
      BY DEF RepeatsAbstract
    <3> HIDE DEF repeats
    <3> QED
      BY <1>1, <3>1, ThinnedToPlaces
  <2> HIDE DEF kept
  <2>0. a.warnings \cup {"repeats removed"} \in SUBSET Warnings
    BY DEF ArticleType, Warnings
  <2>3. /\ WithoutRepeats(a) \in ArticleType
        /\ WithoutRepeats(a).body = kept
        /\ WithoutRepeats(a).references = a.references
        /\ WithoutRepeats(a).citations = a.citations
    BY <2>0, <2>1, <2>2 DEF ArticleType, Thinned
  <2>4. BodyFits(kept, source)
    BY <1>1, <2>2, ThinnedBodyFits
  <2> QED
    BY <2>2, <2>3, <2>4 DEF Settles
<1> QED
  BY <1>2, <1>3

LEMMA WithoutDuplicatesSettles ==
    ASSUME NEW a \in ArticleType, BodyFits(a.body, source)
    PROVE  Settles(WithoutDuplicates(a), a)
<1>1. a.body \in Seq(BlockType) /\ a.references \in Seq(References)
  BY DEF ArticleType
<1>2. CASE Duplicates(a) = {}
  BY <1>1, <1>2, ThinnedSelf DEF Settles, WithoutDuplicates
<1>3. CASE Duplicates(a) # {}
  <2> DEFINE places == 1..Len(a.references) \ Duplicates(a)
  <2>1. PICK e \in [1..Len(Merged(a)) -> places] :
              /\ Merged(a) \in Seq(References)
              /\ \A k \in 1..Len(Merged(a)) : Merged(a)[k] = a.references[e[k]]
    <3> DEFINE merged == AtPlaces(a.references, places)
    <3>1. Merged(a) = merged /\ places \in SUBSET (1..Len(a.references))
      BY DEF Merged
    <3>2. \E e \in [1..Len(merged) -> places] :
              /\ merged \in Seq(References)
              /\ \A k \in 1..Len(merged) : merged[k] = a.references[e[k]]
      <4> HIDE DEF places
      <4>1. places \in SUBSET (1..Len(a.references)) /\ a.references \in Seq(References)
        BY <1>1, <3>1
      <4> QED
        BY <4>1, PlacesInOrder, SMTT(30)
    <3> HIDE DEF merged
    <3> QED
      BY <3>1, <3>2
  <2>2. WithoutDuplicates(a) =
          [a EXCEPT !.references = Merged(a),
                    !.warnings = a.warnings \cup {"references merged"}]
    BY <1>3 DEF WithoutDuplicates
  <2>0. a.warnings \cup {"references merged"} \in SUBSET Warnings
    BY DEF ArticleType, Warnings
  <2>3. /\ WithoutDuplicates(a) \in ArticleType
        /\ WithoutDuplicates(a).body = a.body
        /\ WithoutDuplicates(a).references = Merged(a)
        /\ WithoutDuplicates(a).citations = a.citations
    BY <2>0, <2>1, <2>2 DEF ArticleType
  <2>4. \A n \in 1..Len(Merged(a)) :
           \E m \in 1..Len(a.references) : Merged(a)[n] = a.references[m]
    BY <2>1
  <2> QED
    BY <1>1, <2>3, <2>4, ThinnedSelf DEF Settles
<1> QED
  BY <1>2, <1>3

\* Brackets are linked to their own numbers.
LinksFit(b) ==
    \A c \in b.citations : c.at \in 1..Len(source) /\ c.keys \subseteq source[c.at].cites

LEMMA LinkedFits ==
    ASSUME source \in Seq(Items), NEW a \in ArticleType, BodyFits(a.body, source)
    PROVE  /\ Linked(a) \in ArticleType
           /\ Linked(a).body = a.body /\ Linked(a).references = a.references
           /\ LinksFit(Linked(a))
<1> DEFINE Numbers(n) == CitationNumbers(source[a.body[n].at].cites, Len(a.references))
           places == {n \in 1..Len(a.body) : a.body[n].kind \in {"paragraph", "item"}}
           links == {[at |-> a.body[n].at, keys |-> Numbers(n)] :
                       n \in {p \in places : Numbers(p) # {}}}
<1>1. Linked(a) = [a EXCEPT !.citations = links]
  BY DEF Linked
<1>2. ASSUME NEW n \in 1..Len(a.body)
      PROVE  /\ a.body[n].at \in 1..Len(source) /\ a.body[n].at \in Nat
             /\ Numbers(n) \subseteq source[a.body[n].at].cites
             /\ Numbers(n) \in SUBSET Nat
  <2>1. a.body[n].at \in 1..Len(source) /\ a.body[n].at \in Nat
    BY DEF BodyFits
  <2>2. Numbers(n) \subseteq source[a.body[n].at].cites
    BY DEF CitationNumbers
  <2>3. source[a.body[n].at].cites \in SUBSET Nat
    BY <2>1, ElementOfSeq, ItemTypes
  <2> HIDE DEF Numbers
  <2> QED
    BY <2>1, <2>2, <2>3
<1> HIDE DEF Numbers
<1>3. \A c \in links : \E n \in 1..Len(a.body) : c = [at |-> a.body[n].at, keys |-> Numbers(n)]
  OBVIOUS
<1> HIDE DEF links, places
<1>4. \A c \in links : /\ c \in [at : Nat, keys : SUBSET Nat]
                       /\ c.at \in 1..Len(source) /\ c.keys \subseteq source[c.at].cites
  BY <1>2, <1>3
<1>5. /\ Linked(a) \in ArticleType
      /\ Linked(a).body = a.body /\ Linked(a).references = a.references
      /\ Linked(a).citations = links
  BY <1>1, <1>4 DEF ArticleType
<1> QED
  BY <1>4, <1>5 DEF LinksFit

LEMMA WarnedFits ==
    ASSUME NEW a \in ArticleType
    PROVE  /\ Warned(a) \in ArticleType
           /\ Warned(a).body = a.body /\ Warned(a).references = a.references
           /\ Warned(a).citations = a.citations
<1> DEFINE Add(test, warning) == IF test THEN {warning} ELSE {}
           new == Add(caption # 0, "caption without object")
                    \cup Add(a.titles = <<>>, "no title")
                    \cup Add(a.authors = <<>>, "no authors")
                    \cup Add(a.body = <<>>, "no body")
<1>1. Warned(a) = [a EXCEPT !.warnings = a.warnings \cup new]
  BY DEF Warned
<1>2. a.warnings \cup new \in SUBSET Warnings
  BY DEF ArticleType, Warnings
<1> HIDE DEF new
<1> QED
  BY <1>1, <1>2 DEF ArticleType

LEMMA ParsedFits ==
    ASSUME ParserTypeOK, BodyFits(article.body, source)
    PROVE  /\ Parsed \in ArticleType
           /\ Thinned(Parsed.body, article.body)
           /\ BodyFits(Parsed.body, source)
           /\ \A n \in 1..Len(Parsed.references) :
                 \E m \in 1..Len(article.references) :
                    Parsed.references[n] = article.references[m]
           /\ LinksFit(Parsed)
<1> DEFINE a == SavedAuthors(article)
           b == WithTitle(a)
           c == WithAuthors(b)
           d == WithoutRepeats(c)
           e == WithoutDuplicates(d)
<1>1. source \in Seq(Items) /\ article \in ArticleType
  BY DEF ParserTypeOK
<1>2. Settles(a, article)
  BY <1>1, SavedAuthorsSettle
<1>3. Settles(b, a)
  <2> HIDE DEF a
  <2> QED
    BY <1>1, <1>2, WithTitleSettles DEF Settles
<1>4. Settles(c, b)
  <2> HIDE DEF a, b
  <2> QED
    BY <1>1, <1>3, WithAuthorsSettles DEF Settles
<1>5. Settles(d, c)
  <2> HIDE DEF a, b, c
  <2> QED
    BY <1>1, <1>4, WithoutRepeatsSettles DEF Settles
<1>6. Settles(e, d)
  <2> HIDE DEF a, b, c, d
  <2> QED
    BY <1>1, <1>5, WithoutDuplicatesSettles DEF Settles
<1>7. Parsed = Warned(Linked(e))
  BY DEF Parsed
<1> HIDE DEF a, b, c, d, e
<1>8. Settles(e, article)
  <2>1. a \in ArticleType /\ b \in ArticleType /\ c \in ArticleType
    BY <1>2, <1>3, <1>4 DEF Settles
  <2>2. Settles(b, article)
    BY <1>1, <1>2, <1>3, SettlesTwice
  <2>3. Settles(c, article)
    BY <1>1, <1>4, <2>2, SettlesTwice
  <2>4. Settles(d, article)
    BY <1>1, <1>5, <2>3, SettlesTwice
  <2> QED
    BY <1>1, <1>6, <2>4, SettlesTwice
<1>9. /\ Linked(e) \in ArticleType /\ Linked(e).body = e.body
      /\ Linked(e).references = e.references /\ LinksFit(Linked(e))
  BY <1>1, <1>8, LinkedFits DEF Settles
<1>10. /\ Parsed \in ArticleType /\ Parsed.body = e.body
       /\ Parsed.references = e.references /\ Parsed.citations = Linked(e).citations
  BY <1>7, <1>9, WarnedFits
<1> QED
  BY <1>8, <1>9, <1>10 DEF Settles, LinksFit

-----------------------------------------------------------------------------
(* One item is read *)

Abstracts == [at : Nat, text : AnyText, texts : SUBSET AnyText]

LEMMA ArticleFields ==
    ASSUME NEW a \in ArticleType
    PROVE  /\ a.titles \in Seq(Entries) /\ a.subtitles \in Seq(Entries)
           /\ a.lines \in Seq(Entries) /\ a.authors \in Seq(Entries)
           /\ a.variants \in Seq(Entries) /\ a.affiliations \in Seq(Entries)
           /\ a.abstracts \in Seq(Abstracts) /\ a.keywords \in Seq(Entries)
           /\ a.body \in Seq(BlockType) /\ a.references \in Seq(References)
BY DEF ArticleType, Abstracts

LEMMA WithEntryTyped ==
    ASSUME ParserTypeOK, NEW item \in Items, NEW entries \in Seq(Entries)
    PROVE  WithEntry(entries, item) \in Seq(Entries)
<1>1. Here \in Nat
  BY LenProperties DEF Here, ParserTypeOK
<1>2. Entry(item) \in Entries
  BY <1>1, ItemTypes DEF Entry, Entries
<1> QED
  BY <1>2, AppendProperties DEF WithEntry

LEMMA AppendAbstractTyped ==
    ASSUME ParserTypeOK, NEW item \in Items, NEW abstracts \in Seq(Abstracts)
    PROVE  AppendAbstract(abstracts, item) \in Seq(Abstracts)
<1> DEFINE n == Len(abstracts)
           new == [at |-> Here, text |-> item.text, texts |-> {item.text}]
           more == [abstracts[n] EXCEPT !.texts = abstracts[n].texts \cup {item.text}]
<1>1. Here \in Nat /\ item.text \in AnyText /\ n \in Nat
  BY LenProperties, ItemTypes DEF Here, ParserTypeOK
<1>2. new \in Abstracts
  BY <1>1 DEF Abstracts
<1>3. Append(abstracts, new) \in Seq(Abstracts)
  BY <1>2, AppendProperties
<1>4. n > 0 => [abstracts EXCEPT ![n] = more] \in Seq(Abstracts)
  <2> SUFFICES ASSUME n > 0 PROVE [abstracts EXCEPT ![n] = more] \in Seq(Abstracts)
    OBVIOUS
  <2>1. n \in 1..Len(abstracts)
    BY <1>1
  <2>2. abstracts[n] \in Abstracts
    BY <2>1, ElementOfSeq
  <2>3. more \in Abstracts
    BY <1>1, <2>2 DEF Abstracts
  <2> HIDE DEF n, more
  <2> QED
    BY <2>1, <2>3, ExceptSeq
<1>5. AppendAbstract(abstracts, item) \in
         {abstracts, Append(abstracts, new)} \cup
         (IF n > 0 THEN {[abstracts EXCEPT ![n] = more]} ELSE {})
  BY DEF AppendAbstract
<1> HIDE DEF n, new, more
<1> QED
  BY <1>3, <1>4, <1>5

\* body is that of the article, perhaps with another caption, and the blocks of
\* the next item.
BodyGrows(body, item) ==
    \E old, new : /\ body = old \o new
                  /\ Recaptioned(old, article.body)
                  /\ BlocksOf(new, Here, item)

LEMMA GrownBodyTyped ==
    ASSUME NEW item, NEW body, BodyGrows(body, item)
    PROVE  body \in Seq(BlockType)
BY ConcatProperties DEF BodyGrows, Recaptioned, BlocksOf

LEMMA SameBodyGrows ==
    ASSUME ParserTypeOK, NEW item \in Items, item.kind = "paragraph"
    PROVE  BodyGrows(article.body, item)
<1>1. article.body \in Seq(BlockType)
  BY ArticleFields DEF ParserTypeOK
<1>2. article.body = article.body \o << >>
  BY <1>1, ConcatEmptySeq
<1>3. Recaptioned(article.body, article.body)
  BY <1>1 DEF Recaptioned
<1>4. BlocksOf(<< >>, Here, item)
  BY DEF BlocksOf
<1> QED
  BY <1>2, <1>3, <1>4 DEF BodyGrows

LEMMA NoBlocks ==
    /\ << >> \in Seq(BlockType)
    /\ \A n : \A i \in 1..Len(<< >>) :
          << >>[i].at = n /\ << >>[i].kind \in {"section", "paragraph", "item"}
<1>1. Len(<< >>) = 0 /\ 1..0 = {}
  OBVIOUS
<1> QED
  BY <1>1, EmptySeq

LEMMA BodyWithGrows ==
    ASSUME ParserTypeOK, NEW item \in Items, item.kind = "paragraph",
           NEW first \in Seq(BlockType), NEW cap \in Nat,
           \A i \in 1..Len(first) :
              first[i].at = Here /\ first[i].kind \in {"section", "paragraph", "item"}
    PROVE  BodyGrows(article.body \o first \o Objects(Here, item, cap), item)
<1> DEFINE own == Objects(Here, item, cap)
<1>1. article.body \in Seq(BlockType)
  BY ArticleFields DEF ParserTypeOK
<1>2. Here \in Nat
  BY LenProperties DEF Here, ParserTypeOK
<1>3. own \in Seq(BlockType)
  BY <1>2, ObjectBlocks, ConcatProperties DEF Objects
<1>4. BlocksOf(first \o own, Here, item)
  BY <1>2, ParagraphBlocks
<1> HIDE DEF own
<1>5. article.body \o first \o own = article.body \o (first \o own)
  <2> DEFINE body == article.body
  <2>1. body \in Seq(BlockType)
    BY <1>1
  <2> HIDE DEF body
  <2>2. (body \o first) \o own = body \o (first \o own)
    BY <1>3, <2>1, ConcatAssociative
  <2> QED
    BY <2>2 DEF body
<1>6. Recaptioned(article.body, article.body)
  BY <1>1 DEF Recaptioned
<1> QED
  BY <1>4, <1>5, <1>6 DEF BodyGrows, own

LEMMA CaptionTypes ==
    ASSUME ParserTypeOK, NEW item
    PROVE  CaptionTaken(item) \in Nat /\ CaptionLeft(item) \in Nat
BY DEF CaptionTaken, CaptionLeft, ParserTypeOK

\* The blocks of a paragraph without one of its own.
LEMMA ObjectsGrow ==
    ASSUME ParserTypeOK, NEW item \in Items, item.kind = "paragraph", NEW cap \in Nat
    PROVE  BodyGrows(article.body \o Objects(Here, item, cap), item)
<1>1. article.body \in Seq(BlockType)
  BY ArticleFields DEF ParserTypeOK
<1>2. article.body \o << >> = article.body
  BY <1>1, ConcatEmptySeq
<1>3. BodyGrows(article.body \o << >> \o Objects(Here, item, cap), item)
  BY BodyWithGrows, NoBlocks
<1> QED
  BY <1>2, <1>3

LEMMA EmptyFirstGrows ==
    ASSUME ParserTypeOK, NEW item \in Items, item.kind = "paragraph"
    PROVE  BodyGrows(BodyWith(<< >>, item), item)
BY CaptionTypes, BodyWithGrows, NoBlocks DEF BodyWith

LEMMA BlockFirstGrows ==
    ASSUME ParserTypeOK, NEW item \in Items, item.kind = "paragraph",
           NEW kind \in {"section", "paragraph", "item"}
    PROVE  BodyGrows(BodyWith(<<Block(kind, Here)>>, item), item)
<1> DEFINE first == <<Block(kind, Here)>>
<1>1. Here \in Nat
  BY LenProperties DEF Here, ParserTypeOK
<1>2. Block(kind, Here) \in BlockType /\ Block(kind, Here).at = Here
      /\ Block(kind, Here).kind = kind
  BY <1>1 DEF Block, BlockType, Kinds
<1>3. /\ first \in Seq(BlockType) /\ Len(first) = 1 /\ first[1] = Block(kind, Here)
  BY <1>2
<1> HIDE DEF first
<1>4. \A i \in 1..Len(first) :
         first[i].at = Here /\ first[i].kind \in {"section", "paragraph", "item"}
  BY <1>2, <1>3
<1> QED
  BY <1>3, <1>4, CaptionTypes, BodyWithGrows DEF BodyWith, first

LEMMA CaptionedGrows ==
    ASSUME ParserTypeOK, NEW item \in Items, item.kind = "paragraph", NEW cap \in Nat,
           Attaches(article.body)
    PROVE  BodyGrows([article.body EXCEPT ![Looked(article.body)].caption = Here]
                       \o Objects(Here, item, cap), item)
<1> DEFINE body == article.body
           n == Looked(body)
           block == [body[n] EXCEPT !.caption = Here]
           old == [body EXCEPT ![n] = block]
           own == Objects(Here, item, cap)
           others == {i \in 1..Len(body) : body[i].kind # "equation"}
<1>1. body \in Seq(BlockType)
  BY ArticleFields DEF ParserTypeOK
<1>2. Here \in Nat /\ Len(body) \in Nat
  BY <1>1, LenProperties DEF Here, ParserTypeOK
<1>3. n \in 1..Len(body)
  <2>1. others # {} /\ n = CHOOSE i \in others : \A m \in others : m <= i
    BY DEF Attaches, Looked
  <2>2. \E i \in others : \A m \in others : m <= i
    <3>1. others \in SUBSET Nat /\ \A i \in others : i <= Len(body)
      BY <1>2
    <3> HIDE DEF others
    <3> QED
      BY <1>2, <2>1, <3>1, NatMax
  <2> QED
    BY <2>1, <2>2
<1>4. body[n] \in BlockType
  BY <1>1, <1>3, ElementOfSeq
<1>5. block \in BlockType /\ block.at = body[n].at /\ block.kind = body[n].kind
  BY <1>2, <1>4 DEF BlockType
<1> HIDE DEF n, block
<1>6. old \in Seq(BlockType) /\ Len(old) = Len(body)
      /\ \A i \in 1..Len(body) : old[i] = IF i = n THEN block ELSE body[i]
  BY <1>1, <1>3, <1>5, ExceptSeq
<1>7. Recaptioned(old, body)
  BY <1>5, <1>6 DEF Recaptioned
<1>8. BlocksOf(<< >> \o own, Here, item)
  BY <1>2, ParagraphBlocks, NoBlocks
<1>9. own \in Seq(BlockType)
  BY <1>2, ObjectBlocks, ConcatProperties DEF Objects
<1>10. << >> \o own = own
  BY <1>9, ConcatEmptySeq
<1>11. [article.body EXCEPT ![Looked(article.body)].caption = Here] = old
  BY DEF n, block
<1> HIDE DEF body, old, own
<1> QED
  BY <1>7, <1>8, <1>10, <1>11 DEF BodyGrows, body, own

Modes == [references : BOOLEAN, secondary : BOOLEAN, editorial : BOOLEAN]

LEMMA ReadStep ==
    ASSUME ParserTypeOK, NEW item \in Items, Read(item)
    PROVE  /\ source' = Append(source, item)
           /\ ParserTypeOK'
           /\ BodyGrows(article'.body, item)
<1> DEFINE Good == /\ source' = Append(source, item)
                   /\ article' \in ArticleType
                   /\ caption' \in Nat
                   /\ mode' \in Modes
                   /\ BodyGrows(article'.body, item)
           bare == BodyWith(<< >>, item)
<1>1. /\ article \in ArticleType /\ caption \in Nat /\ mode \in Modes
      /\ source \in Seq(Items) /\ Here \in Nat
  BY LenProperties DEF ParserTypeOK, Modes, Here
<1> SUFFICES Good
  <2> HIDE DEF bare
  <2>1. Append(source, item) \in Seq(Items)
    BY <1>1, AppendedItem
  <2> QED
    BY <1>1, <2>1 DEF ParserTypeOK, Modes
<1>2. \A branches : Paragraph(item, branches) =>
         source' = Append(source, item) /\ item.kind = "paragraph"
  BY DEF Paragraph
<1>3. CaptionLeft(item) \in Nat /\ CaptionTaken(item) \in Nat
  BY CaptionTypes
<1>4. Passed(item) => caption' \in Nat /\ mode' \in Modes
  BY <1>1, <1>3 DEF Passed, Modes
<1>5. item.kind = "paragraph" => BodyGrows(bare, item) /\ bare \in Seq(BlockType)
  BY EmptyFirstGrows, GrownBodyTyped
<1>6. item.kind = "paragraph" => BodyGrows(article.body, item)
  BY SameBodyGrows
<1>7. \A cap \in Nat : item.kind = "paragraph" =>
         /\ BodyGrows(article.body \o Objects(Here, item, cap), item)
         /\ article.body \o Objects(Here, item, cap) \in Seq(BlockType)
  BY ObjectsGrow, GrownBodyTyped
<1>8. /\ WithEntry(article.titles, item) \in Seq(Entries)
      /\ WithEntry(article.subtitles, item) \in Seq(Entries)
      /\ WithEntry(article.lines, item) \in Seq(Entries)
      /\ WithEntry(article.variants, item) \in Seq(Entries)
      /\ WithEntry(article.affiliations, item) \in Seq(Entries)
      /\ WithEntry(article.keywords, item) \in Seq(Entries)
  BY <1>1, ArticleFields, WithEntryTyped
<1>9. AppendAbstract(article.abstracts, item) \in Seq(Abstracts)
  BY <1>1, ArticleFields, AppendAbstractTyped
<1>10. CASE Continuation(item)
  <2> DEFINE body == article.body \o Objects(Here, item, 0)
  <2>1. article' = [article EXCEPT !.body = body]
    BY <1>10 DEF Continuation
  <2>2. BodyGrows(body, item) /\ body \in Seq(BlockType)
    BY <1>2, <1>7, <1>10 DEF Continuation
  <2> HIDE DEF body
  <2>3. article' \in ArticleType /\ article'.body = body
    BY <1>1, <2>1, <2>2 DEF ArticleType
  <2>4. caption' \in Nat /\ mode' \in Modes
    BY <1>1, <1>10 DEF Continuation, Modes
  <2> QED
    BY <1>2, <1>10, <2>2, <2>3, <2>4 DEF Continuation
<1>11. CASE Title(item)
  <2> DEFINE entries == WithEntry(article.titles, item)
  <2>1. article' = [article EXCEPT !.titles = entries, !.body = bare]
    BY <1>11 DEF Title
  <2> HIDE DEF bare, entries
  <2>2. article' \in ArticleType /\ article'.body = bare
    BY <1>1, <1>2, <1>5, <1>8, <1>11, <2>1 DEF ArticleType, Title, entries
  <2> QED
    BY <1>2, <1>4, <1>5, <1>11, <2>2 DEF Title
<1>12. CASE Subtitle(item)
  <2> DEFINE entries == WithEntry(article.subtitles, item)
  <2>1. article' = [article EXCEPT !.subtitles = entries, !.body = bare]
    BY <1>12 DEF Subtitle
  <2> HIDE DEF bare, entries
  <2>2. article' \in ArticleType /\ article'.body = bare
    BY <1>1, <1>2, <1>5, <1>8, <1>12, <2>1 DEF ArticleType, Subtitle, entries
  <2> QED
    BY <1>2, <1>4, <1>5, <1>12, <2>2 DEF Subtitle
<1>13. CASE AuthorLine(item)
  <2> DEFINE entries == WithEntry(article.lines, item)
  <2>1. article' = [article EXCEPT !.lines = entries, !.body = bare]
    BY <1>13 DEF AuthorLine
  <2> HIDE DEF bare, entries
  <2>2. article' \in ArticleType /\ article'.body = bare
    BY <1>1, <1>2, <1>5, <1>8, <1>13, <2>1 DEF ArticleType, AuthorLine, entries
  <2> QED
    BY <1>2, <1>4, <1>5, <1>13, <2>2 DEF AuthorLine
<1>14. CASE AffiliationLine(item)
  <2> DEFINE entries == WithEntry(article.affiliations, item)
  <2>1. article' = [article EXCEPT !.affiliations = entries, !.body = bare]
    BY <1>14 DEF AffiliationLine
  <2> HIDE DEF bare, entries
  <2>2. article' \in ArticleType /\ article'.body = bare
    BY <1>1, <1>2, <1>5, <1>8, <1>14, <2>1 DEF ArticleType, AffiliationLine, entries
  <2> QED
    BY <1>2, <1>4, <1>5, <1>14, <2>2 DEF AffiliationLine
<1>15. CASE Abstract(item)
  <2> DEFINE abstracts == IF item.role = "abstract"
                          THEN AppendAbstract(article.abstracts, item)
                          ELSE article.abstracts
  <2>1. article' = [article EXCEPT !.abstracts = abstracts, !.body = bare]
    BY <1>15 DEF Abstract
  <2>2. abstracts \in Seq(Abstracts)
    BY <1>1, <1>9, ArticleFields
  <2> HIDE DEF bare, abstracts
  <2>3. article' \in ArticleType /\ article'.body = bare
    BY <1>1, <1>2, <1>5, <1>15, <2>1, <2>2 DEF ArticleType, Abstract, Abstracts
  <2> QED
    BY <1>2, <1>4, <1>5, <1>15, <2>3 DEF Abstract
<1>16. CASE Keywords(item)
  <2> DEFINE keywords == IF \E k \in 1..Len(article.keywords) :
                               article.keywords[k].text = item.text
                         THEN article.keywords ELSE WithEntry(article.keywords, item)
  <2>1. article' = [article EXCEPT !.keywords = keywords, !.body = bare]
    BY <1>16 DEF Keywords
  <2>2. keywords \in Seq(Entries)
    BY <1>1, <1>8, ArticleFields
  <2> HIDE DEF bare, keywords
  <2>3. article' \in ArticleType /\ article'.body = bare
    BY <1>1, <1>2, <1>5, <1>16, <2>1, <2>2 DEF ArticleType, Keywords
  <2> QED
    BY <1>2, <1>4, <1>5, <1>16, <2>3 DEF Keywords
<1>17. CASE EditorialLine(item)
  <2>1. article' = [article EXCEPT !.body = bare]
    BY <1>17 DEF EditorialLine
  <2> HIDE DEF bare
  <2>2. article' \in ArticleType /\ article'.body = bare
    BY <1>1, <1>2, <1>5, <1>17, <2>1 DEF ArticleType, EditorialLine
  <2>3. caption' \in Nat /\ mode' \in Modes
    BY <1>1, <1>3, <1>17 DEF EditorialLine, Modes
  <2> QED
    BY <1>2, <1>5, <1>17, <2>2, <2>3 DEF EditorialLine
<1>18. CASE Identifier(item)
  <2>1. article' \in ArticleType /\ article'.body = article.body
    BY <1>1, <1>18 DEF ArticleType, Identifier
  <2> QED
    BY <1>2, <1>4, <1>6, <1>18, <2>1 DEF Identifier
<1>19. CASE SecondaryTitle(item)
  <2>1. article' \in ArticleType /\ article'.body = article.body
    BY <1>1, <1>8, <1>19 DEF ArticleType, SecondaryTitle
  <2>2. caption' \in Nat /\ mode' \in Modes
    BY <1>3, <1>19 DEF SecondaryTitle, Modes
  <2> QED
    BY <1>2, <1>6, <1>19, <2>1, <2>2 DEF SecondaryTitle
<1>20. CASE SecondaryAuthors(item)
  <2>1. article' \in ArticleType /\ article'.body = article.body
    BY <1>1, <1>8, <1>20 DEF ArticleType, SecondaryAuthors
  <2> QED
    BY <1>2, <1>4, <1>6, <1>20, <2>1 DEF SecondaryAuthors
<1>21. CASE ReferencesHeading(item)
  <2>1. caption' \in Nat /\ mode' \in Modes
    BY <1>3, <1>21 DEF ReferencesHeading, Modes
  <2> QED
    BY <1>1, <1>2, <1>6, <1>21, <2>1 DEF ReferencesHeading
<1>22. CASE ReferenceEntry(item)
  <2> DEFINE new == [at |-> Here, text |-> item.text, key |-> Len(article.references) + 1]
             references == IF item.text = NoText THEN article.references
                           ELSE Append(article.references, new)
  <2>1. article' = [article EXCEPT !.references = references]
    BY <1>22 DEF ReferenceEntry
  <2>2. article.references \in Seq(References)
    BY <1>1, ArticleFields
  <2>3. new \in References
    BY <1>1, <2>2, LenProperties, ItemTypes DEF References
  <2> HIDE DEF new
  <2>4. references \in Seq(References)
    BY <2>2, <2>3, AppendProperties
  <2> HIDE DEF references
  <2>5. article' \in ArticleType /\ article'.body = article.body
    BY <1>1, <2>1, <2>4 DEF ArticleType
  <2> QED
    BY <1>2, <1>4, <1>6, <1>22, <2>5 DEF ReferenceEntry
<1>23. CASE Section(item)
  <2> DEFINE body == BodyWith(IF item.text = NoText THEN << >> ELSE <<Block("section", Here)>>, item)
  <2>1. article' = [article EXCEPT !.body = body]
    BY <1>23 DEF Section
  <2>2. BodyGrows(body, item) /\ body \in Seq(BlockType)
    <3>1. item.kind = "paragraph"
      BY <1>2, <1>23 DEF Section
    <3>2. BodyGrows(BodyWith(<<Block("section", Here)>>, item), item)
      BY <3>1, BlockFirstGrows
    <3>3. BodyGrows(body, item)
      BY <1>5, <3>1, <3>2
    <3> QED
      BY <3>3, GrownBodyTyped
  <2> HIDE DEF body
  <2>3. article' \in ArticleType /\ article'.body = body
    BY <1>1, <2>1, <2>2 DEF ArticleType
  <2>4. caption' \in Nat /\ mode' \in Modes
    BY <1>3, <1>4, <1>23 DEF Section, Modes, Plain
  <2> QED
    BY <1>2, <1>23, <2>2, <2>3, <2>4 DEF Section
<1>24. CASE Caption(item)
  <2> DEFINE own == Objects(Here, item, CaptionTaken(item))
             attached == [article.body EXCEPT ![Looked(article.body)].caption = Here] \o own
             waiting == article.body \o own
  <2>1. item.kind = "paragraph"
    BY <1>2, <1>24 DEF Caption
  <2>2. caption' \in Nat /\ mode' \in Modes
    BY <1>1, <1>3, <1>24 DEF Caption, Modes
  <2>3. CASE Attaches(article.body)
    <3>1. article' = [article EXCEPT !.body = attached]
      BY <1>24, <2>3 DEF Caption
    <3>2. BodyGrows(attached, item) /\ attached \in Seq(BlockType)
      BY <1>3, <2>1, <2>3, CaptionedGrows, GrownBodyTyped
    <3> HIDE DEF attached
    <3>3. article' \in ArticleType /\ article'.body = attached
      BY <1>1, <3>1, <3>2 DEF ArticleType
    <3> QED
      BY <1>2, <1>24, <2>2, <3>2, <3>3 DEF Caption
  <2>4. CASE ~Attaches(article.body)
    <3>1. article' = [article EXCEPT !.body = waiting]
      BY <1>24, <2>4 DEF Caption
    <3>2. BodyGrows(waiting, item) /\ waiting \in Seq(BlockType)
      BY <1>3, <1>7, <2>1
    <3> HIDE DEF waiting
    <3>3. article' \in ArticleType /\ article'.body = waiting
      BY <1>1, <3>1, <3>2 DEF ArticleType
    <3> QED
      BY <1>2, <1>24, <2>2, <3>2, <3>3 DEF Caption
  <2> QED
    BY <2>3, <2>4
<1>25. CASE ListItem(item)
  <2> DEFINE body == BodyWith(<<Block("item", Here)>>, item)
  <2>1. article' = [article EXCEPT !.body = body]
    BY <1>25 DEF ListItem
  <2>2. BodyGrows(body, item) /\ body \in Seq(BlockType)
    <3>1. item.kind = "paragraph"
      BY <1>2, <1>25 DEF ListItem
    <3>2. BodyGrows(BodyWith(<<Block("item", Here)>>, item), item)
      BY <3>1, BlockFirstGrows
    <3>3. BodyGrows(body, item)
      BY <1>5, <3>1, <3>2
    <3> QED
      BY <3>3, GrownBodyTyped
  <2> HIDE DEF body
  <2>3. article' \in ArticleType /\ article'.body = body
    BY <1>1, <2>1, <2>2 DEF ArticleType
  <2>4. caption' \in Nat /\ mode' \in Modes
    BY <1>3, <1>4, <1>25 DEF ListItem, Modes, Plain
  <2> QED
    BY <1>2, <1>25, <2>2, <2>3, <2>4 DEF ListItem
<1>26. CASE BodyParagraph(item)
  <2> DEFINE body == BodyWith(IF Branch(item) = "empty" THEN << >> ELSE <<Block("paragraph", Here)>>, item)
  <2>1. article' = [article EXCEPT !.body = body]
    BY <1>26 DEF BodyParagraph
  <2>2. BodyGrows(body, item) /\ body \in Seq(BlockType)
    <3>1. item.kind = "paragraph"
      BY <1>2, <1>26 DEF BodyParagraph
    <3>2. BodyGrows(BodyWith(<<Block("paragraph", Here)>>, item), item)
      BY <3>1, BlockFirstGrows
    <3>3. BodyGrows(body, item)
      BY <1>5, <3>1, <3>2
    <3> QED
      BY <3>3, GrownBodyTyped
  <2> HIDE DEF body
  <2>3. article' \in ArticleType /\ article'.body = body
    BY <1>1, <2>1, <2>2 DEF ArticleType
  <2>4. caption' \in Nat /\ mode' \in Modes
    BY <1>3, <1>4, <1>26 DEF BodyParagraph, Modes, Plain
  <2> QED
    BY <1>2, <1>26, <2>2, <2>3, <2>4 DEF BodyParagraph
<1>27. CASE TableItem(item)
  <2> DEFINE blocks == TableBlocks(Here, item, caption)
             body == article.body \o blocks
  <2>1. source' = Append(source, item) /\ item.kind = "table"
    BY <1>27 DEF TableItem
  <2>2. article' = [article EXCEPT !.body = body]
    BY <1>27 DEF TableItem
  <2>3. BlocksOf(blocks, Here, item)
    BY <1>1, <2>1, TableBlocksFit
  <2>4. article.body \in Seq(BlockType)
    BY <1>1, ArticleFields
  <2>5. BodyGrows(body, item) /\ body \in Seq(BlockType)
    <3>1. Recaptioned(article.body, article.body)
      BY <2>4 DEF Recaptioned
    <3> HIDE DEF blocks
    <3>2. BodyGrows(body, item)
      BY <2>3, <3>1 DEF BodyGrows
    <3> QED
      BY <3>2, GrownBodyTyped
  <2> HIDE DEF body
  <2>6. article' \in ArticleType /\ article'.body = body
    BY <1>1, <2>2, <2>5 DEF ArticleType
  <2>7. caption' \in Nat /\ mode' \in Modes
    BY <1>1, <1>27 DEF TableItem
  <2> QED
    BY <2>1, <2>5, <2>6, <2>7
<1> HIDE DEF Good
<1> QED
  BY <1>10, <1>11, <1>12, <1>13, <1>14, <1>15, <1>16, <1>17, <1>18, <1>19, <1>20, <1>21, <1>22, <1>23, <1>24, <1>25, <1>26, <1>27 DEF Read

-----------------------------------------------------------------------------
(* The stages *)

Stages == {"analyze_source", "parse_source", "analyze_template",
           "render_outputs", "compile_pdf", "validate", "completed", "failed"}
RunType == [status : {"running", "completed", "completed_with_warnings", "failed"},
            stage : Stages, docx : BOOLEAN, warnings : BOOLEAN, errors : BOOLEAN]

\* Nothing is written before the article is parsed, everything after that.
StagesFit ==
    /\ run \in RunType
    /\ saved = run
    /\ alive \in BOOLEAN
    /\ run.stage \in {"analyze_source", "parse_source", "analyze_template"} =>
          RenderersInit
    /\ IsWritten => TexWritten /\ DocxWritten

Conforms == ParserTypeOK /\ BodyFits(article.body, source) /\ StagesFit

LEMMA InitConforms == Init => Conforms
<1> SUFFICES ASSUME Init PROVE Conforms
  OBVIOUS
<1>1. ParserTypeOK
  <2>1. EmptyArticle \in ArticleType
    BY DEF EmptyArticle, ArticleType
  <2>2. source \in Seq(Items)
    BY EmptySeq DEF Init, ParserInit
  <2> QED
    BY <2>1, <2>2 DEF ParserTypeOK, Init, ParserInit, Plain
<1>2. BodyFits(article.body, source)
  <2>1. article.body = << >> /\ source = << >> /\ Len(<< >>) = 0 /\ 1..0 = {}
    BY DEF Init, ParserInit, EmptyArticle
  <2> QED
    BY <2>1 DEF BodyFits
<1>3. StagesFit
  BY DEF StagesFit, Init, RunType, Stages, IsWritten
<1> QED
  BY <1>1, <1>2, <1>3 DEF Conforms

\* What an item makes of the article.
LEMMA ReadBodyFits ==
    ASSUME ParserTypeOK, BodyFits(article.body, source), NEW item \in Items, Read(item)
    PROVE  /\ source' = Append(source, item)
           /\ ParserTypeOK'
           /\ BodyFits(article'.body, source')
<1>1. /\ source' = Append(source, item) /\ ParserTypeOK' /\ BodyGrows(article'.body, item)
  BY ReadStep
<1>2. source \in Seq(Items) /\ article.body \in Seq(BlockType)
  BY ArticleFields DEF ParserTypeOK
<1>3. PICK old, new : /\ article'.body = old \o new
                      /\ Recaptioned(old, article.body)
                      /\ BlocksOf(new, Here, item)
  BY <1>1 DEF BodyGrows
<1>4. BodyFits(old \o new, Append(source, item))
  BY <1>2, <1>3, GrownBodyFits DEF Here
<1> QED
  BY <1>1, <1>3, <1>4

LEMMA FinishFits ==
    ASSUME ParserTypeOK, BodyFits(article.body, source), Finish
    PROVE  ParserTypeOK' /\ BodyFits(article'.body, source')
<1>1. /\ article' = Parsed /\ source' = source /\ caption' = caption /\ mode' = mode
  BY DEF Finish
<1>2. Parsed \in ArticleType /\ BodyFits(Parsed.body, source)
  BY ParsedFits
<1> QED
  BY <1>1, <1>2 DEF ParserTypeOK

LEMMA EnteredRun ==
    ASSUME run \in RunType, NEW stage \in Stages, NEW changed \in RunType,
           Enter(stage, changed)
    PROVE  /\ run' \in RunType /\ saved' = run' /\ run'.stage = stage
           /\ run'.status = changed.status /\ alive' = alive
BY DEF Enter, RunType

LEMMA WarnedRun ==
    ASSUME NEW r \in RunType, NEW test \in BOOLEAN
    PROVE  Warn(r, test) \in RunType
BY DEF Warn, RunType

LEMMA StagesStep ==
    ASSUME StagesFit, Next PROVE StagesFit'
<1>1. run \in RunType /\ saved = run /\ alive \in BOOLEAN
  BY DEF StagesFit
<1>2. CASE AnalyzeSource
  <2>1. Enter("parse_source", run) /\ run.stage = "analyze_source" /\ UNCHANGED <<tex, docx>>
    BY <1>2 DEF AnalyzeSource, At, rendering
  <2>2. run' \in RunType /\ saved' = run' /\ run'.stage = "parse_source" /\ alive' = alive
    BY <1>1, <2>1, EnteredRun DEF Stages
  <2> QED
    BY <1>1, <2>1, <2>2 DEF StagesFit, RenderersInit, IsWritten
<1>3. CASE ReadItem
  BY <1>3 DEF ReadItem, At, rendering, StagesFit, RenderersInit, IsWritten
<1>4. CASE FinishParsing
  <2>1. /\ Enter("analyze_template", Warn(run, article'.warnings # {}))
        /\ run.stage = "parse_source" /\ UNCHANGED <<tex, docx>>
    BY <1>4 DEF FinishParsing, At, rendering
  <2>2. Warn(run, article'.warnings # {}) \in RunType
    BY <1>1, WarnedRun
  <2>3. /\ run' \in RunType /\ saved' = run' /\ run'.stage = "analyze_template"
        /\ alive' = alive
    BY <1>1, <2>1, <2>2, EnteredRun DEF Stages
  <2> QED
    BY <1>1, <2>1, <2>3 DEF StagesFit, RenderersInit, IsWritten
<1>5. CASE AnalyzeTemplate
  <2>1. PICK warned \in BOOLEAN : Enter("render_outputs", Warn(run, warned))
    BY <1>5 DEF AnalyzeTemplate
  <2>2. Warn(run, warned) \in RunType
    BY <1>1, WarnedRun
  <2>3. run' \in RunType /\ saved' = run' /\ run'.stage = "render_outputs" /\ alive' = alive
    BY <1>1, <2>1, <2>2, EnteredRun DEF Stages
  <2> QED
    BY <1>1, <2>3 DEF StagesFit, IsWritten
<1>6. CASE RenderBlock
  BY <1>6 DEF RenderBlock, At, StagesFit, IsWritten
<1>7. CASE FinishRendering
  <2>1. PICK stage \in {"compile_pdf", "validate"} :
            Enter(stage, [Warn(run, docx.rebuilt) EXCEPT !.docx = TRUE])
    BY <1>7 DEF FinishRendering
  <2>2. TexWritten /\ DocxWritten /\ UNCHANGED <<source, article, tex, docx>>
    BY <1>7 DEF FinishRendering, parsing, rendering
  <2>3. [Warn(run, docx.rebuilt) EXCEPT !.docx = TRUE] \in RunType
    BY <1>1 DEF Warn, RunType
  <2>4. run' \in RunType /\ saved' = run' /\ run'.stage = stage /\ alive' = alive
    BY <1>1, <2>1, <2>3, EnteredRun DEF Stages
  <2>5. TexWritten' /\ DocxWritten'
    BY <2>2 DEF TexWritten, DocxWritten
  <2> QED
    BY <1>1, <2>4, <2>5 DEF StagesFit
<1>8. CASE CompilePdf
  <2>1. PICK warned \in BOOLEAN : Enter("validate", Warn(run, warned))
    BY <1>8 DEF CompilePdf
  <2>2. Warn(run, warned) \in RunType
    BY <1>1, WarnedRun
  <2>3. run' \in RunType /\ saved' = run' /\ run'.stage = "validate" /\ alive' = alive
    BY <1>1, <2>1, <2>2, EnteredRun DEF Stages
  <2>4. TexWritten' /\ DocxWritten'
    BY <1>8 DEF CompilePdf, At, StagesFit, IsWritten, TexWritten, DocxWritten, parsing, rendering
  <2> QED
    BY <1>1, <2>3, <2>4 DEF StagesFit
<1>9. CASE Validate
  <2>1. PICK warnings \in BOOLEAN, errors \in BOOLEAN,
              status \in {"failed", "completed_with_warnings", "completed"} :
           Enter("completed", [run EXCEPT !.warnings = warnings, !.errors = errors,
                                          !.status = status])
    <3>1. PICK warned \in BOOLEAN, failed \in BOOLEAN :
         LET warnings == \/ warned \/ run.warnings \/ CountsWarn \/ CitationsWarn
                         \/ article.titles = <<>> \/ article.authors = <<>>
             errors == failed \/ run.errors
         IN  Enter("completed",
                [run EXCEPT !.warnings = warnings,
                            !.errors = errors,
                            !.status = IF errors THEN "failed"
                                       ELSE IF warnings
                                            THEN "completed_with_warnings"
                                            ELSE "completed"])
      BY <1>9 DEF Validate
    <3> QED
      BY <3>1
  <2> DEFINE changed == [run EXCEPT !.warnings = warnings, !.errors = errors,
                                    !.status = status]
  <2>2. changed \in RunType
    BY <1>1 DEF RunType
  <2>3. Enter("completed", changed)
    BY <2>1
  <2> HIDE DEF changed
  <2>4. run' \in RunType /\ saved' = run' /\ run'.stage = "completed" /\ alive' = alive
    BY <1>1, <2>2, <2>3, EnteredRun DEF Stages
  <2>5. TexWritten' /\ DocxWritten'
    BY <1>9 DEF Validate, At, StagesFit, IsWritten, TexWritten, DocxWritten, parsing, rendering
  <2> QED
    BY <1>1, <2>4, <2>5 DEF StagesFit
<1>10. CASE Fail
  <2> DEFINE changed == [run EXCEPT !.status = "failed", !.errors = TRUE]
  <2>1. changed \in RunType
    BY <1>1 DEF RunType
  <2>2. Enter("failed", changed)
    BY <1>10 DEF Fail
  <2> HIDE DEF changed
  <2>3. run' \in RunType /\ saved' = run' /\ run'.stage = "failed" /\ alive' = alive
    BY <1>1, <2>1, <2>2, EnteredRun DEF Stages
  <2> QED
    BY <1>1, <2>3 DEF StagesFit, IsWritten
<1>11. CASE End
  BY <1>11 DEF End, StagesFit, RenderersInit, IsWritten, TexWritten, DocxWritten,
               parsing, rendering
<1> QED
  BY <1>2, <1>3, <1>4, <1>5, <1>6, <1>7, <1>8, <1>9, <1>10, <1>11 DEF Next

LEMMA ConformsStep == Conforms /\ [Next]_vars => Conforms'
<1> SUFFICES ASSUME Conforms, [Next]_vars PROVE Conforms'
  OBVIOUS
<1>1. ParserTypeOK /\ BodyFits(article.body, source) /\ StagesFit
  BY DEF Conforms
<1>2. CASE UNCHANGED vars
  BY <1>1, <1>2 DEF vars, Conforms, ParserTypeOK, BodyFits, StagesFit, RenderersInit,
                    IsWritten, TexWritten, DocxWritten
<1>3. CASE Next
  <2>1. StagesFit'
    BY <1>1, <1>3, StagesStep
  <2>2. CASE UNCHANGED parsing
    BY <1>1, <2>1, <2>2 DEF parsing, Conforms, ParserTypeOK, BodyFits
  <2>3. CASE ReadItem
    <3>1. PICK item \in Items : Read(item)
      BY <2>3 DEF ReadItem
    <3> QED
      BY <1>1, <2>1, <3>1, ReadBodyFits DEF Conforms
  <2>4. CASE FinishParsing
    BY <1>1, <2>1, <2>4, FinishFits DEF FinishParsing, Conforms
  <2> QED
    BY <1>3, <2>2, <2>3, <2>4
       DEF Next, AnalyzeSource, AnalyzeTemplate, RenderBlock, FinishRendering,
           CompilePdf, Validate, Fail, End
<1> QED
  BY <1>2, <1>3

\* The types of the state, the shape of the body and the order of the stages.
THEOREM TypeCorrect == Spec => []Conforms
BY InitConforms, ConformsStep, PTL DEF Spec

-----------------------------------------------------------------------------
(* Tables in the Word document *)

PieceForms == {"copy", "text", "formula", "picture", "panel", "table"}
PieceType == [form : PieceForms, at : Nat]

\* What is written of the blocks before the next one: their pieces, in their
\* order, and of each table one.
PiecesFit ==
    /\ docx.next \in Nat \ {0} /\ docx.out \in Seq(PieceType)
    /\ \A p \in 1..Len(docx.out) : \E i \in 1..Len(article.body) :
          i < docx.next /\ docx.out[p].at = article.body[i].at
    /\ \A p, q \in 1..Len(docx.out) : p < q => docx.out[p].at <= docx.out[q].at
    /\ \A p, q \in 1..Len(docx.out) :
          /\ docx.out[p].at = docx.out[q].at
          /\ source[docx.out[p].at].kind = "table"
          => p = q
    /\ \A i \in 1..Len(article.body) :
          i < docx.next /\ source[article.body[i].at].kind = "table" =>
             \E p \in 1..Len(docx.out) : docx.out[p].at = article.body[i].at
    /\ \A n \in docx.groups : \E p \in 1..Len(docx.out) : docx.out[p].at = n
    /\ \A p \in 1..Len(docx.out) :
          /\ source[docx.out[p].at].kind = "table"
          /\ source[docx.out[p].at].pics > 1
          => docx.out[p].at \in docx.groups

LEMMA PieceTyped ==
    ASSUME ParserTypeOK, NEW n \in 1..Len(article.body)
    PROVE  PieceOf(article.body[n]) \in PieceType
           /\ PieceOf(article.body[n]).at = article.body[n].at
<1> DEFINE block == article.body[n]
<1>1. block \in BlockType
  BY ArticleFields, ElementOfSeq DEF ParserTypeOK
<1> HIDE DEF block
<1>2. block.at \in Nat /\ block.kind \in Kinds
  BY <1>1 DEF BlockType
<1>3. PieceOf(block) \in PieceType /\ PieceOf(block).at = block.at
  BY <1>2 DEF PieceOf, CopyOr, Piece, PieceType, PieceForms, Kinds
<1> QED
  BY <1>3 DEF block

\* A block of a table is the only one of it or belongs to a group.
LEMMA TableBlockIs ==
    ASSUME ParserTypeOK, BodyFits(article.body, source),
           NEW n \in 1..Len(article.body), ItemAt(article.body[n].at).kind = "table"
    PROVE  /\ ~IsEmail(article.body[n])
           /\ IsGroup(article.body[n]) <=> source[article.body[n].at].pics > 1
<1> DEFINE block == article.body[n]
           item == source[block.at]
<1>1. BlockOf(block, block.at, item) /\ item.kind = "table" /\ block.at \in 1..Len(source)
  BY DEF BodyFits, ItemAt
<1>2. item.pics \in Nat
  BY <1>1, ElementOfSeq, ItemTypes DEF ParserTypeOK
<1> HIDE DEF block
<1>3. block.kind \in {"figure", "table", "equation"}
  BY <1>1 DEF BlockOf, BlockType, Kinds
<1>4. block.kind # "figure" => ~(item.pics > 1)
  BY <1>1, <1>2, <1>3 DEF BlockOf, IsLayout
<1>5. ~IsEmail(block) /\ (IsGroup(block) <=> item.pics > 1)
  BY <1>1, <1>3, <1>4 DEF IsEmail, IsGroup, ItemAt
<1> QED
  BY <1>5 DEF block

LEMMA WriteDocxPieces ==
    ASSUME ParserTypeOK, BodyFits(article.body, source), PiecesFit, WriteDocx,
           UNCHANGED parsing
    PROVE  PiecesFit'
<1> DEFINE body == article.body
           k == docx.next
           block == body[k]
           piece == PieceOf(block)
           out == docx.out
<1>1. k \in 1..Len(body) /\ k \in Nat /\ Len(body) \in Nat
  <2>1. Len(body) \in Nat
    BY ArticleFields, LenProperties DEF ParserTypeOK
  <2> QED
    BY <2>1 DEF WriteDocx, DocxWritten, PiecesFit
<1>2. /\ \A i, j \in 1..Len(body) : i < j => body[i].at <= body[j].at
      /\ \A i \in 1..Len(body) : body[i].at \in Nat /\ body[i].at \in 1..Len(source)
      /\ \A i, j \in 1..Len(body) :
            /\ body[i].at = body[j].at
            /\ source[body[i].at].kind = "table"
            /\ source[body[i].at].pics <= 1
            => i = j
  BY DEF BodyFits
<1>3. out \in Seq(PieceType) /\ Len(out) \in Nat
  BY LenProperties DEF PiecesFit
<1>4. article' = article /\ source' = source
  BY DEF parsing
<1>5. CASE AlreadyWritten(block)
  <2>1. docx' = [docx EXCEPT !.next = k + 1]
    BY <1>5 DEF WriteDocx
  <2>2. docx'.next = k + 1 /\ docx'.out = out /\ docx'.groups = docx.groups
    <3> QED
      BY <2>1 DEF PiecesFit
  <2>3. source[block.at].kind = "table" => \E p \in 1..Len(out) : out[p].at = block.at
    <3> SUFFICES ASSUME source[block.at].kind = "table"
                 PROVE  \E p \in 1..Len(out) : out[p].at = block.at
      OBVIOUS
    <3>1. ~IsEmail(block)
      BY <1>1, TableBlockIs DEF ItemAt
    <3>2. block.at \in docx.groups
      BY <1>5, <3>1 DEF AlreadyWritten
    <3> QED
      BY <3>2 DEF PiecesFit
  <2> QED
    <3>1. ASSUME NEW i \in 1..Len(body), i < k + 1, source[body[i].at].kind = "table"
          PROVE  \E p \in 1..Len(out) : out[p].at = body[i].at
      <4>1. i < k \/ i = k
        BY <1>1, <3>1
      <4>2. CASE i < k
        BY <3>1, <4>2 DEF PiecesFit
      <4>3. CASE i = k
        BY <2>3, <3>1, <4>3
      <4> QED
        BY <4>1, <4>2, <4>3
    <3>2. ASSUME NEW p \in 1..Len(out)
          PROVE  \E i \in 1..Len(body) : i < k + 1 /\ out[p].at = body[i].at
      <4>1. PICK i \in 1..Len(body) : i < k /\ out[p].at = body[i].at
        BY DEF PiecesFit
      <4> QED
        BY <1>1, <4>1
    <3>3. k + 1 \in Nat \ {0}
      BY <1>1
    <3> HIDE DEF body, k, block, out
    <3>4. /\ k + 1 \in Nat \ {0} /\ out \in Seq(PieceType)
          /\ \A p \in 1..Len(out) : \E i \in 1..Len(body) :
                i < k + 1 /\ out[p].at = body[i].at
          /\ \A i \in 1..Len(body) :
                i < k + 1 /\ source[body[i].at].kind = "table" =>
                   \E p \in 1..Len(out) : out[p].at = body[i].at
      BY <1>3, <3>1, <3>2, <3>3
    <3>5. /\ \A p, q \in 1..Len(out) : p < q => out[p].at <= out[q].at
          /\ \A p, q \in 1..Len(out) :
                out[p].at = out[q].at /\ source[out[p].at].kind = "table" => p = q
          /\ \A n \in docx.groups : \E p \in 1..Len(out) : out[p].at = n
          /\ \A p \in 1..Len(out) :
                source[out[p].at].kind = "table" /\ source[out[p].at].pics > 1
                   => out[p].at \in docx.groups
      BY DEF PiecesFit, out
    <3>6. article'.body = body
      BY <1>4 DEF body
    <3> QED
      BY <1>4, <2>2, <3>4, <3>5, <3>6, SMTT(30) DEF PiecesFit
<1>6. CASE ~AlreadyWritten(block)
  <2> DEFINE groups == IF IsGroup(block) THEN docx.groups \cup {block.at} ELSE docx.groups
             new == Append(out, piece)
  <2>1. docx'.next = k + 1 /\ docx'.out = new /\ docx'.groups = groups
    BY <1>6 DEF WriteDocx
  <2>2. piece \in PieceType /\ piece.at = block.at
    BY <1>1, PieceTyped
  <2> HIDE DEF piece
  <2>3. /\ new \in Seq(PieceType) /\ Len(new) = Len(out) + 1
        /\ new[Len(out) + 1] = piece
        /\ \A p \in 1..Len(out) : new[p] = out[p]
    BY <1>3, <2>2, AppendProperties
  <2> HIDE DEF new
  <2>4. ASSUME NEW p \in 1..Len(out) PROVE out[p].at <= block.at /\ new[p] = out[p]
    <3>1. PICK i \in 1..Len(body) : i < k /\ out[p].at = body[i].at
      BY DEF PiecesFit
    <3> QED
      BY <1>1, <1>2, <2>3, <3>1
  <2>5. ASSUME NEW p \in 1..Len(new) PROVE p \in 1..Len(out) \/ p = Len(out) + 1
    BY <1>3, <2>3
  <2>6. ASSUME NEW p \in 1..Len(new)
        PROVE  \E i \in 1..Len(body) : i < k + 1 /\ new[p].at = body[i].at
    <3>1. CASE p \in 1..Len(out)
      <4>1. PICK i \in 1..Len(body) : i < k /\ out[p].at = body[i].at
        BY <3>1 DEF PiecesFit
      <4> QED
        BY <1>1, <2>3, <3>1, <4>1
    <3>2. CASE p = Len(out) + 1
      BY <1>1, <2>2, <2>3, <3>2
    <3> QED
      BY <2>5, <3>1, <3>2
  <2>7. ASSUME NEW p \in 1..Len(new), NEW q \in 1..Len(new), p < q
        PROVE  new[p].at <= new[q].at
    <3>1. p \in 1..Len(out)
      BY <1>3, <2>3, <2>7
    <3>2. CASE q \in 1..Len(out)
      BY <2>3, <2>7, <3>1, <3>2 DEF PiecesFit
    <3>3. CASE q = Len(out) + 1
      BY <2>2, <2>3, <2>4, <3>1, <3>3
    <3> QED
      BY <2>5, <3>2, <3>3
  <2>8. ASSUME source[block.at].kind = "table", NEW p \in 1..Len(out), out[p].at = block.at
        PROVE  FALSE
    <3>1. PICK i \in 1..Len(body) : i < k /\ out[p].at = body[i].at
      BY DEF PiecesFit
    <3>2. source[block.at].pics \in Nat
      BY <1>1, <1>2, ElementOfSeq, ItemTypes DEF ParserTypeOK
    <3>3. CASE source[block.at].pics <= 1
      <4>1. body[i].at = body[k].at
        BY <2>8, <3>1
      <4>2. source[body[i].at].kind = "table" /\ source[body[i].at].pics <= 1
        BY <2>8, <3>3, <4>1
      <4>3. i = k
        BY <1>1, <1>2, <4>1, <4>2
      <4> QED
        BY <1>1, <3>1, <4>3
    <3>4. CASE source[block.at].pics > 1
      <4>1. IsGroup(block)
        BY <1>1, <2>8, <3>4, TableBlockIs DEF ItemAt
      <4>2. block.at \in docx.groups
        BY <2>8, <3>4 DEF PiecesFit
      <4> QED
        BY <1>6, <4>1, <4>2 DEF AlreadyWritten
    <3> QED
      BY <3>2, <3>3, <3>4
  <2>9. ASSUME NEW p \in 1..Len(new), NEW q \in 1..Len(new), new[p].at = new[q].at,
               source[new[p].at].kind = "table"
        PROVE  p = q
    <3>1. CASE p \in 1..Len(out) /\ q \in 1..Len(out)
      BY <2>3, <2>9, <3>1 DEF PiecesFit
    <3>2. CASE p \in 1..Len(out) /\ q = Len(out) + 1
      BY <2>2, <2>3, <2>8, <2>9, <3>2
    <3>3. CASE q \in 1..Len(out) /\ p = Len(out) + 1
      BY <2>2, <2>3, <2>8, <2>9, <3>3
    <3> QED
      BY <2>5, <3>1, <3>2, <3>3
  <2>10. ASSUME NEW i \in 1..Len(body), i < k + 1, source[body[i].at].kind = "table"
         PROVE  \E p \in 1..Len(new) : new[p].at = body[i].at
    <3>1. CASE i < k
      <4>1. PICK p \in 1..Len(out) : out[p].at = body[i].at
        BY <2>10, <3>1 DEF PiecesFit
      <4> QED
        BY <1>3, <2>3, <4>1
    <3>2. CASE i = k
      BY <1>3, <2>2, <2>3, <3>2
    <3> QED
      BY <1>1, <2>10, <3>1, <3>2
  <2>11. ASSUME NEW n \in groups PROVE \E p \in 1..Len(new) : new[p].at = n
    <3>1. CASE n \in docx.groups
      <4>1. PICK p \in 1..Len(out) : out[p].at = n
        BY <3>1 DEF PiecesFit
      <4> QED
        BY <1>3, <2>3, <4>1
    <3>2. CASE n = block.at
      BY <1>3, <2>2, <2>3, <3>2
    <3> QED
      BY <3>1, <3>2
  <2>12. ASSUME NEW p \in 1..Len(new), source[new[p].at].kind = "table",
                source[new[p].at].pics > 1
         PROVE  new[p].at \in groups
    <3>1. CASE p \in 1..Len(out)
      BY <2>3, <2>12, <3>1 DEF PiecesFit
    <3>2. CASE p = Len(out) + 1
      <4>1. IsGroup(block)
        BY <1>1, <2>2, <2>3, <2>12, <3>2, TableBlockIs DEF ItemAt
      <4> QED
        BY <2>2, <2>3, <3>2, <4>1
    <3> QED
      BY <2>5, <3>1, <3>2
  <2>13. k + 1 \in Nat \ {0}
    BY <1>1
  <2> HIDE DEF groups, body, k, block, out
  <2> QED
    BY <1>4, <2>1, <2>3, <2>6, <2>7, <2>9, <2>10, <2>11, <2>12, <2>13 DEF PiecesFit, body
<1> QED
  BY <1>5, <1>6

LEMMA PiecesStep ==
    Conforms /\ Conforms' /\ PiecesFit /\ [Next]_vars => PiecesFit'
<1> SUFFICES ASSUME Conforms, Conforms', PiecesFit, [Next]_vars PROVE PiecesFit'
  OBVIOUS
<1>1. ParserTypeOK /\ BodyFits(article.body, source) /\ StagesFit
  BY DEF Conforms
<1>2. CASE UNCHANGED <<parsing, docx>>
  <2>1. source' = source /\ article' = article /\ docx' = docx
    BY <1>2 DEF parsing
  <2> QED
    BY <2>1, SMTT(30) DEF PiecesFit
<1>3. CASE ReadItem \/ FinishParsing
  <2>1. docx' = docx /\ run.stage = "parse_source"
    BY <1>3 DEF ReadItem, FinishParsing, At, rendering
  <2>2. docx' = [next |-> 1, groups |-> {}, emails |-> {}, out |-> << >>, rebuilt |-> FALSE]
    BY <1>1, <2>1 DEF StagesFit, RenderersInit
  <2>3. article'.body \in Seq(BlockType)
    <3>1. article' \in ArticleType
      BY DEF Conforms, ParserTypeOK
    <3> QED
      BY <3>1, ArticleFields
  <2> QED
    <3>1. docx'.next = 1 /\ docx'.out = << >> /\ docx'.groups = {}
      BY <2>2
    <3>2. << >> \in Seq(PieceType) /\ Len(<< >>) = 0 /\ 1..0 = {}
      BY EmptySeq
    <3>3. \A i \in 1..Len(article'.body) : ~(i < 1)
      BY <2>3, LenProperties
    <3> QED
      BY <3>1, <3>2, <3>3 DEF PiecesFit
<1>4. CASE RenderBlock
  <2>1. UNCHANGED parsing /\ (UNCHANGED docx \/ WriteDocx)
    BY <1>4 DEF RenderBlock, WriteTex
  <2> QED
    BY <1>1, <1>2, <2>1, WriteDocxPieces
<1> QED
  BY <1>2, <1>3, <1>4
     DEF vars, Next, AnalyzeSource, AnalyzeTemplate, FinishRendering,
         CompilePdf, Validate, Fail, End, parsing, rendering

LEMMA PiecesInit == Init => PiecesFit
<1> SUFFICES ASSUME Init PROVE PiecesFit
  OBVIOUS
<1>1. article.body \in Seq(BlockType)
  BY InitConforms, ArticleFields DEF Conforms, ParserTypeOK
<1>2. docx.next = 1 /\ docx.out = << >> /\ docx.groups = {}
  BY DEF Init, RenderersInit
<1>3. << >> \in Seq(PieceType) /\ Len(<< >>) = 0 /\ 1..0 = {}
  BY EmptySeq
<1>4. \A i \in 1..Len(article.body) : ~(i < 1)
  BY <1>1, LenProperties
<1> QED
  BY <1>2, <1>3, <1>4 DEF PiecesFit

LEMMA WrittenTables == Conforms /\ PiecesFit => TablesAreWrittenOnce
<1> SUFFICES ASSUME Conforms, PiecesFit, IsWritten
             PROVE  TablesAreWrittenOnce
  BY DEF TablesAreWrittenOnce
<1> DEFINE tables == {n \in 1..Len(source) : source[n].kind = "table"
                                          /\ (source[n].pics > 0 \/ IsTable(n))}
           Places(n) == {p \in 1..Len(docx.out) : docx.out[p].at = n}
<1>1. /\ ParserTypeOK /\ BodyFits(article.body, source) /\ DocxWritten
      /\ Len(article.body) \in Nat /\ Len(docx.out) \in Nat /\ docx.next \in Nat
  <2>1. ParserTypeOK /\ BodyFits(article.body, source) /\ DocxWritten
    BY DEF Conforms, StagesFit
  <2>2. article.body \in Seq(BlockType) /\ docx.out \in Seq(PieceType)
    BY <2>1, ArticleFields DEF ParserTypeOK, PiecesFit
  <2> QED
    BY <2>1, <2>2, LenProperties DEF PiecesFit
<1>2. ASSUME NEW n \in tables PROVE Cardinality(Places(n)) = 1
  <2>1. n \in 1..Len(source) /\ source[n].kind = "table"
    OBVIOUS
  <2>2. PICK i \in 1..Len(article.body) : article.body[i].at = n
    BY <1>1, <2>1 DEF BodyFits
  <2>3. i < docx.next
    BY <1>1 DEF DocxWritten
  <2>4. PICK p \in 1..Len(docx.out) : docx.out[p].at = n
    BY <2>1, <2>2, <2>3 DEF PiecesFit
  <2>5. \A q \in 1..Len(docx.out) : docx.out[q].at = n => q = p
    BY <2>1, <2>4 DEF PiecesFit
  <2>6. Places(n) = {p}
    BY <2>4, <2>5
  <2> QED
    BY <2>6, FS_Singleton
<1>3. ASSUME NEW n \in tables, NEW m \in tables, n < m,
             NEW p \in Places(n), NEW q \in Places(m)
      PROVE  p < q
  <2>1. p \in Nat /\ q \in Nat /\ p \in 1..Len(docx.out) /\ q \in 1..Len(docx.out)
    BY <1>1
  <2>2. docx.out[p].at = n /\ docx.out[q].at = m /\ n \in Nat /\ m \in Nat
    OBVIOUS
  <2>3. q < p => docx.out[q].at <= docx.out[p].at
    BY <2>1 DEF PiecesFit
  <2>4. q # p
    BY <1>3, <2>2
  <2>5. ~(q < p)
    BY <1>3, <2>2, <2>3
  <2> QED
    BY <2>1, <2>4, <2>5
<1> HIDE DEF tables, Places
<1>4. /\ \A n \in tables : Cardinality(Places(n)) = 1
      /\ \A n, m \in tables : n < m =>
                            \A p \in Places(n), q \in Places(m) : p < q
  BY <1>2, <1>3
<1> QED
  BY <1>4 DEF TablesAreWrittenOnce, tables, Places

\* Each table of the document stands in the Word document once, in its order.
\* (docx_renderer: rendered_figure_groups.)
THEOREM TablesStandOnce == Spec => []TablesAreWrittenOnce
<1>1. Spec => [](Conforms /\ PiecesFit)
  BY InitConforms, ConformsStep, PiecesInit, PiecesStep, PTL DEF Spec
<1> QED
  BY <1>1, WrittenTables, PTL

-----------------------------------------------------------------------------
(* References *)

NewReference(item) == [at |-> Here, text |-> item.text,
                       key |-> Len(article.references) + 1]

\* What the branches do to the references and to the mode of reading them.
ReadsReferences(item) ==
    /\ Branch(item) # "reference" => article'.references = article.references
    /\ Branch(item) = "reference" /\ item.text # NoText =>
          article'.references = Append(article.references, NewReference(item))
    /\ Branch(item) = "references_heading" => mode'.references
    /\ Branch(item) # "references_heading" /\ ~mode.references => ~mode'.references
    /\ Branch(item) = "reference" => mode'.references = mode.references

LEMMA ReadReferences ==
    ASSUME ParserTypeOK, NEW item \in Items, Read(item)
    PROVE  \/ /\ item.kind = "table"
              /\ article'.references = article.references
              /\ mode' = mode
           \/ item.kind = "paragraph" /\ ReadsReferences(item)
<1>1. article \in ArticleType /\ mode \in Modes
  BY DEF ParserTypeOK, Modes
<1>2. Passed(item) => mode'.references = mode.references
  BY <1>1 DEF Passed, Modes
<1>3. CASE TableItem(item)
  BY <1>1, <1>3 DEF TableItem, ArticleType
<1>4. \A branches : Paragraph(item, branches) =>
         item.kind = "paragraph" /\ Branch(item) \in branches
  BY DEF Paragraph
<1> DEFINE Good == item.kind = "paragraph" /\ ReadsReferences(item)
<1>5. CASE Continuation(item)
  BY <1>1, <1>2, <1>4, <1>5 DEF Continuation, ReadsReferences, ArticleType, Modes, Plain
<1>6. CASE Title(item)
  BY <1>1, <1>2, <1>4, <1>6 DEF Title, ReadsReferences, ArticleType, Modes, Plain
<1>7. CASE Subtitle(item)
  BY <1>1, <1>2, <1>4, <1>7 DEF Subtitle, ReadsReferences, ArticleType, Modes, Plain
<1>8. CASE AuthorLine(item)
  BY <1>1, <1>2, <1>4, <1>8 DEF AuthorLine, ReadsReferences, ArticleType, Modes, Plain
<1>9. CASE AffiliationLine(item)
  BY <1>1, <1>2, <1>4, <1>9 DEF AffiliationLine, ReadsReferences, ArticleType, Modes, Plain
<1>10. CASE Abstract(item)
  <2>1. item.kind = "paragraph" /\ Branch(item) \in {"abstract", "abstract_heading"}
    BY <1>4, <1>10 DEF Abstract
  <2>2. article'.references = article.references
    BY <1>1, <1>10 DEF Abstract, ArticleType
  <2>3. mode'.references = mode.references
    BY <1>1, <1>2, <1>10 DEF Abstract, Plain
  <2> QED
    BY <2>1, <2>2, <2>3 DEF ReadsReferences
<1>11. CASE Keywords(item)
  BY <1>1, <1>2, <1>4, <1>11 DEF Keywords, ReadsReferences, ArticleType, Modes, Plain
<1>12. CASE EditorialLine(item)
  BY <1>1, <1>2, <1>4, <1>12 DEF EditorialLine, ReadsReferences, ArticleType, Modes, Plain
<1>13. CASE Identifier(item)
  <2>1. item.kind = "paragraph" /\ Branch(item) \in {"udc", "doi"}
    BY <1>4, <1>13 DEF Identifier
  <2>2. article'.references = article.references
    BY <1>1, <1>13 DEF Identifier, ArticleType
  <2>3. mode'.references = mode.references
    BY <1>2, <1>13 DEF Identifier
  <2> QED
    BY <2>1, <2>2, <2>3 DEF ReadsReferences
<1>14. CASE SecondaryTitle(item)
  <2>1. item.kind = "paragraph" /\ Branch(item) \in {"secondary_title"}
    BY <1>4, <1>14 DEF SecondaryTitle
  <2>2. article'.references = article.references
    BY <1>1, <1>14 DEF SecondaryTitle, ArticleType
  <2>3. mode'.references = FALSE
    BY <1>1, <1>2, <1>14 DEF SecondaryTitle, Plain
  <2> QED
    BY <2>1, <2>2, <2>3 DEF ReadsReferences
<1>15. CASE SecondaryAuthors(item)
  BY <1>1, <1>2, <1>4, <1>15 DEF SecondaryAuthors, ReadsReferences, ArticleType, Modes, Plain
<1>16. CASE ReferencesHeading(item)
  <2>1. item.kind = "paragraph" /\ Branch(item) \in {"references_heading"}
    BY <1>4, <1>16 DEF ReferencesHeading
  <2>2. article'.references = article.references
    BY <1>1, <1>16 DEF ReferencesHeading, ArticleType
  <2>3. mode'.references = TRUE
    BY <1>1, <1>2, <1>16 DEF ReferencesHeading, Plain
  <2> QED
    BY <2>1, <2>2, <2>3 DEF ReadsReferences
<1>17. CASE ReferenceEntry(item)
  BY <1>1, <1>2, <1>4, <1>17 DEF ReferenceEntry, ReadsReferences, ArticleType, Modes, Plain, NewReference
<1>18. CASE Section(item)
  <2>1. item.kind = "paragraph" /\ Branch(item) \in {"section"}
    BY <1>4, <1>18 DEF Section
  <2>2. article'.references = article.references
    BY <1>1, <1>18 DEF Section, ArticleType
  <2>3. mode'.references = FALSE
    BY <1>1, <1>2, <1>18 DEF Section, Plain
  <2> QED
    BY <2>1, <2>2, <2>3 DEF ReadsReferences
<1>19. CASE Caption(item)
  BY <1>1, <1>2, <1>4, <1>19 DEF Caption, ReadsReferences, ArticleType, Modes, Plain
<1>20. CASE ListItem(item)
  BY <1>1, <1>2, <1>4, <1>20 DEF ListItem, ReadsReferences, ArticleType, Modes, Plain
<1>21. CASE BodyParagraph(item)
  BY <1>1, <1>2, <1>4, <1>21 DEF BodyParagraph, ReadsReferences, ArticleType, Modes, Plain
<1> QED
  BY <1>3, <1>5, <1>6, <1>7, <1>8, <1>9, <1>10, <1>11, <1>12, <1>13, <1>14, <1>15, <1>16, <1>17, <1>18, <1>19, <1>20, <1>21 DEF Read

LEMMA HeadingBranch ==
    ASSUME NEW item, item.role = "references_heading", item.form = "plain"
    PROVE  Branch(item) = "references_heading"
BY DEF Branch, IsContinuation, MetadataRoles, SectionRoles, CaptionRoles

LEMMA ReferenceBranch ==
    ASSUME NEW item, item.role \in {"reference", "paragraph"}, item.form = "plain",
           item.text # NoText, mode.references
    PROVE  Branch(item) = "reference"
BY DEF Branch, IsContinuation, MetadataRoles, SectionRoles, CaptionRoles

LEMMA OtherBranch ==
    ASSUME NEW item, item.role \notin {"references_heading", "reference"}, ~mode.references
    PROVE  Branch(item) \notin {"references_heading", "reference"}
BY DEF Branch, MetadataRoles

NoReferences == \A n \in 1..Len(source) :
                   source[n].role \notin {"references_heading", "reference"}

\* The reference of item h + k is number k, as its author counts.
Numbered(h) == \A k \in 1..Len(article.references) :
                  article.references[k].at - h = article.references[k].key

ReferencesFit ==
    /\ run.stage \in {"analyze_source", "parse_source"} =>
          /\ NoReferences => ~mode.references /\ article.references = << >>
          /\ \A h \in 1..Len(source) : ListOfReferencesAt(h) =>
                mode.references /\ Len(article.references) = Len(source) - h
    /\ \A h \in 1..Len(source) : ListOfReferencesAt(h) => Numbered(h)
    /\ IsParsed => LinksFit(article)

LEMMA ReadReferencesFit ==
    ASSUME Conforms, ReferencesFit, run.stage = "parse_source", NEW item \in Items,
           Read(item), run' = run
    PROVE  ReferencesFit'
<1> DEFINE refs == article.references
           m == Len(source)
<1>1. /\ ParserTypeOK /\ source \in Seq(Items) /\ m \in Nat
      /\ refs \in Seq(References) /\ Len(refs) \in Nat
  <2>1. ParserTypeOK
    BY DEF Conforms
  <2> QED
    BY <2>1, LenProperties, ArticleFields DEF ParserTypeOK
<1>2. /\ source' = Append(source, item) /\ Len(source') = m + 1
      /\ source'[m + 1] = item
      /\ \A n \in 1..m : source'[n] = source[n]
  <2>1. source' = Append(source, item)
    BY <1>1, ReadStep
  <2> QED
    BY <1>1, <2>1, AppendedItem
<1>3. \/ item.kind = "table" /\ article'.references = refs /\ mode' = mode
      \/ item.kind = "paragraph" /\ ReadsReferences(item)
  BY <1>1, ReadReferences
<1>4. item.role \in Roles /\ item.form \in Forms
  BY ItemTypes
<1>5. ~IsParsed'
  BY DEF IsParsed
<1>6. ASSUME NoReferences', item.kind = "paragraph" \/ item.kind = "table"
      PROVE  ~mode'.references /\ article'.references = << >>
  <2>1. \A n \in 1..(m + 1) : source'[n].role \notin {"references_heading", "reference"}
    BY <1>2, <1>6 DEF NoReferences
  <2>2. item.role \notin {"references_heading", "reference"}
    BY <1>1, <1>2, <2>1
  <2>3. NoReferences
    <3>1. \A n \in 1..m : n \in 1..(m + 1)
      BY <1>1
    <3> QED
      BY <1>2, <2>1, <3>1 DEF NoReferences
  <2>4. ~mode.references /\ refs = << >>
    BY <2>3 DEF ReferencesFit
  <2>5. Branch(item) \notin {"references_heading", "reference"}
    BY <2>2, <2>4, OtherBranch
  <2> QED
    BY <1>3, <2>4, <2>5 DEF ReadsReferences
<1>7. ASSUME NEW h \in 1..Len(source'), ListOfReferencesAt(h)'
      PROVE  /\ mode'.references /\ Len(article'.references) = Len(source') - h
             /\ Numbered(h)'
  <2>1. /\ h \in 1..(m + 1)
        /\ source'[h].kind = "paragraph" /\ source'[h].form = "plain"
        /\ source'[h].role = "references_heading"
        /\ \A n \in 1..(m + 1) :
             /\ n < h => source'[n].role \notin {"references_heading", "reference"}
             /\ n > h => /\ source'[n].kind = "paragraph"
                         /\ source'[n].form = "plain"
                         /\ source'[n].text # NoText
                         /\ source'[n].role \in {"reference", "paragraph"}
    BY <1>2, <1>7 DEF ListOfReferencesAt
  <2>2. CASE h = m + 1
    <3>1. item.kind = "paragraph" /\ item.form = "plain" /\ item.role = "references_heading"
      BY <1>2, <2>1, <2>2
    <3>2. Branch(item) = "references_heading"
      BY <3>1, HeadingBranch
    <3>3. NoReferences
      BY <1>1, <1>2, <2>1, <2>2 DEF NoReferences
    <3>4. refs = << >>
      BY <3>3 DEF ReferencesFit
    <3>5. mode'.references /\ article'.references = << >>
      BY <1>3, <3>1, <3>2, <3>4 DEF ReadsReferences
    <3>6. Len(<< >>) = 0 /\ 1..0 = {}
      OBVIOUS
    <3> QED
      BY <1>1, <1>2, <2>2, <3>5, <3>6 DEF Numbered
  <2>3. CASE h \in 1..m
    <3>1. ListOfReferencesAt(h)
      <4>1. \A n \in 1..m : n \in 1..(m + 1)
        BY <1>1
      <4> QED
        BY <1>2, <2>1, <2>3, <4>1 DEF ListOfReferencesAt
    <3>2. mode.references /\ Len(refs) = m - h /\ Numbered(h)
      BY <2>3, <3>1 DEF ReferencesFit
    <3>3. /\ item.kind = "paragraph" /\ item.form = "plain" /\ item.text # NoText
          /\ item.role \in {"reference", "paragraph"}
      <4>1. m + 1 \in 1..(m + 1) /\ m + 1 > h
        BY <1>1, <2>3
      <4> QED
        BY <1>2, <2>1, <4>1
    <3>4. Branch(item) = "reference"
      BY <3>2, <3>3, ReferenceBranch
    <3>5. /\ article'.references = Append(refs, NewReference(item))
          /\ mode'.references
      BY <1>3, <3>2, <3>3, <3>4 DEF ReadsReferences
    <3> DEFINE new == article'.references
               entry == NewReference(item)
    <3>6. entry \in References /\ entry.at = m + 1 /\ entry.key = Len(refs) + 1
      BY <1>1, ItemTypes DEF NewReference, References, Here
    <3> HIDE DEF entry
    <3>7. /\ Len(new) = Len(refs) + 1 /\ new[Len(refs) + 1] = entry
          /\ \A k \in 1..Len(refs) : new[k] = refs[k]
      BY <1>1, <3>5, <3>6, AppendProperties DEF entry
    <3>8. Len(new) = m + 1 - h
      BY <1>1, <2>3, <3>2, <3>7
    <3>9. ASSUME NEW k \in 1..Len(new) PROVE new[k].at - h = new[k].key
      <4>1. CASE k \in 1..Len(refs)
        BY <3>2, <3>7, <4>1 DEF Numbered
      <4>2. CASE k = Len(refs) + 1
        BY <1>1, <2>3, <3>2, <3>6, <3>7, <4>2
      <4> QED
        BY <1>1, <3>7, <4>1, <4>2
    <3> QED
      BY <1>2, <3>5, <3>8, <3>9 DEF Numbered
  <2> QED
    BY <1>1, <2>1, <2>2, <2>3
<1>8. item.kind = "paragraph" \/ item.kind = "table"
  BY <1>3
<1> QED
  BY <1>5, <1>6, <1>7, <1>8 DEF ReferencesFit

LEMMA FinishReferencesFit ==
    ASSUME Conforms, ReferencesFit, Finish, run'.stage = "analyze_template"
    PROVE  ReferencesFit'
<1>1. article' = Parsed /\ source' = source
  BY DEF Finish
<1>2. /\ \A n \in 1..Len(Parsed.references) :
            \E m \in 1..Len(article.references) :
               Parsed.references[n] = article.references[m]
      /\ LinksFit(Parsed)
  BY ParsedFits DEF Conforms
<1>3. LinksFit(article)'
  BY <1>1, <1>2 DEF LinksFit
<1>4. ASSUME NEW h \in 1..Len(source'), ListOfReferencesAt(h)'
      PROVE  Numbered(h)'
  <2>1. Numbered(h)
    BY <1>1, <1>4 DEF ReferencesFit, ListOfReferencesAt
  <2> QED
    BY <1>1, <1>2, <2>1 DEF Numbered
<1> QED
  BY <1>3, <1>4 DEF ReferencesFit

LEMMA ReferencesInit == Init => ReferencesFit
<1> SUFFICES ASSUME Init PROVE ReferencesFit
  OBVIOUS
<1>1. /\ source = << >> /\ article.references = << >> /\ ~mode.references
      /\ run.stage = "analyze_source"
  BY DEF Init, ParserInit, EmptyArticle, Plain
<1>2. Len(<< >>) = 0 /\ 1..0 = {}
  OBVIOUS
<1> QED
  BY <1>1, <1>2 DEF ReferencesFit, IsParsed

\* Which actions leave the article and the order of the stages is the same for
\* all that follows.
LEMMA Steps ==
    ASSUME Conforms, [Next]_vars
    PROVE  \/ run.stage = "parse_source" /\ run' = run /\ \E item \in Items : Read(item)
           \/ /\ run.stage = "parse_source" /\ run'.stage = "analyze_template"
              /\ Finish
           \/ /\ UNCHANGED parsing
              /\ run'.stage \in {"analyze_source", "parse_source"} =>
                    run.stage \in {"analyze_source", "parse_source"}
              /\ IsParsed' => IsParsed
<1>0. run \in RunType
  BY DEF Conforms, StagesFit
<1>1. CASE ReadItem
  BY <1>1 DEF ReadItem, At
<1>2. CASE FinishParsing
  BY <1>0, <1>2 DEF FinishParsing, At, Enter, Warn, RunType
<1>3. CASE AnalyzeSource
  BY <1>0, <1>3 DEF AnalyzeSource, At, Enter, RunType, IsParsed
<1>4. CASE AnalyzeTemplate
  BY <1>0, <1>4 DEF AnalyzeTemplate, At, Enter, Warn, RunType, IsParsed
<1>5. CASE RenderBlock \/ End \/ UNCHANGED vars
  BY <1>5 DEF RenderBlock, End, vars, parsing, IsParsed
<1>6. CASE FinishRendering
  BY <1>0, <1>6 DEF FinishRendering, At, Enter, Warn, RunType, IsParsed
<1>7. CASE CompilePdf
  BY <1>0, <1>7 DEF CompilePdf, At, Enter, Warn, RunType, IsParsed
<1>8. CASE Validate
  <2>1. UNCHANGED parsing /\ run.stage = "validate" /\ run'.stage = "completed"
    BY <1>0, <1>8 DEF Validate, At, Enter, RunType
  <2> QED
    BY <2>1 DEF IsParsed
<1>9. CASE Fail
  BY <1>0, <1>9 DEF Fail, Enter, RunType, IsParsed
<1> QED
  BY <1>1, <1>2, <1>3, <1>4, <1>5, <1>6, <1>7, <1>8, <1>9 DEF Next

LEMMA ReferencesStep == Conforms /\ ReferencesFit /\ [Next]_vars => ReferencesFit'
<1> SUFFICES ASSUME Conforms, ReferencesFit, [Next]_vars PROVE ReferencesFit'
  OBVIOUS
<1>1. CASE /\ UNCHANGED parsing
           /\ run'.stage \in {"analyze_source", "parse_source"} =>
                 run.stage \in {"analyze_source", "parse_source"}
           /\ IsParsed' => IsParsed
  BY <1>1 DEF parsing, ReferencesFit, NoReferences, ListOfReferencesAt, Numbered, LinksFit
<1> QED
  BY <1>1, Steps, ReadReferencesFit, FinishReferencesFit

LEMMA LinkedToTheirOwn == ReferencesFit => CitationsPointToTheirReferences
BY DEF ReferencesFit, CitationsPointToTheirReferences, Numbered, LinksFit

\* A number in brackets is linked to the reference its author gave it.
\* (docx_parser: _deduplicate_article and _link_numeric_citations.)
THEOREM LinksKeepTheirNumbers == Spec => []CitationsPointToTheirReferences
<1>1. Spec => [](Conforms /\ ReferencesFit)
  BY InitConforms, ConformsStep, ReferencesInit, ReferencesStep, PTL DEF Spec
<1> QED
  BY <1>1, LinkedToTheirOwn, PTL

-----------------------------------------------------------------------------
(* Lists in the LaTeX source *)

\* The lists that are open after token, and whether it may stand where the
\* lists of open are open.
After(open, token) ==
    CASE token.what = "begin" -> Append(open, token.name)
      [] token.what = "end" -> SubSeq(open, 1, Len(open) - 1)
      [] OTHER -> open
Placed(token, open) ==
    CASE token.what = "end" -> open # << >> /\ open[Len(open)] = token.name
      [] token.what = "begin" -> TRUE
      [] token.what = "item" ->
            /\ Len(open) = source[token.at].level + 1
            /\ open[Len(open)] = EnvironmentOf(source[token.at])
      [] OTHER -> open = << >>

Tokens == [what : Kinds \cup {"begin", "end", "bibitem"},
           name : Environments \cup {""}, at : Nat]

\* nest[n] are the lists that are open before token number n.
NestedBy(out, stack, nest) ==
    /\ nest[1] = << >>
    /\ nest[Len(out) + 1] = stack
    /\ \A n \in 1..Len(out) : /\ nest[n + 1] = After(nest[n], out[n])
                              /\ Placed(out[n], nest[n])

Nested(out, stack) ==
    /\ out \in Seq(Tokens)
    /\ stack \in Seq(Environments)
    /\ \E nest : NestedBy(out, stack, nest)

LEMMA NestedAppend ==
    ASSUME NEW out, NEW stack, Nested(out, stack), NEW token \in Tokens,
           Placed(token, stack), After(stack, token) \in Seq(Environments)
    PROVE  Nested(Append(out, token), After(stack, token))
<1> DEFINE more == Append(out, token)
           m == Len(out)
<1>1. PICK nest : NestedBy(out, stack, nest)
  BY DEF Nested
<1>2. /\ out \in Seq(Tokens) /\ m \in Nat /\ more \in Seq(Tokens) /\ Len(more) = m + 1
      /\ more[m + 1] = token /\ \A n \in 1..m : more[n] = out[n]
  <2>1. out \in Seq(Tokens)
    BY DEF Nested
  <2> QED
    BY <2>1, LenProperties, AppendProperties
<1> DEFINE new == [n \in 1..(m + 2) |-> IF n <= m + 1 THEN nest[n]
                                                      ELSE After(stack, token)]
<1>3. new[1] = << >> /\ new[m + 2] = After(stack, token) /\ new[m + 1] = stack
      /\ \A n \in 1..(m + 1) : new[n] = nest[n]
  BY <1>1, <1>2 DEF NestedBy
<1> HIDE DEF new, more
<1>4. ASSUME NEW n \in 1..(m + 1)
      PROVE  new[n + 1] = After(new[n], more[n]) /\ Placed(more[n], new[n])
  <2>1. CASE n \in 1..m
    <3>1. n + 1 \in 1..(m + 1)
      BY <1>2, <2>1
    <3>2. nest[n + 1] = After(nest[n], out[n]) /\ Placed(out[n], nest[n])
      BY <1>1, <2>1 DEF NestedBy
    <3> QED
      BY <1>2, <1>3, <2>1, <3>1, <3>2
  <2>2. CASE n = m + 1
    <3>1. n + 1 = m + 2
      BY <1>2, <2>2
    <3> QED
      BY <1>2, <1>3, <2>2, <3>1
  <2> QED
    BY <1>2, <2>1, <2>2
<1>5. Len(more) + 1 = m + 2
  BY <1>2
<1>6. NestedBy(more, After(stack, token), new)
  BY <1>2, <1>3, <1>4, <1>5 DEF NestedBy
<1> QED
  BY <1>2, <1>6 DEF Nested, more

\* A sequence of tokens is appended one after the other.
LEMMA ConcatOne ==
    ASSUME NEW S, NEW out \in Seq(S), NEW j \in Nat, NEW m \in Nat, j < m,
           NEW f \in [1..m -> S]
    PROVE  /\ out \o [n \in 1..(j + 1) |-> f[n]]
                = Append(out \o [n \in 1..j |-> f[n]], f[j + 1])
           /\ f[j + 1] \in S
<1> DEFINE s == [n \in 1..j |-> f[n]]
           t == [n \in 1..(j + 1) |-> f[n]]
<1>1. s \in Seq(S) /\ Len(s) = j /\ t \in Seq(S) /\ Len(t) = j + 1 /\ f[j + 1] \in S
  <2>1. s \in [1..j -> S] /\ t \in [1..(j + 1) -> S] /\ f[j + 1] \in S
    OBVIOUS
  <2> QED
    BY <2>1, Elements
<1>2. \A n \in 1..j : s[n] = f[n] /\ t[n] = f[n]
  OBVIOUS
<1>3. t[j + 1] = f[j + 1]
  OBVIOUS
<1> HIDE DEF s, t
<1>4. /\ out \o s \in Seq(S) /\ Len(out \o s) = Len(out) + j /\ Len(out) \in Nat
      /\ \A i \in 1..(Len(out) + j) :
            (out \o s)[i] = IF i <= Len(out) THEN out[i] ELSE s[i - Len(out)]
  BY <1>1, ConcatProperties, LenProperties
<1>5. /\ out \o t \in Seq(S) /\ Len(out \o t) = Len(out) + (j + 1)
      /\ \A i \in 1..(Len(out) + (j + 1)) :
            (out \o t)[i] = IF i <= Len(out) THEN out[i] ELSE t[i - Len(out)]
  BY <1>1, ConcatProperties
<1> DEFINE grown == Append(out \o s, f[j + 1])
<1>6. /\ grown \in Seq(S) /\ Len(grown) = Len(out) + j + 1
      /\ grown[Len(out) + j + 1] = f[j + 1]
      /\ \A i \in 1..(Len(out) + j) : grown[i] = (out \o s)[i]
  <2> DEFINE o == out \o s
  <2>1. o \in Seq(S) /\ Len(o) = Len(out) + j /\ f[j + 1] \in S
    BY <1>1, <1>4
  <2> HIDE DEF o
  <2>2. /\ Append(o, f[j + 1]) \in Seq(S) /\ Len(Append(o, f[j + 1])) = Len(o) + 1
        /\ Append(o, f[j + 1])[Len(o) + 1] = f[j + 1]
        /\ \A i \in 1..Len(o) : Append(o, f[j + 1])[i] = o[i]
    BY <2>1, AppendProperties
  <2> QED
    BY <2>1, <2>2 DEF o
<1> HIDE DEF grown
<1>7. ASSUME NEW i \in 1..(Len(out) + j + 1) PROVE (out \o t)[i] = grown[i]
  <2>1. CASE i <= Len(out)
    BY <1>4, <1>5, <1>6, <2>1
  <2>2. CASE i > Len(out) /\ i <= Len(out) + j
    <3>1. i - Len(out) \in 1..j
      BY <1>4, <2>2
    <3> QED
      BY <1>2, <1>4, <1>5, <1>6, <2>2, <3>1
  <2>3. CASE i = Len(out) + j + 1
    <3>1. i - Len(out) = j + 1 /\ ~(i <= Len(out))
      BY <1>4, <2>3
    <3> QED
      BY <1>3, <1>4, <1>5, <1>6, <2>3, <3>1
  <2> HIDE DEF s, t
  <2>4. i \in Nat /\ Len(out) \in Nat /\ j \in Nat /\ i <= Len(out) + j + 1
    BY <1>4
  <2>5. \/ i <= Len(out)
        \/ i > Len(out) /\ i <= Len(out) + j
        \/ i = Len(out) + j + 1
    BY <2>4
  <2> QED
    BY <2>1, <2>2, <2>3, <2>5
<1>8. out \o t = grown
  BY <1>4, <1>5, <1>6, <1>7, SeqEqual
<1> QED
  BY <1>1, <1>8 DEF s, t, grown

\* The lists that are closed.
LEMMA NestedEnds ==
    ASSUME NEW out, NEW stack, Nested(out, stack), NEW depth \in 0..Len(stack)
    PROVE  Nested(out \o Ends(stack, depth), SubSeq(stack, 1, depth))
<1> DEFINE m == Len(stack)
           f == [n \in 1..m |-> Token("end", stack[m + 1 - n])]
           ends(j) == [n \in 1..j |-> f[n]]
           T == {j \in Nat : j <= m => Nested(out \o ends(j), SubSeq(stack, 1, m - j))}
<1>1. m \in Nat /\ out \in Seq(Tokens) /\ stack \in Seq(Environments)
      /\ \A n \in 1..m : stack[n] \in Environments
  BY LenProperties, ElementOfSeq DEF Nested
<1>2. f \in [1..m -> Tokens]
  <2>1. \A n \in 1..m : m + 1 - n \in 1..m
    BY <1>1
  <2> QED
    BY <1>1, <2>1 DEF Tokens, Token
<1>3. 0 \in T
  <2>1. ends(0) = << >>
    OBVIOUS
  <2>2. out \o << >> = out /\ SubSeq(stack, 1, m) = stack /\ m - 0 = m
    BY <1>1, ConcatEmptySeq, SubSeqFull
  <2> QED
    BY <2>1, <2>2
<1>4. ASSUME NEW j \in T PROVE j + 1 \in T
  <2> SUFFICES ASSUME j + 1 <= m
               PROVE  Nested(out \o ends(j + 1), SubSeq(stack, 1, m - (j + 1)))
    OBVIOUS
  <2> DEFINE open == SubSeq(stack, 1, m - j)
             token == f[j + 1]
  <2>1. j \in Nat /\ j < m /\ Nested(out \o ends(j), open)
    BY <1>1
  <2>2. token = Token("end", stack[m - j]) /\ token \in Tokens
    <3>1. m + 1 - (j + 1) = m - j /\ j + 1 \in 1..m
      BY <1>1, <2>1
    <3> QED
      BY <1>2, <3>1
  <2>3. /\ open \in Seq(Environments) /\ Len(open) = m - j /\ open[m - j] = stack[m - j]
    <3>1. 1 \in 1..(m + 1) /\ m - j \in 0..m /\ m - j >= 1
      BY <1>1, <2>1
    <3> QED
      BY <1>1, <3>1, SubSeqProperties
  <2>4. open # << >>
    <3>1. Len(<< >>) = 0
      OBVIOUS
    <3> HIDE DEF open
    <3>2. Len(open) # 0
      BY <1>1, <2>1, <2>3
    <3> QED
      BY <3>1, <3>2
  <2>5. Placed(token, open)
    BY <2>2, <2>3, <2>4 DEF Placed, Token
  <2>6. After(open, token) = SubSeq(stack, 1, m - (j + 1))
    <3>1. After(open, token) = SubSeq(open, 1, Len(open) - 1)
      BY <2>2 DEF After, Token
    <3>2. SubSeq(open, 1, m - j - 1) = SubSeq(stack, 1, m - j - 1)
      BY <1>1, <2>1
    <3>3. m - (j + 1) = m - j - 1
      BY <1>1, <2>1
    <3> QED
      BY <2>3, <3>1, <3>2, <3>3
  <2>7. SubSeq(stack, 1, m - (j + 1)) \in Seq(Environments)
    BY <1>1, <2>1
  <2>8. out \o ends(j + 1) = Append(out \o ends(j), token)
    <3> HIDE DEF f
    <3> QED
      BY <1>1, <1>2, <2>1, ConcatOne
  <2> HIDE DEF open, token, ends
  <2>9. Nested(Append(out \o ends(j), token), After(open, token))
    BY <2>1, <2>2, <2>5, <2>6, <2>7, NestedAppend
  <2> QED
    BY <2>6, <2>8, <2>9
<1>5. m - depth \in T
  <2>1. T = Nat
    <3> HIDE DEF T
    <3>1. T \in SUBSET Nat
      BY DEF T
    <3> QED
      BY <1>3, <1>4, <3>1, NatsByInduction
  <2>2. m - depth \in Nat
    BY <1>1
  <2> HIDE DEF T
  <2> QED
    BY <2>1, <2>2
<1>6. Nested(out \o ends(m - depth), SubSeq(stack, 1, depth))
  <2>1. m - (m - depth) = depth /\ m - depth <= m
    BY <1>1
  <2> QED
    BY <1>5, <2>1
<1>7. Ends(stack, depth) = ends(m - depth)
  BY <1>1 DEF Ends
<1> QED
  BY <1>6, <1>7

\* The lists that are opened.
LEMMA NestedBegins ==
    ASSUME NEW out, NEW stack, Nested(out, stack), NEW environment \in Environments,
           NEW count \in Nat
    PROVE  Nested(out \o Begins(environment, count),
                  stack \o [n \in 1..count |-> environment])
<1> DEFINE f == [n \in 1..count |-> Token("begin", environment)]
           names == [n \in 1..count |-> environment]
           begins(j) == [n \in 1..j |-> f[n]]
           open(j) == stack \o [n \in 1..j |-> names[n]]
           T == {j \in Nat : j <= count => Nested(out \o begins(j), open(j))}
<1>1. /\ out \in Seq(Tokens) /\ stack \in Seq(Environments)
      /\ f \in [1..count -> Tokens] /\ names \in [1..count -> Environments]
  BY DEF Nested, Tokens, Token
<1>2. 0 \in T
  <2>1. begins(0) = << >> /\ [n \in 1..0 |-> names[n]] = << >>
    OBVIOUS
  <2>2. out \o << >> = out /\ stack \o << >> = stack
    BY <1>1, ConcatEmptySeq
  <2> QED
    BY <2>1, <2>2
<1>3. ASSUME NEW j \in T PROVE j + 1 \in T
  <2> SUFFICES ASSUME j + 1 <= count PROVE Nested(out \o begins(j + 1), open(j + 1))
    OBVIOUS
  <2>1. j \in Nat /\ j < count /\ Nested(out \o begins(j), open(j)) /\ j + 1 \in 1..count
    OBVIOUS
  <2>2. f[j + 1] = Token("begin", environment) /\ names[j + 1] = environment
    BY <2>1
  <2> HIDE DEF f, names
  <2>3. out \o begins(j + 1) = Append(out \o begins(j), f[j + 1]) /\ f[j + 1] \in Tokens
    BY <1>1, <2>1, ConcatOne
  <2>4. open(j + 1) = Append(open(j), names[j + 1])
    BY <1>1, <2>1, ConcatOne
  <2>5. open(j) \in Seq(Environments)
    BY <2>1 DEF Nested
  <2> HIDE DEF begins, open
  <2>6. After(open(j), f[j + 1]) = open(j + 1) /\ Placed(f[j + 1], open(j))
    BY <2>2, <2>4 DEF After, Placed, Token
  <2>7. open(j + 1) \in Seq(Environments)
    BY <2>2, <2>4, <2>5, AppendProperties
  <2>8. Nested(Append(out \o begins(j), f[j + 1]), After(open(j), f[j + 1]))
    BY <2>1, <2>3, <2>6, <2>7, NestedAppend
  <2> QED
    BY <2>3, <2>6, <2>8
<1>4. count \in T
  <2> HIDE DEF T
  <2>1. T \in SUBSET Nat
    BY DEF T
  <2> QED
    BY <1>2, <1>3, <2>1, NatsByInduction
<1>5. begins(count) = Begins(environment, count)
      /\ [n \in 1..count |-> names[n]] = [n \in 1..count |-> environment]
  BY DEF Begins
<1> QED
  BY <1>4, <1>5

\* The references after the text.
LEMMA NestedReferences ==
    ASSUME NEW out, Nested(out, << >>), NEW refs \in Seq(References)
    PROVE  Nested(out \o [n \in 1..Len(refs) |->
                            [what |-> "bibitem", name |-> "", at |-> refs[n].at]], << >>)
<1> DEFINE m == Len(refs)
           f == [n \in 1..m |-> [what |-> "bibitem", name |-> "", at |-> refs[n].at]]
           some(j) == [n \in 1..j |-> f[n]]
           T == {j \in Nat : j <= m => Nested(out \o some(j), << >>)}
<1>1. m \in Nat /\ out \in Seq(Tokens) /\ \A n \in 1..m : refs[n] \in References
  BY LenProperties, ElementOfSeq DEF Nested
<1>2. f \in [1..m -> Tokens] /\ \A n \in 1..m : f[n].what = "bibitem"
  BY <1>1 DEF Tokens, References
<1> HIDE DEF f
<1>3. 0 \in T
  <2>1. some(0) = << >> /\ out \o << >> = out
    BY <1>1, ConcatEmptySeq
  <2> QED
    BY <2>1
<1>4. ASSUME NEW j \in T PROVE j + 1 \in T
  <2> SUFFICES ASSUME j + 1 <= m PROVE Nested(out \o some(j + 1), << >>)
    OBVIOUS
  <2>1. j \in Nat /\ j < m /\ Nested(out \o some(j), << >>) /\ j + 1 \in 1..m
    BY <1>1
  <2>2. f[j + 1].what = "bibitem"
    BY <1>2, <2>1
  <2>3. out \o some(j + 1) = Append(out \o some(j), f[j + 1]) /\ f[j + 1] \in Tokens
    BY <1>1, <1>2, <2>1, ConcatOne
  <2>4. After(<< >>, f[j + 1]) = << >> /\ Placed(f[j + 1], << >>)
    BY <2>2 DEF After, Placed
  <2> HIDE DEF some
  <2>5. Nested(Append(out \o some(j), f[j + 1]), After(<< >>, f[j + 1]))
    BY <2>1, <2>3, <2>4, EmptySeq, NestedAppend
  <2> QED
    BY <2>3, <2>4, <2>5
<1>5. m \in T
  <2> HIDE DEF T
  <2>1. T \in SUBSET Nat
    BY DEF T
  <2> QED
    BY <1>1, <1>3, <1>4, <2>1, NatsByInduction
<1>6. some(m) = f
  BY <1>2
<1>7. Nested(out \o some(m), << >>)
  BY <1>1, <1>5
<1> HIDE DEF some, T
<1> QED
  BY <1>6, <1>7 DEF f

\* Nesting is defined: the numbers up to n have their values, and only these.
NestingUpto(g, n) ==
    g = [k \in 0..n |-> IF k <= 1 THEN << >> ELSE After(g[k - 1], tex.out[k - 1])]

LEMMA NestingUptoExists == \A n \in Nat : \E g : NestingUpto(g, n)
<1> DEFINE T == {n \in Nat : \E g : NestingUpto(g, n)}
<1>1. 0 \in T
  <2> DEFINE g == [k \in 0..0 |-> << >>]
  <2>1. NestingUpto(g, 0)
    BY DEF NestingUpto
  <2> HIDE DEF g
  <2> QED
    BY <2>1
<1>2. ASSUME NEW n \in T PROVE n + 1 \in T
  <2>1. PICK g : NestingUpto(g, n)
    OBVIOUS
  <2> DEFINE Value(h, k) == IF k <= 1 THEN << >> ELSE After(h[k - 1], tex.out[k - 1])
             h == [k \in 0..(n + 1) |-> IF k <= n THEN g[k] ELSE Value(g, k)]
  <2>2. n \in Nat
    OBVIOUS
  <2>3. \A k \in 0..n : g[k] = Value(g, k) /\ h[k] = g[k]
    <3>1. \A k \in 0..n : k \in 0..(n + 1) /\ k <= n
      BY <2>2
    <3>2. g = [k \in 0..n |-> Value(g, k)]
      BY <2>1 DEF NestingUpto
    <3> HIDE DEF Value
    <3>3. \A k \in 0..n : g[k] = Value(g, k)
      BY <3>2, Zenon
    <3>4. \A k \in 0..n : h[k] = g[k]
      BY <3>1
    <3> QED
      BY <3>3, <3>4
  <2>4. ASSUME NEW k \in 0..(n + 1) PROVE h[k] = Value(h, k)
    <3>1. h[k] = Value(g, k)
      <4>1. CASE k <= n
        <5>1. k \in 0..n
          BY <2>2, <4>1
        <5> QED
          BY <2>3, <5>1
      <4>2. CASE ~(k <= n)
        BY <4>2
      <4> QED
        BY <4>1, <4>2
    <3>2. CASE k <= 1
      BY <3>1, <3>2
    <3>3. CASE ~(k <= 1)
      <4>1. k - 1 \in 0..n
        BY <2>2, <3>3
      <4>2. h[k - 1] = g[k - 1]
        BY <2>3, <4>1
      <4> HIDE DEF h
      <4> QED
        BY <3>1, <3>3, <4>2
    <3> QED
      BY <3>2, <3>3
  <2>5. h = [k \in 0..(n + 1) |-> Value(h, k)]
    <3>1. h = [k \in 0..(n + 1) |-> h[k]]
      OBVIOUS
    <3> HIDE DEF h, Value
    <3> QED
      BY <2>4, <3>1
  <2> HIDE DEF h
  <2>6. NestingUpto(h, n + 1)
    BY <2>5 DEF NestingUpto
  <2> QED
    BY <2>2, <2>6
<1>3. T \in SUBSET Nat
  OBVIOUS
<1>4. T = Nat
  <2> HIDE DEF T
  <2> QED
    BY <1>1, <1>2, <1>3, NatsByInduction
<1> QED
  BY <1>4

LEMMA NestingUptoUnique ==
    ASSUME NEW n \in Nat, NEW m \in Nat, NEW g, NestingUpto(g, n), NEW h, NestingUpto(h, m),
           NEW i \in Nat, i <= n, i <= m
    PROVE  g[i] = h[i]
<1> DEFINE T == {k \in Nat : k <= n /\ k <= m => g[k] = h[k]}
<1>1. \A k \in 0..n : g[k] = IF k <= 1 THEN << >> ELSE After(g[k - 1], tex.out[k - 1])
  BY Zenon DEF NestingUpto
<1>2. \A k \in 0..m : h[k] = IF k <= 1 THEN << >> ELSE After(h[k - 1], tex.out[k - 1])
  BY Zenon DEF NestingUpto
<1>3. 0 \in T
  BY <1>1, <1>2
<1>4. ASSUME NEW k \in T PROVE k + 1 \in T
  <2> SUFFICES ASSUME k + 1 <= n, k + 1 <= m PROVE g[k + 1] = h[k + 1]
    OBVIOUS
  <2>1. k + 1 \in 0..n /\ k + 1 \in 0..m /\ (k + 1) - 1 = k /\ g[k] = h[k]
    OBVIOUS
  <2> QED
    BY <1>1, <1>2, <2>1
<1>5. T \in SUBSET Nat
  OBVIOUS
<1> HIDE DEF T
<1>6. T = Nat
  BY <1>3, <1>4, <1>5, NatsByInduction
<1> QED
  BY <1>6 DEF T

LEMMA NestingUnfolds ==
    /\ Nesting[1] = << >>
    /\ \A n \in Nat \ {0} : Nesting[n + 1] = After(Nesting[n], tex.out[n])
<1> DEFINE g == [n \in Nat |-> CHOOSE g : NestingUpto(g, n)]
           f == [n \in Nat |-> g[n][n]]
           Value(h, n) == IF n <= 1 THEN << >> ELSE After(h[n - 1], tex.out[n - 1])
<1>1. \A n \in Nat : NestingUpto(g[n], n)
  BY NestingUptoExists
<1> HIDE DEF g
<1>2. ASSUME NEW n \in Nat PROVE f[n] = Value(f, n)
  <2>1. g[n] = [k \in 0..n |-> Value(g[n], k)]
    BY <1>1 DEF NestingUpto
  <2>2. n \in 0..n
    OBVIOUS
  <2> HIDE DEF Value
  <2>3. g[n][n] = Value(g[n], n)
    BY <2>1, <2>2, Zenon
  <2> USE DEF Value
  <2>4. CASE n <= 1
    BY <2>3, <2>4
  <2>5. CASE ~(n <= 1)
    <3>1. n - 1 \in Nat /\ n - 1 <= n /\ n - 1 <= n - 1
      BY <2>5
    <3>2. g[n][n - 1] = g[n - 1][n - 1]
      BY <1>1, <3>1, NestingUptoUnique
    <3> QED
      BY <2>3, <2>5, <3>1, <3>2
  <2> QED
    BY <2>4, <2>5
<1>3. f = [n \in Nat |-> Value(f, n)]
  <2>1. f = [n \in Nat |-> f[n]]
    OBVIOUS
  <2> HIDE DEF f, Value
  <2> QED
    BY <1>2, <2>1
<1> HIDE DEF f
<1>4. \A h, n : Value(h, n) =
         IF n <= 1 THEN << >>
         ELSE LET before == h[n - 1]
                  token == tex.out[n - 1]
              IN  CASE token.what = "begin" -> Append(before, token.name)
                    [] token.what = "end" -> SubSeq(before, 1, Len(before) - 1)
                    [] OTHER -> before
  BY DEF After
<1>5. Nesting = CHOOSE h : h = [n \in Nat |-> Value(h, n)]
  BY <1>4, Zenon DEF Nesting, After
<1>6. Nesting = [n \in Nat |-> Value(Nesting, n)]
  <2> HIDE DEF Value
  <2> QED
    BY <1>3, <1>5, Zenon
<1> HIDE DEF Value
<1>7. \A n \in Nat : Nesting[n] = Value(Nesting, n)
  BY <1>6, Zenon
<1> USE DEF Value
<1>8. Nesting[1] = << >>
  BY <1>7
<1>9. ASSUME NEW n \in Nat \ {0} PROVE Nesting[n + 1] = After(Nesting[n], tex.out[n])
  <2>1. n + 1 \in Nat /\ ~(n + 1 <= 1) /\ (n + 1) - 1 = n
    OBVIOUS
  <2> QED
    BY <1>7, <2>1
<1> QED
  BY <1>8, <1>9

\* The lists that stay open for an item are the first ones.
LEMMA StaysOpen ==
    ASSUME NEW stack \in Seq(Environments), NEW item \in Items
    PROVE  \E depth \in 0..Len(stack) :
              /\ StayOpen(stack, item) = SubSeq(stack, 1, depth)
              /\ Len(StayOpen(stack, item)) = depth
              /\ depth <= item.level + 1
              /\ depth = item.level + 1 => stack[depth] = EnvironmentOf(item)
<1>1. item.level \in Nat /\ Len(stack) \in Nat
  BY ItemTypes, LenProperties
<1>2. \A depth \in 0..Len(stack) : Len(SubSeq(stack, 1, depth)) = depth
  BY <1>1, SubSeqProperties
<1>3. CASE Len(stack) < item.level + 1
  <2>1. StayOpen(stack, item) = stack
    BY <1>3 DEF StayOpen
  <2>2. SubSeq(stack, 1, Len(stack)) = stack
    BY SubSeqFull
  <2>3. /\ Len(stack) \in 0..Len(stack) /\ Len(stack) <= item.level + 1
        /\ Len(stack) # item.level + 1
    BY <1>1, <1>3
  <2> QED
    BY <2>1, <2>2, <2>3
<1>4. CASE ~(Len(stack) < item.level + 1) /\ stack[item.level + 1] = EnvironmentOf(item)
  <2>1. StayOpen(stack, item) = SubSeq(stack, 1, item.level + 1)
    BY <1>4 DEF StayOpen
  <2>2. item.level + 1 \in 0..Len(stack)
    BY <1>1, <1>4
  <2> QED
    BY <1>1, <1>2, <1>4, <2>1, <2>2
<1>5. CASE ~(Len(stack) < item.level + 1) /\ stack[item.level + 1] # EnvironmentOf(item)
  <2>1. StayOpen(stack, item) = SubSeq(stack, 1, item.level + 1 - 1)
    BY <1>1, <1>5 DEF StayOpen
  <2>2. item.level + 1 - 1 = item.level /\ item.level \in 0..Len(stack)
    BY <1>1, <1>5
  <2>3. StayOpen(stack, item) = SubSeq(stack, 1, item.level)
    BY <2>1, <2>2
  <2>4. Len(StayOpen(stack, item)) = item.level
    BY <1>2, <2>2, <2>3
  <2>5. item.level <= item.level + 1 /\ item.level # item.level + 1
    BY <1>1
  <2> QED
    BY <2>2, <2>3, <2>4, <2>5
<1> QED
  BY <1>3, <1>4, <1>5

\* A block that is not an item, or a reference, closes all lists.
LEMMA NestedAtEnd ==
    ASSUME NEW out, NEW stack, Nested(out, stack)
    PROVE  Nested(out \o Ends(stack, 0), << >>)
<1>1. stack \in Seq(Environments) /\ Len(stack) \in Nat
  BY LenProperties DEF Nested
<1>2. 0 \in 0..Len(stack) /\ SubSeq(stack, 1, 0) = << >>
  BY <1>1
<1> QED
  BY <1>2, NestedEnds

LEMMA TexOtherNested ==
    ASSUME Nested(tex.out, tex.stack), NEW block \in BlockType, block.kind # "item",
           TexOther(block)
    PROVE  Nested(tex'.out, tex'.stack)
<1> DEFINE out == tex.out \o Ends(tex.stack, 0)
           token == BlockToken(block)
<1>1. Nested(out, << >>)
  BY NestedAtEnd
<1> HIDE DEF out
<1>2. token \in Tokens /\ token.what \in Kinds \ {"item"}
  BY DEF Tokens, BlockToken, BlockType
<1> HIDE DEF token
<1>3. After(<< >>, token) = << >> /\ Placed(token, << >>)
  BY <1>2 DEF After, Placed, Kinds
<1>4. Nested(Append(out, token), After(<< >>, token))
  BY <1>1, <1>2, <1>3, EmptySeq, NestedAppend
<1>5. out \in Seq(Tokens)
  BY <1>1 DEF Nested
<1>6. Append(out, token) = out \o <<token>>
  BY <1>2, <1>5, AppendIsConcat
<1>7. tex'.out = out \o <<token>> /\ tex'.stack = << >>
  BY DEF TexOther, out, token
<1> QED
  BY <1>3, <1>4, <1>6, <1>7

LEMMA TexItemNested ==
    ASSUME Nested(tex.out, tex.stack), NEW block \in BlockType, block.kind = "item",
           ItemAt(block.at) \in Items, TexItem(block)
    PROVE  Nested(tex'.out, tex'.stack)
<1> DEFINE item == ItemAt(block.at)
           open == StayOpen(tex.stack, item)
           missing == item.level + 1 - Len(open)
           env == EnvironmentOf(item)
           closed == tex.out \o Ends(tex.stack, Len(open))
           opened == closed \o Begins(env, missing)
           stack == open \o [n \in 1..missing |-> env]
           token == BlockToken(block)
<1>1. tex'.out = opened \o <<token>> /\ tex'.stack = stack
  BY DEF TexItem
<1>2. tex.stack \in Seq(Environments) /\ item.level \in Nat /\ env \in Environments
  BY ItemTypes DEF Nested, EnvironmentOf, Environments
<1>3. PICK depth \in 0..Len(tex.stack) :
         /\ open = SubSeq(tex.stack, 1, depth)
         /\ Len(open) = depth
         /\ depth <= item.level + 1
         /\ depth = item.level + 1 => tex.stack[depth] = env
  BY <1>2, StaysOpen
<1>4. Nested(closed, open)
  BY <1>3, NestedEnds
<1>5. missing \in Nat /\ depth \in Nat /\ Len(tex.stack) \in Nat
  <2>1. Len(tex.stack) \in Nat
    BY <1>2, LenProperties
  <2> HIDE DEF open, item
  <2> QED
    BY <1>2, <1>3, <2>1
<1> HIDE DEF open, closed
<1>6. Nested(opened, stack)
  <2> HIDE DEF missing, env
  <2> QED
    BY <1>2, <1>4, <1>5, NestedBegins
<1>7. Len(stack) = item.level + 1 /\ stack[Len(stack)] = env
  <2> DEFINE rest == [n \in 1..missing |-> env]
  <2>1. open \in Seq(Environments)
    BY <1>4 DEF Nested
  <2>2. rest \in Seq(Environments) /\ Len(rest) = missing
    <3>1. rest \in [1..missing -> Environments]
      BY <1>2
    <3> HIDE DEF missing
    <3> QED
      BY <1>5, <3>1, Elements
  <2>3. \A n \in 1..missing : rest[n] = env
    OBVIOUS
  <2> HIDE DEF rest, item, env
  <2>4. /\ Len(stack) = Len(open) + Len(rest)
        /\ \A i \in 1..(Len(open) + Len(rest)) :
              stack[i] = IF i <= Len(open) THEN open[i] ELSE rest[i - Len(open)]
    BY <2>1, <2>2, ConcatProperties DEF rest
  <2>5. Len(stack) = item.level + 1
    BY <1>2, <1>3, <1>5, <2>2, <2>4
  <2> HIDE DEF stack
  <2>6. CASE depth = item.level + 1
    <3>1. open[depth] = tex.stack[depth]
      <4>1. 1 \in 1..(Len(tex.stack) + 1) /\ depth \in 1..Len(tex.stack)
        BY <1>2, <1>3, <1>5, <2>6
      <4> QED
        BY <1>2, <1>3, <4>1, SubSeqProperties
    <3>2. stack[depth] = open[depth]
      <4>1. Len(rest) \in Nat /\ Len(open) \in Nat /\ depth \in Nat /\ depth >= 1
        BY <1>2, <1>3, <1>5, <2>2, <2>6
      <4>2. depth \in 1..(Len(open) + Len(rest)) /\ depth <= Len(open)
        BY <1>3, <4>1
      <4>3. stack[depth] = IF depth <= Len(open) THEN open[depth] ELSE rest[depth - Len(open)]
        BY <2>4, <4>2, Zenon
      <4> QED
        BY <4>2, <4>3, Zenon
    <3> QED
      BY <1>3, <2>5, <2>6, <3>1, <3>2
  <2>7. CASE depth # item.level + 1
    <3>1. missing \in 1..missing /\ item.level + 1 - depth = missing
      BY <1>2, <1>3, <1>5, <2>7
    <3>2. stack[item.level + 1] = rest[missing]
      <4> DEFINE last == item.level + 1
      <4>1. last \in 1..(Len(open) + Len(rest)) /\ ~(last <= Len(open))
        BY <1>2, <1>3, <1>5, <2>2, <2>7, <3>1
      <4>2. last - Len(open) = missing
        <5>1. last = Len(open) + missing /\ Len(open) \in Nat
          BY <1>2, <1>3, <1>5, <3>1
        <5> HIDE DEF last, missing
        <5> QED
          BY <1>5, <5>1
      <4> HIDE DEF last, missing
      <4>3. stack[last] = IF last <= Len(open) THEN open[last] ELSE rest[last - Len(open)]
        BY <2>4, <4>1, Zenon
      <4>4. stack[last] = rest[missing]
        BY <4>1, <4>2, <4>3, Zenon
      <4> QED
        BY <4>4 DEF last
    <3> QED
      BY <2>3, <2>5, <3>1, <3>2
  <2> QED
    BY <2>5, <2>6, <2>7
<1> HIDE DEF opened, stack
<1>8. /\ token \in Tokens /\ token.what = "item" /\ token.at = block.at
  BY DEF Tokens, BlockToken, BlockType
<1>9. source[token.at] = item
  BY <1>8 DEF ItemAt
<1> HIDE DEF token, item
<1>10. Placed(token, stack)
  BY <1>7, <1>8, <1>9 DEF Placed, env
<1>11. After(stack, token) = stack
  BY <1>8 DEF After
<1>12. opened \in Seq(Tokens) /\ stack \in Seq(Environments)
  BY <1>6 DEF Nested
<1>13. Nested(Append(opened, token), stack)
  BY <1>6, <1>8, <1>10, <1>11, <1>12, NestedAppend
<1>14. Append(opened, token) = opened \o <<token>>
  BY <1>8, <1>12, AppendIsConcat
<1> QED
  BY <1>1, <1>13, <1>14

LEMMA TexEndNested ==
    ASSUME ParserTypeOK, Nested(tex.out, tex.stack), TexEnd
    PROVE  Nested(tex'.out, tex'.stack)
<1> DEFINE out == tex.out \o Ends(tex.stack, 0)
           refs == article.references
<1>1. refs \in Seq(References)
  BY ArticleFields DEF ParserTypeOK
<1>2. Nested(out, << >>)
  BY NestedAtEnd
<1>3. /\ tex'.stack = << >>
      /\ tex'.out = out \o [n \in 1..Len(refs) |->
                              [what |-> "bibitem", name |-> "", at |-> refs[n].at]]
  BY DEF TexEnd
<1> HIDE DEF out, refs
<1> QED
  BY <1>1, <1>2, <1>3, NestedReferences

ListsFit ==
    /\ tex.next \in Nat \ {0}
    /\ Nested(tex.out, tex.stack)
    /\ TexWritten => tex.stack = << >>

LEMMA EmptyNested == Nested(<< >>, << >>)
<1> DEFINE nest == [n \in 1..1 |-> << >>]
<1>1. nest[1] = << >> /\ Len(<< >>) = 0 /\ 1..0 = {} /\ 0 + 1 = 1
  OBVIOUS
<1> HIDE DEF nest
<1>2. NestedBy(<< >>, << >>, nest)
  BY <1>1 DEF NestedBy
<1> QED
  BY <1>2, EmptySeq DEF Nested

LEMMA WriteTexFits ==
    ASSUME ParserTypeOK, BodyFits(article.body, source), ListsFit, WriteTex,
           UNCHANGED parsing
    PROVE  ListsFit'
<1>1. Len(article.body) \in Nat /\ tex.next \in Nat \ {0} /\ ~(tex.next > Len(article.body) + 1)
  <2>1. article.body \in Seq(BlockType)
    BY ArticleFields DEF ParserTypeOK
  <2> QED
    BY <2>1, LenProperties DEF ListsFit, WriteTex, TexWritten
<1>2. source' = source /\ article' = article
  BY DEF parsing
<1>3. Nested(tex'.out, tex'.stack) => Nested(tex.out, tex.stack)'
  BY <1>2 DEF Nested, NestedBy, Placed
<1>4. CASE tex.next > Len(article.body)
  <2>1. TexEnd
    BY <1>4 DEF WriteTex
  <2>2. Nested(tex'.out, tex'.stack)
    BY <2>1, TexEndNested DEF ListsFit
  <2>3. tex'.next = tex.next + 1 /\ tex'.stack = << >>
    BY <2>1 DEF TexEnd
  <2> QED
    BY <1>1, <1>3, <2>2, <2>3 DEF ListsFit
<1>5. CASE ~(tex.next > Len(article.body))
  <2> DEFINE block == article.body[tex.next]
  <2>1. IF block.kind = "item" THEN TexItem(block) ELSE TexOther(block)
    BY <1>5 DEF WriteTex
  <2>2. tex'.next = tex.next + 1
    <3> HIDE DEF block
    <3>1. TexItem(block) => tex'.next = tex.next + 1
      BY DEF TexItem
    <3>2. TexOther(block) => tex'.next = tex.next + 1
      BY DEF TexOther
    <3> QED
      BY <2>1, <3>1, <3>2
  <2>3. ~TexWritten'
    BY <1>1, <1>2, <1>5, <2>2 DEF TexWritten
  <2>4. tex.next \in 1..Len(article.body)
    BY <1>1, <1>5 DEF ListsFit
  <2>5. block \in BlockType /\ ItemAt(block.at) \in Items
    <3>1. article.body \in Seq(BlockType) /\ source \in Seq(Items)
      BY ArticleFields DEF ParserTypeOK
    <3>2. block.at \in 1..Len(source)
      BY <2>4 DEF BodyFits
    <3> QED
      BY <2>4, <3>1, <3>2, ElementOfSeq DEF ItemAt
  <2> HIDE DEF block
  <2>6. Nested(tex'.out, tex'.stack)
    BY <2>1, <2>5, TexItemNested, TexOtherNested DEF ListsFit
  <2> QED
    BY <1>1, <1>3, <2>2, <2>3, <2>6 DEF ListsFit
<1> QED
  BY <1>4, <1>5

LEMMA ListsStep == Conforms /\ ListsFit /\ [Next]_vars => ListsFit'
<1> SUFFICES ASSUME Conforms, ListsFit, [Next]_vars PROVE ListsFit'
  OBVIOUS
<1>1. ParserTypeOK /\ BodyFits(article.body, source) /\ StagesFit
  BY DEF Conforms
<1>2. CASE UNCHANGED <<parsing, tex>>
  BY <1>2 DEF parsing, ListsFit, TexWritten, Nested, NestedBy, Placed
<1>3. CASE ReadItem \/ FinishParsing
  <2>1. tex' = tex /\ run.stage = "parse_source"
    BY <1>3 DEF ReadItem, FinishParsing, At, rendering
  <2>2. tex'.next = 1 /\ tex'.stack = << >> /\ tex'.out = << >>
    BY <1>1, <2>1 DEF StagesFit, RenderersInit
  <2>3. Nested(<< >>, << >>)'
    <3>1. Nested(<< >>, << >>)
      BY EmptyNested
    <3>2. Len(<< >>) = 0 /\ 1..0 = {}
      OBVIOUS
    <3> QED
      BY <3>1, <3>2 DEF Nested, NestedBy
  <2> QED
    BY <2>2, <2>3 DEF ListsFit
<1>4. CASE RenderBlock
  <2>1. UNCHANGED parsing /\ (UNCHANGED tex \/ WriteTex)
    BY <1>4 DEF RenderBlock, WriteDocx
  <2> QED
    BY <1>1, <1>2, <2>1, WriteTexFits
<1> QED
  BY <1>2, <1>3, <1>4
     DEF vars, Next, AnalyzeSource, AnalyzeTemplate, FinishRendering,
         CompilePdf, Validate, Fail, End, parsing, rendering

LEMMA ListsInit == Init => ListsFit
<1> SUFFICES ASSUME Init PROVE ListsFit
  OBVIOUS
<1>1. tex.next = 1 /\ tex.stack = << >> /\ tex.out = << >>
  BY DEF Init, RenderersInit
<1> QED
  BY <1>1, EmptyNested DEF ListsFit

LEMMA NestingFits == ListsFit => ItemsAreInTheirLists
<1> SUFFICES ASSUME ListsFit PROVE ItemsAreInTheirLists
  OBVIOUS
<1> DEFINE out == tex.out
<1>1. PICK nest : NestedBy(out, tex.stack, nest)
  BY DEF ListsFit, Nested
<1>2. Len(out) \in Nat
  BY LenProperties DEF ListsFit, Nested
<1> DEFINE T == {n \in Nat : n <= Len(out) => Nesting[n + 1] = nest[n + 1]}
<1>3. 0 \in T
  BY <1>1, NestingUnfolds DEF NestedBy
<1>4. ASSUME NEW n \in T PROVE n + 1 \in T
  <2> SUFFICES ASSUME n + 1 <= Len(out) PROVE Nesting[(n + 1) + 1] = nest[(n + 1) + 1]
    OBVIOUS
  <2>1. n + 1 \in 1..Len(out) /\ n + 1 \in Nat \ {0} /\ Nesting[n + 1] = nest[n + 1]
    BY <1>2
  <2>2. nest[(n + 1) + 1] = After(nest[n + 1], out[n + 1])
    BY <1>1, <2>1 DEF NestedBy
  <2>3. Nesting[(n + 1) + 1] = After(Nesting[n + 1], out[n + 1])
    BY <2>1, NestingUnfolds
  <2> QED
    BY <2>1, <2>2, <2>3
<1>5. T = Nat
  <2>1. T \in SUBSET Nat
    OBVIOUS
  <2> HIDE DEF T
  <2> QED
    BY <1>3, <1>4, <2>1, NatsByInduction
<1>6. \A n \in 0..Len(out) : Nesting[n + 1] = nest[n + 1]
  BY <1>2, <1>5
<1>7. ASSUME NEW n \in 1..Len(out) PROVE Placed(out[n], Nesting[n])
  <2>1. n - 1 \in 0..Len(out) /\ (n - 1) + 1 = n
    BY <1>2
  <2>2. Nesting[n] = nest[n]
    BY <1>6, <2>1
  <2> QED
    BY <1>1, <2>2 DEF NestedBy
<1>8. TexWritten => Nesting[Len(out) + 1] = << >>
  <2>1. Nesting[Len(out) + 1] = tex.stack
    BY <1>1, <1>2, <1>6 DEF NestedBy
  <2> QED
    BY <2>1 DEF ListsFit
<1> QED
  BY <1>7, <1>8 DEF ItemsAreInTheirLists, Placed

\* Each list of the LaTeX source is closed, and each item is in its own list.
\* (latex_renderer: list_stack.)
THEOREM ListsAreNested == Spec => []ItemsAreInTheirLists
<1>1. Spec => [](Conforms /\ ListsFit)
  BY InitConforms, ConformsStep, ListsInit, ListsStep, PTL DEF Spec
<1> QED
  BY <1>1, NestingFits, PTL

-----------------------------------------------------------------------------
(* Captions *)

LEMMA LookedIs ==
    ASSUME NEW body \in Seq(BlockType)
    PROVE  \/ /\ Looked(body) = 0
              /\ \A i \in 1..Len(body) : body[i].kind = "equation"
           \/ /\ Looked(body) \in 1..Len(body)
              /\ body[Looked(body)].kind # "equation"
              /\ \A i \in 1..Len(body) : i > Looked(body) => body[i].kind = "equation"
<1> DEFINE others == {n \in 1..Len(body) : body[n].kind # "equation"}
           last == CHOOSE n \in others : \A m \in others : m <= n
<1>1. Len(body) \in Nat
  BY LenProperties
<1>2. CASE others = {}
  <2>1. Looked(body) = 0
    BY <1>2 DEF Looked
  <2> QED
    BY <1>2, <2>1
<1>3. CASE others # {}
  <2>1. Looked(body) = last
    BY <1>3 DEF Looked
  <2>2. others \in SUBSET Nat /\ \A i \in others : i <= Len(body)
    BY <1>1
  <2>3. \E n \in others : \A m \in others : m <= n
    <3> HIDE DEF others
    <3> QED
      BY <1>1, <1>3, <2>2, NatMax
  <2>4. last \in others /\ \A m \in others : m <= last
    BY <2>3
  <2> HIDE DEF last
  <2>5. \A i \in 1..Len(body) : i > last => i \notin others
    BY <1>1, <2>2, <2>4
  <2> QED
    BY <2>1, <2>4, <2>5
<1> QED
  BY <1>2, <1>3

\* The block that a caption looks at is known by this.
LEMMA LookedUnique ==
    ASSUME NEW body \in Seq(BlockType), NEW n \in 1..Len(body), body[n].kind # "equation",
           \A i \in 1..Len(body) : i > n => body[i].kind = "equation"
    PROVE  Looked(body) = n
<1>1. Len(body) \in Nat /\ n \in Nat
  BY LenProperties
<1>2. Looked(body) \in 1..Len(body)
  BY LookedIs
<1>3. /\ body[Looked(body)].kind # "equation"
      /\ \A i \in 1..Len(body) : i > Looked(body) => body[i].kind = "equation"
  <2>1. ~(\A i \in 1..Len(body) : body[i].kind = "equation")
    OBVIOUS
  <2> QED
    BY <2>1, LookedIs
<1>4. ~(n > Looked(body)) /\ ~(Looked(body) > n)
  BY <1>2, <1>3
<1> DEFINE k == Looked(body)
<1>5. k \in Nat /\ ~(n > k) /\ ~(k > n)
  BY <1>1, <1>2, <1>4
<1> HIDE DEF k
<1>6. k = n
  BY <1>1, <1>5
<1> QED
  BY <1>6 DEF k

\* The blocks new are added to those of old.
Grown(grown, old, new) ==
    /\ old \in Seq(BlockType) /\ new \in Seq(BlockType) /\ grown \in Seq(BlockType)
    /\ Len(old) \in Nat /\ Len(new) \in Nat /\ Len(grown) = Len(old) + Len(new)
    /\ \A i \in 1..Len(old) : i \in 1..Len(grown) /\ grown[i] = old[i]
    /\ \A i \in 1..Len(new) :
          Len(old) + i \in 1..Len(grown) /\ grown[Len(old) + i] = new[i]
    /\ \A i \in 1..Len(grown) : i \in 1..Len(old)
          \/ (i > Len(old) /\ \E j \in 1..Len(new) : i = Len(old) + j)

LEMMA ConcatGrown ==
    ASSUME NEW old \in Seq(BlockType), NEW new \in Seq(BlockType)
    PROVE  Grown(old \o new, old, new)
<1> DEFINE grown == old \o new
<1>1. /\ grown \in Seq(BlockType) /\ Len(old) \in Nat /\ Len(new) \in Nat
      /\ Len(grown) = Len(old) + Len(new)
      /\ \A i \in 1..(Len(old) + Len(new)) :
            grown[i] = IF i <= Len(old) THEN old[i] ELSE new[i - Len(old)]
  BY ConcatProperties, LenProperties
<1> HIDE DEF grown
<1>2. ASSUME NEW i \in 1..Len(old) PROVE i \in 1..Len(grown) /\ grown[i] = old[i]
  BY <1>1
<1>3. ASSUME NEW i \in 1..Len(new)
      PROVE  Len(old) + i \in 1..Len(grown) /\ grown[Len(old) + i] = new[i]
  <2> DEFINE k == Len(old) + i
  <2>1. k \in 1..(Len(old) + Len(new)) /\ ~(k <= Len(old)) /\ k - Len(old) = i
    BY <1>1
  <2> HIDE DEF k
  <2>2. grown[k] = new[i]
    BY <1>1, <2>1
  <2> QED
    BY <1>1, <2>1, <2>2 DEF k
<1>4. ASSUME NEW i \in 1..Len(grown)
      PROVE  i \in 1..Len(old) \/ (i > Len(old) /\ \E j \in 1..Len(new) : i = Len(old) + j)
  <2>1. CASE i <= Len(old)
    BY <1>1, <2>1
  <2>2. CASE i > Len(old)
    <3>1. i - Len(old) \in 1..Len(new) /\ i = Len(old) + (i - Len(old))
      BY <1>1, <2>2
    <3> QED
      BY <2>2, <3>1
  <2> QED
    BY <1>1, <2>1, <2>2
<1> QED
  BY <1>1, <1>2, <1>3, <1>4 DEF Grown, grown

LEMMA NoCaptions ==
    ASSUME NEW old, NEW new, NEW grown, Grown(grown, old, new),
           \A i \in 1..Len(old) : old[i].caption = 0,
           \A i \in 1..Len(new) : new[i].caption = 0
    PROVE  \A i \in 1..Len(grown) : grown[i].caption = 0
<1> SUFFICES ASSUME NEW i \in 1..Len(grown) PROVE grown[i].caption = 0
  OBVIOUS
<1>1. CASE i \in 1..Len(old)
  BY <1>1 DEF Grown
<1>2. CASE i \notin 1..Len(old)
  <2>1. PICK j \in 1..Len(new) : i = Len(old) + j
    BY <1>2 DEF Grown
  <2>2. grown[Len(old) + j] = new[j]
    BY DEF Grown
  <2> QED
    BY <2>1, <2>2
<1> QED
  BY <1>1, <1>2

\* New formulas, sections, paragraphs and items attract no caption.
LEMMA NothingAttached ==
    ASSUME NEW old, NEW new, NEW grown, Grown(grown, old, new), ~Attaches(old),
           \A i \in 1..Len(new) : new[i].kind \notin {"figure", "table"}
    PROVE  ~Attaches(grown)
<1> SUFFICES ASSUME Attaches(grown) PROVE FALSE
  OBVIOUS
<1> DEFINE k == Looked(grown)
<1>1. /\ k # 0 /\ grown[k].kind \in {"figure", "table"} /\ grown[k].caption = 0
  BY DEF Attaches
<1>2. /\ k \in 1..Len(grown) /\ grown[k].kind # "equation"
      /\ \A i \in 1..Len(grown) : i > k => grown[i].kind = "equation"
  BY <1>1, LookedIs DEF Grown
<1> HIDE DEF k
<1>3. k \in 1..Len(old)
  <2>1. ASSUME NEW j \in 1..Len(new), k = Len(old) + j PROVE FALSE
    BY <1>1, <2>1 DEF Grown
  <2> QED
    BY <1>2, <2>1 DEF Grown
<1>4. old[k] = grown[k] /\ old[k].kind # "equation"
  BY <1>2, <1>3 DEF Grown
<1>5. ASSUME NEW i \in 1..Len(old), i > k PROVE old[i].kind = "equation"
  BY <1>2, <1>5 DEF Grown
<1>6. Looked(old) = k
  BY <1>3, <1>4, <1>5, LookedUnique DEF Grown
<1> QED
  BY <1>1, <1>4, <1>6 DEF Attaches

\* A figure or table as the last block.
LEMMA LastLooked ==
    ASSUME NEW old, NEW new, NEW grown, Grown(grown, old, new), Len(new) > 0,
           new[Len(new)].kind \in {"figure", "table"}
    PROVE  /\ Looked(grown) = Len(grown) /\ Len(grown) \in 1..Len(grown)
           /\ grown[Len(grown)] = new[Len(new)]
<1>1. Len(new) \in 1..Len(new) /\ Len(grown) \in 1..Len(grown)
  BY DEF Grown
<1>2. grown[Len(grown)] = new[Len(new)]
  BY <1>1 DEF Grown
<1>3. \A i \in 1..Len(grown) : ~(i > Len(grown))
  BY DEF Grown
<1> QED
  BY <1>1, <1>2, <1>3, LookedUnique DEF Grown

\* The blocks of a paragraph, without captions; a picture comes last.
Quiet(new, item) ==
    /\ BlocksOf(new, Here, item)
    /\ \A i \in 1..Len(new) : new[i].caption = 0
QuietGrows(body, item) ==
    \E new : body = article.body \o new /\ Quiet(new, item)

LEMMA QuietObjects ==
    ASSUME ParserTypeOK, NEW item \in Items, item.kind = "paragraph",
           NEW first \in Seq(BlockType),
           \A i \in 1..Len(first) :
              /\ first[i].at = Here /\ first[i].kind \in {"section", "paragraph", "item"}
              /\ first[i].caption = 0
    PROVE  /\ Quiet(first \o Objects(Here, item, 0), item)
           /\ item.pics > 0 =>
                LET new == first \o Objects(Here, item, 0)
                IN  Len(new) > 0 /\ new[Len(new)].kind = "figure"
           /\ article.body \o first \o Objects(Here, item, 0)
                = article.body \o (first \o Objects(Here, item, 0))
<1> DEFINE eqs == Equations(Here, item)
           figs == Figures(Here, item, 0)
           own == Objects(Here, item, 0)
           new == first \o own
           body == article.body
<1>1. Here \in Nat /\ item.pics \in Nat /\ item.eqs \in Nat /\ body \in Seq(BlockType)
  BY LenProperties, ItemTypes, ArticleFields DEF Here, ParserTypeOK
<1>2. /\ figs \in Seq(BlockType) /\ Len(figs) = item.pics
      /\ eqs \in Seq(BlockType) /\ Len(eqs) = item.eqs
  BY <1>1, ObjectBlocks
<1>3. /\ \A i \in 1..item.pics : figs[i].kind = "figure" /\ figs[i].caption = 0
      /\ \A i \in 1..item.eqs : eqs[i].caption = 0
  BY <1>1 DEF Figures, Equations, Block
<1>4. own = eqs \o figs
  BY DEF Objects
<1>5. BlocksOf(new, Here, item)
  BY <1>1, ParagraphBlocks
<1> HIDE DEF eqs, figs, own
<1>6. Grown(own, eqs, figs)
  BY <1>2, <1>4, ConcatGrown
<1>7. Grown(new, first, own)
  BY <1>6, ConcatGrown DEF Grown
<1> HIDE DEF new
<1>8. \A i \in 1..Len(own) : own[i].caption = 0
  BY <1>2, <1>3, <1>6, NoCaptions
<1>9. \A i \in 1..Len(new) : new[i].caption = 0
  BY <1>7, <1>8, NoCaptions
<1>10. ASSUME item.pics > 0 PROVE Len(new) > 0 /\ new[Len(new)].kind = "figure"
  <2>1. Len(figs) > 0 /\ figs[Len(figs)].kind = "figure"
    BY <1>1, <1>2, <1>3, <1>10
  <2>2. own[Len(own)] = figs[Len(figs)] /\ Len(own) > 0
    BY <1>6, <2>1, LastLooked DEF Grown
  <2>3. new[Len(new)] = own[Len(own)] /\ Len(new) > 0
    BY <1>7, <2>1, <2>2, LastLooked DEF Grown
  <2> QED
    BY <2>1, <2>2, <2>3
<1>11. body \o first \o own = body \o new
  <2>1. own \in Seq(BlockType)
    BY <1>6 DEF Grown
  <2> HIDE DEF body
  <2>2. (body \o first) \o own = body \o (first \o own)
    BY <1>1, <2>1, ConcatAssociative
  <2> QED
    BY <2>2 DEF new
<1> QED
  BY <1>5, <1>9, <1>10, <1>11 DEF Quiet, new, own, body

LEMMA QuietSame ==
    ASSUME ParserTypeOK, NEW item \in Items, item.kind = "paragraph"
    PROVE  QuietGrows(article.body, item)
<1>1. article.body \in Seq(BlockType)
  BY ArticleFields DEF ParserTypeOK
<1>2. article.body = article.body \o << >>
  BY <1>1, ConcatEmptySeq
<1>3. Len(<< >>) = 0 /\ 1..0 = {}
  OBVIOUS
<1>4. Quiet(<< >>, item)
  BY <1>3, EmptySeq DEF Quiet, BlocksOf
<1> QED
  BY <1>2, <1>4 DEF QuietGrows

LEMMA QuietFirst ==
    ASSUME ParserTypeOK, NEW item \in Items, item.kind = "paragraph",
           NEW kind \in {"section", "paragraph", "item"}
    PROVE  QuietGrows(article.body \o <<Block(kind, Here)>> \o Objects(Here, item, 0), item)
<1> DEFINE first == <<Block(kind, Here)>>
<1>1. Here \in Nat
  BY LenProperties DEF Here, ParserTypeOK
<1>2. /\ Block(kind, Here) \in BlockType /\ Block(kind, Here).at = Here
      /\ Block(kind, Here).kind = kind /\ Block(kind, Here).caption = 0
  BY <1>1 DEF Block, BlockType, Kinds
<1>3. /\ first \in Seq(BlockType) /\ Len(first) = 1 /\ first[1] = Block(kind, Here)
  BY <1>2
<1> HIDE DEF first
<1>4. \A i \in 1..Len(first) :
         /\ first[i].at = Here /\ first[i].kind \in {"section", "paragraph", "item"}
         /\ first[i].caption = 0
  BY <1>2, <1>3
<1> QED
  BY <1>3, <1>4, QuietObjects DEF QuietGrows, first

LEMMA QuietNoFirst ==
    ASSUME ParserTypeOK, NEW item \in Items, item.kind = "paragraph"
    PROVE  /\ QuietGrows(article.body \o << >> \o Objects(Here, item, 0), item)
           /\ QuietGrows(article.body \o Objects(Here, item, 0), item)
<1>1. Len(<< >>) = 0 /\ 1..0 = {} /\ << >> \in Seq(BlockType)
  BY EmptySeq
<1>2. QuietGrows(article.body \o << >> \o Objects(Here, item, 0), item)
  BY <1>1, QuietObjects DEF QuietGrows
<1>3. article.body \o << >> = article.body
  BY ArticleFields, ConcatEmptySeq DEF ParserTypeOK
<1> QED
  BY <1>2, <1>3

\* What happens to the captions while none is waiting.
ReadsQuietly(item) ==
    /\ item.kind = "paragraph"
    /\ Branch(item) # "caption"
    /\ caption' = 0
    /\ QuietGrows(article'.body, item)
    /\ Branch(item) \in {"paragraph", "empty"} => BodyParagraph(item)

LEMMA ReadQuiet ==
    ASSUME ParserTypeOK, NEW item \in Items, Read(item), caption = 0
    PROVE  \/ TableItem(item)
           \/ Caption(item) /\ item.kind = "paragraph" /\ Branch(item) = "caption"
           \/ ReadsQuietly(item)
<1>1. article \in ArticleType /\ CaptionTaken(item) = 0 /\ CaptionLeft(item) = 0
  BY DEF ParserTypeOK, CaptionTaken, CaptionLeft
<1>2. \A branches : Paragraph(item, branches) =>
         item.kind = "paragraph" /\ Branch(item) \in branches
  BY DEF Paragraph
<1>3. Passed(item) => caption' = 0
  BY <1>1 DEF Passed
<1> DEFINE bare == BodyWith(<< >>, item)
<1>4. item.kind = "paragraph" =>
         /\ QuietGrows(bare, item)
         /\ QuietGrows(article.body \o Objects(Here, item, 0), item)
         /\ QuietGrows(article.body, item)
  BY <1>1, QuietNoFirst, QuietSame DEF BodyWith
<1>5. item.kind = "paragraph" => \A kind \in {"section", "paragraph", "item"} :
         QuietGrows(BodyWith(<<Block(kind, Here)>>, item), item)
  BY <1>1, QuietFirst DEF BodyWith
<1>6. CASE Caption(item)
  <2>1. item.kind = "paragraph" /\ Branch(item) \in {"caption"}
    BY <1>2, <1>6 DEF Caption
  <2> QED
    BY <1>6, <2>1
<1>7. CASE Continuation(item)
  <2>1. item.kind = "paragraph" /\ Branch(item) \in {"continuation"}
    BY <1>2, <1>7 DEF Continuation
  <2> DEFINE body == article.body \o Objects(Here, item, 0)
  <2>2. article'.body = body
    BY <1>1, <1>7 DEF Continuation, ArticleType
  <2>3. caption' = 0
    BY <1>1, <1>3, <1>7 DEF Continuation
  <2>4. QuietGrows(body, item)
    BY <1>4, <2>1
  <2> HIDE DEF body
  <2> QED
    BY <2>1, <2>2, <2>3, <2>4 DEF ReadsQuietly
<1>8. CASE Title(item)
  <2>1. item.kind = "paragraph" /\ Branch(item) \in {"title"}
    BY <1>2, <1>8 DEF Title
  <2> DEFINE body == bare
  <2>2. article'.body = body
    BY <1>1, <1>8 DEF Title, ArticleType
  <2>3. caption' = 0
    BY <1>1, <1>3, <1>8 DEF Title
  <2>4. QuietGrows(body, item)
    BY <1>4, <2>1
  <2> HIDE DEF body
  <2> QED
    BY <2>1, <2>2, <2>3, <2>4 DEF ReadsQuietly
<1>9. CASE Subtitle(item)
  <2>1. item.kind = "paragraph" /\ Branch(item) \in {"subtitle"}
    BY <1>2, <1>9 DEF Subtitle
  <2> DEFINE body == bare
  <2>2. article'.body = body
    BY <1>1, <1>9 DEF Subtitle, ArticleType
  <2>3. caption' = 0
    BY <1>1, <1>3, <1>9 DEF Subtitle
  <2>4. QuietGrows(body, item)
    BY <1>4, <2>1
  <2> HIDE DEF body
  <2> QED
    BY <2>1, <2>2, <2>3, <2>4 DEF ReadsQuietly
<1>10. CASE AuthorLine(item)
  <2>1. item.kind = "paragraph" /\ Branch(item) \in {"author"}
    BY <1>2, <1>10 DEF AuthorLine
  <2> DEFINE body == bare
  <2>2. article'.body = body
    BY <1>1, <1>10 DEF AuthorLine, ArticleType
  <2>3. caption' = 0
    BY <1>1, <1>3, <1>10 DEF AuthorLine
  <2>4. QuietGrows(body, item)
    BY <1>4, <2>1
  <2> HIDE DEF body
  <2> QED
    BY <2>1, <2>2, <2>3, <2>4 DEF ReadsQuietly
<1>11. CASE AffiliationLine(item)
  <2>1. item.kind = "paragraph" /\ Branch(item) \in {"affiliation"}
    BY <1>2, <1>11 DEF AffiliationLine
  <2> DEFINE body == bare
  <2>2. article'.body = body
    BY <1>1, <1>11 DEF AffiliationLine, ArticleType
  <2>3. caption' = 0
    BY <1>1, <1>3, <1>11 DEF AffiliationLine
  <2>4. QuietGrows(body, item)
    BY <1>4, <2>1
  <2> HIDE DEF body
  <2> QED
    BY <2>1, <2>2, <2>3, <2>4 DEF ReadsQuietly
<1>12. CASE Abstract(item)
  <2>1. item.kind = "paragraph" /\ Branch(item) \in {"abstract", "abstract_heading"}
    BY <1>2, <1>12 DEF Abstract
  <2> DEFINE body == bare
  <2>2. article'.body = body
    BY <1>1, <1>12 DEF Abstract, ArticleType
  <2>3. caption' = 0
    BY <1>1, <1>3, <1>12 DEF Abstract
  <2>4. QuietGrows(body, item)
    BY <1>4, <2>1
  <2> HIDE DEF body
  <2> QED
    BY <2>1, <2>2, <2>3, <2>4 DEF ReadsQuietly
<1>13. CASE Keywords(item)
  <2>1. item.kind = "paragraph" /\ Branch(item) \in {"keywords"}
    BY <1>2, <1>13 DEF Keywords
  <2> DEFINE body == bare
  <2>2. article'.body = body
    BY <1>1, <1>13 DEF Keywords, ArticleType
  <2>3. caption' = 0
    BY <1>1, <1>3, <1>13 DEF Keywords
  <2>4. QuietGrows(body, item)
    BY <1>4, <2>1
  <2> HIDE DEF body
  <2> QED
    BY <2>1, <2>2, <2>3, <2>4 DEF ReadsQuietly
<1>14. CASE EditorialLine(item)
  <2>1. item.kind = "paragraph" /\ Branch(item) \in {"editorial_metadata"}
    BY <1>2, <1>14 DEF EditorialLine
  <2> DEFINE body == bare
  <2>2. article'.body = body
    BY <1>1, <1>14 DEF EditorialLine, ArticleType
  <2>3. caption' = 0
    BY <1>1, <1>3, <1>14 DEF EditorialLine
  <2>4. QuietGrows(body, item)
    BY <1>4, <2>1
  <2> HIDE DEF body
  <2> QED
    BY <2>1, <2>2, <2>3, <2>4 DEF ReadsQuietly
<1>15. CASE Identifier(item)
  <2>1. item.kind = "paragraph" /\ Branch(item) \in {"udc", "doi"}
    BY <1>2, <1>15 DEF Identifier
  <2> DEFINE body == article.body
  <2>2. article'.body = body
    BY <1>1, <1>15 DEF Identifier, ArticleType
  <2>3. caption' = 0
    BY <1>1, <1>3, <1>15 DEF Identifier
  <2>4. QuietGrows(body, item)
    BY <1>4, <2>1
  <2> HIDE DEF body
  <2> QED
    BY <2>1, <2>2, <2>3, <2>4 DEF ReadsQuietly
<1>16. CASE SecondaryTitle(item)
  <2>1. item.kind = "paragraph" /\ Branch(item) \in {"secondary_title"}
    BY <1>2, <1>16 DEF SecondaryTitle
  <2> DEFINE body == article.body
  <2>2. article'.body = body
    BY <1>1, <1>16 DEF SecondaryTitle, ArticleType
  <2>3. caption' = 0
    BY <1>1, <1>3, <1>16 DEF SecondaryTitle
  <2>4. QuietGrows(body, item)
    BY <1>4, <2>1
  <2> HIDE DEF body
  <2> QED
    BY <2>1, <2>2, <2>3, <2>4 DEF ReadsQuietly
<1>17. CASE SecondaryAuthors(item)
  <2>1. item.kind = "paragraph" /\ Branch(item) \in {"secondary_authors"}
    BY <1>2, <1>17 DEF SecondaryAuthors
  <2> DEFINE body == article.body
  <2>2. article'.body = body
    BY <1>1, <1>17 DEF SecondaryAuthors, ArticleType
  <2>3. caption' = 0
    BY <1>1, <1>3, <1>17 DEF SecondaryAuthors
  <2>4. QuietGrows(body, item)
    BY <1>4, <2>1
  <2> HIDE DEF body
  <2> QED
    BY <2>1, <2>2, <2>3, <2>4 DEF ReadsQuietly
<1>18. CASE ReferencesHeading(item)
  <2>1. item.kind = "paragraph" /\ Branch(item) \in {"references_heading"}
    BY <1>2, <1>18 DEF ReferencesHeading
  <2> DEFINE body == article.body
  <2>2. article'.body = body
    BY <1>1, <1>18 DEF ReferencesHeading, ArticleType
  <2>3. caption' = 0
    BY <1>1, <1>3, <1>18 DEF ReferencesHeading
  <2>4. QuietGrows(body, item)
    BY <1>4, <2>1
  <2> HIDE DEF body
  <2> QED
    BY <2>1, <2>2, <2>3, <2>4 DEF ReadsQuietly
<1>19. CASE ReferenceEntry(item)
  <2>1. item.kind = "paragraph" /\ Branch(item) \in {"reference"}
    BY <1>2, <1>19 DEF ReferenceEntry
  <2> DEFINE body == article.body
  <2>2. article'.body = body
    BY <1>1, <1>19 DEF ReferenceEntry, ArticleType
  <2>3. caption' = 0
    BY <1>1, <1>3, <1>19 DEF ReferenceEntry
  <2>4. QuietGrows(body, item)
    BY <1>4, <2>1
  <2> HIDE DEF body
  <2> QED
    BY <2>1, <2>2, <2>3, <2>4 DEF ReadsQuietly
<1>20. CASE Section(item)
  <2>1. item.kind = "paragraph" /\ Branch(item) \in {"section"}
    BY <1>2, <1>20 DEF Section
  <2> DEFINE body == BodyWith(IF item.text = NoText THEN << >> ELSE <<Block("section", Here)>>, item)
  <2>2. article'.body = body
    BY <1>1, <1>20 DEF Section, ArticleType
  <2>3. caption' = 0
    BY <1>1, <1>3, <1>20 DEF Section
  <2>4. QuietGrows(BodyWith(<<Block("section", Here)>>, item), item)
    BY <1>5, <2>1
  <2>5. QuietGrows(body, item)
    BY <1>4, <2>1, <2>4
  <2> HIDE DEF body
  <2> QED
    BY <1>20, <2>1, <2>2, <2>3, <2>5 DEF ReadsQuietly
<1>21. CASE ListItem(item)
  <2>1. item.kind = "paragraph" /\ Branch(item) \in {"item"}
    BY <1>2, <1>21 DEF ListItem
  <2> DEFINE body == BodyWith(<<Block("item", Here)>>, item)
  <2>2. article'.body = body
    BY <1>1, <1>21 DEF ListItem, ArticleType
  <2>3. caption' = 0
    BY <1>1, <1>3, <1>21 DEF ListItem
  <2>4. QuietGrows(BodyWith(<<Block("item", Here)>>, item), item)
    BY <1>5, <2>1
  <2>5. QuietGrows(body, item)
    BY <1>4, <2>1, <2>4
  <2> HIDE DEF body
  <2> QED
    BY <1>21, <2>1, <2>2, <2>3, <2>5 DEF ReadsQuietly
<1>22. CASE BodyParagraph(item)
  <2>1. item.kind = "paragraph" /\ Branch(item) \in {"paragraph", "empty"}
    BY <1>2, <1>22 DEF BodyParagraph
  <2> DEFINE body == BodyWith(IF Branch(item) = "empty" THEN << >> ELSE <<Block("paragraph", Here)>>, item)
  <2>2. article'.body = body
    BY <1>1, <1>22 DEF BodyParagraph, ArticleType
  <2>3. caption' = 0
    BY <1>1, <1>3, <1>22 DEF BodyParagraph
  <2>4. QuietGrows(BodyWith(<<Block("paragraph", Here)>>, item), item)
    BY <1>5, <2>1
  <2>5. QuietGrows(body, item)
    BY <1>4, <2>1, <2>4
  <2> HIDE DEF body
  <2> QED
    BY <1>22, <2>1, <2>2, <2>3, <2>5 DEF ReadsQuietly
<1> QED
  BY <1>6, <1>7, <1>8, <1>9, <1>10, <1>11, <1>12, <1>13, <1>14, <1>15, <1>16, <1>17, <1>18, <1>19, <1>20, <1>21, <1>22 DEF Read

LEMMA ReadMode ==
    ASSUME ParserTypeOK, NEW item \in Items, Read(item), ~mode.references, ~mode.secondary,
           item.role # "references_heading"
    PROVE  ~mode'.references /\ ~mode'.secondary
<1>1. mode \in Modes
  BY DEF ParserTypeOK, Modes
<1>2. Passed(item) => ~mode'.references /\ ~mode'.secondary
  BY <1>1 DEF Passed, Modes
<1>3. Branch(item) # "secondary_title" /\ Branch(item) # "references_heading"
  BY DEF Branch, MetadataRoles
<1>4. \A branches : Paragraph(item, branches) => Branch(item) \in branches
  BY DEF Paragraph
<1>5. ~SecondaryTitle(item) /\ ~ReferencesHeading(item)
  BY <1>3, <1>4 DEF SecondaryTitle, ReferencesHeading
<1>6. CASE Continuation(item)
  BY <1>1, <1>6 DEF Continuation, Modes, Plain
<1>7. CASE EditorialLine(item)
  BY <1>1, <1>7 DEF EditorialLine, Modes, Plain
<1>8. CASE Section(item)
  BY <1>1, <1>8 DEF Section, Modes, Plain
<1>9. CASE Caption(item)
  BY <1>1, <1>9 DEF Caption, Modes, Plain
<1>10. CASE TableItem(item)
  BY <1>1, <1>10 DEF TableItem, Modes, Plain
<1>11. CASE \/ Title(item) \/ Subtitle(item) \/ AuthorLine(item) \/ AffiliationLine(item)
         \/ Abstract(item) \/ Keywords(item) \/ Identifier(item)
         \/ SecondaryAuthors(item) \/ ReferenceEntry(item) \/ ListItem(item)
         \/ BodyParagraph(item)
  <2>1. Passed(item)
    BY <1>11 DEF Title, Subtitle, AuthorLine, AffiliationLine, Abstract, Keywords, Identifier, SecondaryAuthors, ReferenceEntry, ListItem, BodyParagraph
  <2> QED
    BY <1>2, <2>1
<1> QED
  BY <1>5, <1>6, <1>7, <1>8, <1>9, <1>10, <1>11 DEF Read

\* What the items of a document are to its captions.
PictureItem(item) ==
    /\ item.pics > 0
    /\ item.kind = "table" \/ (item.role = "paragraph" /\ item.text = NoText /\ item.pics = 1)
TableOf(item) == item.kind = "table" /\ ~IsLayout(item)
CaptionItem(item) ==
    /\ item.kind = "paragraph" /\ item.form = "caption" /\ item.pics = 0
    /\ item.role \in CaptionRoles \cup {"paragraph", "list_item"}

\* The beginning of a document that may become well captioned.
SoFar(items) ==
    \A n \in 1..Len(items) :
        /\ items[n].role # "references_heading"
        /\ items[n].role \in CaptionRoles => items[n].form = "caption"
        /\ items[n].pics > 0 => PictureItem(items[n])
        /\ items[n].pics > 0 /\ n < Len(items) => CaptionItem(items[n + 1])
        /\ TableOf(items[n]) => n > 1 /\ CaptionItem(items[n - 1])
        /\ CaptionItem(items[n]) /\ n < Len(items) =>
              (n > 1 /\ PictureItem(items[n - 1])) # TableOf(items[n + 1])

\* The blocks of item n have the caption c and no other.
HasOwn(body, n, c) ==
    /\ \E i \in 1..Len(body) : body[i].at = n /\ body[i].caption = c
    /\ \A i \in 1..Len(body) : body[i].at = n => body[i].caption \in {0, c}

LastPicture(items) == Len(items) > 0 /\ PictureItem(items[Len(items)])
Waiting(items) ==
    /\ Len(items) > 0
    /\ CaptionItem(items[Len(items)])
    /\ ~(Len(items) > 1 /\ PictureItem(items[Len(items) - 1]))

\* All captions are given but those of a picture or of a table at the end.
Captioned(body, items, cap) ==
    /\ \A i \in 1..Len(body) : body[i].caption # 0 => body[i].kind \in {"figure", "table"}
    /\ \A n \in 1..Len(items) :
          /\ PictureItem(items[n]) /\ n < Len(items) => HasOwn(body, n, n + 1)
          /\ TableOf(items[n]) => HasOwn(body, n, n - 1)
    /\ LastPicture(items) =>
          /\ Attaches(body)
          /\ body[Looked(body)].at = Len(items)
          /\ \A i \in 1..Len(body) : body[i].at = Len(items) => body[i].caption = 0
    /\ ~LastPicture(items) => ~Attaches(body)
    /\ cap = IF Waiting(items) THEN Len(items) ELSE 0

LEMMA SoFarBefore ==
    ASSUME NEW items \in Seq(Items), NEW item \in Items, SoFar(Append(items, item))
    PROVE  /\ SoFar(items)
           /\ item.role # "references_heading"
           /\ item.role \in CaptionRoles => item.form = "caption"
           /\ item.pics > 0 => PictureItem(item)
           /\ LastPicture(items) => CaptionItem(item)
           /\ Waiting(items) => TableOf(item)
           /\ TableOf(item) => Waiting(items)
<1> DEFINE more == Append(items, item)
           m == Len(items)
<1>1. /\ m \in Nat /\ Len(more) = m + 1 /\ more[m + 1] = item
      /\ \A n \in 1..m : more[n] = items[n]
  BY AppendedItem
<1> HIDE DEF more
<1>2. \A n \in 1..(m + 1) :
        /\ more[n].role # "references_heading"
        /\ more[n].role \in CaptionRoles => more[n].form = "caption"
        /\ more[n].pics > 0 => PictureItem(more[n])
        /\ more[n].pics > 0 /\ n < m + 1 => CaptionItem(more[n + 1])
        /\ TableOf(more[n]) => n > 1 /\ CaptionItem(more[n - 1])
        /\ CaptionItem(more[n]) /\ n < m + 1 =>
              (n > 1 /\ PictureItem(more[n - 1])) # TableOf(more[n + 1])
  BY <1>1 DEF SoFar, more
<1>3. SoFar(items)
  <2> SUFFICES ASSUME NEW n \in 1..m
               PROVE  /\ items[n].role # "references_heading"
                      /\ items[n].role \in CaptionRoles => items[n].form = "caption"
                      /\ items[n].pics > 0 => PictureItem(items[n])
                      /\ items[n].pics > 0 /\ n < m => CaptionItem(items[n + 1])
                      /\ TableOf(items[n]) => n > 1 /\ CaptionItem(items[n - 1])
                      /\ CaptionItem(items[n]) /\ n < m =>
                            (n > 1 /\ PictureItem(items[n - 1])) # TableOf(items[n + 1])
    BY DEF SoFar
  <2>1. /\ n \in 1..(m + 1) /\ n < m + 1 /\ more[n] = items[n]
        /\ n > 1 => more[n - 1] = items[n - 1]
        /\ n < m => more[n + 1] = items[n + 1]
    BY <1>1
  <2>2. TableOf(items[n]) => n > 1 /\ CaptionItem(items[n - 1])
    BY <1>2, <2>1
  <2>3. CaptionItem(items[n]) /\ n < m =>
           (n > 1 /\ PictureItem(items[n - 1])) # TableOf(items[n + 1])
    BY <1>2, <2>1
  <2> QED
    BY <1>2, <2>1, <2>2, <2>3
<1>4. /\ item.role # "references_heading"
      /\ item.role \in CaptionRoles => item.form = "caption"
      /\ item.pics > 0 => PictureItem(item)
  BY <1>1, <1>2
<1>5. ASSUME m > 0
      PROVE  /\ items[m].pics > 0 => CaptionItem(item)
             /\ CaptionItem(items[m]) => (m > 1 /\ PictureItem(items[m - 1])) # TableOf(item)
  <2>1. /\ m \in 1..(m + 1) /\ m < m + 1 /\ more[m] = items[m]
        /\ m > 1 => more[m - 1] = items[m - 1]
    BY <1>1, <1>5
  <2> QED
    BY <1>1, <1>2, <2>1
<1>6. TableOf(item) => m > 0 /\ CaptionItem(items[m])
  <2> SUFFICES ASSUME TableOf(item) PROVE m > 0 /\ CaptionItem(items[m])
    OBVIOUS
  <2>1. m + 1 > 1 /\ CaptionItem(more[(m + 1) - 1])
    BY <1>1, <1>2
  <2>2. m > 0 /\ (m + 1) - 1 = m /\ m \in 1..m
    BY <1>1, <2>1
  <2> QED
    BY <1>1, <2>1, <2>2
<1>7. LastPicture(items) => CaptionItem(item)
  BY <1>5 DEF LastPicture, PictureItem
<1> DEFINE below == m > 1 /\ PictureItem(items[m - 1])
           table == TableOf(item)
<1>8. Waiting(items) <=> m > 0 /\ CaptionItem(items[m]) /\ ~below
  BY DEF Waiting
<1>9. m > 0 /\ CaptionItem(items[m]) => (below # table)
  BY <1>5
<1>10. below \in BOOLEAN /\ table \in BOOLEAN
  BY DEF PictureItem, TableOf, IsLayout
<1>11. Waiting(items) => TableOf(item)
  <2> HIDE DEF below, table
  <2>1. (below # table) /\ ~below => table
    BY <1>10
  <2>2. Waiting(items) => table
    BY <1>8, <1>9, <2>1
  <2> QED
    BY <2>2 DEF table
<1>12. TableOf(item) => Waiting(items)
  <2> HIDE DEF below
  <2>1. (below # TRUE) => ~below
    BY <1>10
  <2> SUFFICES ASSUME table PROVE Waiting(items)
    OBVIOUS
  <2>2. m > 0 /\ CaptionItem(items[m])
    BY <1>6
  <2>3. table = TRUE
    BY <1>10
  <2>4. below # table
    BY <1>9, <2>2
  <2> HIDE DEF table
  <2> QED
    BY <1>8, <2>1, <2>2, <2>3, <2>4
<1> QED
  BY <1>3, <1>4, <1>7, <1>11, <1>12

\* The captions of earlier items stay.
LEMMA OwnKept ==
    ASSUME NEW old, NEW new, NEW grown, Grown(grown, old, new),
           NEW n, NEW c, HasOwn(old, n, c), \A i \in 1..Len(new) : new[i].at # n
    PROVE  HasOwn(grown, n, c)
<1>1. PICK k \in 1..Len(old) : old[k].at = n /\ old[k].caption = c
  BY DEF HasOwn
<1>2. k \in 1..Len(grown) /\ grown[k].at = n /\ grown[k].caption = c
  BY <1>1 DEF Grown
<1>3. ASSUME NEW i \in 1..Len(grown), grown[i].at = n PROVE grown[i].caption \in {0, c}
  <2>1. CASE i \in 1..Len(old)
    BY <1>3, <2>1 DEF Grown, HasOwn
  <2>2. CASE i \notin 1..Len(old)
    <3>1. PICK j \in 1..Len(new) : i = Len(old) + j
      BY <2>2 DEF Grown
    <3>2. grown[Len(old) + j] = new[j]
      BY DEF Grown
    <3> QED
      BY <1>3, <3>1, <3>2
  <2> QED
    BY <2>1, <2>2
<1> QED
  BY <1>2, <1>3 DEF HasOwn

\* What is true of all blocks of old and of new is true of those of grown.
LEMMA GrownKinds ==
    ASSUME NEW old, NEW new, NEW grown, Grown(grown, old, new),
           \A i \in 1..Len(old) : old[i].caption # 0 => old[i].kind \in {"figure", "table"},
           \A i \in 1..Len(new) : new[i].caption # 0 => new[i].kind \in {"figure", "table"}
    PROVE  \A i \in 1..Len(grown) :
              grown[i].caption # 0 => grown[i].kind \in {"figure", "table"}
<1> SUFFICES ASSUME NEW i \in 1..Len(grown), grown[i].caption # 0
             PROVE  grown[i].kind \in {"figure", "table"}
  OBVIOUS
<1>1. CASE i \in 1..Len(old)
  BY <1>1 DEF Grown
<1>2. CASE i \notin 1..Len(old)
  <2>1. PICK j \in 1..Len(new) : i = Len(old) + j
    BY <1>2 DEF Grown
  <2>2. grown[Len(old) + j] = new[j]
    BY DEF Grown
  <2> QED
    BY <2>1, <2>2
<1> QED
  BY <1>1, <1>2

\* The captions of all items but the last one of a longer document.
LEMMA GrownCaptions ==
    ASSUME NEW items \in Seq(Items), NEW item \in Items,
           NEW old \in Seq(BlockType), NEW new, NEW grown, Grown(grown, old, new),
           \A i \in 1..Len(new) : new[i].at = Len(items) + 1,
           NEW n \in 1..Len(items),
           PictureItem(items[n]) => HasOwn(old, n, n + 1),
           TableOf(items[n]) => HasOwn(old, n, n - 1)
    PROVE  /\ PictureItem(Append(items, item)[n]) => HasOwn(grown, n, n + 1)
           /\ TableOf(Append(items, item)[n]) => HasOwn(grown, n, n - 1)
<1>1. Append(items, item)[n] = items[n] /\ Len(items) \in Nat
  BY AppendedItem
<1>2. \A i \in 1..Len(new) : new[i].at # n
  BY <1>1
<1>3. \A c : HasOwn(old, n, c) => HasOwn(grown, n, c)
  BY <1>2, OwnKept
<1> QED
  BY <1>1, <1>3

\* An item without an object, perhaps a caption for a table that follows.
LEMMA NothingComes ==
    ASSUME NEW items \in Seq(Items), NEW item \in Items, NEW body \in Seq(BlockType),
           NEW cap, Captioned(body, items, cap), ~LastPicture(items),
           NEW new, NEW grown, Grown(grown, body, new),
           \A i \in 1..Len(new) : /\ new[i].at = Len(items) + 1
                                  /\ new[i].caption = 0
                                  /\ new[i].kind \notin {"figure", "table"},
           ~PictureItem(item), ~TableOf(item)
    PROVE  Captioned(grown, Append(items, item),
                     IF CaptionItem(item) THEN Len(items) + 1 ELSE 0)
<1> DEFINE more == Append(items, item)
           m == Len(items)
<1>1. /\ m \in Nat /\ Len(more) = m + 1 /\ more[m + 1] = item
      /\ \A n \in 1..m : more[n] = items[n]
  BY AppendedItem
<1> HIDE DEF more
<1>2. \A i \in 1..Len(grown) : grown[i].caption # 0 => grown[i].kind \in {"figure", "table"}
  <2>1. \A i \in 1..Len(body) : body[i].caption # 0 => body[i].kind \in {"figure", "table"}
    BY DEF Captioned
  <2> QED
    BY <2>1, GrownKinds
<1>3. ASSUME NEW n \in 1..Len(more)
      PROVE  /\ PictureItem(more[n]) /\ n < Len(more) => HasOwn(grown, n, n + 1)
             /\ TableOf(more[n]) => HasOwn(grown, n, n - 1)
  <2>1. CASE n = m + 1
    BY <1>1, <2>1
  <2>2. CASE n # m + 1
    <3>1. n \in 1..m
      BY <1>1, <2>2
    <3>2. PictureItem(items[n]) => n < m
      BY <1>1, <3>1 DEF LastPicture
    <3>3. /\ PictureItem(items[n]) => HasOwn(body, n, n + 1)
          /\ TableOf(items[n]) => HasOwn(body, n, n - 1)
      BY <3>1, <3>2 DEF Captioned
    <3> QED
      BY <3>1, <3>3, GrownCaptions DEF more
  <2> QED
    BY <2>1, <2>2
<1>4. ~LastPicture(more)
  BY <1>1 DEF LastPicture
<1>5. ~Attaches(grown)
  <2>1. ~Attaches(body)
    BY DEF Captioned
  <2> QED
    BY <2>1, NothingAttached
<1>6. Waiting(more) <=> CaptionItem(item)
  <2>1. m + 1 > 0 /\ (m + 1) - 1 = m /\ (m + 1 > 1 => m \in 1..m /\ m > 0)
    BY <1>1
  <2>2. m + 1 > 1 => ~PictureItem(more[m])
    BY <1>1, <2>1 DEF LastPicture
  <2> QED
    BY <1>1, <2>1, <2>2 DEF Waiting
<1> QED
  BY <1>1, <1>2, <1>3, <1>4, <1>5, <1>6 DEF Captioned, more

\* A picture, whose caption has not come yet.
LEMMA PictureComes ==
    ASSUME NEW items \in Seq(Items), NEW item \in Items, NEW body \in Seq(BlockType),
           NEW cap, Captioned(body, items, cap), ~LastPicture(items),
           BodyFits(body, items),
           NEW new, NEW grown, Grown(grown, body, new),
           \A i \in 1..Len(new) : new[i].at = Len(items) + 1 /\ new[i].caption = 0,
           Len(new) > 0, new[Len(new)].kind = "figure", PictureItem(item)
    PROVE  Captioned(grown, Append(items, item), 0)
<1> DEFINE more == Append(items, item)
           m == Len(items)
<1>1. /\ m \in Nat /\ Len(more) = m + 1 /\ more[m + 1] = item
      /\ \A n \in 1..m : more[n] = items[n]
  BY AppendedItem
<1> HIDE DEF more
<1>2. \A i \in 1..Len(grown) : grown[i].caption # 0 => grown[i].kind \in {"figure", "table"}
  <2>1. \A i \in 1..Len(body) : body[i].caption # 0 => body[i].kind \in {"figure", "table"}
    BY DEF Captioned
  <2> QED
    BY <2>1, GrownKinds
<1>3. ASSUME NEW n \in 1..Len(more)
      PROVE  /\ PictureItem(more[n]) /\ n < Len(more) => HasOwn(grown, n, n + 1)
             /\ TableOf(more[n]) => HasOwn(grown, n, n - 1)
  <2>1. CASE n = m + 1
    <3>1. ~TableOf(item)
      BY DEF TableOf, IsLayout, PictureItem
    <3> QED
      BY <1>1, <2>1, <3>1
  <2>2. CASE n # m + 1
    <3>1. n \in 1..m
      BY <1>1, <2>2
    <3>2. PictureItem(items[n]) => n < m
      BY <1>1, <3>1 DEF LastPicture
    <3>3. /\ PictureItem(items[n]) => HasOwn(body, n, n + 1)
          /\ TableOf(items[n]) => HasOwn(body, n, n - 1)
      BY <3>1, <3>2 DEF Captioned
    <3>4. \A i \in 1..Len(new) : new[i].at = Len(items) + 1
      OBVIOUS
    <3> QED
      BY <3>1, <3>3, <3>4, GrownCaptions DEF more
  <2> QED
    BY <2>1, <2>2
<1>4. LastPicture(more)
  BY <1>1 DEF LastPicture
<1>5. /\ Looked(grown) = Len(grown) /\ Len(grown) \in 1..Len(grown)
      /\ grown[Len(grown)] = new[Len(new)]
  BY LastLooked
<1>6. Len(new) \in 1..Len(new)
  BY DEF Grown
<1>7. Attaches(grown) /\ grown[Looked(grown)].at = m + 1
  BY <1>5, <1>6 DEF Attaches
<1>8. ASSUME NEW i \in 1..Len(grown), grown[i].at = m + 1 PROVE grown[i].caption = 0
  <2>1. CASE i \in 1..Len(body)
    <3>1. body[i].at \in 1..m /\ grown[i] = body[i]
      BY <2>1 DEF BodyFits, Grown
    <3> QED
      BY <1>1, <1>8, <3>1
  <2>2. CASE i \notin 1..Len(body)
    <3>1. PICK j \in 1..Len(new) : i = Len(body) + j
      BY <2>2 DEF Grown
    <3>2. grown[Len(body) + j] = new[j]
      BY DEF Grown
    <3> QED
      BY <3>1, <3>2
  <2> QED
    BY <2>1, <2>2
<1>9. ~Waiting(more)
  <2>1. ~CaptionItem(item)
    BY DEF CaptionItem, PictureItem
  <2> QED
    BY <1>1, <2>1 DEF Waiting
<1> QED
  BY <1>1, <1>2, <1>3, <1>4, <1>7, <1>8, <1>9 DEF Captioned, more

\* A table takes the caption that waits for it.
LEMMA TableComes ==
    ASSUME NEW items \in Seq(Items), NEW item \in Items, NEW body \in Seq(BlockType),
           NEW cap, Captioned(body, items, cap), ~LastPicture(items), Len(items) > 0,
           BodyFits(body, items),
           NEW block \in BlockType, block.at = Len(items) + 1, block.kind = "table",
           block.caption = Len(items),
           NEW grown, Grown(grown, body, <<block>>), TableOf(item)
    PROVE  Captioned(grown, Append(items, item), 0)
<1> DEFINE more == Append(items, item)
           m == Len(items)
           new == <<block>>
<1>1. /\ m \in Nat /\ Len(more) = m + 1 /\ more[m + 1] = item
      /\ \A n \in 1..m : more[n] = items[n]
  BY AppendedItem
<1>0. Len(new) = 1 /\ new[1] = block /\ \A i \in 1..Len(new) : new[i] = block
  OBVIOUS
<1> HIDE DEF more, new
<1>2. \A i \in 1..Len(grown) : grown[i].caption # 0 => grown[i].kind \in {"figure", "table"}
  <2>1. \A i \in 1..Len(body) : body[i].caption # 0 => body[i].kind \in {"figure", "table"}
    BY DEF Captioned
  <2> QED
    BY <1>0, <2>1, GrownKinds DEF new
<1>4. Grown(grown, body, new)
  BY DEF new
<1>5. /\ Looked(grown) = Len(grown) /\ Len(grown) \in 1..Len(grown)
      /\ grown[Len(grown)] = block
  <2>1. Len(new) > 0 /\ new[Len(new)].kind \in {"figure", "table"} /\ new[Len(new)] = block
    BY <1>0
  <2> QED
    BY <1>4, <2>1, LastLooked
<1>6. HasOwn(grown, m + 1, m)
  <2>1. ASSUME NEW i \in 1..Len(grown), grown[i].at = m + 1 PROVE grown[i].caption \in {0, m}
    <3>1. CASE i \in 1..Len(body)
      <4>1. body[i].at \in 1..m /\ grown[i] = body[i]
        BY <1>4, <3>1 DEF BodyFits, Grown
      <4> QED
        BY <1>1, <2>1, <4>1
    <3>2. CASE i \notin 1..Len(body)
      <4>1. PICK j \in 1..Len(new) : i = Len(body) + j
        BY <1>4, <3>2 DEF Grown
      <4>2. grown[Len(body) + j] = new[j]
        BY <1>4 DEF Grown
      <4> QED
        BY <1>0, <4>1, <4>2
    <3> QED
      BY <3>1, <3>2
  <2> QED
    BY <1>5, <2>1 DEF HasOwn
<1>3. ASSUME NEW n \in 1..Len(more)
      PROVE  /\ PictureItem(more[n]) /\ n < Len(more) => HasOwn(grown, n, n + 1)
             /\ TableOf(more[n]) => HasOwn(grown, n, n - 1)
  <2>1. CASE n = m + 1
    <3>1. n - 1 = m /\ ~(n < Len(more))
      BY <1>1, <2>1
    <3> QED
      BY <1>6, <2>1, <3>1
  <2>2. CASE n # m + 1
    <3>1. n \in 1..m
      BY <1>1, <2>2
    <3>2. PictureItem(items[n]) => n < m
      BY <1>1, <3>1 DEF LastPicture
    <3>3. /\ PictureItem(items[n]) => HasOwn(body, n, n + 1)
          /\ TableOf(items[n]) => HasOwn(body, n, n - 1)
      BY <3>1, <3>2 DEF Captioned
    <3>4. \A i \in 1..Len(new) : new[i].at = Len(items) + 1
      BY <1>0
    <3> QED
      BY <1>4, <3>1, <3>3, <3>4, GrownCaptions DEF more
  <2> QED
    BY <2>1, <2>2
<1>7. ~LastPicture(more) /\ ~Waiting(more)
  <2>1. ~PictureItem(item) /\ ~CaptionItem(item)
    BY DEF TableOf, IsLayout, PictureItem, CaptionItem
  <2> QED
    BY <1>1, <2>1 DEF LastPicture, Waiting
<1>8. ~Attaches(grown)
  BY <1>1, <1>5 DEF Attaches
<1> QED
  BY <1>1, <1>2, <1>3, <1>7, <1>8 DEF Captioned, more

\* A caption is attached to the picture before it.
LEMMA CaptionComes ==
    ASSUME NEW items \in Seq(Items), NEW item \in Items, NEW body \in Seq(BlockType),
           NEW cap, Captioned(body, items, cap), LastPicture(items), CaptionItem(item),
           NEW old \in Seq(BlockType), Len(old) = Len(body),
           \A i \in 1..Len(body) :
              IF i = Looked(body)
              THEN /\ old[i].kind = body[i].kind /\ old[i].at = body[i].at
                   /\ old[i].caption = Len(items) + 1
              ELSE old[i] = body[i],
           NEW new, NEW grown, Grown(grown, old, new),
           \A i \in 1..Len(new) : /\ new[i].at = Len(items) + 1
                                  /\ new[i].caption = 0
                                  /\ new[i].kind \notin {"figure", "table"}
    PROVE  Captioned(grown, Append(items, item), 0)
<1> DEFINE more == Append(items, item)
           m == Len(items)
           k == Looked(body)
<1>1. /\ m \in Nat /\ Len(more) = m + 1 /\ more[m + 1] = item
      /\ \A n \in 1..m : more[n] = items[n]
  BY AppendedItem
<1>2. /\ m > 0 /\ PictureItem(items[m]) /\ m \in 1..m
  BY <1>1 DEF LastPicture
<1>3. /\ k # 0 /\ body[k].kind \in {"figure", "table"} /\ body[k].at = m
      /\ \A i \in 1..Len(body) : body[i].at = m => body[i].caption = 0
  BY DEF Captioned, Attaches
<1>4. /\ k \in 1..Len(body) /\ k \in 1..Len(old) /\ body[k].kind # "equation"
      /\ \A i \in 1..Len(body) : i > k => body[i].kind = "equation"
  BY <1>3, LookedIs
<1>5. /\ old[k].kind = body[k].kind /\ old[k].at = m /\ old[k].caption = m + 1
      /\ \A i \in 1..Len(body) : i # k => old[i] = body[i]
      /\ \A i \in 1..Len(body) : old[i].kind = body[i].kind /\ old[i].at = body[i].at
  BY <1>3, <1>4
<1> HIDE DEF more, k
<1>6. ~Attaches(old)
  <2>1. \A i \in 1..Len(old) : i > k => old[i].kind = "equation"
    BY <1>4, <1>5
  <2>2. Looked(old) = k
    BY <1>3, <1>4, <1>5, <2>1, LookedUnique
  <2>3. old[k].caption # 0
    BY <1>1, <1>5
  <2> QED
    BY <2>2, <2>3 DEF Attaches
<1>7. ~Attaches(grown)
  BY <1>6, NothingAttached
<1>8. \A i \in 1..Len(grown) : grown[i].caption # 0 => grown[i].kind \in {"figure", "table"}
  <2>1. \A i \in 1..Len(body) : body[i].caption # 0 => body[i].kind \in {"figure", "table"}
    BY DEF Captioned
  <2>2. \A i \in 1..Len(old) : old[i].caption # 0 => old[i].kind \in {"figure", "table"}
    BY <1>3, <1>5, <2>1
  <2> QED
    BY <2>2, GrownKinds
<1>9. HasOwn(old, m, m + 1)
  <2>1. ASSUME NEW i \in 1..Len(old), old[i].at = m PROVE old[i].caption \in {0, m + 1}
    BY <1>3, <1>5, <2>1
  <2> QED
    BY <1>4, <1>5, <2>1 DEF HasOwn
<1>10. ASSUME NEW n, NEW c, n # m, HasOwn(body, n, c) PROVE HasOwn(old, n, c)
  <2>1. PICK i \in 1..Len(body) : body[i].at = n /\ body[i].caption = c
    BY <1>10 DEF HasOwn
  <2>2. i \in 1..Len(old) /\ old[i].at = n /\ old[i].caption = c
    BY <1>3, <1>5, <1>10, <2>1
  <2>3. ASSUME NEW j \in 1..Len(old), old[j].at = n PROVE old[j].caption \in {0, c}
    <3>1. j \in 1..Len(body) /\ old[j] = body[j]
      BY <1>5, <1>10, <2>3
    <3> QED
      BY <1>10, <2>3, <3>1 DEF HasOwn
  <2> QED
    BY <2>2, <2>3 DEF HasOwn
<1>11. ASSUME NEW n \in 1..Len(more)
       PROVE  /\ PictureItem(more[n]) /\ n < Len(more) => HasOwn(grown, n, n + 1)
              /\ TableOf(more[n]) => HasOwn(grown, n, n - 1)
  <2>1. CASE n = m + 1
    <3>1. ~TableOf(item) /\ ~(n < Len(more))
      BY <1>1, <2>1 DEF TableOf, CaptionItem
    <3> QED
      BY <1>1, <2>1, <3>1
  <2>2. CASE n # m + 1
    <3>1. n \in 1..m
      BY <1>1, <2>2
    <3>2. /\ PictureItem(items[n]) => HasOwn(old, n, n + 1)
          /\ TableOf(items[n]) => HasOwn(old, n, n - 1)
      <4>1. CASE n = m
        <5>1. ~TableOf(items[m])
          BY <1>2 DEF TableOf, IsLayout, PictureItem
        <5> QED
          BY <1>9, <4>1, <5>1
      <4>2. CASE n # m
        <5>1. n < m
          BY <1>1, <3>1, <4>2
        <5> QED
          BY <1>10, <3>1, <4>2, <5>1 DEF Captioned
      <4> QED
        BY <4>1, <4>2
    <3>3. \A i \in 1..Len(new) : new[i].at = Len(items) + 1
      OBVIOUS
    <3> QED
      BY <3>1, <3>2, <3>3, GrownCaptions DEF more
  <2> QED
    BY <2>1, <2>2
<1>12. ~LastPicture(more)
  <2>1. ~PictureItem(item)
    BY DEF PictureItem, CaptionItem
  <2> QED
    BY <1>1, <2>1 DEF LastPicture
<1>13. ~Waiting(more)
  <2>1. m + 1 > 1 /\ (m + 1) - 1 = m /\ PictureItem(more[m])
    BY <1>1, <1>2
  <2> QED
    BY <1>1, <2>1 DEF Waiting
<1> QED
  BY <1>1, <1>7, <1>8, <1>11, <1>12, <1>13 DEF Captioned, more

\* The branch of a paragraph in a document that may become well captioned.
LEMMA CaptionBranch ==
    ASSUME NEW item \in Items, item.kind = "paragraph", ~mode.references, ~mode.secondary,
           item.role # "references_heading",
           item.role \in CaptionRoles => item.form = "caption",
           item.pics > 0 => PictureItem(item)
    PROVE  /\ PictureItem(item) => Branch(item) \in {"paragraph", "empty"}
           /\ Branch(item) = "caption" <=> CaptionItem(item)
<1>1. /\ item.text = NoText => item.form = "plain" /\ item.role \notin CaptionRoles
      /\ item.role \in Roles /\ item.pics \in Nat
  BY ItemTypes
<1>2. PictureItem(item) => item.role = "paragraph" /\ item.text = NoText
  BY DEF PictureItem
<1>3. PictureItem(item) => Branch(item) \in {"paragraph", "empty"}
  BY <1>2 DEF Branch, MetadataRoles, SectionRoles, CaptionRoles
<1>4. CaptionItem(item) => Branch(item) = "caption"
  BY <1>1 DEF CaptionItem, Branch, IsContinuation, MetadataRoles, SectionRoles, CaptionRoles
<1>5. ASSUME Branch(item) = "caption" PROVE CaptionItem(item)
  <2>1. item.role \in CaptionRoles \/ (item.text # NoText /\ item.form = "caption")
    BY <1>5 DEF Branch, MetadataRoles
  <2>2. item.form = "caption" /\ item.text # NoText
    BY <1>1, <2>1
  <2>3. item.role \in CaptionRoles \cup {"paragraph", "list_item"}
    BY <1>1, <1>5 DEF Branch, Roles, MetadataRoles, SectionRoles
  <2>4. item.pics = 0
    BY <1>1, <1>2, <2>2
  <2> QED
    BY <2>2, <2>3, <2>4 DEF CaptionItem
<1> QED
  BY <1>3, <1>4, <1>5

\* What Caption does to the body while no caption waits.
LEMMA CaptionBody ==
    ASSUME ParserTypeOK, NEW item \in Items, Caption(item), caption = 0,
           item.kind = "paragraph", item.pics = 0
    PROVE  \E new : LET k == Looked(article.body) IN
              /\ new \in Seq(BlockType) /\ Quiet(new, item)
              /\ \/ /\ Attaches(article.body) /\ caption' = 0
                    /\ article'.body = [article.body EXCEPT ![k].caption = Here] \o new
                 \/ /\ ~Attaches(article.body) /\ caption' = Here
                    /\ article'.body = article.body \o new
<1> DEFINE own == Objects(Here, item, 0)
<1>1. /\ article \in ArticleType /\ CaptionTaken(item) = 0 /\ CaptionLeft(item) = 0
  BY DEF ParserTypeOK, CaptionTaken, CaptionLeft
<1>2. Here \in Nat /\ item.pics \in Nat /\ item.eqs \in Nat
  BY LenProperties, ItemTypes DEF Here, ParserTypeOK
<1>3. own \in Seq(BlockType)
  BY <1>2, ObjectBlocks, ConcatProperties DEF Objects
<1>4. << >> \in Seq(BlockType) /\ Len(<< >>) = 0 /\ 1..0 = {}
  BY EmptySeq
<1>5. Quiet(<< >> \o own, item)
  BY <1>4, QuietObjects
<1>6. << >> \o own = own
  <2> HIDE DEF own
  <2> QED
    BY <1>3, ConcatEmptySeq
<1>7. Quiet(own, item)
  BY <1>5, <1>6
<1>8. IF Attaches(article.body)
      THEN /\ article'.body = [article.body EXCEPT ![Looked(article.body)].caption = Here] \o own
           /\ caption' = 0
      ELSE /\ article'.body = article.body \o own /\ caption' = Here
  <2> DEFINE marked == [article.body EXCEPT ![Looked(article.body)].caption = Here]
  <2> HIDE DEF own, marked
  <2>1. IF Attaches(article.body)
          THEN article' = [article EXCEPT !.body = marked \o own] /\ caption' = 0
          ELSE article' = [article EXCEPT !.body = article.body \o own] /\ caption' = Here
    BY <1>1 DEF Caption, own, marked
  <2>2. \A b : [article EXCEPT !.body = b].body = b
    BY <1>1 DEF ArticleType
  <2> QED
    BY <2>1, <2>2 DEF marked
<1> HIDE DEF own
<1> QED
  BY <1>3, <1>7, <1>8

\* The parser has given the captions of what it has read.
CaptionsSoFar ==
    /\ ~mode.references /\ ~mode.secondary
    /\ Captioned(article.body, source, caption)

LEMMA TableCaptioned ==
    ASSUME ParserTypeOK, BodyFits(article.body, source), CaptionsSoFar,
           NEW item \in Items, SoFar(Append(source, item)), TableItem(item)
    PROVE  Captioned(article'.body, Append(source, item), caption')
<1> DEFINE body == article.body
           blocks == TableBlocks(Here, item, caption)
<1>1. /\ source \in Seq(Items) /\ article \in ArticleType /\ body \in Seq(BlockType)
      /\ Here \in Nat /\ Here = Len(source) + 1 /\ caption \in Nat
      /\ item.pics \in Nat
  BY LenProperties, ArticleFields, ItemTypes DEF ParserTypeOK, Here
<1>2. /\ article'.body = body \o blocks /\ item.kind = "table"
      /\ caption' = IF blocks[1].kind = "equation" THEN caption ELSE 0
  BY <1>1 DEF TableItem, ArticleType
<1>3. /\ LastPicture(source) => CaptionItem(item)
      /\ Waiting(source) => TableOf(item)
      /\ TableOf(item) => Waiting(source)
      /\ item.pics > 0 => PictureItem(item)
  BY <1>1, SoFarBefore
<1>4. ~CaptionItem(item) /\ ~LastPicture(source)
  BY <1>2, <1>3 DEF CaptionItem
<1>5. Captioned(body, source, caption) /\ caption = IF Waiting(source) THEN Len(source) ELSE 0
  BY DEF CaptionsSoFar, Captioned
<1>6. CASE item.pics > 0
  <2> DEFINE figs == Figures(Here, item, 0)
  <2>1. PictureItem(item) /\ ~TableOf(item)
    BY <1>3, <1>6 DEF TableOf, IsLayout
  <2>2. caption = 0
    BY <1>3, <1>5, <2>1
  <2>3. blocks = figs
    BY <1>6, <2>2 DEF TableBlocks
  <2>4. /\ figs \in Seq(BlockType) /\ Len(figs) = item.pics
    BY <1>1, ObjectBlocks
  <2>5. \A i \in 1..item.pics : figs[i].kind = "figure" /\ figs[i].at = Here /\ figs[i].caption = 0
    BY <1>1 DEF Figures, Block
  <2>6. 1 \in 1..item.pics /\ item.pics \in 1..item.pics
    BY <1>1, <1>6
  <2> HIDE DEF figs, blocks
  <2>7. caption' = 0
    BY <1>2, <2>2
  <2> HIDE DEF body
  <2>8. Grown(body \o figs, body, figs)
    BY <1>1, <2>4, ConcatGrown
  <2> DEFINE grown == body \o figs
  <2> HIDE DEF grown
  <2>9. \A i \in 1..Len(figs) : figs[i].at = Len(source) + 1 /\ figs[i].caption = 0
    BY <1>1, <2>4, <2>5
  <2>10. Len(figs) > 0 /\ figs[Len(figs)].kind = "figure"
    BY <1>6, <2>4, <2>5, <2>6
  <2>11. BodyFits(body, source) /\ Grown(grown, body, figs)
    BY <2>8 DEF body, grown
  <2>12. Captioned(grown, Append(source, item), 0)
    BY <1>1, <1>4, <1>5, <2>1, <2>9, <2>10, <2>11, PictureComes
  <2> QED
    BY <1>2, <2>3, <2>7, <2>12 DEF grown
<1>7. CASE item.pics = 0 /\ item.eqs > 0 /\ item.single
  <2> DEFINE block == Block("equation", Here)
             new == <<block>>
  <2>1. ~PictureItem(item) /\ ~TableOf(item)
    BY <1>7 DEF TableOf, IsLayout, PictureItem
  <2>2. caption = 0
    BY <1>3, <1>5, <2>1
  <2>3. blocks = new
    BY <1>7 DEF TableBlocks
  <2>4. block \in BlockType /\ block.kind = "equation" /\ block.at = Here /\ block.caption = 0
    BY <1>1 DEF Block, BlockType, Kinds
  <2> HIDE DEF block
  <2>5. new \in Seq(BlockType) /\ \A i \in 1..Len(new) : new[i] = block
    BY <2>4
  <2> HIDE DEF new, blocks
  <2>6. caption' = 0
    BY <1>2, <2>2
  <2> HIDE DEF body
  <2> DEFINE grown == body \o new
  <2>7. Grown(grown, body, new)
    BY <1>1, <2>5, ConcatGrown
  <2> HIDE DEF grown
  <2>8. \A i \in 1..Len(new) : /\ new[i].at = Len(source) + 1 /\ new[i].caption = 0
                               /\ new[i].kind \notin {"figure", "table"}
    BY <1>1, <2>4, <2>5
  <2>9. Captioned(grown, Append(source, item),
                  IF CaptionItem(item) THEN Len(source) + 1 ELSE 0)
    BY <1>1, <1>4, <1>5, <2>1, <2>7, <2>8, NothingComes
  <2> QED
    BY <1>2, <1>4, <2>3, <2>6, <2>9 DEF grown
<1>8. CASE TableOf(item)
  <2> DEFINE block == [Block("table", Here) EXCEPT !.caption = caption]
             new == <<block>>
  <2>1. caption = Len(source) /\ Len(source) > 0
    BY <1>3, <1>5, <1>8 DEF Waiting
  <2>2. item.pics = 0 /\ ~(item.eqs > 0 /\ item.single)
    BY <1>1, <1>8 DEF TableOf, IsLayout
  <2>3. blocks = new
    BY <2>2 DEF TableBlocks
  <2>4. block \in BlockType /\ block.kind = "table" /\ block.at = Here /\ block.caption = caption
    BY <1>1 DEF Block, BlockType, Kinds
  <2> HIDE DEF block
  <2>5. new \in Seq(BlockType) /\ new[1] = block
    BY <2>4
  <2>6. caption' = 0
    <3>1. blocks[1].kind # "equation"
      BY <2>3, <2>4, <2>5
    <3> QED
      BY <1>2, <3>1
  <2> HIDE DEF blocks
  <2> HIDE DEF body
  <2> DEFINE grown == body \o new
  <2>7. Grown(grown, body, <<block>>)
    BY <1>1, <2>5, ConcatGrown
  <2> HIDE DEF grown
  <2>8. BodyFits(body, source)
    BY DEF body
  <2>9. block.at = Len(source) + 1 /\ block.caption = Len(source)
    BY <1>1, <2>1, <2>4
  <2>10. Captioned(grown, Append(source, item), 0)
    BY <1>1, <1>4, <1>5, <1>8, <2>1, <2>4, <2>7, <2>8, <2>9, TableComes
  <2> QED
    BY <1>2, <2>3, <2>6, <2>10 DEF grown
<1> QED
  <2>1. item.pics > 0 \/ item.pics = 0
    BY <1>1
  <2>2. item.pics = 0 /\ ~(item.eqs > 0 /\ item.single) => TableOf(item)
    BY <1>2 DEF TableOf, IsLayout
  <2> QED
    BY <1>6, <1>7, <1>8, <2>1, <2>2

LEMMA ParagraphCaptioned ==
    ASSUME ParserTypeOK, BodyFits(article.body, source), CaptionsSoFar,
           NEW item \in Items, SoFar(Append(source, item)), Read(item),
           item.kind = "paragraph"
    PROVE  Captioned(article'.body, Append(source, item), caption')
<1> DEFINE body == article.body
<1>1. /\ source \in Seq(Items) /\ article \in ArticleType /\ body \in Seq(BlockType)
      /\ Here \in Nat /\ Here = Len(source) + 1 /\ item.pics \in Nat
  BY LenProperties, ArticleFields, ItemTypes DEF ParserTypeOK, Here
<1>2. /\ item.role # "references_heading"
      /\ item.role \in CaptionRoles => item.form = "caption"
      /\ item.pics > 0 => PictureItem(item)
      /\ LastPicture(source) => CaptionItem(item)
      /\ Waiting(source) => TableOf(item)
  BY <1>1, SoFarBefore
<1>3. ~TableOf(item) /\ ~Waiting(source)
  BY <1>2 DEF TableOf
<1>4. /\ Captioned(body, source, caption) /\ caption = 0
      /\ ~LastPicture(source) => ~Attaches(body)
      /\ LastPicture(source) => Attaches(body)
  BY <1>3 DEF CaptionsSoFar, Captioned
<1>5. /\ PictureItem(item) => Branch(item) \in {"paragraph", "empty"}
      /\ Branch(item) = "caption" <=> CaptionItem(item)
  BY <1>2, CaptionBranch DEF CaptionsSoFar
<1>6. \A new : Quiet(new, item) =>
         /\ new \in Seq(BlockType)
         /\ \A i \in 1..Len(new) : new[i].at = Len(source) + 1 /\ new[i].caption = 0
         /\ item.pics = 0 => \A i \in 1..Len(new) : new[i].kind \notin {"figure", "table"}
  BY <1>1 DEF Quiet, BlocksOf, BlockOf
<1>7. ~TableItem(item)
  BY DEF TableItem
<1>8. CASE Caption(item) /\ Branch(item) = "caption"
  <2>1. CaptionItem(item) /\ ~PictureItem(item) /\ item.pics = 0
    BY <1>5, <1>8 DEF CaptionItem, PictureItem
  <2> DEFINE k == Looked(body)
             old == [body EXCEPT ![k].caption = Here]
  <2>2. PICK new : /\ new \in Seq(BlockType) /\ Quiet(new, item)
                   /\ \/ /\ Attaches(body) /\ caption' = 0 /\ article'.body = old \o new
                      \/ /\ ~Attaches(body) /\ caption' = Here
                         /\ article'.body = body \o new
    BY <1>4, <1>8, <2>1, CaptionBody
  <2>3. CASE Attaches(body) /\ caption' = 0 /\ article'.body = old \o new
    <3> DEFINE block == [body[k] EXCEPT !.caption = Here]
               marked == [body EXCEPT ![k] = block]
    <3>1. LastPicture(source)
      BY <1>4, <2>3
    <3>2. k \in 1..Len(body)
      BY <1>1, <2>3, LookedIs DEF Attaches
    <3>3. body[k] \in BlockType
      BY <1>1, <3>2, ElementOfSeq
    <3>4. /\ block \in BlockType /\ block.at = body[k].at /\ block.kind = body[k].kind
          /\ block.caption = Len(source) + 1
      BY <1>1, <3>3 DEF BlockType
    <3>5. old = marked
      OBVIOUS
    <3> HIDE DEF block, old, k, body
    <3>6. marked \in Seq(BlockType) /\ Len(marked) = Len(body)
          /\ \A i \in 1..Len(body) : marked[i] = IF i = k THEN block ELSE body[i]
      BY <1>1, <3>2, <3>4, ExceptSeq
    <3> HIDE DEF marked
    <3>7. \A i \in 1..Len(body) :
             IF i = Looked(body)
             THEN /\ marked[i].kind = body[i].kind /\ marked[i].at = body[i].at
                  /\ marked[i].caption = Len(source) + 1
             ELSE marked[i] = body[i]
      BY <3>4, <3>6 DEF k
    <3> DEFINE grown == marked \o new
    <3>8. Grown(grown, marked, new)
      BY <2>2, <3>6, ConcatGrown
    <3> HIDE DEF grown
    <3>9. \A i \in 1..Len(new) : /\ new[i].at = Len(source) + 1
                                 /\ new[i].caption = 0
                                 /\ new[i].kind \notin {"figure", "table"}
      BY <1>6, <2>1, <2>2
    <3>10. Captioned(grown, Append(source, item), 0)
      BY <1>1, <1>4, <2>1, <3>1, <3>6, <3>7, <3>8, <3>9, CaptionComes
    <3> QED
      BY <2>3, <3>5, <3>10 DEF grown
  <2>4. CASE ~Attaches(body) /\ caption' = Here /\ article'.body = body \o new
    <3>1. ~LastPicture(source)
      BY <1>4, <2>4
    <3> HIDE DEF body
    <3> DEFINE grown == body \o new
    <3>2. Grown(grown, body, new)
      BY <1>1, <2>2, ConcatGrown
    <3> HIDE DEF grown
    <3>3. \A i \in 1..Len(new) : /\ new[i].at = Len(source) + 1
                                 /\ new[i].caption = 0
                                 /\ new[i].kind \notin {"figure", "table"}
      BY <1>6, <2>1, <2>2
    <3>4. Captioned(grown, Append(source, item),
                    IF CaptionItem(item) THEN Len(source) + 1 ELSE 0)
      BY <1>1, <1>3, <1>4, <2>1, <3>1, <3>2, <3>3, NothingComes
    <3> QED
      BY <1>1, <2>1, <2>4, <3>4 DEF grown
  <2> QED
    BY <2>2, <2>3, <2>4
<1>9. CASE ReadsQuietly(item)
  <2>1. /\ Branch(item) # "caption" /\ caption' = 0 /\ QuietGrows(article'.body, item)
        /\ Branch(item) \in {"paragraph", "empty"} => BodyParagraph(item)
    BY <1>9 DEF ReadsQuietly
  <2>2. ~CaptionItem(item) /\ ~LastPicture(source)
    BY <1>2, <1>5, <2>1
  <2>3. CASE item.pics = 0
    <3>1. PICK new : article'.body = body \o new /\ Quiet(new, item)
      BY <2>1 DEF QuietGrows
    <3>2. ~PictureItem(item)
      BY <2>3 DEF PictureItem
    <3> HIDE DEF body
    <3> DEFINE grown == body \o new
    <3>3. Grown(grown, body, new)
      BY <1>1, <1>6, <3>1, ConcatGrown
    <3> HIDE DEF grown
    <3>4. \A i \in 1..Len(new) : /\ new[i].at = Len(source) + 1
                                 /\ new[i].caption = 0
                                 /\ new[i].kind \notin {"figure", "table"}
      BY <1>6, <2>3, <3>1
    <3>5. Captioned(grown, Append(source, item),
                    IF CaptionItem(item) THEN Len(source) + 1 ELSE 0)
      BY <1>1, <1>3, <1>4, <2>2, <3>2, <3>3, <3>4, NothingComes
    <3> QED
      BY <2>1, <2>2, <3>1, <3>5 DEF grown
  <2>4. CASE item.pics > 0
    <3>1. PictureItem(item) /\ BodyParagraph(item)
      BY <1>2, <1>5, <2>1, <2>4
    <3> DEFINE first == IF Branch(item) = "empty" THEN << >> ELSE <<Block("paragraph", Here)>>
               new == first \o Objects(Here, item, 0)
    <3>2. CaptionTaken(item) = 0
      BY <1>4 DEF CaptionTaken, TakesCaption
    <3>3. article'.body = body \o first \o Objects(Here, item, 0)
      BY <1>1, <3>1, <3>2 DEF BodyParagraph, BodyWith, ArticleType
    <3>4. /\ first \in Seq(BlockType)
          /\ \A i \in 1..Len(first) :
                /\ first[i].at = Here /\ first[i].kind \in {"section", "paragraph", "item"}
                /\ first[i].caption = 0
      <4>1. << >> \in Seq(BlockType) /\ Len(<< >>) = 0 /\ 1..0 = {}
        BY EmptySeq
      <4> DEFINE block == Block("paragraph", Here)
      <4>2. /\ block \in BlockType /\ block.at = Here /\ block.kind = "paragraph"
            /\ block.caption = 0
        BY <1>1 DEF Block, BlockType, Kinds
      <4>3. first = << >> \/ first = <<block>>
        OBVIOUS
      <4> HIDE DEF block, first
      <4>4. CASE first = << >>
        BY <4>1, <4>4
      <4>5. CASE first = <<block>>
        <5>1. first \in Seq(BlockType) /\ Len(first) = 1 /\ first[1] = block
          BY <4>2, <4>5
        <5> QED
          BY <4>2, <5>1
      <4> QED
        BY <4>3, <4>4, <4>5
    <3> HIDE DEF first
    <3>5. /\ Quiet(new, item) /\ Len(new) > 0 /\ new[Len(new)].kind = "figure"
          /\ article'.body = body \o new
      BY <2>4, <3>3, <3>4, QuietObjects
    <3> HIDE DEF body, new
    <3> DEFINE grown == body \o new
    <3>6. Grown(grown, body, new)
      BY <1>1, <1>6, <3>5, ConcatGrown
    <3> HIDE DEF grown
    <3>7. \A i \in 1..Len(new) : new[i].at = Len(source) + 1 /\ new[i].caption = 0
      BY <1>6, <3>5
    <3>8. BodyFits(body, source)
      BY DEF body
    <3>9. Captioned(grown, Append(source, item), 0)
      BY <1>1, <1>4, <2>2, <3>1, <3>5, <3>6, <3>7, <3>8, PictureComes
    <3> QED
      BY <2>1, <3>5, <3>9 DEF grown
  <2> QED
    BY <1>1, <2>3, <2>4
<1> QED
  BY <1>4, <1>7, <1>8, <1>9, ReadQuiet

\* The captions while the document is read, and those of a document that was.
OwnCaptions(body) ==
    \A n \in 1..Len(source) :
        /\ PictureItem(source[n]) => HasOwn(body, n, n + 1)
        /\ TableOf(source[n]) => n > 1 /\ HasOwn(body, n, n - 1)

CaptionsFit ==
    /\ run.stage \in {"analyze_source", "parse_source"} =>
          (SoFar(source) => CaptionsSoFar)
    /\ IsParsed /\ WellCaptioned => OwnCaptions(article.body)

LEMMA WellCaptionedSoFar ==
    ASSUME source \in Seq(Items), WellCaptioned
    PROVE  /\ SoFar(source)
           /\ \A n \in 1..Len(source) : PictureItem(source[n]) => n < Len(source)
           /\ \A n \in 1..Len(source) : TableOf(source[n]) => n > 1
<1>1. Len(source) \in Nat
  BY LenProperties
<1>2. \A n \in 1..Len(source) :
         /\ IsPicture(n) <=> PictureItem(source[n])
         /\ IsTable(n) <=> TableOf(source[n])
         /\ IsCaption(n) <=> CaptionItem(source[n])
  BY DEF IsPicture, IsTable, IsCaption, PictureItem, TableOf, CaptionItem
<1>3. ASSUME NEW n \in 1..Len(source)
      PROVE  /\ source[n].role # "references_heading"
             /\ source[n].role \in CaptionRoles => source[n].form = "caption"
             /\ source[n].pics > 0 =>
                   /\ PictureItem(source[n]) /\ n < Len(source)
                   /\ CaptionItem(source[n + 1])
             /\ TableOf(source[n]) => n > 1 /\ CaptionItem(source[n - 1])
  <2>1. /\ n < Len(source) => n + 1 \in 1..Len(source)
        /\ n > 1 => n - 1 \in 1..Len(source)
    BY <1>1
  <2> QED
    BY <1>2, <2>1 DEF WellCaptioned
<1>4. ASSUME NEW n \in 1..Len(source), CaptionItem(source[n]), n < Len(source)
      PROVE  (n > 1 /\ PictureItem(source[n - 1])) # TableOf(source[n + 1])
  <2>1. /\ n + 1 \in 1..Len(source) /\ (n > 1 => n - 1 \in 1..Len(source))
    BY <1>1, <1>4
  <2> DEFINE above == n > 1 /\ IsPicture(n - 1)
             below == n < Len(source) /\ IsTable(n + 1)
             picture == n > 1 /\ PictureItem(source[n - 1])
             table == TableOf(source[n + 1])
  <2>2. above # below
    BY <1>2, <1>4 DEF WellCaptioned
  <2>3. (above <=> picture) /\ (below <=> table)
    BY <1>2, <1>4, <2>1
  <2>4. /\ above \in BOOLEAN /\ below \in BOOLEAN
        /\ picture \in BOOLEAN /\ table \in BOOLEAN
    BY DEF IsPicture, IsTable, PictureItem, TableOf, IsLayout
  <2> HIDE DEF above, below, picture, table
  <2>5. picture # table
    BY <2>2, <2>3, <2>4
  <2> QED
    BY <2>5 DEF picture, table
<1>5. SoFar(source)
  BY <1>3, <1>4 DEF SoFar
<1>6. \A n \in 1..Len(source) : PictureItem(source[n]) => n < Len(source)
  BY <1>3 DEF PictureItem
<1> QED
  BY <1>3, <1>5, <1>6

\* No block with a caption leaves the body.
LEMMA ThinnedKeepsCaptions ==
    ASSUME NEW body \in Seq(BlockType), NEW thin, Thinned(thin, body),
           \A i \in 1..Len(body) : body[i].caption # 0 => body[i].kind \in {"figure", "table"},
           NEW n, NEW c, c # 0, HasOwn(body, n, c)
    PROVE  HasOwn(thin, n, c)
<1>1. PICK e : ThinnedBy(thin, body, e)
  BY DEF Thinned
<1>2. PICK k \in 1..Len(body) : body[k].at = n /\ body[k].caption = c
  BY DEF HasOwn
<1>3. body[k].kind # "paragraph"
  BY <1>2
<1>4. PICK i \in 1..Len(thin) : e[i] = k
  BY <1>1, <1>3 DEF ThinnedBy
<1>5. thin[i].at = n /\ thin[i].caption = c
  BY <1>1, <1>2, <1>4 DEF ThinnedBy
<1>6. ASSUME NEW j \in 1..Len(thin), thin[j].at = n PROVE thin[j].caption \in {0, c}
  <2>1. e[j] \in 1..Len(body) /\ thin[j] = body[e[j]]
    BY <1>1 DEF ThinnedBy
  <2> QED
    BY <1>6, <2>1 DEF HasOwn
<1> QED
  BY <1>5, <1>6 DEF HasOwn

LEMMA ReadCaptionsFit ==
    ASSUME Conforms, CaptionsFit, run.stage = "parse_source", run' = run,
           NEW item \in Items, Read(item)
    PROVE  CaptionsFit'
<1>1. ParserTypeOK /\ BodyFits(article.body, source)
  BY DEF Conforms
<1>2. source' = Append(source, item) /\ source \in Seq(Items)
  BY <1>1, ReadBodyFits DEF ParserTypeOK
<1>3. ~IsParsed'
  BY DEF IsParsed
<1>4. ASSUME SoFar(Append(source, item))
      PROVE  /\ ~mode'.references /\ ~mode'.secondary
             /\ Captioned(article'.body, Append(source, item), caption')
  <2>1. SoFar(source) /\ item.role # "references_heading"
    BY <1>2, <1>4, SoFarBefore
  <2>2. CaptionsSoFar
    BY <2>1 DEF CaptionsFit
  <2>3. ~mode'.references /\ ~mode'.secondary
    BY <1>1, <2>1, <2>2, ReadMode DEF CaptionsSoFar
  <2>4. CASE item.kind = "paragraph"
    BY <1>1, <1>4, <2>2, <2>3, <2>4, ParagraphCaptioned
  <2>5. CASE item.kind # "paragraph"
    <3>1. \A branches : ~Paragraph(item, branches)
      BY <2>5 DEF Paragraph
    <3>2. TableItem(item)
      BY <3>1 DEF Read, Continuation, Title, Subtitle, AuthorLine, AffiliationLine,
                  Abstract, Keywords, EditorialLine, Identifier, SecondaryTitle,
                  SecondaryAuthors, ReferencesHeading, ReferenceEntry, Section,
                  Caption, ListItem, BodyParagraph
    <3> QED
      BY <1>1, <1>4, <2>2, <2>3, <3>2, TableCaptioned
  <2> QED
    BY <2>4, <2>5
<1>5. SoFar(source)' => CaptionsSoFar'
  <2> SUFFICES ASSUME SoFar(source)' PROVE CaptionsSoFar'
    OBVIOUS
  <2>1. SoFar(Append(source, item))
    BY <1>2 DEF SoFar, CaptionItem, PictureItem, TableOf, IsLayout
  <2>2. /\ ~mode'.references /\ ~mode'.secondary
        /\ Captioned(article'.body, source', caption')
    BY <1>2, <1>4, <2>1
  <2>3. Captioned(article.body, source, caption)'
    BY <2>2 DEF Captioned, HasOwn, LastPicture, Waiting, Attaches, Looked, CaptionItem,
                PictureItem, TableOf, IsLayout
  <2> QED
    BY <2>2, <2>3 DEF CaptionsSoFar
<1> QED
  BY <1>3, <1>5 DEF CaptionsFit

LEMMA FinishCaptionsFit ==
    ASSUME Conforms, CaptionsFit, run.stage = "parse_source",
           run'.stage = "analyze_template", Finish
    PROVE  CaptionsFit'
<1>1. ParserTypeOK /\ BodyFits(article.body, source)
  BY DEF Conforms
<1>2. /\ article' = Parsed /\ source' = source
      /\ source \in Seq(Items) /\ article.body \in Seq(BlockType)
  BY <1>1, ArticleFields DEF Finish, ParserTypeOK
<1>3. Thinned(Parsed.body, article.body)
  BY <1>1, ParsedFits
<1>4. ASSUME WellCaptioned PROVE OwnCaptions(Parsed.body)
  <2>1. /\ SoFar(source)
        /\ \A n \in 1..Len(source) : PictureItem(source[n]) => n < Len(source)
        /\ \A n \in 1..Len(source) : TableOf(source[n]) => n > 1
    BY <1>2, <1>4, WellCaptionedSoFar
  <2>2. Captioned(article.body, source, caption)
    BY <2>1 DEF CaptionsFit, CaptionsSoFar
  <2>3. \A i \in 1..Len(article.body) :
           article.body[i].caption # 0 => article.body[i].kind \in {"figure", "table"}
    BY <2>2 DEF Captioned
  <2>4. ASSUME NEW n, NEW c, c # 0, HasOwn(article.body, n, c) PROVE HasOwn(Parsed.body, n, c)
    BY <1>2, <1>3, <2>3, <2>4, ThinnedKeepsCaptions
  <2>5. ASSUME NEW n \in 1..Len(source)
        PROVE  /\ PictureItem(source[n]) => HasOwn(Parsed.body, n, n + 1)
               /\ TableOf(source[n]) => n > 1 /\ HasOwn(Parsed.body, n, n - 1)
    <3>1. n + 1 # 0 /\ (n > 1 => n - 1 # 0)
      OBVIOUS
    <3>2. /\ PictureItem(source[n]) => HasOwn(article.body, n, n + 1)
          /\ TableOf(source[n]) => n > 1 /\ HasOwn(article.body, n, n - 1)
      BY <2>1, <2>2 DEF Captioned
    <3> QED
      BY <2>4, <3>1, <3>2
  <2> QED
    BY <2>5 DEF OwnCaptions
<1>5. WellCaptioned' => WellCaptioned
  BY <1>2 DEF WellCaptioned, IsPicture, IsTable, IsCaption, IsLayout
<1>6. WellCaptioned' => OwnCaptions(article.body)'
  <2> DEFINE body == Parsed.body
  <2>1. article'.body = body
    BY <1>2
  <2> HIDE DEF body
  <2>2. OwnCaptions(body) => OwnCaptions(article.body)'
    BY <1>2, <2>1 DEF OwnCaptions, HasOwn, PictureItem, TableOf, IsLayout
  <2> QED
    BY <1>4, <1>5, <2>2 DEF body
<1> QED
  BY <1>6 DEF CaptionsFit

LEMMA CaptionsStep == Conforms /\ CaptionsFit /\ [Next]_vars => CaptionsFit'
<1> SUFFICES ASSUME Conforms, CaptionsFit, [Next]_vars PROVE CaptionsFit'
  OBVIOUS
<1>1. CASE /\ UNCHANGED parsing
           /\ run'.stage \in {"analyze_source", "parse_source"} =>
                 run.stage \in {"analyze_source", "parse_source"}
           /\ IsParsed' => IsParsed
  <2>1. /\ source' = source /\ article' = article /\ caption' = caption /\ mode' = mode
    BY <1>1 DEF parsing
  <2>2. SoFar(source)' => SoFar(source)
    BY <2>1 DEF SoFar, CaptionItem, PictureItem, TableOf, IsLayout
  <2>3. WellCaptioned' => WellCaptioned
    BY <2>1 DEF WellCaptioned, IsPicture, IsTable, IsCaption, IsLayout
  <2>4. OwnCaptions(article.body) => OwnCaptions(article.body)'
    BY <2>1 DEF OwnCaptions, HasOwn, PictureItem, TableOf, IsLayout
  <2>5. CaptionsSoFar => CaptionsSoFar'
    <3> SUFFICES ASSUME CaptionsSoFar PROVE CaptionsSoFar'
      OBVIOUS
    <3>1. /\ ~mode'.references /\ ~mode'.secondary
          /\ Captioned(article'.body, source', caption')
      BY <2>1 DEF CaptionsSoFar
    <3>2. Captioned(article.body, source, caption)'
      BY <3>1 DEF Captioned, HasOwn, LastPicture, Waiting, Attaches, Looked,
                  CaptionItem, PictureItem, TableOf, IsLayout
    <3> QED
      BY <3>1, <3>2 DEF CaptionsSoFar
  <2> QED
    BY <1>1, <2>2, <2>3, <2>4, <2>5 DEF CaptionsFit
<1> QED
  BY <1>1, Steps, ReadCaptionsFit, FinishCaptionsFit

LEMMA CaptionsInit == Init => CaptionsFit
<1> SUFFICES ASSUME Init PROVE CaptionsFit
  OBVIOUS
<1>1. /\ source = << >> /\ article.body = << >> /\ ~mode.references /\ ~mode.secondary
      /\ caption = 0 /\ run.stage = "analyze_source"
  BY DEF Init, ParserInit, EmptyArticle, Plain
<1>2. Len(<< >>) = 0 /\ 1..0 = {} /\ << >> \in Seq(BlockType)
  BY EmptySeq
<1>3. ~LastPicture(source) /\ ~Waiting(source)
  BY <1>1, <1>2 DEF LastPicture, Waiting
<1>4. ~Attaches(article.body)
  <2>1. Looked(article.body) = 0
    BY <1>1, <1>2, LookedIs
  <2> QED
    BY <2>1 DEF Attaches
<1>5. Captioned(article.body, source, caption)
  BY <1>1, <1>2, <1>3, <1>4 DEF Captioned
<1> QED
  BY <1>1, <1>5 DEF CaptionsFit, CaptionsSoFar, IsParsed

LEMMA OwnCaptionsMeet == ParserTypeOK /\ CaptionsFit => CaptionsMeetTheirObjects
<1> SUFFICES ASSUME ParserTypeOK, CaptionsFit, IsParsed, WellCaptioned,
                    NEW n \in 1..Len(source)
             PROVE  LET own == {article.body[b].caption :
                                  b \in {m \in 1..Len(article.body) :
                                            article.body[m].at = n}} \ {0}
                    IN  /\ IsPicture(n) => own = {n + 1}
                        /\ IsTable(n) => own = {n - 1}
  BY DEF CaptionsMeetTheirObjects
<1> DEFINE own == {article.body[b].caption :
                     b \in {m \in 1..Len(article.body) : article.body[m].at = n}} \ {0}
<1>1. ASSUME NEW c, c # 0, HasOwn(article.body, n, c) PROVE own = {c}
  <2>1. c \in own
    BY <1>1 DEF HasOwn
  <2>2. \A d \in own : d = c
    BY <1>1 DEF HasOwn
  <2> HIDE DEF own
  <2> QED
    BY <2>1, <2>2
<1> HIDE DEF own
<1>2. n + 1 # 0 /\ (n > 1 => n - 1 # 0)
  OBVIOUS
<1>3. /\ PictureItem(source[n]) => HasOwn(article.body, n, n + 1)
      /\ TableOf(source[n]) => n > 1 /\ HasOwn(article.body, n, n - 1)
  BY DEF CaptionsFit, OwnCaptions
<1>4. IsPicture(n) => own = {n + 1}
  <2>1. IsPicture(n) => PictureItem(source[n])
    BY DEF IsPicture, PictureItem
  <2> QED
    BY <1>1, <1>2, <1>3, <2>1
<1>5. IsTable(n) => own = {n - 1}
  <2>1. IsTable(n) => TableOf(source[n])
    BY DEF IsTable, TableOf
  <2> QED
    BY <1>1, <1>2, <1>3, <2>1
<1> QED
  BY <1>4, <1>5 DEF own

\* In a document whose pictures and tables all have their captions beside them,
\* each of them has its own caption in the article and no other.  (docx_parser:
\* pending_caption, _attach_caption.)
THEOREM CaptionsAreGivenRightly == Spec => []CaptionsMeetTheirObjects
<1>1. Spec => [](Conforms /\ CaptionsFit)
  BY InitConforms, ConformsStep, CaptionsInit, CaptionsStep, PTL DEF Spec
<1>2. Conforms /\ CaptionsFit => CaptionsMeetTheirObjects
  BY OwnCaptionsMeet DEF Conforms
<1> QED
  BY <1>1, <1>2, PTL

=============================================================================
