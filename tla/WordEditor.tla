----------------------------- MODULE WordEditor -----------------------------
(***************************************************************************)
(* SafeWordEditor.render (template_workspace/v2/editor): an article in     *)
(* Word takes the layout of a journal's template.  The editor moves the    *)
(* nodes of the article's body and never writes its content anew, so the   *)
(* model is the body: a sequence of paragraphs, pictures, tables and       *)
(* section marks that goes through the passes of render, one action each.  *)
(*                                                                         *)
(* A node keeps what the passes look at.  "items" are the pieces of the    *)
(* manuscript it holds: its words, its links and raised characters, its    *)
(* bookmarks and its objects; typography and geometry are left out.  An    *)
(* edit of a paragraph may lose one of its pieces: that is the fault the   *)
(* checkpoints (content_recovery.py) and the final comparison              *)
(* (integrity.py) are there for.  A formatting that raises is undone at    *)
(* once and loses nothing.                                                 *)
(*                                                                         *)
(* Numbering, the labels of abstracts, the marks of corresponding authors, *)
(* headers and footers and the size of objects stay inside a node and are  *)
(* left out, as are rows of panels in one paragraph, captions in text      *)
(* boxes and articles that are in the journal's layout already.  Section   *)
(* breaks of the manuscript are removed before the editor sets its own, so *)
(* a manuscript has none here.                                             *)
(***************************************************************************)
EXTENDS Integers, SequencesExt, FiniteSetsExt

CONSTANTS
    Manuscripts,   \* sequences of nodes, as inspected and classified
    Templates,     \* what the editor takes from a template
    Fragile,       \* places of the manuscript where an edit may lose a piece
    Lookahead,     \* nodes searched for the description of a figure
    MaxCrossed     \* paragraphs a small table may be moved over

VARIABLES
    manuscript,    \* the body of the article
    template,      \* the profile of the template
    phase,         \* the pass that comes next
    body,          \* the body being edited
    todo,          \* pieces of the objects the running pass has still to place
    terminal,      \* columns of the last section
    checkpoints,   \* pieces LocalContentGuard keeps a copy of
    lost           \* pieces lost by an edit and not restored

vars == <<manuscript, template, phase, body, todo, terminal, checkpoints, lost>>

article == <<manuscript, template>>
pieces == <<checkpoints, lost>>

-----------------------------------------------------------------------------
(* Nodes.                                                                  *)

\* obj: "text", "carrier" (text with a picture in it), "blank", "anchor" (no
\* text, but a bookmark), "picture" (a picture without text), "container" (a
\* table of figures), "table", "row" (a picture wrapped with its caption),
\* "section" (a section mark).
Piece == [at : Nat, of : {"text", "link", "bookmark", "picture", "table"}]

Language == {"ru", "en"}

\* What the classification says of a paragraph, the roles a pass gives, and
\* one for all others.
Role == {"editorial_metadata", "article_type", "rubric", "title", "author",
         "affiliation", "email", "abstract", "keywords", "citation", "body",
         "heading_1", "heading_2", "figure", "figure_caption",
         "table_caption", "references_heading", "reference_item", "author_information",
         "author_bio", "received_metadata", "copyright_metadata",
         "paragraph", "front_shell", "none", "unknown"}

Node == [items : Seq(Piece),
         obj : {"text", "carrier", "blank", "anchor", "picture", "container",
                "table", "row", "section"},
         role : Role, zone : {"none", "front", "body", "back"},
         group : Nat, lang : Language \union {""},
         label : {"", "authors", "rubric", "form", "orcid", "field"},
         fields : SUBSET {"udc", "doi"}, size : {"small", "four", "large", "wide"},
         fig : Nat, columns : 0 .. 2]

\* A piece of the article stands in one place; what is blank holds none, and
\* a picture or a table is a piece itself.
IsManuscript(m) ==
    /\ m \in Seq(Node)
    /\ \A i, j \in DOMAIN m : \A k \in DOMAIN m[i].items, l \in DOMAIN m[j].items :
          m[i].items[k] = m[j].items[l] => i = j /\ k = l
    /\ \A i \in DOMAIN m :
          /\ m[i].obj \in {"blank", "section"} => m[i].items = <<>>
          /\ m[i].obj = "anchor" =>
                \A k \in DOMAIN m[i].items : m[i].items[k].of = "bookmark"
          /\ m[i].obj \in {"picture", "container", "table"} => m[i].items # <<>>
          /\ m[i].obj = "carrier" =>
                \E k \in DOMAIN m[i].items : m[i].items[k].of = "picture"

ASSUME ManuscriptsAssumption == \A m \in Manuscripts : IsManuscript(m)

Profile == [style : {"", "jamt"}, columns : 1 .. 2, languages : Seq(Language),
            roles : Seq(Role), merges : SUBSET Role, shell : BOOLEAN,
            fields : SUBSET {"udc", "doi"}, gaps : BOOLEAN]

ASSUME TemplatesAssumption == Templates \subseteq Profile

ASSUME BoundsAssumption == Lookahead \in Nat /\ MaxCrossed \in Nat

\* Roles that are the journal's and not the article's.
Metadata == {"editorial_metadata", "article_type", "rubric"}

\* The passes may drop what such a node holds: the journal's lines, and in the
\* front the bookmarks of a paragraph without text.
MayGo(n) == n.role \in Metadata \/ (n.obj = "anchor" /\ n.zone # "body")

\* A blank paragraph and a section mark the editor makes itself.
Spacer ==
    [items |-> <<>>, obj |-> "blank", role |-> "paragraph", zone |-> "front",
     group |-> 0, lang |-> "", label |-> "", fields |-> {}, size |-> "small",
     fig |-> 0, columns |-> 0]

Mark(n) == [Spacer EXCEPT !.obj = "section", !.columns = n]

HasText(n) == n.obj \in {"text", "carrier"}
Paragraph(n) == HasText(n) \/ n.obj \in {"blank", "anchor", "picture", "section"}
Textless(n) == Paragraph(n) /\ ~HasText(n)

\* The elements of s at the places T, in their order.
Picked(s, T) == FlattenSeq([i \in DOMAIN s |-> IF i \in T THEN <<s[i]>> ELSE <<>>])

\* The pieces of the nodes of b, in the order they are read.
Flow(b) == FlattenSeq([i \in DOMAIN b |-> b[i].items])

\* The first place from k on, up or down the body, whose node is not skipped.
Past(b, k, Skipped(_)) ==
    LET open == {i \in k .. Len(b) : ~Skipped(b[i])}
    IN  IF open = {} THEN Len(b) + 1 ELSE Min(open)

Before(b, k, Skipped(_)) ==
    LET open == {i \in 1 .. k : ~Skipped(b[i])}
    IN  IF open = {} THEN 0 ELSE Max(open)

\* One node of the texts of s, with the properties of the first.
Joined(s) == [s[1] EXCEPT !.items = Flow(s)]

\* The nodes from..to of b, put behind the node at place "after".
Moved(b, from, to, after) ==
    IF after > to
    THEN SubSeq(b, 1, from - 1) \o SubSeq(b, to + 1, after)
         \o SubSeq(b, from, to) \o SubSeq(b, after + 1, Len(b))
    ELSE SubSeq(b, 1, after) \o SubSeq(b, from, to)
         \o SubSeq(b, after + 1, from - 1) \o SubSeq(b, to + 1, Len(b))

-----------------------------------------------------------------------------
(* Pictures and the front of the article.                                  *)

NativeGroup(i) == 100 + i

\* A text that opens with "Fig. n" is classified as a caption.
IsCaption(n) == n.role = "figure_caption" /\ n.fig # 0

FigureGroup(b, i) ==
    IF i < Len(b) /\ IsCaption(b[i + 1]) /\ b[i + 1].group # 0
    THEN b[i + 1].group
    ELSE NativeGroup(i)

Pictures(items) == Picked(items, {k \in DOMAIN items : items[k].of = "picture"})
Words(items) == Picked(items, {k \in DOMAIN items : items[k].of # "picture"})

Detachable == {"body", "figure_caption", "heading_1", "heading_2"}

\* A picture without text becomes a figure and shares the group of its
\* caption; a picture among words, but not of a paragraph with a field or a
\* link of its own, leaves for a paragraph behind them.
Detached(b, i) ==
    LET n == IF i > 1 /\ IsCaption(b[i]) /\ b[i - 1].obj = "picture"
             THEN [b[i] EXCEPT !.group = FigureGroup(b, i - 1)] ELSE b[i]
    IN  IF n.obj = "picture"
        THEN <<[n EXCEPT !.role = "figure", !.group = FigureGroup(b, i),
                  !.zone = IF i < Len(b) /\ IsCaption(b[i + 1]) /\ b[i + 1].zone = "body"
                           THEN "body" ELSE @]>>
        ELSE IF n.obj = "carrier" /\ n.role \in Detachable /\ n.label # "field"
        THEN <<[n EXCEPT !.obj = "text", !.items = Words(@)],
               [n EXCEPT !.obj = "picture", !.role = "figure", !.zone = "body",
                  !.group = NativeGroup(i), !.items = Pictures(@)]>>
        ELSE <<n>>

DetachDisplayObjects ==
    /\ phase = "read"
    /\ phase' = "detached"
    /\ body' = FlattenSeq([i \in DOMAIN body |-> Detached(body, i)])
    /\ UNCHANGED <<article, todo, terminal, pieces>>

\* A line of a title that goes on with the line before it; a bookmark keeps
\* them apart.
TitleGoesOn(b, i) ==
    /\ i > 1
    /\ \A k \in {i - 1, i} : /\ b[k].obj = "text" /\ b[k].role = "title"
                             /\ \A it \in ToSet(b[k].items) : it.of # "bookmark"
    /\ b[i - 1].group = b[i].group

TitleEnd(b, i) ==
    Max({e \in i .. Len(b) : \A k \in (i + 1) .. e : TitleGoesOn(b, k)})

\* Fault: the lines that were merged stay where they were.
TitlesRepeated(b) ==
    FlattenSeq([i \in DOMAIN b |->
        IF TitleGoesOn(b, i) THEN <<b[i]>>
        ELSE <<Joined(SubSeq(b, i, TitleEnd(b, i)))>>])

TitlesMerged(b) ==
    FlattenSeq([i \in DOMAIN b |->
        IF TitleGoesOn(b, i) THEN <<>>
        ELSE <<Joined(SubSeq(b, i, TitleEnd(b, i)))>>])

\* A paragraph without text is dropped with the bookmarks in it.  So are labels
\* of a form: "Authors:" where the template places the authors, "Journal
\* rubric:" outside the fixed style.
Dropped(n, f) ==
    \/ n.obj \in {"blank", "anchor"}
    \/ n.role = "editorial_metadata" /\ n.label = "authors" /\ \E k \in DOMAIN f : f[k].role = "author"

\* The groups at the places T, by the template's languages and then as they come.
GroupOrder(f, T) ==
    LET begins == {i \in T : \A j \in T : j < i => f[j].group # f[i].group}
        titles(g) == {i \in T : f[i].group = g /\ f[i].role = "title"}
        rank(g) == IF titles(g) = {} THEN 0
                   ELSE SelectInSeq(template.languages, LAMBDA l : l = f[Min(titles(g))].lang)
        ranked(r) == Picked([i \in DOMAIN f |-> f[i].group],
                            {i \in begins : rank(f[i].group) = r})
    IN  FlattenSeq([r \in 1 .. Len(template.languages) |-> ranked(r)]) \o ranked(0)

OfRole(f, T, r) == Picked(f, {i \in T : f[i].role = r})

Placed(f, T, r) ==
    IF r \in template.merges /\ Len(OfRole(f, T, r)) > 1
    THEN <<Joined(OfRole(f, T, r))>> ELSE OfRole(f, T, r)

\* One group, at the places T of f, in the template's order of roles.
KnownRoles(f, T) ==
    LET known == template.roles
        again(k) == \E l \in 1 .. (k - 1) : known[l] = known[k]
    IN  FlattenSeq([k \in DOMAIN known |->
            IF again(k) THEN <<>> ELSE Placed(f, T, known[k])])

\* Roles the template does not know, as they come.
OtherRoles(f, T) ==
    LET begins(i) == /\ i \in T /\ ~Contains(template.roles, f[i].role)
                     /\ \A j \in T : j < i => f[j].role # f[i].role
    IN  FlattenSeq([i \in DOMAIN f |->
            IF begins(i) THEN OfRole(f, T, f[i].role) ELSE <<>>])

\* Fault: roles the template does not know are forgotten.
GroupOfKnownRoles(f, T) == KnownRoles(f, T)

GroupArranged(f, T) == KnownRoles(f, T) \o OtherRoles(f, T)

\* The groups at the places T of f, with a blank line between them.
GroupsArranged(f, T) ==
    LET order == GroupOrder(f, T)
        group(k) == GroupArranged(f, {i \in T : f[i].group = order[k]})
    IN  FlattenSeq([k \in DOMAIN order |->
            IF k = Len(order) THEN group(k) ELSE Append(group(k), Spacer)])

\* article type, rubric, other metadata, identifiers; the groups; the rest.
FrontArranged(f) ==
    LET kept == {i \in DOMAIN f : ~Dropped(f[i], f)}
        single == {i \in kept : f[i].group = 0}
        ofRole(r) == {i \in single : f[i].role = r}
        named == {i \in ofRole("editorial_metadata") : f[i].fields # {}}
        other == {i \in ofRole("editorial_metadata") \ named :
                     template.style = "jamt" \/ f[i].label # "rubric"}
    IN  Picked(f, ofRole("article_type"))
        \o Picked(f, ofRole("rubric"))
        \o Picked(f, other)
        \o Picked(f, named)
        \o GroupsArranged(f, kept \ single)
        \o Picked(f, {i \in single : f[i].role \notin Metadata})

\* "Article type: original", the line of a form, is written anew outside the
\* fixed style.
TypesRewritten(f) ==
    [k \in DOMAIN f |->
        IF /\ f[k].role = "article_type" /\ f[k].group = 0 /\ f[k].label = "form"
           /\ template.style = ""
        THEN [f[k] EXCEPT !.items = <<>>] ELSE f[k]]

BodyStart(b) == SelectInSeq(b, LAMBDA n : n.zone = "body")

\* A front with objects in it, or with a list of identifiers of authors,
\* keeps its order.
MaySort(f) ==
    /\ \A k \in DOMAIN f : f[k].obj \in {"text", "blank", "anchor"}
    /\ Cardinality({k \in DOMAIN f : f[k].label = "orcid"}) < 2

NormaliseFront(b) ==
    LET m == TitlesMerged(b)
        s == BodyStart(m)
        f == SubSeq(m, 1, s - 1)
    IN  IF s > 0 /\ MaySort(f)
        THEN FrontArranged(TypesRewritten(f)) \o SubSeq(m, s, Len(m)) ELSE m

NormaliseFrontMatter ==
    /\ phase = "detached"
    /\ phase' = "sorted"
    /\ body' = NormaliseFront(body)
    /\ UNCHANGED <<article, todo, terminal, pieces>>

-----------------------------------------------------------------------------
(* The fixed style of the journal, and what the template lends the front.  *)

IsIdentifier(n) == /\ n.obj = "text" /\ n.zone = "front"
                   /\ n.role = "editorial_metadata" /\ n.fields # {}

\* UDC and DOI on one line, at the place of the first of them.
IdentifiersJoined(b) ==
    LET places(f) == {i \in DOMAIN b : IsIdentifier(b[i]) /\ b[i].fields = f}
        u == Min(places({"udc"}))
        d == Min(places({"doi"}))
        pair == [Joined(<<b[u], b[d]>>) EXCEPT !.fields = {"udc", "doi"}]
    IN  IF /\ Cardinality(places({"udc"})) = 1 /\ Cardinality(places({"doi"})) = 1
           /\ places({"udc", "doi"}) = {}
        THEN RemoveAt(ReplaceAt(b, Min({u, d}), pair), Max({u, d}))
        ELSE b

\* The dates stand before the copyright line, or end the article.
DatesMoved(b) ==
    LET isDate(i) == b[i].role = "received_metadata"
        rest == Picked(b, {i \in DOMAIN b : ~isDate(i)})
        dates == Picked(b, {i \in DOMAIN b : isDate(i)})
        c == SelectInSeq(rest, LAMBDA n : n.role = "copyright_metadata")
        cut == IF c = 0 THEN Len(rest) ELSE c - 1
    IN  SubSeq(rest, 1, cut) \o dates \o SubSeq(rest, cut + 1, Len(rest))

FrontBlanksRemoved(b) ==
    LET s == BodyStart(b)
        front == IF s = 0 THEN DOMAIN b ELSE 1 .. (s - 1)
    IN  Picked(b, {i \in DOMAIN b : i \in front => b[i].obj # "blank"})

ArrangeFixedStyle ==
    /\ phase = "sorted"
    /\ phase' = "styled"
    /\ body' = IF template.style = "jamt"
               THEN FrontBlanksRemoved(DatesMoved(IdentifiersJoined(body)))
               ELSE body
    /\ UNCHANGED <<article, todo, terminal, pieces>>

Texts(items) == Picked(items, {k \in DOMAIN items : items[k].of = "text"})

\* The template's box takes the words of the first article type and of the
\* first rubric; their links, bookmarks and pictures go, all others go as a
\* whole, and a blank line keeps the text below the box.
ShellInstalled(b) ==
    LET isSource(n) == HasText(n) /\ n.role \in {"article_type", "rubric"}
        first(r) == SelectInSeq(b, LAMBDA n : HasText(n) /\ n.role = r)
        type == first("article_type")
        rubric == first("rubric")
        at == Min({type, rubric})
        shell == [Spacer EXCEPT !.obj = "text", !.role = "front_shell",
                    !.items = Texts(b[type].items) \o Texts(b[rubric].items)]
    IN  IF template.shell /\ type # 0 /\ rubric # 0
        THEN SubSeq(b, 1, at - 1) \o <<shell, Spacer>>
             \o Picked(b, {i \in at .. Len(b) : ~isSource(b[i])})
        ELSE b

FrontRoles == {"editorial_metadata", "title", "author", "affiliation",
               "email", "abstract", "keywords", "citation"}

\* An identifier the article does not name is lent by the template: on the
\* line of the other one, or on a line of its own above the front.
Looked == 20

PlaceholdersInstalled(b) ==
    LET named == UNION {b[i].fields : i \in 1 .. Min({Len(b), Looked})}
        missing == template.fields \ named
        target == SelectInSeq(b, LAMBDA n : /\ n.obj = "text" /\ n.fields # {}
                                            /\ n.role = "editorial_metadata")
        anchor == SelectInSeq(b, LAMBDA n :
            n.role \in FrontRoles \ {"editorial_metadata"})
        line == [Spacer EXCEPT !.obj = "text", !.role = "editorial_metadata",
                   !.fields = missing]
    IN  IF missing = {} THEN b
        ELSE IF target # 0
        THEN [b EXCEPT ![target].fields = @ \union missing]
        ELSE InsertAt(b, Max({anchor, 1}), line)

InstallTemplateFront ==
    /\ phase = "styled"
    /\ phase' = "fronted"
    /\ body' = PlaceholdersInstalled(ShellInstalled(body))
    /\ UNCHANGED <<article, todo, terminal, pieces>>

-----------------------------------------------------------------------------
(* Checkpoints, and edits of single paragraphs.                            *)

\* One edit may lose a piece of one paragraph.
MayLose(b) ==
    {{}} \union {{it} : it \in {i \in ToSet(Flow(b)) :
                                i.of \in {"text", "link"} /\ i.at \in Fragile}}

\* What was lost before the copies were made is lost in the copies too.
TakeCheckpoints ==
    /\ phase = "fronted"
    /\ phase' = "checked"
    /\ lost' \in MayLose(body)
    /\ checkpoints' = ToSet(Flow(body)) \ lost'
    /\ UNCHANGED <<article, body, todo, terminal>>

\* Blank lines between two parts of the front give way to a measured gap.
GapsApplied(b) ==
    LET blank(n) == n.obj = "blank"
        inGap(i) == /\ blank(b[i])
                    /\ LET p == Before(b, i, blank)
                           q == Past(b, i, blank)
                       IN  /\ p > 0 /\ q <= Len(b) /\ b[p].role # b[q].role
                           /\ b[p].role \in FrontRoles /\ b[q].role \in FrontRoles
    IN  Picked(b, {i \in DOMAIN b : ~inGap(i)})

FormatParagraphs ==
    /\ phase = "checked"
    /\ phase' = "formatted"
    /\ body' = IF template.gaps THEN GapsApplied(body) ELSE body
    /\ IF lost = {} THEN lost' \in MayLose(body) ELSE lost' = lost
    /\ UNCHANGED <<article, todo, terminal, checkpoints>>

-----------------------------------------------------------------------------
(* Figures and tables find their places.                                   *)

IsFigure(n) == n.obj \in {"picture", "container"}

\* The objects at the places T of b, in their order, known by their pieces.
Objects(b, T) == Picked([i \in DOMAIN b |-> b[i].items], T)

PlaceOf(b, items) == SelectInSeq(b, LAMBDA n : n.items = items)

\* The end of the captions that start at place j.
CaptionsEnd(b, j) == Past(b, j, LAMBDA n : n.role = "figure_caption") - 1

Mentions(n, k) == n.role = "body" /\ HasText(n) /\ n.fig = k

\* Fault: the search goes on past headings, tables and other figures.
DescriptionAnywhere(b, i, j, e) ==
    LET found == {c \in (e + 1) .. Min({Len(b), e + Lookahead}) : Mentions(b[c], b[j].fig)}
    IN  IF (\E k \in 1 .. (i - 1) : Mentions(b[k], b[j].fig)) \/ found = {}
        THEN 0 ELSE Min(found)

\* The paragraph that describes the figure at i, whose captions are j..e: the
\* first to mention it in the prose that follows; 0 if there is none, or an
\* earlier paragraph has mentioned it.
Description(b, i, j, e) ==
    LET reach == (e + 1) .. Min({Len(b), e + Lookahead})
        prose(c) == \A k \in (e + 1) .. c : b[k].obj = "blank" \/ b[k].role = "body"
        found == {c \in reach : prose(c) /\ Mentions(b[c], b[j].fig)}
    IN  IF (\E k \in 1 .. (i - 1) : Mentions(b[k], b[j].fig)) \/ found = {}
        THEN 0 ELSE Min(found)

FigureMoved(b, items) ==
    LET i == PlaceOf(b, items)
        j == Past(b, i + 1, LAMBDA n : n.obj = "blank")
        e == CaptionsEnd(b, j)
        d == Description(b, i, j, e)
    IN  IF j > Len(b) \/ ~IsCaption(b[j]) \/ d = 0 THEN b ELSE Moved(b, i, e, d)

DescriptionsBeforeFigures ==
    /\ phase = "formatted"
    /\ phase' = "described"
    /\ todo' = Objects(body, {i \in DOMAIN body : IsFigure(body[i])})
    /\ UNCHANGED <<article, body, terminal, pieces>>

DescribeFigure ==
    /\ phase = "described"
    /\ todo # <<>>
    /\ body' = FigureMoved(body, Head(todo))
    /\ todo' = Tail(todo)
    /\ UNCHANGED <<article, phase, terminal, pieces>>

\* The caption before a table, past lines without text; 0 if there is none.
TableCaption(b, i) ==
    LET c == Before(b, i - 1, Textless)
    IN  IF c > 0 /\ b[c].role = "table_caption" THEN c ELSE 0

Compact(n) == n.obj = "table" /\ n.size \in {"small", "four"}

\* A figure's caption above, with one to max paragraphs in between.
FloatAnchor(b, c, max) ==
    LET skipped(n) == Textless(n) \/ (HasText(n) /\ n.role = "body")
        a == Before(b, c - 1, skipped)
        crossed == Cardinality({k \in (a + 1) .. (c - 1) : HasText(b[k])})
    IN  IF a > 0 /\ HasText(b[a]) /\ b[a].role = "figure_caption" /\ crossed \in 1 .. max
        THEN a ELSE 0

TableFloated(b, items, max) ==
    LET t == PlaceOf(b, items)
        c == TableCaption(b, t)
        a == FloatAnchor(b, c, max)
    IN  IF c = 0 \/ a = 0 THEN b
        ELSE Moved(b, c, t, Past(b, a + 1, Textless) - 1)

\* Only for a template with columns.
FloatCompactTables ==
    /\ phase = "described"
    /\ todo = <<>>
    /\ phase' = "placed"
    /\ todo' = IF template.columns > 1
               THEN Objects(body, {i \in DOMAIN body : Compact(body[i])}) ELSE <<>>
    /\ UNCHANGED <<article, body, terminal, pieces>>

\* The planner may lower the bound, and so does the length of the paragraphs.
FloatTable ==
    /\ phase = "placed"
    /\ todo # <<>>
    /\ \E max \in 0 .. MaxCrossed : body' = TableFloated(body, Head(todo), max)
    /\ todo' = Tail(todo)
    /\ UNCHANGED <<article, phase, terminal, pieces>>

-----------------------------------------------------------------------------
(* Sections.                                                               *)

FrontClosed(b) ==
    LET s == BodyStart(b) IN IF s = 0 THEN b ELSE InsertAt(b, s, Mark(1))

\* Objects that do not fit a column.
NeedsThePage(n) ==
    \/ n.obj \in {"picture", "container"} /\ n.size = "wide"
    \/ n.obj = "table" /\ (n.size = "wide" \/ (n.size = "four" /\ template.style = "jamt"))

\* From where to where the section of the wide object at i reaches: to the
\* captions of its group, or from the captions of a table.
WideSpan(b, i) ==
    LET captions(k, g) == Past(b, k, LAMBDA n : n.role = "figure_caption" /\ n.group = g) - 1
        c == TableCaption(b, i)
        j == Past(b, i + 1, Textless)
    IN  CASE b[i].obj = "picture" -> <<i, captions(i + 1, b[i].group)>>
          [] b[i].obj = "table" ->
                <<IF c = 0 THEN i ELSE Before(b, c, LAMBDA n : n.role = "table_caption") + 1, i>>
          [] b[i].obj = "container" ->
                <<i, IF j > Len(b) \/ b[j].role # "figure_caption" THEN i
                     ELSE IF b[j].group = 0 THEN j
                     ELSE captions(j + 1, b[j].group)>>

Apart(s, t) == s[2] < t[1] \/ t[2] < s[1]

\* A span that meets an earlier one is left out.
WideSpans(b) ==
    LET places == SelectSeq([i \in DOMAIN b |-> i], LAMBDA i : NeedsThePage(b[i]))
    IN  FoldLeft(LAMBDA spans, i :
                    IF \A k \in DOMAIN spans : Apart(spans[k], WideSpan(b, i))
                    THEN Append(spans, WideSpan(b, i)) ELSE spans, <<>>, places)

TailRoles == {"author_information", "author_bio", "received_metadata", "copyright_metadata"}

\* The fixed style sets its closing part over the whole page.
Spans(b) ==
    LET wide == IF template.columns = 1 THEN <<>> ELSE WideSpans(b)
        start == SelectInSeq(b, LAMBDA n : n.role \in TailRoles)
        tail == <<start, Len(b)>>
    IN  IF template.style = "jamt" /\ start # 0
        THEN SelectSeq(wide, LAMBDA s : Apart(s, tail)) \o <<tail>>
        ELSE wide

\* Fault: a mark taken for the beginning of a section.
SpansMarkedAhead(b, spans) ==
    FlattenSeq([i \in DOMAIN b |->
        (IF \E k \in DOMAIN spans : spans[k][1] = i THEN <<Mark(1)>> ELSE <<>>)
        \o <<b[i]>>
        \o (IF \E k \in DOMAIN spans : spans[k][2] = i THEN <<Mark(template.columns)>> ELSE <<>>)])

\* A mark ends the section it stands in: columns before a span, one after.
SpansMarked(b, spans) ==
    FlattenSeq([i \in DOMAIN b |->
        (IF \E k \in DOMAIN spans : spans[k][1] = i THEN <<Mark(template.columns)>> ELSE <<>>)
        \o <<b[i]>>
        \o (IF \E k \in DOMAIN spans : spans[k][2] = i THEN <<Mark(1)>> ELSE <<>>)])

\* A list of references that ends the article is balanced by a last section.
EndsWithReferences(b) ==
    LET l == Before(b, Len(b), LAMBDA n : ~HasText(n))
    IN  l > 0 /\ b[l].role = "reference_item"

InstallSections ==
    LET closed == FrontClosed(body)
        marked == SpansMarked(closed, Spans(closed))
        balance == template.columns > 1 /\ EndsWithReferences(marked)
    IN  /\ phase = "placed"
        /\ todo = <<>>
        /\ phase' = "sectioned"
        /\ body' = IF balance THEN Append(marked, Mark(template.columns)) ELSE marked
        /\ terminal' = IF balance THEN 1 ELSE template.columns
        /\ UNCHANGED <<article, todo, pieces>>

\* A picture and the captions of one group in a row that is not divided.
PictureWrapped(b, items) ==
    LET i == PlaceOf(b, items)
        j == Past(b, i + 1, LAMBDA n : n.obj = "blank")
        e == Past(b, j + 1, LAMBDA n : n.role = "figure_caption" /\ n.group = b[j].group) - 1
        row == [Joined(SubSeq(b, i, e)) EXCEPT !.obj = "row", !.role = "none", !.zone = "none"]
    IN  IF j > Len(b) \/ b[j].role # "figure_caption" THEN b
        ELSE SubSeq(b, 1, i - 1) \o <<row>> \o SubSeq(b, e + 1, Len(b))

WrapPictureCaptions ==
    /\ phase = "sectioned"
    /\ phase' = "wrapped"
    /\ todo' = Objects(body, {i \in DOMAIN body : body[i].obj = "picture"})
    /\ UNCHANGED <<article, body, terminal, pieces>>

\* A picture that is high, anchored or one of several, or whose captions are
\* long, is left as it is.
WrapPicture ==
    /\ phase = "wrapped"
    /\ todo # <<>>
    /\ body' \in {body, PictureWrapped(body, Head(todo))}
    /\ todo' = Tail(todo)
    /\ UNCHANGED <<article, phase, terminal, pieces>>

-----------------------------------------------------------------------------
(* Recovery, the last arrangement, and the comparison with the source.     *)

\* A paragraph that left the document cannot be restored; a piece that was
\* lost since the checkpoints comes back from the copy.
Recover ==
    /\ phase = "wrapped"
    /\ todo = <<>>
    /\ IF checkpoints \subseteq ToSet(Flow(body))
       THEN phase' = "recovered" /\ lost' = lost \ checkpoints
       ELSE phase' = "refused" /\ lost' = lost
    /\ UNCHANGED <<article, body, todo, terminal, checkpoints>>

\* The two headings on the authors share a line, English first, above a table
\* with the two texts.
AuthorsSideBySide(b) ==
    LET heads == {i \in DOMAIN b : b[i].role = "author_information"}
        isBio(n) == n.role = "author_bio"
        head(l) == CHOOSE i \in heads : b[i].lang = l
        end(i) == Past(b, i + 1, isBio) - 1
        bios(l) == SubSeq(b, head(l) + 1, end(head(l)))
        first == Min(heads)
        second == Max(heads)
        pair == <<Joined(<<b[head("en")], b[head("ru")]>>),
                  [Spacer EXCEPT !.obj = "row", !.role = "none", !.zone = "none",
                     !.items = Flow(bios("en")) \o Flow(bios("ru"))]>>
    IN  IF /\ Cardinality(heads) = 2 /\ {b[i].lang : i \in heads} = {"en", "ru"}
           /\ bios("en") # <<>> /\ bios("ru") # <<>> /\ end(first) + 1 = second
        THEN SubSeq(b, 1, first - 1) \o pair \o SubSeq(b, end(second) + 1, Len(b))
        ELSE b

ArrangeAuthorColumns ==
    /\ phase = "recovered"
    /\ phase' = "arranged"
    /\ body' = IF template.style = "jamt" THEN AuthorsSideBySide(body) ELSE body
    /\ IF lost = {} /\ body' # body THEN lost' \in MayLose(body) ELSE lost' = lost
    /\ UNCHANGED <<article, todo, terminal, checkpoints>>

\* What the comparison looks for: all of the article but the words of its
\* journal metadata.
Science(m) ==
    UNION {{it \in ToSet(m[i].items) : m[i].role \notin Metadata \/ it.of # "text"} :
           i \in DOMAIN m}

Missing == Science(manuscript) \ (ToSet(Flow(body)) \ lost)

\* The comparison counts words and objects of the whole result.  Words that
\* are missing may be made up for by those of the journal's lines, of the
\* template or of a number set before a heading; links, bookmarks and pictures
\* by those of the template's box.
MadeUpFor(it) ==
    it.of = "text" \/ \E i \in DOMAIN body : body[i].role = "front_shell"

WriteDocument ==
    /\ phase = "arranged"
    /\ \A it \in Missing : MadeUpFor(it)
    /\ phase' = "written"
    /\ UNCHANGED <<article, body, todo, terminal, pieces>>

RefuseDocument ==
    /\ phase = "arranged"
    /\ Missing # {}
    /\ phase' = "refused"
    /\ UNCHANGED <<article, body, todo, terminal, pieces>>

-----------------------------------------------------------------------------
Init ==
    /\ manuscript \in Manuscripts
    /\ template \in Templates
    /\ phase = "read"
    /\ body = manuscript
    /\ todo = <<>>
    /\ terminal = 1
    /\ checkpoints = {}
    /\ lost = {}

Next ==
    \/ DetachDisplayObjects
    \/ NormaliseFrontMatter
    \/ ArrangeFixedStyle
    \/ InstallTemplateFront
    \/ TakeCheckpoints
    \/ FormatParagraphs
    \/ DescriptionsBeforeFigures \/ DescribeFigure
    \/ FloatCompactTables \/ FloatTable
    \/ InstallSections
    \/ WrapPictureCaptions \/ WrapPicture
    \/ Recover
    \/ ArrangeAuthorColumns
    \/ WriteDocument \/ RefuseDocument

Spec == Init /\ [][Next]_vars

-----------------------------------------------------------------------------
(* Properties.                                                             *)

Place(it) == SelectInSeq(Flow(body), LAMBDA x : x = it)

Pieces(i) == ToSet(manuscript[i].items)

\* The pieces of nodes no pass may drop.
Kept(m) == UNION {ToSet(m[i].items) : i \in {k \in DOMAIN m : ~MayGo(m[k])}}

\* Whatever was merged, sorted, moved or wrapped so far, the body holds each
\* piece of the article once, the journal's lines and the front's paragraphs
\* without text aside.  The comparison at the end counts, so it sees a
\* piece that stands twice in no case, and a lost one not in every case.
EveryPieceStandsOnce ==
    Kept(manuscript) \subseteq ToSet(Flow(body)) /\ IsInjective(Flow(body))

\* An edit lost it where the checkpoints do not see it: before they were made,
\* or, in the fixed style, when the texts on the authors were placed side by
\* side after the recovery.
LostUnseen(it) == it \in lost /\ (it \notin checkpoints \/ template.style = "jamt")

\* An article is refused only when something is missing from it.  Refused or
\* written, it misses nothing but what an edit lost unseen, and what stood in
\* the journal's lines or in the front's paragraphs without text: the links
\* and bookmarks there are dropped by passes, though the comparison counts
\* them.
LossesAreExplained ==
    phase \in {"written", "refused"} =>
        /\ phase = "refused" => Missing # {}
        /\ \A it \in Missing : LostUnseen(it) \/ it \notin Kept(manuscript)

\* Captions of the manuscript with what they belong to: the next line after a
\* figure, the last one before a table, and the lines of one caption, blank
\* lines aside.
Captioned ==
    LET blank(n) == n.obj = "blank"
        goesOn(i, j) == /\ manuscript[i].role = "figure_caption" /\ manuscript[i].group # 0
                        /\ manuscript[j].role = "figure_caption"
                        /\ manuscript[j].group = manuscript[i].group
        belongs(i, j) == /\ j = Past(manuscript, i + 1, blank)
                         /\ \/ IsFigure(manuscript[i]) /\ manuscript[j].role = "figure_caption"
                            \/ manuscript[i].role = "table_caption" /\ manuscript[j].obj = "table"
                            \/ goesOn(i, j)
    IN  {p \in (DOMAIN manuscript) \X (DOMAIN manuscript) : belongs(p[1], p[2])}

CaptionsKeepTheirObjects ==
    \A p \in Captioned : \A a \in Pieces(p[1]), c \in Pieces(p[2]) :
        Place(c) = Place(a) + 1

\* What is read in one order: the text, the figures, the tables.
Kind(n) ==
    CASE IsFigure(n) -> "figure"
      [] n.obj = "table" -> "table"
      [] n.role \in {"body", "heading_1", "reference_item"} -> "prose"
      [] OTHER -> "other"

ReadingOrderIsKept ==
    \A i, j \in DOMAIN manuscript :
        i < j /\ Kind(manuscript[i]) = Kind(manuscript[j]) /\ Kind(manuscript[i]) # "other" =>
            \A a \in Pieces(i), c \in Pieces(j) : Place(a) < Place(c)

\* Moving figures behind their descriptions and tables towards the figures
\* above them separates no caption from its object, and the text, the figures
\* and the tables are each read in the order of the manuscript.
FlowIsKept ==
    phase = "written" => CaptionsKeepTheirObjects /\ ReadingOrderIsKept

\* The columns a node is set in: those of the mark that ends its section.
ColumnsAt(i) ==
    LET m == Past(body, i, LAMBDA n : n.obj # "section")
    IN  IF m > Len(body) THEN terminal ELSE body[m].columns

\* Wide objects are set over the page, and with them the captions above a
\* table, the first one below a table of figures, and all of its group right
\* below a picture, wrapped with it or not.  (One that a blank line parts from
\* its picture is left in the columns, unless it was wrapped.)  The front is
\* set over the page too; the text of the article has the template's columns.
WideObjectsHaveThePage ==
    phase = "written" =>
        \A i \in DOMAIN body :
            /\ NeedsThePage(body[i]) \/ (body[i].obj = "row" /\ body[i].size = "wide")
                    => ColumnsAt(i) = 1
            /\ body[i].obj = "table" /\ NeedsThePage(body[i]) /\ TableCaption(body, i) # 0
                    => ColumnsAt(TableCaption(body, i)) = 1
            /\ body[i].obj = "picture" /\ NeedsThePage(body[i]) =>
                  LET its(n) == n.role = "figure_caption" /\ n.group = body[i].group IN
                  \A c \in (i + 1) .. (Past(body, i + 1, its) - 1) : ColumnsAt(c) = 1
            /\ body[i].obj = "container" /\ NeedsThePage(body[i]) =>
                  LET c == Past(body, i + 1, Textless) IN
                  c <= Len(body) /\ body[c].role = "figure_caption" => ColumnsAt(c) = 1
            /\ body[i].zone = "front" /\ HasText(body[i]) /\ BodyStart(body) # 0
                    => ColumnsAt(i) = 1
            /\ body[i].role = "body" => ColumnsAt(i) = template.columns

=============================================================================
