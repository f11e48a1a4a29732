---------------------------- MODULE ArticleParser ----------------------------
(***************************************************************************)
(* DocxParser.parse (paper_formatter/parsers/docx_parser.py): the          *)
(* paragraphs and tables of a Word document, one after the other, become   *)
(* an article: metadata, a body of blocks and a list of references.        *)
(*                                                                         *)
(* The role of a paragraph is the decision of the classifier and is any    *)
(* role; an unknown one is read as that of a paragraph.  What the regular  *)
(* expressions of the parser see in its text is its form.  Everything the  *)
(* article holds is tagged with the place of the item it comes from.       *)
(***************************************************************************)
EXTENDS Integers, Sequences, FiniteSets

CONSTANTS
    Items,      \* the paragraphs and tables a document is made of
    Texts,      \* the texts they may have
    NoText,     \* no text
    Language,   \* the language of each text
    LongTexts,  \* those of 180 characters and more
    MaxItems    \* bound: items of a document

MetadataRoles == {"title", "subtitle", "author", "affiliation",
                  "abstract_heading", "abstract", "keywords",
                  "editorial_metadata"}
SectionRoles == {"section", "subsection", "subsubsection"}
CaptionRoles == {"figure_caption", "table_caption"}
Roles == MetadataRoles \cup SectionRoles \cup CaptionRoles
         \cup {"references_heading", "reference", "list_item", "paragraph"}

\* rubric: a prompt for the section of the journal; short: no sentence, hence
\* possibly its value; capitals: a latin title; initials: a latin line of
\* authors; surnames: a line of authors; caption: "Figure 1".
Forms == {"plain", "rubric", "short", "udc", "doi", "capitals", "initials",
          "surnames", "caption", "email"}

\* pics, eqs: pictures and display formulas of the item.  bare: a paragraph
\* without text but with runs, which are spaces, a page break, an embedded object
\* or, if it has a formula, inline mathematics.  cites: the
\* numbers of a bracket like [1, 2] in the text.  level, ordered: of a list
\* item.  single: a table of one row, with a number at most beside its first
\* cell.  portable: its markup can be taken over into another document.
ItemType ==
    [kind : {"paragraph", "table"}, role : Roles, form : Forms,
     text : Texts \cup {NoText}, pics : Nat, eqs : Nat, bare : BOOLEAN,
     cites : SUBSET Nat, level : Nat, ordered : BOOLEAN, single : BOOLEAN,
     portable : BOOLEAN]

ASSUME ItemsAssumption ==
    /\ Items \subseteq ItemType
    /\ \A item \in Items :
        /\ item.text = NoText => /\ item.form = "plain"
                                /\ item.cites = {}
                                /\ item.role \notin CaptionRoles
        /\ item.bare => item.text = NoText
ASSUME TextsAssumption == /\ NoText \notin Texts
                          /\ Language \in [Texts -> {"ru", "en"}]
                          /\ LongTexts \subseteq Texts

VARIABLES
    source,     \* the items that were read
    article,    \* what they have become
    caption,    \* pending_caption: the place of a caption, 0 if none
    mode        \* references, secondary, editorial: what the next paragraph
                \* may belong to

parserVars == <<source, article, caption, mode>>

Kinds == {"section", "paragraph", "item", "equation", "figure", "table"}
BlockType == [kind : Kinds, at : Nat, caption : Nat]

EmptyArticle ==
    [titles |-> <<>>, subtitles |-> <<>>, lines |-> <<>>, authors |-> <<>>,
     variants |-> <<>>, affiliations |-> <<>>, abstracts |-> <<>>,
     keywords |-> <<>>, udc |-> 0, doi |-> 0, body |-> <<>>,
     references |-> <<>>, citations |-> {}, warnings |-> {}]

Plain == [references |-> FALSE, secondary |-> FALSE, editorial |-> FALSE]

ParserInit ==
    /\ source = <<>>
    /\ article = EmptyArticle
    /\ caption = 0
    /\ mode = Plain

(***************************************************************************)
(* Blocks                                                                  *)
(***************************************************************************)
TextAt(n) == source[n].text

Block(kind, at) == [kind |-> kind, at |-> at, caption |-> 0]

\* The display formulas and the pictures of item number n; cap is the caption
\* of the first picture.
Equations(n, item) == [e \in 1..item.eqs |-> Block("equation", n)]
Figures(n, item, cap) ==
    [p \in 1..item.pics |->
        [Block("figure", n) EXCEPT !.caption = IF p = 1 THEN cap ELSE 0]]

Objects(n, item, cap) == Equations(n, item) \o Figures(n, item, cap)

\* A paragraph with a picture takes the pending caption for it, whatever else
\* becomes of the paragraph.
TakesCaption(item) == caption # 0 /\ item.pics > 0
CaptionTaken(item) == IF TakesCaption(item) THEN caption ELSE 0
CaptionLeft(item) == IF TakesCaption(item) THEN 0 ELSE caption

IsContinuation(item) == mode.editorial /\ item.form = "short"

\* The branch of parse that a paragraph takes.
Branch(item) ==
    LET text == item.text # NoText
    IN  IF IsContinuation(item) /\ text THEN "continuation"
        ELSE IF item.role \in MetadataRoles THEN item.role
        ELSE IF text /\ item.form \in {"udc", "doi"} THEN item.form
        ELSE IF mode.references /\ text /\ item.form = "capitals"
             THEN "secondary_title"
        ELSE IF mode.secondary /\ text /\ item.form = "initials"
             THEN "secondary_authors"
        ELSE IF item.role = "references_heading" THEN item.role
        ELSE IF \/ item.role = "reference"
                \/ (mode.references /\ text /\ item.role \notin SectionRoles)
             THEN "reference"
        ELSE IF item.role \in SectionRoles THEN "section"
        ELSE IF item.role \in CaptionRoles \/ (text /\ item.form = "caption")
             THEN "caption"
        ELSE IF item.role = "list_item" THEN "item"
        ELSE IF text \/ item.bare THEN "paragraph"
        ELSE "empty"

Paragraph(item, branches) ==
    /\ Len(source) < MaxItems
    /\ item.kind = "paragraph"
    /\ Branch(item) \in branches
    /\ source' = Append(source, item)

Here == Len(source) + 1
Entry(item) == [at |-> Here, text |-> item.text]
WithEntry(entries, item) ==
    IF item.text = NoText THEN entries ELSE Append(entries, Entry(item))

\* The body, item being handled by a branch that keeps its objects and puts
\* the blocks first before them.
BodyWith(first, item) ==
    article.body \o first \o Objects(Here, item, CaptionTaken(item))

\* What every paragraph does to the pending caption and the editorial value
\* that was expected.
Passed(item) ==
    /\ caption' = CaptionLeft(item)
    /\ mode' = [mode EXCEPT !.editorial = FALSE]

(***************************************************************************)
(* Metadata                                                                *)
(***************************************************************************)
Continuation(item) ==
    /\ Paragraph(item, {"continuation"})
    /\ article' = [article EXCEPT !.body = @ \o Objects(Here, item, 0)]
    /\ mode' = [mode EXCEPT !.editorial = FALSE]
    /\ UNCHANGED caption

Title(item) ==
    /\ Paragraph(item, {"title"})
    /\ article' = [article EXCEPT !.titles = WithEntry(@, item),
                                  !.body = BodyWith(<<>>, item)]
    /\ Passed(item)

Subtitle(item) ==
    /\ Paragraph(item, {"subtitle"})
    /\ article' = [article EXCEPT !.subtitles = WithEntry(@, item),
                                  !.body = BodyWith(<<>>, item)]
    /\ Passed(item)

AuthorLine(item) ==
    /\ Paragraph(item, {"author"})
    /\ article' = [article EXCEPT !.lines = WithEntry(@, item),
                                  !.body = BodyWith(<<>>, item)]
    /\ Passed(item)

AffiliationLine(item) ==
    /\ Paragraph(item, {"affiliation"})
    /\ article' = [article EXCEPT !.affiliations = WithEntry(@, item),
                                  !.body = BodyWith(<<>>, item)]
    /\ Passed(item)

\* A paragraph of the language of the last abstract continues it.
AppendAbstract(abstracts, item) ==
    LET n == Len(abstracts)
    IN  IF item.text = NoText THEN abstracts
        ELSE IF n > 0 /\ Language[abstracts[n].text] = Language[item.text]
        THEN [abstracts EXCEPT ![n].texts = @ \cup {item.text}]
        ELSE Append(abstracts, [at |-> Here, text |-> item.text,
                                texts |-> {item.text}])

Abstract(item) ==
    /\ Paragraph(item, {"abstract", "abstract_heading"})
    /\ article' = [article EXCEPT
            !.abstracts = IF item.role = "abstract"
                          THEN AppendAbstract(@, item) ELSE @,
            !.body = BodyWith(<<>>, item)]
    /\ Passed(item)

\* A keyword that is there already is not added again.
Keywords(item) ==
    /\ Paragraph(item, {"keywords"})
    /\ article' = [article EXCEPT
            !.keywords = IF \E k \in 1..Len(@) : @[k].text = item.text
                         THEN @ ELSE WithEntry(@, item),
            !.body = BodyWith(<<>>, item)]
    /\ Passed(item)

EditorialLine(item) ==
    /\ Paragraph(item, {"editorial_metadata"})
    /\ article' = [article EXCEPT !.body = BodyWith(<<>>, item)]
    /\ caption' = CaptionLeft(item)
    /\ mode' = [mode EXCEPT !.editorial = (item.form = "rubric")]

\* These lines go on with the next item at once: their pictures and formulas
\* are in no list, and a caption given to such a picture is gone with it.
Identifier(item) ==
    /\ Paragraph(item, {"udc", "doi"})
    /\ article' = IF item.form = "udc" THEN [article EXCEPT !.udc = Here]
                                       ELSE [article EXCEPT !.doi = Here]
    /\ Passed(item)

SecondaryTitle(item) ==
    /\ Paragraph(item, {"secondary_title"})
    /\ article' = [article EXCEPT !.titles = WithEntry(@, item)]
    /\ caption' = CaptionLeft(item)
    /\ mode' = [references |-> FALSE, secondary |-> TRUE, editorial |-> FALSE]

SecondaryAuthors(item) ==
    /\ Paragraph(item, {"secondary_authors"})
    /\ article' = [article EXCEPT !.variants = WithEntry(@, item)]
    /\ Passed(item)

(***************************************************************************)
(* References                                                              *)
(***************************************************************************)
ReferencesHeading(item) ==
    /\ Paragraph(item, {"references_heading"})
    /\ caption' = CaptionLeft(item)
    /\ mode' = [references |-> TRUE, secondary |-> FALSE, editorial |-> FALSE]
    /\ UNCHANGED article

\* key: the citation key ref<n>, which is never changed again.
ReferenceEntry(item) ==
    /\ Paragraph(item, {"reference"})
    /\ article' = [article EXCEPT
            !.references = IF item.text = NoText THEN @
                           ELSE Append(@, [at |-> Here, text |-> item.text,
                                           key |-> Len(@) + 1])]
    /\ Passed(item)

(***************************************************************************)
(* The body                                                                *)
(***************************************************************************)
Section(item) ==
    /\ Paragraph(item, {"section"})
    /\ article' = [article EXCEPT
            !.body = BodyWith(IF item.text = NoText THEN <<>>
                              ELSE <<Block("section", Here)>>, item)]
    /\ caption' = CaptionLeft(item)
    /\ mode' = Plain

\* The block a caption looks at: the last one that is not a formula.
Looked(body) ==
    LET others == {n \in 1..Len(body) : body[n].kind # "equation"}
    IN  IF others = {} THEN 0
        ELSE CHOOSE n \in others : \A m \in others : m <= n

\* Fault: a caption is attached to an object that has one.
AttachesAnyway(body) == /\ Looked(body) # 0
                        /\ body[Looked(body)].kind \in {"figure", "table"}

Attaches(body) ==
    /\ Looked(body) # 0
    /\ body[Looked(body)].kind \in {"figure", "table"}
    /\ body[Looked(body)].caption = 0

\* A caption that follows no free figure or table waits for the next one; one
\* that was waiting already is forgotten.
Caption(item) ==
    /\ Paragraph(item, {"caption"})
    /\ LET own == Objects(Here, item, CaptionTaken(item))
       IN  IF Attaches(article.body)
           THEN /\ article' = [article EXCEPT
                        !.body = [article.body EXCEPT
                                    ![Looked(article.body)].caption = Here] \o own]
                /\ caption' = CaptionLeft(item)
           ELSE /\ article' = [article EXCEPT !.body = @ \o own]
                /\ caption' = Here
    /\ mode' = [mode EXCEPT !.editorial = FALSE]

ListItem(item) ==
    /\ Paragraph(item, {"item"})
    /\ article' = [article EXCEPT
            !.body = BodyWith(<<Block("item", Here)>>, item)]
    /\ Passed(item)

BodyParagraph(item) ==
    /\ Paragraph(item, {"paragraph", "empty"})
    /\ article' = [article EXCEPT
            !.body = BodyWith(IF Branch(item) = "empty" THEN <<>>
                              ELSE <<Block("paragraph", Here)>>, item)]
    /\ Passed(item)

\* A table with pictures is a group of figures, a table of one row around a
\* formula is that formula, any other one is a table.
TableBlocks(n, item, cap) ==
    IF item.pics > 0 THEN Figures(n, item, cap)
    ELSE IF item.eqs > 0 /\ item.single THEN <<Block("equation", n)>>
    ELSE <<[Block("table", n) EXCEPT !.caption = cap]>>

TableItem(item) ==
    /\ Len(source) < MaxItems
    /\ item.kind = "table"
    /\ source' = Append(source, item)
    /\ LET blocks == TableBlocks(Here, item, caption)
       IN  /\ article' = [article EXCEPT !.body = @ \o blocks]
           /\ caption' = IF blocks[1].kind = "equation" THEN caption ELSE 0
    /\ UNCHANGED mode

Read(item) ==
    \/ Continuation(item) \/ Title(item) \/ Subtitle(item) \/ AuthorLine(item)
    \/ AffiliationLine(item) \/ Abstract(item) \/ Keywords(item)
    \/ EditorialLine(item) \/ Identifier(item) \/ SecondaryTitle(item)
    \/ SecondaryAuthors(item) \/ ReferencesHeading(item)
    \/ ReferenceEntry(item) \/ Section(item) \/ Caption(item)
    \/ ListItem(item) \/ BodyParagraph(item) \/ TableItem(item)

(***************************************************************************)
(* After the last item                                                     *)
(***************************************************************************)
Without(seq, n) == SubSeq(seq, 1, n - 1) \o SubSeq(seq, n + 1, Len(seq))

\* The elements of seq at these places, in their order.
AtPlaces(seq, places) ==
    LET Nth(k) == CHOOSE n \in places : Cardinality({m \in places : m <= n}) = k
    IN  [k \in 1..Cardinality(places) |-> seq[Nth(k)]]

\* A line of another language than the first title is a variant, once there is
\* an author.
SavedAuthors(a) ==
    LET lines == 1..Len(a.lines)
        others == {n \in lines \ {1} :
                    /\ a.titles # <<>>
                    /\ Language[a.lines[n].text] # Language[a.titles[1].text]}
    IN  [a EXCEPT !.authors = AtPlaces(a.lines, lines \ others),
                  !.variants = @ \o AtPlaces(a.lines, others)]

FirstOf(places) == CHOOSE n \in places : \A m \in places : n <= m

\* Without a title the first suitable paragraph among four blocks is the title.
WithTitle(a) ==
    LET places == {n \in 1..Len(a.body) :
                    /\ n <= 4
                    /\ a.body[n].kind = "paragraph"
                    /\ TextAt(a.body[n].at) # NoText
                    /\ source[a.body[n].at].form # "surnames"}
        n == FirstOf(places)
    IN  IF a.titles # <<>> \/ places = {} THEN a
        ELSE [a EXCEPT !.titles = <<[at |-> a.body[n].at,
                                     text |-> TextAt(a.body[n].at)]>>,
                       !.body = Without(@, n),
                       !.warnings = @ \cup {"title guessed"}]

\* Without authors a line of surnames among six blocks and before the first
\* section is theirs.
WithAuthors(a) ==
    LET places == {n \in 1..Len(a.body) :
                    /\ n <= 6
                    /\ a.body[n].kind = "paragraph"
                    /\ source[a.body[n].at].form = "surnames"
                    /\ \A m \in 1..n : a.body[m].kind # "section"}
        n == FirstOf(places)
    IN  IF a.authors # <<>> \/ places = {} THEN a
        ELSE [a EXCEPT !.authors = <<[at |-> a.body[n].at,
                                      text |-> TextAt(a.body[n].at)]>>,
                       !.body = Without(@, n),
                       !.warnings = @ \cup {"authors guessed"}]

\* A long paragraph that repeats an abstract is removed.
RepeatsAbstract(a, block) ==
    /\ block.kind = "paragraph"
    /\ TextAt(block.at) \in LongTexts
    /\ \E n \in 1..Len(a.abstracts) : TextAt(block.at) \in a.abstracts[n].texts

WithoutRepeats(a) ==
    LET repeats == {n \in 1..Len(a.body) : RepeatsAbstract(a, a.body[n])}
    IN  IF repeats = {} THEN a
        ELSE [a EXCEPT !.body = AtPlaces(@, 1..Len(a.body) \ repeats),
                       !.warnings = @ \cup {"repeats removed"}]

\* The references whose text an earlier one has.
Duplicates(a) ==
    {n \in 1..Len(a.references) :
        \E m \in 1..(n - 1) : a.references[m].text = a.references[n].text}

Merged(a) == AtPlaces(a.references, 1..Len(a.references) \ Duplicates(a))

\* Fault: the keys of merged references are made anew as well.
WithNewKeys(a) ==
    [a EXCEPT !.references =
        [n \in 1..Len(Merged(a)) |-> [Merged(a)[n] EXCEPT !.key = n]]]

\* Of references of one text the first is kept.  They are numbered anew, their
\* keys stay.
WithoutDuplicates(a) ==
    IF Duplicates(a) = {} THEN a
    ELSE [a EXCEPT !.references = Merged(a),
                   !.warnings = @ \cup {"references merged"}]

\* All numbers of a bracket must be numbers of the list, else none is linked.
CitationNumbers(numbers, maximum) ==
    IF numbers \subseteq 1..maximum THEN numbers ELSE {}

\* Brackets in paragraphs and items are linked to the keys of their numbers.
Linked(a) ==
    LET places == {n \in 1..Len(a.body) : a.body[n].kind \in {"paragraph", "item"}}
        Numbers(n) == CitationNumbers(source[a.body[n].at].cites, Len(a.references))
    IN  [a EXCEPT !.citations =
            {[at |-> a.body[n].at, keys |-> Numbers(n)] :
                n \in {p \in places : Numbers(p) # {}}}]

Warned(a) ==
    LET Add(test, warning) == IF test THEN {warning} ELSE {}
    IN  [a EXCEPT !.warnings = @ \cup Add(caption # 0, "caption without object")
                                 \cup Add(a.titles = <<>>, "no title")
                                 \cup Add(a.authors = <<>>, "no authors")
                                 \cup Add(a.body = <<>>, "no body")]

Parsed ==
    Warned(Linked(WithoutDuplicates(WithoutRepeats(
        WithAuthors(WithTitle(SavedAuthors(article)))))))

Finish ==
    /\ article' = Parsed
    /\ UNCHANGED <<source, caption, mode>>

=============================================================================
