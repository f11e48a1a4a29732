---------------------------- MODULE ConversionMC ----------------------------
EXTENDS Conversion, TLC

\* e, long: English; r: Russian.
MCLanguage == [t \in Texts |-> IF t = "r" THEN "ru" ELSE "en"]

Blank == [kind |-> "paragraph", role |-> "paragraph", form |-> "plain",
          text |-> NoText, pics |-> 0, eqs |-> 0, bare |-> FALSE, cites |-> {},
          level |-> 0, ordered |-> FALSE, single |-> FALSE, portable |-> TRUE]
Line(role, text) == [Blank EXCEPT !.role = role, !.text = text]
Formed(form, text) == [Blank EXCEPT !.form = form, !.text = text]
Listed(level, ordered) ==
    [Line("list_item", "e") EXCEPT !.level = level, !.ordered = ordered]

Text == Line("paragraph", "e")
Picture == [Blank EXCEPT !.pics = 1]
Grid == [Blank EXCEPT !.kind = "table"]
Panels == [Grid EXCEPT !.pics = 2]
Formula == [Blank EXCEPT !.eqs = 1]

\* The beginning of an article.
Front == {Line("title", "e"), Line("subtitle", "e"), Line("author", "e"),
          Line("author", "r"), Line("affiliation", "e"),
          Formed("surnames", "e"), Text, Line("section", "e")}
\* Abstracts, keywords and the lines of the editors.
Summary == {Line("abstract", "long"), Line("abstract", "r"),
            Line("abstract_heading", "e"), Line("paragraph", "long"),
            Line("keywords", "e"),
            [Formed("rubric", "e") EXCEPT !.role = "editorial_metadata"],
            [Formed("short", "e") EXCEPT !.pics = 1], Formed("doi", "e"),
            [Formed("udc", "e") EXCEPT !.pics = 1]}
\* Objects and their captions.
Captioned == {Picture, [Picture EXCEPT !.bare = TRUE], Formed("caption", "e"),
             Grid, Panels, Text,
             [Grid EXCEPT !.eqs = 1, !.single = TRUE],
             [Formed("caption", "e") EXCEPT !.role = "title"]}
\* References.
Sources == {Line("references_heading", "e"), Line("reference", "e"),
            Line("reference", "r"), [Listed(0, TRUE) EXCEPT !.cites = {1, 2}],
            [Text EXCEPT !.cites = {2}], [Listed(0, TRUE) EXCEPT !.cites = {2}]}
\* What follows them.
Endings == {Line("references_heading", "e"), Text, Formed("capitals", "e"),
            Formed("initials", "e"), Line("section", "e"), Grid}
\* Lists.
Lists == {Listed(0, TRUE), Listed(0, FALSE), Listed(1, TRUE), Listed(1, FALSE),
          Listed(2, TRUE), [Formula EXCEPT !.bare = TRUE],
          [Blank EXCEPT !.bare = TRUE]}
\* What is copied, and what cannot be.
Copies == {Formed("email", "e"), [Text EXCEPT !.pics = 1],
           [Text EXCEPT !.eqs = 1, !.portable = FALSE],
           [Grid EXCEPT !.portable = FALSE], [Panels EXCEPT !.portable = FALSE],
           [Picture EXCEPT !.pics = 2], [Formula EXCEPT !.portable = FALSE],
           [Line("reference", "e") EXCEPT !.pics = 1]}

MCFamilies == {Front, Summary, Captioned, Sources, Endings, Lists, Copies}
MCItems == UNION MCFamilies
=============================================================================
