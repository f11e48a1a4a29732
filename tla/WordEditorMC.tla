---------------------------- MODULE WordEditorMC ----------------------------
(***************************************************************************)
(* Small articles for WordEditor: fronts of two languages with the lines   *)
(* of an editorial form, and bodies in which figures, tables and the prose *)
(* about them follow one another in every order.                           *)
(***************************************************************************)
EXTENDS WordEditor

Line(role, zone) == [Spacer EXCEPT !.obj = "text", !.role = role, !.zone = zone]
Blank == [Spacer EXCEPT !.zone = "none"]

Holding(n, kinds) == [n EXCEPT !.items = [k \in DOMAIN kinds |-> [at |-> 0, of |-> kinds[k]]]]
Linked(n) == Holding(n, <<"text", "link">>)
Bookmarked(n) == Holding(n, <<"text", "bookmark">>)
Anchor == Holding([Blank EXCEPT !.obj = "anchor"], <<"bookmark">>)

(* Lines of the front.                                                     *)

Of(role, lang, group) == [Line(role, "front") EXCEPT !.lang = lang, !.group = group]
Labelled(role, label) == [Line(role, "front") EXCEPT !.label = label]
Identifier(f) == [Line("editorial_metadata", "front") EXCEPT !.fields = {f}]

Russian == <<Of("title", "ru", 1), Of("title", "ru", 1), Linked(Of("author", "ru", 1)),
             Of("affiliation", "ru", 1), Of("email", "ru", 1), Of("affiliation", "ru", 1)>>
English == <<Of("author", "en", 2), Of("title", "en", 2), Of("abstract", "en", 2)>>

Rubrics == {<<>>, <<Line("rubric", "front")>>,
            <<Labelled("editorial_metadata", "rubric"), Line("rubric", "front"),
              Line("article_type", "front"), Line("rubric", "front")>>,
            <<Linked(Labelled("article_type", "form")), Bookmarked(Line("rubric", "front"))>>}

Identifiers == {<<>>, <<Identifier("doi")>>,
                <<Identifier("doi"), Anchor, Blank, Identifier("udc")>>}

Languages == {Russian \o <<Blank, Blank>> \o English,
              English \o <<Labelled("editorial_metadata", "authors")>> \o Russian}

Extras == {<<>>, <<Labelled("unknown", "")>>,
           <<Labelled("unknown", "orcid"), Labelled("unknown", "orcid")>>,
           <<[Blank EXCEPT !.obj = "picture"], Bookmarked(Of("title", "en", 3)), Of("title", "en", 3)>>}

Fronts == {r \o i \o l \o e : r \in Rubrics, i \in Identifiers, l \in Languages, e \in Extras}

(* Blocks of the body.                                                     *)

Prose(k) == [Line("body", "body") EXCEPT !.fig = k]
Caption(k, g) == [Line("figure_caption", "body") EXCEPT !.fig = k, !.group = g]
Object(o, size) == [Blank EXCEPT !.obj = o, !.size = size]

Figure == <<Object("picture", "small"), Caption(1, 0)>>
WideFigure == <<Object("picture", "wide"), Caption(2, 9), Caption(0, 9)>>
SpacedFigure == <<Object("picture", "wide"), Blank, Caption(4, 0)>>
Panels == <<Object("container", "wide"), Blank, Caption(1, 0)>>
SmallTable == <<Line("table_caption", "body"), Object("table", "four")>>
WideTable == <<Line("table_caption", "body"), Blank, Object("table", "wide")>>
WithPicture == <<[Prose(1) EXCEPT !.obj = "carrier"], Caption(3, 0)>>
WithField == <<[Prose(2) EXCEPT !.obj = "carrier", !.label = "field"]>>

Blocks == {Figure, WideFigure, Panels, <<Prose(1)>>, <<Prose(2)>>, SmallTable,
           WideTable, WithPicture, SpacedFigure}

\* Blocks in any order: any four of them, or all that can be moved.
Bodies == {<<Prose(0)>> \o FlattenSeq(s) : s \in
              UNION {SetToSeqs(S) : S \in kSubset(4, Blocks)
                       \union {{Figure, WideFigure, <<Prose(1)>>, <<Prose(2)>>, SmallTable}}}}

References == <<Line("references_heading", "back"), Line("reference_item", "back")>>

Authors(l) == <<[Line("author_information", "back") EXCEPT !.lang = l],
                Line("author_bio", "back")>>

Endings == {References,
            <<Line("received_metadata", "back")>> \o References
              \o Authors("ru") \o Authors("en") \o <<Line("copyright_metadata", "back")>>}

ShortFront == <<Of("title", "ru", 1), Of("author", "ru", 1)>>

(* Nodes know the pieces they hold by their place.                         *)

Pieced(n, i) ==
    LET piece(w) == [at |-> i, of |-> w]
    IN  [n EXCEPT !.items =
            CASE n.items # <<>> -> [k \in DOMAIN n.items |-> piece(n.items[k].of)]
              [] n.obj = "blank" -> <<>>
              [] n.obj = "carrier" -> <<piece("text"), piece("picture")>>
              [] n.obj \in {"container", "table"} -> <<piece("table")>>
              [] OTHER -> <<piece(n.obj)>>]

MCManuscripts ==
    {[i \in DOMAIN m |-> Pieced(m[i], i)] : m \in
        {f \o <<Prose(0)>> \o References : f \in Fronts}
        \union {ShortFront \o <<Prose(0)>> \o WithField \o References}
        \union {ShortFront \o b \o e : b \in Bodies, e \in Endings}}

(* Templates: the fixed style, a journal in columns, and a plain one.      *)

Jamt == [style |-> "jamt", columns |-> 2, languages |-> <<"en", "ru">>,
         roles |-> <<"title", "author", "affiliation", "abstract">>,
         merges |-> {"author", "affiliation", "abstract"}, shell |-> FALSE,
         fields |-> {"udc", "doi"}, gaps |-> FALSE]

Journal == [Jamt EXCEPT !.style = "", !.languages = <<"ru", "en">>, !.shell = TRUE,
              !.gaps = TRUE]

Plain == [Journal EXCEPT !.columns = 1, !.languages = <<>>, !.merges = {"author"},
            !.fields = {}, !.gaps = FALSE]

MCTemplates == {Jamt, Journal, Plain}

=============================================================================
