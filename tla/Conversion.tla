----------------------------- MODULE Conversion -----------------------------
(***************************************************************************)
(* ConversionPipeline.run (paper_formatter/pipeline.py): one conversion of *)
(* an article into the form of a journal.  It parses the document, writes  *)
(* a LaTeX source and a Word document and compares them with the document. *)
(* The state of the run is in run.json, written at the stages; what stands *)
(* there is all that is left when the process ends.                        *)
(***************************************************************************)
EXTENDS ArticleRenderers, FiniteSets, Functions

CONSTANT Families   \* bound: the items of a document are of one of these sets

ASSUME FamiliesAssumption == UNION Families = Items

VARIABLES
    run,    \* the ConversionRun of the process
    saved,  \* the one in run.json
    alive   \* FALSE: the process has ended

vars == <<source, article, caption, mode, tex, docx, run, saved, alive>>
parsing == <<source, article, caption, mode>>
rendering == <<tex, docx>>

Init ==
    /\ ParserInit
    /\ RenderersInit
    /\ run = [status |-> "running", stage |-> "analyze_source", docx |-> FALSE,
              warnings |-> FALSE, errors |-> FALSE]
    /\ saved = run
    /\ alive = TRUE

At(stage) == alive /\ run.stage = stage

\* _touch_run: the run is written as it is when the next stage begins.
Enter(stage, changed) ==
    /\ run' = [changed EXCEPT !.stage = stage]
    /\ saved' = run'
    /\ UNCHANGED alive

Warn(r, test) == [r EXCEPT !.warnings = @ \/ test]

AnalyzeSource ==
    /\ At("analyze_source")
    /\ Enter("parse_source", run)
    /\ UNCHANGED <<parsing, rendering>>

ItemsOf(items) == {items[n] : n \in 1..Len(items)}

ReadItem ==
    /\ At("parse_source")
    /\ \E item \in Items : Read(item)
    /\ \E family \in Families : ItemsOf(source') \subseteq family
    /\ UNCHANGED <<rendering, run, saved, alive>>

FinishParsing ==
    /\ At("parse_source")
    /\ Finish
    /\ Enter("analyze_template", Warn(run, article'.warnings # {}))
    /\ UNCHANGED rendering

\* The profile of the template may come with warnings.
AnalyzeTemplate ==
    /\ At("analyze_template")
    /\ \E warned \in BOOLEAN : Enter("render_outputs", Warn(run, warned))
    /\ UNCHANGED <<parsing, rendering>>

RenderBlock ==
    /\ At("render_outputs")
    /\ WriteTex \/ WriteDocx
    /\ UNCHANGED <<parsing, run, saved, alive>>

\* A PDF is made on demand.
FinishRendering ==
    /\ At("render_outputs")
    /\ TexWritten
    /\ DocxWritten
    /\ \E stage \in {"compile_pdf", "validate"} :
            Enter(stage, [Warn(run, docx.rebuilt) EXCEPT !.docx = TRUE])
    /\ UNCHANGED <<parsing, rendering>>

CompilePdf ==
    /\ At("compile_pdf")
    /\ \E warned \in BOOLEAN : Enter("validate", Warn(run, warned))
    /\ UNCHANGED <<parsing, rendering>>

(***************************************************************************)
(* Validation                                                              *)
(***************************************************************************)
\* A table around pictures or around a formula does not count as one.
IsLayout(item) == item.pics > 0 \/ (item.eqs > 0 /\ item.single)
TablesIn(item) == IF item.kind = "table" /\ ~IsLayout(item) THEN 1 ELSE 0

\* What _source_counts finds of one item.
SourceCount(what, item) ==
    CASE what = "tables" -> TablesIn(item)
      [] what = "drawings" -> item.pics
      [] what = "formulas" -> item.eqs

Counted == {"tables", "drawings", "formulas"}

SourceTotal(what) ==
    SumFunction([n \in 1..Len(source) |-> SourceCount(what, source[n])])

\* The article holds fewer than the source; one picture may be missing.
ArticleTotal(what) ==
    LET Of(kind) == Cardinality({n \in 1..Len(article.body) :
                                    article.body[n].kind = kind})
        bare == {n \in 1..Len(article.body) :
                    /\ article.body[n].kind = "paragraph"
                    /\ ItemAt(article.body[n].at).bare
                    /\ ItemAt(article.body[n].at).eqs > 0}
    IN  CASE what = "tables" -> Of("table")
          [] what = "drawings" -> Of("figure") + 1
          [] what = "formulas" -> Of("equation") + Cardinality(bare)

CountsWarn == \E what \in Counted : ArticleTotal(what) < SourceTotal(what)

\* A \cite of the LaTeX source without its \bibitem.
Cited == UNION {c.keys : c \in article.citations}
KeysOfReferences == {article.references[n].key : n \in 1..Len(article.references)}
CitationsWarn == ~(Cited \subseteq KeysOfReferences)

\* The comparison of the Word document with the source, which counts objects, and
\* the audits of labels, files, authors, layout and coverage may add what they
\* find.
Validate ==
    /\ At("validate")
    /\ \E warned, failed \in BOOLEAN :
         LET warnings == \/ warned \/ run.warnings \/ CountsWarn \/ CitationsWarn
                         \/ article.titles = <<>> \/ article.authors = <<>>
             errors == failed \/ run.errors
         IN  Enter("completed",
                [run EXCEPT !.warnings = warnings,
                            !.errors = errors,
                            !.status = IF errors THEN "failed"
                                       ELSE IF warnings
                                            THEN "completed_with_warnings"
                                            ELSE "completed"])
    /\ UNCHANGED <<parsing, rendering>>

\* Any call may raise, also the last one, which writes warnings.json: the run
\* is written as failed and the error goes on.
Fail ==
    /\ alive
    /\ run.stage # "failed"
    /\ Enter("failed", [run EXCEPT !.status = "failed", !.errors = TRUE])
    /\ UNCHANGED <<parsing, rendering>>

\* The process is killed, or has returned its result.
End ==
    /\ alive
    /\ run.stage # "failed"
    /\ alive' = FALSE
    /\ UNCHANGED <<parsing, rendering, run, saved>>

Next ==
    \/ AnalyzeSource \/ ReadItem \/ FinishParsing \/ AnalyzeTemplate
    \/ RenderBlock \/ FinishRendering \/ CompilePdf \/ Validate \/ Fail \/ End

Spec == Init /\ [][Next]_vars

(***************************************************************************)
(* Properties                                                              *)
(***************************************************************************)
IsParsed == run.stage \in {"analyze_template", "render_outputs", "compile_pdf",
                          "validate", "completed"}

IsTable(n) == source[n].kind = "table" /\ ~IsLayout(source[n])
IsPicture(n) ==
    /\ source[n].pics > 0
    /\ \/ source[n].kind = "table"
       \/ /\ source[n].role = "paragraph"
          /\ source[n].text = NoText
          /\ source[n].pics = 1
IsCaption(n) == /\ source[n].kind = "paragraph"
                /\ source[n].form = "caption"
                /\ source[n].role \in CaptionRoles \cup {"paragraph", "list_item"}
                /\ source[n].pics = 0

\* Every picture has its caption right below it and every table right above;
\* there are no other captions, no pictures elsewhere and no references.
WellCaptioned ==
    /\ \A n \in 1..Len(source) :
        /\ source[n].role # "references_heading"
        /\ source[n].role \in CaptionRoles => source[n].form = "caption"
        /\ source[n].pics > 0 =>
             IsPicture(n) /\ n < Len(source) /\ IsCaption(n + 1)
        /\ IsTable(n) => n > 1 /\ IsCaption(n - 1)
        /\ IsCaption(n) =>
             (n > 1 /\ IsPicture(n - 1)) # (n < Len(source) /\ IsTable(n + 1))

\* In a document whose pictures and tables all have their captions beside
\* them, each picture and each table of the article has its own caption and no
\* other: the one caption that the parser keeps waiting is never given to a
\* wrong object.  (docx_parser: pending_caption, _attach_caption.)
CaptionsMeetTheirObjects ==
    (IsParsed /\ WellCaptioned) =>
        \A n \in 1..Len(source) :
            LET own == {article.body[b].caption :
                          b \in {m \in 1..Len(article.body) :
                                    article.body[m].at = n}} \ {0}
            IN  /\ IsPicture(n) => own = {n + 1}
                /\ IsTable(n) => own = {n - 1}

\* The references are the plain paragraphs after one heading at n.
ListOfReferencesAt(h) ==
    /\ source[h].kind = "paragraph"
    /\ source[h].form = "plain"
    /\ source[h].role = "references_heading"
    /\ \A n \in 1..Len(source) :
        /\ n < h => source[n].role \notin {"references_heading", "reference"}
        /\ n > h => /\ source[n].kind = "paragraph"
                    /\ source[n].form = "plain"
                    /\ source[n].text # NoText
                    /\ source[n].role \in {"reference", "paragraph"}

\* A number in brackets is never linked to another reference than the one its
\* author gave that number, although repeated references are merged and the
\* list is numbered anew.  (docx_parser: _deduplicate_article and
\* _link_numeric_citations.)
CitationsPointToTheirReferences ==
    \A h \in 1..Len(source) :
        (IsParsed /\ ListOfReferencesAt(h)) =>
            \A c \in article.citations :
                \A n \in 1..Len(article.references) :
                    article.references[n].key \in c.keys =>
                        article.references[n].at - h \in source[c.at].cites

\* The lists that are open before token number n of the LaTeX source, as LaTeX
\* sees them.
Nesting[n \in Nat] ==
    IF n <= 1 THEN <<>>
    ELSE LET before == Nesting[n - 1]
             token == tex.out[n - 1]
         IN  CASE token.what = "begin" -> Append(before, token.name)
               [] token.what = "end" -> SubSeq(before, 1, Len(before) - 1)
               [] OTHER -> before

\* The LaTeX source closes every list it opens, in order, every item stands in
\* a list of its kind at its level, and nothing else stands in a list,
\* whatever the levels and kinds of the items that follow one another.
\* (latex_renderer: the list_stack of _render_body.)
ItemsAreInTheirLists ==
    LET out == tex.out
    IN  /\ \A n \in 1..Len(out) :
            LET open == Nesting[n]
            IN  CASE out[n].what = "end" ->
                        open # <<>> /\ open[Len(open)] = out[n].name
                  [] out[n].what = "begin" -> TRUE
                  [] out[n].what = "item" ->
                        /\ Len(open) = source[out[n].at].level + 1
                        /\ open[Len(open)] = EnvironmentOf(source[out[n].at])
                  [] OTHER -> open = <<>>
        /\ TexWritten => Nesting[Len(out) + 1] = <<>>

IsWritten == run.stage \in {"compile_pdf", "validate", "completed"}

\* Whatever surrounds it and whether or not its markup could be taken over,
\* each table of the source, one around pictures too, stands in the Word
\* document exactly once, and the tables stand in their order.
\* (docx_renderer: rendered_figure_groups; docx_parser: tables are read in the
\* references as well.)
TablesAreWrittenOnce ==
    LET tables == {n \in 1..Len(source) : source[n].kind = "table"
                                          /\ (source[n].pics > 0 \/ IsTable(n))}
        Places(n) == {p \in 1..Len(docx.out) : docx.out[p].at = n}
    IN  IsWritten => /\ \A n \in tables : Cardinality(Places(n)) = 1
                     /\ \A n, m \in tables : n < m =>
                            \A p \in Places(n), q \in Places(m) : p < q

=============================================================================
