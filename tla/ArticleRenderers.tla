-------------------------- MODULE ArticleRenderers --------------------------
(***************************************************************************)
(* What becomes of the body of an article: LatexRenderer._render_body      *)
(* writes a LaTeX source, DocxRenderer.render a Word document.  Both take  *)
(* the blocks one after the other and remember what they need for the      *)
(* next one.                                                               *)
(*                                                                         *)
(* The Word document does not set the blocks anew: a block that comes from *)
(* a paragraph or a table with formulas or pictures is a copy of that      *)
(* paragraph or table, and is rebuilt when the copy cannot be made.        *)
(***************************************************************************)
EXTENDS ArticleParser

VARIABLES
    tex,    \* next: the next block; stack: list_stack; out: what is written
    docx    \* next; groups: rendered_figure_groups; emails:
            \* rendered_body_emails; out: what is written; rebuilt: a block
            \* could not be copied

Environments == {"enumerate", "itemize"}

RenderersInit ==
    /\ tex = [next |-> 1, stack |-> <<>>, out |-> <<>>]
    /\ docx = [next |-> 1, groups |-> {}, emails |-> {}, out |-> <<>>,
               rebuilt |-> FALSE]

ItemAt(n) == source[n]

(***************************************************************************)
(* LaTeX                                                                   *)
(***************************************************************************)
Token(what, name) == [what |-> what, name |-> name, at |-> 0]
BlockToken(block) == [what |-> block.kind, name |-> "", at |-> block.at]

\* The lists that are closed to go from stack back to depth, the last first.
Ends(stack, depth) ==
    [n \in 1..(Len(stack) - depth) |-> Token("end", stack[Len(stack) + 1 - n])]

Begins(environment, count) == [n \in 1..count |-> Token("begin", environment)]

EnvironmentOf(item) == IF item.ordered THEN "enumerate" ELSE "itemize"

\* Fault: the kind of the list an item continues is not looked at.
StayOpenAnyway(stack, item) ==
    IF Len(stack) <= item.level THEN stack ELSE SubSeq(stack, 1, item.level + 1)

\* The lists that stay open for an item: none below its depth, nor one of the
\* other kind at its depth.
StayOpen(stack, item) ==
    LET depth == item.level + 1
    IN  IF Len(stack) < depth THEN stack
        ELSE IF stack[depth] = EnvironmentOf(item) THEN SubSeq(stack, 1, depth)
        ELSE SubSeq(stack, 1, depth - 1)

TexItem(block) ==
    LET item == ItemAt(block.at)
        open == StayOpen(tex.stack, item)
        missing == item.level + 1 - Len(open)
    IN  tex' = [next |-> tex.next + 1,
                stack |-> open \o [n \in 1..missing |-> EnvironmentOf(item)],
                out |-> tex.out \o Ends(tex.stack, Len(open))
                        \o Begins(EnvironmentOf(item), missing)
                        \o <<BlockToken(block)>>]

TexOther(block) ==
    tex' = [next |-> tex.next + 1,
            stack |-> <<>>,
            out |-> tex.out \o Ends(tex.stack, 0) \o <<BlockToken(block)>>]

\* After the last block the lists are closed and the references follow.
TexEnd ==
    tex' = [next |-> tex.next + 1,
            stack |-> <<>>,
            out |-> tex.out \o Ends(tex.stack, 0)
                    \o [n \in 1..Len(article.references) |->
                          [what |-> "bibitem", name |-> "",
                           at |-> article.references[n].at]]]

TexWritten == tex.next > Len(article.body) + 1

WriteTex ==
    /\ ~TexWritten
    /\ IF tex.next > Len(article.body) THEN TexEnd
       ELSE LET block == article.body[tex.next]
            IN  IF block.kind = "item" THEN TexItem(block) ELSE TexOther(block)
    /\ UNCHANGED docx

(***************************************************************************)
(* Word                                                                    *)
(***************************************************************************)
\* copy: the paragraph or table of the source; text, formula, picture, panel,
\* table: rebuilt from the article, a formula or a picture that cannot be as a
\* line of text in its place.
Piece(form, at) == [form |-> form, at |-> at]

\* form, unless the source of the block can be copied.
CopyOr(form, at) ==
    IF ItemAt(at).portable THEN Piece("copy", at) ELSE Piece(form, at)

\* Two pictures or more of a table are one group.
IsGroup(block) == /\ block.kind = "figure"
                  /\ ItemAt(block.at).kind = "table"
                  /\ ItemAt(block.at).pics > 1

\* The text of an e-mail address that stands alone.
IsEmail(block) == block.kind = "paragraph" /\ ItemAt(block.at).form = "email"

\* Fault: the groups of figures are not remembered.
EmailWritten(block) == IsEmail(block) /\ TextAt(block.at) \in docx.emails

AlreadyWritten(block) ==
    \/ IsGroup(block) /\ block.at \in docx.groups
    \/ IsEmail(block) /\ TextAt(block.at) \in docx.emails

\* Markup with a formula, a picture or a link is complex.
IsComplex(item) == item.pics > 0 \/ item.eqs > 0

PieceOf(block) ==
    CASE block.kind \in {"section", "item"} -> Piece("text", block.at)
      [] block.kind = "paragraph" ->
            IF IsComplex(ItemAt(block.at)) THEN CopyOr("text", block.at)
                                           ELSE Piece("text", block.at)
      [] block.kind = "equation" -> CopyOr("formula", block.at)
      [] block.kind = "figure" ->
            CopyOr(IF IsGroup(block) THEN "panel" ELSE "picture", block.at)
      [] block.kind = "table" -> CopyOr("table", block.at)

\* A copy was tried and failed: there is a warning.
IsRebuilt(block) ==
    /\ ~ItemAt(block.at).portable
    /\ \/ block.kind \in {"equation", "figure", "table"}
       \/ block.kind = "paragraph" /\ IsComplex(ItemAt(block.at))

DocxWritten == docx.next > Len(article.body)

WriteDocx ==
    /\ TexWritten
    /\ ~DocxWritten
    /\ LET block == article.body[docx.next]
       IN  docx' =
             IF AlreadyWritten(block) THEN [docx EXCEPT !.next = @ + 1]
             ELSE [next |-> docx.next + 1,
                   groups |-> IF IsGroup(block) THEN docx.groups \cup {block.at}
                              ELSE docx.groups,
                   emails |-> IF IsEmail(block)
                              THEN docx.emails \cup {TextAt(block.at)}
                              ELSE docx.emails,
                   out |-> Append(docx.out, PieceOf(block)),
                   rebuilt |-> docx.rebuilt \/ IsRebuilt(block)]
    /\ UNCHANGED tex

=============================================================================
