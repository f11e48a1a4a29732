--------------------------- MODULE QualityCycleMC ---------------------------
(* QualityCycle on a small instance, for TLC: a picture and a paragraph on  *)
(* up to three pages.                                                       *)
EXTENDS QualityCycle

MCTargets == {"picture", "text"}

MCAllowed == [t \in MCTargets |->
    IF t = "picture" THEN {"fit_picture"}
    ELSE {"restore_typography", "restore_paragraph"}]

Place(total, picture, text, rendered) ==
    [total |-> total,
     page |-> [t \in MCTargets |-> IF t = "picture" THEN picture ELSE text],
     rendered |-> rendered]

MCLayouts ==
    {Place(0, 0, 0, {}),
     Place(2, 1, 2, MCTargets),
     Place(3, 1, 2, MCTargets),
     Place(3, 2, 3, MCTargets),
     Place(3, 1, 0, {"picture"})}

Finding(kind, severity, page, target, action, source) ==
    [kind |-> kind, severity |-> severity, page |-> page, target |-> target,
     action |-> action, source |-> source]

MCFindings ==
    {Finding("figure_alignment", "high", 1, "picture", "fit_picture", "qwen-vision"),
     Finding("text_typography", "medium", 2, "text", "restore_typography", "qwen-vision"),
     Finding("overlap", "high", 2, None, None, "qwen-vision"),
     Finding("empty_page", "medium", 2, None, None, "pdf-geometry")}
=============================================================================
