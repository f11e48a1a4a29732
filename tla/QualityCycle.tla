---------------------------- MODULE QualityCycle ----------------------------
(***************************************************************************)
(* The repair of a prepared document (template_workspace/v2): a review, a  *)
(* bounded number of passes that repair a copy, review it again and keep   *)
(* it only if it was shown to be better, and the promotion of the best     *)
(* copy to the result.                                                     *)
(*                                                                         *)
(* The reviewer is a renderer and a model: it may check any pages and      *)
(* report any of Findings on them.  A copy is named by its pass, and the   *)
(* result by the copy it holds.                                            *)
(***************************************************************************)
EXTENDS Integers, FiniteSets

CONSTANTS
    Targets,    \* layout targets of the document
    Allowed,    \* Allowed[t]: the actions of target t
    Layouts,    \* where a rendering may put the targets
    Findings,   \* what a review may report
    MaxPasses   \* TEMPLATE_V2_EDIT_CYCLE_MAX_PASSES

Severities == {"high", "medium", "low"}

KindsForAction ==
    [restore_typography |-> {"text_typography", "equation_typography"},
     restore_paragraph  |-> {"front_spacing", "code_spacing"},
     center_picture     |-> {"figure_alignment", "overlap"},
     fit_picture        |-> {"figure_alignment", "overlap", "equation_clipping"},
     keep_caption       |-> {"caption_detached"}]

Actions == DOMAIN KindsForAction

\* No target: the issue is of a page only.  No action: it is advice.
None == "none"

ASSUME QualityCycleAssumption ==
    /\ IsFiniteSet(Targets) /\ None \notin Targets /\ IsFiniteSet(Findings)
    /\ Allowed \in [Targets -> SUBSET Actions]
    /\ MaxPasses \in 1..3
    /\ \A l \in Layouts : /\ l.total \in Nat
                          /\ l.page \in [Targets -> 0..l.total]
                          /\ l.rendered \subseteq Targets
    /\ \A f \in Findings : /\ f.severity \in Severities
                           /\ f.target \in Targets \cup {None}
                           /\ f.action \in Actions \cup {None}
                           /\ f.page \in Nat \ {0}

VARIABLES
    pc,         \* what run_quality_cycle does next
    pass,       \* iteration
    best,       \* best_iteration
    review,     \* best_review
    structural, \* best_structural
    attempted,  \* pairs of target and action
    actions,    \* those of this pass
    result,     \* the copy that the result file holds
    report,     \* quality_cycle_report.json and readability_report.json
    first,      \* the review and the structural issues of pass 0
    accepted,   \* what accepted passes repaired, and the reviews around it
    tried       \* what all passes have tried

vars == <<pc, pass, best, review, structural, attempted, actions, result,
          report, first, accepted, tried>>

NoReview ==
    [status |-> "unavailable", total |-> 0, checked |-> {}, issues |-> {},
     page |-> [t \in Targets |-> 0], rendered |-> {}, warned |-> FALSE]

NoReport == [status |-> "none", iteration |-> 0, review |-> NoReview]

Init ==
    /\ pc = "baseline"
    /\ pass = 0
    /\ best = 0
    /\ review = NoReview
    /\ structural = {}
    /\ attempted = {}
    /\ actions = {}
    /\ result = 0
    /\ report = NoReport
    /\ first = [review |-> NoReview, structural |-> {}]
    /\ accepted = {}
    /\ tried = {}

-----------------------------------------------------------------------------
(* Reviews *)

\* structural_issues: what the XML itself tells.
StructuralIssues ==
    {[target |-> t, action |-> "restore_typography", kind |-> "text_typography",
      severity |-> "medium", source |-> "ooxml", page |-> 0] :
        t \in {u \in Targets : "restore_typography" \in Allowed[u]}}
    \cup
    {[target |-> t, action |-> "fit_picture", kind |-> "figure_alignment",
      severity |-> "high", source |-> "ooxml", page |-> 0] :
        t \in {u \in Targets : "fit_picture" \in Allowed[u]}}

StatusOf(total, checked) ==
    IF checked = 1..total THEN "reviewed"
    ELSE IF checked # {} THEN "partial" ELSE "unavailable"

\* Geometry is measured on every page, the model sees the checked ones and
\* names targets that are known to be on the page.
Reportable(layout, checked) ==
    {f \in Findings :
        /\ f.page <= layout.total
        /\ f.source = "pdf-geometry" \/ f.page \in checked
        /\ f.target # None => layout.page[f.target] = f.page}

\* run_readability_review and review_pdf.  Pages that failed leave a warning.
Reviews ==
    {[status |-> "disabled", total |-> 0, checked |-> {}, issues |-> {},
      page |-> [t \in Targets |-> 0], rendered |-> {}, warned |-> FALSE]}
    \cup UNION
    {UNION {{[status |-> StatusOf(l.total, checked), total |-> l.total,
              checked |-> checked, issues |-> issues, page |-> l.page,
              rendered |-> l.rendered, warned |-> checked # 1..l.total] :
                issues \in SUBSET Reportable(l, checked)} :
            checked \in SUBSET (1..l.total)} :
        l \in Layouts}

OfSeverity(findings, severity) == {f \in findings : f.severity = severity}

Score(findings) ==
    9 * Cardinality(OfSeverity(findings, "high"))
    + 3 * Cardinality(OfSeverity(findings, "medium"))
    + Cardinality(OfSeverity(findings, "low"))

Geometry(r) == {f \in r.issues : f.source = "pdf-geometry"}

High(r) == OfSeverity(r.issues, "high")

\* A severe defect is the same one if it has the kind and the place.
Severe(r) ==
    {<<f.kind, IF f.target = None THEN f.page ELSE f.target>> : f \in High(r)}

\* Fault: another number of pages is compared like the same one.
PagesCompareAnyway(before, after) == TRUE

\* A document that runs to other pages is compared only if all were seen.
PagesCompare(before, after) ==
    IF before.total # after.total
    THEN before.status = "reviewed" /\ after.status = "reviewed"
    ELSE before.checked \subseteq after.checked

\* improvement
Improves(before, after, sBefore, sAfter) ==
    /\ after.status \in {"reviewed", "partial"}
    /\ after.checked # {}
    /\ PagesCompare(before, after)
    /\ before.rendered \subseteq after.rendered
    /\ Cardinality(Geometry(after)) <= Cardinality(Geometry(before))
    /\ Cardinality(sAfter) <= Cardinality(sBefore)
    /\ Cardinality(High(after)) <= Cardinality(High(before))
    /\ Severe(after) \subseteq Severe(before)
    /\ Score(after.issues) + Score(sAfter) < Score(before.issues) + Score(sBefore)

\* The pages around the one that a target is on.
Neighbours(r, t) == {p \in 1..r.total : p \in (r.page[t] - 1)..(r.page[t] + 1)}

\* repairs_covered, of one action on target t.
Covered(r, t) ==
    r.status = "reviewed" \/ (r.page[t] # 0 /\ Neighbours(r, t) \subseteq r.checked)

\* Fault: what a repair led to is not asked to have been seen.
CoversAnything(r, edits) == TRUE

CoversEdits(r, edits) == \A e \in edits : Covered(r, e[1])

\* quality_status
QualityStatus(r, s) ==
    IF r.issues # {} \/ s # {} THEN "needs_review"
    ELSE IF r.status = "reviewed" /\ r.total # 0 /\ ~r.warned THEN "checked"
    ELSE IF r.status = "partial" THEN "partially_checked"
    ELSE "unverified"

-----------------------------------------------------------------------------
(* The cycle *)

\* The copy of the result is reviewed.
Baseline ==
    /\ pc = "baseline"
    /\ \E r \in Reviews, s \in SUBSET StructuralIssues :
          /\ review' = r
          /\ structural' = s
          /\ first' = [review |-> r, structural |-> s]
    /\ pc' = "select"
    /\ pass' = 1
    /\ UNCHANGED <<best, attempted, actions, result, report, accepted, tried>>

\* An exception of the first review: the result stays as it is.
BaselineFails ==
    /\ pc = "baseline"
    /\ \E s \in SUBSET StructuralIssues : structural' = s
    /\ pc' = "promote"
    /\ UNCHANGED <<pass, best, review, attempted, actions, result, report,
                   first, accepted, tried>>

\* select_actions
Selectable(findings) ==
    {<<f.target, f.action>> :
        f \in {g \in findings :
                 /\ g.target # None
                 /\ g.action # None
                 /\ g.action \in Allowed[g.target]
                 /\ g.kind \in KindsForAction[g.action]}}

Candidates ==
    {e \in Selectable(structural \cup review.issues) \ attempted :
        Covered(review, e[1])}

\* Fault: an action counts as tried when it was accepted.
AttemptedIfKept(edits) == attempted

Attempted(edits) == attempted \cup edits

InTime == pass < MaxPasses

\* A pass takes actions that were not tried before; it may also find that
\* the time is over.
Select ==
    /\ pc = "select"
    /\ InTime
    /\ review.status \in {"reviewed", "partial"}
    /\ Candidates # {}
    /\ actions' = Candidates
    /\ attempted' = Attempted(Candidates)
    /\ tried' = tried \cup Candidates
    /\ pc' = "apply"
    /\ UNCHANGED <<pass, best, review, structural, result, report, first, accepted>>

\* visual_baseline_unavailable, cycle_budget_exhausted,
\* no_safe_grounded_actions, pass_limit
Stop ==
    /\ pc = "select"
    /\ pc' = "promote"
    /\ UNCHANGED <<pass, best, review, structural, attempted, actions, result,
                   report, first, accepted, tried>>

\* apply_actions changes nothing: the next pass.
NoXmlChange ==
    /\ pc = "apply"
    /\ pc' = "select"
    /\ pass' = pass + 1
    /\ UNCHANGED <<best, review, structural, attempted, actions, result, report,
                   first, accepted, tried>>

\* The candidate is rendered, reviewed and compared.
Accept ==
    /\ pc = "apply"
    /\ \E r \in Reviews, s \in SUBSET StructuralIssues :
          /\ Improves(review, r, structural, s)
          /\ CoversEdits(r, actions)
          /\ review' = r
          /\ structural' = s
          /\ accepted' = accepted \cup {[pass |-> pass, edits |-> actions,
                                         before |-> review, after |-> r]}
    /\ best' = pass
    /\ pass' = pass + 1
    /\ pc' = "select"
    /\ UNCHANGED <<attempted, actions, result, report, first, tried>>

\* It is not shown to be better, or an exception is raised.
Reject ==
    /\ pc = "apply"
    /\ pc' = "promote"
    /\ UNCHANGED <<pass, best, review, structural, attempted, actions, result,
                   report, first, accepted, tried>>

\* Fault: the last candidate is promoted.
LastCandidate == IF best = 0 THEN result ELSE pass

Promoted == IF best = 0 THEN result ELSE best

Promote ==
    /\ pc = "promote"
    /\ result' = Promoted
    /\ pc' = "report"
    /\ UNCHANGED <<pass, best, review, structural, attempted, actions, report,
                   first, accepted, tried>>

FinalStatus == QualityStatus(review, structural)

Report ==
    /\ pc = "report"
    /\ report' = [status |-> FinalStatus, iteration |-> best, review |-> review]
    /\ pc' = "done"
    /\ UNCHANGED <<pass, best, review, structural, attempted, actions, result,
                   first, accepted, tried>>

\* The process of the job is killed, or its alarm is raised outside a try.
Kill ==
    /\ pc \notin {"done", "killed"}
    /\ pc' = "killed"
    /\ UNCHANGED <<pass, best, review, structural, attempted, actions, result,
                   report, first, accepted, tried>>

Next ==
    \/ Baseline
    \/ BaselineFails
    \/ Select
    \/ Stop
    \/ NoXmlChange
    \/ Accept
    \/ Reject
    \/ Promote
    \/ Report
    \/ Kill

Spec == Init /\ [][Next]_vars

-----------------------------------------------------------------------------
(* Properties *)

Review == [status : {"reviewed", "partial", "unavailable", "disabled"},
           total : Nat, checked : SUBSET (Nat \ {0}), issues : SUBSET Findings,
           page : [Targets -> Nat], rendered : SUBSET Targets, warned : BOOLEAN]

\* Types.
TypeOK ==
    /\ pc \in {"baseline", "select", "apply", "promote", "report", "done", "killed"}
    /\ pass \in 0..MaxPasses
    /\ best \in 0..pass
    /\ review \in Review
    /\ structural \subseteq StructuralIssues
    /\ attempted \subseteq Targets \X Actions
    /\ actions \subseteq attempted /\ tried \subseteq attempted
    /\ result \in 0..pass
    /\ report.iteration \in 0..pass
    /\ \A a \in accepted : a.pass \in 1..pass /\ a.edits \subseteq attempted

\* Whatever was repaired, given up or broken off, the result is the document
\* as it came or a copy that was accepted; a cycle that ends leaves the best
\* one there, and its reports are about that one.
ResultWasAccepted ==
    /\ result \in {0} \cup {a.pass : a \in accepted}
    /\ pc = "done" =>
          /\ result = best /\ report.iteration = result
          /\ \A a \in accepted : a.pass = result => report.review = a.after
          /\ report.status = "checked" =>
                /\ report.review.checked = 1..report.review.total
                /\ report.review.issues = {}

\* What has been accepted over all passes is better than what came: fewer
\* weighted issues, no more severe, structural or geometrical ones, nothing
\* that is not rendered any more, and no page unseen that was seen before,
\* also when repairs changed the number of pages in between.
NeverWorse ==
    best # 0 =>
        /\ Score(review.issues) + Score(structural)
              < Score(first.review.issues) + Score(first.structural)
        /\ Severe(review) \subseteq Severe(first.review)
        /\ Cardinality(structural) <= Cardinality(first.structural)
        /\ Cardinality(Geometry(review)) <= Cardinality(Geometry(first.review))
        /\ first.review.rendered \subseteq review.rendered
        /\ \/ first.review.checked \subseteq review.checked
           \/ review.status = "reviewed"

Seen(r, t) == r.page[t] \in r.checked /\ Neighbours(r, t) \subseteq r.checked

\* An accepted repair was seen with the pages around it, before and after,
\* unless all pages were seen.
EditsWereSeen ==
    \A a \in accepted : \A e \in a.edits : \A r \in {a.before, a.after} :
        r.checked = 1..r.total \/ Seen(r, e[1])

Selects == pc = "select" /\ pc' = "apply"

\* No pass tries what an earlier one has tried, accepted or not.
NothingIsTriedTwice == [][Selects => actions' \cap tried = {}]_vars

=============================================================================
