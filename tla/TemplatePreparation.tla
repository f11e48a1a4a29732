------------------------- MODULE TemplatePreparation -------------------------
(***************************************************************************)
(* The background preparation of the formatting template of one            *)
(* submission: apps/submissions/template_processing.py and the requests    *)
(* that start it or race with it.                                          *)
(*                                                                         *)
(* A detached process loads the submission, reads its template for minutes *)
(* and then writes the rules of the template into the submission and       *)
(* queues the checks, deciding on what it loaded.  Meanwhile the author    *)
(* replaces the template, refines the rules by hand, uploads a version or  *)
(* submits.  The checks are reduced to whether their run was queued        *)
(* (CheckRuns has the rest), the watchdog to the preparation it starts.    *)
(***************************************************************************)
EXTENDS Integers

CONSTANTS
    Workers,        \* bound: preparations in progress
    MaxTemplates,   \* bound: templates attached to the submission
    MaxVersions,    \* bound: versions of the submission
    MaxFaults       \* bound: exceptions in a preparation, and preparations
                    \* killed or never started

ASSUME TemplatePreparationAssumption ==
    /\ MaxTemplates \in Nat \ {0}
    /\ MaxVersions \in Nat \ {0}
    /\ MaxFaults \in Nat

Templates == 1..MaxTemplates
Versions == 1..MaxVersions
Before == {"auto_checking", "submitted"}    \* _DELETABLE_DRAFT_STATUSES

VARIABLES
    sub,        \* the Submission row.  template: 0 if none; manual, base: its
                \* rules snapshot was refined by hand, and the template whose
                \* rules it holds (0 if none); waiting: checks are announced,
                \* but no run was launched
    analysis,   \* analysis[t]: FormattingTemplate.analysis_status; "ready"
                \* stands for rules that were extracted, in part or in full
    readable,   \* templates that rules can be extracted from
    workers,    \* the preparations
    request,    \* the author's request between its reads and its writes
    errors, crashes

vars == <<sub, analysis, readable, workers, request, errors, crashes>>

\* seen: the loaded snapshot had manual rules.  rules: the template in memory
\* has extracted rules.  start: queue the checks afterwards.
Worker == [pc       : {"idle", "launched", "template", "extract", "save",
                       "recheck", "queue"},
           template : Templates,
           version  : Versions,
           start    : BOOLEAN,
           seen     : BOOLEAN,
           rules    : BOOLEAN]

Idle == [pc |-> "idle", template |-> 1, version |-> 1, start |-> FALSE,
         seen |-> FALSE, rules |-> FALSE]

NoRequest == [kind |-> "none", base |-> 0]

Preparing(t, v, start) ==
    [Idle EXCEPT !.pc = "launched", !.template = t, !.version = v, !.start = start]

\* submission_create: with a template that was not read the checks wait for its
\* rules; without a template, or with one that was read, they are queued.
Init ==
    /\ readable \in SUBSET Templates
    /\ sub \in [status : {"auto_checking"}, version : {1}, template : {0, 1},
                manual : {FALSE}, base : {0, 1}, waiting : BOOLEAN]
    /\ sub.base = 1 => sub.template = 1 /\ 1 \in readable
    /\ sub.waiting <=> sub.template = 1 /\ sub.base = 0
    /\ analysis = [t \in Templates |-> IF t = sub.base THEN "ready" ELSE "uploaded"]
    /\ IF sub.waiting
       THEN \E w \in Workers :
               workers = [x \in Workers |->
                             IF x = w THEN Preparing(1, 1, TRUE) ELSE Idle]
       ELSE workers = [x \in Workers |-> Idle]
    /\ request = NoRequest
    /\ errors = 0
    /\ crashes = 0

-----------------------------------------------------------------------------
(* The author *)

\* launch_submission_template_process, in on_commit.
Launched(t, start) ==
    \/ \E w \in Workers :
          /\ workers[w].pc = "idle"
          /\ workers' = [workers EXCEPT ![w] = Preparing(t, sub.version, start)]
          /\ UNCHANGED crashes
    \/ /\ errors + crashes < MaxFaults
       /\ crashes' = crashes + 1
       /\ UNCHANGED workers

\* A view reads the submission and tests its status.
Open(kind) ==
    /\ request.kind = "none"
    /\ \/ kind \in {"attach", "edit"} /\ sub.status \in Before
       \/ kind = "submit" /\ sub.status = "submitted"
    /\ request' = [kind |-> kind, base |-> IF kind = "edit" THEN sub.base ELSE 0]
    /\ UNCHANGED <<sub, analysis, readable, workers, errors, crashes>>

\* The form is not valid.
GiveUp ==
    /\ request.kind # "none"
    /\ request' = NoRequest
    /\ UNCHANGED <<sub, analysis, readable, workers, errors, crashes>>

\* attach_formatting_template_view: a new template, the snapshot that can be
\* built before it is read, and a preparation.
AttachTemplate ==
    /\ request.kind = "attach"
    /\ sub.template < MaxTemplates
    /\ sub' = [sub EXCEPT !.template = @ + 1, !.manual = FALSE, !.base = 0]
    /\ Launched(sub.template + 1, TRUE)
    /\ request' = NoRequest
    /\ UNCHANGED <<analysis, readable, errors>>

\* update_formatting_rules_view: the form is applied to the snapshot the view
\* has read; then the checks are queued.
EditRules ==
    /\ request.kind = "edit"
    /\ sub' = [sub EXCEPT !.manual = TRUE, !.base = request.base,
                          !.status = "auto_checking", !.waiting = FALSE]
    /\ request' = NoRequest
    /\ UNCHANGED <<analysis, readable, workers, errors, crashes>>

\* submit_submission_view
Submit ==
    /\ request.kind = "submit"
    /\ sub' = [sub EXCEPT !.status = "in_review"]
    /\ request' = NoRequest
    /\ UNCHANGED <<analysis, readable, workers, errors, crashes>>

\* add_submission_version, which queues the checks of the new version.
UploadVersion ==
    /\ sub.status \in Before \cup {"revision_requested"}
    /\ sub.version < MaxVersions
    /\ sub' = [sub EXCEPT !.version = @ + 1, !.status = "auto_checking",
                          !.waiting = FALSE]
    /\ UNCHANGED <<analysis, readable, workers, request, errors, crashes>>

\* A run of the checks that was queued ends.
ChecksEnd ==
    /\ sub.status = "auto_checking"
    /\ ~sub.waiting
    /\ sub' = [sub EXCEPT !.status = "submitted"]
    /\ UNCHANGED <<analysis, readable, workers, request, errors, crashes>>

\* request_revision
RequestRevision ==
    /\ sub.status = "in_review"
    /\ sub' = [sub EXCEPT !.status = "revision_requested"]
    /\ UNCHANGED <<analysis, readable, workers, request, errors, crashes>>

-----------------------------------------------------------------------------
(* prepare_submission_template_by_id *)

\* The watchdog, and the citation workspace before it saves a version, prepare
\* the attached template in their own process and queue no checks.
PrepareInline(w) ==
    /\ workers[w].pc = "idle"
    /\ sub.template # 0
    /\ sub.status \in Before
    /\ workers' = [workers EXCEPT ![w] = Preparing(sub.template, sub.version, FALSE)]
    /\ UNCHANGED <<sub, analysis, readable, request, errors, crashes>>

Goes(w, pc) == workers' = [workers EXCEPT ![w].pc = pc]
Stop(w) == workers' = [workers EXCEPT ![w] = Idle]

\* What follows needs the version and the flag only.
GoesOn(w) ==
    workers' = [workers EXCEPT ![w] =
                   [Preparing(1, workers[w].version, workers[w].start)
                       EXCEPT !.pc = "recheck"]]

\* The submission is loaded; a preparation for another version is skipped.
LoadSubmission(w) ==
    /\ workers[w].pc = "launched"
    /\ IF sub.version = workers[w].version
       THEN workers' = [workers EXCEPT ![w].pc = "template", ![w].seen = sub.manual]
       ELSE Stop(w)
    /\ UNCHANGED <<sub, analysis, readable, request, errors, crashes>>

\* The template is loaded, and marked if it has to be processed.
LoadTemplate(w) ==
    /\ workers[w].pc = "template"
    /\ IF analysis[workers[w].template] = "ready"
       THEN /\ workers' = [workers EXCEPT ![w].pc = "save", ![w].rules = TRUE]
            /\ UNCHANGED analysis
       ELSE /\ Goes(w, "extract")
            /\ analysis' = [analysis EXCEPT ![workers[w].template] = "processing"]
    /\ UNCHANGED <<sub, readable, request, errors, crashes>>

\* process_formatting_template: the rules, or the failure to extract them.
ExtractRules(w) ==
    /\ workers[w].pc = "extract"
    /\ LET t == workers[w].template IN
          /\ analysis' = [analysis EXCEPT ![t] =
                             IF t \in readable THEN "ready" ELSE "failed"]
          /\ workers' = [workers EXCEPT ![w].pc = "save",
                                        ![w].rules = t \in readable]
    /\ UNCHANGED <<sub, readable, request, errors, crashes>>

\* Fault: the id of the version is taken for the id of the template.
VersionAsBase(w) == workers[w].version

\* Fault: the snapshot is built of the template as it was before processing.
StaleTemplateBase(w) == 0

\* build_rules_snapshot: the rules of the template in memory, if it has any.
SnapshotBase(w) == IF workers[w].rules THEN workers[w].template ELSE 0

\* The snapshot is replaced unless the submission, as loaded, had manual rules.
SaveRules(w) ==
    /\ workers[w].pc = "save"
    /\ sub' = IF workers[w].seen
              THEN sub
              ELSE [sub EXCEPT !.manual = FALSE, !.base = SnapshotBase(w)]
    /\ GoesOn(w)
    /\ UNCHANGED <<analysis, readable, request, errors, crashes>>

\* The version is compared again.
Recheck(w) ==
    /\ workers[w].pc = "recheck"
    /\ IF sub.version = workers[w].version /\ workers[w].start
       THEN Goes(w, "queue")
       ELSE Stop(w)
    /\ UNCHANGED <<sub, analysis, readable, request, errors, crashes>>

\* queue_submission_checks: whatever the status is.
QueueChecks(w) ==
    /\ workers[w].pc = "queue"
    /\ sub' = [sub EXCEPT !.status = "auto_checking", !.waiting = FALSE]
    /\ Stop(w)
    /\ UNCHANGED <<analysis, readable, request, errors, crashes>>

\* Fault: an exception ends the process.
EndsOnError(w) == Stop(w)

\* The except clause goes on with the comparison of the version.
GoesOnAfterError(w) == GoesOn(w)

\* An exception up to the saving.
Fails(w) ==
    /\ workers[w].pc \in {"launched", "template", "extract", "save"}
    /\ errors + crashes < MaxFaults
    /\ errors' = errors + 1
    /\ GoesOnAfterError(w)
    /\ UNCHANGED <<sub, analysis, readable, request, crashes>>

\* The process is killed.
Crash(w) ==
    /\ workers[w].pc # "idle"
    /\ errors + crashes < MaxFaults
    /\ crashes' = crashes + 1
    /\ Stop(w)
    /\ UNCHANGED <<sub, analysis, readable, request, errors>>

Work(w) ==
    \/ LoadSubmission(w)
    \/ LoadTemplate(w)
    \/ ExtractRules(w)
    \/ SaveRules(w)
    \/ Recheck(w)
    \/ QueueChecks(w)

Next ==
    \/ \E kind \in {"attach", "edit", "submit"} : Open(kind)
    \/ GiveUp
    \/ AttachTemplate
    \/ EditRules
    \/ Submit
    \/ UploadVersion
    \/ ChecksEnd
    \/ RequestRevision
    \/ \E w \in Workers : PrepareInline(w) \/ Work(w) \/ Fails(w) \/ Crash(w)

Spec == Init /\ [][Next]_vars

\* A started process runs on; nothing is assumed of the author.
FairSpec == Spec /\ \A w \in Workers : WF_vars(Work(w))

-----------------------------------------------------------------------------
(* Properties *)

\* Types; and a snapshot holds the rules of no template that is not attached yet.
TypeOK ==
    /\ sub \in [status : Before \cup {"in_review", "revision_requested"},
                version : Versions, template : 0..MaxTemplates,
                manual : BOOLEAN, base : 0..MaxTemplates, waiting : BOOLEAN]
    /\ sub.base <= sub.template
    /\ analysis \in [Templates -> {"uploaded", "processing", "ready", "failed"}]
    /\ readable \subseteq Templates
    /\ workers \in [Workers -> Worker]
    /\ request \in [kind : {"none", "attach", "edit", "submit"},
                    base : 0..MaxTemplates]
    /\ errors \in 0..MaxFaults
    /\ crashes \in 0..MaxFaults

\* When nothing is under way any more and nothing failed, the rules of a
\* template that was processed are in the submission, or the author's own are:
\* no preparation, the second of one template neither, leaves with the rules
\* it built too early.  (Of a template that replaced another one it
\* does not hold: the late preparation of the old one wins.)
SettledRulesAreExtracted ==
    /\ \A w \in Workers : workers[w].pc = "idle"
    /\ request.kind = "none"
    /\ errors = 0
    /\ crashes = 0
    /\ sub.template = 1 /\ analysis[1] = "ready"
    => sub.manual \/ sub.base = 1

\* Checks that wait for a template start: a template that cannot be read, an
\* exception in its preparation, another template or another version do not
\* keep them waiting.  Only a crash does, and then the watchdog starts them.
WaitingChecksStart == sub.waiting ~> ~sub.waiting \/ crashes > 0

=============================================================================
