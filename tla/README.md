# WEBTSTU: a verification project

WEBTSTU is a Django application in which an author prepares an article
("material"), a set of automatic checks examines it, a route of reviewers
approves it, and an electronic conclusion with signatures is issued.  Users
reach it through one gunicorn worker with four threads; long work is done by
detached `manage.py` processes; a systemd timer starts a watchdog every minute.
Everything shared is in one SQLite file.

This directory holds TLA+ modules of the parts of that program in which several
actors meet, the TLC configurations that check them, and proofs that TLAPS
checks.

Run from this directory:

    tlc -workers 2 -config CheckRunsSafety.cfg CheckRunsMC
    tlapm CheckRunsProofs.tla

## 1. Inventory

| component | state | operations | meets others through |
|---|---|---|---|
| **runs of the checks** `apps/checks/services.py` | `CheckRun` rows (status, `claim_token`, heartbeat, times), `Submission.status` and `updated_at` | prepare, launch, run (claim, heartbeat, result), finalise, recover | rows, detached processes, the watchdog, resume of the route |
| evaluators `apps/checks/document_checks.py`, ... | none | text in, result out | called between claim and result |
| AI client `apps/checks/ai_client.py` | none | HTTP with timeouts | called by evaluators and the quality cycle |
| **approval route** `apps/workflow/services.py`, `views.py` | `WorkflowRun`, `WorkflowStep`, `ApprovalTask`, `SubmissionAppeal` | start, approve, reject, ask for revision, resume, appeal and its decision | web requests, the check worker, conclusions |
| route administration `apps/workflow/admin.py` | manual steps, templates | insert a manual step | the same rows, at any time |
| submission lifecycle `apps/submissions/services.py`, `views.py` | `Submission`, `SubmissionVersion` | create, new version, start checks, change rules, submit, choose route | all of the above |
| preparation of a template `apps/submissions/template_processing.py` | template status on `Submission` | heartbeat, prepare, save the rules, queue the checks | detached process, watchdog |
| **conclusions** `apps/conclusions/services.py` | the conclusion with its package, `ConclusionSignature`, files on the disk | seal, sign, verify, package | called by decisions on the route |
| template workspace `apps/template_workspace`, `v2` | template jobs | start, run, progress, expire | detached process, page visits |
| **quality cycle** `v2/quality_cycle.py`, `editor/readability_review.py` | the best copy so far, its review, what was tried | repair, inspect, review, promote | runs inside a template job |
| **conversion** `paper_formatter` | the article, the LaTeX and the Word document, `run.json` | parse, render, compile, validate | called by jobs, by the correction of a material and by the laboratory |
| **citations** `apps/citations` | the index file and its lock, `workspace.json`, prepared documents | search, build, prepare, use | requests of many users, commands, versions of a material |
| **Word editor** `v2/editor` | the body of the document, copies of its paragraphs | passes that sort, move, divide and compare | called by the jobs and the quality cycle |
| inspectors, classifier | none | a description of a document | called before the editor |
| directory | reference data, extraction of rules, ranking of routes | row edits, pure functions | read by submissions |
| documents (preview, LaTeX, metadata) | files | pure functions, subprocesses | called by views |
| accounts, activities | rows of their own | forms, imports | read by submissions |
| `document_template_engine` | none | a pipeline | called by jobs |
| deployment | timer, services | start, time limits | starts the watchdog |

`PROJECT.json` lists each of them with its sources, its status and the reason
when it is not modelled.

### What is hard here

* A row of the checks has up to three writers: the process of the last run, a
  process of an earlier run that has not noticed, and the watchdog.
* A web request loads an object, tests it, and only then enters the transaction
  that acts on it; the service tests the *loaded* object again.
* A process may die, and may never be started (`Popen` after the commit).
* The end of the checks has a second, separate transaction: it resumes the
  route.  The submission is `SUBMITTED` between the two.
* Root inserts manual steps into a running route, which shifts its numbering.
* An accepted appeal continues a run that had ended.
* Files are written at once and rows at the end of a transaction: an approval
  that fails takes back its rows only, a workspace of sources is two files.
* The lock of the index of sources expires, and a process may still hold it.
* The parser of documents keeps one caption, one mode and a few flags between
  paragraphs, and both renderers keep what they have written: what becomes of
  a paragraph depends on all those before it.

### What makes each component correct

* *Checks*: one process at a time owns a row; a result is written once per run
  and only by the owner; a live owner is not robbed; `SUBMITTED` means that
  every check of the current version is done; `AUTO_CHECKING` always ends.
* *Route*: a material in review has a task that someone can decide on; an
  active run has exactly one; a run ends as completed only with all its steps
  approved; a paused run is resumed.
* *Conclusion*: a package is made once, at the end, of all signatures the
  route owes; the chain of signatures verifies.
* *Preparation of a template*: the author's own rules are not overwritten; a
  material that has gone on is not returned to checking.
* *Template jobs*: at most one is active per owner; a terminal status is final;
  an expired worker changes nothing.
* *Quality cycle*: the promoted document was accepted and is never worse than
  the one it replaces, over all passes together; a repair was seen before and
  after; nothing is tried twice.
* *Citations*: a search sees the whole index or none, of one vector space; a
  document with sources replaces the version it was made from only.
* *Word editor*: nothing of the manuscript is lost or doubled, its order and its
  captions survive every move, objects get the section they need; what an article
  does not hold in the end was lost by an edit nobody could see, or was the
  journal's.
* *Conversion*: captions, citations, list items and tables end where they
  belong, and every table stands once.

## 2. Modules

| module | models |
|---|---|
| `CheckBoard` | the abstract promise of the checks |
| `CheckRuns` | workers, watchdog and requests of the checks of one submission; implements `CheckBoard` |
| `CheckRunsProofs` | theorems about it |
| `ApprovalRoute` | runs, steps, tasks, appeals, conclusion and manual steps of one submission |
| `ApprovalRouteProofs` | theorems about it, with and without decisions that overtake each other |
| `TemplatePreparation` | the background preparation of the formatting template of one submission |
| `TemplatePreparationProofs` | theorems about it |
| `TemplateJobs` | the jobs of the template workspace of one owner |
| `ConclusionChain` | the sealed document, the chain of signatures and the package of one run |
| `ConclusionChainProofs` | theorems about it |
| `QualityCycle` | the passes of repair and review of one prepared document |
| `TemplateWorkspaceProofs` | theorems about the jobs and the quality cycle |
| `CitationIndex` | the index of sources, its lock and its builders |
| `Citations` | searches and workspaces of one material; composes `CitationIndex` |
| `CitationsProofs` | theorems about both |
| `ArticleParser` | the parser of Word documents |
| `ArticleRenderers` | the bodies of the LaTeX and of the Word document made of an article |
| `Conversion` | one run of the pipeline; composes the two |
| `ConversionProofs` | theorems about the three |
| `WordEditor` | the passes of the editor over the body of one article |
| `WordEditorProofs` | theorems about it |
| `...MC` | instances for TLC, one for each module that a run checks |

Definitions keep the names of the functions they model, in the style of TLA+
(`queue_submission_checks` is `QueueChecks`, `expire_v2_jobs` is `Expired`), and
`PROJECT.json` maps each of them to its lines.  A definition whose comment
starts with *Fault* is a plausible mistake; it is used by no specification and
serves to show that a property notices it.

What an atomic step is: `config/settings.py` opens SQLite transactions with
`BEGIN IMMEDIATE`, so a `transaction.atomic` block is one step, and so is a
single `UPDATE ... WHERE`.  Whatever a request or a process reads outside of a
block and uses later is part of its state (`request`, `procs`, `workers`).

### CheckRuns

* `rows` are the `CheckRun` rows, one per version and check.  `fresh` says that
  the latest timestamp of a row is later than the watchdog's `stalled_before`.
  The three grace periods of the code (90, 300 and 600 s) are one instant,
  `Quiet`, that makes everything written so far stale; it waits while the
  watchdog decides, because `stalled_before` is computed once.
* `procs` are the detached `run_submission_checks` processes and the watchdog,
  with their place in `run_mock_checks`: read a row, claim it with a new token,
  read it again, evaluate, write the result if the token is still there, go to
  the next check, finalise, resume the route.
* The watchdog selects a submission with stale rows, resets exactly the rows
  whose token it read, and works through them itself.
* Requests create versions, queue runs, announce checks, submit, decide, and edit
  the formatting rules between two statements of a worker.  Those that read the
  submission first and write it later are open in `request.open` in between: an
  announcement (`OpenMark`, `MarkChecking`) and a decision write the status
  whatever it is by then.
* A process that resumes the route compares the version (`LoadForResume`) and
  then saves the submission it loaded (`ResumeWorkflow`); where the code saves the
  whole row, the version is written back too.  `sub.latest` is the last version
  that was uploaded, which is then not the current one.
* `ImplementsBoard` is the refinement: a check is done when its row is terminal.
  The board lets a late announcement and a resumed route through, with any version
  that was uploaded; what it still promises is that a run, a new version and they
  are all that touch the status and the version, that a check is done once per run,
  and that checking ends for a version whose checks are done.

Tokens are drawn from a finite set, never one that is in use: uuid4 values do
not repeat.  An evaluation ends, since the AI client has timeouts; its verdict
is any terminal status.  `approved` and `rejected` are both `closed`.  Check
definitions are never deleted.  What the rules are, and which of them a worker has
loaded, is left out.  The preparation of a template in front of the
checks is a slow worker here; `TemplatePreparation` has its inside.

### ApprovalRoute

* `runs`, `steps`, `tasks`, `appeal` are the rows; a step is named by what made
  it (the chair's review, a step template, a manual insertion, the prorector).
* `request` holds web requests between the read of the view and the block of
  the service.  `Spec` lets two of them overlap.  `RereadSpec` leaves out the
  steps whose read no longer holds: what the system would do if the services
  read again inside the block.
* `sub.resume` is the second transaction of a check worker: checking ended,
  the route is still to be resumed.
* `signed` are the tasks with a signature of a conclusion; `document` says
  whether the run's conclusion is sealed or final.

Left out: the decision to comment (it changes no status), the choice of the
assignee, the ranking of route templates, which versions the signatures name,
the admin forms that edit rows freely.  Every template may reject and ask for a
revision, as the defaults are; the prorector may not.  Two steps of one order
cannot exist (`unique_workflow_step_order`), so the next step is unique.  Checks
are run again only in the statuses before a review.

### TemplatePreparation

* `sub` is the submission with the template and the origin of its rules
  snapshot: `base` is the template whose rules it holds, `manual` says that the
  author refined them.
* `workers` are preparations with what they have loaded: `seen` is the flag of
  the snapshot that was read before the template was processed.
* `request` is a view that has read the submission and its status.

The rules a template yields do not depend on when it is read (`readable` is
chosen once).  A template is not shared with other submissions.  Checks are
reduced to *waiting for their first run* or not, and their run may end at any
time.  The heartbeat of a preparation concerns the watchdog only and is that of
`CheckRuns`.  The author has one request under way at a time.

### TemplateJobs

* `jobs` are the rows with the age of `updated_at`; `workers` the process of
  each job with the time since its alarm was set.
* Ages grow by `Tick` up to a value past every limit, so that time itself is
  unbounded and the instance is finite.
* The alarm is an exception that is raised once.  It may end the process
  (`Fail`) or be taken by one of the `except Exception` clauses around requests
  and repairs (`AlarmSwallowed`); it may also ring late.
* A request that is refused, or whose form is not valid, still expires jobs;
  that is `Visit`.

### ConclusionChain

* A request has loaded (`reads`) a task and the version with it; `Ended` takes
  what it has loaded into the transaction of its decision.  The signature names
  that version (`SignedVersion`); `late` remembers that one was not the current
  one, or that a resumption wrote an older version back (`Resume`).
* `approval` is the transaction that holds the database, with the files it has
  written; `disk` is what is on the disk.  A file of a package is created by one
  step (`writing`) and known to `saved_files` after another.  `Fail` is an
  exception, which runs the clean-up of `finalize_conclusion_package` over the
  latter; `Kill` is a killed process or a failed commit, which runs nothing.
  Both drop the rows of the approval.
* A signature is its version, its time and the id of the one it was chained to;
  hashes stand for what they were computed of.  `SetBack` sets the clock back
  once.
* The route is reduced to the tasks that were opened and to the status.  Any
  decision may be the last one of its run: `ApproveLast` makes the package,
  `GrantAppeal` and `ApproveUnsigned` (a run without a conclusion) end the run
  with none.  `ApprovalRoute` says when each of them happens.

### QualityCycle

* `review` is the best review, `structural` what the XML itself tells.  A review
  is any subset of the pages of any layout with any findings that can be
  reported of it: the reviewer is a renderer and a model.
* `Improves`, `Covered` and `QualityStatus` are the functions of the code.
  `first`, `accepted` and `tried` are history.
* Time is not counted: a pass may find that it is over at any point.

### CitationIndex and Citations

* `index` is the file that searches read, `job` what each process builds, `lock`
  the lock file with its age; `breaks` counts old locks that were removed.
* `space` are `workspace.json` and the prepared document of a workspace; `request`
  is what a process has read of them.  A file is emptied when it is opened and
  filled later, and two writers may leave the rest of the longer text.  A write
  may end in an `OSError` (`WriteFails`) or with its process (`Kill`), between the
  two files or in the middle of one.
* `touched` are the requests in whose work on the files another one wrote, and
  `agreed` the workspaces whose last writer came to its end untouched: of those
  the two files agree, whatever was there before.
* A document is the set of the sources in it.  The numbering of markers in the
  text, the ranking of sources and the analysis of claims are left out.

### ArticleParser, ArticleRenderers, Conversion

* The document is a sequence of items that the parser reads one by one; an item
  has a role, which is the decision of the classifier and may be any, a form,
  which is what the regular expressions see, and its pictures, formulas and
  citations.  Everything in the article is tagged with the item it comes from.
* `mode` and `caption` are what the parser keeps between items: whether it is
  among references or under the heading of an abstract, the paragraphs that were
  lines of the editors, the caption that waits for its object.
* `tex` and `docx` are the outputs; `tex.stack` is the stack of open lists,
  `docx.groups` the panels that were written.
* `run` is the record of the process and `saved` the one in `run.json`, written
  at every stage.  Any stage may raise, any process may be killed.
* Audits that do not count the objects of the article or its citations may add a
  warning or an error at will.  One of them is the comparison of the objects of the
  Word document with those of the source: it counts, the template's pictures and
  repeated copies too, and nothing that is checked here depends on it.  Text is a
  model value with a language and a length class.

### WordEditor

* `body` is the sequence of paragraphs, pictures, tables and section marks;
  every action is one pass of `SafeWordEditor.render`, in the order of the code.
  The three passes that go through the objects of the body one by one, each time
  on the body the last one left, are a loop: an action lists the objects in
  `todo`, the next one places the first of them (`DescribeFigure`, `FloatTable`,
  `WrapPicture`) until none is left.  An object is known by the pieces it holds.
* A node keeps what the passes look at (kind, role, zone, group, language, size)
  and `items`, the pieces of the manuscript it holds.  Merging joins the items,
  moving keeps them; nothing else tells pieces apart.  `IsManuscript` says what
  the model takes for granted of an article: a piece stands in one place, what is
  blank holds none, a picture or a table is a piece itself.
* An edit of a paragraph may lose a piece (`lost`).  `checkpoints` are the pieces
  of which `LocalContentGuard` has a copy; `Recover` brings them back,
  `WriteDocument` and `RefuseDocument` compare with the source.
* Pieces are words, links (and raised characters), bookmarks, pictures and tables.
  `MayGo` are the nodes whose pieces the passes drop although the comparison
  counts some of them: the journal's lines (an article type that is written anew,
  the lines the template's box replaces) and, in the front, paragraphs without text
  that hold a bookmark (`anchor`).
* The comparison counts the words and objects of the whole result and does not
  know where one stood.  `Missing` is what it looks for and the body does not hold;
  it must refuse when nothing can make up for it, and may refuse or write
  otherwise (`MadeUpFor`: words by any other words of the result, objects by
  those of the template's box).  No property takes its word for anything: what is
  written and what is refused are held to the same conditions.
* `Mark(n)` ends a section of n columns, as `w:sectPr` in a paragraph does;
  `terminal` is the section that ends the body.

## 3. What the runs show

| run | instance | result |
|---|---|---|
| `checks_safety` | a worker and the watchdog, 2 checks, 3 versions, 2 explicit runs, a crash or lost launch, an announcement, one open request | exclusive claims, results written once and only by the owner, live claims kept, `SUBMITTED` means checked, the board is implemented |
| `checks_liveness` | a worker and the watchdog, 2 checks, 2 runs, a crash, an announcement, a template | `AUTO_CHECKING` is always left |
| `checks_lost_resume` | 2 workers, 1 check, 3 runs | violated: the flag to resume the route is lost |
| `route_safety` | one request, one manual step, 2 runs, 5 tasks, 3 versions, 2 routes, `RereadSpec` | one open task per active run, completed runs are approved, packages are signed, a material in review can be decided |
| `route_stale_decision` | two requests | violated: two decisions of one task |
| `conclusion_chain` | 2 requests, 4 tasks, 3 signatures, 2 versions, 2 instants, 4 files, an exception or kill | files verify and packages show all signatures, the chain is linear, versions are signed in order, a failed package leaves one file at most |
| `template_preparation` | 2 preparations, 2 templates, 2 versions, one exception or crash | types; settled rules are those of the template; waiting checks start |
| `template_jobs` | 2 jobs, deadline 2, grace 1, legacy limit 1, 2 reports | one open job, final verdicts, jobs in time are kept, jobs end |
| `quality_cycle` | a picture and a paragraph on up to 3 pages, 4 findings, 3 passes | the result was accepted and is not worse, edits were seen, nothing is tried twice |
| `citations` | 2 processes, 1 workspace, 2 sources, 2 vector spaces, an hour, a kill, 3 versions | the index is whole, builders and locks are accounted for, versions follow their source, an undisturbed preparation leaves a document with the selection it records |
| `conversion` | all documents of up to 5 items of each of 7 families | captions, citations, lists and tables are where they belong |
| `word_editor` | 6385 manuscripts, 3 templates, one edit that loses a piece | in every pass each piece stands once, what is missing in the end has a reason, captions and orders are kept, wide objects have the page |

Every property of a passing run is broken by at least one mutant of the code it
is about; `PROJECT.json` lists them under `mutants`.

### Why the bounds are enough

* *Processes.* The hazards of the checks need a process, the one that takes its
  rows over and a run in between; the watchdog works through the rows as a worker
  does and is the second one.  One crash lets it recover a run, or loses the launch
  of one.  `checks_lost_resume` has two workers, and the theorems hold for any
  number of everything.
* *Checks and versions.* Two checks have a first and a last one.  Three versions
  are one that is returned for a revision, the one uploaded for it and one that
  comes while its route is resumed, so that the older one is restored.
* *Requests.* One is open at a time (`MaxRequests`): what it has read may be
  outdated by every process and by every request that is one step.
* *Routes.* Route R has two steps, S has one: a first, a next and a last step,
  and a different route after a revision.  Five tasks are the review, two
  steps, the prorector and one repetition.  Two runs are needed for a second
  run after a revision, three versions for two revisions.
* *Preparations.* Two of them are a template and its replacement, or a request
  and the watchdog; the second version makes a preparation superfluous.
* *Jobs.* Two are an expired job with a late process and its successor, or a
  retired job and a new one.  Deadline 2 has an instant inside; a limit of 1
  and one of 3 keep the two workspaces apart.

* *Conclusion.* Three signatures are a first, a middle and a last one, with the
  task before them that seals the document; two versions, two requests and one
  step back of the clock are what the order needs.  Four files are a document
  and a package, or a part of it after one that has failed, and the theorems
  hold for any number of everything.
* *Quality cycle.* Three is the largest number of passes that the settings
  accept.  Two findings of a page, one without a target and one of the geometry,
  and layouts of two and three pages are a document that runs to other pages.
* *Citations.* Two processes are two builders, or a preparation and a use.  One
  workspace suffices, since workspaces share no state but the material.
* *Conversion.* The items of a document come from one family at a time: the
  front, summaries, captions, sources, endings, lists, and what is copied or
  cannot be.  Each family has all items that meet in one part of the parser;
  the families share the rest.  Five items are an object, its caption, its
  neighbour and what is before and after.
* *Word editor.* A manuscript has a front (96 of them: two languages, roles in
  any order, labels, lines of a form, identifiers, blank lines, links and bookmarks, a
  picture) or a picture in a paragraph with a field, or a body of any four out
  of nine blocks in any order, or of the five that can be moved, with two endings:
  text that mentions a figure, a figure with its captions, panels, a table with its
  caption, wide ones of each, blank lines before captions.  That is a figure, its
  description, a neighbour and something in between.  `Fragile` are two places an
  edit may spoil, one in the front and one in the text; `Lookahead` is the 8 of the code, `MaxCrossed` the 2 of its plan.

Deadlock is checked nowhere: in each instance the bounded resources run out, or
the system has simply finished (a job, a conversion, an approved material).
Where a stop would be wrong there is a liveness property instead.

### Fairness

* `CheckRuns`: `WF` of every process (the operating system runs it until it
  returns or is killed), `WF` of the watchdog (a systemd timer starts it every
  minute), `SF` of `Quiet`: the clock always passes the instant in the end, but
  not while the watchdog decides, so it is enabled again and again only.
  Nothing is assumed of users; heartbeats may be late.
* `TemplatePreparation`: `WF` of each preparation that was started.
* `TemplateJobs`: time passes and the owner's page polls (`detail.html` asks for
  the progress every 2.5 s while a job is open).  No process need do anything.

## 4. What is proved

All theorems hold for every value of the constants that satisfies the named
`ASSUME` of the module.

`CheckRunsProofs`

* `TypeCorrect`, from one lemma per helper; the other theorems use it.
* `ResultsPreserved`, `SupersededSilent`, `LiveClaimsKept` are action
  properties.  They follow from `RowSteps`, a lemma that says everything a step
  can do to one row, by a case per action.
* `SubmittedChecked` is inductive with the types.  A step either keeps
  the status or is the finalisation, which looks at all rows in one block.
* `ClaimsExclusive` is not inductive: a process that evaluates without a token
  would share "no token" with an unclaimed row.  `ClaimInv` adds
  `EvaluatorsHoldTokens`: a process at `eval` holds a real token.  Only `Claim`
  adds a holder, with a token that no row and no process has; all other steps
  are shown to keep or to lose claims (`NoNewClaim`, `OtherSteps`).
* `Implements`: `CheckRuns` implements `CheckBoard`.  The invariant of the
  refinement is `Uploaded`: neither the submission nor a process has a version
  that was not uploaded, so that what a resumed route restores is one of those.

`ApprovalRouteProofs`

* `TypeCorrect`, which includes that a paused run has a step to go on with.
* `ReviewActionable`: a material in review has a task that can be decided on,
  also with any number of overlapping requests.  It needs no further invariant:
  every transaction that leaves the material in review makes the task itself,
  and every transaction that closes a task either activates the next step in
  the same block or takes the material out of review.

`TemplateWorkspaceProofs`, the jobs

* The invariant `IInv` adds two facts to the types.  `StartedJobs`: a
  process that has not claimed yet has a job that is queued or was given up.
  `AgesFollowAlarms`: the row of a running job is not older than the alarm of
  its process until the deadline has passed, because the claim renews it after
  the alarm was set.
* `AtMostOneOpen`, `VerdictsFinal`, `JobsInTimeKept` follow from it and from
  lemmas on what an expiry, an upload and a process may do to the rows.

`ConclusionChainProofs`

* `Linear` and `VersionsInOrder` rest on the invariant `IInv`: the signatures
  are of the past while the clock was not set back; there is a latest signature
  (`HasLatest`, without which the `CHOOSE` of `PreviousSignature` says nothing);
  and a signature that waits for its package still fits the chain, since nothing
  else can sign meanwhile.
  `VersionsInOrder` also needs that no version is newer than the last one.
* `PackagesAlwaysVerify`, `PackagesShowAll` and `FailuresLeaveFew` need `FilesInv`
  as well: the files that rows name are on the disk and are not those that an
  approval has written, so that the clean-up of a failed package never deletes a
  file of a row; what is written for a package says what the package is to say;
  and an exception adds one file at most to those that nobody knows.
* `TypeCorrect`, with what an approval holds at each of its steps.

`ApprovalRouteProofs`, the rows of a route

What `route_safety` checks of a run's rows is not inductive: that an active run
has one open task says nothing of what a decision, a resumption or an accepted
appeal will find.  `RouteInv` says it run by run (`RunInv`), so that a
transaction, which writes the rows of one run, is looked at for that run only
(`OtherRunsStay`):

* `RunHasItsTask`: an active run has one open task, on its current step, and no
  other run has one;
* `StepsFitTheRun`: an active step is the current one of an active run, a step
  with a revision that of a paused one; a rejected step ends its run, unless an
  appeal has overturned it;
* `RejectionIsAlone`: until an appeal is accepted there is one rejected step;
* `AwaitingIsNotBegun`: a run that waits for its route has begun none of it;
* `DocumentIsSigned`: a run with a conclusion has the prorector's step and the
  signatures of its approved steps.

`RouteIsConsistent` states it for `RereadSpec`, with any number of requests;
`OneTaskPerRun`, `CompletedIsApproved` and `PackageIsSigned` follow.

`TemplatePreparationProofs`

`SettledRulesAreExtracted` speaks of states in which nothing is under way.
`PreparationInv` says how they come about: rules are extracted only of attached
templates (`RulesAreOfAttachedTemplates`), a preparation that has seen manual
rules leaves a snapshot that is the author's or is up to date already
(`SeenRulesStand`), and rules that were extracted are in the snapshot or about to
be saved (`ExtractedRulesArrive`).  `TypeCorrect` and `RulesArrive` follow.

`CitationsProofs`

* The index: a temporary file has articles of one space and only who made the
  lock removes it in the end (`JobIsWhole`); `LocksLetBuildersIn` counts builders
  against the lock that is there and the removals of old ones, where
  `BuildersAreCounted` alone would not survive the release of a lock.
  `IndexAlwaysWhole`, `LocksLimitBuilders` and `LockAlwaysHeld` follow for any
  number of processes.
* The workspaces: `VersionsFollow` needs that a request which still checks the
  version works on a workspace that is there; `QuietAgree` that a request
  nobody has written against finds its own half of the work (`Undisturbed`): a
  preparation what it has put into the first file, a reader the selection it has
  read, where the workspace agreed at the start.

`TemplateWorkspaceProofs`, the quality cycle

A candidate is compared with the best copy, while the promise is about the
document as it came.  `CycleInv` carries one to the other: the review at hand is
that of the last accepted pass (`BestIsTheLastAccepted`), nothing has changed
before one was accepted (`PassesFollowTheBest`), the result is the first document
until the best copy is promoted (`ResultIsFirstOrBest`), and a review that calls
itself complete has all pages (`ReviewsAreTyped`).  `ResultAlwaysAccepted`,
`NeverGetsWorse`, `EditsAlwaysSeen` and the action property `NeverTriedAgain`
follow.

`ConversionProofs`

The theorems are about documents of any length and any set of items.

* `TypeCorrect` carries the types and `BodyFits`: the blocks of the article stand
  in the order of their items, and a table has its blocks.  Each of the twenty
  branches of the parser adds the blocks of one item at the end
  (`ReadBodyFits`); what follows the last item removes paragraphs only
  (`Thinned`, `ParsedFits`).
* `TablesStandOnce`: what is written of the Word document so far has a piece for
  each table that was passed and no two, because a group of figures is
  remembered once it was written (`PiecesFit`).
* `LinksKeepTheirNumbers`: while a list of references is read, the key of an
  entry is its distance from the heading (`ReferencesFit`), and what merges
  repeats keeps the keys.
* `ListsAreNested`: the LaTeX source so far is nested and its open lists are the
  stack of the renderer (`ListsFit`).  `Nesting` is recursive; that it has the
  values of its equation at every number, and that a nested source leaves it
  empty at its end, is an induction over sets of numbers (`NatsByInduction`, from
  the well-foundedness of `<`).
* `CaptionsAreGivenRightly`: `SoFar` says which beginnings of a document may
  become well captioned.  After such a beginning a caption waits in
  `pending_caption` just when the last item is a caption below no picture, and a
  free block is at the end just when the last item is a picture (`Captioned`).
  Every item is read from one of these states into another.

`WordEditorProofs`

The theorems are about every manuscript `IsManuscript` admits, of any length,
every template and every edit that loses a piece.

* A sequence is *tidy* if no two of its places hold a common piece (`Tidy`), and
  `Holds(b, S, A)` says of a body that it is tidy, holds exactly the pieces A, and
  has none of the pieces S in a node that a pass may drop: a blank line, a line of
  the journal or, in the front, a paragraph without text.  Concatenating, selecting, joining, inserting, replacing and
  removing keep it or lose what they drop; that a body glued of parts is tidy if
  its parts are (`TidyFlatten`) is an induction over their number.
* Each pass has a lemma that says which pieces it holds afterwards.  Most keep
  all; sorting the front and the template's box may lose what stands in the nodes of
  `MayGo`, and no more (so the zone of a node is followed through every pass, too).  `GroupHolds` and `GroupsHold` show that roles the template does not know
  and groups in languages it does not name keep their place; `MovedHolds` that a
  figure or a table that is moved stands in one place, because what is moved and
  what it passes are disjoint stretches (`Description` and `FloatAnchor` never
  reach into the group itself); `PictureWrappedHolds` that a row takes the picture
  and its captions, and nothing that follows.
* `Invariant` is the body's in every phase, with what a loop has still to place:
  that each object of `todo` is still in the body is needed for the place its
  handler looks for, and of a picture that no object comes twice, since the row
  made of it is not a picture any more.  That the body is tidy is what makes the
  first node with these pieces the right one.
* `NothingDroppedOrDoubled` follows, for every phase.  `LossesHaveReasons` adds the
  edits: `RecoveryNeverRefuses` says what it rests on, that the paragraphs of which
  the checkpoints have a copy are in the body until the recovery, so that what is
  missing in the end was lost before the copies or after the recovery, or stood in a
  node of `MayGo`.  Neither assumes anything of the comparison.

The invariants of the other modules were checked by TLC on the instance of their run
before they were proved; of `WordEditor` TLC checks what follows from the
invariant, which itself says that there is some set of pieces.  The types of all
these modules but `TemplatePreparation` are proved and not checked again by a run.

Only model-checked:

* what must happen (`CheckingEnds`, `WaitingChecksStart`, `JobsEnd`), which needs
  fairness and `ENABLED`;
* `FlowIsKept` and `WideObjectsHaveThePage` of `WordEditor`.  They are about where
  pieces stand relative to each other and to section marks, and they are stated for
  articles whose captions stand next to their objects and whose groups are whole,
  as those of the run do.  A theorem would need these conditions as assumptions:
  of an arbitrary sequence of nodes `WideObjectsHaveThePage` is false (section 5).

## 5. Where the code departs from what it says

Two runs must end in a counterexample; the quotations are in `PROJECT.json`.

* `checks_lost_resume`: a run queued by an edit of the rules replaces the run of
  a revised version without its flag to resume the route.
* `route_stale_decision`: the services test the task that the view has read;
  two overlapping decisions are both recorded.

Observed in the same models, and not made into runs:

* the request that announces the checks of a draft writes `AUTO_CHECKING` over
  whatever has happened since it loaded the draft;
* a worker that resumes a route saves every column of the submission it loaded
  (`start_workflow`, and a run paused behind its first approval): a version uploaded
  in between is no longer the current one;
* a paused run is resumed without looking for an active one;
* an approval that loaded its task before an upload signs the older version, also
  after a newer one was signed, and may be the last of its run;
* an appeal that is granted after the last step, and a run on another route,
  approve the material without a package;
* of a package that fails, the file whose save has raised stays on the disk, and
  so does the file of a conclusion that is not sealed;
* run_mock_checks refreshes the current version only, so that a worker of an earlier
  run may evaluate a row of a later one with the rules it loaded (not in the model);
* a manual step after the review takes the order of the first step of the route
  that is to be built, and no route can be approved until it is moved;
* whether rules were refined by hand is decided on the submission as it was before
  the template was read;
* the preparation of a replaced template may finish last and leave its rules; a
  version uploaded before a preparation has started leaves the template unread; a
  preparation that ends late queues checks of a material in review;
* two preparations of one citation workspace that overlap, or one that ends between
  its two files, leave the selection of one with the document of another, with an
  empty one or with a part of one; such a document can become a version;
* an accepted appeal against the rejection of a route goes on with a pending
  manual step and completes the run without the route.

Observed while `ArticleParser`, `ArticleRenderers` and `Conversion` were written,
and kept in them:

* pictures and formulas in a paragraph that is read as a UDC, a DOI, a reference
  or a second title are lost, and a waiting caption goes with them;
* a caption that comes while another one waits replaces it; a picture and its
  caption in one paragraph give the caption to another figure;
* merged references keep their keys while their positions shift: the numbers that
  the Word document prints may differ from those in its text, keys of merged
  references dangle, and citations beyond the merged list stay plain text;
* a paragraph of text with pictures, one with two pictures and one of a bare
  formula are written twice into the Word document; such copies, and
  pictures that the template keeps in its front, can hide a loss from the audit,
  which counts objects;
* a paragraph of spaces or of a page break is a block of text: between a picture
  and its caption it makes the caption wait for the next object;
* an exception while `warnings.json` is written turns a completed run into a
  failed one, although its documents are there;
* the correction of a material offers the document whatever the status of the run
  is.

Observed while `WordEditor` was written, and kept in it:

* two figures in a row that are followed by their two descriptions do not both
  change places: the second figure stands between the first and its description,
  although prose is to precede its figure;
* a wide figure with a blank line before its caption leaves the caption outside
  of the section over the page, and so does a wide picture that was detached from
  the text of its caption;
* the template's box shows the words of the first article type and of the first
  rubric and removes all others.  Their links, bookmarks, raised characters and
  pictures go, as do those of an article type that is written anew and the bookmarks
  of the front's paragraphs without text.  The comparison leaves out only the words
  of the journal's lines (integrity.py:60-63) and counts the rest
  (integrity.py:22-48), so such an article is refused although its text is whole;
* the comparison counts words over the whole result (integrity.py:54-66): a
  word that was lost is not missed if the journal's lines, the template or a number
  set before a heading hold it too;
* a picture that is high, anchored or one of several, or whose captions are long, is
  not wrapped with them (layout_fidelity.py:364-386);
* a picture without text counts as a blank line when a small table looks for the
  figure above it, and when a wide table looks for its caption: a wide table with
  a wide picture between it and its caption stays in the columns, because its
  span meets that of the picture and is left out.

## 6. Not modelled, and plan

Not modelled: the analysis of documents (evaluators, extraction of rules,
inspectors, `document_template_engine`), which has no shared state; the
AI client beyond the fact that a call ends; permissions beyond who may act at
all; accounts and activities, whose rows have one writer.  Of the conversion:
the classifier of paragraphs, front matter and styles, the parsers of LaTeX and
PDF, the analysis of templates.  Of citations: the numbering of markers and the
ranking.  Of the Word editor: typography, numbering, headers and footers, sizes,
rows of panels, captions in text boxes, articles that already have the layout of
the journal, and the repairs that follow a review, of which `QualityCycle` has
the control.

Next, in this order:

1. `RouteChoice`: the ranking of route templates (`select_route_template`) as a
   function, against its reference definition; the numbering of citation markers
   likewise.
2. A composition of `CheckRuns` and `TemplatePreparation` with one `Submission`
   row.
3. Proofs: the order of the pieces in `WordEditor` (`FlowIsKept`), from conditions
   on a manuscript that say when a caption belongs to its object.
