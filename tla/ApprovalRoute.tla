---------------------------- MODULE ApprovalRoute ----------------------------
(***************************************************************************)
(* The approval route of one submission: apps/workflow/services.py, the    *)
(* requests that call it, and what a decision does to the conclusion       *)
(* (apps/conclusions/services.py).                                         *)
(*                                                                         *)
(* Every service function is one transaction.atomic block and so one       *)
(* action.  What makes decisions hard is that a web request reads the task *)
(* (or the appeal, or the submission) before that block and checks the     *)
(* objects it read: a slot holds a request between the two.  The check     *)
(* worker resumes a paused route after a revision, and root inserts manual *)
(* steps, at any time.                                                     *)
(***************************************************************************)
EXTENDS Integers, Sequences

CONSTANTS
    Routes,         \* route templates that can be selected
    Templates,      \* route step templates
    RouteSteps,     \* RouteSteps[r]: the step templates of route r, in order
    TemplateOrder,  \* TemplateOrder[s]: order of step template s
    Manuals,        \* bound: manual steps per run
    Slots,          \* bound: web requests in progress
    MaxRuns,        \* bound: workflow runs
    MaxTasks,       \* bound: approval tasks
    MaxVersions     \* bound: versions of the submission

ASSUME ApprovalRouteAssumption ==
    /\ Routes # {}
    /\ RouteSteps \in [Routes -> Seq(Templates) \ {<<>>}]
    /\ TemplateOrder \in [Templates -> Nat \ {0}]
    /\ \A r \in Routes : \A i, j \in 1..Len(RouteSteps[r]) :
          i < j => TemplateOrder[RouteSteps[r][i]] < TemplateOrder[RouteSteps[r][j]]
    /\ MaxRuns \in Nat \ {0}
    /\ MaxTasks \in Nat \ {0}
    /\ MaxVersions \in Nat \ {0}
    /\ {"review", "prorector", "none"} \cap (Templates \cup Manuals) = {}
    /\ Templates \cap Manuals = {}

Runs == 1..MaxRuns
Tasks == 1..MaxTasks

\* A step of a run is named by what it was made from: the chair's review of
\* the route, a step template, a manual insertion, the prorector's approval.
Steps == {"review", "prorector"} \cup Templates \cup Manuals

Step == [status : {"absent", "pending", "active", "approved", "rejected",
                   "revision_requested"},
         order  : Nat]     \* 0 if absent

\* paused: paused_for_revision.  document: the run's ConclusionDocument.
Run == [status   : {"absent", "active", "paused", "completed", "rejected"},
        awaiting : BOOLEAN,
        route    : Routes,
        current  : Steps \cup {"none"},
        document : {"none", "sealed", "final"}]

Task == [status : {"absent", "active", "approved", "rejected",
                   "revision_requested"},
         run    : Runs,
         step   : Steps]

\* What a request has read and checked before its transaction.
Request == [kind : {"idle", "submit", "decide", "appeal", "appeal_decision"},
            task : Tasks]

VARIABLES
    sub,        \* the Submission row; resume: a check worker is to resume the
                \* route when ("flagged") or now that ("due") checking ended
    runs,       \* WorkflowRun rows with their conclusions
    steps,      \* steps[n]: the WorkflowStep rows of run n
    tasks,      \* ApprovalTask rows
    made,       \* how many tasks exist
    signed,     \* tasks with a ConclusionSignature
    rejections, \* rejected tasks, the latest last
    appeal,     \* the submission's only appeal, and the task it is about
    request     \* web requests in progress

vars == <<sub, runs, steps, tasks, made, signed, rejections, appeal, request>>

AbsentStep == [status |-> "absent", order |-> 0]
NoSteps == [s \in Steps |-> AbsentStep]
NoRequest == [kind |-> "idle", task |-> 1]

Init ==
    /\ \E r \in Routes :
          /\ sub = [status |-> "submitted", route |-> r, version |-> 1,
                    resume |-> "no"]
          /\ runs = [n \in Runs |-> [status |-> "absent", awaiting |-> FALSE,
                                     route |-> r, current |-> "none",
                                     document |-> "none"]]
    /\ steps = [n \in Runs |-> NoSteps]
    /\ tasks = [t \in Tasks |-> [status |-> "absent", run |-> 1,
                                 step |-> "review"]]
    /\ made = 0
    /\ signed = {}
    /\ rejections = <<>>
    /\ appeal = [status |-> "none", task |-> 1]
    /\ request = [q \in Slots |-> NoRequest]

-----------------------------------------------------------------------------
(* Steps of a run *)

Existing(st) == {s \in Steps : st[s].status # "absent"}

\* Fault: only steps that have a template are looked for.
PendingTemplates(st) == {s \in Steps \ Manuals : st[s].status = "pending"}

Pending(st) == {s \in Steps : st[s].status = "pending"}

\* s is what _get_next_pending_step returns.
NextPending(st, s) ==
    s \in Pending(st) /\ \A o \in Pending(st) : st[s].order <= st[o].order

FirstTemplate(r) == RouteSteps[r][1]

LastTemplate(r) == RouteSteps[r][Len(RouteSteps[r])]

InRoute(r) == {RouteSteps[r][i] : i \in 1..Len(RouteSteps[r])}

\* _build_route_steps: the step templates of route r, numbered from start.
RouteBuilt(st, r, start) ==
    [s \in Steps |->
        IF s \in InRoute(r)
        THEN [status |-> "pending", order |-> start + TemplateOrder[s] - 1]
        ELSE st[s]]

\* append_prorector_approval_step
ProrectorAppended(st, r) ==
    [st EXCEPT !["prorector"] =
        [status |-> "pending", order |-> st[LastTemplate(r)].order + 1]]

\* unique_workflow_step_order: an insertion that breaks it raises.
OrdersUnique(st) ==
    \A a, b \in Existing(st) : st[a].order = st[b].order => a = b

\* Fault: a step is activated only if it is pending, as in _activate_step, also
\* where a paused run goes on.
ActivatedIfPending(st, s) ==
    [st EXCEPT ![s].status = IF @ = "pending" THEN "active" ELSE @]

Activated(st, s) == [st EXCEPT ![s].status = "active"]

\* _create_step_task
TaskAdded(ts, n, s) ==
    [ts EXCEPT ![made + 1] = [status |-> "active", run |-> n, step |-> s]]

\* The run and its step, as every decision and resumption saves them.
RunAt(n, status, step) ==
    [runs EXCEPT ![n] = [@ EXCEPT !.status = status, !.current = step]]

ActiveRuns == {n \in Runs : runs[n].status = "active"}
PausedRuns == {n \in Runs : runs[n].status = "paused"}
NewRuns == {n \in Runs : runs[n].status = "absent"}

Latest(n, S) == n \in S /\ \A m \in S : m <= n
Earliest(n, S) == n \in S /\ \A m \in S : n <= m

\* What task.status, step.status and run.status say to _validate_active_task.
Actionable(t) ==
    /\ tasks[t].status = "active"
    /\ steps[tasks[t].run][tasks[t].step].status = "active"
    /\ runs[tasks[t].run].status = "active"

-----------------------------------------------------------------------------
(* The submission around the route *)

\* add_submission_version: only the worker of the first version uploaded
\* after the revision request is told to resume the route.
UploadVersion ==
    /\ sub.status \in {"auto_checking", "submitted", "revision_requested"}
    /\ sub.version < MaxVersions
    /\ sub' = [sub EXCEPT !.status = "auto_checking", !.version = @ + 1,
                  !.resume = IF sub.status = "revision_requested"
                             THEN "flagged" ELSE "no"]
    /\ UNCHANGED <<runs, steps, tasks, made, signed, rejections, appeal, request>>

\* A new run of the checks of the same version (see CheckRuns).
RerunChecks ==
    /\ sub.status = "submitted" \/ sub.status = "auto_checking"
    /\ sub' = [sub EXCEPT !.status = "auto_checking",
                  !.resume = IF @ = "flagged" THEN "no" ELSE @]
    /\ UNCHANGED <<runs, steps, tasks, made, signed, rejections, appeal, request>>

\* Checking ends, or its last worker dies after that.
ChecksEnd ==
    \/ /\ sub.status = "auto_checking"
       /\ sub' = [sub EXCEPT !.status = "submitted",
                     !.resume = IF @ = "flagged" THEN "due" ELSE @]
       /\ UNCHANGED <<runs, steps, tasks, made, signed, rejections, appeal, request>>
    \/ /\ sub.resume # "no"
       /\ sub' = [sub EXCEPT !.resume = "no"]
       /\ UNCHANGED <<runs, steps, tasks, made, signed, rejections, appeal, request>>

\* ensure_submission_route_suggestion, when the detail page is shown.
SuggestRoute(r) ==
    /\ sub.status = "submitted"
    /\ sub' = [sub EXCEPT !.route = r]
    /\ UNCHANGED <<runs, steps, tasks, made, signed, rejections, appeal, request>>

\* submit_submission checks the status the request has read, then
\* start_route_review_workflow only looks for an active run.
OpenSubmit(q) ==
    /\ request[q].kind = "idle"
    /\ sub.status = "submitted"
    /\ request' = [request EXCEPT ![q].kind = "submit"]
    /\ UNCHANGED <<sub, runs, steps, tasks, made, signed, rejections, appeal>>

CommitSubmit(q) ==
    /\ request[q].kind = "submit"
    /\ ActiveRuns = {}
    /\ made < MaxTasks
    /\ \E n \in Runs, r \in Routes :
            /\ Earliest(n, NewRuns)
            /\ sub' = [sub EXCEPT !.status = "in_review", !.route = r]
            /\ runs' = [runs EXCEPT ![n] =
                            [status |-> "active", awaiting |-> TRUE, route |-> r,
                             current |-> "review", document |-> "none"]]
            /\ steps' = [steps EXCEPT ![n]["review"] =
                            [status |-> "active", order |-> 1]]
            /\ tasks' = TaskAdded(tasks, n, "review")
    /\ made' = made + 1
    /\ request' = [request EXCEPT ![q] = NoRequest]
    /\ UNCHANGED <<signed, rejections, appeal>>

\* A request that finds its condition broken, is refused, cannot resolve an
\* assignee, breaks unique_workflow_step_order or fails to convert a file
\* raises: its transaction leaves nothing behind.
RequestFails(q) ==
    /\ request[q].kind # "idle"
    /\ request' = [request EXCEPT ![q] = NoRequest]
    /\ UNCHANGED <<sub, runs, steps, tasks, made, signed, rejections, appeal>>

-----------------------------------------------------------------------------
(* Decisions on a task *)

\* _get_visible_task_or_404, before the transaction of the decision.
OpenDecision(q, t) ==
    /\ request[q].kind = "idle"
    /\ Actionable(t)
    /\ request' = [request EXCEPT ![q] = [kind |-> "decide", task |-> t]]
    /\ UNCHANGED <<sub, runs, steps, tasks, made, signed, rejections, appeal>>

\* create_authenticated_signature: once there is a document, one per task.
MaySign(n, t) == runs[n].document # "none" => t \notin signed

\* Fault: the existing signature is looked up by document, not by task.
SignedOnce(n, t) ==
    IF runs[n].document = "none" \/ \E u \in signed : tasks[u].run = n
    THEN signed ELSE signed \cup {t}

SignedBy(n, t) == IF runs[n].document = "none" THEN signed ELSE signed \cup {t}

\* _close_task_and_step, the step.
StepClosed(n, s, status) == [steps[n] EXCEPT ![s].status = status]

\* Fault: the task is left open.
TaskLeftOpen(t, status) == tasks

\* _close_task_and_step, the task.
TaskClosed(t, status) == [tasks EXCEPT ![t].status = status]

\* The run as read again from the database in _close_task_and_step is
\* waiting for the chair's approval of the route, and this is that step.
ApprovesRoute(n, s) == runs[n].awaiting /\ s = "review"

\* approve_task on the chair's review: the route is built from the submission's
\* template, the prorector's step and the conclusion are added, and the first
\* template step becomes active.
ApproveRouteReview(t, r) ==
    LET n == tasks[t].run
        s == tasks[t].step
        closed == StepClosed(n, s, "approved")
        built == ProrectorAppended(RouteBuilt(closed, r, closed[s].order + 1), r)
    IN  /\ ApprovesRoute(n, s)
        /\ MaySign(n, t)
        /\ OrdersUnique(built)
        /\ made < MaxTasks
        /\ steps' = [steps EXCEPT ![n] = Activated(built, FirstTemplate(r))]
        /\ runs' = [runs EXCEPT ![n] =
                        [status |-> "active", awaiting |-> FALSE, route |-> r,
                         current |-> FirstTemplate(r),
                         document |-> IF @.document = "none" THEN "sealed"
                                      ELSE @.document]]
        /\ tasks' = TaskAdded(TaskClosed(t, "approved"), n, FirstTemplate(r))
        /\ made' = made + 1
        /\ signed' = SignedBy(n, t)
        /\ sub' = [sub EXCEPT !.status = "in_review", !.route = r]
        /\ UNCHANGED <<rejections, appeal>>

\* approve_task, when another step is pending.
ApproveStep(t) ==
    LET n == tasks[t].run
        s == tasks[t].step
        closed == StepClosed(n, s, "approved")
    IN  /\ ~ApprovesRoute(n, s)
        /\ MaySign(n, t)
        /\ made < MaxTasks
        /\ \E next \in Steps :
              /\ NextPending(closed, next)
              /\ steps' = [steps EXCEPT ![n] = Activated(closed, next)]
              /\ runs' = RunAt(n, "active", next)
              /\ tasks' = TaskAdded(TaskClosed(t, "approved"), n, next)
        /\ made' = made + 1
        /\ signed' = SignedBy(n, t)
        /\ sub' = [sub EXCEPT !.status = "in_review"]
        /\ UNCHANGED <<rejections, appeal>>

\* finalize_conclusion_package, for a run that has a conclusion.
Packaged(run) ==
    [run EXCEPT !.document = IF run.document = "none" THEN "none" ELSE "final"]

\* approve_task, when no step is pending: the run is completed, whatever its
\* other steps are.
ApproveLastStep(t) ==
    LET n == tasks[t].run
        s == tasks[t].step
        closed == StepClosed(n, s, "approved")
    IN  /\ ~ApprovesRoute(n, s)
        /\ MaySign(n, t)
        /\ Pending(closed) = {}
        /\ steps' = [steps EXCEPT ![n] = closed]
        /\ runs' = [RunAt(n, "completed", "none") EXCEPT ![n] = Packaged(@)]
        /\ tasks' = TaskClosed(t, "approved")
        /\ signed' = SignedBy(n, t)
        /\ sub' = [sub EXCEPT !.status = "approved"]
        /\ UNCHANGED <<made, rejections, appeal>>

Approve(q) ==
    /\ request[q].kind = "decide"
    /\ \/ ApproveRouteReview(request[q].task, sub.route)
       \/ ApproveStep(request[q].task)
       \/ ApproveLastStep(request[q].task)
    /\ request' = [request EXCEPT ![q] = NoRequest]

\* reject_task; the prorector's step cannot reject.
Reject(q) ==
    LET t == request[q].task
        n == tasks[t].run
    IN  /\ request[q].kind = "decide"
        /\ tasks[t].step # "prorector"
        /\ steps' = [steps EXCEPT ![n] = StepClosed(n, tasks[t].step, "rejected")]
        /\ tasks' = TaskClosed(t, "rejected")
        /\ runs' = RunAt(n, "rejected", "none")
        /\ sub' = [sub EXCEPT !.status = "rejected"]
        /\ rejections' = Append(rejections, t)
        /\ request' = [request EXCEPT ![q] = NoRequest]
        /\ UNCHANGED <<made, signed, appeal>>

\* request_revision; nor can the prorector's step ask for a revision.
RequestRevision(q) ==
    LET t == request[q].task
        n == tasks[t].run
        s == tasks[t].step
    IN  /\ request[q].kind = "decide"
        /\ s # "prorector"
        /\ steps' = [steps EXCEPT ![n] = StepClosed(n, s, "revision_requested")]
        /\ tasks' = TaskClosed(t, "revision_requested")
        /\ runs' = RunAt(n, "paused", s)
        /\ sub' = [sub EXCEPT !.status = "revision_requested"]
        /\ request' = [request EXCEPT ![q] = NoRequest]
        /\ UNCHANGED <<made, signed, rejections, appeal>>

\* confirm_submission_route_before_launch: the chair's decision from the
\* submission's page reads its task inside the transaction.
ConfirmRoute(q, r) ==
    /\ request[q].kind = "idle"
    /\ \E t \in Tasks :
          /\ Latest(tasks[t].run, {n \in ActiveRuns : runs[n].awaiting})
          /\ tasks[t].step = runs[tasks[t].run].current
          /\ Actionable(t)
          /\ ApproveRouteReview(t, r)
    /\ UNCHANGED request

-----------------------------------------------------------------------------
(* Appeals *)

OpenAppeal(q) ==
    /\ request[q].kind = "idle"
    /\ sub.status = "rejected"
    /\ request' = [request EXCEPT ![q].kind = "appeal"]
    /\ UNCHANGED <<sub, runs, steps, tasks, made, signed, rejections, appeal>>

\* Tasks that are still rejected, as positions in rejections.
StillRejected ==
    {i \in DOMAIN rejections : tasks[rejections[i]].status = "rejected"}

\* submit_submission_appeal: one appeal, about the latest rejected task.
SubmitAppeal(q) ==
    /\ request[q].kind = "appeal"
    /\ appeal.status = "none"
    /\ \E i \in StillRejected :
          /\ Latest(i, StillRejected)
          /\ appeal' = [status |-> "pending", task |-> rejections[i]]
    /\ sub' = [sub EXCEPT !.status = "appeal_pending"]
    /\ request' = [request EXCEPT ![q] = NoRequest]
    /\ UNCHANGED <<runs, steps, tasks, made, signed, rejections>>

OpenAppealDecision(q) ==
    /\ request[q].kind = "idle"
    /\ appeal.status = "pending"
    /\ request' = [request EXCEPT ![q].kind = "appeal_decision"]
    /\ UNCHANGED <<sub, runs, steps, tasks, made, signed, rejections, appeal>>

\* approve_submission_appeal: the run goes on with its next pending step, or
\* with the chair's review if that was rejected, or is completed.
ApproveAppeal(q) ==
    LET n == tasks[appeal.task].run
        s == tasks[appeal.task].step
        GoesOnWith(step) ==
            /\ made < MaxTasks
            /\ steps' = [steps EXCEPT ![n] = Activated(@, step)]
            /\ runs' = RunAt(n, "active", step)
            /\ tasks' = TaskAdded(tasks, n, step)
            /\ made' = made + 1
            /\ sub' = [sub EXCEPT !.status = "in_review"]
    IN  /\ request[q].kind = "appeal_decision"
        /\ \/ \E next \in Steps : NextPending(steps[n], next) /\ GoesOnWith(next)
           \/ /\ Pending(steps[n]) = {}
              /\ runs[n].awaiting
              /\ GoesOnWith(s)
           \/ /\ Pending(steps[n]) = {}
              /\ ~runs[n].awaiting
              /\ runs' = RunAt(n, "completed", "none")
              /\ sub' = [sub EXCEPT !.status = "approved"]
              /\ UNCHANGED <<steps, tasks, made>>
        /\ appeal' = [appeal EXCEPT !.status = "approved"]
        /\ request' = [request EXCEPT ![q] = NoRequest]
        /\ UNCHANGED <<signed, rejections>>

\* reject_submission_appeal
RejectAppeal(q) ==
    /\ request[q].kind = "appeal_decision"
    /\ appeal' = [appeal EXCEPT !.status = "rejected"]
    /\ sub' = [sub EXCEPT !.status = "rejected"]
    /\ request' = [request EXCEPT ![q] = NoRequest]
    /\ UNCHANGED <<runs, steps, tasks, made, signed, rejections>>

-----------------------------------------------------------------------------
(* The check worker and root *)

\* start_workflow: a run without the chair's review, the prorector's step and
\* the conclusion.  steps[n] of a new run n holds no step.
StartRun(r) ==
    /\ ActiveRuns = {}
    /\ \E n \in Runs :
          /\ Earliest(n, NewRuns)
          /\ runs' = [runs EXCEPT ![n] =
                          [status |-> "active", awaiting |-> FALSE, route |-> r,
                           current |-> FirstTemplate(r), document |-> "none"]]
          /\ steps' = [steps EXCEPT ![n] =
                          Activated(RouteBuilt(@, r, 1), FirstTemplate(r))]
          /\ tasks' = TaskAdded(tasks, n, FirstTemplate(r))

\* A paused run goes on at the step that asked for the revision.
ContinueRun(n) ==
    /\ runs' = [RunAt(n, "active", runs[n].current) EXCEPT
                    ![n] = [@ EXCEPT !.route = sub.route]]
    /\ steps' = [steps EXCEPT ![n] = Activated(@, runs[n].current)]
    /\ tasks' = TaskAdded(tasks, n, runs[n].current)

\* resume_or_start_workflow, by the worker that ended the checks.
ResumeOrStart ==
    /\ sub.resume = "due"
    /\ made < MaxTasks
    /\ \/ /\ PausedRuns = {}
          /\ StartRun(sub.route)
       \/ \E n \in Runs :
              /\ Latest(n, PausedRuns)
              /\ IF runs[n].awaiting \/ runs[n].route = sub.route
                 THEN ContinueRun(n)
                 ELSE StartRun(sub.route)
    /\ made' = made + 1
    /\ sub' = [sub EXCEPT !.status = "in_review", !.resume = "no"]
    /\ UNCHANGED <<signed, rejections, appeal, request>>

\* insert_manual_step: as the first step, or after an existing one.
InsertManualStep(n, m) ==
    /\ runs[n].status \in {"active", "paused"}
    /\ steps[n][m].status = "absent"
    /\ \E order \in {1} \cup {steps[n][s].order + 1 : s \in Existing(steps[n])} :
          steps' = [steps EXCEPT ![n] =
                       [s \in Steps |->
                           IF s = m
                           THEN [status |-> "pending", order |-> order]
                           ELSE IF s \in Existing(steps[n])
                                   /\ steps[n][s].order >= order
                           THEN [steps[n][s] EXCEPT !.order = @ + 1]
                           ELSE steps[n][s]]]
    /\ UNCHANGED <<sub, runs, tasks, made, signed, rejections, appeal, request>>

-----------------------------------------------------------------------------
Next ==
    \/ UploadVersion
    \/ RerunChecks
    \/ ChecksEnd
    \/ \E r \in Routes : SuggestRoute(r)
    \/ \E q \in Slots :
          \/ OpenSubmit(q)
          \/ CommitSubmit(q)
          \/ RequestFails(q)
          \/ \E t \in Tasks : OpenDecision(q, t)
          \/ Approve(q)
          \/ Reject(q)
          \/ RequestRevision(q)
          \/ \E r \in Routes : ConfirmRoute(q, r)
          \/ OpenAppeal(q)
          \/ SubmitAppeal(q)
          \/ OpenAppealDecision(q)
          \/ ApproveAppeal(q)
          \/ RejectAppeal(q)
    \/ ResumeOrStart
    \/ \E n \in Runs, m \in Manuals : InsertManualStep(n, m)

Spec == Init /\ [][Next]_vars

\* What a request read of the task or the appeal is true when it commits.
StillHolds(q) ==
    /\ request[q].kind = "decide" => Actionable(request[q].task)
    /\ request[q].kind = "appeal_decision" => appeal.status = "pending"

NoStaleDecision ==
    \A q \in Slots :
        request[q].kind # "idle" /\ request'[q] # request[q] =>
            StillHolds(q) \/ RequestFails(q)

\* The behaviours of Spec in which no decision overtakes another one: all of
\* them if the transactions read the task and the appeal again.
RereadSpec == Init /\ [][Next /\ NoStaleDecision]_vars

-----------------------------------------------------------------------------
(* Properties *)

\* Every row has its type; a paused run has a step to go on with.
TypeOK ==
    /\ sub \in [status : {"auto_checking", "submitted", "in_review",
                          "revision_requested", "rejected", "appeal_pending",
                          "approved"},
                route : Routes,
                version : 1..MaxVersions,
                resume : {"no", "flagged", "due"}]
    /\ runs \in [Runs -> Run]
    /\ \A n \in PausedRuns : runs[n].current # "none"
    /\ steps \in [Runs -> [Steps -> Step]]
    /\ tasks \in [Tasks -> Task]
    /\ made \in 0..MaxTasks
    /\ signed \subseteq Tasks
    /\ rejections \in Seq(Tasks)
    /\ appeal \in [status : {"none", "pending", "approved", "rejected"},
                   task : Tasks]
    /\ request \in [Slots -> Request]

\* While the material is in review, somebody can decide on it: the run that
\* the last transaction left active has an active step with an open task.
\* Nothing but the five transactions themselves keeps this, not even against
\* requests that decide on what they read too early.
InReviewIsActionable ==
    sub.status = "in_review" => \E t \in Tasks : Actionable(t)

\* An active run waits for exactly one decision, on its current step, if no
\* decision overtakes another one (RereadSpec).
ActiveRunsHaveOneTask ==
    \A n \in ActiveRuns :
        \E t \in Tasks :
            /\ Actionable(t)
            /\ tasks[t].run = n
            /\ tasks[t].step = runs[n].current
            /\ \A u \in Tasks :
                  tasks[u].status = "active" /\ tasks[u].run = n => u = t

\* A run is completed only when every step it has was approved, the manual
\* ones and those inserted late too; a rejected step may stand only if the
\* appeal about it was accepted (RereadSpec).
CompletedRunsAreApproved ==
    \A n \in Runs : runs[n].status = "completed" =>
        \A s \in Existing(steps[n]) :
            \/ steps[n][s].status = "approved"
            \/ /\ steps[n][s].status = "rejected"
               /\ appeal.status = "approved"
               /\ tasks[appeal.task].run = n
               /\ tasks[appeal.task].step = s

\* The package of a conclusion is made of all the signatures the route owes:
\* the prorector's and one for each approved step after the chair's review,
\* and made when the run is completed (RereadSpec).
PackagesAreSigned ==
    \A n \in Runs : runs[n].document = "final" =>
        /\ runs[n].status = "completed"
        /\ steps[n]["prorector"].status = "approved"
        /\ \A s \in Existing(steps[n]) \ {"review"} :
              steps[n][s].status = "approved" =>
                  \E t \in signed : tasks[t].run = n /\ tasks[t].step = s

(* Claims of the code's texts that do not hold *)

DecidesActiveTasks ==
    \A t \in Tasks :
        /\ tasks[t].status # tasks'[t].status
        /\ tasks'[t].status \in {"approved", "rejected", "revision_requested"}
        => Actionable(t)

\* "Only active tasks can be decided." (workflow/services.py:427)
DecisionsAreOnActiveTasks == [][DecidesActiveTasks]_vars

=============================================================================
