------------------------- MODULE ApprovalRouteProofs -------------------------
(* Theorems about ApprovalRoute, for every set of routes, step templates,    *)
(* manual steps and web requests, and every bound.                           *)
EXTENDS ApprovalRoute, TLAPS

LEMMA TemplatesOfRoute ==
    ASSUME NEW r \in Routes
    PROVE  /\ FirstTemplate(r) \in Templates
           /\ LastTemplate(r) \in Templates
           /\ InRoute(r) \subseteq Templates
BY ApprovalRouteAssumption DEF FirstTemplate, LastTemplate, InRoute

LEMMA StepNames ==
    /\ "review" \in Steps /\ "prorector" \in Steps
    /\ Templates \subseteq Steps /\ Manuals \subseteq Steps
    /\ "none" \notin Steps
BY ApprovalRouteAssumption DEF Steps

LEMMA ActivatedTyped ==
    ASSUME NEW st \in [Steps -> Step], NEW s \in Steps
    PROVE  Activated(st, s) \in [Steps -> Step]
BY DEF Activated, Step

LEMMA BuiltTyped ==
    ASSUME NEW st \in [Steps -> Step], NEW r \in Routes, NEW start \in Nat
    PROVE  RouteBuilt(st, r, start) \in [Steps -> Step]
<1>1. ASSUME NEW s \in InRoute(r)
      PROVE  [status |-> "pending", order |-> start + TemplateOrder[s] - 1] \in Step
  <2>1. TemplateOrder[s] \in Nat \ {0}
    BY TemplatesOfRoute, ApprovalRouteAssumption
  <2>2. start + TemplateOrder[s] - 1 \in Nat
    BY <2>1
  <2> QED
    BY <2>2 DEF Step
<1> QED
  BY <1>1 DEF RouteBuilt

LEMMA AppendedTyped ==
    ASSUME NEW st \in [Steps -> Step], NEW r \in Routes
    PROVE  ProrectorAppended(st, r) \in [Steps -> Step]
<1>1. st[LastTemplate(r)].order + 1 \in Nat
  BY TemplatesOfRoute, StepNames DEF Step
<1>2. [status |-> "pending", order |-> st[LastTemplate(r)].order + 1] \in Step
  BY <1>1 DEF Step
<1> QED
  BY <1>2 DEF ProrectorAppended

LEMMA ClosedTyped ==
    ASSUME TypeOK, NEW n \in Runs, NEW s \in Steps,
           NEW status \in {"approved", "rejected", "revision_requested"}
    PROVE  StepClosed(n, s, status) \in [Steps -> Step]
<1>1. steps[n] \in [Steps -> Step]
  BY DEF TypeOK
<1> QED
  BY <1>1 DEF StepClosed, Step

LEMMA TaskClosedTyped ==
    ASSUME TypeOK, NEW t \in Tasks,
           NEW status \in {"approved", "rejected", "revision_requested"}
    PROVE  TaskClosed(t, status) \in [Tasks -> Task]
BY DEF TypeOK, TaskClosed, Task

LEMMA TaskAddedTyped ==
    ASSUME TypeOK, made < MaxTasks, NEW ts \in [Tasks -> Task],
           NEW n \in Runs, NEW s \in Steps
    PROVE  /\ TaskAdded(ts, n, s) \in [Tasks -> Task]
           /\ made + 1 \in Tasks
           /\ made + 1 \in 0..MaxTasks
<1>1. made + 1 \in Tasks /\ made + 1 \in 0..MaxTasks
  BY ApprovalRouteAssumption DEF TypeOK, Tasks
<1>2. [status |-> "active", run |-> n, step |-> s] \in Task
  BY DEF Task
<1> QED
  BY <1>1, <1>2 DEF TaskAdded

LEMMA RequestsTyped ==
    /\ 1 \in Tasks
    /\ NoRequest \in Request
    /\ \A k \in Request, kind \in {"submit", "appeal", "appeal_decision"} :
          [k EXCEPT !.kind = kind] \in Request
<1>1. 1 \in Tasks
  BY ApprovalRouteAssumption DEF Tasks
<1> QED
  BY <1>1 DEF NoRequest, Request

LEMMA RunAtTyped ==
    ASSUME TypeOK, NEW n \in Runs, NEW c \in Steps \cup {"none"},
           NEW status \in {"active", "paused", "completed", "rejected"}
    PROVE  /\ RunAt(n, status, c) \in [Runs -> Run]
           /\ RunAt(n, status, c)[n].status = status
           /\ RunAt(n, status, c)[n].current = c
           /\ \A m \in Runs \ {n} : RunAt(n, status, c)[m] = runs[m]
<1> DEFINE moved == [runs[n] EXCEPT !.status = status, !.current = c]
<1>1. moved \in Run /\ moved.status = status /\ moved.current = c
  BY DEF TypeOK, Run
<1> HIDE DEF moved
<1>2. [runs EXCEPT ![n] = moved][n] = moved
  BY DEF TypeOK
<1>3. RunAt(n, status, c) = [runs EXCEPT ![n] = moved]
  BY DEF RunAt, moved
<1> QED
  BY <1>1, <1>2, <1>3 DEF TypeOK

LEMMA SignedTyped ==
    ASSUME TypeOK, NEW n \in Runs, NEW t \in Tasks
    PROVE  SignedBy(n, t) \subseteq Tasks
BY DEF TypeOK, SignedBy

\* The decisions and the resumption keep the types of what they write.
LEMMA RouteReviewTyped ==
    ASSUME TypeOK, NEW t \in Tasks, NEW r \in Routes, ApproveRouteReview(t, r),
           request' \in [Slots -> Request]
    PROVE  TypeOK'
<1> DEFINE n == tasks[t].run
           s == tasks[t].step
           closed == StepClosed(n, s, "approved")
           built == ProrectorAppended(RouteBuilt(closed, r, closed[s].order + 1), r)
           first == FirstTemplate(r)
           document == IF runs[n].document = "none" THEN "sealed"
                       ELSE runs[n].document
<1>1. n \in Runs /\ s \in Steps
  BY DEF TypeOK, Task
<1>2. closed \in [Steps -> Step]
  BY <1>1, ClosedTyped
<1>3. closed[s].order + 1 \in Nat
  BY <1>1, <1>2 DEF Step
<1>4. first \in Steps /\ first # "none"
  BY TemplatesOfRoute, StepNames
<1>5. Activated(built, first) \in [Steps -> Step]
  <2> HIDE DEF closed, first
  <2> QED
    BY <1>2, <1>3, <1>4, BuiltTyped, AppendedTyped, ActivatedTyped
<1>6. made < MaxTasks
  BY DEF ApproveRouteReview
<1>7. /\ TaskAdded(TaskClosed(t, "approved"), n, first) \in [Tasks -> Task]
      /\ made + 1 \in 0..MaxTasks
  BY <1>1, <1>4, <1>6, TaskClosedTyped, TaskAddedTyped
<1>8. [status |-> "active", awaiting |-> FALSE, route |-> r, current |-> first,
       document |-> document] \in Run
  BY <1>1, <1>4 DEF TypeOK, Run
<1>9. /\ runs' = [runs EXCEPT ![n] =
               [status |-> "active", awaiting |-> FALSE, route |-> r,
                current |-> first, document |-> document]]
      /\ steps' = [steps EXCEPT ![n] = Activated(built, first)]
      /\ tasks' = TaskAdded(TaskClosed(t, "approved"), n, first)
      /\ made' = made + 1
      /\ signed' = SignedBy(n, t)
      /\ sub' = [sub EXCEPT !.status = "in_review", !.route = r]
      /\ UNCHANGED <<rejections, appeal>>
  BY DEF ApproveRouteReview
<1>10. signed' \subseteq Tasks
  BY <1>1, <1>9, SignedTyped
<1> HIDE DEF n, built, first, document
<1> QED
  BY <1>1, <1>5, <1>7, <1>8, <1>9, <1>10 DEF TypeOK, PausedRuns

LEMMA ApproveStepTyped ==
    ASSUME TypeOK, NEW t \in Tasks, ApproveStep(t),
           request' \in [Slots -> Request]
    PROVE  TypeOK'
<1> DEFINE n == tasks[t].run
           closed == StepClosed(n, tasks[t].step, "approved")
<1>1. n \in Runs /\ tasks[t].step \in Steps
  BY DEF TypeOK, Task
<1>2. closed \in [Steps -> Step]
  BY <1>1, ClosedTyped
<1>3. PICK next \in Steps :
         /\ steps' = [steps EXCEPT ![n] = Activated(closed, next)]
         /\ runs' = RunAt(n, "active", next)
         /\ tasks' = TaskAdded(TaskClosed(t, "approved"), n, next)
  BY DEF ApproveStep
<1>4. Activated(closed, next) \in [Steps -> Step]
  BY <1>2, ActivatedTyped
<1>5. /\ tasks' \in [Tasks -> Task]
      /\ made + 1 \in 0..MaxTasks
  BY <1>1, <1>3, TaskClosedTyped, TaskAddedTyped DEF ApproveStep
<1>6. signed' \subseteq Tasks
  BY <1>1, SignedTyped DEF ApproveStep
<1>7. /\ runs' \in [Runs -> Run]
      /\ \A m \in Runs : runs'[m].status = "paused" => runs'[m].current # "none"
  <2> HIDE DEF n
  <2>1. /\ RunAt(n, "active", next) \in [Runs -> Run]
        /\ RunAt(n, "active", next)[n].status = "active"
        /\ \A m \in Runs \ {n} : RunAt(n, "active", next)[m] = runs[m]
    BY <1>1, RunAtTyped
  <2> QED
    BY <1>3, <2>1 DEF TypeOK, PausedRuns
<1> HIDE DEF n, closed
<1> QED
  BY <1>1, <1>3, <1>4, <1>5, <1>6, <1>7 DEF TypeOK, PausedRuns, ApproveStep

LEMMA ApproveLastStepTyped ==
    ASSUME TypeOK, NEW t \in Tasks, ApproveLastStep(t),
           request' \in [Slots -> Request]
    PROVE  TypeOK'
<1> DEFINE n == tasks[t].run
           closed == StepClosed(n, tasks[t].step, "approved")
<1>1. n \in Runs /\ tasks[t].step \in Steps
  BY DEF TypeOK, Task
<1>2. closed \in [Steps -> Step]
  BY <1>1, ClosedTyped
<1>3. tasks' \in [Tasks -> Task]
  BY TaskClosedTyped DEF ApproveLastStep
<1>4. signed' \subseteq Tasks
  BY <1>1, SignedTyped DEF ApproveLastStep
<1> DEFINE moved == RunAt(n, "completed", "none")
           packaged == Packaged(moved[n])
<1>5. /\ runs' \in [Runs -> Run]
      /\ \A m \in Runs : runs'[m].status = "paused" => runs'[m].current # "none"
  <2>1. /\ moved \in [Runs -> Run]
        /\ moved[n].status = "completed"
        /\ \A m \in Runs \ {n} : moved[m] = runs[m]
    BY <1>1, RunAtTyped
  <2>2. packaged \in Run /\ packaged.status = "completed"
    <3> HIDE DEF moved
    <3> QED
      BY <1>1, <2>1 DEF Run, Packaged
  <2>3. runs' = [moved EXCEPT ![n] = packaged]
    BY DEF ApproveLastStep
  <2> HIDE DEF packaged, moved, n
  <2> QED
    BY <1>1, <2>1, <2>2, <2>3 DEF TypeOK, PausedRuns
<1>6. steps' = [steps EXCEPT ![n] = closed]
  BY DEF ApproveLastStep
<1>7. /\ sub' = [sub EXCEPT !.status = "approved"]
      /\ UNCHANGED <<made, rejections, appeal>>
  BY DEF ApproveLastStep
<1> HIDE DEF n, closed
<1> QED
  BY <1>1, <1>2, <1>3, <1>4, <1>5, <1>6, <1>7 DEF TypeOK, PausedRuns

LEMMA RejectTyped ==
    ASSUME TypeOK, NEW q \in Slots, Reject(q)
    PROVE  TypeOK'
<1> DEFINE t == request[q].task
           n == tasks[t].run
           s == tasks[t].step
<1>1. t \in Tasks /\ n \in Runs /\ s \in Steps
  BY DEF TypeOK, Task, Request
<1>2. /\ RunAt(n, "rejected", "none") \in [Runs -> Run]
      /\ RunAt(n, "rejected", "none")[n].status = "rejected"
      /\ \A m \in Runs \ {n} : RunAt(n, "rejected", "none")[m] = runs[m]
  BY <1>1, RunAtTyped
<1>3. StepClosed(n, s, "rejected") \in [Steps -> Step]
  BY <1>1, ClosedTyped
<1>4. TaskClosed(t, "rejected") \in [Tasks -> Task]
  BY <1>1, TaskClosedTyped
<1>5. /\ steps' = [steps EXCEPT ![n] = StepClosed(n, s, "rejected")]
      /\ tasks' = TaskClosed(t, "rejected")
      /\ runs' = RunAt(n, "rejected", "none")
      /\ sub' = [sub EXCEPT !.status = "rejected"]
      /\ rejections' = Append(rejections, t)
      /\ request' = [request EXCEPT ![q] = NoRequest]
      /\ UNCHANGED <<made, signed, appeal>>
  BY DEF Reject
<1>6. rejections' \in Seq(Tasks)
  BY <1>1, <1>5 DEF TypeOK
<1> HIDE DEF n, s, t
<1> QED
  BY <1>1, <1>2, <1>3, <1>4, <1>5, <1>6, RequestsTyped DEF TypeOK, PausedRuns

LEMMA RequestRevisionTyped ==
    ASSUME TypeOK, NEW q \in Slots, RequestRevision(q)
    PROVE  TypeOK'
<1> DEFINE t == request[q].task
           n == tasks[t].run
           s == tasks[t].step
<1>1. t \in Tasks /\ n \in Runs /\ s \in Steps /\ s # "none"
  BY StepNames DEF TypeOK, Task, Request
<1>2. /\ RunAt(n, "paused", s) \in [Runs -> Run]
      /\ RunAt(n, "paused", s)[n].current = s
      /\ \A m \in Runs \ {n} : RunAt(n, "paused", s)[m] = runs[m]
  BY <1>1, RunAtTyped
<1>3. StepClosed(n, s, "revision_requested") \in [Steps -> Step]
  BY <1>1, ClosedTyped
<1>4. TaskClosed(t, "revision_requested") \in [Tasks -> Task]
  BY <1>1, TaskClosedTyped
<1>5. /\ steps' = [steps EXCEPT ![n] = StepClosed(n, s, "revision_requested")]
      /\ tasks' = TaskClosed(t, "revision_requested")
      /\ runs' = RunAt(n, "paused", s)
      /\ sub' = [sub EXCEPT !.status = "revision_requested"]
      /\ request' = [request EXCEPT ![q] = NoRequest]
      /\ UNCHANGED <<made, signed, rejections, appeal>>
  BY DEF RequestRevision
<1> HIDE DEF n, s, t
<1> QED
  BY <1>1, <1>2, <1>3, <1>4, <1>5, RequestsTyped DEF TypeOK, PausedRuns

LEMMA ApproveAppealTyped ==
    ASSUME TypeOK, NEW q \in Slots, ApproveAppeal(q)
    PROVE  TypeOK'
<1> DEFINE n == tasks[appeal.task].run
<1>1. n \in Runs /\ tasks[appeal.task].step \in Steps
  BY DEF TypeOK, Task
<1>2. /\ request' = [request EXCEPT ![q] = NoRequest]
      /\ appeal' = [appeal EXCEPT !.status = "approved"]
      /\ UNCHANGED <<signed, rejections>>
  BY DEF ApproveAppeal
<1>3. ASSUME NEW step \in Steps,
             made < MaxTasks,
             steps' = [steps EXCEPT ![n] = Activated(steps[n], step)],
             runs' = RunAt(n, "active", step),
             tasks' = TaskAdded(tasks, n, step),
             made' = made + 1,
             sub' = [sub EXCEPT !.status = "in_review"]
      PROVE  TypeOK'
  <2> HIDE DEF n
  <2>1. /\ RunAt(n, "active", step) \in [Runs -> Run]
        /\ RunAt(n, "active", step)[n].status = "active"
        /\ \A m \in Runs \ {n} : RunAt(n, "active", step)[m] = runs[m]
    BY <1>1, RunAtTyped
  <2>2. Activated(steps[n], step) \in [Steps -> Step]
    BY <1>1, ActivatedTyped DEF TypeOK
  <2>3. tasks' \in [Tasks -> Task] /\ made' \in 0..MaxTasks
    BY <1>1, <1>3, TaskAddedTyped DEF TypeOK
  <2> QED
    BY <1>1, <1>2, <1>3, <2>1, <2>2, <2>3, RequestsTyped DEF TypeOK, PausedRuns
<1>4. CASE /\ runs' = RunAt(n, "completed", "none")
           /\ sub' = [sub EXCEPT !.status = "approved"]
           /\ UNCHANGED <<steps, tasks, made>>
  <2> HIDE DEF n
  <2>1. /\ RunAt(n, "completed", "none") \in [Runs -> Run]
        /\ RunAt(n, "completed", "none")[n].status = "completed"
        /\ \A m \in Runs \ {n} : RunAt(n, "completed", "none")[m] = runs[m]
    BY <1>1, RunAtTyped
  <2> QED
    BY <1>1, <1>2, <1>4, <2>1, RequestsTyped DEF TypeOK, PausedRuns
<1> QED
  BY <1>1, <1>3, <1>4 DEF ApproveAppeal

LEMMA StartRunTyped ==
    ASSUME TypeOK, made < MaxTasks, NEW r \in Routes, StartRun(r)
    PROVE  /\ runs' \in [Runs -> Run]
           /\ \A m \in Runs : runs'[m].status = "paused" => runs'[m].current # "none"
           /\ steps' \in [Runs -> [Steps -> Step]]
           /\ tasks' \in [Tasks -> Task]
<1> DEFINE first == FirstTemplate(r)
           started == [status |-> "active", awaiting |-> FALSE, route |-> r,
                       current |-> first, document |-> "none"]
<1>1. first \in Steps /\ started \in Run
  BY TemplatesOfRoute, StepNames DEF Run
<1> HIDE DEF first
<1>2. PICK n \in Runs :
         /\ runs' = [runs EXCEPT ![n] = started]
         /\ steps' = [steps EXCEPT ![n] = Activated(RouteBuilt(steps[n], r, 1), first)]
         /\ tasks' = TaskAdded(tasks, n, first)
  BY DEF StartRun, first
<1>3. Activated(RouteBuilt(steps[n], r, 1), first) \in [Steps -> Step]
  BY <1>1, BuiltTyped, ActivatedTyped DEF TypeOK
<1>4. tasks' \in [Tasks -> Task]
  BY <1>1, <1>2, TaskAddedTyped DEF TypeOK
<1>5. started.status = "active"
  OBVIOUS
<1> HIDE DEF started
<1> QED
  BY <1>1, <1>2, <1>3, <1>4, <1>5 DEF TypeOK, PausedRuns

LEMMA ContinueRunTyped ==
    ASSUME TypeOK, made < MaxTasks, NEW n \in PausedRuns, ContinueRun(n)
    PROVE  /\ runs' \in [Runs -> Run]
           /\ \A m \in Runs : runs'[m].status = "paused" => runs'[m].current # "none"
           /\ steps' \in [Runs -> [Steps -> Step]]
           /\ tasks' \in [Tasks -> Task]
<1> DEFINE s == runs[n].current
           moved == RunAt(n, "active", s)
           continued == [moved[n] EXCEPT !.route = sub.route]
<1>1. n \in Runs /\ s \in Steps
  BY DEF TypeOK, PausedRuns, Run
<1> HIDE DEF s
<1>2. /\ moved \in [Runs -> Run]
      /\ moved[n].status = "active"
      /\ \A m \in Runs \ {n} : moved[m] = runs[m]
  BY <1>1, RunAtTyped
<1>3. runs' = [moved EXCEPT ![n] = continued]
  BY DEF ContinueRun, s
<1> HIDE DEF moved
<1>4. continued \in Run /\ continued.status = "active"
  <2>1. sub.route \in Routes
    BY DEF TypeOK
  <2> QED
    BY <1>1, <1>2, <2>1 DEF Run
<1>5. /\ steps' = [steps EXCEPT ![n] = Activated(steps[n], s)]
      /\ tasks' = TaskAdded(tasks, n, s)
  BY DEF ContinueRun, s
<1>6. Activated(steps[n], s) \in [Steps -> Step]
  BY <1>1, ActivatedTyped DEF TypeOK
<1>7. tasks' \in [Tasks -> Task]
  BY <1>1, <1>5, TaskAddedTyped DEF TypeOK
<1> HIDE DEF continued
<1> QED
  BY <1>1, <1>2, <1>3, <1>4, <1>5, <1>6, <1>7 DEF TypeOK, PausedRuns

LEMMA InsertedTyped ==
    ASSUME TypeOK, NEW n \in Runs, NEW m \in Manuals, InsertManualStep(n, m)
    PROVE  steps' \in [Runs -> [Steps -> Step]]
<1>1. PICK order \in {1} \cup {steps[n][s].order + 1 : s \in Existing(steps[n])} :
         steps' = [steps EXCEPT ![n] =
                      [s \in Steps |->
                          IF s = m
                          THEN [status |-> "pending", order |-> order]
                          ELSE IF s \in Existing(steps[n])
                                  /\ steps[n][s].order >= order
                          THEN [steps[n][s] EXCEPT !.order = @ + 1]
                          ELSE steps[n][s]]]
  BY DEF InsertManualStep
<1>2. ASSUME NEW s \in Steps
      PROVE  steps[n][s] \in Step /\ steps[n][s].order + 1 \in Nat
  BY DEF TypeOK, Step
<1>3. order \in Nat
  BY <1>2 DEF Existing
<1>4. [status |-> "pending", order |-> order] \in Step
  BY <1>3 DEF Step
<1>5. ASSUME NEW s \in Steps
      PROVE  [steps[n][s] EXCEPT !.order = @ + 1] \in Step
  BY <1>2 DEF Step
<1> QED
  BY <1>1, <1>2, <1>4, <1>5 DEF TypeOK

\* One step of the system keeps the types.
LEMMA TypeStep ==
    ASSUME TypeOK, [Next]_vars
    PROVE  TypeOK'
<1>1. CASE UploadVersion
  <2>1. sub.version + 1 \in 1..MaxVersions
    BY <1>1, ApprovalRouteAssumption DEF TypeOK, UploadVersion
  <2> QED
    BY <1>1, <2>1 DEF TypeOK, UploadVersion, PausedRuns
<1>2. CASE RerunChecks \/ ChecksEnd
  BY <1>2 DEF TypeOK, RerunChecks, ChecksEnd, PausedRuns
<1>3. ASSUME NEW r \in Routes, SuggestRoute(r)
      PROVE  TypeOK'
  BY <1>3 DEF TypeOK, SuggestRoute, PausedRuns
<1>4. ASSUME NEW q \in Slots,
             OpenSubmit(q) \/ OpenAppeal(q) \/ OpenAppealDecision(q) \/ RequestFails(q)
      PROVE  TypeOK'
  <2>1. request' = [request EXCEPT ![q] = NoRequest]
           \/ \E kind \in {"submit", "appeal", "appeal_decision"} :
                 request' = [request EXCEPT ![q] = [request[q] EXCEPT !.kind = kind]]
    BY <1>4 DEF OpenSubmit, OpenAppeal, OpenAppealDecision, RequestFails
  <2>2. request' \in [Slots -> Request]
    <3>1. request[q] \in Request
      BY DEF TypeOK
    <3>2. \E k \in Request : request' = [request EXCEPT ![q] = k]
      BY <2>1, <3>1, RequestsTyped
    <3> QED
      BY <3>2 DEF TypeOK
  <2>3. UNCHANGED <<sub, runs, steps, tasks, made, signed, rejections, appeal>>
    BY <1>4 DEF OpenSubmit, OpenAppeal, OpenAppealDecision, RequestFails
  <2> QED
    BY <2>2, <2>3 DEF TypeOK, PausedRuns
<1>5. ASSUME NEW q \in Slots, NEW t \in Tasks, OpenDecision(q, t)
      PROVE  TypeOK'
  BY <1>5 DEF TypeOK, OpenDecision, Request, PausedRuns
<1>6. ASSUME NEW q \in Slots, CommitSubmit(q)
      PROVE  TypeOK'
  <2>1. PICK n \in Runs, r \in Routes :
           /\ sub' = [sub EXCEPT !.status = "in_review", !.route = r]
           /\ runs' = [runs EXCEPT ![n] =
                          [status |-> "active", awaiting |-> TRUE, route |-> r,
                           current |-> "review", document |-> "none"]]
           /\ steps' = [steps EXCEPT ![n]["review"] =
                          [status |-> "active", order |-> 1]]
           /\ tasks' = TaskAdded(tasks, n, "review")
    BY <1>6 DEF CommitSubmit
  <2>2. tasks' \in [Tasks -> Task] /\ made + 1 \in 0..MaxTasks
    BY <1>6, <2>1, StepNames, TaskAddedTyped DEF CommitSubmit, TypeOK
  <2>3. [status |-> "active", order |-> 1] \in Step
    BY DEF Step
  <2>4. [status |-> "active", awaiting |-> TRUE, route |-> r,
         current |-> "review", document |-> "none"] \in Run
    BY StepNames DEF Run
  <2>5. steps' \in [Runs -> [Steps -> Step]]
    BY <2>1, <2>3, StepNames DEF TypeOK
  <2>6. /\ runs' \in [Runs -> Run]
        /\ \A m \in Runs : runs'[m].status = "paused" => runs'[m].current # "none"
    BY <2>1, <2>4 DEF TypeOK, PausedRuns
  <2>7. sub' \in [status : {"auto_checking", "submitted", "in_review",
                            "revision_requested", "rejected", "appeal_pending",
                            "approved"},
                  route : Routes,
                  version : 1..MaxVersions,
                  resume : {"no", "flagged", "due"}]
    BY <2>1 DEF TypeOK
  <2>8. /\ made' = made + 1
        /\ request' = [request EXCEPT ![q] = NoRequest]
        /\ UNCHANGED <<signed, rejections, appeal>>
    BY <1>6 DEF CommitSubmit
  <2> QED
    BY <2>2, <2>5, <2>6, <2>7, <2>8, RequestsTyped DEF TypeOK, PausedRuns
<1>7. ASSUME NEW q \in Slots, Approve(q)
      PROVE  TypeOK'
  <2>1. request' \in [Slots -> Request]
    BY <1>7, RequestsTyped DEF Approve, TypeOK
  <2>2. request[q].task \in Tasks /\ sub.route \in Routes
    BY DEF TypeOK, Request
  <2> QED
    BY <1>7, <2>1, <2>2, RouteReviewTyped, ApproveStepTyped, ApproveLastStepTyped
    DEF Approve
<1>8. ASSUME NEW q \in Slots, NEW r \in Routes, ConfirmRoute(q, r)
      PROVE  TypeOK'
  <2>1. request' \in [Slots -> Request]
    BY <1>8 DEF ConfirmRoute, TypeOK
  <2> QED
    BY <1>8, <2>1, RouteReviewTyped DEF ConfirmRoute
<1>9. ASSUME NEW q \in Slots, SubmitAppeal(q)
      PROVE  TypeOK'
  <2>1. PICK i \in StillRejected :
           appeal' = [status |-> "pending", task |-> rejections[i]]
    BY <1>9 DEF SubmitAppeal
  <2>2. rejections[i] \in Tasks
    BY DEF TypeOK, StillRejected
  <2> QED
    BY <1>9, <2>1, <2>2, RequestsTyped DEF TypeOK, SubmitAppeal, PausedRuns
<1>10. ASSUME NEW q \in Slots, RejectAppeal(q)
       PROVE  TypeOK'
  BY <1>10, RequestsTyped DEF TypeOK, RejectAppeal, PausedRuns
<1>11. CASE ResumeOrStart
  <2>1. /\ made < MaxTasks
        /\ made' = made + 1
        /\ sub' = [sub EXCEPT !.status = "in_review", !.resume = "no"]
        /\ UNCHANGED <<signed, rejections, appeal, request>>
    BY <1>11 DEF ResumeOrStart
  <2>2. sub.route \in Routes /\ made + 1 \in 0..MaxTasks
    BY <2>1, ApprovalRouteAssumption DEF TypeOK
  <2>3. StartRun(sub.route) \/ \E n \in PausedRuns : ContinueRun(n)
    BY <1>11 DEF ResumeOrStart, Latest
  <2>4. /\ runs' \in [Runs -> Run]
        /\ \A m \in Runs : runs'[m].status = "paused" => runs'[m].current # "none"
        /\ steps' \in [Runs -> [Steps -> Step]]
        /\ tasks' \in [Tasks -> Task]
    BY <2>1, <2>2, <2>3, StartRunTyped, ContinueRunTyped
  <2> QED
    BY <2>1, <2>2, <2>4 DEF TypeOK, PausedRuns
<1>12. ASSUME NEW n \in Runs, NEW m \in Manuals, InsertManualStep(n, m)
       PROVE  TypeOK'
  BY <1>12, InsertedTyped DEF TypeOK, InsertManualStep, PausedRuns
<1>13. CASE UNCHANGED vars
  BY <1>13 DEF TypeOK, vars, PausedRuns
<1> QED
  BY <1>1, <1>2, <1>3, <1>4, <1>5, <1>6, <1>7, <1>8, <1>9, <1>10, <1>11, <1>12,
     <1>13, RejectTyped, RequestRevisionTyped, ApproveAppealTyped DEF Next

LEMMA TypeInit == Init => TypeOK
<1> SUFFICES ASSUME Init PROVE TypeOK
  OBVIOUS
<1>1. PICK r \in Routes :
         /\ sub = [status |-> "submitted", route |-> r, version |-> 1, resume |-> "no"]
         /\ runs = [n \in Runs |-> [status |-> "absent", awaiting |-> FALSE,
                                    route |-> r, current |-> "none",
                                    document |-> "none"]]
  BY DEF Init
<1>2. AbsentStep \in Step /\ 1 \in Runs /\ 1 \in 1..MaxVersions /\ 0 \in 0..MaxTasks
  BY ApprovalRouteAssumption DEF AbsentStep, Step, Runs
<1>3. [status |-> "absent", run |-> 1, step |-> "review"] \in Task
  BY <1>2, StepNames DEF Task
<1>4. runs \in [Runs -> Run] /\ \A n \in Runs : runs[n].status = "absent"
  BY <1>1 DEF Run
<1>5. steps \in [Runs -> [Steps -> Step]]
  BY <1>2 DEF Init, NoSteps
<1>6. tasks \in [Tasks -> Task]
  BY <1>3 DEF Init
<1>7. request \in [Slots -> Request]
  BY RequestsTyped DEF Init
<1>8. rejections \in Seq(Tasks) /\ signed \subseteq Tasks
  BY DEF Init
<1>9. appeal \in [status : {"none", "pending", "approved", "rejected"}, task : Tasks]
  BY RequestsTyped DEF Init
<1> QED
  BY <1>1, <1>2, <1>4, <1>5, <1>6, <1>7, <1>8, <1>9 DEF Init, TypeOK, PausedRuns

\* Every row has the type the module states, and a paused run has the step it
\* is to go on with, whatever the overlap of the requests.
THEOREM TypeCorrect == Spec => []TypeOK
<1>1. TypeOK /\ [Next]_vars => TypeOK'
  BY TypeStep
<1> QED
  BY <1>1, TypeInit, PTL DEF Spec

-----------------------------------------------------------------------------
(* InReviewIsActionable *)

LEMMA TaskAddedOpen ==
    ASSUME TypeOK, made < MaxTasks, NEW ts \in [Tasks -> Task],
           NEW n \in Runs, NEW s \in Steps
    PROVE  /\ made + 1 \in Tasks
           /\ TaskAdded(ts, n, s)[made + 1].status = "active"
           /\ TaskAdded(ts, n, s)[made + 1].run = n
           /\ TaskAdded(ts, n, s)[made + 1].step = s
<1>1. made + 1 \in Tasks
  BY TaskAddedTyped
<1> QED
  BY <1>1 DEF TaskAdded

LEMMA ActivatedStatus ==
    ASSUME NEW st \in [Steps -> Step], NEW s \in Steps
    PROVE  Activated(st, s)[s].status = "active"
BY DEF Activated, Step

\* A transaction that activates a step of a run and opens its task leaves an
\* actionable task.
LEMMA OpenedActionable ==
    ASSUME TypeOK, made < MaxTasks, NEW n \in Runs, NEW s \in Steps,
           NEW st \in [Steps -> Step], NEW ts \in [Tasks -> Task],
           steps' = [steps EXCEPT ![n] = Activated(st, s)],
           tasks' = TaskAdded(ts, n, s),
           runs'[n].status = "active"
    PROVE  InReviewIsActionable'
<1>1. steps'[n][s].status = "active"
  BY ActivatedStatus DEF TypeOK
<1>2. /\ made + 1 \in Tasks
      /\ tasks'[made + 1].status = "active"
      /\ tasks'[made + 1].run = n
      /\ tasks'[made + 1].step = s
  BY TaskAddedOpen
<1> QED
  BY <1>1, <1>2 DEF InReviewIsActionable, Actionable

LEMMA RouteReviewActionable ==
    ASSUME TypeOK, NEW t \in Tasks, NEW r \in Routes, ApproveRouteReview(t, r)
    PROVE  InReviewIsActionable'
<1> DEFINE n == tasks[t].run
           s == tasks[t].step
           closed == StepClosed(n, s, "approved")
           built == ProrectorAppended(RouteBuilt(closed, r, closed[s].order + 1), r)
           first == FirstTemplate(r)
<1>1. n \in Runs /\ s \in Steps /\ first \in Steps
  BY TemplatesOfRoute, StepNames DEF TypeOK, Task
<1>2. closed \in [Steps -> Step]
  BY <1>1, ClosedTyped
<1>3. built \in [Steps -> Step]
  <2>1. closed[s].order + 1 \in Nat
    BY <1>1, <1>2 DEF Step
  <2> HIDE DEF closed
  <2> QED
    BY <1>2, <2>1, BuiltTyped, AppendedTyped
<1>4. TaskClosed(t, "approved") \in [Tasks -> Task]
  BY TaskClosedTyped
<1>5. /\ made < MaxTasks
      /\ steps' = [steps EXCEPT ![n] = Activated(built, first)]
      /\ tasks' = TaskAdded(TaskClosed(t, "approved"), n, first)
  BY DEF ApproveRouteReview
<1>6. runs'[n].status = "active"
  BY <1>1 DEF ApproveRouteReview, TypeOK
<1> HIDE DEF built, closed, first, n
<1> QED
  BY <1>1, <1>3, <1>4, <1>5, <1>6, OpenedActionable

LEMMA ApproveStepActionable ==
    ASSUME TypeOK, NEW t \in Tasks, ApproveStep(t)
    PROVE  InReviewIsActionable'
<1> DEFINE n == tasks[t].run
           closed == StepClosed(n, tasks[t].step, "approved")
<1>1. n \in Runs /\ tasks[t].step \in Steps
  BY DEF TypeOK, Task
<1>2. closed \in [Steps -> Step] /\ TaskClosed(t, "approved") \in [Tasks -> Task]
  BY <1>1, ClosedTyped, TaskClosedTyped
<1>3. PICK next \in Steps :
         /\ steps' = [steps EXCEPT ![n] = Activated(closed, next)]
         /\ runs' = RunAt(n, "active", next)
         /\ tasks' = TaskAdded(TaskClosed(t, "approved"), n, next)
  BY DEF ApproveStep
<1> HIDE DEF closed, n
<1>4. runs'[n].status = "active"
  BY <1>1, <1>3, RunAtTyped
<1>5. made < MaxTasks
  BY DEF ApproveStep
<1> QED
  BY <1>1, <1>2, <1>3, <1>4, <1>5, OpenedActionable

LEMMA ApproveAppealActionable ==
    ASSUME TypeOK, NEW q \in Slots, ApproveAppeal(q)
    PROVE  InReviewIsActionable'
<1> DEFINE n == tasks[appeal.task].run
<1>1. n \in Runs /\ tasks[appeal.task].step \in Steps
  BY DEF TypeOK, Task
<1>2. steps[n] \in [Steps -> Step] /\ tasks \in [Tasks -> Task]
  BY <1>1 DEF TypeOK
<1>3. ASSUME NEW step \in Steps,
             made < MaxTasks,
             steps' = [steps EXCEPT ![n] = Activated(steps[n], step)],
             runs' = RunAt(n, "active", step),
             tasks' = TaskAdded(tasks, n, step)
      PROVE  InReviewIsActionable'
  <2> HIDE DEF n
  <2>1. runs'[n].status = "active"
    BY <1>1, <1>3, RunAtTyped
  <2> QED
    BY <1>1, <1>2, <1>3, <2>1, OpenedActionable
<1>4. CASE sub' = [sub EXCEPT !.status = "approved"]
  BY <1>4 DEF TypeOK, InReviewIsActionable
<1> QED
  BY <1>1, <1>3, <1>4 DEF ApproveAppeal

LEMMA ResumeActionable ==
    ASSUME TypeOK, ResumeOrStart
    PROVE  InReviewIsActionable'
<1>1. made < MaxTasks /\ sub.route \in Routes
  BY DEF ResumeOrStart, TypeOK
<1>2. CASE StartRun(sub.route)
  <2> DEFINE first == FirstTemplate(sub.route)
             started == [status |-> "active", awaiting |-> FALSE,
                         route |-> sub.route, current |-> first,
                         document |-> "none"]
  <2>1. first \in Steps
    BY <1>1, TemplatesOfRoute, StepNames
  <2>2. PICK n \in Runs :
           /\ runs' = [runs EXCEPT ![n] = started]
           /\ steps' = [steps EXCEPT ![n] =
                           Activated(RouteBuilt(steps[n], sub.route, 1), first)]
           /\ tasks' = TaskAdded(tasks, n, first)
    BY <1>2 DEF StartRun
  <2>3. runs'[n].status = "active"
    BY <2>2 DEF TypeOK
  <2>4. RouteBuilt(steps[n], sub.route, 1) \in [Steps -> Step]
    BY <1>1, BuiltTyped DEF TypeOK
  <2>5. tasks \in [Tasks -> Task]
    BY DEF TypeOK
  <2> HIDE DEF first, started
  <2> QED
    BY <1>1, <2>1, <2>2, <2>3, <2>4, <2>5, OpenedActionable
<1>3. ASSUME NEW n \in PausedRuns, ContinueRun(n)
      PROVE  InReviewIsActionable'
  <2> DEFINE s == runs[n].current
             moved == RunAt(n, "active", s)
             continued == [moved[n] EXCEPT !.route = sub.route]
  <2>1. n \in Runs /\ s \in Steps
    BY DEF TypeOK, PausedRuns, Run
  <2>2. runs' = [moved EXCEPT ![n] = continued]
    BY <1>3 DEF ContinueRun
  <2>3. /\ steps' = [steps EXCEPT ![n] = Activated(steps[n], s)]
        /\ tasks' = TaskAdded(tasks, n, s)
    BY <1>3 DEF ContinueRun
  <2> HIDE DEF s
  <2>4. moved \in [Runs -> Run] /\ moved[n].status = "active"
    BY <2>1, RunAtTyped
  <2> HIDE DEF moved
  <2>5. continued.status = "active"
    BY <2>1, <2>4 DEF Run
  <2> HIDE DEF continued
  <2>6. runs'[n].status = "active"
    BY <2>1, <2>2, <2>4, <2>5
  <2>7. steps[n] \in [Steps -> Step] /\ tasks \in [Tasks -> Task]
    BY <2>1 DEF TypeOK
  <2> QED
    BY <1>1, <2>1, <2>3, <2>6, <2>7, OpenedActionable
<1> QED
  BY <1>2, <1>3 DEF ResumeOrStart, Latest

LEMMA SubmitActionable ==
    ASSUME TypeOK, NEW q \in Slots, CommitSubmit(q)
    PROVE  InReviewIsActionable'
<1>1. PICK n \in Runs, r \in Routes :
         /\ runs' = [runs EXCEPT ![n] =
                        [status |-> "active", awaiting |-> TRUE, route |-> r,
                         current |-> "review", document |-> "none"]]
         /\ steps' = [steps EXCEPT ![n]["review"] =
                        [status |-> "active", order |-> 1]]
         /\ tasks' = TaskAdded(tasks, n, "review")
  BY DEF CommitSubmit
<1>2. runs'[n].status = "active"
  BY <1>1 DEF TypeOK
<1>3. steps'[n]["review"].status = "active"
  BY <1>1, StepNames DEF TypeOK
<1>4. /\ made + 1 \in Tasks
      /\ tasks'[made + 1].status = "active"
      /\ tasks'[made + 1].run = n
      /\ tasks'[made + 1].step = "review"
  <2>1. made < MaxTasks /\ tasks \in [Tasks -> Task] /\ "review" \in Steps
    BY StepNames DEF CommitSubmit, TypeOK
  <2> QED
    BY <1>1, <2>1, TaskAddedOpen
<1> QED
  BY <1>2, <1>3, <1>4 DEF InReviewIsActionable, Actionable

LEMMA InsertActionable ==
    ASSUME TypeOK, InReviewIsActionable,
           NEW n \in Runs, NEW m \in Manuals, InsertManualStep(n, m)
    PROVE  InReviewIsActionable'
<1>1. PICK order \in {1} \cup {steps[n][s].order + 1 : s \in Existing(steps[n])} :
         steps' = [steps EXCEPT ![n] =
                      [s \in Steps |->
                          IF s = m
                          THEN [status |-> "pending", order |-> order]
                          ELSE IF s \in Existing(steps[n])
                                  /\ steps[n][s].order >= order
                          THEN [steps[n][s] EXCEPT !.order = @ + 1]
                          ELSE steps[n][s]]]
  BY DEF InsertManualStep
<1>2. ASSUME NEW s \in Steps, s # m
      PROVE  steps'[n][s].status = steps[n][s].status
  <2>1. steps[n][s] \in Step
    BY DEF TypeOK
  <2>2. [steps[n][s] EXCEPT !.order = @ + 1].status = steps[n][s].status
    BY <2>1 DEF Step
  <2> QED
    BY <1>1, <1>2, <2>2 DEF TypeOK
<1>3. \A k \in Runs \ {n} : steps'[k] = steps[k]
  BY <1>1 DEF TypeOK
<1>4. UNCHANGED <<sub, runs, tasks>> /\ steps[n][m].status = "absent"
  BY DEF InsertManualStep
<1>5. ASSUME NEW t \in Tasks, Actionable(t)
      PROVE  Actionable(t)'
  <2>1. tasks[t].run \in Runs /\ tasks[t].step \in Steps
    BY DEF TypeOK, Task
  <2> QED
    BY <1>2, <1>3, <1>4, <1>5, <2>1 DEF Actionable
<1> QED
  BY <1>4, <1>5 DEF InReviewIsActionable

\* Whatever decides, resumes, appeals or inserts steps, and however early a
\* request read its task: while the material is in review, a task of an active
\* step of an active run is open, so the route is never without somebody who
\* can decide.
THEOREM ReviewActionable == Spec => []InReviewIsActionable
<1>1. Init => InReviewIsActionable
  BY DEF Init, InReviewIsActionable
<1>2. TypeOK /\ InReviewIsActionable /\ [Next]_vars => InReviewIsActionable'
  <2> SUFFICES ASSUME TypeOK, InReviewIsActionable, [Next]_vars
               PROVE  InReviewIsActionable'
    OBVIOUS
  <2>1. CASE UploadVersion \/ RerunChecks
    BY <2>1 DEF UploadVersion, RerunChecks, TypeOK, InReviewIsActionable
  <2>2. ASSUME \/ ChecksEnd
               \/ \E r \in Routes : SuggestRoute(r)
               \/ \E q \in Slots : OpenSubmit(q) \/ OpenAppeal(q)
                                   \/ OpenAppealDecision(q) \/ RequestFails(q)
               \/ \E q \in Slots, t \in Tasks : OpenDecision(q, t)
               \/ UNCHANGED vars
        PROVE  InReviewIsActionable'
    <3>1. UNCHANGED <<runs, steps, tasks>>
      BY <2>2 DEF ChecksEnd, SuggestRoute, OpenSubmit, OpenAppeal,
                  OpenAppealDecision, RequestFails, OpenDecision, vars
    <3>2. sub'.status = "in_review" => sub.status = "in_review"
      BY <2>2 DEF ChecksEnd, SuggestRoute, OpenSubmit, OpenAppeal,
                  OpenAppealDecision, RequestFails, OpenDecision, vars, TypeOK
    <3> QED
      BY <3>1, <3>2 DEF InReviewIsActionable, Actionable
  <2>3. ASSUME NEW q \in Slots, Approve(q)
        PROVE  InReviewIsActionable'
    <3>1. request[q].task \in Tasks /\ sub.route \in Routes
      BY DEF TypeOK, Request
    <3>2. ASSUME NEW t \in Tasks, ApproveLastStep(t)
          PROVE  InReviewIsActionable'
      BY <3>2 DEF ApproveLastStep, TypeOK, InReviewIsActionable
    <3> QED
      BY <2>3, <3>1, <3>2, RouteReviewActionable, ApproveStepActionable DEF Approve
  <2>4. ASSUME NEW q \in Slots, NEW r \in Routes, ConfirmRoute(q, r)
        PROVE  InReviewIsActionable'
    BY <2>4, RouteReviewActionable DEF ConfirmRoute
  <2>5. ASSUME NEW q \in Slots,
               Reject(q) \/ RequestRevision(q) \/ SubmitAppeal(q) \/ RejectAppeal(q)
        PROVE  InReviewIsActionable'
    <3>1. \E status \in {"rejected", "revision_requested", "appeal_pending"} :
             sub' = [sub EXCEPT !.status = status]
      BY <2>5 DEF Reject, RequestRevision, SubmitAppeal, RejectAppeal
    <3> QED
      BY <3>1 DEF TypeOK, InReviewIsActionable
  <2> QED
    BY <2>1, <2>2, <2>3, <2>4, <2>5, SubmitActionable, ApproveAppealActionable,
       ResumeActionable, InsertActionable DEF Next
<1> QED
  BY <1>1, <1>2, TypeCorrect, PTL DEF Spec

-----------------------------------------------------------------------------
(***************************************************************************)
(* The rows of an approval route fit together in the behaviours of         *)
(* RereadSpec, in which no decision overtakes another one.                 *)
(*                                                                         *)
(* What a run checks of the rows is not inductive.  RouteInv adds what     *)
(* the other rows of a run say when its status, one of its steps or one of *)
(* its tasks has a given value, run by run, so that a transaction, which   *)
(* writes the rows of one run, needs to be looked at for that run only.    *)
(***************************************************************************)

\* The appeal about step s of run n was accepted.
Overturned(n, s) ==
    /\ appeal.status = "approved"
    /\ tasks[appeal.task].run = n
    /\ tasks[appeal.task].step = s

\* An active run has one open task, on its current step; no other run has one.
RunHasItsTask(n) ==
    /\ runs[n].status = "active" =>
          \E t \in Tasks :
             /\ Actionable(t)
             /\ tasks[t].run = n
             /\ tasks[t].step = runs[n].current
             /\ \A u \in Tasks :
                   tasks[u].status = "active" /\ tasks[u].run = n => u = t
    /\ \A t \in Tasks : tasks[t].status = "active" /\ tasks[t].run = n =>
          runs[n].status = "active"

\* What the status of a step says of its run.
StepsFitTheRun(n) ==
    /\ runs[n].status = "absent" =>
          runs[n].document = "none" /\ Existing(steps[n]) = {}
    /\ runs[n].status = "paused" =>
          steps[n][runs[n].current].status = "revision_requested"
    /\ \A s \in Steps :
          /\ steps[n][s].status = "active" =>
                runs[n].status = "active" /\ runs[n].current = s
          /\ steps[n][s].status = "revision_requested" =>
                runs[n].status = "paused" /\ runs[n].current = s
          /\ steps[n][s].status = "rejected" =>
                runs[n].status = "rejected" \/ Overturned(n, s)
          /\ runs[n].status = "completed" /\ s \in Existing(steps[n]) =>
                \/ steps[n][s].status = "approved"
                \/ steps[n][s].status = "rejected" /\ Overturned(n, s)

\* Until an appeal is accepted, a run with a rejected task is rejected, and no
\* other step of it is.
RejectionIsAlone(n) ==
    appeal.status # "approved" =>
        \A t \in Tasks : tasks[t].status = "rejected" /\ tasks[t].run = n =>
            /\ runs[n].status = "rejected"
            /\ \A s \in Steps :
                  steps[n][s].status = "rejected" <=> s = tasks[t].step

\* A run that waits for the approval of its route has no other step begun,
\* unless it went on after an accepted appeal against the chair's rejection:
\* then the review is never open again.
AwaitingIsNotBegun(n) ==
    runs[n].awaiting =>
        \/ \A s \in Steps \ {"review"} :
              steps[n][s].status \in {"absent", "pending"}
        \/ steps[n]["review"].status = "rejected" /\ appeal.status = "approved"

\* A run with a conclusion has the prorector's step, which is not rejected,
\* and the signatures of its approved steps.
DocumentIsSigned(n) ==
    /\ runs[n].document = "final" => runs[n].status = "completed"
    /\ steps[n]["prorector"].status # "rejected"
    /\ runs[n].document # "none" =>
          /\ steps[n]["prorector"].status # "absent"
          /\ \A s \in Steps \ {"review"} :
                steps[n][s].status = "approved" =>
                    \E t \in signed : tasks[t].run = n /\ tasks[t].step = s

\* Tasks are numbered as they are made; an appeal is about a rejected one.
TasksAreMade ==
    /\ \A t \in Tasks : t > made => tasks[t].status = "absent"
    /\ \A t \in signed : tasks[t].status # "absent"
    /\ appeal.status # "none" => tasks[appeal.task].status = "rejected"

RunInv(n) ==
    /\ RunHasItsTask(n)
    /\ StepsFitTheRun(n)
    /\ RejectionIsAlone(n)
    /\ AwaitingIsNotBegun(n)
    /\ DocumentIsSigned(n)

RouteInv == TasksAreMade /\ \A n \in Runs : RunInv(n)

\* A transaction about run n leaves every other run as it is.
LEMMA OtherRunsStay ==
    ASSUME TypeOK, TypeOK', TasksAreMade, NEW n \in Runs, NEW m \in Runs \ {n},
           RunInv(m),
           runs'[m] = runs[m], steps'[m] = steps[m], signed \subseteq signed',
           \A u \in Tasks :
              \/ tasks'[u] = tasks[u]
              \/ /\ tasks'[u].run = n
                 /\ tasks[u].run = n \/ tasks[u].status = "absent",
           \/ appeal' = appeal
           \/ /\ appeal.status # "approved"
              /\ appeal'.status = "approved" => tasks'[appeal'.task].run = n
    PROVE  RunInv(m)'
<1>1. /\ m \in Runs /\ m # n
      /\ appeal.task \in Tasks /\ signed \subseteq Tasks
      /\ appeal.status = "approved" => tasks[appeal.task].status = "rejected"
  BY DEF TypeOK, TasksAreMade
<1>2. \A u \in Tasks : tasks'[u].run = m => tasks'[u] = tasks[u]
  BY <1>1
<1>3. \A u \in Tasks : tasks[u].run = m /\ tasks[u].status # "absent" =>
         tasks'[u] = tasks[u]
  BY <1>1
<1>4. \A s \in Steps : Overturned(m, s)' <=> Overturned(m, s)
  BY <1>1, <1>2, <1>3 DEF Overturned
<1>5. RunHasItsTask(m)'
  <2>1. ASSUME NEW t \in Tasks, Actionable(t), tasks[t].run = m
        PROVE  Actionable(t)' /\ tasks'[t] = tasks[t]
    BY <1>3, <2>1 DEF Actionable
  <2>2. RunHasItsTask(m)
    BY DEF RunInv
  <2> QED
    BY <1>1, <1>2, <1>3, <2>1, <2>2 DEF RunHasItsTask
<1>6. StepsFitTheRun(m)'
  BY <1>4 DEF RunInv, StepsFitTheRun, Existing
<1>7. RejectionIsAlone(m)'
  <2>1. appeal'.status # "approved" => appeal.status # "approved"
    OBVIOUS
  <2> QED
    BY <1>2, <2>1 DEF RunInv, RejectionIsAlone
<1>8. AwaitingIsNotBegun(m)'
  <2>1. appeal.status = "approved" => appeal'.status = "approved"
    OBVIOUS
  <2> QED
    BY <2>1 DEF RunInv, AwaitingIsNotBegun
<1>9. DocumentIsSigned(m)'
  <2>1. ASSUME NEW t \in signed, tasks[t].run = m
        PROVE  t \in signed' /\ tasks'[t] = tasks[t]
    BY <1>1, <1>3, <2>1 DEF TasksAreMade
  <2> QED
    BY <2>1 DEF RunInv, DocumentIsSigned
<1> QED
  BY <1>5, <1>6, <1>7, <1>8, <1>9 DEF RunInv

LEMMA ActivatedSteps ==
    ASSUME NEW st \in [Steps -> Step], NEW s \in Steps
    PROVE  /\ Activated(st, s)[s].status = "active"
           /\ \A x \in Steps \ {s} : Activated(st, s)[x] = st[x]
BY DEF Activated, Step

\* What a transaction that goes on with step s of run n leaves of the run.
LEMMA RunGoesOn ==
    ASSUME TypeOK, TypeOK', made < MaxTasks, NEW n \in Runs, NEW s \in Steps,
           NEW st \in [Steps -> Step], NEW ts \in [Tasks -> Task],
           steps'[n] = Activated(st, s),
           tasks' = TaskAdded(ts, n, s),
           runs'[n].status = "active", runs'[n].current = s,
           \A u \in Tasks : ~(ts[u].status = "active" /\ ts[u].run = n),
           \A x \in Steps \ {s} :
              /\ st[x].status \notin {"active", "revision_requested"}
              /\ st[x].status = "rejected" => Overturned(n, x)',
           \A u \in Tasks : ts[u].status = "rejected" /\ ts[u].run = n =>
              appeal'.status = "approved"
    PROVE  RunHasItsTask(n)' /\ StepsFitTheRun(n)' /\ RejectionIsAlone(n)'
<1>1. /\ made + 1 \in Tasks
      /\ tasks'[made + 1].status = "active"
      /\ tasks'[made + 1].run = n
      /\ tasks'[made + 1].step = s
  BY TaskAddedOpen
<1>2. \A u \in Tasks \ {made + 1} : tasks'[u] = ts[u]
  BY DEF TaskAdded
<1>3. /\ steps'[n][s].status = "active"
      /\ \A x \in Steps \ {s} : steps'[n][x] = st[x]
  BY ActivatedSteps
<1>4. RunHasItsTask(n)'
  BY <1>1, <1>2, <1>3 DEF RunHasItsTask, Actionable
<1>5. StepsFitTheRun(n)'
  BY <1>3 DEF StepsFitTheRun
<1>6. RejectionIsAlone(n)'
  BY <1>1, <1>2 DEF RejectionIsAlone
<1> QED
  BY <1>4, <1>5, <1>6

LEMMA SignedFacts ==
    ASSUME NEW n, NEW t
    PROVE  /\ signed \subseteq SignedBy(n, t)
           /\ SignedBy(n, t) \subseteq signed \cup {t}
           /\ runs[n].document # "none" => t \in SignedBy(n, t)
BY DEF SignedBy

LEMMA RejectedTasksStay ==
    ASSUME TypeOK, TasksAreMade, appeal' = appeal,
           \A u \in Tasks : tasks[u].status = "rejected" => tasks'[u] = tasks[u],
           NEW n \in Runs, NEW s \in Steps, Overturned(n, s)
    PROVE  Overturned(n, s)'
BY DEF TypeOK, TasksAreMade, Overturned

\* A new task, and those of ts: tasks, one of them perhaps closed.
LEMMA TasksStayMade ==
    ASSUME TypeOK, TasksAreMade, made < MaxTasks, NEW n \in Runs, NEW s \in Steps,
           NEW ts \in [Tasks -> Task],
           \A u \in Tasks : ts[u] = tasks[u]
              \/ /\ tasks[u].status = "active" /\ tasks[u].run = n
                 /\ ts[u].status # "absent" /\ ts[u].run = n,
           tasks' = TaskAdded(ts, n, s), made' = made + 1,
           \A u \in signed' : u \in signed \/ (u \in Tasks /\ tasks[u].status # "absent"),
           appeal'.status # "none" => appeal.status # "none",
           appeal'.task = appeal.task
    PROVE  /\ TasksAreMade'
           /\ \A u \in Tasks : tasks[u].status = "rejected" => tasks'[u] = tasks[u]
           /\ \A u \in Tasks :
                 \/ tasks'[u] = tasks[u]
                 \/ /\ tasks'[u].run = n
                    /\ tasks[u].run = n \/ tasks[u].status = "absent"
<1>1. /\ made + 1 \in Tasks
      /\ tasks[made + 1].status = "absent"
      /\ tasks'[made + 1].status = "active"
      /\ tasks'[made + 1].run = n
  BY TaskAddedOpen DEF TypeOK, TasksAreMade
<1>2. \A u \in Tasks \ {made + 1} : tasks'[u] = ts[u]
  BY DEF TaskAdded
<1>3. \A u \in Tasks : tasks[u].status # "absent" => tasks'[u].status # "absent"
  BY <1>1, <1>2
<1>4. \A u \in Tasks : tasks[u].status = "rejected" => tasks'[u] = tasks[u]
  BY <1>1, <1>2
<1>5. \A u \in Tasks : u > made' => tasks'[u].status = "absent"
  BY <1>2 DEF TypeOK, TasksAreMade, Tasks
<1>6. signed' \subseteq Tasks /\ appeal.task \in Tasks
  BY DEF TypeOK
<1>7. \A u \in Tasks :
         \/ tasks'[u] = tasks[u]
         \/ /\ tasks'[u].run = n
            /\ tasks[u].run = n \/ tasks[u].status = "absent"
  BY <1>1, <1>2
<1>8. TasksAreMade'
  BY <1>3, <1>4, <1>5, <1>6 DEF TasksAreMade
<1> QED
  BY <1>4, <1>7, <1>8

\* A transaction goes on with step s of run n, from the steps st and the tasks
\* ts: no other step and no task of the run is open in them, and a rejected
\* step is the one whose appeal was or is accepted.
GoesOn(n, s, st, ts) ==
    /\ made < MaxTasks /\ made' = made + 1
    /\ runs'[n].status = "active" /\ runs'[n].current = s
    /\ steps'[n] = Activated(st, s)
    /\ tasks' = TaskAdded(ts, n, s)
    /\ \A m \in Runs \ {n} : runs'[m] = runs[m] /\ steps'[m] = steps[m]
    /\ \A u \in Tasks :
          /\ \/ ts[u] = tasks[u]
             \/ /\ tasks[u].status = "active" /\ tasks[u].run = n
                /\ ts[u].status # "absent" /\ ts[u].run = n
          /\ ~(ts[u].status = "active" /\ ts[u].run = n)
          /\ ts[u].status = "rejected" /\ ts[u].run = n =>
                appeal'.status = "approved"
    /\ \A x \in Steps \ {s} :
          st[x].status \notin {"active", "revision_requested"}
    /\ signed \subseteq signed'
    /\ \A u \in signed' \ signed : u \in Tasks /\ tasks[u].status # "absent"
    /\ \/ /\ appeal' = appeal
          /\ \A x \in Steps \ {s} : st[x].status = "rejected" => Overturned(n, x)
       \/ /\ appeal.status \notin {"none", "approved"}
          /\ appeal'.status = "approved" /\ appeal'.task = appeal.task
          /\ tasks[appeal.task].run = n
          /\ \A x \in Steps \ {s} :
                st[x].status = "rejected" => x = tasks[appeal.task].step

\* Such a transaction keeps the invariant, if what it writes about the approval
\* of the route and about the conclusion is right.
LEMMA GoesOnConsistent ==
    ASSUME TypeOK, TypeOK', RouteInv, NEW n \in Runs, NEW s \in Steps,
           NEW st \in [Steps -> Step], NEW ts \in [Tasks -> Task],
           GoesOn(n, s, st, ts),
           AwaitingIsNotBegun(n)', DocumentIsSigned(n)'
    PROVE  RouteInv'
<1>0. /\ made < MaxTasks /\ made' = made + 1
      /\ runs'[n].status = "active" /\ runs'[n].current = s
      /\ steps'[n] = Activated(st, s)
      /\ tasks' = TaskAdded(ts, n, s)
      /\ \A m \in Runs \ {n} : runs'[m] = runs[m] /\ steps'[m] = steps[m]
      /\ \A u \in Tasks : ts[u] = tasks[u]
            \/ /\ tasks[u].status = "active" /\ tasks[u].run = n
               /\ ts[u].status # "absent" /\ ts[u].run = n
      /\ \A u \in Tasks : ~(ts[u].status = "active" /\ ts[u].run = n)
      /\ \A u \in Tasks : ts[u].status = "rejected" /\ ts[u].run = n =>
            appeal'.status = "approved"
      /\ \A x \in Steps \ {s} :
            st[x].status \notin {"active", "revision_requested"}
      /\ signed \subseteq signed'
      /\ \A u \in signed' : u \in signed \/ (u \in Tasks /\ tasks[u].status # "absent")
      /\ \/ /\ appeal' = appeal
            /\ \A x \in Steps \ {s} : st[x].status = "rejected" => Overturned(n, x)
         \/ /\ appeal.status \notin {"none", "approved"}
            /\ appeal'.status = "approved" /\ appeal'.task = appeal.task
            /\ tasks[appeal.task].run = n
            /\ \A x \in Steps \ {s} :
                  st[x].status = "rejected" => x = tasks[appeal.task].step
  BY DEF GoesOn
<1>1. /\ TasksAreMade
      /\ appeal'.status # "none" => appeal.status # "none"
      /\ appeal'.task = appeal.task /\ appeal.task \in Tasks
  BY <1>0 DEF RouteInv, TypeOK
<1>2. /\ TasksAreMade'
      /\ \A u \in Tasks : tasks[u].status = "rejected" => tasks'[u] = tasks[u]
      /\ \A u \in Tasks :
            \/ tasks'[u] = tasks[u]
            \/ /\ tasks'[u].run = n
               /\ tasks[u].run = n \/ tasks[u].status = "absent"
  BY <1>0, <1>1, TasksStayMade
<1>3. appeal.status # "none" => tasks'[appeal.task] = tasks[appeal.task]
  BY <1>1, <1>2 DEF TasksAreMade
<1>4. \A x \in Steps \ {s} : st[x].status = "rejected" => Overturned(n, x)'
  BY <1>0, <1>1, <1>3 DEF Overturned
<1>5. RunHasItsTask(n)' /\ StepsFitTheRun(n)' /\ RejectionIsAlone(n)'
  BY <1>0, <1>4, RunGoesOn
<1>6. RunInv(n)'
  BY <1>5 DEF RunInv
<1>7. ASSUME NEW m \in Runs \ {n}
      PROVE  RunInv(m)'
  <2>1. RunInv(m)
    BY DEF RouteInv
  <2>2. \/ appeal' = appeal
        \/ /\ appeal.status # "approved"
           /\ appeal'.status = "approved" => tasks'[appeal'.task].run = n
    BY <1>0, <1>1, <1>3
  <2> QED
    BY <1>0, <1>1, <1>2, <2>1, <2>2, OtherRunsStay
<1> QED
  BY <1>2, <1>6, <1>7 DEF RouteInv

\* What an actionable task says of its run, and closing it.
LEMMA DecisionFacts ==
    ASSUME TypeOK, RouteInv, NEW t \in Tasks, Actionable(t),
           NEW status \in {"approved", "rejected", "revision_requested"}
    PROVE  LET n == tasks[t].run
               s == tasks[t].step
               ts == TaskClosed(t, status)
               st == StepClosed(n, s, status)
           IN  /\ n \in Runs /\ s \in Steps
               /\ ts \in [Tasks -> Task] /\ st \in [Steps -> Step]
               /\ runs[n].status = "active" /\ runs[n].current = s
               /\ steps[n][s].status = "active"
               /\ ts[t].status = status /\ ts[t].run = n /\ ts[t].step = s
               /\ \A u \in Tasks \ {t} : ts[u] = tasks[u]
               /\ \A u \in Tasks : ~(ts[u].status = "active" /\ ts[u].run = n)
               /\ st[s].status = status
               /\ \A x \in Steps \ {s} :
                     /\ st[x] = steps[n][x]
                     /\ st[x].status \notin {"active", "revision_requested"}
                     /\ st[x].status = "rejected" => Overturned(n, x)
               /\ \A u \in Tasks : tasks[u].status = "rejected" /\ tasks[u].run = n =>
                     appeal.status = "approved"
<1> DEFINE n == tasks[t].run
           s == tasks[t].step
           ts == TaskClosed(t, status)
           st == StepClosed(n, s, status)
<1>1. n \in Runs /\ s \in Steps
  BY DEF TypeOK, Task
<1>2. ts \in [Tasks -> Task] /\ st \in [Steps -> Step]
  BY <1>1, TaskClosedTyped, ClosedTyped
<1>3. /\ tasks[t].status = "active" /\ runs[n].status = "active"
      /\ steps[n][s].status = "active"
  BY DEF Actionable
<1>4. RunInv(n)
  BY <1>1 DEF RouteInv
<1>5. \A u \in Tasks : tasks[u].status = "active" /\ tasks[u].run = n => u = t
  BY <1>3, <1>4 DEF RunInv, RunHasItsTask
<1>6. ts[t].status = status /\ ts[t].run = n /\ ts[t].step = s
  BY DEF TypeOK, TaskClosed, Task
<1>7. \A u \in Tasks \ {t} : ts[u] = tasks[u]
  BY DEF TypeOK, TaskClosed
<1>8. steps[n] \in [Steps -> Step]
  BY <1>1 DEF TypeOK
<1>9. st[s].status = status
  BY <1>1, <1>8 DEF StepClosed, Step
<1>10. \A x \in Steps \ {s} : st[x] = steps[n][x]
  BY <1>1, <1>8 DEF StepClosed
<1>11. runs[n].current = s
  BY <1>1, <1>3, <1>4 DEF RunInv, StepsFitTheRun
<1>12. \A x \in Steps \ {s} :
          /\ steps[n][x].status \notin {"active", "revision_requested"}
          /\ steps[n][x].status = "rejected" => Overturned(n, x)
  BY <1>3, <1>4, <1>11 DEF RunInv, StepsFitTheRun
<1>13. \A u \in Tasks : tasks[u].status = "rejected" /\ tasks[u].run = n =>
          appeal.status = "approved"
  BY <1>3, <1>4 DEF RunInv, RejectionIsAlone
<1> HIDE DEF n, s, ts, st
<1>14. \A u \in Tasks : ~(ts[u].status = "active" /\ ts[u].run = n)
  BY <1>5, <1>6, <1>7
<1> QED
  BY <1>1, <1>2, <1>3, <1>6, <1>7, <1>9, <1>10, <1>11, <1>12, <1>13, <1>14
     DEF n, s, ts, st

LEMMA BuiltSteps ==
    ASSUME NEW st \in [Steps -> Step], NEW r \in Routes, NEW start \in Nat
    PROVE  LET built == ProrectorAppended(RouteBuilt(st, r, start), r)
           IN  /\ built \in [Steps -> Step]
               /\ built["prorector"].status = "pending"
               /\ \A x \in Steps :
                     \/ built[x].status = "pending" /\ x # "review"
                     \/ built[x] = st[x]
<1> DEFINE route == RouteBuilt(st, r, start)
<1>1. route \in [Steps -> Step]
  BY BuiltTyped
<1>2. \A x \in Steps : \/ route[x].status = "pending" /\ x # "review"
                       \/ route[x] = st[x]
  <2>1. "review" \notin InRoute(r)
    BY TemplatesOfRoute, ApprovalRouteAssumption
  <2> QED
    BY <2>1 DEF RouteBuilt
<1> HIDE DEF route
<1>3. ProrectorAppended(route, r) \in [Steps -> Step]
  BY <1>1, AppendedTyped
<1>4. ProrectorAppended(route, r)["prorector"].status = "pending"
  BY <1>1, StepNames DEF ProrectorAppended
<1>5. \A x \in Steps \ {"prorector"} : ProrectorAppended(route, r)[x] = route[x]
  BY <1>1 DEF ProrectorAppended
<1> QED
  BY <1>2, <1>3, <1>4, <1>5 DEF route

\* The chair's approval of the route, of a task that is still open.
LEMMA RouteReviewConsistent ==
    ASSUME TypeOK, TypeOK', RouteInv, NEW t \in Tasks, NEW r \in Routes,
           NEW n \in Runs, n = tasks[t].run,
           Actionable(t), ApproveRouteReview(t, r)
    PROVE  RouteInv'
<1> DEFINE closed == StepClosed(n, "review", "approved")
           built == ProrectorAppended(
                        RouteBuilt(closed, r, closed["review"].order + 1), r)
           first == FirstTemplate(r)
           ts == TaskClosed(t, "approved")
<1>1. /\ tasks[t].step = "review" /\ runs[n].awaiting /\ made < MaxTasks
      /\ runs' = [runs EXCEPT ![n] =
                      [status |-> "active", awaiting |-> FALSE, route |-> r,
                       current |-> first,
                       document |-> IF @.document = "none" THEN "sealed"
                                    ELSE @.document]]
      /\ steps' = [steps EXCEPT ![n] = Activated(built, first)]
      /\ tasks' = TaskAdded(ts, n, first)
      /\ made' = made + 1
      /\ signed' = SignedBy(n, t)
      /\ appeal' = appeal
  BY DEF ApproveRouteReview, ApprovesRoute
<1>2. /\ "review" \in Steps
      /\ closed \in [Steps -> Step] /\ ts \in [Tasks -> Task]
      /\ runs[n].status = "active" /\ steps[n]["review"].status = "active"
      /\ tasks[t].status = "active"
      /\ ts[t].status = "approved" /\ ts[t].run = n
      /\ \A u \in Tasks \ {t} : ts[u] = tasks[u]
      /\ \A u \in Tasks : ~(ts[u].status = "active" /\ ts[u].run = n)
      /\ closed["review"].status = "approved"
      /\ \A x \in Steps \ {"review"} : closed[x] = steps[n][x]
      /\ \A u \in Tasks : tasks[u].status = "rejected" /\ tasks[u].run = n =>
            appeal.status = "approved"
  BY <1>1, DecisionFacts DEF Actionable
<1>3. RunInv(n) /\ TasksAreMade
  BY <1>2 DEF RouteInv
<1>4. \A x \in Steps \ {"review"} : steps[n][x].status \in {"absent", "pending"}
  BY <1>1, <1>2, <1>3 DEF RunInv, AwaitingIsNotBegun
<1>5. /\ built \in [Steps -> Step]
      /\ built["prorector"].status = "pending"
      /\ \A x \in Steps \ {"review"} : built[x].status \in {"absent", "pending"}
      /\ built["review"].status = "approved"
  <2>1. closed["review"].order + 1 \in Nat
    BY <1>2 DEF Step
  <2> HIDE DEF closed
  <2> QED
    BY <1>2, <1>4, <2>1, BuiltSteps
<1>6. first \in Steps \ {"review", "prorector"}
  BY TemplatesOfRoute, StepNames, ApprovalRouteAssumption
<1>7. runs'[n].status = "active" /\ runs'[n].current = first
      /\ ~runs'[n].awaiting /\ runs'[n].document # "final"
      /\ \A m \in Runs \ {n} : runs'[m] = runs[m] /\ steps'[m] = steps[m]
  <2>1. runs[n].document # "final"
    BY <1>2, <1>3 DEF RunInv, DocumentIsSigned
  <2> QED
    BY <1>1, <1>2, <2>1 DEF TypeOK
<1> HIDE DEF closed, built, first, ts
<1>8. \A u \in signed' : u \in signed \/ (u \in Tasks /\ tasks[u].status # "absent")
  <2>1. signed' \subseteq signed \cup {t}
    BY <1>1, SignedFacts
  <2> QED
    BY <1>2, <2>1
<1>9. /\ steps'[n] = Activated(built, first)
      /\ steps'[n][first].status = "active"
      /\ \A x \in Steps \ {first} : steps'[n][x].status = built[x].status
  <2>1. steps'[n] = Activated(built, first)
    BY <1>1 DEF TypeOK
  <2> QED
    BY <1>5, <1>6, <2>1, ActivatedSteps
<1>10. AwaitingIsNotBegun(n)' /\ DocumentIsSigned(n)'
  <2>1. /\ steps'[n]["prorector"].status = "pending"
        /\ \A x \in Steps \ {"review"} : steps'[n][x].status # "approved"
    BY <1>5, <1>6, <1>9, StepNames
  <2>2. DocumentIsSigned(n)'
    BY <1>7, <2>1 DEF DocumentIsSigned
  <2> QED
    BY <1>7, <2>2 DEF AwaitingIsNotBegun
<1>11. /\ made < MaxTasks
       /\ tasks' = TaskAdded(ts, n, first) /\ made' = made + 1
       /\ signed \subseteq signed' /\ appeal' = appeal
  BY <1>1, SignedFacts
<1>12. \A x \in Steps \ {first} :
          built[x].status \notin {"active", "revision_requested", "rejected"}
  BY <1>5
<1>13. \A u \in Tasks : ts[u] = tasks[u]
          \/ /\ tasks[u].status = "active" /\ tasks[u].run = n
             /\ ts[u].status # "absent" /\ ts[u].run = n
  BY <1>2
<1>14. \A u \in Tasks : ts[u].status = "rejected" /\ ts[u].run = n =>
          appeal'.status = "approved"
  BY <1>1, <1>2
<1>15. GoesOn(n, first, built, ts)
  BY <1>2, <1>7, <1>8, <1>9, <1>11, <1>12, <1>13, <1>14 DEF GoesOn
<1> QED
  BY <1>2, <1>5, <1>6, <1>10, <1>15, GoesOnConsistent

\* An approval after which another step is active, of a task that is still open.
LEMMA ApproveStepConsistent ==
    ASSUME TypeOK, TypeOK', RouteInv, NEW t \in Tasks,
           NEW n \in Runs, n = tasks[t].run,
           Actionable(t), ApproveStep(t)
    PROVE  RouteInv'
<1> DEFINE s == tasks[t].step
           closed == StepClosed(n, s, "approved")
           ts == TaskClosed(t, "approved")
<1>1. /\ ~ApprovesRoute(n, s) /\ made < MaxTasks /\ made' = made + 1
      /\ signed' = SignedBy(n, t) /\ appeal' = appeal
  BY DEF ApproveStep
<1>2. PICK next \in Steps :
         /\ NextPending(closed, next)
         /\ steps' = [steps EXCEPT ![n] = Activated(closed, next)]
         /\ runs' = RunAt(n, "active", next)
         /\ tasks' = TaskAdded(ts, n, next)
  BY DEF ApproveStep
<1>3. /\ s \in Steps
      /\ closed \in [Steps -> Step] /\ ts \in [Tasks -> Task]
      /\ runs[n].status = "active" /\ steps[n][s].status = "active"
      /\ tasks[t].status = "active"
      /\ ts[t].status = "approved" /\ ts[t].run = n /\ ts[t].step = s
      /\ \A u \in Tasks \ {t} : ts[u] = tasks[u]
      /\ \A u \in Tasks : ~(ts[u].status = "active" /\ ts[u].run = n)
      /\ closed[s].status = "approved"
      /\ \A x \in Steps \ {s} :
            /\ closed[x] = steps[n][x]
            /\ closed[x].status \notin {"active", "revision_requested"}
            /\ closed[x].status = "rejected" => Overturned(n, x)
      /\ \A u \in Tasks : tasks[u].status = "rejected" /\ tasks[u].run = n =>
            appeal.status = "approved"
  BY DecisionFacts DEF Actionable
<1>4. /\ RunInv(n) /\ TasksAreMade
      /\ next # s /\ closed[next].status = "pending" /\ runs[n].document # "final"
  <2>1. RunInv(n) /\ TasksAreMade
    BY DEF RouteInv
  <2>2. closed[next].status = "pending"
    BY <1>2 DEF NextPending, Pending
  <2> QED
    BY <1>3, <2>1, <2>2 DEF RunInv, DocumentIsSigned
<1>5. /\ runs'[n].status = "active" /\ runs'[n].current = next
      /\ runs'[n].awaiting = runs[n].awaiting
      /\ runs'[n].document = runs[n].document
      /\ \A m \in Runs \ {n} : runs'[m] = runs[m] /\ steps'[m] = steps[m]
      /\ steps'[n] = Activated(closed, next)
  BY <1>2 DEF RunAt, TypeOK, Run
<1> HIDE DEF s, closed, ts
<1>6. /\ steps'[n][next].status = "active"
      /\ steps'[n][s].status = "approved"
      /\ \A x \in Steps \ {s, next} : steps'[n][x] = steps[n][x]
  BY <1>3, <1>4, <1>5, ActivatedSteps
<1>7. /\ made + 1 \in Tasks /\ tasks[made + 1].status = "absent"
      /\ tasks'[t] = ts[t]
      /\ \A u \in Tasks : tasks[u].status # "absent" =>
            tasks'[u].run = tasks[u].run /\ tasks'[u].step = tasks[u].step
  <2>1. made + 1 \in Tasks /\ tasks[made + 1].status = "absent"
    BY <1>1, <1>3, <1>4, TaskAddedOpen DEF TypeOK, TasksAreMade
  <2>2. \A u \in Tasks \ {made + 1} : tasks'[u] = ts[u]
    BY <1>2 DEF TaskAdded
  <2> QED
    BY <1>3, <2>1, <2>2 DEF s
<1>8. AwaitingIsNotBegun(n)'
  <2>1. CASE s = "review"
    BY <1>1, <1>5, <2>1 DEF ApprovesRoute, AwaitingIsNotBegun
  <2>2. CASE s # "review"
    BY <1>1, <1>3, <1>4, <1>5, <1>6, <2>2, StepNames DEF RunInv, AwaitingIsNotBegun
  <2> QED
    BY <2>1, <2>2
<1>9. DocumentIsSigned(n)'
  <2>1. ASSUME runs[n].document # "none", NEW x \in Steps \ {"review"},
               steps'[n][x].status = "approved"
        PROVE  \E u \in signed' : tasks'[u].run = n /\ tasks'[u].step = x
    <3>1. CASE x = s
      <4>1. t \in signed'
        BY <1>1, <2>1, SignedFacts
      <4> QED
        BY <1>3, <1>7, <3>1, <4>1
    <3>2. CASE x # s
      <4>1. PICK u \in signed : tasks[u].run = n /\ tasks[u].step = x
        BY <1>4, <1>6, <2>1, <3>2 DEF RunInv, DocumentIsSigned
      <4>2. u \in signed' /\ u \in Tasks /\ tasks[u].status # "absent"
        BY <1>1, <1>4, SignedFacts DEF TasksAreMade, TypeOK
      <4> QED
        BY <1>7, <4>1, <4>2
    <3> QED
      BY <3>1, <3>2
  <2>2. /\ steps'[n]["prorector"].status # "rejected"
        /\ steps[n]["prorector"].status # "absent" =>
              steps'[n]["prorector"].status # "absent"
    BY <1>4, <1>6, StepNames DEF RunInv, DocumentIsSigned
  <2>3. runs[n].document # "none" => steps[n]["prorector"].status # "absent"
    BY <1>4 DEF RunInv, DocumentIsSigned
  <2> QED
    BY <1>4, <1>5, <2>1, <2>2, <2>3 DEF DocumentIsSigned
<1>10. \A u \in Tasks : ts[u] = tasks[u]
          \/ /\ tasks[u].status = "active" /\ tasks[u].run = n
             /\ ts[u].status # "absent" /\ ts[u].run = n
  BY <1>3
<1>11. \A u \in Tasks : ts[u].status = "rejected" /\ ts[u].run = n =>
          appeal'.status = "approved"
  BY <1>1, <1>3
<1>12. /\ signed \subseteq signed'
       /\ \A u \in signed' : u \in signed \/ (u \in Tasks /\ tasks[u].status # "absent")
  <2>1. signed \subseteq signed' /\ signed' \subseteq signed \cup {t}
    BY <1>1, SignedFacts
  <2> QED
    BY <1>3, <2>1
<1>13. \A x \in Steps \ {next} :
          /\ closed[x].status \notin {"active", "revision_requested"}
          /\ closed[x].status = "rejected" => Overturned(n, x)
  BY <1>3
<1>14. GoesOn(n, next, closed, ts)
  BY <1>1, <1>2, <1>3, <1>5, <1>10, <1>11, <1>12, <1>13 DEF GoesOn
<1> QED
  BY <1>3, <1>8, <1>9, <1>14, GoesOnConsistent

\* A decision after which nobody has to decide on the run.
LEMMA ClosesConsistent ==
    ASSUME TypeOK, TypeOK', RouteInv, NEW t \in Tasks,
           NEW n \in Runs, n = tasks[t].run, Actionable(t),
           NEW status \in {"approved", "rejected", "revision_requested"},
           steps'[n] = StepClosed(n, tasks[t].step, status),
           tasks' = TaskClosed(t, status), UNCHANGED <<made, appeal>>,
           signed \subseteq signed', signed' \subseteq signed \cup {t},
           runs'[n].status # "active",
           \A m \in Runs \ {n} : runs'[m] = runs[m] /\ steps'[m] = steps[m],
           StepsFitTheRun(n)', RejectionIsAlone(n)',
           AwaitingIsNotBegun(n)', DocumentIsSigned(n)'
    PROVE  RouteInv'
<1> DEFINE ts == TaskClosed(t, status)
<1>1. /\ tasks[t].status = "active"
      /\ ts[t].status = status /\ ts[t].run = n
      /\ \A u \in Tasks \ {t} : ts[u] = tasks[u]
      /\ \A u \in Tasks : ~(ts[u].status = "active" /\ ts[u].run = n)
  BY DecisionFacts DEF Actionable
<1> HIDE DEF ts
<1>2. tasks' = ts
  BY DEF ts
<1>3. RunHasItsTask(n)'
  BY <1>1, <1>2 DEF RunHasItsTask
<1>4. RunInv(n)'
  BY <1>3 DEF RunInv
<1>5. TasksAreMade
  BY DEF RouteInv
<1>6. TasksAreMade'
  <2>1. \A u \in Tasks : /\ tasks'[u].status = "absent" <=> tasks[u].status = "absent"
                         /\ tasks[u].status = "rejected" => tasks'[u] = tasks[u]
    BY <1>1, <1>2
  <2>2. signed \subseteq Tasks /\ appeal.task \in Tasks
    BY DEF TypeOK
  <2>3. \A u \in signed' : tasks'[u].status # "absent"
    BY <1>1, <1>5, <2>1, <2>2 DEF TasksAreMade
  <2> QED
    BY <1>5, <2>1, <2>2, <2>3 DEF TasksAreMade
<1>7. ASSUME NEW m \in Runs \ {n}
      PROVE  RunInv(m)'
  <2>1. RunInv(m)
    BY DEF RouteInv
  <2>2. \A u \in Tasks :
           \/ tasks'[u] = tasks[u]
           \/ tasks'[u].run = n /\ tasks[u].run = n
    BY <1>1, <1>2
  <2> QED
    BY <1>5, <2>1, <2>2, OtherRunsStay
<1> QED
  BY <1>4, <1>6, <1>7 DEF RouteInv

\* What closing step s of run n and its task t leaves of them.
WasDecided(t, n, s, status) ==
    /\ runs[n].status = "active" /\ runs[n].current = s
    /\ steps[n][s].status = "active" /\ tasks[t].status = "active"
    /\ runs[n].document # "final"
    /\ steps'[n][s].status = status
    /\ \A x \in Steps \ {s} :
          /\ steps'[n][x] = steps[n][x]
          /\ steps'[n][x].status \notin {"active", "revision_requested"}
          /\ steps'[n][x].status = "rejected" => Overturned(n, x)'
    /\ tasks'[t].status = status
    /\ \A u \in Tasks :
          tasks'[u].run = tasks[u].run /\ tasks'[u].step = tasks[u].step
    /\ \A u \in Tasks \ {t} :
          /\ tasks'[u] = tasks[u]
          /\ tasks[u].status = "rejected" /\ tasks[u].run = n =>
                appeal.status = "approved"

LEMMA ClosedFacts ==
    ASSUME TypeOK, TypeOK', RouteInv, NEW t \in Tasks,
           NEW n \in Runs, n = tasks[t].run, Actionable(t),
           NEW status \in {"approved", "rejected", "revision_requested"},
           steps'[n] = StepClosed(n, tasks[t].step, status),
           tasks' = TaskClosed(t, status), appeal' = appeal
    PROVE  /\ tasks[t].step \in Steps /\ RunInv(n) /\ TasksAreMade
           /\ WasDecided(t, n, tasks[t].step, status)
<1> DEFINE s == tasks[t].step
           st == StepClosed(n, s, status)
           ts == TaskClosed(t, status)
<1>1. /\ s \in Steps
      /\ runs[n].status = "active" /\ runs[n].current = s
      /\ steps[n][s].status = "active"
      /\ ts[t].status = status /\ ts[t].run = n /\ ts[t].step = s
      /\ \A u \in Tasks \ {t} : ts[u] = tasks[u]
      /\ st[s].status = status
      /\ \A x \in Steps \ {s} :
            /\ st[x] = steps[n][x]
            /\ st[x].status \notin {"active", "revision_requested"}
            /\ st[x].status = "rejected" => Overturned(n, x)
      /\ \A u \in Tasks : tasks[u].status = "rejected" /\ tasks[u].run = n =>
            appeal.status = "approved"
  BY DecisionFacts
<1>2. RunInv(n) /\ TasksAreMade /\ tasks[t].status = "active"
  BY DEF RouteInv, Actionable
<1>3. runs[n].document # "final"
  BY <1>1, <1>2 DEF RunInv, DocumentIsSigned
<1>4. steps'[n] = st /\ tasks' = ts
  OBVIOUS
<1> HIDE DEF st, ts
<1>5. \A u \in Tasks : tasks'[u].run = tasks[u].run /\ tasks'[u].step = tasks[u].step
  BY <1>1, <1>4
<1>6. \A u \in Tasks : tasks[u].status = "rejected" => tasks'[u] = tasks[u]
  BY <1>1, <1>2, <1>4
<1>7. ASSUME NEW x \in Steps, Overturned(n, x)
      PROVE  Overturned(n, x)'
  BY <1>2, <1>6, <1>7, RejectedTasksStay
<1>8. \A x \in Steps \ {s} :
         /\ steps'[n][x] = steps[n][x]
         /\ steps'[n][x].status \notin {"active", "revision_requested"}
         /\ steps'[n][x].status = "rejected" => Overturned(n, x)'
  BY <1>1, <1>4, <1>7
<1> QED
  BY <1>1, <1>2, <1>3, <1>4, <1>5, <1>8 DEF WasDecided

LEMMA RunAtFields ==
    ASSUME TypeOK, NEW n \in Runs, NEW c, NEW status
    PROVE  /\ RunAt(n, status, c)[n].awaiting = runs[n].awaiting
           /\ RunAt(n, status, c)[n].document = runs[n].document
<1>1. runs \in [Runs -> Run] /\ runs[n] \in Run
  BY DEF TypeOK
<1> DEFINE moved == [runs[n] EXCEPT !.status = status, !.current = c]
<1>2. moved.awaiting = runs[n].awaiting /\ moved.document = runs[n].document
  BY <1>1 DEF Run
<1> HIDE DEF moved
<1>3. [runs EXCEPT ![n] = moved][n] = moved
  BY <1>1
<1>4. RunAt(n, status, c) = [runs EXCEPT ![n] = moved]
  BY DEF RunAt, moved
<1> QED
  BY <1>2, <1>3, <1>4

\* The approval that completes the run, of a task that is still open.
LEMMA ApproveLastStepConsistent ==
    ASSUME TypeOK, TypeOK', RouteInv, NEW t \in Tasks,
           NEW n \in Runs, n = tasks[t].run,
           Actionable(t), ApproveLastStep(t)
    PROVE  RouteInv'
<1> DEFINE s == tasks[t].step
           closed == StepClosed(n, s, "approved")
           moved == RunAt(n, "completed", "none")
<1>1. /\ ~ApprovesRoute(n, s) /\ Pending(closed) = {}
      /\ steps' = [steps EXCEPT ![n] = closed]
      /\ tasks' = TaskClosed(t, "approved")
      /\ runs' = [moved EXCEPT ![n] = Packaged(moved[n])]
      /\ signed' = SignedBy(n, t) /\ UNCHANGED <<made, appeal>>
  BY DEF ApproveLastStep
<1>0. steps'[n] = closed /\ \A m \in Runs \ {n} : steps'[m] = steps[m]
  BY <1>1 DEF TypeOK
<1>2. /\ s \in Steps /\ RunInv(n) /\ TasksAreMade
      /\ runs[n].status = "active"
      /\ steps'[n][s].status = "approved" /\ tasks'[t].status = "approved"
      /\ \A x \in Steps \ {s} :
            /\ steps'[n][x] = steps[n][x]
            /\ steps'[n][x].status \notin {"active", "revision_requested"}
            /\ steps'[n][x].status = "rejected" => Overturned(n, x)'
      /\ \A u \in Tasks :
            tasks'[u].run = tasks[u].run /\ tasks'[u].step = tasks[u].step
      /\ \A u \in Tasks \ {t} : tasks[u].status = "rejected" /\ tasks[u].run = n =>
            appeal.status = "approved"
      /\ \A u \in Tasks \ {t} : tasks'[u] = tasks[u]
  <2>1. /\ steps'[n] = StepClosed(n, tasks[t].step, "approved")
        /\ tasks' = TaskClosed(t, "approved") /\ appeal' = appeal
    BY <1>1 DEF TypeOK
  <2>2. s \in Steps /\ RunInv(n) /\ TasksAreMade /\ WasDecided(t, n, s, "approved")
    BY <2>1, ClosedFacts
  <2> QED
    BY <2>2 DEF WasDecided
<1>3. \A x \in Steps : steps'[n][x].status # "pending" /\ steps'[n][x] \in Step
  <2>1. steps'[n] = closed /\ closed \in [Steps -> Step]
    BY <1>1, <1>2, ClosedTyped DEF TypeOK
  <2> HIDE DEF closed
  <2> QED
    BY <1>1, <2>1 DEF Pending
<1>4. /\ runs'[n].status = "completed"
      /\ runs'[n].awaiting = runs[n].awaiting
      /\ runs'[n].document = IF runs[n].document = "none" THEN "none" ELSE "final"
      /\ \A m \in Runs \ {n} : runs'[m] = runs[m]
  <2>1. /\ moved[n].status = "completed" /\ moved[n].awaiting = runs[n].awaiting
        /\ moved[n].document = runs[n].document /\ moved[n] \in Run
        /\ moved \in [Runs -> Run] /\ \A m \in Runs \ {n} : moved[m] = runs[m]
    BY RunAtTyped, RunAtFields
  <2> HIDE DEF moved
  <2>2. /\ Packaged(moved[n]).status = "completed"
        /\ Packaged(moved[n]).awaiting = moved[n].awaiting
        /\ Packaged(moved[n]).document = IF moved[n].document = "none" THEN "none" ELSE "final"
    BY <2>1 DEF Packaged, Run
  <2> QED
    BY <1>1, <2>1, <2>2
<1> HIDE DEF s, closed, moved
<1>5. StepsFitTheRun(n)'
  BY <1>2, <1>3, <1>4 DEF StepsFitTheRun, Existing, Step
<1>6. RejectionIsAlone(n)'
  BY <1>1, <1>2 DEF RejectionIsAlone
<1>7. AwaitingIsNotBegun(n)'
  <2>1. CASE s = "review"
    BY <1>1, <1>4, <2>1 DEF ApprovesRoute, AwaitingIsNotBegun
  <2>2. CASE s # "review"
    <3>1. s = runs[n].current /\ steps[n][s].status = "active"
      BY <1>0, <1>1, ClosedFacts DEF s, closed, WasDecided
    <3> QED
      BY <1>1, <1>2, <1>4, <2>2, <3>1, StepNames DEF RunInv, AwaitingIsNotBegun
  <2> QED
    BY <2>1, <2>2
<1>8. DocumentIsSigned(n)'
  <2>1. signed \subseteq Tasks /\ signed \subseteq signed'
    BY <1>1, SignedFacts DEF TypeOK
  <2>2. ASSUME runs[n].document # "none", NEW x \in Steps \ {"review"},
               steps'[n][x].status = "approved"
        PROVE  \E u \in signed' : tasks'[u].run = n /\ tasks'[u].step = x
    <3>1. CASE x = s
      <4>1. t \in signed'
        BY <1>1, <2>2, SignedFacts
      <4> QED
        BY <1>2, <3>1, <4>1 DEF s
    <3>2. CASE x # s
      <4>1. PICK u \in signed : tasks[u].run = n /\ tasks[u].step = x
        BY <1>2, <2>2, <3>2 DEF RunInv, DocumentIsSigned
      <4> QED
        BY <1>2, <2>1, <4>1
    <3> QED
      BY <3>1, <3>2
  <2>3. /\ steps'[n]["prorector"].status # "rejected"
        /\ steps[n]["prorector"].status # "absent" =>
              steps'[n]["prorector"].status # "absent"
    BY <1>2, StepNames DEF RunInv, DocumentIsSigned
  <2>4. runs[n].document # "none" => steps[n]["prorector"].status # "absent"
    BY <1>2 DEF RunInv, DocumentIsSigned
  <2> QED
    BY <1>4, <2>2, <2>3, <2>4 DEF DocumentIsSigned
<1>9. signed \subseteq signed' /\ signed' \subseteq signed \cup {t}
  BY <1>1, SignedFacts
<1> QED
  BY <1>0, <1>1, <1>4, <1>5, <1>6, <1>7, <1>8, <1>9, ClosesConsistent DEF s, closed

\* What a rejection and a revision request leave of the conclusion.
LEMMA ClosedUnsigned ==
    ASSUME TypeOK, NEW n \in Runs, NEW s \in Steps \ {"prorector"},
           DocumentIsSigned(n), runs[n].document # "final",
           runs'[n].document = runs[n].document, signed' = signed,
           steps'[n][s].status \notin {"approved", "absent"},
           \A x \in Steps \ {s} : steps'[n][x] = steps[n][x],
           \A u \in Tasks :
              tasks'[u].run = tasks[u].run /\ tasks'[u].step = tasks[u].step
    PROVE  DocumentIsSigned(n)'
<1>1. signed \subseteq Tasks
  BY DEF TypeOK
<1>2. steps'[n]["prorector"] = steps[n]["prorector"]
  BY StepNames
<1>3. \A x \in Steps : steps'[n][x].status = "approved" =>
         steps[n][x].status = "approved"
  OBVIOUS
<1> QED
  BY <1>1, <1>2, <1>3 DEF DocumentIsSigned

\* Nor do they begin the route of a run that waits for its approval.
LEMMA ClosedAwaiting ==
    ASSUME NEW n \in Runs, NEW s \in Steps, AwaitingIsNotBegun(n),
           runs'[n].awaiting = runs[n].awaiting, appeal' = appeal,
           steps[n][s].status = "active",
           \A x \in Steps \ {s} : steps'[n][x] = steps[n][x]
    PROVE  AwaitingIsNotBegun(n)'
<1>1. CASE s = "review"
  BY <1>1 DEF AwaitingIsNotBegun
<1>2. CASE s # "review"
  BY <1>2, StepNames DEF AwaitingIsNotBegun
<1> QED
  BY <1>1, <1>2

\* A rejection of a task that is still open.
LEMMA RejectConsistent ==
    ASSUME TypeOK, TypeOK', RouteInv, NEW q \in Slots, NEW t \in Tasks,
           t = request[q].task, NEW n \in Runs, n = tasks[t].run,
           Actionable(t), Reject(q)
    PROVE  RouteInv'
<1> DEFINE s == tasks[t].step
           moved == RunAt(n, "rejected", "none")
<1>1. /\ s # "prorector"
      /\ steps' = [steps EXCEPT ![n] = StepClosed(n, s, "rejected")]
      /\ tasks' = TaskClosed(t, "rejected")
      /\ runs' = moved
      /\ UNCHANGED <<made, signed, appeal>>
  BY DEF Reject
<1>2. /\ steps'[n] = StepClosed(n, tasks[t].step, "rejected")
      /\ \A m \in Runs \ {n} : steps'[m] = steps[m]
  BY <1>1 DEF TypeOK
<1>3. /\ s \in Steps /\ RunInv(n)
      /\ steps[n][s].status = "active" /\ runs[n].document # "final"
      /\ steps'[n][s].status = "rejected" /\ tasks'[t].status = "rejected"
      /\ \A x \in Steps \ {s} :
            /\ steps'[n][x] = steps[n][x]
            /\ steps'[n][x].status \notin {"active", "revision_requested"}
            /\ steps'[n][x].status = "rejected" => Overturned(n, x)'
      /\ \A u \in Tasks :
            tasks'[u].run = tasks[u].run /\ tasks'[u].step = tasks[u].step
      /\ \A u \in Tasks \ {t} : tasks[u].status = "rejected" /\ tasks[u].run = n =>
            appeal.status = "approved"
      /\ \A u \in Tasks \ {t} : tasks'[u] = tasks[u]
  <2>1. /\ steps'[n] = StepClosed(n, tasks[t].step, "rejected")
        /\ tasks' = TaskClosed(t, "rejected") /\ appeal' = appeal
    BY <1>1, <1>2
  <2>2. s \in Steps /\ RunInv(n) /\ TasksAreMade /\ WasDecided(t, n, s, "rejected")
    BY <2>1, ClosedFacts
  <2> QED
    BY <2>2 DEF WasDecided
<1>4. /\ runs'[n].status = "rejected"
      /\ runs'[n].awaiting = runs[n].awaiting
      /\ runs'[n].document = runs[n].document
      /\ \A m \in Runs \ {n} : runs'[m] = runs[m]
  BY <1>1, RunAtTyped, RunAtFields
<1> HIDE DEF moved
<1>5. StepsFitTheRun(n)'
  BY <1>3, <1>4 DEF StepsFitTheRun
<1>6. RejectionIsAlone(n)'
  <2> SUFFICES ASSUME appeal'.status # "approved", NEW u \in Tasks,
                      tasks'[u].status = "rejected", tasks'[u].run = n
               PROVE  \A x \in Steps :
                         steps'[n][x].status = "rejected" <=> x = tasks'[u].step
    BY <1>4 DEF RejectionIsAlone
  <2>1. \A x \in Steps \ {s} : steps'[n][x].status # "rejected"
    BY <1>3 DEF Overturned
  <2>2. u = t
    <3>1. appeal.status # "approved"
      BY <1>1
    <3> QED
      BY <1>3, <3>1
  <2>3. tasks'[t].step = s
    BY <1>3
  <2> QED
    BY <1>3, <2>1, <2>2, <2>3
<1>7. AwaitingIsNotBegun(n)' /\ DocumentIsSigned(n)'
  <2>1. AwaitingIsNotBegun(n) /\ DocumentIsSigned(n)
    BY <1>3 DEF RunInv
  <2>2. AwaitingIsNotBegun(n)'
    BY <1>1, <1>3, <1>4, <2>1, ClosedAwaiting
  <2>3. DocumentIsSigned(n)'
    <3>1. /\ s \in Steps \ {"prorector"} /\ runs[n].document # "final"
          /\ runs'[n].document = runs[n].document /\ signed' = signed
          /\ steps'[n][s].status \notin {"approved", "absent"}
      BY <1>1, <1>3, <1>4
    <3>2. \A x \in Steps \ {s} : steps'[n][x] = steps[n][x]
      BY <1>3
    <3>3. \A u \in Tasks :
             tasks'[u].run = tasks[u].run /\ tasks'[u].step = tasks[u].step
      BY <1>3
    <3> HIDE DEF s
    <3> QED
      BY <2>1, <3>1, <3>2, <3>3, ClosedUnsigned
  <2> QED
    BY <2>2, <2>3
<1> QED
  BY <1>1, <1>2, <1>4, <1>5, <1>6, <1>7, ClosesConsistent

\* A revision request about a task that is still open.
LEMMA RevisionConsistent ==
    ASSUME TypeOK, TypeOK', RouteInv, NEW q \in Slots, NEW t \in Tasks,
           t = request[q].task, NEW n \in Runs, n = tasks[t].run,
           Actionable(t), RequestRevision(q)
    PROVE  RouteInv'
<1> DEFINE s == tasks[t].step
           moved == RunAt(n, "paused", s)
<1>1. /\ s # "prorector"
      /\ steps' = [steps EXCEPT ![n] = StepClosed(n, s, "revision_requested")]
      /\ tasks' = TaskClosed(t, "revision_requested")
      /\ runs' = moved
      /\ UNCHANGED <<made, signed, appeal>>
  BY DEF RequestRevision
<1>2. /\ steps'[n] = StepClosed(n, tasks[t].step, "revision_requested")
      /\ \A m \in Runs \ {n} : steps'[m] = steps[m]
  BY <1>1 DEF TypeOK
<1>3. /\ s \in Steps /\ RunInv(n)
      /\ steps[n][s].status = "active" /\ runs[n].document # "final"
      /\ steps'[n][s].status = "revision_requested"
      /\ tasks'[t].status = "revision_requested"
      /\ \A x \in Steps \ {s} :
            /\ steps'[n][x] = steps[n][x]
            /\ steps'[n][x].status \notin {"active", "revision_requested"}
            /\ steps'[n][x].status = "rejected" => Overturned(n, x)'
      /\ \A u \in Tasks :
            tasks'[u].run = tasks[u].run /\ tasks'[u].step = tasks[u].step
      /\ \A u \in Tasks \ {t} : tasks[u].status = "rejected" /\ tasks[u].run = n =>
            appeal.status = "approved"
      /\ \A u \in Tasks \ {t} : tasks'[u] = tasks[u]
  <2>1. /\ steps'[n] = StepClosed(n, tasks[t].step, "revision_requested")
        /\ tasks' = TaskClosed(t, "revision_requested") /\ appeal' = appeal
    BY <1>1, <1>2
  <2>2. s \in Steps /\ RunInv(n) /\ TasksAreMade /\ WasDecided(t, n, s, "revision_requested")
    BY <2>1, ClosedFacts
  <2> QED
    BY <2>2 DEF WasDecided
<1>4. /\ runs'[n].status = "paused" /\ runs'[n].current = s
      /\ runs'[n].awaiting = runs[n].awaiting
      /\ runs'[n].document = runs[n].document
      /\ \A m \in Runs \ {n} : runs'[m] = runs[m]
  <2>1. s \in Steps \cup {"none"} /\ runs' = moved
    BY <1>1, <1>3
  <2> HIDE DEF s
  <2> QED
    BY <2>1, RunAtTyped, RunAtFields
<1> HIDE DEF moved
<1>5. StepsFitTheRun(n)'
  BY <1>3, <1>4 DEF StepsFitTheRun
<1>6. RejectionIsAlone(n)'
  <2>1. appeal' = appeal
    BY <1>1
  <2>2. ASSUME NEW u \in Tasks, tasks'[u].status = "rejected", tasks'[u].run = n
        PROVE  appeal.status = "approved"
    <3>1. u # t
      BY <1>3, <2>2
    <3> QED
      BY <1>3, <2>2, <3>1
  <2> QED
    BY <2>1, <2>2 DEF RejectionIsAlone
<1>7. AwaitingIsNotBegun(n)' /\ DocumentIsSigned(n)'
  <2>1. AwaitingIsNotBegun(n) /\ DocumentIsSigned(n)
    BY <1>3 DEF RunInv
  <2>2. AwaitingIsNotBegun(n)'
    BY <1>1, <1>3, <1>4, <2>1, ClosedAwaiting
  <2>3. DocumentIsSigned(n)'
    <3>1. /\ s \in Steps \ {"prorector"} /\ runs[n].document # "final"
          /\ runs'[n].document = runs[n].document /\ signed' = signed
          /\ steps'[n][s].status \notin {"approved", "absent"}
      BY <1>1, <1>3, <1>4
    <3>2. \A x \in Steps \ {s} : steps'[n][x] = steps[n][x]
      BY <1>3
    <3>3. \A u \in Tasks :
             tasks'[u].run = tasks[u].run /\ tasks'[u].step = tasks[u].step
      BY <1>3
    <3> HIDE DEF s
    <3> QED
      BY <2>1, <3>1, <3>2, <3>3, ClosedUnsigned
  <2> QED
    BY <2>2, <2>3
<1> QED
  BY <1>1, <1>2, <1>4, <1>5, <1>6, <1>7, ClosesConsistent

\* A run that goes on with a step keeps its signatures.
LEMMA GoesOnSigned ==
    ASSUME TypeOK, RouteInv, NEW n \in Runs, NEW s \in Steps,
           NEW m \in Runs, NEW x \in Steps, made < MaxTasks,
           runs[n].status # "completed",
           runs'[n].document = runs[n].document, signed' = signed,
           steps'[n] = Activated(steps[n], s),
           tasks' = TaskAdded(tasks, m, x)
    PROVE  DocumentIsSigned(n)'
<1>1. DocumentIsSigned(n) /\ TasksAreMade
  BY DEF RouteInv, RunInv
<1>2. /\ steps'[n][s].status = "active"
      /\ \A y \in Steps \ {s} : steps'[n][y] = steps[n][y]
  BY ActivatedSteps DEF TypeOK
<1>3. \A u \in signed : u \in Tasks /\ tasks'[u] = tasks[u]
  <2>1. tasks \in [Tasks -> Task] /\ signed \subseteq Tasks
    BY DEF TypeOK
  <2>2. made + 1 \in Tasks /\ tasks[made + 1].status = "absent"
    BY <1>1, <2>1, TaskAddedOpen DEF TypeOK, TasksAreMade
  <2>3. \A u \in Tasks \ {made + 1} : tasks'[u] = tasks[u]
    BY <2>1 DEF TaskAdded
  <2> QED
    BY <1>1, <2>1, <2>2, <2>3 DEF TasksAreMade
<1>4. /\ steps'[n]["prorector"].status # "rejected"
      /\ runs[n].document # "none" => steps'[n]["prorector"].status # "absent"
  BY <1>1, <1>2, StepNames DEF DocumentIsSigned
<1>5. \A y \in Steps : steps'[n][y].status = "approved" =>
         steps[n][y].status = "approved"
  BY <1>2
<1> QED
  BY <1>1, <1>3, <1>4, <1>5 DEF DocumentIsSigned

\* An accepted appeal, if the appeal is still pending.
LEMMA ApproveAppealConsistent ==
    ASSUME TypeOK, TypeOK', RouteInv, NEW q \in Slots,
           NEW n \in Runs, n = tasks[appeal.task].run,
           NEW s \in Steps, s = tasks[appeal.task].step,
           appeal.status = "pending", ApproveAppeal(q)
    PROVE  RouteInv'
<1>1. /\ appeal' = [appeal EXCEPT !.status = "approved"] /\ signed' = signed
      /\ \/ \E next \in Steps :
               /\ NextPending(steps[n], next)
               /\ made < MaxTasks
               /\ steps' = [steps EXCEPT ![n] = Activated(steps[n], next)]
               /\ runs' = RunAt(n, "active", next)
               /\ tasks' = TaskAdded(tasks, n, next)
               /\ made' = made + 1
         \/ /\ Pending(steps[n]) = {} /\ runs[n].awaiting
            /\ made < MaxTasks
            /\ steps' = [steps EXCEPT ![n] = Activated(steps[n], s)]
            /\ runs' = RunAt(n, "active", s)
            /\ tasks' = TaskAdded(tasks, n, s)
            /\ made' = made + 1
         \/ /\ Pending(steps[n]) = {} /\ ~runs[n].awaiting
            /\ runs' = RunAt(n, "completed", "none")
            /\ UNCHANGED <<steps, tasks, made>>
  BY DEF ApproveAppeal
<1>2. appeal'.status = "approved" /\ appeal'.task = appeal.task /\ appeal.task \in Tasks
  BY <1>1 DEF TypeOK
<1>3. RunInv(n) /\ TasksAreMade /\ tasks[appeal.task].status = "rejected"
  BY DEF RouteInv, TasksAreMade
<1>4. /\ runs[n].status = "rejected"
      /\ \A x \in Steps : steps[n][x].status = "rejected" <=> x = s
  BY <1>2, <1>3 DEF RunInv, RejectionIsAlone
<1>5. /\ \A x \in Steps : steps[n][x].status \notin {"active", "revision_requested"}
      /\ \A u \in Tasks : ~(tasks[u].status = "active" /\ tasks[u].run = n)
      /\ runs[n].document # "final"
  BY <1>3, <1>4 DEF RunInv, StepsFitTheRun, RunHasItsTask, DocumentIsSigned
<1>6. runs[n].awaiting =>
         /\ s = "review"
         /\ \A x \in Steps \ {"review"} : steps[n][x].status \in {"absent", "pending"}
  BY <1>3, <1>4, StepNames DEF RunInv, AwaitingIsNotBegun
<1>7. ASSUME NEW next \in Steps, made < MaxTasks,
             steps' = [steps EXCEPT ![n] = Activated(steps[n], next)],
             runs' = RunAt(n, "active", next),
             tasks' = TaskAdded(tasks, n, next), made' = made + 1,
             steps[n][next].status = "pending" \/ next = s
      PROVE  RouteInv'
  <2>1. /\ runs'[n].status = "active" /\ runs'[n].current = next
        /\ runs'[n].awaiting = runs[n].awaiting
        /\ runs'[n].document = runs[n].document
        /\ \A m \in Runs \ {n} : runs'[m] = runs[m]
    BY <1>7, RunAtTyped, RunAtFields
  <2>2. /\ steps'[n] = Activated(steps[n], next)
        /\ \A m \in Runs \ {n} : steps'[m] = steps[m]
    BY <1>7 DEF TypeOK
  <2>3. steps[n] \in [Steps -> Step] /\ tasks \in [Tasks -> Task]
    BY DEF TypeOK
  <2>4. \A x \in Steps \ {next} : steps'[n][x] = steps[n][x]
    BY <2>2, <2>3, ActivatedSteps
  <2>5. AwaitingIsNotBegun(n)'
    <3>1. CASE next = s
      BY <1>6, <2>1, <2>4, <3>1 DEF AwaitingIsNotBegun
    <3>2. CASE next # s
      BY <1>2, <1>4, <1>6, <2>1, <2>4, <3>2 DEF AwaitingIsNotBegun
    <3> QED
      BY <3>1, <3>2
  <2>6. DocumentIsSigned(n)'
    BY <1>1, <1>4, <1>7, <2>1, <2>2, GoesOnSigned
  <2>7. \A x \in Steps \ {next} :
           /\ steps[n][x].status \notin {"active", "revision_requested"}
           /\ steps[n][x].status = "rejected" => x = tasks[appeal.task].step
    BY <1>4, <1>5
  <2>8. /\ signed' = signed /\ appeal'.status = "approved"
        /\ appeal.status \notin {"none", "approved"}
        /\ appeal'.task = appeal.task /\ tasks[appeal.task].run = n
    BY <1>1, <1>2
  <2>9. /\ made < MaxTasks /\ made' = made + 1
        /\ tasks' = TaskAdded(tasks, n, next)
        /\ \A u \in Tasks : ~(tasks[u].status = "active" /\ tasks[u].run = n)
    BY <1>5, <1>7
  <2>10. GoesOn(n, next, steps[n], tasks)
    BY <2>1, <2>2, <2>7, <2>8, <2>9 DEF GoesOn
  <2> QED
    BY <2>3, <2>5, <2>6, <2>10, GoesOnConsistent
<1>8. CASE /\ Pending(steps[n]) = {} /\ ~runs[n].awaiting
           /\ runs' = RunAt(n, "completed", "none")
           /\ UNCHANGED <<steps, tasks, made>>
  <2>1. /\ runs'[n].status = "completed"
        /\ runs'[n].awaiting = runs[n].awaiting
        /\ runs'[n].document = runs[n].document
        /\ \A m \in Runs \ {n} : runs'[m] = runs[m]
    BY <1>8, RunAtTyped, RunAtFields
  <2>2. \A x \in Steps : Overturned(n, x)' <=> x = s
    BY <1>2, <1>8 DEF Overturned
  <2>3. \A x \in Steps : steps[n][x].status # "pending" /\ steps[n][x] \in Step
    BY <1>8 DEF Pending, TypeOK
  <2>4. StepsFitTheRun(n)'
    BY <1>4, <1>5, <1>8, <2>1, <2>2, <2>3 DEF StepsFitTheRun, Existing, Step
  <2>5. RunHasItsTask(n)' /\ RejectionIsAlone(n)' /\ AwaitingIsNotBegun(n)'
    BY <1>2, <1>5, <1>8, <2>1 DEF RunHasItsTask, RejectionIsAlone, AwaitingIsNotBegun
  <2>6. DocumentIsSigned(n)'
    BY <1>1, <1>3, <1>5, <1>8, <2>1 DEF RunInv, DocumentIsSigned
  <2>7. RunInv(n)'
    BY <2>4, <2>5, <2>6 DEF RunInv
  <2>8. TasksAreMade'
    BY <1>1, <1>2, <1>3, <1>8 DEF TasksAreMade
  <2>9. ASSUME NEW m \in Runs \ {n}
        PROVE  RunInv(m)'
    <3>1. RunInv(m) /\ steps'[m] = steps[m] /\ signed \subseteq signed'
      BY <1>1, <1>8 DEF RouteInv
    <3> QED
      BY <1>2, <1>3, <1>8, <2>1, <3>1, OtherRunsStay
  <2> QED
    BY <2>7, <2>8, <2>9 DEF RouteInv
<1> QED
  BY <1>1, <1>7, <1>8 DEF NextPending, Pending

\* What the invariant says of a run that was not started yet.
LEMMA NewRunFacts ==
    ASSUME TypeOK, RouteInv, NEW n \in Runs, runs[n].status = "absent"
    PROVE  /\ \A s \in Steps : steps[n][s].status = "absent"
           /\ \A u \in Tasks : ~(tasks[u].status = "active" /\ tasks[u].run = n)
           /\ \A u \in Tasks : tasks[u].status = "rejected" /\ tasks[u].run = n =>
                 appeal.status = "approved"
<1>1. RunInv(n)
  BY DEF RouteInv
<1>2. Existing(steps[n]) = {}
  BY <1>1 DEF RunInv, StepsFitTheRun
<1> QED
  BY <1>1, <1>2 DEF RunInv, RunHasItsTask, RejectionIsAlone, Existing

\* A run that starts, with st the steps it is given and s the first.
LEMMA StartConsistent ==
    ASSUME TypeOK, TypeOK', RouteInv, made < MaxTasks, NEW n \in Runs,
           runs[n].status = "absent", NEW s \in Steps, NEW st \in [Steps -> Step],
           \A x \in Steps : st[x].status = "absent"
              \/ (st[x].status = "pending" /\ (x = s \/ ~runs'[n].awaiting)),
           runs'[n].awaiting => s = "review",
           runs'[n].status = "active", runs'[n].current = s,
           runs'[n].document = "none",
           steps'[n] = Activated(st, s),
           \A m \in Runs \ {n} : runs'[m] = runs[m] /\ steps'[m] = steps[m],
           tasks' = TaskAdded(tasks, n, s), made' = made + 1,
           signed' = signed, appeal' = appeal
    PROVE  RouteInv'
<1>1. /\ \A u \in Tasks : ~(tasks[u].status = "active" /\ tasks[u].run = n)
      /\ \A u \in Tasks : tasks[u].status = "rejected" /\ tasks[u].run = n =>
            appeal'.status = "approved"
  BY NewRunFacts
<1>2. /\ steps'[n][s].status = "active"
      /\ \A x \in Steps \ {s} : steps'[n][x] = st[x]
  BY ActivatedSteps
<1>3. AwaitingIsNotBegun(n)'
  BY <1>2 DEF AwaitingIsNotBegun
<1>4. DocumentIsSigned(n)'
  BY <1>2, StepNames DEF DocumentIsSigned
<1>5. \A x \in Steps \ {s} :
         st[x].status \notin {"active", "revision_requested", "rejected"}
  OBVIOUS
<1>6. tasks \in [Tasks -> Task]
  BY DEF TypeOK
<1>7. GoesOn(n, s, st, tasks)
  BY <1>1, <1>5 DEF GoesOn
<1> QED
  BY <1>3, <1>4, <1>6, <1>7, GoesOnConsistent

LEMMA SubmitConsistent ==
    ASSUME TypeOK, TypeOK', RouteInv, NEW q \in Slots, CommitSubmit(q)
    PROVE  RouteInv'
<1>1. PICK n \in Runs, r \in Routes :
         /\ Earliest(n, NewRuns)
         /\ runs' = [runs EXCEPT ![n] =
                        [status |-> "active", awaiting |-> TRUE, route |-> r,
                         current |-> "review", document |-> "none"]]
         /\ steps' = [steps EXCEPT ![n]["review"] =
                        [status |-> "active", order |-> 1]]
         /\ tasks' = TaskAdded(tasks, n, "review")
  BY DEF CommitSubmit
<1>2. runs[n].status = "absent"
  BY <1>1 DEF Earliest, NewRuns
<1>3. made < MaxTasks /\ made' = made + 1 /\ UNCHANGED <<signed, appeal>>
  BY DEF CommitSubmit
<1> DEFINE st == [steps[n] EXCEPT !["review"] = [status |-> "pending", order |-> 1]]
<1>4. "review" \in Steps /\ steps[n] \in [Steps -> Step]
  BY StepNames DEF TypeOK
<1>5. /\ st \in [Steps -> Step] /\ st["review"] = [status |-> "pending", order |-> 1]
      /\ \A x \in Steps \ {"review"} : st[x] = steps[n][x]
  BY <1>4 DEF Step
<1>6. [st["review"] EXCEPT !.status = "active"] = [status |-> "active", order |-> 1]
  BY <1>5
<1>7. steps'[n] = [steps[n] EXCEPT !["review"] = [status |-> "active", order |-> 1]]
  BY <1>1 DEF TypeOK
<1>8. steps'[n] = Activated(st, "review")
  <2> HIDE DEF st
  <2>1. Activated(st, "review") = [st EXCEPT !["review"] = [status |-> "active", order |-> 1]]
    BY <1>6 DEF Activated
  <2> QED
    BY <1>4, <1>5, <1>7, <2>1
<1> HIDE DEF st
<1>9. /\ runs'[n].status = "active" /\ runs'[n].current = "review"
      /\ runs'[n].document = "none"
      /\ \A m \in Runs \ {n} : runs'[m] = runs[m] /\ steps'[m] = steps[m]
  BY <1>1 DEF TypeOK
<1>10. \A x \in Steps : st[x].status = "absent" \/ (st[x].status = "pending" /\ x = "review")
  BY <1>2, <1>5, NewRunFacts
<1> QED
  BY <1>1, <1>2, <1>3, <1>4, <1>5, <1>8, <1>9, <1>10, StartConsistent

LEMMA StartRunConsistent ==
    ASSUME TypeOK, TypeOK', RouteInv, made < MaxTasks, made' = made + 1,
           UNCHANGED <<signed, appeal>>, NEW r \in Routes, StartRun(r)
    PROVE  RouteInv'
<1> DEFINE first == FirstTemplate(r)
<1>1. PICK n \in Runs :
         /\ Earliest(n, NewRuns)
         /\ runs' = [runs EXCEPT ![n] =
                        [status |-> "active", awaiting |-> FALSE, route |-> r,
                         current |-> first, document |-> "none"]]
         /\ steps' = [steps EXCEPT ![n] =
                        Activated(RouteBuilt(steps[n], r, 1), first)]
         /\ tasks' = TaskAdded(tasks, n, first)
  BY DEF StartRun
<1> DEFINE st == RouteBuilt(steps[n], r, 1)
<1>2. first \in Steps
  BY TemplatesOfRoute, StepNames
<1>3. runs[n].status = "absent"
  BY <1>1 DEF Earliest, NewRuns
<1>4. st \in [Steps -> Step]
  BY BuiltTyped DEF TypeOK
<1>5. \A x \in Steps : st[x].status \in {"absent", "pending"}
  BY <1>3, NewRunFacts DEF RouteBuilt
<1>6. /\ runs'[n].status = "active" /\ runs'[n].current = first
      /\ ~runs'[n].awaiting /\ runs'[n].document = "none"
      /\ steps'[n] = Activated(st, first)
      /\ \A m \in Runs \ {n} : runs'[m] = runs[m] /\ steps'[m] = steps[m]
  BY <1>1 DEF TypeOK
<1> HIDE DEF st, first
<1> QED
  BY <1>1, <1>2, <1>3, <1>4, <1>5, <1>6, StartConsistent

LEMMA ContinueRunConsistent ==
    ASSUME TypeOK, TypeOK', RouteInv, made < MaxTasks, made' = made + 1,
           UNCHANGED <<signed, appeal>>, NEW n \in Runs,
           runs[n].status = "paused", ContinueRun(n)
    PROVE  RouteInv'
<1> DEFINE s == runs[n].current
           moved == RunAt(n, "active", s)
<1>1. /\ runs' = [moved EXCEPT ![n] = [moved[n] EXCEPT !.route = sub.route]]
      /\ steps' = [steps EXCEPT ![n] = Activated(steps[n], s)]
      /\ tasks' = TaskAdded(tasks, n, s)
  BY DEF ContinueRun
<1>2. s \in Steps
  BY DEF TypeOK, PausedRuns, Run
<1>3. /\ runs'[n].status = "active" /\ runs'[n].current = s
      /\ runs'[n].awaiting = runs[n].awaiting
      /\ runs'[n].document = runs[n].document
      /\ \A m \in Runs \ {n} : runs'[m] = runs[m]
  <2>1. /\ moved \in [Runs -> Run]
        /\ moved[n].status = "active" /\ moved[n].current = s
        /\ moved[n].awaiting = runs[n].awaiting
        /\ moved[n].document = runs[n].document
        /\ \A m \in Runs \ {n} : moved[m] = runs[m]
    BY <1>2, RunAtTyped, RunAtFields
  <2> DEFINE continued == [moved[n] EXCEPT !.route = sub.route]
  <2>2. /\ continued.status = moved[n].status
        /\ continued.current = moved[n].current
        /\ continued.awaiting = moved[n].awaiting
        /\ continued.document = moved[n].document
    BY <2>1 DEF Run
  <2>3. runs' = [moved EXCEPT ![n] = continued]
    BY <1>1
  <2> HIDE DEF continued, moved
  <2> QED
    BY <2>1, <2>2, <2>3
<1> HIDE DEF s, moved
<1>4. /\ steps'[n] = Activated(steps[n], s)
      /\ \A m \in Runs \ {n} : steps'[m] = steps[m]
      /\ steps[n] \in [Steps -> Step] /\ tasks \in [Tasks -> Task]
  BY <1>1 DEF TypeOK
<1>5. RunInv(n)
  BY DEF RouteInv
<1>6. /\ steps[n][s].status = "revision_requested"
      /\ \A x \in Steps \ {s} :
            /\ steps[n][x].status \notin {"active", "revision_requested"}
            /\ steps[n][x].status = "rejected" => Overturned(n, x)
      /\ \A u \in Tasks : ~(tasks[u].status = "active" /\ tasks[u].run = n)
      /\ \A u \in Tasks : tasks[u].status = "rejected" /\ tasks[u].run = n =>
            appeal'.status = "approved"
  BY <1>5 DEF RunInv, StepsFitTheRun, RunHasItsTask, RejectionIsAlone, s
<1>7. \A x \in Steps \ {s} : steps'[n][x] = steps[n][x]
  BY <1>2, <1>4, ActivatedSteps
<1>8. AwaitingIsNotBegun(n)'
  <2>1. AwaitingIsNotBegun(n)
    BY <1>5 DEF RunInv
  <2> QED
    BY <1>3, <1>6, <1>7, <2>1, StepNames DEF AwaitingIsNotBegun
<1>9. DocumentIsSigned(n)'
  BY <1>1, <1>2, <1>3, <1>4, GoesOnSigned
<1>10. GoesOn(n, s, steps[n], tasks)
  BY <1>1, <1>3, <1>4, <1>6 DEF GoesOn
<1> QED
  BY <1>2, <1>4, <1>8, <1>9, <1>10, GoesOnConsistent

LEMMA InsertConsistent ==
    ASSUME TypeOK, TypeOK', RouteInv,
           NEW n \in Runs, NEW m \in Manuals, InsertManualStep(n, m)
    PROVE  RouteInv'
<1>1. /\ runs[n].status \in {"active", "paused"} /\ steps[n][m].status = "absent"
      /\ UNCHANGED <<runs, tasks, made, signed, appeal>>
  BY DEF InsertManualStep
<1>2. m \in Steps /\ m \notin {"review", "prorector"}
  BY StepNames, ApprovalRouteAssumption
<1>3. /\ steps'[n][m].status = "pending"
      /\ \A x \in Steps \ {m} : steps'[n][x].status = steps[n][x].status
      /\ \A k \in Runs \ {n} : steps'[k] = steps[k]
  <2>1. PICK order \in {1} \cup {steps[n][s].order + 1 : s \in Existing(steps[n])} :
           steps' = [steps EXCEPT ![n] =
                        [s \in Steps |->
                            IF s = m
                            THEN [status |-> "pending", order |-> order]
                            ELSE IF s \in Existing(steps[n])
                                    /\ steps[n][s].order >= order
                            THEN [steps[n][s] EXCEPT !.order = @ + 1]
                            ELSE steps[n][s]]]
    BY DEF InsertManualStep
  <2>2. ASSUME NEW x \in Steps
        PROVE  [steps[n][x] EXCEPT !.order = @ + 1].status = steps[n][x].status
    <3>1. steps[n][x] \in Step
      BY DEF TypeOK
    <3> QED
      BY <3>1 DEF Step
  <2> QED
    BY <1>2, <2>1, <2>2 DEF TypeOK
<1>4. RunInv(n)
  BY DEF RouteInv
<1>5. \A t \in Tasks : tasks[t].run \in Runs /\ tasks[t].step \in Steps
  BY DEF TypeOK, Task
<1>6. RunHasItsTask(n)'
  <2>1. ASSUME NEW t \in Tasks, Actionable(t)
        PROVE  Actionable(t)'
    BY <1>1, <1>3, <1>5, <2>1 DEF Actionable
  <2>2. RunHasItsTask(n)
    BY <1>4 DEF RunInv
  <2> QED
    BY <1>1, <2>1, <2>2 DEF RunHasItsTask
<1>7. StepsFitTheRun(n)'
  <2>1. runs[n].current \in Steps \/ runs[n].status # "paused"
    BY DEF TypeOK, PausedRuns, Run
  <2>2. \A x \in Steps : Overturned(n, x)' <=> Overturned(n, x)
    BY <1>1 DEF Overturned
  <2> QED
    BY <1>1, <1>2, <1>3, <1>4, <2>1, <2>2 DEF RunInv, StepsFitTheRun
<1>8. RejectionIsAlone(n)'
  <2>1. \A t \in Tasks : tasks[t].status = "rejected" /\ tasks[t].run = n =>
           appeal.status = "approved"
    BY <1>1, <1>4 DEF RunInv, RejectionIsAlone
  <2> QED
    BY <1>1, <2>1 DEF RejectionIsAlone
<1>9. AwaitingIsNotBegun(n)'
  BY <1>1, <1>2, <1>3, <1>4, StepNames DEF RunInv, AwaitingIsNotBegun
<1>10. DocumentIsSigned(n)'
  BY <1>1, <1>2, <1>3, <1>4, StepNames DEF RunInv, DocumentIsSigned
<1>11. RunInv(n)'
  BY <1>6, <1>7, <1>8, <1>9, <1>10 DEF RunInv
<1>12. TasksAreMade /\ TasksAreMade'
  BY <1>1 DEF RouteInv, TasksAreMade
<1>13. ASSUME NEW k \in Runs \ {n}
       PROVE  RunInv(k)'
  <2>1. RunInv(k)
    BY DEF RouteInv
  <2> QED
    BY <1>1, <1>3, <1>12, <2>1, OtherRunsStay
<1> QED
  BY <1>11, <1>12, <1>13 DEF RouteInv

\* A step that changes neither rows nor, before it is accepted, the appeal.
LEMMA RowsStay ==
    ASSUME TypeOK, TypeOK', RouteInv, UNCHANGED <<runs, steps, tasks, made, signed>>,
           \/ appeal' = appeal
           \/ /\ appeal.status # "approved" /\ appeal'.status # "approved"
              /\ tasks[appeal'.task].status = "rejected"
    PROVE  RouteInv'
<1>1. TasksAreMade /\ TasksAreMade'
  BY DEF RouteInv, TasksAreMade
<1>2. ASSUME NEW n \in Runs
      PROVE  RunInv(n)'
  <2>1. RunInv(n)
    BY DEF RouteInv
  <2>2. appeal.status = "approved" => appeal' = appeal
    OBVIOUS
  <2>3. appeal'.status = "approved" <=> appeal.status = "approved"
    OBVIOUS
  <2>4. \A x \in Steps : Overturned(n, x)' <=> Overturned(n, x)
    BY <2>2, <2>3 DEF Overturned
  <2>5. RunHasItsTask(n)' /\ StepsFitTheRun(n)'
    BY <2>1, <2>4 DEF RunInv, RunHasItsTask, StepsFitTheRun, Actionable, Existing
  <2>6. RejectionIsAlone(n)' /\ AwaitingIsNotBegun(n)' /\ DocumentIsSigned(n)'
    BY <2>1, <2>3 DEF RunInv, RejectionIsAlone, AwaitingIsNotBegun, DocumentIsSigned
  <2> QED
    BY <2>5, <2>6 DEF RunInv
<1> QED
  BY <1>1, <1>2 DEF RouteInv

\* A request that decides on what it read either still finds it so, or fails.
LEMMA RequestsReread ==
    ASSUME TypeOK, NoStaleDecision, NEW q \in Slots,
           request[q].kind # "idle", request' = [request EXCEPT ![q] = NoRequest]
    PROVE  StillHolds(q) \/ RequestFails(q)
<1>1. request'[q] # request[q]
  BY DEF TypeOK, NoRequest, Request
<1> QED
  BY <1>1 DEF NoStaleDecision

LEMMA RouteInvInit == Init => RouteInv
<1> SUFFICES ASSUME Init PROVE RouteInv
  OBVIOUS
<1>1. TypeOK
  BY TypeInit
<1>2. /\ \A n \in Runs : /\ runs[n].status = "absent" /\ runs[n].document = "none"
                         /\ ~runs[n].awaiting
      /\ \A n \in Runs, s \in Steps : steps[n][s].status = "absent"
      /\ \A t \in Tasks : tasks[t].status = "absent"
      /\ signed = {} /\ appeal.status = "none"
  BY DEF Init, NoSteps, AbsentStep
<1>3. TasksAreMade
  BY <1>2 DEF TasksAreMade
<1>4. ASSUME NEW n \in Runs
      PROVE  RunInv(n)
  <2>1. RunHasItsTask(n) /\ RejectionIsAlone(n)
    BY <1>2 DEF RunHasItsTask, RejectionIsAlone
  <2>2. StepsFitTheRun(n)
    BY <1>2 DEF StepsFitTheRun, Existing
  <2>3. AwaitingIsNotBegun(n) /\ DocumentIsSigned(n)
    BY <1>2, StepNames DEF AwaitingIsNotBegun, DocumentIsSigned
  <2> QED
    BY <2>1, <2>2, <2>3 DEF RunInv
<1> QED
  BY <1>3, <1>4 DEF RouteInv

LEMMA RouteInvStep ==
    ASSUME TypeOK, RouteInv, [Next /\ NoStaleDecision]_vars
    PROVE  RouteInv'
<1>1. TypeOK'
  BY TypeStep
<1>2. CASE UNCHANGED vars
  BY <1>1, <1>2, RowsStay DEF vars
<1> SUFFICES ASSUME Next, NoStaleDecision PROVE RouteInv'
  BY <1>2
<1>3. ASSUME \/ UploadVersion \/ RerunChecks \/ ChecksEnd
             \/ \E r \in Routes : SuggestRoute(r)
             \/ \E q \in Slots : OpenSubmit(q) \/ OpenAppeal(q)
                                 \/ OpenAppealDecision(q) \/ RequestFails(q)
             \/ \E q \in Slots, t \in Tasks : OpenDecision(q, t)
      PROVE  RouteInv'
  <2>1. UNCHANGED <<runs, steps, tasks, made, signed, appeal>>
    BY <1>3 DEF UploadVersion, RerunChecks, ChecksEnd, SuggestRoute, OpenSubmit,
                OpenAppeal, OpenAppealDecision, RequestFails, OpenDecision
  <2> QED
    BY <1>1, <2>1, RowsStay
<1>4. ASSUME NEW q \in Slots, Approve(q) \/ Reject(q) \/ RequestRevision(q)
      PROVE  RouteInv'
  <2>1. /\ request[q].kind = "decide"
        /\ request' = [request EXCEPT ![q] = NoRequest]
    BY <1>4 DEF Approve, Reject, RequestRevision
  <2>2. CASE RequestFails(q)
    BY <1>3, <2>2
  <2>3. CASE StillHolds(q)
    <3>1. PICK t \in Tasks : t = request[q].task
      BY DEF TypeOK, Request
    <3>2. PICK n \in Runs : n = tasks[t].run
      BY DEF TypeOK, Task
    <3>3. Actionable(t)
      BY <2>1, <2>3, <3>1 DEF StillHolds
    <3>4. CASE Reject(q) \/ RequestRevision(q)
      BY <1>1, <3>1, <3>2, <3>3, <3>4, RejectConsistent, RevisionConsistent
    <3>5. CASE Approve(q)
      <4>1. \/ \E r \in Routes : ApproveRouteReview(t, r)
            \/ ApproveStep(t) \/ ApproveLastStep(t)
        BY <3>1, <3>5 DEF Approve, TypeOK
      <4> QED
        BY <1>1, <3>2, <3>3, <4>1, RouteReviewConsistent, ApproveStepConsistent,
           ApproveLastStepConsistent
    <3> QED
      BY <1>4, <3>4, <3>5
  <2> QED
    BY <2>1, <2>2, <2>3, RequestsReread
<1>5. ASSUME NEW q \in Slots, NEW r \in Routes, ConfirmRoute(q, r)
      PROVE  RouteInv'
  <2>1. PICK t \in Tasks : Actionable(t) /\ ApproveRouteReview(t, r)
    BY <1>5 DEF ConfirmRoute
  <2>2. PICK n \in Runs : n = tasks[t].run
    BY DEF TypeOK, Task
  <2> QED
    BY <1>1, <2>1, <2>2, RouteReviewConsistent
<1>6. ASSUME NEW q \in Slots, SubmitAppeal(q)
      PROVE  RouteInv'
  <2>1. PICK i \in StillRejected :
           appeal' = [status |-> "pending", task |-> rejections[i]]
    BY <1>6 DEF SubmitAppeal
  <2>2. /\ appeal.status = "none" /\ UNCHANGED <<runs, steps, tasks, made, signed>>
        /\ tasks[appeal'.task].status = "rejected" /\ appeal'.status = "pending"
    BY <1>6, <2>1 DEF SubmitAppeal, StillRejected
  <2> QED
    BY <1>1, <2>2, RowsStay
<1>7. ASSUME NEW q \in Slots, ApproveAppeal(q) \/ RejectAppeal(q)
      PROVE  RouteInv'
  <2>1. /\ request[q].kind = "appeal_decision"
        /\ request' = [request EXCEPT ![q] = NoRequest]
    BY <1>7 DEF ApproveAppeal, RejectAppeal
  <2>2. CASE RequestFails(q)
    BY <1>3, <2>2
  <2>3. CASE StillHolds(q)
    <3>1. appeal.status = "pending" /\ appeal.task \in Tasks
      BY <2>1, <2>3 DEF StillHolds, TypeOK
    <3>2. PICK n \in Runs, s \in Steps :
             n = tasks[appeal.task].run /\ s = tasks[appeal.task].step
      BY <3>1 DEF TypeOK, Task
    <3>3. CASE RejectAppeal(q)
      <4>1. tasks[appeal.task].status = "rejected"
        BY <3>1 DEF RouteInv, TasksAreMade
      <4>2. /\ UNCHANGED <<runs, steps, tasks, made, signed>>
            /\ appeal'.status = "rejected" /\ appeal'.task = appeal.task
        BY <3>3 DEF RejectAppeal, TypeOK
      <4> QED
        BY <1>1, <3>1, <4>1, <4>2, RowsStay
    <3> QED
      BY <1>1, <1>7, <3>1, <3>2, <3>3, ApproveAppealConsistent
  <2> QED
    BY <2>1, <2>2, <2>3, RequestsReread
<1>8. CASE ResumeOrStart
  <2>1. /\ made < MaxTasks /\ made' = made + 1 /\ UNCHANGED <<signed, appeal>>
        /\ sub.route \in Routes
    BY <1>8 DEF ResumeOrStart, TypeOK
  <2>2. \/ StartRun(sub.route)
        \/ \E n \in Runs : runs[n].status = "paused" /\ ContinueRun(n)
    BY <1>8 DEF ResumeOrStart, Latest, PausedRuns
  <2> QED
    BY <1>1, <2>1, <2>2, StartRunConsistent, ContinueRunConsistent
<1> QED
  BY <1>1, <1>3, <1>4, <1>5, <1>6, <1>7, <1>8, SubmitConsistent, InsertConsistent
  DEF Next

\* The rows of the route fit together, if no decision overtakes another one:
\* the invariant the three properties below follow from.
THEOREM RouteIsConsistent == RereadSpec => [](TypeOK /\ RouteInv)
<1>1. Init => TypeOK /\ RouteInv
  BY TypeInit, RouteInvInit
<1>2. TypeOK /\ RouteInv /\ [Next /\ NoStaleDecision]_vars => (TypeOK /\ RouteInv)'
  <2> SUFFICES ASSUME TypeOK, RouteInv, [Next /\ NoStaleDecision]_vars
               PROVE  TypeOK' /\ RouteInv'
    OBVIOUS
  <2>1. TypeOK'
    BY TypeStep
  <2> QED
    BY <2>1, RouteInvStep
<1> QED
  BY <1>1, <1>2, PTL DEF RereadSpec

\* An active run waits for exactly one decision, on its current step: no
\* decision, resumption, appeal or insertion leaves it without a task or with
\* two of them.
THEOREM OneTaskPerRun == RereadSpec => []ActiveRunsHaveOneTask
<1>1. TypeOK /\ RouteInv => ActiveRunsHaveOneTask
  BY DEF RouteInv, RunInv, RunHasItsTask, ActiveRunsHaveOneTask, ActiveRuns
<1> QED
  BY <1>1, RouteIsConsistent, PTL

\* A run is completed only with all its steps approved, but for one whose
\* rejection the accepted appeal was about.
THEOREM CompletedIsApproved == RereadSpec => []CompletedRunsAreApproved
<1>1. TypeOK /\ RouteInv => CompletedRunsAreApproved
  <2> SUFFICES ASSUME RouteInv, NEW n \in Runs, runs[n].status = "completed",
                      NEW s \in Existing(steps[n])
               PROVE  \/ steps[n][s].status = "approved"
                      \/ steps[n][s].status = "rejected" /\ Overturned(n, s)
    BY DEF CompletedRunsAreApproved, Overturned
  <2>1. StepsFitTheRun(n) /\ s \in Steps
    BY DEF RouteInv, RunInv, Existing
  <2> QED
    BY <2>1 DEF StepsFitTheRun
<1> QED
  BY <1>1, RouteIsConsistent, PTL

\* A package is made of the prorector's signature and of one for each approved
\* step after the review, when the run is completed and not before.
THEOREM PackageIsSigned == RereadSpec => []PackagesAreSigned
<1>1. TypeOK /\ RouteInv => PackagesAreSigned
  <2> SUFFICES ASSUME TypeOK, RouteInv, NEW n \in Runs, runs[n].document = "final"
               PROVE  /\ runs[n].status = "completed"
                      /\ steps[n]["prorector"].status = "approved"
                      /\ \A s \in Existing(steps[n]) \ {"review"} :
                            steps[n][s].status = "approved" =>
                               \E t \in signed : tasks[t].run = n /\ tasks[t].step = s
    BY DEF PackagesAreSigned
  <2>1. StepsFitTheRun(n) /\ DocumentIsSigned(n)
    BY DEF RouteInv, RunInv
  <2>2. runs[n].status = "completed"
    BY <2>1 DEF DocumentIsSigned
  <2>3. steps[n]["prorector"].status = "approved"
    BY <2>1, <2>2, StepNames DEF StepsFitTheRun, DocumentIsSigned, Existing
  <2> QED
    BY <2>1, <2>2, <2>3 DEF DocumentIsSigned, Existing
<1> QED
  BY <1>1, RouteIsConsistent, PTL

=============================================================================
