----------------------- MODULE TemplateWorkspaceProofs -----------------------
(***************************************************************************)
(* Theorems about the template workspace: TemplateJobs, for any number of  *)
(* jobs and any limits, and QualityCycle, for all documents, findings and  *)
(* layouts and any number of passes the settings allow.                    *)
(*                                                                         *)
(* In the cycle the comparison of a candidate is with the best copy, the   *)
(* promise is about the document as it came: CycleInv carries the one to   *)
(* the other.                                                              *)
(***************************************************************************)
EXTENDS TemplateJobs, QualityCycle, FiniteSetTheorems, TLAPS

-----------------------------------------------------------------------------
(* The jobs of the workspace.                                              *)

\* A process belongs to a job of the workspace, which waits for its claim or
\* was given up before it.
StartedJobs ==
    \A j \in Jobs :
        /\ workers[j].pc # "none" => jobs[j].kind \in Native
        /\ workers[j].pc \in {"commit", "started", "armed"}
              => jobs[j].status \in {"queued", "failed"}

\* The claim renews a job after the alarm was set: until the deadline the job
\* is not older than the alarm.
AgesFollowAlarms ==
    \A j \in Jobs :
        jobs[j].status = "running" /\ workers[j].pc = "work"
            => jobs[j].age <= workers[j].busy \/ workers[j].busy > Deadline

IInv == JobsTypeOK /\ StartedJobs /\ AgesFollowAlarms

-----------------------------------------------------------------------------
(* The rows and processes after a step *)

\* The limits are natural numbers, and ages stay below LongAgo.
LEMMA Limits ==
    /\ Stale \in Nat /\ LongAgo \in Nat /\ LegacyStale \in Nat
    /\ Deadline \in Nat /\ Deadline <= Stale
    /\ Stale < LongAgo /\ LegacyStale < LongAgo
    /\ \A a \in 0..LongAgo :
          Older(a) \in 0..LongAgo /\ (Older(a) = a + 1 \/ Older(a) = a)
    /\ \A a \in 0..LongAgo : a <= Deadline => Older(a) = a + 1
BY TemplateJobsAssumption DEF Stale, LongAgo, Older

LEMMA Zero ==
    /\ 0 \in 0..LongAgo
    /\ 0 \in 0..MaxReports
    /\ \A a \in 0..LongAgo : a >= 0
BY TemplateJobsAssumption DEF Stale, LongAgo

\* An expiry keeps the type, kind and age of a row, and only ends open ones.
LEMMA ExpiredRows ==
    ASSUME jobs \in [Jobs -> Job], NEW kinds, NEW limit
    PROVE  /\ Expired(kinds, limit) \in [Jobs -> Job]
           /\ \A j \in Jobs :
                 LET row == Expired(kinds, limit)[j] IN
                    /\ row.kind = jobs[j].kind
                    /\ row.age = jobs[j].age
                    /\ \/ row.status = jobs[j].status
                       \/ /\ row.status = "failed"
                          /\ jobs[j].status \in Open
                          /\ jobs[j].kind \in kinds
                          /\ jobs[j].age > limit
<1>1. ASSUME NEW j \in Jobs
      PROVE  [jobs[j] EXCEPT !.status = "failed"] \in Job
    BY DEF Job, Terminal
<1> QED
    BY <1>1 DEF Expired, Job

THEOREM InitInv == JobsInit => IInv
<1> SUFFICES ASSUME JobsInit PROVE IInv
    OBVIOUS
<1> USE DEF JobsInit
<1>1. jobs \in [Jobs -> Job]
    BY Limits DEF Job, Terminal, Open
<1>2. workers \in [Jobs -> Worker]
    BY Limits, TemplateJobsAssumption DEF Worker, NoWorker
<1>3. \A j \in Jobs : workers[j].pc = "none"
    BY DEF NoWorker
<1> QED
    BY <1>1, <1>2, <1>3 DEF IInv, JobsTypeOK, StartedJobs, AgesFollowAlarms

\* A step of the process of one job leaves the others alone; it is enough to
\* look at its row and its process.
LEMMA OneProcess ==
    ASSUME IInv, NEW j \in Jobs, NEW row \in Job, NEW worker \in Worker,
           jobs' = [jobs EXCEPT ![j] = row],
           workers' = [workers EXCEPT ![j] = worker],
           worker.pc # "none" => row.kind \in Native,
           worker.pc \in {"commit", "started", "armed"}
               => row.status \in {"queued", "failed"},
           row.status = "running" /\ worker.pc = "work"
               => row.age <= worker.busy \/ worker.busy > Deadline
    PROVE  IInv'
<1>1. JobsTypeOK'
    BY DEF IInv, JobsTypeOK
<1>2. /\ jobs'[j] = row
      /\ workers'[j] = worker
      /\ \A i \in Jobs \ {j} : jobs'[i] = jobs[i] /\ workers'[i] = workers[i]
    BY DEF IInv, JobsTypeOK
<1>3. StartedJobs'
    BY <1>2 DEF IInv, StartedJobs
<1>4. AgesFollowAlarms'
    BY <1>2 DEF IInv, AgesFollowAlarms
<1> QED
    BY <1>1, <1>3, <1>4 DEF IInv

\* An expiry keeps the invariant.
LEMMA ExpiryInv ==
    ASSUME IInv, NEW kinds, NEW limit,
           jobs' = Expired(kinds, limit), workers' = workers
    PROVE  IInv'
<1>1. jobs \in [Jobs -> Job]
    BY DEF IInv, JobsTypeOK
<1>2. /\ jobs' \in [Jobs -> Job]
      /\ \A j \in Jobs :
            /\ jobs'[j].kind = jobs[j].kind
            /\ jobs'[j].age = jobs[j].age
            /\ jobs'[j].status = jobs[j].status \/ jobs'[j].status = "failed"
    BY <1>1, ExpiredRows
<1>3. JobsTypeOK'
    BY <1>2 DEF IInv, JobsTypeOK
<1>4. StartedJobs'
    BY <1>2 DEF IInv, StartedJobs
<1>5. AgesFollowAlarms'
    BY <1>2 DEF IInv, AgesFollowAlarms
<1> QED
    BY <1>3, <1>4, <1>5 DEF IInv

LEMMA UploadInv == ASSUME IInv, NEW kind \in Native, Upload(kind) PROVE IInv'
<1>1. PICK i \in Jobs :
         /\ jobs[i].status = "absent"
         /\ jobs' = [Expired(Native, Stale) EXCEPT
                        ![i] = [kind |-> kind, status |-> "queued", age |-> 0]]
         /\ workers' = [workers EXCEPT ![i] = [NoWorker EXCEPT !.pc = "commit"]]
    BY DEF Upload
<1> DEFINE row == [kind |-> kind, status |-> "queued", age |-> 0]
           worker == [NoWorker EXCEPT !.pc = "commit"]
<1>2. row \in Job
    BY Limits DEF Job, Open
<1>3. worker \in Worker /\ worker.pc = "commit"
    BY Zero DEF Worker, NoWorker
<1>4. row.kind \in Native /\ row.status = "queued"
    OBVIOUS
<1>5. jobs \in [Jobs -> Job] /\ workers \in [Jobs -> Worker]
    BY DEF IInv, JobsTypeOK
<1>6. /\ Expired(Native, Stale) \in [Jobs -> Job]
      /\ \A j \in Jobs :
            LET old == Expired(Native, Stale)[j] IN
               /\ old.kind = jobs[j].kind
               /\ old.age = jobs[j].age
               /\ old.status = jobs[j].status \/ old.status = "failed"
    BY <1>5, ExpiredRows
<1> HIDE DEF row, worker
<1>7. jobs' = [Expired(Native, Stale) EXCEPT ![i] = row]
    BY <1>1 DEF row
<1>8. workers' = [workers EXCEPT ![i] = worker]
    BY <1>1 DEF worker
<1>9. JobsTypeOK'
    BY <1>2, <1>3, <1>5, <1>6, <1>7, <1>8 DEF JobsTypeOK
<1>10. /\ jobs'[i] = row /\ workers'[i] = worker
       /\ \A j \in Jobs \ {i} :
             /\ jobs'[j] = Expired(Native, Stale)[j]
             /\ workers'[j] = workers[j]
    BY <1>5, <1>6, <1>7, <1>8
<1>11. StartedJobs'
    BY <1>3, <1>4, <1>6, <1>10 DEF IInv, StartedJobs
<1>12. AgesFollowAlarms'
    BY <1>3, <1>4, <1>6, <1>10 DEF IInv, AgesFollowAlarms
<1> QED
    BY <1>9, <1>11, <1>12 DEF IInv

LEMMA WorkInv == ASSUME IInv, NEW j \in Jobs, Work(j) PROVE IInv'
<1>1. jobs[j] \in Job /\ workers[j] \in Worker
    BY DEF IInv, JobsTypeOK
<1>2. NoWorker \in Worker /\ NoWorker.pc = "none"
    BY Limits, TemplateJobsAssumption DEF NoWorker, Worker
<1>3. jobs \in [Jobs -> Job] /\ workers \in [Jobs -> Worker]
    BY DEF IInv, JobsTypeOK
<1>4. /\ workers[j].pc # "none" => jobs[j].kind \in Native
      /\ workers[j].pc \in {"commit", "started", "armed"}
            => jobs[j].status \in {"queued", "failed"}
      /\ jobs[j].status = "running" /\ workers[j].pc = "work"
            => jobs[j].age <= workers[j].busy \/ workers[j].busy > Deadline
    BY DEF IInv, StartedJobs, AgesFollowAlarms
<1>5. jobs = [jobs EXCEPT ![j] = jobs[j]]
    BY <1>3
<1>6. CASE Launch(j)
  <2> DEFINE worker == [workers[j] EXCEPT !.pc = "started"]
  <2>1. worker \in Worker /\ worker.pc = "started"
      BY <1>1 DEF Worker
  <2>2. workers' = [workers EXCEPT ![j] = worker] /\ jobs' = [jobs EXCEPT ![j] = jobs[j]]
      BY <1>3, <1>5, <1>6 DEF Launch, Goes
  <2>3. workers[j].pc = "commit"
      BY <1>6 DEF Launch
  <2> HIDE DEF worker
  <2> QED
      BY <1>1, <1>4, <2>1, <2>2, <2>3, OneProcess
<1>7. CASE LaunchFails(j)
  <2> DEFINE row == [jobs[j] EXCEPT !.status = "failed"]
  <2>1. row \in Job /\ row.status = "failed"
      BY <1>1 DEF Job, Terminal
  <2>2. jobs' = [jobs EXCEPT ![j] = row] /\ workers' = [workers EXCEPT ![j] = NoWorker]
      BY <1>3, <1>7 DEF LaunchFails, Ends
  <2> HIDE DEF row
  <2> QED
      BY <1>2, <2>1, <2>2, OneProcess
<1>8. CASE Arm(j)
  <2> DEFINE worker == [workers[j] EXCEPT !.pc = "armed", !.alarm = TRUE]
  <2>1. worker \in Worker /\ worker.pc = "armed"
      BY <1>1 DEF Worker
  <2>2. workers' = [workers EXCEPT ![j] = worker] /\ jobs' = [jobs EXCEPT ![j] = jobs[j]]
      BY <1>3, <1>5, <1>8 DEF Arm
  <2>3. workers[j].pc = "started"
      BY <1>8 DEF Arm
  <2> HIDE DEF worker
  <2> QED
      BY <1>1, <1>4, <2>1, <2>2, <2>3, OneProcess
<1>9. CASE Claim(j)
  <2>1. workers[j].pc = "armed"
      BY <1>9 DEF Claim
  <2>2. CASE jobs[j].status = "queued"
    <3>1. jobs' = [jobs EXCEPT ![j] = Claimed(j)]
        BY <1>9, <2>2 DEF Claim
    <3>2. PICK n \in 0..MaxReports :
             workers' = [workers EXCEPT ![j].pc = "work", ![j].left = n]
        BY <1>9, <2>2 DEF Claim
    <3> DEFINE worker == [workers[j] EXCEPT !.pc = "work", !.left = n]
    <3>3. worker \in Worker /\ worker.pc = "work" /\ worker.busy >= 0
        BY <1>1, Zero DEF Worker
    <3>4. workers' = [workers EXCEPT ![j] = worker]
        BY <1>3, <3>2
    <3>5. /\ Claimed(j) \in Job
          /\ Claimed(j).age = 0
          /\ Claimed(j).kind = jobs[j].kind
        BY <1>1, Zero DEF Claimed, Job, Open
    <3> HIDE DEF worker
    <3> QED
        BY <1>4, <2>1, <3>1, <3>3, <3>4, <3>5, OneProcess
  <2>3. CASE jobs[j].status # "queued"
    <3>1. workers' = [workers EXCEPT ![j] = NoWorker] /\ jobs' = [jobs EXCEPT ![j] = jobs[j]]
        BY <1>5, <1>9, <2>3 DEF Claim, Ends
    <3> QED
        BY <1>1, <1>2, <3>1, OneProcess
  <2> QED
      BY <2>2, <2>3
<1>10. CASE ReportProgress(j)
  <2> DEFINE worker == [workers[j] EXCEPT !.left = workers[j].left - 1]
             row == IF jobs[j].status = "running"
                    THEN [jobs[j] EXCEPT !.age = 0] ELSE jobs[j]
  <2>1. workers[j].pc = "work" /\ workers[j].left > 0
      BY <1>10 DEF ReportProgress
  <2>2. /\ worker \in Worker /\ worker.pc = "work"
        /\ worker.busy = workers[j].busy /\ worker.busy >= 0
      BY <1>1, <2>1, Limits, TemplateJobsAssumption DEF Worker
  <2>3. /\ row \in Job /\ row.kind = jobs[j].kind
        /\ row.status = "running" => row.age = 0
      BY <1>1, Limits DEF Job
  <2>4. workers' = [workers EXCEPT ![j] = worker]
      BY <1>3, <1>10 DEF ReportProgress
  <2>5. jobs' = [jobs EXCEPT ![j] = row]
      BY <1>3, <1>10 DEF ReportProgress
  <2> HIDE DEF worker, row
  <2> QED
      BY <1>4, <2>1, <2>2, <2>3, <2>4, <2>5, OneProcess
<1>11. ASSUME NEW status \in Terminal PROVE Written(j, status) \in Job
    BY <1>1, Zero DEF Written, Job
<1>12. CASE Finish(j)
  <2>1. PICK status \in {"completed", "partial"} :
           jobs' = [jobs EXCEPT ![j] = Written(j, status)]
      BY <1>12 DEF Finish
  <2>2. workers' = [workers EXCEPT ![j] = NoWorker]
      BY <1>12 DEF Finish, Ends
  <2>3. Written(j, status) \in Job
      BY <1>11 DEF Terminal
  <2> QED
      BY <1>2, <2>1, <2>2, <2>3, OneProcess
<1>13. CASE Fail(j)
  <2>1. /\ jobs' = [jobs EXCEPT ![j] = Written(j, "failed")]
        /\ workers' = [workers EXCEPT ![j] = NoWorker]
      BY <1>13 DEF Fail, Ends
  <2>2. Written(j, "failed") \in Job
      BY <1>11 DEF Terminal
  <2> QED
      BY <1>2, <2>1, <2>2, OneProcess
<1>14. CASE AlarmSwallowed(j)
  <2> DEFINE worker == [workers[j] EXCEPT !.alarm = FALSE]
  <2>1. worker \in Worker /\ worker.pc = workers[j].pc /\ worker.busy = workers[j].busy
      BY <1>1 DEF Worker
  <2>2. workers' = [workers EXCEPT ![j] = worker] /\ jobs' = [jobs EXCEPT ![j] = jobs[j]]
      BY <1>3, <1>5, <1>14 DEF AlarmSwallowed
  <2> HIDE DEF worker
  <2> QED
      BY <1>1, <1>4, <2>1, <2>2, OneProcess
<1>15. CASE Die(j)
  <2>1. workers' = [workers EXCEPT ![j] = NoWorker] /\ jobs' = [jobs EXCEPT ![j] = jobs[j]]
      BY <1>5, <1>15 DEF Die, Ends
  <2> QED
      BY <1>1, <1>2, <2>1, OneProcess
<1> QED
    BY <1>6, <1>7, <1>8, <1>9, <1>10, <1>12, <1>13, <1>14, <1>15 DEF Work

\* Until the deadline the alarm of a process ages with its job.
LEMMA TickInv == ASSUME IInv, Tick PROVE IInv'
<1>1. jobs \in [Jobs -> Job] /\ workers \in [Jobs -> Worker]
    BY DEF IInv, JobsTypeOK
<1>2. ASSUME NEW j \in Jobs
      PROVE  /\ jobs'[j] \in Job /\ jobs'[j].kind = jobs[j].kind
             /\ jobs'[j].status = jobs[j].status
             /\ jobs'[j].age \in 0..LongAgo /\ jobs'[j].age <= jobs[j].age + 1
  <2>1. jobs[j] \in Job /\ jobs[j].age \in 0..LongAgo
      BY <1>1 DEF Job
  <2>2. Older(jobs[j].age) \in 0..LongAgo /\ Older(jobs[j].age) <= jobs[j].age + 1
      BY <2>1, Limits
  <2>3. [jobs[j] EXCEPT !.age = Older(jobs[j].age)] \in Job
      BY <2>1, <2>2 DEF Job
  <2>4. jobs'[j] = IF jobs[j].status \in Open
                   THEN [jobs[j] EXCEPT !.age = Older(jobs[j].age)]
                   ELSE jobs[j]
      BY DEF Tick
  <2>5. CASE jobs[j].status \in Open
      BY <2>1, <2>2, <2>3, <2>4, <2>5 DEF Job
  <2>6. CASE jobs[j].status \notin Open
      BY <2>1, <2>4, <2>6, Limits
  <2> QED
      BY <2>5, <2>6
<1>3. ASSUME NEW j \in Jobs
      PROVE  /\ workers'[j] \in Worker /\ workers'[j].pc = workers[j].pc
             /\ workers'[j].busy \in 0..LongAgo
             /\ workers[j].pc = "work" /\ workers[j].busy <= Deadline
                   => workers'[j].busy = workers[j].busy + 1
             /\ workers'[j].busy >= workers[j].busy
  <2>1. workers[j] \in Worker /\ workers[j].busy \in 0..LongAgo
      BY <1>1 DEF Worker
  <2>2. /\ Older(workers[j].busy) \in 0..LongAgo
        /\ Older(workers[j].busy) >= workers[j].busy
        /\ workers[j].busy <= Deadline => Older(workers[j].busy) = workers[j].busy + 1
      BY <2>1, Limits
  <2>3. [workers[j] EXCEPT !.busy = Older(workers[j].busy)] \in Worker
      BY <2>1, <2>2 DEF Worker
  <2>4. workers'[j] = IF workers[j].pc \in {"armed", "work"}
                      THEN [workers[j] EXCEPT !.busy = Older(workers[j].busy)]
                      ELSE workers[j]
      BY DEF Tick
  <2>5. CASE workers[j].pc \in {"armed", "work"}
      BY <2>1, <2>2, <2>3, <2>4, <2>5 DEF Worker
  <2>6. CASE workers[j].pc \notin {"armed", "work"}
      BY <2>1, <2>4, <2>6, Limits
  <2> QED
      BY <2>5, <2>6
<1>4. JobsTypeOK'
  <2>1. jobs' = [j \in Jobs |-> jobs'[j]] /\ workers' = [j \in Jobs |-> workers'[j]]
      BY DEF Tick
  <2> QED
      BY <1>2, <1>3, <2>1 DEF JobsTypeOK
<1>5. StartedJobs'
    BY <1>2, <1>3 DEF IInv, StartedJobs
<1>6. AgesFollowAlarms'
  <2> SUFFICES ASSUME NEW j \in Jobs,
                      jobs'[j].status = "running", workers'[j].pc = "work"
               PROVE  jobs'[j].age <= workers'[j].busy \/ workers'[j].busy > Deadline
      BY DEF AgesFollowAlarms
  <2>1. jobs[j].age \in 0..LongAgo /\ workers[j].busy \in 0..LongAgo
      BY <1>1 DEF Job, Worker
  <2>2. jobs[j].age <= workers[j].busy \/ workers[j].busy > Deadline
      BY <1>2, <1>3 DEF IInv, AgesFollowAlarms
  <2>3. CASE workers[j].busy <= Deadline
      BY <1>2, <1>3, <2>1, <2>2, <2>3, Limits
  <2>4. CASE workers[j].busy > Deadline
      BY <1>3, <2>1, <2>4, Limits
  <2> QED
      BY <2>1, <2>3, <2>4, Limits
<1> QED
    BY <1>4, <1>5, <1>6 DEF IInv

THEOREM StepInv == IInv /\ [JobsNext]_jobsVars => IInv'
<1> SUFFICES ASSUME IInv, [JobsNext]_jobsVars PROVE IInv'
    OBVIOUS
<1>1. CASE Visit
    BY <1>1, ExpiryInv DEF Visit
<1>2. CASE VisitLegacy
    BY <1>2, ExpiryInv DEF VisitLegacy
<1>3. ASSUME NEW kind \in Native, Upload(kind) PROVE IInv'
    BY <1>3, UploadInv
<1>4. ASSUME NEW j \in Jobs, Work(j) PROVE IInv'
    BY <1>4, WorkInv
<1>5. CASE Tick
    BY <1>5, TickInv
<1>6. CASE UNCHANGED jobsVars
    BY <1>6 DEF jobsVars, IInv, JobsTypeOK, StartedJobs, AgesFollowAlarms
<1> QED
    BY <1>1, <1>2, <1>3, <1>4, <1>5, <1>6 DEF JobsNext

\* The invariant holds for ever.
THEOREM Invariance == JobsSpec => []IInv
BY InitInv, StepInv, PTL DEF JobsSpec

\* Every row and every process has its type.
THEOREM JobsTypeCorrect == JobsSpec => []JobsTypeOK
<1>1. IInv => JobsTypeOK
    BY DEF IInv
<1> QED
    BY <1>1, Invariance, PTL

-----------------------------------------------------------------------------
(* What a step may do to the rows *)

\* What the next row may be: it does not open again, and an ended one stays.
Follows(row, old) ==
    /\ row.kind = old.kind
    /\ old.status \in Terminal => row.status = old.status
    /\ row.status \in Open => old.status \in Open

\* The process of a job changes its row only.
LEMMA WorkRows ==
    ASSUME IInv, NEW j \in Jobs, Work(j)
    PROVE  \E row : jobs' = [jobs EXCEPT ![j] = row] /\ Follows(row, jobs[j])
<1>1. /\ jobs \in [Jobs -> Job] /\ jobs[j] \in Job
      /\ workers[j].pc = "commit" => jobs[j].status \in {"queued", "failed"}
    BY DEF IInv, JobsTypeOK, StartedJobs
<1>2. CASE jobs' = jobs
  <2>1. jobs' = [jobs EXCEPT ![j] = jobs[j]]
      BY <1>1, <1>2
  <2> QED
      BY <2>1 DEF Follows
<1>3. CASE LaunchFails(j)
  <2> DEFINE row == [jobs[j] EXCEPT !.status = "failed"]
  <2>1. jobs' = [jobs EXCEPT ![j] = row]
      BY <1>1, <1>3 DEF LaunchFails
  <2>2. row.status = "failed" /\ row.kind = jobs[j].kind
      BY <1>1 DEF Job
  <2>3. jobs[j].status \in {"queued", "failed"}
      BY <1>1, <1>3 DEF LaunchFails
  <2> HIDE DEF row
  <2>4. Follows(row, jobs[j])
      BY <2>2, <2>3 DEF Follows, Open, Terminal
  <2> QED
      BY <2>1, <2>4
<1>4. CASE Claim(j) /\ jobs[j].status = "queued"
  <2>1. jobs' = [jobs EXCEPT ![j] = Claimed(j)]
      BY <1>4 DEF Claim
  <2>2. Claimed(j).status = "running" /\ Claimed(j).kind = jobs[j].kind
      BY <1>1 DEF Claimed, Job
  <2>3. Follows(Claimed(j), jobs[j])
      BY <1>4, <2>2 DEF Follows, Open, Terminal
  <2> QED
      BY <2>1, <2>3
<1>5. CASE ReportProgress(j) /\ jobs[j].status = "running"
  <2> DEFINE row == [jobs[j] EXCEPT !.age = 0]
  <2>1. jobs' = [jobs EXCEPT ![j] = row]
      BY <1>1, <1>5 DEF ReportProgress
  <2>2. row.status = jobs[j].status /\ row.kind = jobs[j].kind
      BY <1>1 DEF Job
  <2> HIDE DEF row
  <2>3. Follows(row, jobs[j])
      BY <2>2 DEF Follows
  <2> QED
      BY <2>1, <2>3
<1>6. ASSUME NEW status \in {"completed", "partial", "failed"}
      PROVE  Follows(Written(j, status), jobs[j])
  <2>1. CASE jobs[j].status = "running"
    <3>1. Written(j, status).status = status /\ Written(j, status).kind = jobs[j].kind
        BY <1>1, <2>1 DEF Written, Job
    <3> QED
        BY <2>1, <3>1 DEF Follows, Open, Terminal
  <2>2. CASE jobs[j].status # "running"
      BY <2>2 DEF Written, Follows
  <2> QED
      BY <2>1, <2>2
<1>7. CASE Finish(j)
  <2>1. PICK status \in {"completed", "partial"} :
           jobs' = [jobs EXCEPT ![j] = Written(j, status)]
      BY <1>7 DEF Finish
  <2> QED
      BY <1>6, <2>1
<1>8. CASE Fail(j)
    BY <1>6, <1>8 DEF Fail
<1>9. \/ jobs' = jobs
      \/ LaunchFails(j)
      \/ Claim(j) /\ jobs[j].status = "queued"
      \/ ReportProgress(j) /\ jobs[j].status = "running"
      \/ Finish(j)
      \/ Fail(j)
    BY DEF Work, Launch, Arm, Claim, ReportProgress, AlarmSwallowed, Die
<1> QED
    BY <1>2, <1>3, <1>4, <1>5, <1>7, <1>8, <1>9

\* A step other than an upload opens no job and keeps what has ended.
LEMMA OtherRows ==
    ASSUME IInv, JobsNext, \A kind \in Native : ~Upload(kind)
    PROVE  \A j \in Jobs : Follows(jobs'[j], jobs[j])
<1>1. jobs \in [Jobs -> Job]
    BY DEF IInv, JobsTypeOK
<1>2. ASSUME NEW kinds, NEW limit, jobs' = Expired(kinds, limit)
      PROVE  \A j \in Jobs : Follows(jobs'[j], jobs[j])
    BY <1>1, <1>2, ExpiredRows DEF Follows, Open, Terminal
<1>3. CASE Visit \/ VisitLegacy
    BY <1>2, <1>3 DEF Visit, VisitLegacy
<1>4. ASSUME NEW j \in Jobs, Work(j)
      PROVE  \A i \in Jobs : Follows(jobs'[i], jobs[i])
  <2>1. PICK row : jobs' = [jobs EXCEPT ![j] = row] /\ Follows(row, jobs[j])
      BY <1>4, WorkRows
  <2>2. jobs'[j] = row /\ \A i \in Jobs \ {j} : jobs'[i] = jobs[i]
      BY <1>1, <2>1
  <2> QED
      BY <2>1, <2>2 DEF Follows
<1>5. CASE Tick
  <2> SUFFICES ASSUME NEW j \in Jobs PROVE Follows(jobs'[j], jobs[j])
      OBVIOUS
  <2>1. jobs[j] \in Job
      BY <1>1
  <2>2. jobs'[j] = IF jobs[j].status \in Open
                   THEN [jobs[j] EXCEPT !.age = Older(jobs[j].age)]
                   ELSE jobs[j]
      BY <1>5 DEF Tick
  <2>3. jobs'[j].kind = jobs[j].kind /\ jobs'[j].status = jobs[j].status
      BY <2>1, <2>2 DEF Job
  <2> QED
      BY <2>3 DEF Follows
<1> QED
    BY <1>3, <1>4, <1>5 DEF JobsNext

\* An upload opens one job, and expires others of the workspace.
LEMMA UploadRows ==
    ASSUME IInv, NEW kind \in Native, Upload(kind)
    PROVE  \E i \in Jobs :
              /\ jobs[i].status = "absent"
              /\ \A j \in Jobs \ {i} :
                    /\ jobs'[j] = Expired(Native, Stale)[j]
                    /\ ~(jobs'[j].kind \in Native /\ jobs'[j].status \in Open)
<1>1. jobs \in [Jobs -> Job] /\ workers \in [Jobs -> Worker]
    BY DEF IInv, JobsTypeOK
<1>2. Expired(Native, Stale) \in [Jobs -> Job]
    BY <1>1, ExpiredRows
<1>3. PICK i \in Jobs :
         /\ jobs[i].status = "absent"
         /\ jobs' = [Expired(Native, Stale) EXCEPT
                        ![i] = [kind |-> kind, status |-> "queued", age |-> 0]]
         /\ workers' = [workers EXCEPT ![i] = [NoWorker EXCEPT !.pc = "commit"]]
    BY DEF Upload
<1>5. \A j \in Jobs \ {i} : jobs'[j] = Expired(Native, Stale)[j]
    BY <1>2, <1>3
<1>6. OpenNative(Expired(Native, Stale)) = {}
    BY DEF Upload, MayStart
<1>7. \A j \in Jobs \ {i} : ~(jobs'[j].kind \in Native /\ jobs'[j].status \in Open)
    BY <1>5, <1>6 DEF OpenNative
<1> QED
    BY <1>3, <1>5, <1>7

-----------------------------------------------------------------------------
(* The properties *)

\* An owner has at most one job under way.
THEOREM AtMostOneOpen == JobsSpec => []OneOpenJob
<1>1. JobsInit => OneOpenJob
    BY DEF JobsInit, OneOpenJob, OpenNative, Native
<1>2. IInv /\ OneOpenJob /\ [JobsNext]_jobsVars => OneOpenJob'
  <2> SUFFICES ASSUME IInv, OneOpenJob, [JobsNext]_jobsVars,
                      NEW i \in Jobs, NEW j \in Jobs,
                      jobs'[i].kind \in Native /\ jobs'[i].status \in Open,
                      jobs'[j].kind \in Native /\ jobs'[j].status \in Open
               PROVE  i = j
      BY DEF OneOpenJob, OpenNative
  <2>1. CASE UNCHANGED jobsVars
      BY <2>1 DEF jobsVars, OneOpenJob, OpenNative
  <2>2. ASSUME NEW kind \in Native, Upload(kind) PROVE i = j
      BY <2>2, UploadRows
  <2>3. CASE JobsNext /\ \A kind \in Native : ~Upload(kind)
      BY <2>3, OtherRows DEF Follows, OneOpenJob, OpenNative
  <2> QED
      BY <2>1, <2>2, <2>3
<1> QED
    BY <1>1, <1>2, Invariance, PTL DEF JobsSpec

\* A job that has ended keeps its status.
THEOREM VerdictsFinal == JobsSpec => VerdictsAreFinal
<1>1. IInv /\ [JobsNext]_jobsVars => [KeepsVerdicts]_jobsVars
  <2> SUFFICES ASSUME IInv, JobsNext, NEW j \in Jobs, jobs[j].status \in Terminal
               PROVE  jobs'[j].status = jobs[j].status
      BY DEF KeepsVerdicts
  <2>1. ASSUME NEW kind \in Native, Upload(kind)
        PROVE  jobs'[j].status = jobs[j].status
    <3>1. PICK i \in Jobs :
             /\ jobs[i].status = "absent"
             /\ \A k \in Jobs \ {i} : jobs'[k] = Expired(Native, Stale)[k]
        BY <2>1, UploadRows
    <3>2. j # i
        BY <3>1 DEF Terminal
    <3> QED
        BY <3>1, <3>2, ExpiredRows DEF IInv, JobsTypeOK, Open, Terminal
  <2>2. CASE \A kind \in Native : ~Upload(kind)
      BY <2>2, OtherRows DEF Follows
  <2> QED
      BY <2>1, <2>2
<1> QED
    BY <1>1, Invariance, PTL DEF JobsSpec, VerdictsAreFinal

\* A visit never gives up a job whose process works within its deadline.
THEOREM JobsInTimeKept == JobsSpec => JobsInTimeAreKept
<1>1. IInv /\ [JobsNext]_jobsVars => [KeepsJobsInTime]_jobsVars
  <2> SUFFICES ASSUME IInv, JobsNext, NEW j \in Jobs,
                      jobs[j].status = "running",
                      workers[j].pc = "work",
                      workers[j].busy <= Deadline,
                      workers'[j] = workers[j]
               PROVE  jobs'[j].status = "running"
      BY DEF KeepsJobsInTime
  <2>1. /\ jobs \in [Jobs -> Job] /\ workers \in [Jobs -> Worker]
        /\ jobs[j].age \in 0..LongAgo /\ workers[j].busy \in 0..LongAgo
      BY DEF IInv, JobsTypeOK, Job, Worker
  <2>2. jobs[j].kind \in Native /\ jobs[j].age <= workers[j].busy
      BY <2>1, Limits DEF IInv, StartedJobs, AgesFollowAlarms
  <2>3. Expired(Native, Stale)[j].status = "running"
    <3>1. ~(jobs[j].age > Stale)
        BY <2>1, <2>2, Limits
    <3> QED
        BY <2>1, <3>1, ExpiredRows
  <2>4. Expired({"v1"}, LegacyStale)[j].status = "running"
    <3>1. jobs[j].kind \notin {"v1"}
        BY <2>2 DEF Native
    <3> QED
        BY <2>1, <3>1, ExpiredRows
  <2>5. CASE Visit
      BY <2>3, <2>5 DEF Visit
  <2>6. CASE VisitLegacy
      BY <2>4, <2>6 DEF VisitLegacy
  <2>7. ASSUME NEW kind \in Native, Upload(kind) PROVE jobs'[j].status = "running"
    <3>1. PICK i \in Jobs :
             /\ jobs[i].status = "absent"
             /\ \A k \in Jobs \ {i} : jobs'[k] = Expired(Native, Stale)[k]
        BY <2>7, UploadRows
    <3> QED
        BY <2>3, <3>1
  <2>8. ASSUME NEW i \in Jobs, Work(i) PROVE jobs'[j].status = "running"
    <3>1. CASE i # j
      <4>1. PICK row : jobs' = [jobs EXCEPT ![i] = row]
          BY <2>8, WorkRows
      <4> QED
          BY <2>1, <3>1, <4>1
    <3>2. CASE i = j
      <4>1. \/ ReportProgress(j) \/ AlarmSwallowed(j)
            \/ Finish(j) \/ Fail(j) \/ Die(j)
          BY <2>8, <3>2 DEF Work, Launch, LaunchFails, Arm, Claim
      <4>2. ~(Finish(j) \/ Fail(j) \/ Die(j))
          BY <2>1 DEF Finish, Fail, Die, Ends, NoWorker
      <4>3. CASE AlarmSwallowed(j)
          BY <4>3 DEF AlarmSwallowed
      <4>4. CASE ReportProgress(j)
        <5>1. jobs' = [jobs EXCEPT ![j].age = 0]
            BY <4>4 DEF ReportProgress
        <5>2. jobs[j] \in Job
            BY <2>1
        <5> QED
            BY <2>1, <5>1, <5>2 DEF Job
      <4> QED
          BY <4>1, <4>2, <4>3, <4>4
    <3> QED
        BY <3>1, <3>2
  <2>9. CASE Tick
    <3>1. jobs'[j] = [jobs[j] EXCEPT !.age = Older(jobs[j].age)]
        BY <2>9 DEF Tick, Open
    <3>2. jobs[j] \in Job
        BY <2>1
    <3> QED
        BY <3>1, <3>2 DEF Job
  <2> QED
      BY <2>5, <2>6, <2>7, <2>8, <2>9 DEF JobsNext
<1> QED
    BY <1>1, Invariance, PTL DEF JobsSpec, JobsInTimeAreKept

-----------------------------------------------------------------------------
(* The quality cycle of a document.                                        *)

\* The pages of a review, and what "reviewed" says of them.
ReviewFits(r) ==
    /\ r.checked \subseteq 1..r.total
    /\ r.page \in [Targets -> 0..r.total]
    /\ r.status = "reviewed" => r.checked = 1..r.total
    /\ r.checked # {} /\ r.checked = 1..r.total => r.status = "reviewed"

ReviewsAreTyped ==
    /\ ReviewFits(review)
    /\ first.review \in Review /\ ReviewFits(first.review)
    /\ first.structural \subseteq StructuralIssues

\* best is the last pass that was accepted, and review is of its copy.
BestIsTheLastAccepted ==
    /\ \A a \in accepted : a.pass \in 1..best
    /\ best # 0 => \E a \in accepted : a.pass = best
    /\ \A a \in accepted : a.pass = best => a.after = review

\* Where the cycle is: until something is accepted nothing has changed, a pass
\* comes after the best one, and it repairs only what the review has seen.
PassesFollowTheBest ==
    /\ pc = "baseline" => pass = 0
    /\ pc \in {"select", "apply"} =>
          /\ best < pass
          /\ best = 0 => review = first.review /\ structural = first.structural
    /\ pc = "apply" => /\ pass < MaxPasses
                       /\ CoversEdits(review, actions)

\* The result is the document as it came until the best copy is promoted.
ResultIsFirstOrBest ==
    /\ result \in {0, best}
    /\ pc \in {"baseline", "select", "apply", "promote"} => result = 0
    /\ pc \in {"report", "done"} => result = best
    /\ pc = "done" => /\ report.iteration = best /\ report.review = review
                      /\ report.status = QualityStatus(review, structural)

CycleInv ==
    /\ ReviewsAreTyped
    /\ BestIsTheLastAccepted
    /\ PassesFollowTheBest
    /\ ResultIsFirstOrBest
    /\ NeverWorse
    /\ EditsWereSeen

-----------------------------------------------------------------------------
(* Reviews, issues and their numbers *)

LEMMA ImageIsFinite ==
    ASSUME NEW S, IsFiniteSet(S), NEW T, NEW f \in [S -> T],
           \A t \in T : \E x \in S : f[x] = t
    PROVE  IsFiniteSet(T)
<1>1. f \in Surjection(S, T)
  BY DEF Surjection
<1> QED
  BY <1>1, FS_Surjection

LEMMA StructuralIssuesFinite == IsFiniteSet(StructuralIssues)
<1> DEFINE Typography == {u \in Targets : "restore_typography" \in Allowed[u]}
           Pictures == {u \in Targets : "fit_picture" \in Allowed[u]}
           f == [t \in Typography |->
                   [target |-> t, action |-> "restore_typography", kind |-> "text_typography",
                    severity |-> "medium", source |-> "ooxml", page |-> 0]]
           g == [t \in Pictures |->
                   [target |-> t, action |-> "fit_picture", kind |-> "figure_alignment",
                    severity |-> "high", source |-> "ooxml", page |-> 0]]
           F == {f[t] : t \in Typography}
           G == {g[t] : t \in Pictures}
<1>1. StructuralIssues = F \cup G
  BY DEF StructuralIssues
<1>2. IsFiniteSet(Typography) /\ IsFiniteSet(Pictures)
  <2>1. Typography \in SUBSET Targets /\ Pictures \in SUBSET Targets
    OBVIOUS
  <2> HIDE DEF Typography, Pictures
  <2> QED
    BY <2>1, FS_Subset, QualityCycleAssumption
<1>3. IsFiniteSet(F)
  <2>1. f \in [Typography -> F] /\ \A t \in F : \E x \in Typography : f[x] = t
    OBVIOUS
  <2> HIDE DEF f, F, Typography
  <2> QED
    BY <1>2, <2>1, ImageIsFinite
<1>4. IsFiniteSet(G)
  <2>1. g \in [Pictures -> G] /\ \A t \in G : \E x \in Pictures : g[x] = t
    OBVIOUS
  <2> HIDE DEF g, G, Pictures
  <2> QED
    BY <1>2, <2>1, ImageIsFinite
<1> HIDE DEF F, G
<1> QED
  BY <1>1, <1>3, <1>4, FS_Union

LEMMA ScoreIsNat ==
    ASSUME NEW S, IsFiniteSet(S)
    PROVE  Score(S) \in Nat
<1>1. \A severity : OfSeverity(S, severity) \in SUBSET S
  BY DEF OfSeverity
<1>2. \A severity : Cardinality(OfSeverity(S, severity)) \in Nat
  BY <1>1, FS_Subset, FS_CardinalityType
<1> QED
  BY <1>2 DEF Score

\* The numbers that are compared are numbers.
LEMMA CountsAreNats ==
    ASSUME NEW r \in Review, NEW s \in SUBSET StructuralIssues
    PROVE  /\ Score(r.issues) \in Nat /\ Score(s) \in Nat
           /\ Cardinality(Geometry(r)) \in Nat /\ Cardinality(s) \in Nat
<1>1. r.issues \in SUBSET Findings
  BY DEF Review
<1>2. IsFiniteSet(r.issues) /\ IsFiniteSet(s)
  BY <1>1, FS_Subset, StructuralIssuesFinite, QualityCycleAssumption
<1>3. Geometry(r) \in SUBSET r.issues
  BY DEF Geometry
<1> QED
  BY <1>2, <1>3, FS_Subset, FS_CardinalityType, ScoreIsNat

LEMMA NoReviewFacts == NoReview \in Review /\ ReviewFits(NoReview)
<1>1. NoReview \in Review
  BY DEF NoReview, Review
<1>2. /\ NoReview.checked = {} /\ NoReview.total = 0 /\ NoReview.status = "unavailable"
      /\ NoReview.page \in [Targets -> 0..NoReview.total]
  BY DEF NoReview
<1> QED
  BY <1>1, <1>2 DEF ReviewFits

LEMMA ReviewFacts == \A r \in Reviews : r \in Review /\ ReviewFits(r)
<1> SUFFICES ASSUME NEW r \in Reviews PROVE r \in Review /\ ReviewFits(r)
  OBVIOUS
<1>1. CASE r = [status |-> "disabled", total |-> 0, checked |-> {}, issues |-> {},
                page |-> [t \in Targets |-> 0], rendered |-> {}, warned |-> FALSE]
  <2>1. r \in Review
    BY <1>1 DEF Review
  <2>2. /\ r.checked = {} /\ r.total = 0 /\ r.status = "disabled"
        /\ r.page \in [Targets -> 0..r.total]
    BY <1>1
  <2> QED
    BY <2>1, <2>2 DEF ReviewFits
<1>2. ASSUME NEW l \in Layouts, NEW checked \in SUBSET (1..l.total),
             NEW issues \in SUBSET Reportable(l, checked),
             r = [status |-> StatusOf(l.total, checked), total |-> l.total,
                  checked |-> checked, issues |-> issues, page |-> l.page,
                  rendered |-> l.rendered, warned |-> checked # 1..l.total]
      PROVE  r \in Review /\ ReviewFits(r)
  <2>1. l.total \in Nat /\ l.page \in [Targets -> 0..l.total] /\ l.rendered \subseteq Targets
    BY QualityCycleAssumption
  <2>2. issues \in SUBSET Findings
    BY DEF Reportable
  <2>3. checked \in SUBSET (Nat \ {0}) /\ l.page \in [Targets -> Nat]
    BY <2>1
  <2>4. (checked # 1..l.total) \in BOOLEAN
    OBVIOUS
  <2>5. StatusOf(l.total, checked) \in {"reviewed", "partial", "unavailable"}
    BY DEF StatusOf
  <2>6. /\ StatusOf(l.total, checked) = "reviewed" <=> checked = 1..l.total
    BY DEF StatusOf
  <2> DEFINE status == StatusOf(l.total, checked)
             warned == checked # 1..l.total
  <2>7. /\ r = [status |-> status, total |-> l.total,
                checked |-> checked, issues |-> issues, page |-> l.page,
                rendered |-> l.rendered, warned |-> warned]
        /\ warned \in BOOLEAN
        /\ status \in {"reviewed", "partial", "unavailable", "disabled"}
    BY <1>2, <2>5
  <2> HIDE DEF status, warned
  <2>8. r \in Review
    BY <2>1, <2>2, <2>3, <2>7 DEF Review
  <2>9. /\ r.total = l.total /\ r.checked = checked /\ r.page = l.page
        /\ r.status = status
    BY <2>7
  <2> QED
    BY <2>1, <2>6, <2>8, <2>9 DEF ReviewFits, status
<1> QED
  BY <1>1, <1>2 DEF Reviews

-----------------------------------------------------------------------------
(* What lasts over several passes *)

NotWorse(r0, s0, r, s) ==
    /\ Score(r.issues) + Score(s) < Score(r0.issues) + Score(s0)
    /\ Severe(r) \subseteq Severe(r0)
    /\ Cardinality(s) <= Cardinality(s0)
    /\ Cardinality(Geometry(r)) <= Cardinality(Geometry(r0))
    /\ r0.rendered \subseteq r.rendered
    /\ r0.checked \subseteq r.checked \/ r.status = "reviewed"

LEMMA ImprovedIsNotWorse ==
    ASSUME NEW r0 \in Review, NEW r \in Review, NEW s0, NEW s, Improves(r0, r, s0, s)
    PROVE  NotWorse(r0, s0, r, s)
BY DEF Improves, PagesCompare, NotWorse

\* The pages compared may change from pass to pass, but what was seen at first
\* stays seen: a document of another length is compared only if all of it was.
LEMMA StillNotWorse ==
    ASSUME NEW r0 \in Review, NEW r1 \in Review, NEW r \in Review,
           NEW s0 \in SUBSET StructuralIssues, NEW s1 \in SUBSET StructuralIssues,
           NEW s \in SUBSET StructuralIssues,
           ReviewFits(r1), ReviewFits(r),
           NotWorse(r0, s0, r1, s1), Improves(r1, r, s1, s)
    PROVE  NotWorse(r0, s0, r, s)
<1>1. NotWorse(r1, s1, r, s)
  BY ImprovedIsNotWorse
<1> DEFINE x0 == Score(r0.issues) + Score(s0)
           x1 == Score(r1.issues) + Score(s1)
           x == Score(r.issues) + Score(s)
           g0 == Cardinality(Geometry(r0))
           g1 == Cardinality(Geometry(r1))
           g == Cardinality(Geometry(r))
           c0 == Cardinality(s0)
           c1 == Cardinality(s1)
           c == Cardinality(s)
<1>2. /\ x0 \in Nat /\ x1 \in Nat /\ x \in Nat
      /\ g0 \in Nat /\ g1 \in Nat /\ g \in Nat
      /\ c0 \in Nat /\ c1 \in Nat /\ c \in Nat
  BY CountsAreNats
<1>3. /\ x1 < x0 /\ x < x1 /\ g1 <= g0 /\ g <= g1 /\ c1 <= c0 /\ c <= c1
  BY <1>1 DEF NotWorse
<1> HIDE DEF x0, x1, x, g0, g1, g, c0, c1, c
<1>4. x < x0 /\ g <= g0 /\ c <= c0
  BY <1>2, <1>3
<1>5. Severe(r) \subseteq Severe(r0) /\ r0.rendered \subseteq r.rendered
  BY <1>1 DEF NotWorse
<1>6. r0.checked \subseteq r.checked \/ r.status = "reviewed"
  <2>1. CASE r1.total # r.total
    BY <2>1 DEF Improves, PagesCompare
  <2>2. CASE r1.total = r.total /\ r1.checked \subseteq r.checked
    <3>1. CASE r0.checked \subseteq r1.checked
      BY <2>2, <3>1
    <3>2. CASE r1.status = "reviewed"
      <4>1. r.checked = 1..r.total /\ r.checked # {}
        BY <2>2, <3>2 DEF ReviewFits, Improves
      <4> QED
        BY <4>1 DEF ReviewFits
    <3> QED
      BY <3>1, <3>2 DEF NotWorse
  <2> QED
    BY <2>1, <2>2 DEF Improves, PagesCompare
<1> QED
  BY <1>4, <1>5, <1>6 DEF NotWorse, x0, x, g0, g, c0, c

\* A repair that is covered was seen.
LEMMA CoveredIsSeen ==
    ASSUME NEW r \in Review, ReviewFits(r), NEW t \in Targets, Covered(r, t)
    PROVE  r.checked = 1..r.total \/ Seen(r, t)
<1>1. r.page[t] \in 0..r.total /\ r.total \in Nat
  BY DEF ReviewFits, Review
<1>2. CASE r.status = "reviewed"
  BY <1>2 DEF ReviewFits
<1>3. CASE r.page[t] # 0 /\ Neighbours(r, t) \subseteq r.checked
  <2>1. r.page[t] \in Neighbours(r, t)
    BY <1>1, <1>3 DEF Neighbours
  <2> QED
    BY <1>3, <2>1 DEF Seen
<1> QED
  BY <1>2, <1>3 DEF Covered

\* What a pass takes: actions of targets, none of them attempted, all covered.
LEMMA CandidateFacts ==
    ASSUME TypeOK
    PROVE  /\ Candidates \subseteq Targets \X Actions
           /\ Candidates \cap attempted = {}
           /\ CoversEdits(review, Candidates)
<1>1. \A f \in structural \cup review.issues : f.target # None => f.target \in Targets
  <2>1. review.issues \subseteq Findings /\ structural \subseteq StructuralIssues
    BY DEF TypeOK, Review
  <2>2. \A f \in StructuralIssues : f.target \in Targets
    BY DEF StructuralIssues
  <2> QED
    BY <2>1, <2>2, QualityCycleAssumption
<1>2. \A t \in Targets : Allowed[t] \subseteq Actions
  BY QualityCycleAssumption
<1>3. Selectable(structural \cup review.issues) \subseteq Targets \X Actions
  BY <1>1, <1>2 DEF Selectable
<1> QED
  BY <1>3 DEF Candidates, CoversEdits

-----------------------------------------------------------------------------
(* The cycle *)

LEMMA CycleInit == Init => TypeOK /\ CycleInv
<1> SUFFICES ASSUME Init PROVE TypeOK /\ CycleInv
  OBVIOUS
<1>1. /\ pc = "baseline" /\ pass = 0 /\ best = 0 /\ review = NoReview
      /\ structural = {} /\ attempted = {} /\ actions = {} /\ result = 0
      /\ report.iteration = 0 /\ accepted = {} /\ tried = {}
      /\ first.review = NoReview /\ first.structural = {}
  BY DEF Init, NoReport
<1>2. TypeOK
  BY <1>1, NoReviewFacts, QualityCycleAssumption DEF TypeOK
<1>3. ReviewsAreTyped
  BY <1>1, NoReviewFacts DEF ReviewsAreTyped
<1>4. /\ BestIsTheLastAccepted /\ PassesFollowTheBest /\ ResultIsFirstOrBest
      /\ NeverWorse /\ EditsWereSeen
  BY <1>1 DEF BestIsTheLastAccepted, PassesFollowTheBest, ResultIsFirstOrBest, NeverWorse,
              EditsWereSeen
<1> QED
  BY <1>2, <1>3, <1>4 DEF CycleInv

\* Steps that accept nothing: the best copy, its review and what was accepted stay.
LEMMA NothingAccepted ==
    ASSUME TypeOK, CycleInv, UNCHANGED <<best, review, structural, first, accepted>>
    PROVE  ReviewsAreTyped' /\ BestIsTheLastAccepted' /\ NeverWorse' /\ EditsWereSeen'
BY DEF CycleInv, ReviewsAreTyped, BestIsTheLastAccepted, NeverWorse, EditsWereSeen

LEMMA PassIsNat == TypeOK => pass \in Nat /\ best \in Nat /\ best <= pass
BY QualityCycleAssumption DEF TypeOK

LEMMA TypeStays ==
    ASSUME TypeOK, pc' \in {"select", "apply", "promote", "report", "done", "killed"},
           \/ pass' = pass
           \/ pass' = pass + 1 /\ pass' \in 0..MaxPasses,
           UNCHANGED <<best, review, structural, attempted, actions, tried, accepted>>,
           result' = result \/ result' = best,
           report'.iteration = report.iteration \/ report'.iteration = best
    PROVE  TypeOK'
<1>1. /\ pass \in Nat /\ best \in 0..pass /\ result \in 0..pass
      /\ report.iteration \in 0..pass /\ pass' \in 0..MaxPasses
      /\ \A a \in accepted : a.pass \in 1..pass
  BY PassIsNat DEF TypeOK
<1>2. pass <= pass' /\ pass' \in Nat
  BY <1>1, QualityCycleAssumption
<1>3. \A n \in 0..pass : n \in 0..pass'
  BY <1>1, <1>2
<1>4. \A n \in 1..pass : n \in 1..pass'
  BY <1>1, <1>2
<1>5. best' \in 0..pass' /\ result' \in 0..pass' /\ report'.iteration \in 0..pass'
  BY <1>1, <1>3
<1>6. \A a \in accepted' : a.pass \in 1..pass' /\ a.edits \subseteq attempted'
  BY <1>1, <1>4 DEF TypeOK
<1>7. /\ review' \in Review /\ structural' \subseteq StructuralIssues
      /\ attempted' \subseteq Targets \X Actions
      /\ actions' \subseteq attempted' /\ tried' \subseteq attempted'
  BY DEF TypeOK
<1> QED
  BY <1>1, <1>5, <1>6, <1>7 DEF TypeOK

LEMMA BaselineStep ==
    ASSUME TypeOK, CycleInv, Baseline
    PROVE  TypeOK' /\ CycleInv'
<1>1. PICK r \in Reviews, s \in SUBSET StructuralIssues :
         /\ review' = r /\ structural' = s
         /\ first' = [review |-> r, structural |-> s]
  BY DEF Baseline
<1>2. /\ pc = "baseline" /\ pc' = "select" /\ pass' = 1
      /\ UNCHANGED <<best, attempted, actions, result, report, accepted, tried>>
  BY DEF Baseline
<1>3. r \in Review /\ ReviewFits(r)
  BY ReviewFacts
<1>4. pass = 0 /\ best = 0 /\ result = 0 /\ report.iteration = 0
  BY <1>2 DEF CycleInv, PassesFollowTheBest, TypeOK
<1>5. accepted = {}
  BY <1>4 DEF CycleInv, BestIsTheLastAccepted
<1>6. TypeOK'
  BY <1>1, <1>2, <1>3, <1>4, <1>5, QualityCycleAssumption DEF TypeOK
<1>7. ReviewsAreTyped'
  BY <1>1, <1>3 DEF ReviewsAreTyped
<1>8. /\ BestIsTheLastAccepted' /\ PassesFollowTheBest' /\ ResultIsFirstOrBest'
      /\ NeverWorse' /\ EditsWereSeen'
  BY <1>1, <1>2, <1>4, <1>5
     DEF BestIsTheLastAccepted, PassesFollowTheBest, ResultIsFirstOrBest, NeverWorse,
         EditsWereSeen
<1> QED
  BY <1>6, <1>7, <1>8 DEF CycleInv

LEMMA BaselineFailsStep ==
    ASSUME TypeOK, CycleInv, BaselineFails
    PROVE  TypeOK' /\ CycleInv'
<1>1. /\ pc = "baseline" /\ pc' = "promote" /\ structural' \subseteq StructuralIssues
      /\ UNCHANGED <<pass, best, review, attempted, actions, result, report,
                     first, accepted, tried>>
  BY DEF BaselineFails
<1>2. best = 0 /\ result = 0
  BY <1>1 DEF CycleInv, PassesFollowTheBest, TypeOK
<1>3. TypeOK'
  BY <1>1 DEF TypeOK
<1>4. ReviewsAreTyped' /\ BestIsTheLastAccepted' /\ EditsWereSeen'
  BY <1>1 DEF CycleInv, ReviewsAreTyped, BestIsTheLastAccepted, EditsWereSeen
<1>5. PassesFollowTheBest' /\ ResultIsFirstOrBest' /\ NeverWorse'
  BY <1>1, <1>2 DEF PassesFollowTheBest, ResultIsFirstOrBest, NeverWorse
<1> QED
  BY <1>3, <1>4, <1>5 DEF CycleInv

LEMMA SelectStep ==
    ASSUME TypeOK, CycleInv, Select
    PROVE  TypeOK' /\ CycleInv'
<1>1. /\ pc = "select" /\ pc' = "apply" /\ pass < MaxPasses
      /\ actions' = Candidates /\ attempted' = attempted \cup Candidates
      /\ tried' = tried \cup Candidates
      /\ UNCHANGED <<pass, best, review, structural, result, report, first, accepted>>
  BY DEF Select, InTime, Attempted
<1>2. Candidates \subseteq Targets \X Actions /\ CoversEdits(review, Candidates)
  BY CandidateFacts
<1>3. TypeOK'
  BY <1>1, <1>2 DEF TypeOK
<1>4. ReviewsAreTyped' /\ BestIsTheLastAccepted' /\ NeverWorse' /\ EditsWereSeen'
  BY <1>1, NothingAccepted
<1>5. PassesFollowTheBest' /\ ResultIsFirstOrBest'
  BY <1>1, <1>2 DEF CycleInv, PassesFollowTheBest, ResultIsFirstOrBest
<1> QED
  BY <1>3, <1>4, <1>5 DEF CycleInv

\* The candidate of this pass is the best copy now.
LEMMA AcceptStep ==
    ASSUME TypeOK, CycleInv, Accept
    PROVE  TypeOK' /\ CycleInv'
<1>1. PICK r \in Reviews, s \in SUBSET StructuralIssues :
         /\ Improves(review, r, structural, s)
         /\ CoversEdits(r, actions)
         /\ review' = r /\ structural' = s
         /\ accepted' = accepted \cup {[pass |-> pass, edits |-> actions,
                                        before |-> review, after |-> r]}
  BY DEF Accept
<1> DEFINE new == [pass |-> pass, edits |-> actions, before |-> review, after |-> r]
<1>2. /\ new.pass = pass /\ new.edits = actions /\ new.before = review /\ new.after = r
      /\ accepted' = accepted \cup {new}
  BY <1>1
<1> HIDE DEF new
<1>3. /\ pc = "apply" /\ pc' = "select" /\ best' = pass /\ pass' = pass + 1
      /\ UNCHANGED <<attempted, actions, result, report, first, tried>>
  BY DEF Accept
<1>4. r \in Review /\ ReviewFits(r)
  BY ReviewFacts
<1>5. /\ best < pass /\ pass < MaxPasses /\ CoversEdits(review, actions)
      /\ best = 0 => review = first.review /\ structural = first.structural
      /\ result = 0
  BY <1>3 DEF CycleInv, PassesFollowTheBest, ResultIsFirstOrBest
<1>6. /\ pass \in Nat /\ best \in Nat /\ review \in Review /\ ReviewFits(review)
      /\ structural \in SUBSET StructuralIssues /\ first.review \in Review
      /\ first.structural \in SUBSET StructuralIssues
  BY PassIsNat DEF TypeOK, CycleInv, ReviewsAreTyped
<1>7. /\ pass' \in 0..MaxPasses /\ pass' # 0 /\ best' # 0 /\ best' < pass'
      /\ best' \in 0..pass' /\ 0 \in 0..pass'
      /\ pass \in 1..best' /\ pass \in 1..pass'
  BY <1>3, <1>5, <1>6, QualityCycleAssumption
<1>8. \A n \in 1..best : n \in 1..pass /\ n \in 1..pass' /\ n # pass
  BY <1>3, <1>5, <1>6
<1>9. \A a \in accepted : a.pass \in 1..best /\ a.edits \subseteq attempted
  BY DEF CycleInv, BestIsTheLastAccepted, TypeOK
<1>10. TypeOK'
  <2>1. /\ pass' \in 0..MaxPasses /\ best' \in 0..pass' /\ result' \in 0..pass'
        /\ report'.iteration \in 0..pass'
    BY <1>3, <1>5, <1>6, <1>7 DEF TypeOK
  <2>2. \A a \in accepted' : a.pass \in 1..pass' /\ a.edits \subseteq attempted'
    BY <1>2, <1>3, <1>7, <1>8, <1>9 DEF TypeOK
  <2> QED
    BY <1>1, <1>3, <1>4, <2>1, <2>2 DEF TypeOK
<1>11. ReviewsAreTyped'
  BY <1>1, <1>3, <1>4 DEF CycleInv, ReviewsAreTyped
<1>12. BestIsTheLastAccepted'
  <2>1. \A a \in accepted' : a.pass \in 1..best'
    BY <1>2, <1>3, <1>7, <1>8, <1>9
  <2>2. \A a \in accepted' : a.pass = best' => a.after = review'
    BY <1>1, <1>2, <1>3, <1>8, <1>9
  <2> QED
    BY <1>2, <1>3, <2>1, <2>2 DEF BestIsTheLastAccepted
<1>13. PassesFollowTheBest' /\ ResultIsFirstOrBest'
  BY <1>3, <1>5, <1>7 DEF PassesFollowTheBest, ResultIsFirstOrBest
<1>14. NeverWorse'
  <2>1. NotWorse(first.review, first.structural, r, s)
    <3>1. CASE best = 0
      BY <1>1, <1>4, <1>5, <1>6, <3>1, ImprovedIsNotWorse
    <3>2. CASE best # 0
      <4>1. NotWorse(first.review, first.structural, review, structural)
        BY <3>2 DEF CycleInv, NeverWorse, NotWorse
      <4> QED
        BY <1>1, <1>4, <1>6, <4>1, StillNotWorse
    <3> QED
      BY <3>1, <3>2
  <2> QED
    BY <1>1, <1>3, <2>1 DEF NeverWorse, NotWorse
<1>15. EditsWereSeen'
  <2>1. \A e \in actions : e[1] \in Targets
    BY DEF TypeOK
  <2>2. \A e \in actions : \A x \in {review, r} : x.checked = 1..x.total \/ Seen(x, e[1])
    BY <1>1, <1>4, <1>5, <1>6, <2>1, CoveredIsSeen DEF CoversEdits
  <2> QED
    BY <1>2, <2>2 DEF CycleInv, EditsWereSeen
<1> QED
  BY <1>10, <1>11, <1>12, <1>13, <1>14, <1>15 DEF CycleInv

\* What gives up, breaks off or ends a cycle.
LEMMA OtherSteps ==
    ASSUME TypeOK, CycleInv, Stop \/ NoXmlChange \/ Reject \/ Promote \/ Report \/ Kill
    PROVE  TypeOK' /\ CycleInv'
<1>1. /\ UNCHANGED <<best, review, structural, attempted, actions, first, accepted, tried>>
      /\ pc' \in {"select", "apply", "promote", "report", "done", "killed"}
  BY DEF Stop, NoXmlChange, Reject, Promote, Report, Kill
<1>2. \/ pass' = pass
      \/ pc = "apply" /\ pc' = "select" /\ pass' = pass + 1
  BY DEF Stop, NoXmlChange, Reject, Promote, Report, Kill
<1>3. pass' = pass \/ (pass' = pass + 1 /\ pass' \in 0..MaxPasses /\ best < pass')
  BY <1>2, PassIsNat, QualityCycleAssumption DEF CycleInv, PassesFollowTheBest
<1>4. result \in {0, best} /\ (pc = "promote" => result = 0)
  BY DEF CycleInv, ResultIsFirstOrBest
<1>5. /\ result' = result \/ (pc = "promote" /\ result' = best)
      /\ pc' = "report" => result' = best
      /\ pc' \in {"select", "promote"} => pc \in {"select", "apply"} /\ result' = result
      /\ pc' # "apply"
  BY <1>4 DEF Stop, NoXmlChange, Reject, Promote, Report, Kill, Promoted
<1>6. /\ report' = report \/ (report'.iteration = best /\ report'.review = review
                              /\ report'.status = QualityStatus(review, structural))
      /\ pc' = "done" => /\ report'.iteration = best /\ report'.review = review
                         /\ report'.status = QualityStatus(review, structural)
                         /\ pc = "report" /\ result' = result
  BY DEF Stop, NoXmlChange, Reject, Promote, Report, Kill, FinalStatus
<1>7. TypeOK'
  BY <1>1, <1>3, <1>5, <1>6, TypeStays
<1>8. ReviewsAreTyped' /\ BestIsTheLastAccepted' /\ NeverWorse' /\ EditsWereSeen'
  BY <1>1, NothingAccepted
<1>9. PassesFollowTheBest'
  BY <1>1, <1>2, <1>3, <1>5 DEF CycleInv, PassesFollowTheBest
<1>10. ResultIsFirstOrBest'
  <2>1. QualityStatus(review, structural)' = QualityStatus(review, structural)
    BY <1>1 DEF QualityStatus
  <2> QED
    BY <1>1, <1>4, <1>5, <1>6, <2>1 DEF CycleInv, ResultIsFirstOrBest
<1> QED
  BY <1>7, <1>8, <1>9, <1>10 DEF CycleInv

THEOREM CycleIsSafe == Spec => [](TypeOK /\ CycleInv)
<1>1. Init => TypeOK /\ CycleInv
  BY CycleInit
<1>2. TypeOK /\ CycleInv /\ [Next]_vars => (TypeOK /\ CycleInv)'
  <2> SUFFICES ASSUME TypeOK, CycleInv, [Next]_vars PROVE TypeOK' /\ CycleInv'
    OBVIOUS
  <2>1. CASE UNCHANGED vars
    BY <2>1 DEF vars, TypeOK, CycleInv, ReviewsAreTyped, BestIsTheLastAccepted,
                PassesFollowTheBest, ResultIsFirstOrBest, NeverWorse, EditsWereSeen
  <2> QED
    BY <2>1, BaselineStep, BaselineFailsStep, SelectStep, AcceptStep, OtherSteps DEF Next
<1> QED
  BY <1>1, <1>2, PTL DEF Spec

\* The state of a cycle always has its types, whatever the reviewer answers.
THEOREM TypeCorrect == Spec => []TypeOK
BY CycleIsSafe, PTL

\* The result is the document as it came or an accepted copy, and a cycle that
\* ends reports on the copy it leaves.
THEOREM ResultAlwaysAccepted == Spec => []ResultWasAccepted
<1>1. TypeOK /\ CycleInv => ResultWasAccepted
  <2> SUFFICES ASSUME TypeOK, CycleInv PROVE ResultWasAccepted
    OBVIOUS
  <2>1. /\ result = 0 \/ (result = best /\ best # 0)
        /\ best # 0 => \E a \in accepted : a.pass = best
        /\ \A a \in accepted : a.pass = best => a.after = review
    BY DEF CycleInv, ResultIsFirstOrBest, BestIsTheLastAccepted
  <2>2. result \in {0} \cup {a.pass : a \in accepted}
    BY <2>1
  <2>3. ASSUME pc = "done"
        PROVE  /\ result = best /\ report.iteration = best /\ report.review = review
               /\ report.status = QualityStatus(review, structural)
    BY <2>3 DEF CycleInv, ResultIsFirstOrBest
  <2>4. QualityStatus(review, structural) = "checked" =>
           review.checked = 1..review.total /\ review.issues = {}
    BY DEF QualityStatus, CycleInv, ReviewsAreTyped, ReviewFits
  <2> QED
    BY <2>1, <2>2, <2>3, <2>4 DEF ResultWasAccepted
<1> QED
  BY <1>1, CycleIsSafe, PTL

\* Over all passes together the document did not get worse in any respect that
\* is measured, and better in weight.
THEOREM NeverGetsWorse == Spec => []NeverWorse
<1>1. CycleInv => NeverWorse
  BY DEF CycleInv
<1> QED
  BY <1>1, CycleIsSafe, PTL

\* Repairs are kept only where they were seen before and after.
THEOREM EditsAlwaysSeen == Spec => []EditsWereSeen
<1>1. CycleInv => EditsWereSeen
  BY DEF CycleInv
<1> QED
  BY <1>1, CycleIsSafe, PTL

\* No pass takes an action that an earlier one has taken.
THEOREM NeverTriedAgain == Spec => NothingIsTriedTwice
<1>1. TypeOK /\ [Next]_vars => [Selects => actions' \cap tried = {}]_vars
  <2> SUFFICES ASSUME TypeOK, Next, Selects PROVE actions' \cap tried = {}
    OBVIOUS
  <2>1. Select
    BY DEF Next, Selects, Baseline, BaselineFails, Stop, NoXmlChange, Accept, Reject,
           Promote, Report, Kill
  <2>2. actions' = Candidates /\ tried \subseteq attempted
    BY <2>1 DEF Select, TypeOK
  <2> QED
    BY <2>2, CandidateFacts
<1> QED
  BY <1>1, CycleIsSafe, PTL DEF Spec, NothingIsTriedTwice

=============================================================================
