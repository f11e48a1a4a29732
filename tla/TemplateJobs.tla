---------------------------- MODULE TemplateJobs ----------------------------
(***************************************************************************)
(* The jobs of the template workspace of one owner:                        *)
(* apps/template_workspace/v2/views.py and services.py and the command     *)
(* that works on a job.                                                    *)
(*                                                                         *)
(* A request creates a job and, after its transaction, starts a process.   *)
(* The process claims the job, reports its progress and finishes it under  *)
(* an alarm; visits of the owner's pages, which poll, expire jobs that     *)
(* nobody has touched for longer than any process may take.  Times are     *)
(* ages, which stop growing once nothing depends on them.                  *)
(***************************************************************************)
EXTENDS Integers

CONSTANTS
    Jobs,           \* bound: rows of TemplateJob
    Deadline,       \* job_timeout_seconds
    Grace,          \* what stale_job_seconds adds to it
    LegacyStale,    \* the limit of the retired workspace
    MaxReports      \* bound: reports of progress of one process

ASSUME TemplateJobsAssumption ==
    /\ Deadline \in Nat \ {0}
    /\ Grace \in Nat
    /\ LegacyStale \in Nat
    /\ MaxReports \in Nat

Stale == Deadline + Grace                   \* stale_job_seconds
LongAgo == Stale + LegacyStale + 1          \* older than any limit

Native == {"v2", "jamt"}                    \* NATIVE_JOB_KINDS
Open == {"queued", "running"}               \* TemplateJob.pending
Terminal == {"completed", "partial", "failed"}

VARIABLES
    jobs,       \* the rows; age: time since updated_at
    workers     \* the process of each job: "commit" before the callback of the
                \* transaction, "started" before the alarm is set, "armed"
                \* before the claim.  busy: time since the alarm was set;
                \* alarm: it is still to ring; left: reports to come

jobsVars == <<jobs, workers>>

Job == [kind   : Native \cup {"v1"},
        status : Open \cup Terminal \cup {"absent"},
        age    : 0..LongAgo]

Worker == [pc    : {"none", "commit", "started", "armed", "work"},
           busy  : 0..LongAgo,
           alarm : BOOLEAN,
           left  : 0..MaxReports]

NoWorker == [pc |-> "none", busy |-> 0, alarm |-> FALSE, left |-> 0]

\* A job of the retired workspace may have been left behind.
JobsInit ==
    /\ jobs \in [Jobs -> [kind : {"v1"}, status : Open \cup {"absent"}, age : {0}]]
    /\ workers = [j \in Jobs |-> NoWorker]

-----------------------------------------------------------------------------
(* The owner *)

OpenNative(js) == {j \in Jobs : js[j].kind \in Native /\ js[j].status \in Open}

\* Fault: only jobs that were claimed expire.
ExpiredIfClaimed(kinds, limit) ==
    [j \in Jobs |->
        IF jobs[j].kind \in kinds /\ jobs[j].status = "running" /\ jobs[j].age > limit
        THEN [jobs[j] EXCEPT !.status = "failed"]
        ELSE jobs[j]]

\* expire_v2_jobs; nothing refreshes updated_at.
Expired(kinds, limit) ==
    [j \in Jobs |->
        IF jobs[j].kind \in kinds /\ jobs[j].status \in Open /\ jobs[j].age > limit
        THEN [jobs[j] EXCEPT !.status = "failed"]
        ELSE jobs[j]]

\* A page of the owner is shown or polled.
Visit ==
    /\ Expired(Native, Stale) # jobs
    /\ jobs' = Expired(Native, Stale)
    /\ UNCHANGED workers

\* A page of a job of the retired workspace: expire_jobs.
VisitLegacy ==
    /\ Expired({"v1"}, LegacyStale) # jobs
    /\ jobs' = Expired({"v1"}, LegacyStale)
    /\ UNCHANGED workers

\* Fault: only the workspace of the form's own kind is looked at.
MayStartOfKind(kind) ==
    {j \in OpenNative(Expired(Native, Stale)) : jobs[j].kind = kind} = {}

\* The test of the request, in the transaction that creates the job.
MayStart(kind) == OpenNative(Expired(Native, Stale)) = {}

\* workspace, POST
Upload(kind) ==
    /\ MayStart(kind)
    /\ \E j \in Jobs :
          /\ jobs[j].status = "absent"
          /\ jobs' = [Expired(Native, Stale) EXCEPT
                         ![j] = [kind |-> kind, status |-> "queued", age |-> 0]]
          /\ workers' = [workers EXCEPT ![j] = [NoWorker EXCEPT !.pc = "commit"]]

-----------------------------------------------------------------------------
(* The process of a job *)

Goes(j, step) == workers' = [workers EXCEPT ![j].pc = step]
Ends(j) == workers' = [workers EXCEPT ![j] = NoWorker]

\* launch_v2_job
Launch(j) ==
    /\ workers[j].pc = "commit"
    /\ Goes(j, "started")
    /\ UNCHANGED jobs

\* The process cannot be started: the row is failed, whatever its status is.
LaunchFails(j) ==
    /\ workers[j].pc = "commit"
    /\ jobs' = [jobs EXCEPT ![j].status = "failed"]
    /\ Ends(j)

\* The command sets its alarm.
Arm(j) ==
    /\ workers[j].pc = "started"
    /\ workers' = [workers EXCEPT ![j].pc = "armed", ![j].alarm = TRUE]
    /\ UNCHANGED jobs

\* Fault: the claim leaves updated_at alone.
ClaimedOnly(j) == [jobs[j] EXCEPT !.status = "running"]

Claimed(j) == [jobs[j] EXCEPT !.status = "running", !.age = 0]

\* The claim at the head of run_v2_job: only a queued job is worked on.
Claim(j) ==
    /\ workers[j].pc = "armed"
    /\ \/ /\ jobs[j].status = "queued"
          /\ jobs' = [jobs EXCEPT ![j] = Claimed(j)]
          /\ \E n \in 0..MaxReports :
                workers' = [workers EXCEPT ![j].pc = "work", ![j].left = n]
       \/ /\ jobs[j].status # "queued"
          /\ Ends(j)
          /\ UNCHANGED jobs

\* progress: a job that is not running any more is left alone.
ReportProgress(j) ==
    /\ workers[j].pc = "work"
    /\ workers[j].left > 0
    /\ workers' = [workers EXCEPT ![j].left = workers[j].left - 1]
    /\ jobs' = IF jobs[j].status = "running"
               THEN [jobs EXCEPT ![j].age = 0]
               ELSE jobs

\* Fault: the last update does not look at the status.
WrittenAnyway(j, status) == [jobs[j] EXCEPT !.status = status, !.age = 0]

\* The last update of a process, with the filter on its status.
Written(j, status) ==
    IF jobs[j].status = "running"
    THEN [jobs[j] EXCEPT !.status = status, !.age = 0]
    ELSE jobs[j]

\* The result is made, with its PDF or without.
Finish(j) ==
    /\ workers[j].pc = "work"
    /\ workers[j].left = 0
    /\ \E status \in {"completed", "partial"} :
          jobs' = [jobs EXCEPT ![j] = Written(j, status)]
    /\ Ends(j)

\* An exception of the work, or of the alarm when nothing in it stops it.
Fail(j) ==
    /\ workers[j].pc = "work"
    /\ jobs' = [jobs EXCEPT ![j] = Written(j, "failed")]
    /\ Ends(j)

\* The alarm rings in the middle of a request to the model, a review or a
\* repair, whose except clauses take the exception for their own.
AlarmSwallowed(j) ==
    /\ workers[j].pc = "work"
    /\ workers[j].alarm
    /\ workers[j].busy >= Deadline
    /\ workers' = [workers EXCEPT ![j].alarm = FALSE]
    /\ UNCHANGED jobs

\* The process is killed, or was never to start: the limit of its CPU time, a
\* restart of the server, an exception outside of the try statement.
Die(j) ==
    /\ workers[j].pc # "none"
    /\ Ends(j)
    /\ UNCHANGED jobs

-----------------------------------------------------------------------------
(* Time *)

Older(age) == IF age < LongAgo THEN age + 1 ELSE age

Tick ==
    /\ jobs' = [j \in Jobs |->
                   IF jobs[j].status \in Open
                   THEN [jobs[j] EXCEPT !.age = Older(jobs[j].age)]
                   ELSE jobs[j]]
    /\ workers' = [j \in Jobs |->
                   IF workers[j].pc \in {"armed", "work"}
                   THEN [workers[j] EXCEPT !.busy = Older(workers[j].busy)]
                   ELSE workers[j]]

Work(j) ==
    \/ Launch(j)
    \/ LaunchFails(j)
    \/ Arm(j)
    \/ Claim(j)
    \/ ReportProgress(j)
    \/ Finish(j)
    \/ Fail(j)
    \/ AlarmSwallowed(j)
    \/ Die(j)

JobsNext ==
    \/ Visit
    \/ VisitLegacy
    \/ \E kind \in Native : Upload(kind)
    \/ \E j \in Jobs : Work(j)
    \/ Tick

JobsSpec == JobsInit /\ [][JobsNext]_jobsVars

\* Time passes and the owner's page polls; no process need do anything.
FairSpec ==
    JobsSpec /\ WF_jobsVars(Tick) /\ WF_jobsVars(Visit) /\ WF_jobsVars(VisitLegacy)

-----------------------------------------------------------------------------
(* Properties *)

JobsTypeOK ==
    /\ jobs \in [Jobs -> Job]
    /\ workers \in [Jobs -> Worker]

\* "Wait for the end of the current job": an owner has at most one job of
\* either workspace under way.
OneOpenJob == \A i, j \in OpenNative(jobs) : i = j

\* A job that has ended stays as it is: a process whose job was expired, or
\* that was launched too late, neither revives it nor changes its verdict.
KeepsVerdicts ==
    \A j \in Jobs : jobs[j].status \in Terminal => jobs'[j].status = jobs[j].status

VerdictsAreFinal == [][KeepsVerdicts]_jobsVars

\* A visit never gives up a job whose process is at work and within its
\* deadline, however long the job waited for it or the owner stayed away.
KeepsJobsInTime ==
    \A j \in Jobs :
        /\ jobs[j].status = "running"
        /\ workers[j].pc = "work"
        /\ workers[j].busy <= Deadline
        /\ workers'[j] = workers[j]
        => jobs'[j].status = "running"

JobsInTimeAreKept == [][KeepsJobsInTime]_jobsVars

\* Whatever becomes of its process, a job does not stay open while its owner
\* looks at it.
JobsEnd == \A j \in Jobs : jobs[j].status \in Open ~> jobs[j].status \in Terminal

=============================================================================
