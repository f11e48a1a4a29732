------------------------------ MODULE CheckRuns ------------------------------
(***************************************************************************)
(* The automatic checks of one submission: apps/checks/services.py and the *)
(* handlers that queue them.                                               *)
(*                                                                         *)
(* Every check of every version is one CheckRun row.  Rows are worked on   *)
(* by detached manage.py processes ("workers") and by the watchdog, which  *)
(* a systemd timer starts once a minute.  A process owns a row through a   *)
(* claim token and keeps it by a heartbeat; every write of a row is one    *)
(* UPDATE with a filter, so one action is one statement or one             *)
(* transaction.atomic block (SQLite runs those one after another).         *)
(*                                                                         *)
(* Time is abstracted to what the watchdog tells apart: a timestamp is     *)
(* "fresh" when it is later than the instant stalled_before.  Quiet is the *)
(* passing of that instant: everything written so far becomes stale.  The  *)
(* watchdog computes stalled_before once, so Quiet waits while it decides. *)
(***************************************************************************)
EXTENDS Integers, FiniteSets

CONSTANTS
    NumChecks,      \* active check definitions, worked through in order
    MaxVersions,    \* bound: versions of the submission
    MaxRuns,        \* bound: explicit runs (prepare_submission_checks)
    MaxCrashes,     \* bound: processes killed, launches lost
    MaxAnnouncements, \* bound: checks announced before their rows exist
    MaxRequests,    \* bound: web requests open at a time
    Workers,        \* slots for run_submission_checks processes
    Dog,            \* the watchdog process
    Tokens,         \* uuid4 values
    NoToken,        \* claim_token IS NULL
    Verdicts,       \* terminal CheckRun statuses
    HasTemplate     \* a formatting template is attached

ASSUME CheckRunsAssumption ==
    /\ NumChecks \in Nat \ {0}
    /\ MaxVersions \in Nat \ {0}
    /\ MaxRuns \in Nat
    /\ MaxCrashes \in Nat
    /\ MaxAnnouncements \in Nat
    /\ MaxRequests \in Nat
    /\ Dog \notin Workers
    /\ NoToken \notin Tokens
    /\ Verdicts # {}
    /\ Verdicts \cap {"absent", "pending", "running"} = {}
    /\ HasTemplate \in BOOLEAN

Checks == 1..NumChecks
Versions == 1..MaxVersions
Procs == Workers \cup {Dog}

Statuses ==
    {"draft", "auto_checking", "submitted", "in_review", "revision_requested",
     "closed"}                          \* approved or rejected

\* Web requests that read first and write in a later statement.
Kinds == {"edit", "announce", "submit", "decide"}

\* A CheckRun row; "absent" is a row that get_or_create has not made yet.
\* fresh: its latest timestamp is later than stalled_before.
Row == [status : Verdicts \cup {"absent", "pending", "running"},
        token  : Tokens \cup {NoToken},
        fresh  : BOOLEAN]

\* A process: where it stands in run_mock_checks, the check it is at, the
\* version it was started for, its claim and its resume flag.
PCs == {"idle", "selected", "reset", "start", "read", "claim", "reread",
        "eval", "finalize", "post", "resume"}

Proc == [pc      : PCs,
         check   : Checks,
         version : Versions,
         token   : Tokens \cup {NoToken},
         resume  : BOOLEAN]

VARIABLES
    sub,        \* the Submission row; latest: its last uploaded version;
                \* route: it has an ACTIVE WorkflowRun
    rows,       \* the CheckRun rows
    procs,      \* the processes
    dogSeen,    \* what the watchdog read and acts on
    request,    \* open: web requests between their first read and their
                \* commit; announced: announcements so far
    runs,       \* explicit runs so far
    crashes     \* crashes so far

vars == <<sub, rows, procs, dogSeen, request, runs, crashes>>

AbsentRow ==
    [status |-> "absent", token |-> NoToken, fresh |-> FALSE]

Idle == [pc |-> "idle", check |-> 1, version |-> 1, token |-> NoToken,
         resume |-> FALSE]

Unseen == [fresh |-> FALSE, tokens |-> [c \in Checks |-> NoToken]]

Init ==
    /\ sub = [status |-> "draft", version |-> 1, latest |-> 1,
              fresh |-> FALSE, route |-> FALSE]
    /\ rows = [vc \in Versions \X Checks |-> AbsentRow]
    /\ procs = [p \in Procs |-> Idle]
    /\ dogSeen = Unseen
    /\ request = [open |-> {}, announced |-> 0]
    /\ runs = 0
    /\ crashes = 0

-----------------------------------------------------------------------------
(* Helpers *)

TerminalRow(v, c) == rows[v, c].status \in Verdicts

AnyTerminal(v) == \E c \in Checks : TerminalRow(v, c)      \* fault

AllTerminal(v) == \A c \in Checks : TerminalRow(v, c)

\* Fault: the claim forgets to ask for PENDING.
ClaimableByToken(r) == r.token = NoToken

\* The filter of the claim: PENDING, no claim_token, no heartbeat_at.
Claimable(r) == r.status = "pending" /\ r.token = NoToken

\* Fault: the claim survives the reset.
ReopenedKeepingClaim(r) == [r EXCEPT !.status = "pending"]

\* A row put back to PENDING, with the claim and the times cleared.  A row
\* made by get_or_create has a fresh created_at.
Reopened(r) ==
    [status |-> "pending", token |-> NoToken,
     fresh |-> r.status = "absent"]

\* Tokens some row or some process still holds; uuid4 never repeats one.
TokensInUse ==
    {rows[vc].token : vc \in Versions \X Checks}
        \cup {procs[p].token : p \in Procs}
        \cup {dogSeen.tokens[c] : c \in Checks}

\* run_mock_checks returns, or its process dies.
Stop(p) == procs' = [procs EXCEPT ![p] = Idle]

\* The loop moves on to the next definition, or ends.
Advanced(p) ==
    IF procs[p].check < NumChecks
    THEN [procs[p] EXCEPT !.pc = "read", !.check = @ + 1, !.token = NoToken]
    ELSE [procs[p] EXCEPT !.pc = "finalize", !.token = NoToken]

Advance(p) == procs' = [procs EXCEPT ![p] = Advanced(p)]

AlwaysCurrent(p) == TRUE                                    \* fault

StillCurrent(p) == sub.version = procs[p].version

\* Fault: the final write checks the status but not the token.
OwnsRowByStatus(p) ==
    rows[procs[p].version, procs[p].check].status = "running"

\* The process still owns the row it evaluates.
OwnsRow(p) ==
    LET r == rows[procs[p].version, procs[p].check] IN
        /\ r.status = "running"
        /\ r.token = procs[p].token

-----------------------------------------------------------------------------
(* Requests *)

Opened(kind) ==
    /\ kind \notin request.open
    /\ Cardinality(request.open) < MaxRequests
    /\ request' = [request EXCEPT !.open = @ \cup {kind}]

Committed(kind) ==
    /\ kind \in request.open
    /\ request' = [request EXCEPT !.open = @ \ {kind}]

\* launch_submission_checks_process in on_commit: a process is started, or
\* Popen fails after the commit and nobody is.
Launched(v, resume) ==
    \/ \E w \in Workers :
        /\ procs[w].pc = "idle"
        /\ procs' = [procs EXCEPT ![w] =
                        [Idle EXCEPT !.pc = "start", !.version = v,
                                     !.resume = resume]]
        /\ UNCHANGED crashes
    \/ /\ crashes < MaxCrashes
       /\ crashes' = crashes + 1
       /\ UNCHANGED procs

\* prepare_submission_checks for version v, in one transaction.
Prepared(v) ==
    /\ runs < MaxRuns
    /\ runs' = runs + 1
    /\ rows' = [vc \in Versions \X Checks |->
                    IF vc[1] = v THEN Reopened(rows[vc]) ELSE rows[vc]]

\* queue_submission_checks, as the detail page and the template worker call
\* it: whatever the status is by then.
QueueChecks ==
    /\ Prepared(sub.version)
    /\ sub' = [sub EXCEPT !.status = "auto_checking", !.fresh = TRUE]
    /\ Launched(sub.version, FALSE)
    /\ UNCHANGED <<dogSeen, request>>

\* add_submission_version: the version, the switch and the run in one
\* transaction; resumes the route when a revision had been requested.
AddSubmissionVersion ==
    /\ sub.status \in {"draft", "auto_checking", "submitted",
                       "revision_requested"}
    /\ sub.latest < MaxVersions
    /\ Prepared(sub.latest + 1)
    /\ sub' = [sub EXCEPT !.status = "auto_checking", !.fresh = TRUE,
                          !.version = sub.latest + 1, !.latest = @ + 1]
    /\ Launched(sub.latest + 1, sub.status = "revision_requested")
    /\ UNCHANGED <<dogSeen, request>>

\* start_submission_checks_view with an unprocessed template tests the
\* submission it loaded: a draft, or checks announced without any row.
OpenMark ==
    /\ HasTemplate
    /\ "announce" \notin request.open
    /\ Cardinality(request.open) < MaxRequests
    /\ request.announced < MaxAnnouncements
    /\ \/ sub.status = "draft"
       \/ /\ sub.status = "auto_checking"
          /\ \A c \in Checks : rows[sub.version, c].status = "absent"
    /\ request' = [open |-> request.open \cup {"announce"},
                   announced |-> request.announced + 1]
    /\ UNCHANGED <<sub, rows, procs, dogSeen, runs, crashes>>

\* Then it saves the status, whatever it is by now; the rows are made when
\* the template worker queues the checks.
MarkChecking ==
    /\ sub' = [sub EXCEPT !.status = "auto_checking", !.fresh = TRUE]
    /\ Committed("announce")
    /\ UNCHANGED <<rows, procs, dogSeen, runs, crashes>>

\* update_formatting_rules_view: saves the rules, then queues the checks.
EditRules ==
    /\ sub.status \in {"draft", "auto_checking", "submitted"}
    /\ runs < MaxRuns
    /\ sub' = [sub EXCEPT !.fresh = TRUE]
    /\ Opened("edit")
    /\ UNCHANGED <<rows, procs, dogSeen, runs, crashes>>

EditRulesQueue ==
    /\ Prepared(sub.version)
    /\ sub' = [sub EXCEPT !.status = "auto_checking", !.fresh = TRUE]
    /\ Launched(sub.version, FALSE)
    /\ Committed("edit")
    /\ UNCHANGED dogSeen

\* submit_submission_view: the status is checked on the object the request
\* loaded; start_route_review_workflow then looks for an ACTIVE run only.
OpenSubmit ==
    /\ sub.status = "submitted"
    /\ Opened("submit")
    /\ UNCHANGED <<sub, rows, procs, dogSeen, runs, crashes>>

CommitSubmit ==
    /\ sub' = IF sub.route
              THEN sub
              ELSE [sub EXCEPT !.status = "in_review", !.route = TRUE,
                               !.fresh = TRUE]
    /\ Committed("submit")
    /\ UNCHANGED <<rows, procs, dogSeen, runs, crashes>>

\* A decision is opened on a task of the active run, or on an appeal against
\* a rejection.
OpenDecision ==
    /\ sub.route \/ sub.status = "closed"
    /\ Opened("decide")
    /\ UNCHANGED <<sub, rows, procs, dogSeen, runs, crashes>>

\* approve_task, reject_task, request_revision and the decision on an appeal
\* write the submission's status without reading it.  refresh_from_db on the
\* step has dropped the run and the submission the view had loaded, so the
\* version saved with the status is the one of the transaction.  A granted
\* appeal makes the run active again; a late approval leaves it as it is.
ReviewerDecides ==
    /\ \E status \in {"in_review", "revision_requested", "closed"},
          active \in {TRUE, sub.route} :
          sub' = [sub EXCEPT !.status = status, !.fresh = TRUE,
                             !.route = status = "in_review" /\ active]
    /\ Committed("decide")
    /\ UNCHANGED <<rows, procs, dogSeen, runs, crashes>>

-----------------------------------------------------------------------------
(* run_mock_checks, in a worker or in the watchdog *)

\* The submission is loaded, the version compared, missing rows created.
\* The watchdog prepares the template first, which touches updated_at.
StartWork(p) ==
    /\ procs[p].pc = "start"
    /\ IF StillCurrent(p)
       THEN /\ rows' = [vc \in Versions \X Checks |->
                            IF vc[1] = sub.version /\ rows[vc].status = "absent"
                            THEN Reopened(rows[vc])
                            ELSE rows[vc]]
            /\ procs' = [procs EXCEPT ![p].pc = "read"]
            /\ sub' = [sub EXCEPT !.fresh = @ \/ (p = Dog /\ HasTemplate)]
       ELSE Stop(p) /\ UNCHANGED <<rows, sub>>
    /\ UNCHANGED <<dogSeen, request, runs, crashes>>

\* The current version and the row of the next definition are read.
ReadRow(p) ==
    /\ procs[p].pc = "read"
    /\ LET r == rows[procs[p].version, procs[p].check] IN
        \/ /\ StillCurrent(p)
           /\ r.status \in Verdicts
           /\ Advance(p)
        \/ /\ StillCurrent(p)
           /\ Claimable(r)
           /\ procs' = [procs EXCEPT ![p].pc = "claim"]
        \/ /\ \/ ~StillCurrent(p)
              \/ r.status \notin Verdicts /\ ~Claimable(r)
           /\ Stop(p)
    /\ UNCHANGED <<sub, rows, dogSeen, request, runs, crashes>>

\* The claim: UPDATE ... WHERE status = pending AND claim_token IS NULL.
Claim(p) ==
    /\ procs[p].pc = "claim"
    /\ LET vc == <<procs[p].version, procs[p].check>> IN
        IF Claimable(rows[vc])
        THEN \E t \in Tokens \ TokensInUse :
                /\ rows' = [rows EXCEPT ![vc] =
                                [status |-> "running", token |-> t,
                                 fresh |-> TRUE]]
                /\ procs' = [procs EXCEPT ![p].pc = "eval", ![p].token = t]
        ELSE /\ procs' = [procs EXCEPT ![p].pc = "reread"]
             /\ UNCHANGED rows
    /\ UNCHANGED <<sub, dogSeen, request, runs, crashes>>

\* The claim was lost: go on if the row is terminal by now, else give up.
Reread(p) ==
    /\ procs[p].pc = "reread"
    /\ IF TerminalRow(procs[p].version, procs[p].check)
       THEN Advance(p)
       ELSE Stop(p)
    /\ UNCHANGED <<sub, rows, dogSeen, request, runs, crashes>>

\* The heartbeat thread of a row under evaluation.
Heartbeat(p) ==
    /\ procs[p].pc = "eval"
    /\ OwnsRow(p)
    /\ rows' = [rows EXCEPT ![<<procs[p].version, procs[p].check>>].fresh = TRUE]
    /\ UNCHANGED <<sub, procs, dogSeen, request, runs, crashes>>

\* The evaluation ends; its result is written only if the claim still holds.
FinishEval(p) ==
    /\ procs[p].pc = "eval"
    /\ IF OwnsRow(p)
       THEN \E verdict \in Verdicts :
                /\ rows' = [rows EXCEPT ![<<procs[p].version, procs[p].check>>] =
                                [status |-> verdict, token |-> NoToken,
                                 fresh |-> TRUE]]
                /\ Advance(p)
       ELSE Stop(p) /\ UNCHANGED rows
    /\ UNCHANGED <<sub, dogSeen, request, runs, crashes>>

\* _finalize_submission_checks_if_complete, the transaction.
Finalize(p) ==
    /\ procs[p].pc = "finalize"
    /\ IF /\ StillCurrent(p)
          /\ AllTerminal(procs[p].version)
          /\ sub.status = "auto_checking"
       THEN /\ sub' = [sub EXCEPT !.status = "submitted", !.fresh = TRUE]
            /\ IF procs[p].resume
               THEN procs' = [procs EXCEPT ![p].pc = "post"]
               ELSE Stop(p)
       ELSE Stop(p) /\ UNCHANGED sub
    /\ UNCHANGED <<rows, dogSeen, request, runs, crashes>>

\* After that transaction: the submission is loaded once more and its version
\* compared.
LoadForResume(p) ==
    /\ procs[p].pc = "post"
    /\ IF StillCurrent(p)
       THEN procs' = [procs EXCEPT ![p].pc = "resume"]
       ELSE Stop(p)
    /\ UNCHANGED <<sub, rows, dogSeen, request, runs, crashes>>

\* resume_or_start_workflow with that object.  A paused approval of the route
\* saves the status only; another paused run and start_workflow save every
\* column, the version as it was loaded included; start_workflow raises when
\* a run is active.
ResumeWorkflow(p) ==
    /\ procs[p].pc = "resume"
    /\ \/ sub.route /\ UNCHANGED sub
       \/ \E version \in {sub.version, procs[p].version} :
             sub' = [sub EXCEPT !.status = "in_review", !.route = TRUE,
                                !.fresh = TRUE, !.version = version]
    /\ Stop(p)
    /\ UNCHANGED <<rows, dogSeen, request, runs, crashes>>

\* A process is killed, or an exception ends it, anywhere.
Crash(p) ==
    /\ procs[p].pc # "idle"
    /\ crashes < MaxCrashes
    /\ crashes' = crashes + 1
    /\ Stop(p)
    /\ UNCHANGED <<sub, rows, dogSeen, request, runs>>

-----------------------------------------------------------------------------
(* recover_stalled_submission_checks *)

\* The queryset: now, the submission and its version.  By the time the rows
\* are read, earlier submissions of the same pass may have taken minutes.
DogSelect ==
    /\ procs[Dog].pc = "idle"
    /\ sub.status = "auto_checking"
    /\ procs' = [procs EXCEPT ![Dog] =
                    [Idle EXCEPT !.pc = "selected", !.version = sub.version]]
    /\ dogSeen' = [Unseen EXCEPT !.fresh = sub.fresh]
    /\ UNCHANGED <<sub, rows, request, runs, crashes>>

\* Fault: a version without unfinished rows is left to its worker.
StalledUnfinished(v) ==
    /\ ~dogSeen.fresh
    /\ \A c \in Checks : rows[v, c].status # "absent" => ~rows[v, c].fresh
    /\ ~AllTerminal(v)

\* All recorded activity of version v is stale: updated_at as selected, and
\* the latest timestamp of every existing row.
Stalled(v) ==
    /\ ~dogSeen.fresh
    /\ \A c \in Checks : rows[v, c].status # "absent" => ~rows[v, c].fresh

\* The rows are read; the submission is skipped unless it has stalled.
DogScan ==
    /\ procs[Dog].pc = "selected"
    /\ LET v == procs[Dog].version
           running == {c \in Checks : rows[v, c].status = "running"}
       IN  IF Stalled(v)
           THEN /\ procs' = [procs EXCEPT ![Dog].pc =
                                IF running = {} THEN "start" ELSE "reset"]
                /\ dogSeen' = [fresh  |-> FALSE,
                               tokens |-> [c \in Checks |->
                                    IF c \in running
                                    THEN rows[v, c].token ELSE NoToken]]
           ELSE Stop(Dog) /\ dogSeen' = Unseen
    /\ UNCHANGED <<sub, rows, request, runs, crashes>>

\* Fault: progress since the reading is not looked at.
UntouchedByToken(v, c) ==
    /\ rows[v, c].status = "running"
    /\ rows[v, c].token = dogSeen.tokens[c]

\* The filters of the reset: still the claim that was read, and no progress.
Untouched(v, c) ==
    /\ rows[v, c].status = "running"
    /\ rows[v, c].token = dogSeen.tokens[c]
    /\ ~rows[v, c].fresh

\* One transaction returns every stale claim to PENDING, or none if any of
\* their workers has made progress.
DogReset ==
    /\ procs[Dog].pc = "reset"
    /\ LET v == procs[Dog].version
           claimed == {c \in Checks : dogSeen.tokens[c] # NoToken}
       IN  IF \A c \in claimed : Untouched(v, c)
           THEN /\ rows' = [vc \in Versions \X Checks |->
                                IF vc[1] = v /\ vc[2] \in claimed
                                THEN Reopened(rows[vc]) ELSE rows[vc]]
                /\ procs' = [procs EXCEPT ![Dog].pc = "start"]
           ELSE Stop(Dog) /\ UNCHANGED rows
    /\ dogSeen' = Unseen
    /\ UNCHANGED <<sub, request, runs, crashes>>

\* The instant stalled_before passes everything written so far.
Quiet ==
    /\ procs[Dog].pc \notin {"selected", "reset"}
    /\ sub' = [sub EXCEPT !.fresh = FALSE]
    /\ rows' = [vc \in Versions \X Checks |-> [rows[vc] EXCEPT !.fresh = FALSE]]
    /\ UNCHANGED <<procs, dogSeen, request, runs, crashes>>

-----------------------------------------------------------------------------
Work(p) ==
    \/ StartWork(p)
    \/ ReadRow(p)
    \/ Claim(p)
    \/ Reread(p)
    \/ FinishEval(p)
    \/ Finalize(p)
    \/ LoadForResume(p)
    \/ ResumeWorkflow(p)

Watchdog == DogSelect \/ DogScan \/ DogReset

Next ==
    \/ QueueChecks
    \/ AddSubmissionVersion
    \/ OpenMark
    \/ MarkChecking
    \/ EditRules
    \/ EditRulesQueue
    \/ OpenSubmit
    \/ CommitSubmit
    \/ OpenDecision
    \/ ReviewerDecides
    \/ \E p \in Procs : Work(p) \/ Heartbeat(p) \/ Crash(p)
    \/ Watchdog
    \/ Quiet

Spec == Init /\ [][Next]_vars

\* Started processes run on until they return or are killed, systemd starts
\* the watchdog again and again, and time passes.  Nothing is assumed of the
\* users, and a heartbeat may be late or missing.
FairSpec ==
    /\ Spec
    /\ \A p \in Procs : WF_vars(Work(p))
    /\ WF_vars(Watchdog)
    /\ SF_vars(Quiet)

-----------------------------------------------------------------------------
(* Properties *)

TypeOK ==
    /\ sub \in [status : Statuses, version : Versions, latest : Versions,
                fresh : BOOLEAN, route : BOOLEAN]
    /\ rows \in [Versions \X Checks -> Row]
    /\ procs \in [Procs -> Proc]
    /\ dogSeen \in [fresh : BOOLEAN,
                    tokens : [Checks -> Tokens \cup {NoToken}]]
    /\ request \in [open : SUBSET Kinds, announced : 0..MaxAnnouncements]
    /\ runs \in 0..MaxRuns
    /\ crashes \in 0..MaxCrashes

\* "Submitted" (ready to be sent) is shown only when every check of the
\* current version has a terminal result: _finalize_submission_checks_if_
\* complete re-reads version and rows under the lock, and nothing reopens a
\* row without also going back to auto_checking.
SubmittedIsChecked ==
    sub.status = "submitted" => \A c \in Checks : TerminalRow(sub.version, c)

\* A claim token is on a row exactly while it is RUNNING, and no two rows and
\* no two evaluations share one: the filters on claim_token identify one claim.
ClaimsAreExclusive ==
    /\ \A vc \in Versions \X Checks :
          rows[vc].token # NoToken <=> rows[vc].status = "running"
    /\ \A a, b \in Versions \X Checks :
          rows[a].token = rows[b].token /\ rows[a].token # NoToken => a = b
    /\ \A p, q \in Procs :
          /\ procs[p].pc = "eval"
          /\ procs[q].pc = "eval"
          /\ procs[p].token = procs[q].token
          => p = q
    /\ \A p \in Procs, vc \in Versions \X Checks :
          /\ procs[p].pc = "eval"
          /\ procs[p].token = rows[vc].token
          => vc = <<procs[p].version, procs[p].check>>

KeepsResults ==
    \A vc \in Versions \X Checks :
        /\ rows[vc].status \in Verdicts
        /\ [rows'[vc] EXCEPT !.fresh = rows[vc].fresh] # rows[vc]
        => runs' = runs + 1

\* Terminal results are kept until an explicit new run: neither the watchdog
\* nor a second or superseded worker ever changes one ("Existing terminal
\* results are preserved", services.py:336).
ResultsArePreserved == [][KeepsResults]_vars

OwnersWrite ==
    \A vc \in Versions \X Checks :
        /\ rows[vc].status \notin Verdicts
        /\ rows'[vc].status \in Verdicts
        => \E p \in Procs :
              /\ procs[p].pc = "eval"
              /\ procs'[p].pc # "eval"
              /\ vc = <<procs[p].version, procs[p].check>>
              /\ procs[p].token = rows[vc].token

\* A result is written over a claim only by the process that made that claim
\* and for the version and check it was evaluating: a worker superseded by
\* the watchdog or by a new run cannot overwrite the recovered row
\* (services.py:337-339).
SupersededWorkersAreSilent == [][OwnersWrite]_vars

KeepsLiveClaims ==
    \A vc \in Versions \X Checks :
        /\ rows[vc].status = "running"
        /\ rows[vc].fresh
        /\ rows'[vc].status = "pending"
        => runs' = runs + 1

\* The watchdog takes a claim away only while nothing of it is later than
\* stalled_before: a heartbeat between its reading and its transaction
\* saves the worker.
LiveClaimsAreKept == [][KeepsLiveClaims]_vars

\* Checking never gets stuck: whatever is killed or lost, the submission
\* leaves auto_checking, because the watchdog finishes what nobody else does.
CheckingEnds == (sub.status = "auto_checking") ~> (sub.status # "auto_checking")

\* The protocol implements the board of checks.
Board == INSTANCE CheckBoard WITH
    status <- sub.status,
    version <- sub.version,
    latest <- sub.latest,
    done <- [v \in Versions |-> {c \in Checks : TerminalRow(v, c)}]

ImplementsBoard == Board!Board

(* Claims of the code's texts that do not hold *)

\* "test_upload_new_version_after_revision_request_auto_returns_to_review"
\* (submissions/tests.py:1635): once the worker of a version uploaded after a
\* revision request has started, the material goes back to review by itself.
RevisionReturnsToReview ==
    (\E p \in Workers : /\ procs[p].pc = "start"
                        /\ procs[p].resume
                        /\ procs[p].version = sub.version)
        ~> (sub.status = "in_review")

=============================================================================
