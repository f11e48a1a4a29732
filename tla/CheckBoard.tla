----------------------------- MODULE CheckBoard -----------------------------
(***************************************************************************)
(* What the automatic checks of one submission promise, without saying     *)
(* anything about processes, claims or time: each version has a board of   *)
(* checks, a check is either open or done, only an explicit new run opens  *)
(* a done check again, and the submission leaves auto_checking only when   *)
(* every check of its current version is done.                             *)
(*                                                                         *)
(* CheckRuns shows that the worker and watchdog protocol of                *)
(* apps/checks/services.py implements this.                                *)
(***************************************************************************)
EXTENDS Integers

CONSTANTS
    NumChecks,      \* how many check definitions are active
    MaxVersions     \* how many versions the author may upload

Checks == 1..NumChecks
Versions == 1..MaxVersions

VARIABLES
    status,     \* Submission.status, as far as the checks see it
    version,    \* number of Submission.current_version
    latest,     \* number of the last version uploaded
    done        \* done[v]: checks of version v whose CheckRun is terminal

bvars == <<status, version, latest, done>>

BoardInit ==
    /\ status = "draft"
    /\ version = 1
    /\ latest = 1
    /\ done = [v \in Versions |-> {}]

\* An explicit run of the current version reopens all of its checks.
Rerun ==
    /\ status' = "auto_checking"
    /\ done' = [done EXCEPT ![version] = {}]
    /\ UNCHANGED <<version, latest>>

\* A new version becomes current with all of its checks open.
NewVersion ==
    /\ latest < MaxVersions
    /\ latest' = latest + 1
    /\ version' = latest + 1
    /\ status' = "auto_checking"
    /\ done' = [done EXCEPT ![latest + 1] = {}]

\* Checking is announced before the rows exist (template first), by a request
\* that may have looked at the submission much earlier.
Announce ==
    /\ status' = "auto_checking"
    /\ UNCHANGED <<version, latest, done>>

\* One check of any version is completed, once.
Record(v, c) ==
    /\ c \notin done[v]
    /\ done' = [done EXCEPT ![v] = @ \cup {c}]
    /\ UNCHANGED <<status, version, latest>>

\* Checking ends: never before every check of the current version is done.
Complete ==
    /\ status = "auto_checking"
    /\ done[version] = Checks
    /\ status' = "submitted"
    /\ UNCHANGED <<version, latest, done>>

\* The approval route takes the material over, returns it or decides on it.
\* A route that is resumed may make an older version current again; it never
\* makes one current that was not uploaded.
Review ==
    /\ status' \in {"in_review", "revision_requested", "closed"}
    /\ version' \in 1..latest
    /\ UNCHANGED <<latest, done>>

BoardNext ==
    \/ Rerun
    \/ NewVersion
    \/ Announce
    \/ \E v \in Versions, c \in Checks : Record(v, c)
    \/ Complete
    \/ Review

Board == BoardInit /\ [][BoardNext]_bvars

=============================================================================
