-------------------------- MODULE ConclusionChain --------------------------
(***************************************************************************)
(* The conclusion of one workflow run (apps/conclusions/services.py): the  *)
(* sealed document, the signatures that are chained by hashes, and the     *)
(* package of three files that the last approval makes.                    *)
(*                                                                         *)
(* Rows are written in the transaction of an approval and files at once:   *)
(* an approval that raises or whose process is killed takes back its rows  *)
(* and not its files.  A request loads the task, its run and the current   *)
(* version before the transaction and signs what it has loaded; the        *)
(* transaction looks at nothing of it again but whether this task was      *)
(* signed.  ApprovalRoute has the route; here it is reduced to the tasks   *)
(* that were opened.                                                       *)
(***************************************************************************)
EXTENDS Integers, Sequences, FiniteSets

CONSTANTS
    Requests,       \* web requests of the reviewers
    MaxTasks,       \* bound: tasks of the run
    MaxSignatures,  \* bound: signatures of the conclusion
    MaxVersions,    \* bound: versions of the manuscript
    MaxClock,       \* bound: seconds
    MaxFiles,       \* bound: files ever written
    MaxFaults       \* bound: exceptions and killed processes

ASSUME ConclusionChainAssumption ==
    /\ {MaxTasks, MaxSignatures, MaxVersions, MaxClock, MaxFiles, MaxFaults}
          \subseteq Nat
    /\ MaxVersions > 0
    /\ MaxTasks > 0

Versions == 1..MaxVersions
Times == 0..MaxClock
Names == 1..MaxFiles
Ids == 1..MaxSignatures
Tasks == 1..MaxTasks

\* The hash of an event stands for the signature it was computed of: prev is
\* the id of that signature, 0 for the empty hash.
Signature == [task : Tasks, version : Versions, time : Times,
              prev : 0..MaxSignatures]

\* What a file says: the document of a version, the PDF of a file, and its
\* printed form and signature data, with the signatures they show.
Content ==
    [kind : {"docx"}, version : Versions]
        \cup [kind : {"pdf"}, of : Names]
        \cup [kind : {"printed", "xml"}, of : Names, count : Ids]

NoFile == [kind |-> "none"]

\* A FileField that is set, with its SHA-256 (which stands for the content).
Stored == [name : Names, hash : Content]

Empty == [name |-> 0, hash |-> NoFile]

VARIABLES
    status,     \* Submission.status, in review while the run is active
    version,    \* its current version
    latest,     \* the last version that was uploaded
    tasks,      \* how many tasks were opened
    open,       \* the active ones
    reads,      \* what the requests have loaded: a task and the version
    clock,      \* timezone.now()
    back,       \* the clock was set back once
    late,       \* something used a version that was not the current one
    document,   \* the sealed DOCX, Empty if there is no ConclusionDocument
    chain,      \* ConclusionSignature rows, by id
    package,    \* the three files of the row, in the order they are saved;
                \* they are set together with package_finalized_at
    disk,       \* disk[f]: content of file f, NoFile if there is none
    approval,   \* the transaction that holds the database
    faults,     \* exceptions that were raised in an approval
    kills       \* approvals whose process or commit failed

route == <<status, version, latest, tasks, open>>
time == <<clock, back>>
conclusion == <<document, chain, package>>

vars == <<route, reads, time, late, conclusion, disk, approval, faults, kills>>

\* Nothing loaded.
Unread == [task |-> 0, version |-> 0]

Read == [task : Tasks, version : Versions] \cup {Unread}

\* pc: which file is written next.  task: the one that is approved.
\* signature: the new row.  saved: the files of saved_files.  writing: the
\* file that a save has created and that is not among them yet.
Approval ==
    [pc : {"idle", "docx", "seal", "source", "printed", "xml", "row"},
     task : Tasks,
     signature : Seq(Signature),
     saved : Seq(Stored),
     writing : Seq(Stored)]

Idle == [pc |-> "idle", task |-> 1, signature |-> <<>>, saved |-> <<>>,
         writing |-> <<>>]

NoPackage == <<>>

Init ==
    /\ status = "in_review"
    /\ version = 1
    /\ latest = 1
    /\ tasks = 1
    /\ open = {1}
    /\ reads = [r \in Requests |-> Unread]
    /\ clock = 0
    /\ back = FALSE
    /\ late = FALSE
    /\ document = Empty
    /\ chain = <<>>
    /\ package = NoPackage
    /\ disk = [f \in Names |-> NoFile]
    /\ approval = Idle
    /\ faults = 0
    /\ kills = 0

-----------------------------------------------------------------------------
(* Around the conclusion *)

\* An approval reads the clock when it begins, so that nothing is lost by
\* letting time pass between the approvals only.
Tick ==
    /\ approval = Idle
    /\ clock < MaxClock
    /\ clock' = clock + 1
    /\ UNCHANGED <<route, reads, back, late, conclusion, disk, approval, faults,
                   kills>>

SetBack ==
    /\ approval = Idle
    /\ clock > 0
    /\ ~back
    /\ clock' = clock - 1
    /\ back' = TRUE
    /\ UNCHANGED <<route, reads, late, conclusion, disk, approval, faults, kills>>

\* The view loads a task, its step and its run, all of them active, and the
\* current version.
Load(r) ==
    /\ reads[r] = Unread
    /\ status = "in_review"
    /\ \E t \in open :
          reads' = [reads EXCEPT ![r] = [task |-> t, version |-> version]]
    /\ UNCHANGED <<route, time, late, conclusion, disk, approval, faults, kills>>

\* A request decides on what it has loaded, or is refused: its turn ends.
Ended(r) ==
    /\ approval = Idle
    /\ reads[r] # Unread
    /\ reads' = [reads EXCEPT ![r] = Unread]

\* Task t is closed and the next one is opened, if there is a step for it.
Opens(t) ==
    /\ tasks < MaxTasks
    /\ tasks' = tasks + 1
    /\ open' = (open \ {t}) \cup {tasks + 1}
    /\ status' = "in_review"

Closes(t, outcome) ==
    /\ open' = open \ {t}
    /\ status' = outcome
    /\ UNCHANGED tasks

\* request_revision and reject_task.
Return(r) ==
    /\ Ended(r)
    /\ \E outcome \in {"revision_requested", "rejected"} :
          Closes(reads[r].task, outcome)
    /\ UNCHANGED <<version, latest, time, late, conclusion, disk, approval,
                   faults, kills>>

\* A new version after a revision was requested, or while the tasks are open,
\* when a late run of the checks has taken the material back.
Upload ==
    /\ approval = Idle
    /\ status \in {"revision_requested", "auto_checking", "in_review"}
    /\ latest < MaxVersions
    /\ latest' = latest + 1
    /\ version' = latest + 1
    /\ status' = IF status = "in_review" THEN status ELSE "auto_checking"
    /\ UNCHANGED <<tasks, open, reads, time, late, conclusion, disk,
                   approval, faults, kills>>

\* resume_or_start_workflow: the route goes on.  It saves the whole material,
\* with the version that was current when the checks had loaded it.
Resume ==
    /\ approval = Idle
    /\ status = "auto_checking"
    /\ Opens(0)
    /\ version' \in 2..latest
    /\ late' = (late \/ version' # version)
    /\ UNCHANGED <<latest, reads, time, conclusion, disk, approval, faults, kills>>

\* approve_submission_appeal: the next step, or the review of the route again;
\* a run without another step is completed, and no package is made.
GrantAppeal ==
    /\ approval = Idle
    /\ status = "rejected"
    /\ \/ Opens(0)
       \/ Closes(0, "approved")
    /\ UNCHANGED <<version, latest, reads, time, late, conclusion, disk,
                   approval, faults, kills>>

-----------------------------------------------------------------------------
(* Files and signatures *)

\* Storage.save never overwrites: a name that is taken gets a suffix.
FreshName(f) == disk[f] = NoFile /\ \A g \in Names : g < f => disk[g] # NoFile

Field(f, content) == [name |-> f, hash |-> content]

Write(f, content) == disk' = [disk EXCEPT ![f] = content]

\* Signatures i and j as order_by("signed_at", "id") sees them.
Before(c, i, j) == c[i].time < c[j].time \/ (c[i].time = c[j].time /\ i < j)

Latest(c) ==
    IF c = <<>> THEN 0
    ELSE CHOOSE i \in DOMAIN c : \A j \in DOMAIN c \ {i} : Before(c, j, i)

\* Fault: the first of the signatures with the latest time.
EarliestOfLatest ==
    IF chain = <<>> THEN 0
    ELSE CHOOSE i \in DOMAIN chain :
            /\ \A j \in DOMAIN chain : chain[j].time <= chain[i].time
            /\ \A j \in DOMAIN chain : j < i => chain[j].time < chain[i].time

\* order_by("-signed_at", "-id").first()
PreviousSignature == Latest(chain)

\* Fault: the version that the conclusion was made of.
SourceVersion(r) == document.hash.version

\* submission.current_version of the objects that the view has loaded.
SignedVersion(r) == reads[r].version

\* create_authenticated_signature
NewSignature(r) ==
    [task |-> reads[r].task, version |-> SignedVersion(r), time |-> clock,
     prev |-> PreviousSignature]

-----------------------------------------------------------------------------
(* ensure_conclusion_document, in the approval of the route *)

StartDocument(r) ==
    /\ Ended(r)
    /\ document = Empty
    /\ approval' = [Idle EXCEPT !.pc = "docx", !.task = reads[r].task]
    /\ UNCHANGED <<route, time, late, conclusion, disk, faults, kills>>

SaveDocument ==
    /\ approval.pc = "docx"
    /\ \E f \in Names :
          LET content == [kind |-> "docx", version |-> version] IN
          /\ FreshName(f)
          /\ Write(f, content)
          /\ approval' = [approval EXCEPT !.pc = "seal",
                                          !.saved = <<Field(f, content)>>]
    /\ UNCHANGED <<route, reads, time, late, conclusion, faults, kills>>

\* The row, and the first step of the route.
Seal ==
    /\ approval.pc = "seal"
    /\ document' = approval.saved[1]
    /\ Opens(approval.task)
    /\ approval' = Idle
    /\ UNCHANGED <<version, latest, reads, time, late, chain, package, disk, faults, kills>>

-----------------------------------------------------------------------------
(* approve_task *)

\* No task is signed twice.
MaySign(r) ==
    /\ document # Empty
    /\ Len(chain) < MaxSignatures
    /\ \A i \in DOMAIN chain : chain[i].task # reads[r].task

Refuse(r) ==
    /\ Ended(r)
    /\ document # Empty
    /\ ~MaySign(r)
    /\ UNCHANGED <<route, time, late, conclusion, disk, approval, faults, kills>>

\* A run without a conclusion (one that is started on another route after a
\* revision): nothing is signed, and no package is made.
ApproveUnsigned(r) ==
    /\ Ended(r)
    /\ document = Empty
    /\ \/ Opens(reads[r].task)
       \/ Closes(reads[r].task, "approved")
    /\ UNCHANGED <<version, latest, time, late, conclusion, disk, approval, faults, kills>>

\* A step follows, or the package is there already: the transaction ends with
\* the signature.
Approve(r) ==
    /\ Ended(r)
    /\ MaySign(r)
    /\ chain' = Append(chain, NewSignature(r))
    /\ late' = (late \/ reads[r].version # version)
    /\ \/ Opens(reads[r].task)
       \/ package # NoPackage /\ Closes(reads[r].task, "approved")
    /\ UNCHANGED <<version, latest, time, document, package, disk, approval, faults,
                   kills>>

\* The last step: finalize_conclusion_package, in the same transaction.
ApproveLast(r) ==
    /\ Ended(r)
    /\ MaySign(r)
    /\ package = NoPackage
    /\ approval' = [Idle EXCEPT !.pc = "source", !.task = reads[r].task,
                                !.signature = <<NewSignature(r)>>]
    /\ late' = (late \/ reads[r].version # version)
    /\ UNCHANGED <<route, time, conclusion, disk, faults, kills>>

\* Fault: the signatures as they were listed before the last one was made.
EarlierSignatures == chain

\* The signatures that the package shows, list(document.signatures).
Signatures == chain \o approval.signature

\* The storage creates the file ...
CreateFile(pc, content) ==
    /\ approval.pc = pc
    /\ approval.writing = <<>>
    /\ \E f \in Names :
          /\ FreshName(f)
          /\ Write(f, content)
          /\ approval' = [approval EXCEPT !.writing = <<Field(f, content)>>]
    /\ UNCHANGED <<route, reads, time, late, conclusion, faults, kills>>

\* ... and saved_files takes it up when the save has returned.
FileSaved(pc, next) ==
    /\ approval.pc = pc
    /\ approval.writing # <<>>
    /\ approval' = [approval EXCEPT !.pc = next,
                                    !.saved = Append(@, approval.writing[1]),
                                    !.writing = <<>>]
    /\ UNCHANGED <<route, reads, time, late, conclusion, disk, faults, kills>>

\* _convert_conclusion_docx_to_pdf reads the sealed file.
SaveSource ==
    \/ /\ document # Empty
       /\ disk[document.name] # NoFile
       /\ CreateFile("source", [kind |-> "pdf", of |-> document.name])
    \/ FileSaved("source", "printed")

SavePrinted ==
    \/ CreateFile("printed", [kind |-> "printed", of |-> document.name,
                              count |-> Len(Signatures)])
    \/ FileSaved("printed", "xml")

SaveData ==
    \/ CreateFile("xml", [kind |-> "xml", of |-> document.name,
                          count |-> Len(Signatures)])
    \/ FileSaved("xml", "row")

SaveRow ==
    /\ approval.pc = "row"
    /\ chain' = Append(chain, approval.signature[1])
    /\ package' = approval.saved
    /\ Closes(approval.task, "approved")
    /\ approval' = Idle
    /\ UNCHANGED <<version, latest, reads, time, late, document, disk, faults, kills>>

Among(f, files) == \E i \in DOMAIN files : files[i].name = f

\* Fault: what is deleted is the file that was saved last.
DeletesLast ==
    [f \in Names |->
        IF approval.saved # <<>> /\ f = approval.saved[Len(approval.saved)].name
        THEN NoFile ELSE disk[f]]

\* Fault: the sealed document goes with the files of the package.
DeletesDocument ==
    [f \in Names |->
        IF \/ document.name = f
           \/ Among(f, approval.saved)
        THEN NoFile ELSE disk[f]]

\* The except clause of finalize_conclusion_package.
Deletes ==
    [f \in Names |->
        IF Among(f, approval.saved)
        THEN NoFile ELSE disk[f]]

\* An exception.  That of a package deletes the files that were saved, and not
\* the one whose save has raised; a conclusion that was written but not sealed
\* leaves its file.
Fail ==
    /\ approval.pc # "idle"
    /\ faults + kills < MaxFaults
    /\ faults' = faults + 1
    /\ disk' = IF approval.pc \in {"docx", "seal"} THEN disk ELSE Deletes
    /\ approval' = Idle
    /\ UNCHANGED <<route, reads, time, late, conclusion, kills>>

\* The process is killed, or the commit fails.
Kill ==
    /\ approval.pc # "idle"
    /\ faults + kills < MaxFaults
    /\ kills' = kills + 1
    /\ approval' = Idle
    /\ UNCHANGED <<route, reads, time, late, conclusion, disk, faults>>

Request(r) ==
    \/ Load(r)
    \/ Return(r)
    \/ StartDocument(r)
    \/ Refuse(r)
    \/ ApproveUnsigned(r)
    \/ Approve(r)
    \/ ApproveLast(r)

Next ==
    \/ Tick
    \/ SetBack
    \/ \E r \in Requests : Request(r)
    \/ Upload
    \/ Resume
    \/ GrantAppeal
    \/ SaveDocument
    \/ Seal
    \/ SaveSource
    \/ SavePrinted
    \/ SaveData
    \/ SaveRow
    \/ Fail
    \/ Kill

Spec == Init /\ [][Next]_vars

-----------------------------------------------------------------------------
(* Properties *)

\* What the transaction has saved when it comes to pc.
FilesAt(pc) ==
    CASE pc \in {"idle", "docx", "source"} -> 0
      [] pc \in {"seal", "printed"} -> 1
      [] pc = "xml" -> 2
      [] pc = "row" -> 3

\* What an approval holds at each of its steps: nothing between approvals, a
\* signature only while it makes a package, a file under way only while one of
\* its files is saved.
ApprovalOK ==
    /\ approval \in Approval
    /\ Len(approval.signature) =
          IF approval.pc \in {"idle", "docx", "seal"} THEN 0 ELSE 1
    /\ Len(approval.saved) = FilesAt(approval.pc)
    /\ Len(approval.writing) <=
          IF approval.pc \in {"source", "printed", "xml"} THEN 1 ELSE 0

\* Types.
TypeOK ==
    /\ status \in {"in_review", "revision_requested", "auto_checking", "rejected",
                   "approved"}
    /\ version \in Versions
    /\ latest \in Versions
    /\ tasks \in Tasks
    /\ open \subseteq 1..tasks
    /\ reads \in [Requests -> Read]
    /\ clock \in Times
    /\ back \in BOOLEAN
    /\ late \in BOOLEAN
    /\ document \in Stored \cup {Empty}
    /\ chain \in Seq(Signature) /\ Len(chain) <= MaxSignatures
    /\ package \in Seq(Stored) /\ Len(package) \in {0, 3}
    /\ disk \in [Names -> Content \cup {NoFile}]
    /\ ApprovalOK
    /\ faults \in 0..MaxFaults
    /\ kills \in 0..MaxFaults

Verifies(file) == disk[file.name] = file.hash

\* verify_conclusion_document: from the sealing on the document, and from its
\* completion on all of a package, is on the disk as it was signed and made of
\* that document, whatever fails or is deleted later.
PackagesVerify ==
    /\ document # Empty => Verifies(document)
    /\ package # NoPackage =>
          /\ Len(package) = 3
          /\ \A i \in 1..3 : Verifies(package[i]) /\ package[i].hash.of = document.name

ShowsAll ==
    package' # package => \A i \in 2..3 : package'[i].hash.count = Len(chain')

\* The printed form and the data of a package show every signature that the
\* conclusion has when it is completed, also the last one, which the same
\* transaction makes (finalize_conclusion_package lists them again).
PackagesShowSignatures == [][ShowsAll]_vars

\* Whoever walks the signatures in their order finds in each one the hash of
\* the one before: the chain has no fork and no gap.  It needs a clock that
\* is never set back.
ChainIsLinear ==
    ~back => \A i \in DOMAIN chain :
        /\ chain[i].prev = i - 1
        /\ \A j \in DOMAIN chain : j < i => Before(chain, j, i)

SignsTheCurrentVersion ==
    chain' # chain /\ ~late' =>
        /\ chain'[Len(chain')].version = version'
        /\ \A i \in DOMAIN chain : chain[i].version <= version'

\* While no approval had loaded its task before an upload, and no resumption
\* the material, every signature is of the version that is current when it is
\* saved, however many files that transaction makes, and no earlier one is of
\* a later version: so the last reviewer signs what is approved.
VersionsAreSignedInOrder == [][SignsTheCurrentVersion]_vars

Named(f) ==
    \/ document.name = f
    \/ Among(f, package)

\* Files of a package that neither the row nor an approval knows.
Leftovers ==
    {f \in Names : /\ disk[f].kind \in {"pdf", "printed", "xml"}
                   /\ ~Named(f)
                   /\ ~Among(f, approval.saved)
                   /\ ~Among(f, approval.writing)}

\* A package that cannot be made leaves nothing but the file whose save has
\* raised: when no process was killed, there are no more files that nobody
\* knows than exceptions.
FailuresLeaveOneFile == kills = 0 => Cardinality(Leftovers) <= faults

=============================================================================
