----------------------------- MODULE Citations -----------------------------
(***************************************************************************)
(* Search of sources for a material, and the workspace that keeps its      *)
(* answer (citations/views.py, citations/workspaces.py): the author marks  *)
(* sources, a document with them is prepared as a file of the workspace,   *)
(* and the document becomes a new version of the material.                 *)
(*                                                                         *)
(* A document is named by the sources inserted in it.  A file is written   *)
(* in two steps: it is emptied when it is opened, then filled.             *)
(***************************************************************************)
EXTENDS CitationIndex, Sequences

CONSTANTS
    Workspaces,     \* tokens
    Sources,        \* articles the index may recommend
    Choices,        \* sets of articles an author may mark
    MaxVersions     \* bound: versions of the material

ASSUME CitationsAssumption ==
    /\ Choices \subseteq SUBSET (Sources \cup {"unknown"})
    /\ "none" \notin Workspaces
    /\ MaxVersions \in Nat \ {0}

\* Contents that are no document: a file just opened, and one that is broken off
\* or has the rest of a longer document after the end.
Empty == {"empty"}
Damaged == {"damaged"}
Nothing == {}

Documents == (SUBSET Sources) \ {{}}
Contents == Documents \cup {Nothing, Empty, Damaged}

\* Draft, auto_checking and submitted are one: in all three the author may
\* add sources and upload versions.
Open == "auto_checking"
Statuses == {Open, "in_review", "revision_requested"}

VARIABLES
    status,     \* of the material
    versions,   \* where each version comes from, and its document
    space,      \* workspace.json and the result file of each workspace
    request,    \* what each process does with which workspace
    touched,    \* requests in whose work on the files another one wrote
    agreed      \* workspaces whose last writer came to its end untouched

history == <<touched, agreed>>

vars == <<indexVars, status, versions, space, request, history>>

spaceVars == <<status, versions, space, request, history>>

NoWorkspace == [there |-> FALSE, base |-> 0, sources |-> {}, recorded |-> Nothing, file |-> Nothing]

NoRequest == [step |-> "none", space |-> "none", base |-> 0, chosen |-> {}, read |-> Nothing,
              selected |-> Nothing]

current == Len(versions)

Init ==
    /\ IndexInit
    /\ status = Open
    /\ versions = <<[from |-> "none", document |-> Nothing, selected |-> Nothing]>>
    /\ space = [w \in Workspaces |-> NoWorkspace]
    /\ request = [p \in Processes |-> NoRequest]
    /\ touched = {}
    /\ agreed = {}

Idle(p) == job[p].step = "idle" /\ request[p] = NoRequest

Done(p) == request' = [request EXCEPT ![p] = NoRequest]

\* A new version queues the checks.
AddVersion(from, document, selected) ==
    /\ versions' = Append(versions, [from |-> from, document |-> document,
                                     selected |-> selected])
    /\ status' = Open
-----------------------------------------------------------------------------
\* The search reads the current version, and asks for the index.
StartSearch(p) ==
    /\ Idle(p)
    /\ request' = [request EXCEPT ![p] = [NoRequest EXCEPT !.step = "search", !.base = current]]
    /\ Goto(p, "ask")
    /\ UNCHANGED <<corpus, missing, index, lock, kills, hours, breaks,
                   status, versions, space, history>>

\* search_claim asks once more for every claim.
NextClaim(p) ==
    /\ request[p].step = "search" /\ job[p].step = "answered"
    /\ Goto(p, "ask")
    /\ UNCHANGED <<corpus, missing, index, lock, kills, hours, breaks>>
    /\ UNCHANGED spaceVars

\* Without an index there is nothing to recommend; a request may also end in
\* an exception of the build.
EndSearch(p) ==
    /\ request[p].step = "search"
    /\ \/ /\ job[p].step = "answered"
          /\ \E w \in Workspaces :
                /\ ~space[w].there
                /\ space' = [space EXCEPT ![w] =
                      [NoWorkspace EXCEPT !.there = TRUE, !.base = request[p].base,
                           !.sources = IF job[p].ready THEN Sources ELSE {}]]
       \/ /\ job[p].step \in {"idle", "answered"}
          /\ UNCHANGED space
    /\ job' = [job EXCEPT ![p] = NoJob]
    /\ Done(p)
    /\ UNCHANGED <<corpus, missing, index, lock, kills, hours, breaks,
                   status, versions, history>>
-----------------------------------------------------------------------------
Begin(p, w, step, chosen) ==
    /\ Idle(p) /\ space[w].there
    /\ request' = [request EXCEPT ![p] = [NoRequest EXCEPT !.step = step, !.space = w,
                                                           !.chosen = chosen]]
    /\ UNCHANGED <<indexVars, status, versions, space, history>>

At(p, step) == request[p].step = step

Mine(p) == space[request[p].space]

Step(p, step) == request' = [request EXCEPT ![p].step = step]

\* json.loads of a file that is not whole raises ValueError.
Readable(p) == Mine(p).recorded \notin {Empty, Damaged}

\* _workspace_submission.
IsCurrent(p) == Mine(p).base = current

\* Fault: every mark is taken.
Marked(p) == request[p].chosen

\* _selected_sources: marks that the workspace does not recommend are dropped.
Selected(p) == request[p].chosen \cap Mine(p).sources

Refuse(p) ==
    /\ Done(p)
    /\ UNCHANGED <<indexVars, status, versions, space, history>>

StartPrepare(p) == \E w \in Workspaces, chosen \in Choices : Begin(p, w, "prepare", chosen)

CheckPrepare(p) ==
    /\ At(p, "prepare")
    /\ IF Readable(p) /\ IsCurrent(p) /\ Selected(p) # {}
         THEN /\ Step(p, "result")
              /\ UNCHANGED <<indexVars, status, versions, space, history>>
         ELSE Refuse(p)

\* What write makes of a file that open("w") has emptied: if somebody else has
\* filled it since, it keeps the rest of that text where it is longer.
Filled(old, new) == IF old = Empty THEN {new} ELSE {new, Damaged}

\* The other requests that are at work on the files of p's workspace.
Others(p) ==
    {q \in Processes \ {p} : /\ request[q].space = request[p].space
                             /\ request[q].step \in {"fill", "json", "record", "bytes"}}

\* p writes: nobody knows what the others make of it.
Writes(p) ==
    /\ touched' = touched \cup Others(p)
    /\ agreed' = agreed \ {request[p].space}

\* The work of p on the files ends.
Leaves(p) == touched' = touched \ {p}

\* The document is prepared, workspace.json is read again, and the file of the
\* result is opened, which empties it.
OpenResult(p) ==
    /\ At(p, "result")
    /\ IF Readable(p)
         THEN /\ space' = [space EXCEPT ![request[p].space].file = Empty]
              /\ Step(p, "fill")
              /\ Writes(p)
              /\ UNCHANGED <<indexVars, status, versions>>
         ELSE Refuse(p)

FillResult(p) ==
    /\ At(p, "fill")
    /\ \E content \in Filled(Mine(p).file, Selected(p)) :
          space' = [space EXCEPT ![request[p].space].file = content]
    /\ Step(p, "json")
    /\ Writes(p)
    /\ UNCHANGED <<indexVars, status, versions>>

OpenJson(p) ==
    /\ At(p, "json")
    /\ space' = [space EXCEPT ![request[p].space].recorded = Empty]
    /\ Step(p, "record")
    /\ Writes(p)
    /\ UNCHANGED <<indexVars, status, versions>>

\* What workspace.json keeps: the selection that was inserted.
Recorded(p) == Selected(p)

FillJson(p) ==
    /\ At(p, "record")
    /\ \E content \in Filled(Mine(p).recorded, Recorded(p)) :
          space' = [space EXCEPT ![request[p].space].recorded = content]
    /\ Done(p)
    /\ touched' = (touched \ {p}) \cup Others(p)
    /\ agreed' = IF p \in touched THEN agreed \ {request[p].space}
                 ELSE agreed \cup {request[p].space}
    /\ UNCHANGED <<indexVars, status, versions>>

\* A write that does not come to its end: all, or only the beginning, of what is
\* there by now stays.
BreaksOff(p) ==
    \/ /\ UNCHANGED <<space, agreed>>
       /\ Leaves(p)
    \/ /\ \/ /\ At(p, "fill")
             /\ space' = [space EXCEPT ![request[p].space].file = Damaged]
          \/ /\ At(p, "record")
             /\ space' = [space EXCEPT ![request[p].space].recorded = Damaged]
       /\ touched' = (touched \ {p}) \cup Others(p)
       /\ agreed' = agreed \ {request[p].space}

\* An OSError, between the two files too.
WriteFails(p) ==
    /\ request[p].step \in {"fill", "json", "record"}
    /\ Done(p)
    /\ BreaksOff(p)
    /\ UNCHANGED <<indexVars, status, versions>>
-----------------------------------------------------------------------------
StartUse(p) == \E w \in Workspaces : Begin(p, w, "use", {})

\* read_prepared_result: first the payload, then the bytes.
ReadPayload(p) ==
    /\ At(p, "use")
    /\ IF Readable(p) /\ Mine(p).recorded # Nothing
         THEN /\ request' = [request EXCEPT
                                ![p].step = "bytes",
                                ![p].selected = IF request[p].space \in agreed
                                                THEN Mine(p).recorded ELSE Nothing]
              /\ UNCHANGED <<indexVars, status, versions, space, history>>
         ELSE Refuse(p)

ReadBytes(p) ==
    /\ At(p, "bytes")
    /\ request' = [request EXCEPT
                      ![p].step = "check", ![p].read = Mine(p).file,
                      ![p].selected = IF p \in touched THEN Nothing ELSE @]
    /\ Leaves(p)
    /\ UNCHANGED <<indexVars, status, versions, space, agreed>>

\* The template of the journal is then prepared, which may take minutes.
CheckUse(p) ==
    /\ At(p, "check")
    /\ IF IsCurrent(p) /\ status = Open
         THEN /\ Step(p, "add")
              /\ UNCHANGED <<indexVars, status, versions, space, history>>
         ELSE Refuse(p)

\* Fault: no expected version is passed.
AnyVersion(p) == TRUE

\* add_submission_version under the lock of the material.
StillExpected(p) == current = Mine(p).base

Add(p) ==
    /\ At(p, "add")
    /\ IF StillExpected(p) /\ status # "in_review"
         THEN /\ current < MaxVersions
              /\ AddVersion(request[p].space, request[p].read, request[p].selected)
              /\ Done(p)
              /\ UNCHANGED <<indexVars, space, history>>
         ELSE Refuse(p)
-----------------------------------------------------------------------------
\* The author uploads another version; checks, route and reviewers go on.
Upload ==
    /\ current < MaxVersions /\ status # "in_review"
    /\ AddVersion("none", Nothing, Nothing)
    /\ UNCHANGED <<indexVars, space, request, history>>

Move ==
    /\ \/ status = Open /\ status' = "in_review"
       \/ status = "in_review" /\ status' = "revision_requested"
    /\ UNCHANGED <<indexVars, versions, space, request, history>>

\* A process that is killed, at a write or elsewhere.
Kill(p) ==
    /\ request[p].space # "none" /\ kills < MaxKills
    /\ kills' = kills + 1
    /\ Done(p)
    /\ BreaksOff(p)
    /\ UNCHANGED <<corpus, missing, index, lock, job, hours, breaks, status, versions>>

Request(p) ==
    \/ StartSearch(p) \/ NextClaim(p) \/ EndSearch(p)
    \/ StartPrepare(p) \/ CheckPrepare(p) \/ OpenResult(p) \/ FillResult(p)
    \/ OpenJson(p) \/ FillJson(p) \/ WriteFails(p)
    \/ StartUse(p) \/ ReadPayload(p) \/ ReadBytes(p) \/ CheckUse(p) \/ Add(p)
    \/ Kill(p)

Next ==
    \/ \E p \in Processes : Request(p)
    \/ Upload
    \/ Move
    \/ /\ \E p \in Processes : \/ IndexStep(p)
                               \/ request[p] = NoRequest /\ Command(p)
                               \/ KillJob(p)
       /\ UNCHANGED spaceVars
    \/ Hour /\ UNCHANGED spaceVars
    \/ MoveArchives /\ UNCHANGED spaceVars

Spec == Init /\ [][Next]_vars
-----------------------------------------------------------------------------
TypeOK ==
    /\ IndexTypeOK
    /\ status \in Statuses
    /\ versions \in Seq([from : Workspaces \cup {"none"}, document : Contents,
                         selected : Contents])
    /\ space \in [Workspaces -> [there : BOOLEAN, base : 0..MaxVersions,
                                 sources : SUBSET Sources,
                                 recorded : Contents, file : Contents]]
    /\ request \in [Processes -> [step : {"none", "search", "prepare", "result", "fill",
                                          "json", "record", "use", "bytes", "check", "add"},
                                  space : Workspaces \cup {"none"}, base : 0..MaxVersions,
                                  chosen : Choices \cup {{}}, read : Contents,
                                  selected : Contents]]
    /\ touched \subseteq Processes
    /\ agreed \subseteq Workspaces

(***************************************************************************)
(* A document with sources replaces the version it was made from, so a     *)
(* workspace adds one version at most: a version somebody uploads while    *)
(* the search, the preparation or the request to use it run is never lost  *)
(* (use_submission_result, add_submission_version).                        *)
(***************************************************************************)
VersionsFollowTheirSource ==
    \A i \in 1..current : LET w == versions[i].from IN
        w # "none" => space[w].base = i - 1

(***************************************************************************)
(* A preparation in whose work nobody else wrote leaves a file that is the *)
(* document with the selection it records, of sources that were            *)
(* recommended, whatever overlapped, failed or was killed before it; and a *)
(* version that is made of such a workspace, with nobody writing while it  *)
(* was read, is the document with the selection that was recorded          *)
(* (prepare_result, read_prepared_result).                                 *)
(***************************************************************************)
QuietWorkspacesAgree ==
    /\ \A w \in agreed :
          /\ space[w].file = space[w].recorded
          /\ space[w].recorded \in Documents
          /\ space[w].recorded \subseteq space[w].sources
    /\ \A i \in 1..current :
          versions[i].selected # Nothing => versions[i].document = versions[i].selected
=============================================================================
