--------------------------- MODULE CheckRunsProofs ---------------------------
(* Theorems about CheckRuns, for every number of checks, versions, workers,  *)
(* runs and crashes.                                                         *)
EXTENDS CheckRuns, TLAPS

\* The constants of the rows and processes that the actions write are typed.
LEMMA ConstantsTyped ==
    /\ 1 \in Checks
    /\ 1 \in Versions
    /\ AbsentRow \in Row
    /\ Idle \in Proc
    /\ Unseen \in [fresh : BOOLEAN, tokens : [Checks -> Tokens \cup {NoToken}]]
    /\ \A r \in Row : Reopened(r) \in Row
<1>1. 1 \in Checks /\ 1 \in Versions
  BY CheckRunsAssumption DEF Checks, Versions
<1> QED
  BY <1>1 DEF AbsentRow, Row, Idle, Proc, PCs, Unseen, Reopened

\* Where an action moves a process, it stays a process.
LEMMA MovedTyped ==
    ASSUME TypeOK, NEW p \in Procs, NEW pc \in PCs
    PROVE  [procs EXCEPT ![p].pc = pc] \in [Procs -> Proc]
<1>1. [procs[p] EXCEPT !.pc = pc] \in Proc
  BY DEF TypeOK, Proc
<1> QED
  BY <1>1 DEF TypeOK

LEMMA AdvancedTyped ==
    ASSUME TypeOK, NEW p \in Procs
    PROVE  Advanced(p) \in Proc
<1>1. procs[p] \in Proc
  BY DEF TypeOK
<1>2. CASE procs[p].check < NumChecks
  <2>1. procs[p].check + 1 \in Checks
    BY <1>1, <1>2, CheckRunsAssumption DEF Proc, Checks
  <2> QED
    BY <1>1, <1>2, <2>1 DEF Advanced, Proc, PCs
<1>3. CASE ~(procs[p].check < NumChecks)
  BY <1>1, <1>3 DEF Advanced, Proc, PCs
<1> QED
  BY <1>2, <1>3

LEMMA PreparedTyped ==
    ASSUME TypeOK, NEW v \in Versions, Prepared(v)
    PROVE  /\ rows' \in [Versions \X Checks -> Row]
           /\ runs' \in 0..MaxRuns
<1>1. rows' \in [Versions \X Checks -> Row]
  BY ConstantsTyped DEF TypeOK, Prepared
<1>2. runs' \in 0..MaxRuns
  BY CheckRunsAssumption DEF TypeOK, Prepared
<1> QED
  BY <1>1, <1>2

LEMMA LaunchedTyped ==
    ASSUME TypeOK, NEW v \in Versions, NEW b \in BOOLEAN, Launched(v, b)
    PROVE  /\ procs' \in [Procs -> Proc]
           /\ crashes' \in 0..MaxCrashes
<1> DEFINE started == [Idle EXCEPT !.pc = "start", !.version = v, !.resume = b]
<1>1. started \in Proc
  BY ConstantsTyped DEF Idle, Proc, PCs
<1>2. CASE \E w \in Workers : /\ procs' = [procs EXCEPT ![w] = started]
                             /\ UNCHANGED crashes
  <2> HIDE DEF started
  <2> QED
    BY <1>1, <1>2 DEF TypeOK, Procs
<1>3. CASE crashes < MaxCrashes /\ crashes' = crashes + 1 /\ UNCHANGED procs
  BY <1>3, CheckRunsAssumption DEF TypeOK
<1> QED
  BY <1>2, <1>3 DEF Launched

LEMMA StopTyped ==
    ASSUME TypeOK, NEW p \in Procs, Stop(p)
    PROVE  procs' \in [Procs -> Proc]
BY ConstantsTyped DEF TypeOK, Stop

LEMMA AdvanceTyped ==
    ASSUME TypeOK, NEW p \in Procs, Advance(p)
    PROVE  procs' \in [Procs -> Proc]
BY AdvancedTyped DEF TypeOK, Advance

LEMMA RequestTyped ==
    ASSUME TypeOK, NEW kind \in Kinds, Opened(kind) \/ Committed(kind)
    PROVE  request' \in [open : SUBSET Kinds, announced : 0..MaxAnnouncements]
BY DEF TypeOK, Opened, Committed

LEMMA AnnouncementTyped ==
    ASSUME TypeOK, OpenMark
    PROVE  request' \in [open : SUBSET Kinds, announced : 0..MaxAnnouncements]
<1>1. request.announced + 1 \in 0..MaxAnnouncements
  <2>1. request.announced \in 0..MaxAnnouncements
    BY DEF TypeOK
  <2>2. request.announced < MaxAnnouncements
    BY DEF OpenMark
  <2> QED
    BY <2>1, <2>2, CheckRunsAssumption
<1> QED
  BY <1>1 DEF TypeOK, OpenMark, Kinds

\* Every state has the type the module states.
THEOREM TypeCorrect == Spec => []TypeOK
<1>1. Init => TypeOK
  <2> SUFFICES ASSUME Init PROVE TypeOK
    OBVIOUS
  <2>1. 0 \in 0..MaxAnnouncements /\ 0 \in 0..MaxRuns /\ 0 \in 0..MaxCrashes
    BY CheckRunsAssumption
  <2>2. sub \in [status : Statuses, version : Versions, latest : Versions,
                fresh : BOOLEAN, route : BOOLEAN]
    BY <2>1, ConstantsTyped DEF Init, Statuses
  <2>3. rows \in [Versions \X Checks -> Row] /\ procs \in [Procs -> Proc]
    BY ConstantsTyped DEF Init
  <2> QED
    BY <2>1, <2>2, <2>3, ConstantsTyped DEF Init, TypeOK
<1>2. TypeOK /\ [Next]_vars => TypeOK'
  <2> SUFFICES ASSUME TypeOK, [Next]_vars
               PROVE  TypeOK'
    OBVIOUS
  <2>1. CASE QueueChecks
    BY <2>1, PreparedTyped, LaunchedTyped DEF QueueChecks, TypeOK, Statuses
  <2>2. CASE AddSubmissionVersion
    <3>1. sub.latest \in Versions
      BY DEF TypeOK
    <3>2. sub.latest + 1 \in Versions
      BY <2>2, <3>1, CheckRunsAssumption DEF AddSubmissionVersion, Versions
    <3>3. (sub.status = "revision_requested") \in BOOLEAN
      OBVIOUS
    <3>4. sub' \in [status : Statuses, version : Versions, latest : Versions,
                   fresh : BOOLEAN, route : BOOLEAN]
      BY <2>2, <3>2 DEF AddSubmissionVersion, TypeOK, Statuses
    <3> QED
      BY <2>2, <3>2, <3>3, <3>4, PreparedTyped, LaunchedTyped
      DEF AddSubmissionVersion, TypeOK
  <2>3. CASE MarkChecking
    BY <2>3, RequestTyped DEF MarkChecking, TypeOK, Statuses, Kinds
  <2>4. CASE EditRules
    BY <2>4, RequestTyped DEF EditRules, TypeOK, Kinds
  <2>5. CASE EditRulesQueue
    BY <2>5, PreparedTyped, LaunchedTyped, RequestTyped
    DEF EditRulesQueue, TypeOK, Statuses, Kinds
  <2>6. CASE OpenSubmit \/ OpenDecision
    BY <2>6, RequestTyped DEF OpenSubmit, OpenDecision, TypeOK, Kinds
  <2>7. CASE CommitSubmit
    BY <2>7, RequestTyped DEF CommitSubmit, TypeOK, Statuses, Kinds
  <2>8. CASE ReviewerDecides
    BY <2>8, RequestTyped DEF ReviewerDecides, TypeOK, Statuses, Kinds
  <2>9. ASSUME NEW p \in Procs, StartWork(p)
        PROVE  TypeOK'
    <3>2. [procs EXCEPT ![p].pc = "read"] \in [Procs -> Proc]
      BY MovedTyped DEF PCs
    <3>3. procs' \in [Procs -> Proc]
      BY <2>9, <3>2, StopTyped DEF StartWork, TypeOK
    <3>4. rows' \in [Versions \X Checks -> Row]
      BY <2>9, ConstantsTyped DEF StartWork, TypeOK
    <3>5. sub' \in [status : Statuses, version : Versions, latest : Versions,
                   fresh : BOOLEAN, route : BOOLEAN]
      BY <2>9, CheckRunsAssumption DEF StartWork, TypeOK
    <3> QED
      BY <2>9, <3>3, <3>4, <3>5 DEF StartWork, TypeOK
  <2>10. ASSUME NEW p \in Procs, ReadRow(p)
         PROVE  TypeOK'
    <3>1. [procs EXCEPT ![p].pc = "claim"] \in [Procs -> Proc]
      BY MovedTyped DEF PCs
    <3> QED
      BY <2>10, <3>1, StopTyped, AdvanceTyped DEF ReadRow, TypeOK
  <2>11. ASSUME NEW p \in Procs, Claim(p)
         PROVE  TypeOK'
    <3> DEFINE vc == <<procs[p].version, procs[p].check>>
    <3>1. vc \in Versions \X Checks
      BY DEF TypeOK, Proc
    <3>2. CASE Claimable(rows[vc])
      <4>1. PICK t \in Tokens \ TokensInUse :
              /\ rows' = [rows EXCEPT ![vc] =
                            [status |-> "running", token |-> t,
                             fresh |-> TRUE]]
              /\ procs' = [procs EXCEPT ![p].pc = "eval", ![p].token = t]
        BY <2>11, <3>2 DEF Claim
      <4>2. [status |-> "running", token |-> t, fresh |-> TRUE] \in Row
        BY CheckRunsAssumption DEF Row
      <4>3. rows' \in [Versions \X Checks -> Row]
        BY <4>1, <4>2 DEF TypeOK
      <4>4. procs[p] \in Proc
        BY DEF TypeOK
      <4>5. [procs[p] EXCEPT !.pc = "eval", !.token = t] \in Proc
        BY <4>4 DEF Proc, PCs
      <4>6. procs' = [procs EXCEPT ![p] =
                         [procs[p] EXCEPT !.pc = "eval", !.token = t]]
        BY <4>1 DEF TypeOK
      <4>7. procs' \in [Procs -> Proc]
        BY <4>5, <4>6 DEF TypeOK
      <4> QED
        BY <2>11, <4>3, <4>7 DEF Claim, TypeOK
    <3>3. CASE ~Claimable(rows[vc])
      <4>1. [procs EXCEPT ![p].pc = "reread"] \in [Procs -> Proc]
        BY MovedTyped DEF PCs
      <4> QED
        BY <2>11, <3>3, <4>1 DEF Claim, TypeOK
    <3> QED
      BY <3>2, <3>3
  <2>12. ASSUME NEW p \in Procs, Reread(p)
         PROVE  TypeOK'
    BY <2>12, StopTyped, AdvanceTyped DEF Reread, TypeOK
  <2>13. ASSUME NEW p \in Procs, FinishEval(p)
         PROVE  TypeOK'
    <3>1. CASE OwnsRow(p)
      <4>1. PICK verdict \in Verdicts :
              /\ rows' = [rows EXCEPT ![<<procs[p].version, procs[p].check>>] =
                            [status |-> verdict, token |-> NoToken,
                             fresh |-> TRUE]]
              /\ Advance(p)
        BY <2>13, <3>1 DEF FinishEval
      <4>2. [status |-> verdict, token |-> NoToken,
             fresh |-> TRUE] \in Row
        BY DEF TypeOK, Proc, Row
      <4>3. rows' \in [Versions \X Checks -> Row]
        BY <4>1, <4>2 DEF TypeOK
      <4> QED
        BY <2>13, <4>1, <4>3, AdvanceTyped DEF FinishEval, TypeOK
    <3>2. CASE ~OwnsRow(p)
      BY <2>13, <3>2, StopTyped DEF FinishEval, TypeOK
    <3> QED
      BY <3>1, <3>2
  <2>14. ASSUME NEW p \in Procs, Finalize(p)
         PROVE  TypeOK'
    <3>1. [procs EXCEPT ![p].pc = "post"] \in [Procs -> Proc]
      BY MovedTyped DEF PCs
    <3>2. procs' \in [Procs -> Proc]
      BY <2>14, <3>1, StopTyped DEF Finalize
    <3>3. sub' \in [status : Statuses, version : Versions, latest : Versions,
                   fresh : BOOLEAN, route : BOOLEAN]
      BY <2>14 DEF Finalize, TypeOK, Statuses
    <3> QED
      BY <2>14, <3>2, <3>3 DEF Finalize, TypeOK
  <2>15. ASSUME NEW p \in Procs, ResumeWorkflow(p)
         PROVE  TypeOK'
    <3>1. procs[p].version \in Versions
      BY DEF TypeOK, Proc
    <3>2. sub' \in [status : Statuses, version : Versions, latest : Versions,
                   fresh : BOOLEAN, route : BOOLEAN]
      BY <2>15, <3>1 DEF ResumeWorkflow, TypeOK, Statuses
    <3> QED
      BY <2>15, <3>2, StopTyped DEF ResumeWorkflow, TypeOK
  <2>16. ASSUME NEW p \in Procs, Heartbeat(p)
         PROVE  TypeOK'
    <3> DEFINE vc == <<procs[p].version, procs[p].check>>
    <3>1. vc \in Versions \X Checks /\ rows[vc] \in Row
      BY DEF TypeOK, Proc
    <3>2. [rows[vc] EXCEPT !.fresh = TRUE] \in Row
      BY <3>1 DEF Row
    <3>3. rows' = [rows EXCEPT ![vc] = [rows[vc] EXCEPT !.fresh = TRUE]]
      BY <2>16, <3>1 DEF Heartbeat, TypeOK
    <3>4. rows' \in [Versions \X Checks -> Row]
      BY <3>2, <3>3 DEF TypeOK
    <3> QED
      BY <2>16, <3>4 DEF Heartbeat, TypeOK
  <2>17. ASSUME NEW p \in Procs, Crash(p)
         PROVE  TypeOK'
    <3>1. crashes' \in 0..MaxCrashes
      BY <2>17, CheckRunsAssumption DEF Crash, TypeOK
    <3> QED
      BY <2>17, <3>1, StopTyped DEF Crash, TypeOK
  <2>18. CASE DogSelect
    <3>1. [Idle EXCEPT !.pc = "selected", !.version = sub.version] \in Proc
      BY ConstantsTyped DEF TypeOK, Proc, PCs
    <3>2. procs' \in [Procs -> Proc]
      BY <2>18, <3>1 DEF DogSelect, TypeOK
    <3>3. dogSeen' \in [fresh : BOOLEAN,
                       tokens : [Checks -> Tokens \cup {NoToken}]]
      BY <2>18 DEF DogSelect, TypeOK, Unseen
    <3> QED
      BY <2>18, <3>2, <3>3 DEF DogSelect, TypeOK
  <2>19. CASE DogScan
    <3>1. Dog \in Procs
      BY DEF Procs
    <3>2. /\ [procs EXCEPT ![Dog].pc = "start"] \in [Procs -> Proc]
          /\ [procs EXCEPT ![Dog].pc = "reset"] \in [Procs -> Proc]
      BY <3>1, MovedTyped DEF PCs
    <3>3. procs' \in [Procs -> Proc]
      BY <2>19, <3>1, <3>2, StopTyped DEF DogScan
    <3>4. procs[Dog].version \in Versions
      BY <3>1 DEF TypeOK, Proc
    <3>5. \A c \in Checks : rows[procs[Dog].version, c].token \in Tokens \cup {NoToken}
      BY <3>4 DEF TypeOK, Row
    <3>6. dogSeen' \in [fresh : BOOLEAN,
                       tokens : [Checks -> Tokens \cup {NoToken}]]
      <4> DEFINE v == procs[Dog].version
                 running == {c \in Checks : rows[v, c].status = "running"}
                 seen == [c \in Checks |-> IF c \in running
                                           THEN rows[v, c].token ELSE NoToken]
      <4>1. dogSeen' = [fresh |-> FALSE, tokens |-> seen] \/ dogSeen' = Unseen
        BY <2>19 DEF DogScan
      <4>2. seen \in [Checks -> Tokens \cup {NoToken}]
        BY <3>5
      <4>3. [fresh |-> FALSE, tokens |-> seen]
              \in [fresh : BOOLEAN, tokens : [Checks -> Tokens \cup {NoToken}]]
        <5> HIDE DEF seen
        <5> QED
          BY <4>2
      <4>4. Unseen \in [fresh : BOOLEAN,
                        tokens : [Checks -> Tokens \cup {NoToken}]]
        BY ConstantsTyped
      <4> HIDE DEF seen
      <4> QED
        BY <4>1, <4>3, <4>4
    <3> QED
      BY <2>19, <3>3, <3>6 DEF DogScan, TypeOK
  <2>20. CASE DogReset
    <3>1. Dog \in Procs
      BY DEF Procs
    <3>2. [procs EXCEPT ![Dog].pc = "start"] \in [Procs -> Proc]
      BY <3>1, MovedTyped DEF PCs
    <3>3. procs' \in [Procs -> Proc]
      BY <2>20, <3>1, <3>2, StopTyped DEF DogReset
    <3>4. rows' \in [Versions \X Checks -> Row]
      BY <2>20, ConstantsTyped DEF DogReset, TypeOK
    <3> QED
      BY <2>20, <3>3, <3>4, ConstantsTyped DEF DogReset, TypeOK
  <2>21. CASE Quiet
    BY <2>21 DEF Quiet, TypeOK, Row
  <2>22. CASE UNCHANGED vars
    BY <2>22 DEF vars, TypeOK
  <2>23. CASE OpenMark
    BY <2>23, AnnouncementTyped DEF OpenMark, TypeOK
  <2>24. ASSUME NEW p \in Procs, LoadForResume(p)
         PROVE  TypeOK'
    <3>1. [procs EXCEPT ![p].pc = "resume"] \in [Procs -> Proc]
      BY MovedTyped DEF PCs
    <3> QED
      BY <2>24, <3>1, StopTyped DEF LoadForResume, TypeOK
  <2> QED
    BY <2>1, <2>2, <2>3, <2>4, <2>5, <2>6, <2>7, <2>8, <2>9, <2>10, <2>11,
       <2>12, <2>13, <2>14, <2>15, <2>16, <2>17, <2>18, <2>19, <2>20, <2>21,
       <2>22, <2>23, <2>24
    DEF Next, Work, Watchdog
<1> QED
  BY <1>1, <1>2, PTL DEF Spec

-----------------------------------------------------------------------------
(* What one step may do to one row.                                          *)

RowKeys == Versions \X Checks

\* Everything a row says but the age of its last timestamp.
SameRow(vc) == [rows'[vc] EXCEPT !.fresh = rows[vc].fresh] = rows[vc]

LEMMA RowsTyped ==
    ASSUME TypeOK
    PROVE  /\ \A vc \in RowKeys : rows[vc] \in Row
           /\ \A p \in Procs : <<procs[p].version, procs[p].check>> \in RowKeys
BY DEF TypeOK, RowKeys, Proc

\* A step other than an explicit run changes no row but: a missing or stalled
\* row that becomes pending, a pending row that is claimed, a claimed row that
\* its owner completes, and ages.
LEMMA RowSteps ==
    ASSUME TypeOK, [Next]_vars, runs' # runs + 1, NEW vc \in RowKeys
    PROVE  \/ SameRow(vc)
           \/ /\ rows[vc].status = "absent"
              /\ rows'[vc].status = "pending"
           \/ /\ rows[vc].status = "running"
              /\ ~rows[vc].fresh
              /\ rows'[vc].status = "pending"
           \/ /\ rows[vc].status = "pending"
              /\ rows'[vc].status = "running"
           \/ /\ rows[vc].status = "running"
              /\ rows'[vc].status \in Verdicts
              /\ \E p \in Procs :
                    /\ FinishEval(p)
                    /\ procs[p].pc = "eval"
                    /\ procs'[p].pc # "eval"
                    /\ vc = <<procs[p].version, procs[p].check>>
                    /\ procs[p].token = rows[vc].token
<1> USE DEF RowKeys
<1>1. CASE UNCHANGED rows
  BY <1>1, RowsTyped DEF SameRow, Row
<1>2. ASSUME NEW p \in Procs, StartWork(p)
      PROVE  SameRow(vc) \/ (rows[vc].status = "absent" /\ rows'[vc].status = "pending")
  <2>1. CASE UNCHANGED rows
    BY <2>1, RowsTyped DEF SameRow, Row
  <2>2. CASE rows' = [wd \in Versions \X Checks |->
                        IF wd[1] = sub.version /\ rows[wd].status = "absent"
                        THEN Reopened(rows[wd]) ELSE rows[wd]]
    BY <2>2, RowsTyped DEF SameRow, Row, Reopened
  <2> QED
    BY <1>2, <2>1, <2>2 DEF StartWork
<1>3. ASSUME NEW p \in Procs, Claim(p)
      PROVE  SameRow(vc) \/ (rows[vc].status = "pending" /\ rows'[vc].status = "running")
  <2> DEFINE wd == <<procs[p].version, procs[p].check>>
  <2>1. wd \in RowKeys
    BY RowsTyped
  <2>2. CASE vc # wd
    BY <1>3, <2>1, <2>2, RowsTyped DEF Claim, SameRow, TypeOK, Row
  <2>3. CASE vc = wd
    <3>1. CASE Claimable(rows[wd])
      <4>1. rows[vc].status = "pending"
        BY <2>3, <3>1 DEF Claimable
      <4>2. rows'[vc].status = "running"
        <5>1. PICK t : rows' = [rows EXCEPT ![wd] =
                                  [status |-> "running", token |-> t,
                                   fresh |-> TRUE]]
          BY <1>3, <3>1 DEF Claim
        <5> QED
          BY <2>1, <2>3, <5>1 DEF TypeOK
      <4> QED
        BY <4>1, <4>2
    <3>2. CASE ~Claimable(rows[wd])
      <4>1. rows' = rows
        BY <1>3, <3>2 DEF Claim
      <4> QED
        BY <4>1, RowsTyped DEF SameRow, Row
    <3> QED
      BY <3>1, <3>2
  <2> QED
    BY <2>2, <2>3
<1>4. ASSUME NEW p \in Procs, FinishEval(p)
      PROVE  \/ SameRow(vc)
             \/ /\ rows[vc].status = "running"
                /\ rows'[vc].status \in Verdicts
                /\ procs[p].pc = "eval"
                /\ procs'[p].pc # "eval"
                /\ vc = <<procs[p].version, procs[p].check>>
                /\ procs[p].token = rows[vc].token
  <2> DEFINE wd == <<procs[p].version, procs[p].check>>
  <2>1. wd \in RowKeys
    BY RowsTyped
  <2>2. CASE ~OwnsRow(p) \/ vc # wd
    BY <1>4, <2>1, <2>2, RowsTyped DEF FinishEval, SameRow, TypeOK, Row
  <2>3. CASE OwnsRow(p) /\ vc = wd
    <3>1. procs'[p] = Advanced(p)
      BY <1>4, <2>3 DEF FinishEval, Advance, TypeOK
    <3>2. procs'[p].pc # "eval"
      <4>1. procs[p] \in Proc
        BY DEF TypeOK
      <4>2. Advanced(p).pc \in {"read", "finalize"}
        BY <4>1 DEF Advanced, Proc
      <4> QED
        BY <3>1, <4>2
    <3>3. rows'[vc].status \in Verdicts
      <4>1. PICK verdict \in Verdicts :
              rows' = [rows EXCEPT ![wd] =
                          [status |-> verdict, token |-> NoToken,
                           fresh |-> TRUE]]
        BY <1>4, <2>3 DEF FinishEval
      <4> QED
        BY <2>1, <2>3, <4>1 DEF TypeOK
    <3> QED
      BY <1>4, <2>3, <3>2, <3>3 DEF FinishEval, OwnsRow
  <2> QED
    BY <2>2, <2>3
<1>5. ASSUME NEW p \in Procs, Heartbeat(p)
      PROVE  SameRow(vc)
  <2>1. <<procs[p].version, procs[p].check>> \in RowKeys
    BY RowsTyped
  <2> QED
    BY <1>5, <2>1, RowsTyped DEF Heartbeat, SameRow, TypeOK, Row
<1>6. ASSUME DogReset
      PROVE  SameRow(vc) \/ (/\ rows[vc].status = "running"
                             /\ ~rows[vc].fresh
                             /\ rows'[vc].status = "pending")
  <2>1. CASE UNCHANGED rows
    BY <2>1, RowsTyped DEF SameRow, Row
  <2>2. CASE rows' # rows
    <3> DEFINE v == procs[Dog].version
               claimed == {c \in Checks : dogSeen.tokens[c] # NoToken}
    <3>1. /\ \A c \in claimed : Untouched(v, c)
          /\ rows' = [wd \in Versions \X Checks |->
                        IF wd[1] = v /\ wd[2] \in claimed
                        THEN Reopened(rows[wd]) ELSE rows[wd]]
      BY <1>6, <2>2 DEF DogReset
    <3>2. CASE vc[1] = v /\ vc[2] \in claimed
      <4>1. Untouched(vc[1], vc[2])
        BY <3>1, <3>2
      <4>2. vc = <<vc[1], vc[2]>>
        OBVIOUS
      <4>3. rows[vc].status = "running" /\ ~rows[vc].fresh
        BY <4>1, <4>2 DEF Untouched
      <4>4. rows'[vc] = Reopened(rows[vc])
        BY <3>1, <3>2
      <4> QED
        BY <4>3, <4>4 DEF Reopened
    <3>3. CASE ~(vc[1] = v /\ vc[2] \in claimed)
      <4>1. rows'[vc] = rows[vc]
        BY <3>1, <3>3
      <4> QED
        BY <4>1, RowsTyped DEF SameRow, Row
    <3> QED
      BY <3>2, <3>3
  <2> QED
    BY <2>1, <2>2
<1>7. ASSUME Quiet
      PROVE  SameRow(vc)
  BY <1>7, RowsTyped DEF Quiet, SameRow, Row
<1>8. CASE QueueChecks \/ AddSubmissionVersion \/ EditRulesQueue
  BY <1>8 DEF QueueChecks, AddSubmissionVersion, EditRulesQueue, Prepared
<1> QED
  BY <1>1, <1>2, <1>3, <1>4, <1>5, <1>6, <1>7, <1>8
  DEF Next, Work, Watchdog, OpenMark, MarkChecking, EditRules, OpenSubmit,
      CommitSubmit, OpenDecision, ReviewerDecides, ReadRow, Reread, Finalize,
      LoadForResume, ResumeWorkflow, Crash, DogSelect, DogScan, vars

\* Only an explicit run changes the number of runs.
LEMMA RunSteps ==
    ASSUME [Next]_vars, runs' # runs
    PROVE  QueueChecks \/ AddSubmissionVersion \/ EditRulesQueue
<1>1. SUFFICES ASSUME ~(QueueChecks \/ AddSubmissionVersion \/ EditRulesQueue)
               PROVE  FALSE
  OBVIOUS
<1>2. ASSUME NEW p \in Procs, Work(p) \/ Heartbeat(p) \/ Crash(p)
      PROVE  UNCHANGED runs
  BY <1>2 DEF Work, StartWork, ReadRow, Claim, Reread, FinishEval, Finalize,
              LoadForResume, ResumeWorkflow, Heartbeat, Crash
<1>3. CASE Watchdog \/ Quiet \/ UNCHANGED vars
  BY <1>3 DEF Watchdog, DogSelect, DogScan, DogReset, Quiet, vars
<1>4. CASE \/ OpenMark \/ MarkChecking \/ EditRules \/ OpenSubmit \/ CommitSubmit
           \/ OpenDecision \/ ReviewerDecides
  BY <1>4 DEF OpenMark, MarkChecking, EditRules, OpenSubmit, CommitSubmit,
              OpenDecision, ReviewerDecides
<1> QED
  BY <1>1, <1>2, <1>3, <1>4 DEF Next

\* An explicit run reopens rows and completes none.
LEMMA RunsReopen ==
    ASSUME QueueChecks \/ AddSubmissionVersion \/ EditRulesQueue
    PROVE  /\ runs' = runs + 1
           /\ \E v : rows' = [wd \in Versions \X Checks |->
                            IF wd[1] = v THEN Reopened(rows[wd]) ELSE rows[wd]]
<1>1. ASSUME NEW v, Prepared(v)
      PROVE  /\ runs' = runs + 1
             /\ \E w : rows' = [wd \in Versions \X Checks |->
                              IF wd[1] = w THEN Reopened(rows[wd]) ELSE rows[wd]]
  BY <1>1 DEF Prepared
<1> QED
  BY <1>1 DEF QueueChecks, AddSubmissionVersion, EditRulesQueue

\* A terminal result stays as it is until the next explicit run.
THEOREM ResultsPreserved == Spec => ResultsArePreserved
<1>1. TypeOK /\ [Next]_vars => KeepsResults
  BY RowSteps, CheckRunsAssumption DEF RowKeys, KeepsResults, SameRow
<1> QED
  BY <1>1, TypeCorrect, PTL DEF Spec, ResultsArePreserved

\* Only the process whose claim is on the row completes it.
THEOREM SupersededSilent == Spec => SupersededWorkersAreSilent
<1>1. ASSUME TypeOK, [Next]_vars, NEW vc \in Versions \X Checks,
             rows[vc].status \notin Verdicts, rows'[vc].status \in Verdicts
      PROVE  \E p \in Procs :
                /\ procs[p].pc = "eval"
                /\ procs'[p].pc # "eval"
                /\ vc = <<procs[p].version, procs[p].check>>
                /\ procs[p].token = rows[vc].token
  <2>1. ASSUME runs' = runs + 1
        PROVE  FALSE
    <3>1. runs' # runs
      BY <2>1, <1>1 DEF TypeOK
    <3>2. PICK v : rows' = [wd \in Versions \X Checks |->
                            IF wd[1] = v THEN Reopened(rows[wd]) ELSE rows[wd]]
      BY <1>1, <3>1, RunSteps, RunsReopen
    <3>3. rows'[vc] = rows[vc] \/ rows'[vc].status = "pending"
      BY <1>1, <3>2 DEF Reopened
    <3> QED
      BY <1>1, <3>3, CheckRunsAssumption
  <2>2. ~SameRow(vc)
    <3>1. [rows'[vc] EXCEPT !.fresh = rows[vc].fresh].status = rows'[vc].status
          \/ ~SameRow(vc)
      BY <1>1, TypeCorrect DEF SameRow, TypeOK, Row
    <3> QED
      BY <1>1, <3>1 DEF SameRow
  <2> QED
    BY <1>1, <2>1, <2>2, RowSteps, CheckRunsAssumption DEF RowKeys
<1>2. TypeOK /\ [Next]_vars => OwnersWrite
  BY <1>1 DEF OwnersWrite
<1> QED
  BY <1>2, TypeCorrect, PTL DEF Spec, SupersededWorkersAreSilent

\* The watchdog takes away no claim that is later than stalled_before.
THEOREM LiveClaimsKept == Spec => LiveClaimsAreKept
<1>1. ASSUME TypeOK, [Next]_vars, NEW vc \in Versions \X Checks,
             rows[vc].status = "running", rows[vc].fresh,
             rows'[vc].status = "pending", runs' # runs + 1
      PROVE  FALSE
  <2>1. ~SameRow(vc)
    BY <1>1 DEF SameRow, TypeOK, Row
  <2> QED
    BY <1>1, <2>1, RowSteps, CheckRunsAssumption DEF RowKeys
<1>2. TypeOK /\ [Next]_vars => KeepsLiveClaims
  BY <1>1 DEF KeepsLiveClaims
<1> QED
  BY <1>2, TypeCorrect, PTL DEF Spec, LiveClaimsAreKept

-----------------------------------------------------------------------------
(* "Submitted" means checked.                                                *)

\* A run sets auto_checking; only Finalize sets submitted, and no other step
\* changes the version of a submitted submission.
LEMMA StatusSteps ==
    ASSUME TypeOK, [Next]_vars, sub'.status = "submitted"
    PROVE  /\ runs' # runs + 1
           /\ \/ /\ sub.status = "submitted"
                 /\ sub'.version = sub.version
              \/ /\ AllTerminal(sub.version)
                 /\ sub'.version = sub.version
                 /\ rows' = rows
<1>1. runs' # runs + 1
  <2>1. ~(QueueChecks \/ AddSubmissionVersion \/ EditRulesQueue)
    <3>1. CASE QueueChecks \/ EditRulesQueue
      <4>1. sub'.status = "auto_checking"
        BY <3>1 DEF QueueChecks, EditRulesQueue, TypeOK
      <4> QED
        BY <4>1
    <3>2. CASE AddSubmissionVersion
      <4>1. sub'.status = "auto_checking"
        BY <3>2 DEF AddSubmissionVersion, TypeOK
      <4> QED
        BY <4>1
    <3> QED
      BY <3>1, <3>2
  <2>2. runs + 1 # runs
    BY DEF TypeOK
  <2> QED
    BY <2>1, <2>2, RunSteps
<1>2. ASSUME NEW p \in Procs, Finalize(p)
      PROVE  \/ sub' = sub
             \/ /\ AllTerminal(sub.version)
                /\ sub'.version = sub.version
                /\ rows' = rows
  BY <1>2 DEF Finalize, StillCurrent, TypeOK
<1>3. ASSUME NEW p \in Procs,
             \/ StartWork(p) \/ ReadRow(p) \/ Claim(p) \/ Reread(p)
             \/ FinishEval(p) \/ LoadForResume(p) \/ Heartbeat(p) \/ Crash(p)
      PROVE  sub'.status = sub.status /\ sub'.version = sub.version
  BY <1>3 DEF StartWork, ReadRow, Claim, Reread, FinishEval, LoadForResume,
              Heartbeat, Crash, TypeOK
<1>4. ASSUME NEW p \in Procs, ResumeWorkflow(p)
      PROVE  sub' = sub
  <2>1. ASSUME NEW v
        PROVE  [sub EXCEPT !.status = "in_review", !.route = TRUE,
                           !.fresh = TRUE, !.version = v].status = "in_review"
    BY DEF TypeOK
  <2> QED
    BY <1>4, <2>1 DEF ResumeWorkflow
<1>5. CASE Watchdog \/ Quiet \/ UNCHANGED vars
  BY <1>1, <1>5 DEF Watchdog, DogSelect, DogScan, DogReset, Quiet, vars, TypeOK
<1>6. CASE \/ OpenMark \/ MarkChecking \/ EditRules \/ OpenSubmit \/ CommitSubmit
           \/ OpenDecision \/ ReviewerDecides
  <2>1. CASE MarkChecking \/ ReviewerDecides
    <3>1. sub'.status # "submitted"
      BY <2>1 DEF MarkChecking, ReviewerDecides, TypeOK
    <3> QED
      BY <3>1
  <2>2. CASE CommitSubmit
    BY <1>1, <2>2 DEF CommitSubmit, TypeOK
  <2>3. CASE OpenMark \/ EditRules \/ OpenSubmit \/ OpenDecision
    BY <1>1, <2>3 DEF OpenMark, EditRules, OpenSubmit, OpenDecision, TypeOK
  <2> QED
    BY <1>6, <2>1, <2>2, <2>3
<1>7. ~(QueueChecks \/ AddSubmissionVersion \/ EditRulesQueue)
  <2>1. CASE QueueChecks \/ AddSubmissionVersion \/ EditRulesQueue
    BY <1>1, <2>1, RunsReopen
  <2> QED
    BY <2>1
<1>8. CASE \E p \in Procs : Work(p) \/ Heartbeat(p) \/ Crash(p)
  <2> PICK p \in Procs : Work(p) \/ Heartbeat(p) \/ Crash(p)
    BY <1>8
  <2>1. CASE Finalize(p)
    BY <1>1, <1>2, <2>1
  <2>2. CASE ResumeWorkflow(p)
    BY <1>1, <1>4, <2>2
  <2>3. CASE \/ StartWork(p) \/ ReadRow(p) \/ Claim(p) \/ Reread(p)
             \/ FinishEval(p) \/ LoadForResume(p) \/ Heartbeat(p) \/ Crash(p)
    BY <1>1, <1>3, <2>3
  <2> QED
    BY <2>1, <2>2, <2>3 DEF Work
<1> QED
  BY <1>5, <1>6, <1>7, <1>8 DEF Next

\* Whenever the material is shown as ready to be sent, every check of its
\* current version has a result.
THEOREM SubmittedChecked == Spec => []SubmittedIsChecked
<1>1. Init => SubmittedIsChecked
  BY DEF Init, SubmittedIsChecked
<1>2. TypeOK /\ SubmittedIsChecked /\ [Next]_vars => SubmittedIsChecked'
  <2> SUFFICES ASSUME TypeOK, SubmittedIsChecked, [Next]_vars,
                      sub'.status = "submitted", NEW c \in Checks
               PROVE  rows'[sub'.version, c].status \in Verdicts
    BY DEF SubmittedIsChecked, AllTerminal, TerminalRow
  <2>1. CASE sub.status = "submitted" /\ sub'.version = sub.version
    <3>1. <<sub.version, c>> \in RowKeys
      BY DEF TypeOK, RowKeys
    <3>2. rows[sub.version, c].status \in Verdicts
      BY <2>1 DEF SubmittedIsChecked, AllTerminal, TerminalRow
    <3>3. SameRow(<<sub.version, c>>)
      BY <3>1, <3>2, StatusSteps, RowSteps, CheckRunsAssumption
    <3> QED
      BY <2>1, <3>1, <3>2, <3>3, RowsTyped DEF SameRow, Row
  <2>2. CASE AllTerminal(sub.version) /\ sub'.version = sub.version /\ rows' = rows
    BY <2>2 DEF AllTerminal, TerminalRow
  <2> QED
    BY <2>1, <2>2, StatusSteps
<1> QED
  BY <1>1, <1>2, TypeCorrect, PTL DEF Spec

-----------------------------------------------------------------------------
(* Claims are exclusive.  The invariant is inductive once it also says that  *)
(* an evaluating process holds a token.                                      *)

EvaluatorsHoldTokens ==
    \A p \in Procs : procs[p].pc = "eval" => procs[p].token \in Tokens

ClaimInv == TypeOK /\ ClaimsAreExclusive /\ EvaluatorsHoldTokens

\* No row gets a new claim, and no process starts to evaluate.
RowLosesOrKeeps(vc) ==
    \/ /\ rows'[vc].token = rows[vc].token
       /\ rows'[vc].status = "running" <=> rows[vc].status = "running"
    \/ /\ rows'[vc].token = NoToken
       /\ rows'[vc].status # "running"

ProcLeavesOrKeeps(p) ==
    procs'[p].pc = "eval" => procs[p].pc = "eval" /\ procs'[p] = procs[p]

LEMMA NoNewClaim ==
    ASSUME ClaimInv, TypeOK',
           \A vc \in Versions \X Checks : RowLosesOrKeeps(vc),
           \A p \in Procs : ProcLeavesOrKeeps(p)
    PROVE  ClaimInv'
<1>1. EvaluatorsHoldTokens'
  BY DEF ClaimInv, EvaluatorsHoldTokens, ProcLeavesOrKeeps
<1>2. ASSUME NEW vc \in Versions \X Checks
      PROVE  rows'[vc].token # NoToken <=> rows'[vc].status = "running"
  BY DEF ClaimInv, ClaimsAreExclusive, RowLosesOrKeeps
<1>3. ASSUME NEW a \in Versions \X Checks, NEW b \in Versions \X Checks,
             rows'[a].token = rows'[b].token, rows'[a].token # NoToken
      PROVE  a = b
  BY <1>3 DEF ClaimInv, ClaimsAreExclusive, RowLosesOrKeeps
<1>4. ASSUME NEW p \in Procs, NEW q \in Procs,
             procs'[p].pc = "eval", procs'[q].pc = "eval",
             procs'[p].token = procs'[q].token
      PROVE  p = q
  BY <1>4 DEF ClaimInv, ClaimsAreExclusive, ProcLeavesOrKeeps
<1>5. ASSUME NEW p \in Procs, NEW vc \in Versions \X Checks,
             procs'[p].pc = "eval", procs'[p].token = rows'[vc].token
      PROVE  vc = <<procs'[p].version, procs'[p].check>>
  <2>1. procs[p].pc = "eval" /\ procs'[p] = procs[p] /\ procs[p].token # NoToken
    BY <1>5, CheckRunsAssumption
    DEF ClaimInv, EvaluatorsHoldTokens, ProcLeavesOrKeeps
  <2>2. rows[vc].token = rows'[vc].token
    BY <1>5, <2>1 DEF RowLosesOrKeeps
  <2> QED
    BY <1>5, <2>1, <2>2 DEF ClaimInv, ClaimsAreExclusive
<1> QED
  BY <1>1, <1>2, <1>3, <1>4, <1>5 DEF ClaimInv, ClaimsAreExclusive

LEMMA ProcSteps ==
    ASSUME TypeOK, NEW p \in Procs, NEW q \in Procs,
           \/ Stop(q)
           \/ Advance(q)
           \/ \E pc \in PCs \ {"eval"} : procs' = [procs EXCEPT ![q].pc = pc]
           \/ \E r \in Proc : r.pc # "eval" /\ procs' = [procs EXCEPT ![q] = r]
           \/ UNCHANGED procs
    PROVE  ProcLeavesOrKeeps(p)
<1>1. CASE Stop(q)
  BY <1>1 DEF Stop, Idle, ProcLeavesOrKeeps, TypeOK
<1>2. CASE Advance(q)
  <2>1. Advanced(q).pc # "eval"
    <3>1. procs[q] \in Proc
      BY DEF TypeOK
    <3> QED
      BY <3>1 DEF Advanced, Proc
  <2> QED
    BY <1>2, <2>1 DEF Advance, ProcLeavesOrKeeps, TypeOK
<1>3. CASE \E pc \in PCs \ {"eval"} : procs' = [procs EXCEPT ![q].pc = pc]
  <2>1. PICK pc \in PCs \ {"eval"} : procs' = [procs EXCEPT ![q].pc = pc]
    BY <1>3
  <2>2. procs[q] \in Proc
    BY DEF TypeOK
  <2>3. p = q => procs'[p].pc = pc
    BY <2>1, <2>2 DEF TypeOK, Proc
  <2>4. p # q => procs'[p] = procs[p]
    BY <2>1 DEF TypeOK
  <2> QED
    BY <2>3, <2>4 DEF ProcLeavesOrKeeps
<1>4. CASE \E r \in Proc : r.pc # "eval" /\ procs' = [procs EXCEPT ![q] = r]
  BY <1>4 DEF ProcLeavesOrKeeps, TypeOK
<1>5. CASE UNCHANGED procs
  BY <1>5 DEF ProcLeavesOrKeeps
<1> QED
  BY <1>1, <1>2, <1>3, <1>4, <1>5

LEMMA LaunchSteps ==
    ASSUME TypeOK, NEW v \in Versions, NEW b \in BOOLEAN, Launched(v, b),
           NEW p \in Procs
    PROVE  ProcLeavesOrKeeps(p)
<1> DEFINE started == [Idle EXCEPT !.pc = "start", !.version = v, !.resume = b]
<1>1. started \in Proc /\ started.pc # "eval"
  BY ConstantsTyped DEF Idle, Proc, PCs
<1>2. CASE UNCHANGED procs
  BY <1>2, ProcSteps
<1>3. ASSUME NEW w \in Workers, procs' = [procs EXCEPT ![w] = started]
      PROVE  ProcLeavesOrKeeps(p)
  <2>1. w \in Procs
    BY DEF Procs
  <2> HIDE DEF started
  <2> QED
    BY <1>1, <1>3, <2>1, ProcSteps
<1> QED
  BY <1>2, <1>3 DEF Launched

\* Every step but a claim only gives claims up.
LEMMA OtherSteps ==
    ASSUME TypeOK, [Next]_vars, \A p \in Procs : ~Claim(p)
    PROVE  /\ \A vc \in Versions \X Checks : RowLosesOrKeeps(vc)
           /\ \A p \in Procs : ProcLeavesOrKeeps(p)
<1>1. ASSUME UNCHANGED rows
      PROVE  \A vc \in Versions \X Checks : RowLosesOrKeeps(vc)
  BY <1>1 DEF RowLosesOrKeeps
<1>2. CASE QueueChecks \/ AddSubmissionVersion \/ EditRulesQueue
  <2>1. PICK v : rows' = [wd \in Versions \X Checks |->
                            IF wd[1] = v THEN Reopened(rows[wd]) ELSE rows[wd]]
    BY <1>2, RunsReopen
  <2>2. \A vc \in Versions \X Checks : RowLosesOrKeeps(vc)
    BY <2>1 DEF RowLosesOrKeeps, Reopened
  <2>3. PICK v2 \in Versions, b \in BOOLEAN : Launched(v2, b)
    <3>1. sub.version \in Versions
      BY DEF TypeOK
    <3>2. CASE QueueChecks \/ EditRulesQueue
      BY <3>1, <3>2 DEF QueueChecks, EditRulesQueue
    <3>3. CASE AddSubmissionVersion
      <4>1. sub.latest + 1 \in Versions
        BY <3>3, CheckRunsAssumption DEF AddSubmissionVersion, Versions, TypeOK
      <4>2. (sub.status = "revision_requested") \in BOOLEAN
        OBVIOUS
      <4> QED
        BY <3>3, <4>1, <4>2 DEF AddSubmissionVersion
    <3> QED
      BY <1>2, <3>2, <3>3
  <2> QED
    BY <2>2, <2>3, LaunchSteps
<1>3. CASE \/ OpenMark \/ MarkChecking \/ EditRules \/ OpenSubmit \/ CommitSubmit
           \/ OpenDecision \/ ReviewerDecides
  <2>1. UNCHANGED <<rows, procs>>
    BY <1>3 DEF OpenMark, MarkChecking, EditRules, OpenSubmit, CommitSubmit,
                OpenDecision, ReviewerDecides
  <2> QED
    BY <1>1, <2>1 DEF ProcLeavesOrKeeps
<1>4. ASSUME NEW q \in Procs, StartWork(q)
      PROVE  /\ \A vc \in Versions \X Checks : RowLosesOrKeeps(vc)
             /\ \A p \in Procs : ProcLeavesOrKeeps(p)
  <2>1. "read" \in PCs \ {"eval"}
    BY DEF PCs
  <2>2. CASE StillCurrent(q)
    <3>1. procs' = [procs EXCEPT ![q].pc = "read"]
      BY <1>4, <2>2 DEF StartWork
    <3>2. \A p \in Procs : ProcLeavesOrKeeps(p)
      BY <2>1, <3>1, ProcSteps
    <3>3. \A vc \in Versions \X Checks : RowLosesOrKeeps(vc)
      BY <1>4, <2>2 DEF StartWork, RowLosesOrKeeps, Reopened
    <3> QED
      BY <3>2, <3>3
  <2>3. CASE ~StillCurrent(q)
    BY <1>1, <1>4, <2>3, ProcSteps DEF StartWork
  <2> QED
    BY <2>2, <2>3
<1>5. ASSUME NEW q \in Procs,
             \/ ReadRow(q) \/ Reread(q) \/ Finalize(q) \/ LoadForResume(q)
             \/ ResumeWorkflow(q) \/ Crash(q)
      PROVE  /\ \A vc \in Versions \X Checks : RowLosesOrKeeps(vc)
             /\ \A p \in Procs : ProcLeavesOrKeeps(p)
  <2>1. UNCHANGED rows
    BY <1>5 DEF ReadRow, Reread, Finalize, LoadForResume, ResumeWorkflow, Crash
  <2>2. \/ Stop(q)
        \/ Advance(q)
        \/ procs' = [procs EXCEPT ![q].pc = "claim"]
        \/ procs' = [procs EXCEPT ![q].pc = "post"]
        \/ procs' = [procs EXCEPT ![q].pc = "resume"]
    BY <1>5 DEF ReadRow, Reread, Finalize, LoadForResume, ResumeWorkflow, Crash
  <2>3. {"claim", "post", "resume"} \subseteq PCs \ {"eval"}
    BY DEF PCs
  <2> QED
    BY <1>1, <2>1, <2>2, <2>3, ProcSteps
<1>6. ASSUME NEW q \in Procs, FinishEval(q)
      PROVE  /\ \A vc \in Versions \X Checks : RowLosesOrKeeps(vc)
             /\ \A p \in Procs : ProcLeavesOrKeeps(p)
  <2>1. \A p \in Procs : ProcLeavesOrKeeps(p)
    BY <1>6, ProcSteps DEF FinishEval
  <2>2. CASE UNCHANGED rows
    BY <1>1, <2>1, <2>2
  <2>3. ASSUME NEW verdict \in Verdicts,
               rows' = [rows EXCEPT ![<<procs[q].version, procs[q].check>>] =
                           [status |-> verdict, token |-> NoToken,
                            fresh |-> TRUE]]
        PROVE  \A vc \in Versions \X Checks : RowLosesOrKeeps(vc)
    BY <2>3, CheckRunsAssumption DEF RowLosesOrKeeps, TypeOK
  <2> QED
    BY <1>6, <2>1, <2>2, <2>3 DEF FinishEval
<1>7. ASSUME NEW q \in Procs, Heartbeat(q)
      PROVE  /\ \A vc \in Versions \X Checks : RowLosesOrKeeps(vc)
             /\ \A p \in Procs : ProcLeavesOrKeeps(p)
  <2>1. UNCHANGED procs
    BY <1>7 DEF Heartbeat
  <2>2. \A vc \in Versions \X Checks : RowLosesOrKeeps(vc)
    <3> DEFINE wd == <<procs[q].version, procs[q].check>>
    <3>1. wd \in Versions \X Checks /\ rows[wd] \in Row
      BY DEF TypeOK, Proc
    <3>2. rows' = [rows EXCEPT ![wd] = [rows[wd] EXCEPT !.fresh = TRUE]]
      BY <1>7, <3>1 DEF Heartbeat, TypeOK
    <3>3. ASSUME NEW vc \in Versions \X Checks
          PROVE  rows'[vc].token = rows[vc].token /\ rows'[vc].status = rows[vc].status
      BY <3>1, <3>2 DEF TypeOK, Row
    <3> QED
      BY <3>3 DEF RowLosesOrKeeps
  <2> QED
    BY <2>1, <2>2 DEF ProcLeavesOrKeeps
<1>8. CASE DogSelect \/ DogScan
  <2>1. UNCHANGED rows /\ Dog \in Procs
    BY <1>8 DEF DogSelect, DogScan, Procs
  <2>2. CASE DogSelect
    <3> DEFINE r == [Idle EXCEPT !.pc = "selected", !.version = sub.version]
    <3>1. r \in Proc /\ r.pc # "eval"
      BY ConstantsTyped DEF TypeOK, Proc, PCs, Idle
    <3>2. procs' = [procs EXCEPT ![Dog] = r]
      BY <2>2 DEF DogSelect
    <3> HIDE DEF r
    <3> QED
      BY <1>1, <2>1, <3>1, <3>2, ProcSteps
  <2>3. CASE DogScan
    <3>1. \/ Stop(Dog)
          \/ procs' = [procs EXCEPT ![Dog].pc = "start"]
          \/ procs' = [procs EXCEPT ![Dog].pc = "reset"]
      BY <2>3 DEF DogScan
    <3>2. "start" \in PCs \ {"eval"} /\ "reset" \in PCs \ {"eval"}
      BY DEF PCs
    <3> QED
      BY <1>1, <2>1, <3>1, <3>2, ProcSteps
  <2> QED
    BY <1>8, <2>2, <2>3
<1>9. CASE DogReset
  <2>1. Dog \in Procs /\ "start" \in PCs \ {"eval"}
    BY DEF Procs, PCs
  <2>2. Stop(Dog) \/ procs' = [procs EXCEPT ![Dog].pc = "start"]
    BY <1>9 DEF DogReset
  <2>3. \A vc \in Versions \X Checks : RowLosesOrKeeps(vc)
    BY <1>9 DEF DogReset, RowLosesOrKeeps, Reopened
  <2> QED
    BY <2>1, <2>2, <2>3, ProcSteps
<1>10. CASE Quiet \/ UNCHANGED vars
  <2>1. UNCHANGED procs
    BY <1>10 DEF Quiet, vars
  <2>2. \A vc \in Versions \X Checks : RowLosesOrKeeps(vc)
    BY <1>10 DEF Quiet, vars, RowLosesOrKeeps, TypeOK, Row
  <2> QED
    BY <2>1, <2>2 DEF ProcLeavesOrKeeps
<1> QED
  BY <1>2, <1>3, <1>4, <1>5, <1>6, <1>7, <1>8, <1>9, <1>10
  DEF Next, Work, Watchdog

\* A claim takes a token that no row and no process holds.
LEMMA ClaimSteps ==
    ASSUME ClaimInv, TypeOK', NEW p \in Procs, Claim(p)
    PROVE  ClaimInv'
<1> DEFINE wd == <<procs[p].version, procs[p].check>>
<1>1. wd \in Versions \X Checks
  BY RowsTyped DEF ClaimInv, RowKeys
<1>2. CASE ~Claimable(rows[wd])
  <2>1. UNCHANGED rows /\ procs' = [procs EXCEPT ![p].pc = "reread"]
    BY <1>2 DEF Claim
  <2>2. "reread" \in PCs \ {"eval"}
    BY DEF PCs
  <2>3. \A q \in Procs : ProcLeavesOrKeeps(q)
    BY <2>1, <2>2, ProcSteps DEF ClaimInv
  <2> QED
    BY <2>1, <2>3, NoNewClaim DEF RowLosesOrKeeps
<1>3. CASE Claimable(rows[wd])
  <2>1. PICK t \in Tokens \ TokensInUse :
          /\ rows' = [rows EXCEPT ![wd] =
                        [status |-> "running", token |-> t,
                         fresh |-> TRUE]]
          /\ procs' = [procs EXCEPT ![p].pc = "eval", ![p].token = t]
    BY <1>3 DEF Claim
  <2>2. t # NoToken
    BY CheckRunsAssumption
  <2>3. /\ \A vc \in Versions \X Checks : rows[vc].token # t
        /\ \A q \in Procs : procs[q].token # t
    BY DEF TokensInUse
  <2>4. /\ rows'[wd].token = t
        /\ rows'[wd].status = "running"
        /\ \A vc \in Versions \X Checks : vc # wd => rows'[vc] = rows[vc]
    BY <1>1, <2>1 DEF ClaimInv, TypeOK
  <2>5. /\ procs'[p].token = t
        /\ procs'[p].version = procs[p].version
        /\ procs'[p].check = procs[p].check
        /\ \A q \in Procs : q # p => procs'[q] = procs[q]
    <3>1. procs[p] \in Proc
      BY DEF ClaimInv, TypeOK
    <3>2. procs'[p] = [procs[p] EXCEPT !.pc = "eval", !.token = t]
      BY <2>1 DEF ClaimInv, TypeOK
    <3> QED
      BY <2>1, <3>1, <3>2 DEF Proc, ClaimInv, TypeOK
  <2>6. EvaluatorsHoldTokens'
    BY <2>5 DEF ClaimInv, EvaluatorsHoldTokens
  <2>7. ASSUME NEW vc \in Versions \X Checks
        PROVE  rows'[vc].token # NoToken <=> rows'[vc].status = "running"
    BY <2>2, <2>4 DEF ClaimInv, ClaimsAreExclusive
  <2>8. ASSUME NEW a \in Versions \X Checks, NEW b \in Versions \X Checks,
               rows'[a].token = rows'[b].token, rows'[a].token # NoToken
        PROVE  a = b
    BY <2>3, <2>4, <2>8 DEF ClaimInv, ClaimsAreExclusive
  <2>9. ASSUME NEW q \in Procs, NEW r \in Procs,
               procs'[q].pc = "eval", procs'[r].pc = "eval",
               procs'[q].token = procs'[r].token
        PROVE  q = r
    BY <2>3, <2>5, <2>9 DEF ClaimInv, ClaimsAreExclusive
  <2>10. ASSUME NEW q \in Procs, NEW vc \in Versions \X Checks,
                procs'[q].pc = "eval", procs'[q].token = rows'[vc].token
         PROVE  vc = <<procs'[q].version, procs'[q].check>>
    <3>1. CASE q = p
      BY <2>3, <2>4, <2>5, <2>10, <3>1
    <3>2. CASE q # p
      BY <2>3, <2>4, <2>5, <2>10, <3>2 DEF ClaimInv, ClaimsAreExclusive
    <3> QED
      BY <3>1, <3>2
  <2> QED
    BY <2>6, <2>7, <2>8, <2>9, <2>10 DEF ClaimInv, ClaimsAreExclusive
<1> QED
  BY <1>2, <1>3

\* A claim token names one claim: one row, one evaluation.
THEOREM ClaimsExclusive == Spec => []ClaimsAreExclusive
<1>1. Init => ClaimsAreExclusive /\ EvaluatorsHoldTokens
  BY DEF Init, ClaimsAreExclusive, EvaluatorsHoldTokens, AbsentRow, Idle
<1>2. ClaimInv /\ TypeOK' /\ [Next]_vars => ClaimInv'
  <2> SUFFICES ASSUME ClaimInv, TypeOK', [Next]_vars
               PROVE  ClaimInv'
    OBVIOUS
  <2>1. CASE \E p \in Procs : Claim(p)
    BY <2>1, ClaimSteps
  <2>2. CASE \A p \in Procs : ~Claim(p)
    BY <2>2, OtherSteps, NoNewClaim DEF ClaimInv
  <2> QED
    BY <2>1, <2>2
<1>3. ClaimInv => ClaimsAreExclusive
  BY DEF ClaimInv
<1>4. TypeOK /\ ClaimsAreExclusive /\ EvaluatorsHoldTokens => ClaimInv
  BY DEF ClaimInv
<1> QED
  BY <1>1, <1>2, <1>3, <1>4, TypeCorrect, PTL DEF Spec

-----------------------------------------------------------------------------
(* The protocol implements the board of checks.                              *)

DoneMap == [v \in Versions |-> {c \in Checks : TerminalRow(v, c)}]

\* Explicit runs aside, only FinishEval makes a check done or undoes one.
LEMMA DoneSteps ==
    ASSUME TypeOK, [Next]_vars, runs' # runs + 1, \A p \in Procs : ~FinishEval(p)
    PROVE  DoneMap' = DoneMap
<1>1. ASSUME NEW v \in Versions, NEW c \in Checks
      PROVE  rows'[v, c].status \in Verdicts <=> rows[v, c].status \in Verdicts
  <2>1. <<v, c>> \in RowKeys
    BY DEF RowKeys
  <2>2. CASE SameRow(<<v, c>>)
    <3>1. rows'[v, c].status = rows[v, c].status
      <4>1. [rows'[v, c] EXCEPT !.fresh = rows[v, c].fresh].status
               = rows[v, c].status
        BY <2>2 DEF SameRow
      <4>2. "status" \in DOMAIN rows'[v, c] \/ ~SameRow(<<v, c>>)
        BY <2>1, RowsTyped DEF SameRow, Row
      <4> QED
        BY <2>2, <4>1, <4>2
    <3> QED
      BY <3>1
  <2>3. CASE ~SameRow(<<v, c>>)
    BY <2>1, <2>3, RowSteps, CheckRunsAssumption
  <2> QED
    BY <2>2, <2>3
<1> QED
  BY <1>1 DEF DoneMap, TerminalRow

\* A run of version v leaves no check of it done and touches no other version.
LEMMA PreparedOpens ==
    ASSUME TypeOK, NEW v \in Versions, Prepared(v)
    PROVE  DoneMap' = [DoneMap EXCEPT ![v] = {}]
<1>1. ASSUME NEW w \in Versions, NEW c \in Checks
      PROVE  rows'[w, c].status \in Verdicts
                <=> w # v /\ rows[w, c].status \in Verdicts
  BY CheckRunsAssumption DEF Prepared, Reopened
<1> QED
  BY <1>1 DEF DoneMap, TerminalRow

\* No submission and no process is at a version that was not uploaded.
Uploaded ==
    /\ sub.version <= sub.latest
    /\ \A p \in Procs : procs[p].version <= sub.latest

\* Where one process changes, the others keep their versions.
LEMMA ProcUploaded ==
    ASSUME TypeOK, Uploaded, NEW q \in Procs, sub'.latest = sub.latest,
           \/ UNCHANGED procs
           \/ Stop(q)
           \/ Advance(q)
           \/ \E pc \in PCs, t \in Tokens \cup {NoToken} :
                 procs' = [procs EXCEPT ![q].pc = pc, ![q].token = t]
           \/ \E pc \in PCs : procs' = [procs EXCEPT ![q].pc = pc]
           \/ \E r \in Proc : r.version <= sub.latest
                              /\ procs' = [procs EXCEPT ![q] = r]
    PROVE  \A p \in Procs : procs'[p].version <= sub'.latest
<1> SUFFICES ASSUME NEW p \in Procs
             PROVE  procs'[p].version <= sub.latest
  OBVIOUS
<1>1. sub.latest \in Nat /\ 1 <= sub.latest /\ procs[p].version <= sub.latest
  BY DEF TypeOK, Versions, Uploaded
<1>2. procs[p] \in Proc /\ procs[q] \in Proc
  BY DEF TypeOK
<1>3. CASE Stop(q)
  BY <1>1, <1>3 DEF Stop, Idle, TypeOK
<1>4. CASE Advance(q)
  <2>1. Advanced(q).version = procs[q].version
    BY <1>2 DEF Advanced, Proc
  <2> QED
    BY <1>1, <1>4, <2>1 DEF Advance, TypeOK
<1>5. CASE \E pc \in PCs, t \in Tokens \cup {NoToken} :
              procs' = [procs EXCEPT ![q].pc = pc, ![q].token = t]
  <2>1. PICK pc \in PCs, t \in Tokens \cup {NoToken} :
           procs' = [procs EXCEPT ![q].pc = pc, ![q].token = t]
    BY <1>5
  <2>2. procs'[p] = [procs[p] EXCEPT !.pc = pc, !.token = t] \/ procs'[p] = procs[p]
    BY <2>1 DEF TypeOK
  <2>3. procs'[p].version = procs[p].version
    BY <1>2, <2>2 DEF Proc
  <2> QED
    BY <1>1, <2>3
<1>6. CASE \E pc \in PCs : procs' = [procs EXCEPT ![q].pc = pc]
  <2>1. PICK pc \in PCs : procs' = [procs EXCEPT ![q].pc = pc]
    BY <1>6
  <2>2. procs'[p] = [procs[p] EXCEPT !.pc = pc] \/ procs'[p] = procs[p]
    BY <2>1 DEF TypeOK
  <2>3. procs'[p].version = procs[p].version
    BY <1>2, <2>2 DEF Proc
  <2> QED
    BY <1>1, <2>3
<1>7. CASE \E r \in Proc : r.version <= sub.latest
                            /\ procs' = [procs EXCEPT ![q] = r]
  BY <1>1, <1>7 DEF TypeOK
<1>8. CASE UNCHANGED procs
  BY <1>1, <1>8
<1> QED
  BY <1>3, <1>4, <1>5, <1>6, <1>7, <1>8

LEMMA LaunchUploaded ==
    ASSUME TypeOK, Uploaded, NEW v \in Versions, NEW b \in BOOLEAN,
           Launched(v, b), sub'.latest \in Versions,
           sub.latest <= sub'.latest, v <= sub'.latest
    PROVE  \A p \in Procs : procs'[p].version <= sub'.latest
<1> DEFINE started == [Idle EXCEPT !.pc = "start", !.version = v, !.resume = b]
<1>1. started.version = v
  BY DEF Idle
<1>2. ASSUME NEW p \in Procs
      PROVE  procs[p].version <= sub'.latest
  BY DEF TypeOK, Uploaded, Versions, Proc
<1>3. CASE UNCHANGED procs
  BY <1>2, <1>3
<1>4. ASSUME NEW w \in Workers, procs' = [procs EXCEPT ![w] = started]
      PROVE  \A p \in Procs : procs'[p].version <= sub'.latest
  <2> HIDE DEF started
  <2> QED
    BY <1>1, <1>2, <1>4 DEF TypeOK
<1> QED
  BY <1>3, <1>4 DEF Launched

LEMMA UploadedSteps ==
    ASSUME TypeOK, Uploaded, [Next]_vars
    PROVE  Uploaded'
<1>1. sub.latest \in Versions /\ sub.version \in Versions
  BY DEF TypeOK
<1>2. CASE QueueChecks \/ EditRulesQueue
  <2>1. sub'.version = sub.version /\ sub'.latest = sub.latest
    BY <1>2 DEF QueueChecks, EditRulesQueue, TypeOK
  <2>2. Launched(sub.version, FALSE)
    BY <1>2 DEF QueueChecks, EditRulesQueue
  <2>3. \A p \in Procs : procs'[p].version <= sub'.latest
    <3>1. /\ sub'.latest \in Versions
          /\ sub.latest <= sub'.latest
          /\ sub.version <= sub'.latest
      BY <1>1, <2>1 DEF Versions, Uploaded
    <3> QED
      BY <1>1, <2>2, <3>1, LaunchUploaded
  <2> QED
    BY <2>1, <2>3 DEF Uploaded
<1>3. CASE AddSubmissionVersion
  <2>1. /\ sub'.version = sub.latest + 1
        /\ sub'.latest = sub.latest + 1
        /\ sub.latest + 1 \in Versions
    BY <1>1, <1>3, CheckRunsAssumption DEF AddSubmissionVersion, TypeOK, Versions
  <2>2. Launched(sub.latest + 1, sub.status = "revision_requested")
    BY <1>3 DEF AddSubmissionVersion
  <2>3. (sub.status = "revision_requested") \in BOOLEAN
    OBVIOUS
  <2>4. sub.latest <= sub'.latest /\ sub.latest + 1 <= sub'.latest
    BY <1>1, <2>1 DEF Versions
  <2>5. \A p \in Procs : procs'[p].version <= sub'.latest
    BY <2>1, <2>2, <2>3, <2>4, LaunchUploaded
  <2> QED
    BY <1>1, <2>1, <2>5 DEF Uploaded, Versions
<1>4. CASE \/ OpenMark \/ MarkChecking \/ EditRules \/ OpenSubmit \/ CommitSubmit
           \/ OpenDecision \/ ReviewerDecides \/ Quiet \/ UNCHANGED vars
  BY <1>4 DEF OpenMark, MarkChecking, EditRules, OpenSubmit, CommitSubmit,
              OpenDecision, ReviewerDecides, Quiet, vars, TypeOK, Uploaded
<1>5. ASSUME NEW p \in Procs, Work(p) \/ Heartbeat(p) \/ Crash(p)
      PROVE  Uploaded'
  <2>1. sub'.latest = sub.latest /\ sub'.version \in {sub.version, procs[p].version}
    BY <1>5 DEF Work, StartWork, ReadRow, Claim, Reread, FinishEval, Finalize,
                LoadForResume, ResumeWorkflow, Heartbeat, Crash, TypeOK
  <2>2. sub'.version <= sub'.latest
    BY <2>1 DEF Uploaded
  <2>3. \/ UNCHANGED procs
        \/ Stop(p)
        \/ Advance(p)
        \/ \E pc \in PCs, t \in Tokens \cup {NoToken} :
              procs' = [procs EXCEPT ![p].pc = pc, ![p].token = t]
        \/ \E pc \in PCs : procs' = [procs EXCEPT ![p].pc = pc]
    BY <1>5 DEF Work, StartWork, ReadRow, Claim, Reread, FinishEval, Finalize,
                LoadForResume, ResumeWorkflow, Heartbeat, Crash, PCs
  <2>4. \A q \in Procs : procs'[q].version <= sub'.latest
    BY <2>1, <2>3, ProcUploaded
  <2> QED
    BY <2>2, <2>4 DEF Uploaded
<1>6. CASE Watchdog
  <2>1. UNCHANGED sub /\ Dog \in Procs
    BY <1>6 DEF Watchdog, DogSelect, DogScan, DogReset, Procs
  <2>2. CASE DogSelect
    <3> DEFINE r == [Idle EXCEPT !.pc = "selected", !.version = sub.version]
    <3>1. r \in Proc /\ r.version <= sub.latest
      BY ConstantsTyped DEF TypeOK, Proc, PCs, Idle, Uploaded
    <3>2. procs' = [procs EXCEPT ![Dog] = r]
      BY <2>2 DEF DogSelect
    <3> HIDE DEF r
    <3>3. \A q \in Procs : procs'[q].version <= sub'.latest
      BY <2>1, <3>1, <3>2, ProcUploaded
    <3> QED
      BY <2>1, <3>3 DEF Uploaded
  <2>3. CASE DogScan \/ DogReset
    <3>1. Stop(Dog) \/ (\E pc \in PCs : procs' = [procs EXCEPT ![Dog].pc = pc])
      BY <2>3 DEF DogScan, DogReset, PCs
    <3>2. \A q \in Procs : procs'[q].version <= sub'.latest
      BY <2>1, <3>1, ProcUploaded
    <3> QED
      BY <2>1, <3>2 DEF Uploaded
  <2> QED
    BY <1>6, <2>2, <2>3 DEF Watchdog
<1> QED
  BY <1>2, <1>3, <1>4, <1>5, <1>6 DEF Next

\* A process completes the check it was evaluating, or nothing.
LEMMA FinishRecords ==
    ASSUME TypeOK, NEW p \in Procs, FinishEval(p)
    PROVE  \/ UNCHANGED DoneMap
           \/ /\ procs[p].check \notin DoneMap[procs[p].version]
              /\ DoneMap' = [DoneMap EXCEPT ![procs[p].version] =
                                @ \cup {procs[p].check}]
<1> DEFINE v == procs[p].version
           c == procs[p].check
<1>1. v \in Versions /\ c \in Checks
  BY DEF TypeOK, Proc
<1>2. CASE ~OwnsRow(p)
  BY <1>2 DEF FinishEval, DoneMap, TerminalRow
<1>3. CASE OwnsRow(p)
  <2>1. rows[v, c].status \notin Verdicts
    BY <1>3, CheckRunsAssumption DEF OwnsRow
  <2>2. PICK verdict \in Verdicts :
          rows' = [rows EXCEPT ![<<v, c>>] =
                      [status |-> verdict, token |-> NoToken,
                       fresh |-> TRUE]]
    BY <1>3 DEF FinishEval
  <2>3. ASSUME NEW w \in Versions, NEW d \in Checks
        PROVE  rows'[w, d].status \in Verdicts
                  <=> (w = v /\ d = c) \/ rows[w, d].status \in Verdicts
    BY <1>1, <2>2 DEF TypeOK
  <2>4. c \notin DoneMap[v]
    BY <1>1, <2>1 DEF DoneMap, TerminalRow
  <2>5. DoneMap' = [DoneMap EXCEPT ![v] = @ \cup {c}]
    <3>1. DoneMap' = [w \in Versions |-> {d \in Checks :
                          (w = v /\ d = c) \/ rows[w, d].status \in Verdicts}]
      BY <2>3 DEF DoneMap, TerminalRow
    <3>2. [DoneMap EXCEPT ![v] = @ \cup {c}]
             = [w \in Versions |-> {d \in Checks :
                          (w = v /\ d = c) \/ rows[w, d].status \in Verdicts}]
      BY <1>1 DEF DoneMap, TerminalRow
    <3> QED
      BY <3>1, <3>2
  <2> QED
    BY <2>4, <2>5
<1> QED
  BY <1>2, <1>3

\* Every step of the protocol is a step of the board or leaves it as it is.
LEMMA BoardSteps ==
    ASSUME TypeOK, Uploaded, [Next]_vars
    PROVE  [Board!BoardNext]_(Board!bvars)
<1> DEFINE Stutter == /\ sub'.status = sub.status
                      /\ sub'.version = sub.version
                      /\ sub'.latest = sub.latest
                      /\ DoneMap' = DoneMap
<1>1. Stutter => UNCHANGED Board!bvars
  BY DEF Board!bvars, DoneMap
<1>2. sub.version \in Versions
  BY DEF TypeOK
<1>3. CASE QueueChecks \/ EditRulesQueue
  <2>1. /\ sub'.status = "auto_checking"
        /\ sub'.version = sub.version
        /\ sub'.latest = sub.latest
    BY <1>3 DEF QueueChecks, EditRulesQueue, TypeOK
  <2>2. DoneMap' = [DoneMap EXCEPT ![sub.version] = {}]
    BY <1>2, <1>3, PreparedOpens DEF QueueChecks, EditRulesQueue
  <2>3. Board!Rerun
    BY <2>1, <2>2 DEF Board!Rerun, DoneMap
  <2> QED
    BY <2>3 DEF Board!BoardNext
<1>4. CASE AddSubmissionVersion
  <2>1. /\ sub.latest < MaxVersions
        /\ sub.latest + 1 \in Versions
    BY <1>4, CheckRunsAssumption DEF AddSubmissionVersion, Versions, TypeOK
  <2>2. /\ sub'.status = "auto_checking"
        /\ sub'.version = sub.latest + 1
        /\ sub'.latest = sub.latest + 1
    BY <1>4 DEF AddSubmissionVersion, TypeOK
  <2>3. DoneMap' = [DoneMap EXCEPT ![sub.latest + 1] = {}]
    BY <1>4, <2>1, PreparedOpens DEF AddSubmissionVersion
  <2>4. Board!NewVersion
    BY <2>1, <2>2, <2>3 DEF Board!NewVersion, DoneMap
  <2> QED
    BY <2>4 DEF Board!BoardNext
<1>5. ASSUME NEW p \in Procs, FinishEval(p)
      PROVE  [Board!BoardNext]_(Board!bvars)
  <2>1. sub' = sub
    BY <1>5 DEF FinishEval
  <2>2. CASE UNCHANGED DoneMap
    BY <1>1, <2>1, <2>2
  <2>3. CASE /\ procs[p].check \notin DoneMap[procs[p].version]
             /\ DoneMap' = [DoneMap EXCEPT ![procs[p].version] =
                               @ \cup {procs[p].check}]
    <3>1. procs[p].version \in Board!Versions /\ procs[p].check \in Board!Checks
      BY DEF TypeOK, Proc, Versions, Checks, Board!Versions, Board!Checks
    <3>2. Board!Record(procs[p].version, procs[p].check)
      BY <2>1, <2>3 DEF Board!Record, DoneMap
    <3> QED
      BY <3>1, <3>2 DEF Board!BoardNext
  <2> QED
    BY <1>5, <2>2, <2>3, FinishRecords
<1>6. ~(QueueChecks \/ AddSubmissionVersion \/ EditRulesQueue)
         /\ (\A p \in Procs : ~FinishEval(p)) => DoneMap' = DoneMap
  <2>1. ASSUME ~(QueueChecks \/ AddSubmissionVersion \/ EditRulesQueue)
        PROVE  runs' # runs + 1
    BY <2>1, RunSteps DEF TypeOK
  <2> QED
    BY <2>1, DoneSteps
<1>7. ASSUME ~(QueueChecks \/ AddSubmissionVersion \/ EditRulesQueue),
             \A p \in Procs : ~FinishEval(p)
      PROVE  [Board!BoardNext]_(Board!bvars)
  <2>1. DoneMap' = DoneMap
    BY <1>6, <1>7
  <2>2. CASE MarkChecking
    <3>1. /\ sub'.status = "auto_checking"
          /\ sub'.version = sub.version
          /\ sub'.latest = sub.latest
      BY <2>2 DEF MarkChecking, TypeOK
    <3>2. Board!Announce
      BY <2>1, <3>1 DEF Board!Announce, DoneMap
    <3> QED
      BY <3>2 DEF Board!BoardNext
  <2>3. ASSUME \/ sub'.status \in {"in_review", "revision_requested", "closed"}
               \/ sub'.status = sub.status /\ sub'.version = sub.version,
               sub'.version \in Versions,
               sub'.version <= sub.latest,
               sub'.latest = sub.latest
        PROVE  [Board!BoardNext]_(Board!bvars)
    <3>1. CASE sub'.status \in {"in_review", "revision_requested", "closed"}
      <4>1. sub'.version \in 1..sub.latest
        BY <2>3 DEF TypeOK, Versions
      <4>2. Board!Review
        BY <2>1, <2>3, <3>1, <4>1 DEF Board!Review, DoneMap
      <4> QED
        BY <4>2 DEF Board!BoardNext
    <3>2. CASE sub'.status = sub.status /\ sub'.version = sub.version
      BY <1>1, <2>1, <2>3, <3>2
    <3> QED
      BY <2>3, <3>1, <3>2
  <2>4. CASE OpenMark \/ EditRules \/ OpenSubmit \/ OpenDecision \/ CommitSubmit
    BY <2>3, <2>4 DEF OpenMark, EditRules, OpenSubmit, OpenDecision,
                      CommitSubmit, TypeOK, Uploaded
  <2>5. CASE ReviewerDecides
    BY <2>3, <2>5 DEF ReviewerDecides, TypeOK, Uploaded
  <2>6. ASSUME NEW p \in Procs, Finalize(p)
        PROVE  [Board!BoardNext]_(Board!bvars)
    <3>1. CASE sub' = sub
      BY <2>3, <3>1 DEF TypeOK, Uploaded
    <3>2. CASE sub' # sub
      <4>1. /\ StillCurrent(p)
            /\ AllTerminal(procs[p].version)
            /\ sub.status = "auto_checking"
            /\ sub' = [sub EXCEPT !.status = "submitted", !.fresh = TRUE]
        BY <2>6, <3>2 DEF Finalize
      <4>2. /\ sub'.status = "submitted"
            /\ sub'.version = sub.version
            /\ sub'.latest = sub.latest
        BY <4>1 DEF TypeOK
      <4>3. DoneMap[sub.version] = Board!Checks
        BY <1>2, <4>1 DEF StillCurrent, AllTerminal, DoneMap, Checks, Board!Checks
      <4>4. Board!Complete
        BY <2>1, <4>1, <4>2, <4>3 DEF Board!Complete, DoneMap
      <4> QED
        BY <4>4 DEF Board!BoardNext
    <3> QED
      BY <3>1, <3>2
  <2>7. ASSUME NEW p \in Procs, ResumeWorkflow(p)
        PROVE  [Board!BoardNext]_(Board!bvars)
    <3>1. procs[p].version \in Versions /\ procs[p].version <= sub.latest
      BY DEF TypeOK, Proc, Uploaded
    <3>2. CASE UNCHANGED sub
      BY <2>3, <3>2 DEF TypeOK, Uploaded
    <3>3. CASE \E version \in {sub.version, procs[p].version} :
                  sub' = [sub EXCEPT !.status = "in_review", !.route = TRUE,
                                     !.fresh = TRUE, !.version = version]
      <4>1. /\ sub'.status = "in_review"
            /\ sub'.version \in {sub.version, procs[p].version}
            /\ sub'.latest = sub.latest
        BY <3>3 DEF TypeOK
      <4> QED
        BY <2>3, <3>1, <4>1 DEF TypeOK, Uploaded
    <3> QED
      BY <2>7, <3>2, <3>3 DEF ResumeWorkflow
  <2>8. ASSUME NEW p \in Procs,
               \/ StartWork(p) \/ ReadRow(p) \/ Claim(p) \/ Reread(p)
               \/ LoadForResume(p) \/ Heartbeat(p) \/ Crash(p)
        PROVE  [Board!BoardNext]_(Board!bvars)
    BY <2>3, <2>8 DEF StartWork, ReadRow, Claim, Reread, LoadForResume,
                      Heartbeat, Crash, TypeOK, Uploaded
  <2>9. CASE Watchdog \/ Quiet \/ UNCHANGED vars
    BY <2>3, <2>9 DEF Watchdog, DogSelect, DogScan, DogReset, Quiet, vars,
                      TypeOK, Uploaded
  <2>10. CASE \E p \in Procs : Work(p) \/ Heartbeat(p) \/ Crash(p)
    BY <1>7, <2>6, <2>7, <2>8, <2>10 DEF Work
  <2> QED
    BY <1>7, <2>2, <2>4, <2>5, <2>9, <2>10 DEF Next
<1> QED
  BY <1>3, <1>4, <1>5, <1>7

\* Claims, crashes, lost launches and the watchdog are invisible to the board:
\* a check is completed once per run, only a run reopens it, and checking ends
\* only when every check of the current version is done.
THEOREM Implements == Spec => ImplementsBoard
<1>1. Init => Board!BoardInit
  <2> SUFFICES ASSUME Init PROVE Board!BoardInit
    OBVIOUS
  <2>1. \A v \in Versions, c \in Checks : ~TerminalRow(v, c)
    BY CheckRunsAssumption DEF Init, TerminalRow, AbsentRow
  <2>2. [v \in Versions |-> {c \in Checks : TerminalRow(v, c)}]
           = [v \in Versions |-> {}]
    BY <2>1
  <2> QED
    BY <2>2 DEF Init, Board!BoardInit, Versions, Board!Versions
<1>2. Init => Uploaded
  BY DEF Init, Uploaded, Idle
<1>3. TypeOK /\ Uploaded /\ [Next]_vars => Uploaded'
  BY UploadedSteps
<1>4. TypeOK /\ Uploaded /\ [Next]_vars => [Board!BoardNext]_(Board!bvars)
  BY BoardSteps
<1> QED
  BY <1>1, <1>2, <1>3, <1>4, TypeCorrect, PTL DEF Spec, ImplementsBoard, Board!Board
=============================================================================
