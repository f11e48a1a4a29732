----------------------- MODULE ConclusionChainProofs -----------------------
(***************************************************************************)
(* Proofs about ConclusionChain, for any number of requests, tasks,        *)
(* signatures, versions, files and faults.                                 *)
(***************************************************************************)
EXTENDS ConclusionChain, SequenceTheorems, FiniteSetTheorems, TLAPS

(***************************************************************************)
(* The inductive invariant                                                 *)
(***************************************************************************)

USE DEF route, time, conclusion

IsLatest(c, i) == \A j \in DOMAIN c \ {i} : Before(c, j, i)

\* order_by(...).first() finds a signature.
HasLatest == chain # <<>> => \E i \in DOMAIN chain : IsLatest(chain, i)

Packaging == {"source", "printed", "xml", "row"}

\* The signature that the transaction has made goes on the chain as it is.
NewSignatureFits ==
    approval.pc \in Packaging =>
        /\ document # Empty
        /\ package = NoPackage
        /\ Len(chain) < MaxSignatures
        /\ ~late => approval.signature[1].version = version
        /\ ~back => /\ approval.signature[1].prev = Len(chain)
                    /\ approval.signature[1].time <= clock
                    /\ \A i \in DOMAIN chain :
                          chain[i].time <= approval.signature[1].time

SignaturesAreOfThePast ==
    /\ version <= latest
    /\ ~late => \A i \in DOMAIN chain : chain[i].version <= version
    /\ ~back => \A i \in DOMAIN chain : chain[i].time <= clock

IInv ==
    /\ TypeOK
    /\ HasLatest
    /\ NewSignatureFits
    /\ SignaturesAreOfThePast
    /\ ChainIsLinear

(***************************************************************************)
(* Facts about the data                                                    *)
(***************************************************************************)

LEMMA Bounds ==
    /\ MaxSignatures \in Nat /\ MaxVersions \in Nat /\ MaxClock \in Nat
    /\ MaxFiles \in Nat /\ MaxFaults \in Nat /\ MaxTasks \in Nat
    /\ MaxVersions > 0 /\ MaxTasks > 0
BY ConclusionChainAssumption

LEMMA IdleFacts ==
    /\ Idle \in Approval
    /\ Idle.pc = "idle" /\ Idle.signature = <<>> /\ Idle.saved = <<>>
    /\ Idle.writing = <<>>
    /\ Len(Idle.signature) = 0 /\ Len(Idle.saved) = 0 /\ Len(Idle.writing) = 0
BY Bounds DEF Idle, Approval, Tasks

LEMMA ContentFacts ==
    /\ \A v \in Versions : [kind |-> "docx", version |-> v] \in Content
    /\ \A f \in Names : [kind |-> "pdf", of |-> f] \in Content
    /\ \A f \in Names, n \in Ids :
          /\ [kind |-> "printed", of |-> f, count |-> n] \in Content
          /\ [kind |-> "xml", of |-> f, count |-> n] \in Content
BY DEF Content

LEMMA FieldType ==
    ASSUME NEW f \in Names, NEW c \in Content
    PROVE  Field(f, c) \in Stored
BY Bounds DEF Field, Stored, Names

\* The latest signature is one of the chain, and the others are before it.
LEMMA LatestFacts ==
    ASSUME chain \in Seq(Signature), Len(chain) <= MaxSignatures, HasLatest
    PROVE  /\ Latest(chain) \in 0..MaxSignatures
           /\ chain = <<>> => Latest(chain) = 0
           /\ chain # <<>> => /\ Latest(chain) \in DOMAIN chain
                              /\ IsLatest(chain, Latest(chain))
<1>1. CASE chain = <<>>
    BY <1>1, Bounds DEF Latest
<1>2. CASE chain # <<>>
    <2>1. PICK i \in DOMAIN chain : IsLatest(chain, i)
        BY <1>2 DEF HasLatest
    <2>2. Latest(chain) = CHOOSE k \in DOMAIN chain :
                              \A j \in DOMAIN chain \ {k} : Before(chain, j, k)
        BY <1>2 DEF Latest
    <2>3. /\ Latest(chain) \in DOMAIN chain
          /\ IsLatest(chain, Latest(chain))
        BY <2>1, <2>2 DEF IsLatest
    <2> QED
        BY <1>2, <2>3, Bounds
<1> QED
    BY <1>1, <1>2

\* In a linear chain the latest signature is the last one.
LEMMA LatestOfLinear ==
    ASSUME chain \in Seq(Signature), Len(chain) <= MaxSignatures, HasLatest,
           ChainIsLinear, ~back
    PROVE  Latest(chain) = Len(chain)
<1>1. CASE chain = <<>>
    BY <1>1, LatestFacts
<1>2. CASE chain # <<>>
    <2> DEFINE k == Latest(chain)
    <2>1. k \in DOMAIN chain /\ IsLatest(chain, k)
        BY <1>2, LatestFacts
    <2>2. Len(chain) \in DOMAIN chain
        BY <1>2
    <2>3. ASSUME k # Len(chain) PROVE FALSE
        <3>1. Before(chain, Len(chain), k)
            BY <2>1, <2>2, <2>3 DEF IsLatest
        <3>2. Before(chain, k, Len(chain))
            BY <2>1, <2>2, <2>3 DEF ChainIsLinear
        <3>3. chain[k].time \in Int /\ chain[Len(chain)].time \in Int
            <4>1. \A s \in Signature : s.time \in Int
                BY Bounds DEF Signature, Times
            <4> HIDE DEF k
            <4> QED
                BY <4>1, <2>1, <2>2
        <3> HIDE DEF k
        <3> QED
            BY <3>1, <3>2, <3>3, <2>1, <2>2, <2>3 DEF Before
    <2> QED
        BY <2>3
<1> QED
    BY <1>1, <1>2

\* A chain with one more signature still has a latest one.
LEMMA AppendHasLatest ==
    ASSUME chain \in Seq(Signature), HasLatest, NEW s \in Signature
    PROVE  \E i \in DOMAIN Append(chain, s) : IsLatest(Append(chain, s), i)
<1> DEFINE c == Append(chain, s)
           n == Len(chain) + 1
<1>1. /\ c \in Seq(Signature) /\ DOMAIN c = 1..n /\ c[n] = s
      /\ n \in Nat /\ DOMAIN chain = 1..(n - 1)
      /\ \A i \in DOMAIN chain : c[i] = chain[i]
    OBVIOUS
<1>2. \A i \in DOMAIN c : c[i].time \in Int
    <2>1. \A e \in Signature : e.time \in Int
        BY Bounds DEF Signature, Times
    <2> HIDE DEF c, n
    <2> QED
        BY <2>1, <1>1
<1>3. CASE chain = <<>>
    BY <1>1, <1>3 DEF IsLatest
<1>4. CASE chain # <<>>
    <2>1. PICK k \in DOMAIN chain : IsLatest(chain, k)
        BY <1>4 DEF HasLatest
    <2>2. \A j \in DOMAIN chain \ {k} : Before(c, j, k)
        BY <2>1, <1>1 DEF IsLatest, Before
    <2>3. CASE c[k].time <= s.time
        <3>1. \A j \in DOMAIN c \ {n} : Before(c, j, n)
            <4> SUFFICES ASSUME NEW j \in DOMAIN c \ {n} PROVE Before(c, j, n)
                OBVIOUS
            <4>1. j \in DOMAIN chain
                BY <1>1
            <4> HIDE DEF c, n
            <4>2. c[j].time <= c[k].time
                BY <2>2, <4>1, <1>1, <1>2, <2>1 DEF Before
            <4> QED
                BY <4>1, <4>2, <2>3, <1>1, <1>2, <2>1 DEF Before
        <3> QED
            BY <3>1, <1>1 DEF IsLatest
    <2>4. CASE ~(c[k].time <= s.time)
        <3> HIDE DEF c, n
        <3>1. Before(c, n, k)
            BY <2>4, <1>1, <1>2, <2>1 DEF Before
        <3>2. IsLatest(c, k)
            BY <3>1, <2>2, <1>1 DEF IsLatest
        <3>3. k \in DOMAIN c
            BY <2>1, <1>1
        <3> QED
            BY <3>2, <3>3 DEF c
    <2> QED
        BY <2>3, <2>4
<1> QED
    BY <1>3, <1>4

(***************************************************************************)
(* The steps                                                               *)
(***************************************************************************)

\* What a request that ends has loaded.
LEMMA EndedFacts ==
    ASSUME TypeOK, NEW r \in Requests, Ended(r)
    PROVE  /\ reads[r].task \in Tasks /\ reads[r].version \in Versions
           /\ reads' \in [Requests -> Read]
           /\ approval = Idle
<1>1. reads[r] \in Read \ {Unread}
    BY DEF TypeOK, Ended
<1>2. Unread \in Read
    BY DEF Read
<1> QED
    BY <1>1, <1>2 DEF Read, Ended, TypeOK

\* A new signature is typed, and continues the chain if no clock was set back.
LEMMA NewSignatureFacts ==
    ASSUME TypeOK, HasLatest, ChainIsLinear, NEW r \in Requests, Ended(r)
    PROVE  /\ NewSignature(r) \in Signature
           /\ NewSignature(r).version = reads[r].version
           /\ NewSignature(r).time = clock
           /\ ~back => NewSignature(r).prev = Len(chain)
<1>1. Latest(chain) \in 0..MaxSignatures
    BY LatestFacts DEF TypeOK
<1>2. ~back => Latest(chain) = Len(chain)
    BY LatestOfLinear DEF TypeOK
<1>3. reads[r].task \in Tasks /\ reads[r].version \in Versions /\ clock \in Times
    BY EndedFacts DEF TypeOK
<1> QED
    BY <1>1, <1>2, <1>3 DEF NewSignature, Signature, SignedVersion, PreviousSignature

LEMMA RouteFacts ==
    ASSUME TypeOK
    PROVE  /\ \A t : Opens(t) =>
                  /\ tasks' \in Tasks /\ open' \subseteq 1..tasks'
                  /\ status' = "in_review"
           /\ \A t, outcome : Closes(t, outcome) =>
                  /\ tasks' \in Tasks /\ open' \subseteq 1..tasks'
                  /\ status' = outcome
<1>1. ASSUME NEW t, Opens(t)
      PROVE  /\ tasks' \in Tasks /\ open' \subseteq 1..tasks' /\ status' = "in_review"
    <2>1. /\ tasks' = tasks + 1 /\ tasks' \in Tasks /\ status' = "in_review"
          /\ open' = (open \ {t}) \cup {tasks'}
          /\ tasks \in Nat
        BY <1>1, Bounds DEF TypeOK, Opens, Tasks
    <2>2. 1..tasks \subseteq 1..tasks' /\ tasks' \in 1..tasks'
        BY <2>1
    <2> QED
        BY <2>1, <2>2 DEF TypeOK
<1>2. ASSUME NEW t, NEW outcome, Closes(t, outcome)
      PROVE  /\ tasks' \in Tasks /\ open' \subseteq 1..tasks' /\ status' = outcome
    BY <1>2 DEF TypeOK, Closes
<1> QED
    BY <1>1, <1>2

\* A file is created under a free name, and nothing else of the disk changes.
LEMMA CreateFileFacts ==
    ASSUME TypeOK, NEW c \in Content, NEW pc \in {"source", "printed", "xml"},
           CreateFile(pc, c)
    PROVE  \E f \in Names :
              /\ disk[f] = NoFile
              /\ disk' = [disk EXCEPT ![f] = c]
              /\ Field(f, c) \in Stored
              /\ approval' \in Approval
              /\ approval'.pc = pc
              /\ approval'.signature = approval.signature
              /\ approval'.saved = approval.saved
              /\ approval'.writing = <<Field(f, c)>>
<1>1. PICK f \in Names :
          /\ FreshName(f)
          /\ Write(f, c)
          /\ approval' = [approval EXCEPT !.writing = <<Field(f, c)>>]
    BY DEF CreateFile
<1>2. Field(f, c) \in Stored
    BY FieldType
<1>3. approval \in Approval /\ approval.pc = pc
    BY DEF TypeOK, ApprovalOK, CreateFile
<1>4. /\ approval'.pc = pc
      /\ approval'.signature = approval.signature
      /\ approval'.saved = approval.saved
      /\ approval'.writing = <<Field(f, c)>>
    BY <1>1, <1>3 DEF Approval
<1>5. <<Field(f, c)>> \in Seq(Stored)
    BY <1>2
<1>6. approval' \in Approval
    <2> HIDE DEF Field
    <2> QED
        BY <1>1, <1>3, <1>5 DEF Approval
<1> QED
    BY <1>1, <1>2, <1>4, <1>6 DEF FreshName, Write

\* A save that has returned.
LEMMA FileSavedFacts ==
    ASSUME TypeOK, NEW pc \in {"source", "printed", "xml"}, NEW next \in Packaging,
           FileSaved(pc, next)
    PROVE  /\ approval.writing[1] \in Stored
           /\ approval.writing = <<approval.writing[1]>>
           /\ approval' \in Approval
           /\ approval'.pc = next
           /\ approval'.signature = approval.signature
           /\ approval'.saved = Append(approval.saved, approval.writing[1])
           /\ Len(approval'.saved) = Len(approval.saved) + 1
           /\ approval'.writing = <<>>
<1>1. /\ approval \in Approval /\ approval.pc = pc
      /\ approval.writing \in Seq(Stored) /\ approval.writing # <<>>
      /\ Len(approval.writing) <= 1
      /\ approval.saved \in Seq(Stored)
    BY DEF TypeOK, ApprovalOK, Approval, FileSaved
<1>2. /\ approval.writing[1] \in Stored
      /\ approval.writing = <<approval.writing[1]>>
    BY <1>1
<1> DEFINE w == approval.writing[1]
<1> HIDE DEF w
<1>3. /\ Append(approval.saved, w) \in Seq(Stored)
      /\ Len(Append(approval.saved, w)) = Len(approval.saved) + 1
    BY <1>1, <1>2 DEF w
<1>4. approval' = [approval EXCEPT !.pc = next,
                                   !.saved = Append(approval.saved, w),
                                   !.writing = <<>>]
    BY <1>1 DEF FileSaved, Approval, w
<1> DEFINE saved == Append(approval.saved, w)
<1>5. approval' \in Approval
    <2>1. <<>> \in Seq(Stored) /\ saved \in Seq(Stored)
        BY <1>3
    <2>2. approval' = [approval EXCEPT !.pc = next, !.saved = saved, !.writing = <<>>]
        BY <1>4
    <2> HIDE DEF saved
    <2> QED
        BY <1>1, <2>1, <2>2 DEF Approval, Packaging
<1>6. /\ approval'.pc = next
      /\ approval'.signature = approval.signature
      /\ approval'.saved = Append(approval.saved, w)
      /\ approval'.writing = <<>>
    BY <1>1, <1>4 DEF Approval
<1> QED
    BY <1>2, <1>3, <1>5, <1>6 DEF w

LEMMA IdleOK ==
    approval' = Idle => ApprovalOK'
BY IdleFacts DEF ApprovalOK, FilesAt

LEMMA SameApproval ==
    ASSUME ApprovalOK, approval' = approval
    PROVE  ApprovalOK'
BY DEF ApprovalOK, FilesAt

LEMMA CreateFileType ==
    ASSUME TypeOK, NEW c \in Content, NEW pc \in {"source", "printed", "xml"},
           CreateFile(pc, c)
    PROVE  TypeOK'
<1>1. PICK f \in Names :
          /\ disk' = [disk EXCEPT ![f] = c]
          /\ approval' \in Approval
          /\ approval'.pc = pc
          /\ approval'.signature = approval.signature
          /\ approval'.saved = approval.saved
          /\ approval'.writing = <<Field(f, c)>>
    BY CreateFileFacts
<1>2. approval.pc = pc
    BY DEF CreateFile
<1>3. ApprovalOK'
    BY <1>1, <1>2 DEF TypeOK, ApprovalOK, FilesAt
<1>4. disk' \in [Names -> Content \cup {NoFile}]
    BY <1>1 DEF TypeOK
<1> QED
    BY <1>3, <1>4 DEF TypeOK, CreateFile

LEMMA FileSavedType ==
    ASSUME TypeOK, NEW pc, NEW next,
           FileSaved(pc, next),
           \/ pc = "source" /\ next = "printed"
           \/ pc = "printed" /\ next = "xml"
           \/ pc = "xml" /\ next = "row"
    PROVE  TypeOK'
<1>1. /\ approval' \in Approval
      /\ approval'.pc = next
      /\ approval'.signature = approval.signature
      /\ Len(approval'.saved) = Len(approval.saved) + 1
      /\ approval'.writing = <<>>
    BY FileSavedFacts DEF Packaging
<1>2. approval.pc = pc
    BY DEF FileSaved
<1>3. ApprovalOK'
    BY <1>1, <1>2 DEF TypeOK, ApprovalOK, FilesAt
<1> QED
    BY <1>3 DEF TypeOK, FileSaved

\* What the files of a package say is typed.
LEMMA PackageContent ==
    ASSUME TypeOK, NewSignatureFits, approval.pc \in Packaging
    PROVE  /\ Len(Signatures) = Len(chain) + 1
           /\ [kind |-> "pdf", of |-> document.name] \in Content
           /\ [kind |-> "printed", of |-> document.name,
               count |-> Len(Signatures)] \in Content
           /\ [kind |-> "xml", of |-> document.name,
               count |-> Len(Signatures)] \in Content
<1>1. document.name \in Names
    BY DEF TypeOK, NewSignatureFits, Stored
<1>2. /\ chain \in Seq(Signature) /\ approval.signature \in Seq(Signature)
      /\ Len(approval.signature) = 1 /\ Len(chain) < MaxSignatures
    BY Bounds DEF TypeOK, ApprovalOK, Approval, NewSignatureFits, Packaging
<1>3. Len(Signatures) = Len(chain) + 1
    <2>1. Len(Signatures) = Len(chain) + Len(approval.signature)
        BY <1>2, ConcatProperties, Zenon DEF Signatures
    <2> QED
        BY <2>1, <1>2
<1>4. Len(Signatures) \in Ids
    BY <1>2, <1>3, Bounds DEF Ids
<1> QED
    BY <1>1, <1>3, <1>4, ContentFacts

LEMMA DeletesType ==
    ASSUME TypeOK
    PROVE  Deletes \in [Names -> Content \cup {NoFile}]
BY DEF TypeOK, Deletes

\* A step of a request keeps the types.
LEMMA RequestType ==
    ASSUME TypeOK, HasLatest, ChainIsLinear, NEW r \in Requests, Request(r)
    PROVE  TypeOK'
<1> USE Bounds
<1>1. CASE Load(r)
    <2>1. PICK t \in open :
              reads' = [reads EXCEPT ![r] = [task |-> t, version |-> version]]
        BY <1>1 DEF Load
    <2>2. [task |-> t, version |-> version] \in Read
        BY <2>1 DEF TypeOK, Read, Tasks
    <2>3. reads' \in [Requests -> Read]
        BY <2>1, <2>2 DEF TypeOK
    <2> QED
        BY <1>1, <2>3, SameApproval DEF TypeOK, Load
<1>2. CASE Return(r)
    <2>1. reads' \in [Requests -> Read]
        BY <1>2, EndedFacts DEF Return
    <2>2. PICK outcome \in {"revision_requested", "rejected"} :
              Closes(reads[r].task, outcome)
        BY <1>2 DEF Return
    <2>3. /\ tasks' \in Tasks /\ open' \subseteq 1..tasks' /\ status' = outcome
        BY <2>2, RouteFacts
    <2> QED
        BY <1>2, <2>1, <2>3, SameApproval DEF TypeOK, Return
<1>3. CASE StartDocument(r)
    <2>1. /\ reads' \in [Requests -> Read] /\ reads[r].task \in Tasks
        BY <1>3, EndedFacts DEF StartDocument
    <2>2. ApprovalOK'
        <3>1. approval' = [pc |-> "docx", task |-> reads[r].task,
                           signature |-> <<>>, saved |-> <<>>, writing |-> <<>>]
            BY <1>3 DEF StartDocument, Idle
        <3>2. <<>> \in Seq(Signature) /\ Len(<<>>) = 0
            OBVIOUS
        <3> QED
            BY <2>1, <3>1, <3>2 DEF ApprovalOK, Approval, FilesAt
    <2> QED
        BY <1>3, <2>1, <2>2 DEF TypeOK, StartDocument
<1>4. CASE Refuse(r)
    <2>1. reads' \in [Requests -> Read]
        BY <1>4, EndedFacts DEF Refuse
    <2> QED
        BY <1>4, <2>1, SameApproval DEF TypeOK, Refuse
<1>5. CASE ApproveUnsigned(r)
    <2>1. reads' \in [Requests -> Read]
        BY <1>5, EndedFacts DEF ApproveUnsigned
    <2>2. /\ tasks' \in Tasks /\ open' \subseteq 1..tasks'
          /\ status' \in {"in_review", "approved"}
        BY <1>5, RouteFacts DEF ApproveUnsigned
    <2> QED
        BY <1>5, <2>1, <2>2, SameApproval DEF TypeOK, ApproveUnsigned
<1>6. CASE Approve(r)
    <2>1. reads' \in [Requests -> Read] /\ NewSignature(r) \in Signature
        BY <1>6, EndedFacts, NewSignatureFacts DEF Approve
    <2>2. /\ tasks' \in Tasks /\ open' \subseteq 1..tasks'
          /\ status' \in {"in_review", "approved"}
        BY <1>6, RouteFacts DEF Approve
    <2>3. chain' \in Seq(Signature) /\ Len(chain') <= MaxSignatures
        BY <1>6, <2>1 DEF TypeOK, Approve, MaySign
    <2>4. late' \in BOOLEAN
        BY <1>6 DEF TypeOK, Approve
    <2> QED
        BY <1>6, <2>1, <2>2, <2>3, <2>4, SameApproval DEF TypeOK, Approve
<1>7. CASE ApproveLast(r)
    <2>1. /\ reads' \in [Requests -> Read] /\ reads[r].task \in Tasks
          /\ NewSignature(r) \in Signature
        BY <1>7, EndedFacts, NewSignatureFacts DEF ApproveLast
    <2>2. ApprovalOK'
        <3> HIDE DEF NewSignature
        <3>1. <<NewSignature(r)>> \in Seq(Signature) /\ Len(<<NewSignature(r)>>) = 1
            BY <2>1
        <3>2. approval' = [pc |-> "source", task |-> reads[r].task,
                           signature |-> <<NewSignature(r)>>, saved |-> <<>>,
                           writing |-> <<>>]
            BY <1>7 DEF ApproveLast, Idle
        <3> QED
            BY <2>1, <3>1, <3>2 DEF ApprovalOK, Approval, FilesAt
    <2>3. late' \in BOOLEAN
        BY <1>7 DEF TypeOK, ApproveLast
    <2> QED
        BY <1>7, <2>1, <2>2, <2>3 DEF TypeOK, ApproveLast
<1> QED
    BY <1>1, <1>2, <1>3, <1>4, <1>5, <1>6, <1>7 DEF Request

\* Every step keeps the types.
LEMMA TypeStep ==
    ASSUME TypeOK, HasLatest, ChainIsLinear, NewSignatureFits, [Next]_vars
    PROVE  TypeOK'
<1> USE Bounds
<1>1. CASE Tick
    BY <1>1, SameApproval DEF TypeOK, Tick, Times
<1>2. CASE SetBack
    BY <1>2, SameApproval DEF TypeOK, SetBack, Times
<1>3. CASE \E r \in Requests : Request(r)
    BY <1>3, RequestType
<1>4. CASE Upload
    BY <1>4, SameApproval DEF TypeOK, Upload, Versions
<1>5. CASE Resume
    <2>1. tasks' \in Tasks /\ open' \subseteq 1..tasks' /\ status' = "in_review"
        BY <1>5, RouteFacts DEF Resume
    <2>2. version' \in Versions /\ late' \in BOOLEAN
        BY <1>5 DEF TypeOK, Resume, Versions
    <2> QED
        BY <1>5, <2>1, <2>2, SameApproval DEF TypeOK, Resume
<1>6. CASE GrantAppeal
    <2>1. /\ tasks' \in Tasks /\ open' \subseteq 1..tasks'
          /\ status' \in {"in_review", "approved"}
        BY <1>6, RouteFacts DEF GrantAppeal
    <2> QED
        BY <1>6, <2>1, SameApproval DEF TypeOK, GrantAppeal
<1>7. CASE SaveDocument
    <2> DEFINE c == [kind |-> "docx", version |-> version]
    <2>1. PICK f \in Names :
              /\ Write(f, c)
              /\ approval' = [approval EXCEPT !.pc = "seal",
                                              !.saved = <<Field(f, c)>>]
        BY <1>7 DEF SaveDocument
    <2>2. c \in Content
        BY ContentFacts DEF TypeOK
    <2>3. Field(f, c) \in Stored
        BY <2>2, FieldType
    <2> HIDE DEF c
    <2>4. ApprovalOK'
        <3>1. /\ approval \in Approval /\ approval.pc = "docx"
              /\ Len(approval.signature) = 0 /\ Len(approval.writing) <= 0
            BY <1>7 DEF TypeOK, ApprovalOK, SaveDocument
        <3>2. <<Field(f, c)>> \in Seq(Stored) /\ Len(<<Field(f, c)>>) = 1
            BY <2>3
        <3>3. approval' \in Approval
            BY <2>1, <3>1, <3>2 DEF Approval
        <3>4. /\ approval'.pc = "seal"
              /\ approval'.signature = approval.signature
              /\ approval'.saved = <<Field(f, c)>>
              /\ approval'.writing = approval.writing
            BY <2>1, <3>1 DEF Approval
        <3> QED
            BY <3>1, <3>2, <3>3, <3>4 DEF ApprovalOK, FilesAt
    <2>5. disk' \in [Names -> Content \cup {NoFile}]
        BY <2>1, <2>2 DEF TypeOK, Write
    <2> QED
        BY <1>7, <2>4, <2>5 DEF TypeOK, SaveDocument
<1>8. CASE Seal
    <2>1. approval.saved[1] \in Stored
        BY <1>8 DEF TypeOK, ApprovalOK, Approval, Seal, FilesAt
    <2>2. tasks' \in Tasks /\ open' \subseteq 1..tasks' /\ status' = "in_review"
        BY <1>8, RouteFacts DEF Seal
    <2> QED
        BY <1>8, <2>1, <2>2, IdleOK DEF TypeOK, Seal
<1>9. CASE SaveSource \/ SavePrinted \/ SaveData
    <2>1. approval.pc \in Packaging
        BY <1>9 DEF SaveSource, SavePrinted, SaveData, CreateFile, FileSaved, Packaging
    <2>2. /\ [kind |-> "pdf", of |-> document.name] \in Content
          /\ [kind |-> "printed", of |-> document.name,
              count |-> Len(Signatures)] \in Content
          /\ [kind |-> "xml", of |-> document.name,
              count |-> Len(Signatures)] \in Content
        BY <2>1, PackageContent
    <2> HIDE DEF Signatures
    <2>3. CASE SaveSource
        BY <2>2, <2>3, CreateFileType, FileSavedType DEF SaveSource
    <2>4. CASE SavePrinted
        BY <2>2, <2>4, CreateFileType, FileSavedType DEF SavePrinted
    <2>5. CASE SaveData
        BY <2>2, <2>5, CreateFileType, FileSavedType DEF SaveData
    <2> QED
        BY <1>9, <2>3, <2>4, <2>5
<1>10. CASE SaveRow
    <2>1. /\ approval.signature \in Seq(Signature) /\ Len(approval.signature) = 1
          /\ approval.saved \in Seq(Stored) /\ Len(approval.saved) = 3
          /\ Len(chain) < MaxSignatures
        BY <1>10 DEF TypeOK, ApprovalOK, Approval, FilesAt, SaveRow, NewSignatureFits,
                     Packaging
    <2>2. approval.signature[1] \in Signature
        BY <2>1
    <2>3. tasks' \in Tasks /\ open' \subseteq 1..tasks' /\ status' = "approved"
        BY <1>10, RouteFacts DEF SaveRow
    <2> QED
        BY <1>10, <2>1, <2>2, <2>3, IdleOK DEF TypeOK, SaveRow
<1>11. CASE Fail
    BY <1>11, IdleOK, DeletesType DEF TypeOK, Fail
<1>12. CASE Kill
    BY <1>12, IdleOK DEF TypeOK, Kill
<1>13. CASE UNCHANGED vars
    BY <1>13, SameApproval DEF TypeOK, vars
<1> QED
    BY <1>1, <1>2, <1>3, <1>4, <1>5, <1>6, <1>7, <1>8, <1>9, <1>10, <1>11,
       <1>12, <1>13 DEF Next

(***************************************************************************)
(* The chain of signatures                                                 *)
(***************************************************************************)

\* s goes on the chain.
Extends(s) ==
    /\ chain' = Append(chain, s)
    /\ ~late' => s.version = version
    /\ ~back => /\ s.prev = Len(chain)
                /\ \A i \in DOMAIN chain : chain[i].time <= s.time
                /\ s.time <= clock

SameChain == chain' = chain

\* A step leaves the chain or puts one signature on it.
LEMMA ChainSteps ==
    ASSUME IInv, [Next]_vars
    PROVE  /\ \/ SameChain
              \/ /\ \E s \in Signature : Extends(s)
                 /\ version' = version /\ clock' = clock /\ back' = back
           /\ ~late' => ~late /\ version' >= version
           /\ version' <= latest'
           /\ back => back'
           /\ ~back' => clock' >= clock
<1>0. /\ version \in Int /\ latest \in Int /\ clock \in Int
      /\ back \in BOOLEAN /\ late \in BOOLEAN
    BY Bounds DEF IInv, TypeOK, Versions, Times
<1>9. version <= latest
    BY DEF IInv, SignaturesAreOfThePast
<1> USE DEF SameChain
<1>1. CASE Tick
    BY <1>0, <1>9, <1>1 DEF Tick
<1>2. CASE SetBack
    <2>1. UNCHANGED <<chain, version, latest, late>> /\ back' = TRUE
        BY <1>2 DEF SetBack
    <2> QED
        BY <2>1, <1>0, <1>9
<1>3. CASE Upload
    <2>1. /\ UNCHANGED <<chain, late, clock, back>>
          /\ latest' = latest + 1 /\ version' = latest + 1
        BY <1>3 DEF Upload
    <2> QED
        BY <2>1, <1>0, <1>9
<1>4. CASE Resume
    <2>1. /\ UNCHANGED <<chain, clock, back, latest>>
          /\ version' \in 2..latest
          /\ ~late' => ~late /\ version' = version
        BY <1>4 DEF Resume
    <2> QED
        BY <2>1, <1>0, <1>9
<1>5. ASSUME NEW r \in Requests, Approve(r)
      PROVE  /\ Extends(NewSignature(r)) /\ NewSignature(r) \in Signature
             /\ UNCHANGED <<version, latest, clock, back>>
             /\ ~late' => ~late
    <2>1. /\ NewSignature(r) \in Signature
          /\ NewSignature(r).version = reads[r].version
          /\ NewSignature(r).time = clock
          /\ ~back => NewSignature(r).prev = Len(chain)
        BY <1>5, NewSignatureFacts DEF IInv, Approve
    <2>2. /\ chain' = Append(chain, NewSignature(r))
          /\ ~late' => ~late /\ reads[r].version = version
          /\ UNCHANGED <<version, latest, clock, back>>
        BY <1>5 DEF Approve
    <2> HIDE DEF NewSignature
    <2> QED
        BY <2>1, <2>2, <1>0 DEF Extends, IInv, SignaturesAreOfThePast
<1>6. ASSUME NEW r \in Requests, Request(r), ~Approve(r)
      PROVE  /\ UNCHANGED <<chain, version, latest, clock, back>>
             /\ ~late' => ~late
    <2>1. CASE Load(r) \/ Return(r) \/ StartDocument(r)
        BY <2>1 DEF Load, Return, StartDocument
    <2>2. CASE Refuse(r) \/ ApproveUnsigned(r)
        BY <2>2 DEF Refuse, ApproveUnsigned
    <2>3. CASE ApproveLast(r)
        BY <2>3 DEF ApproveLast
    <2> QED
        BY <1>6, <2>1, <2>2, <2>3 DEF Request
<1>7. CASE \E r \in Requests : Request(r)
    <2>1. PICK r \in Requests : Request(r)
        BY <1>7
    <2>2. CASE Approve(r)
        BY <2>2, <1>5, <1>0, <1>9
    <2>3. CASE ~Approve(r)
        BY <2>1, <2>3, <1>6, <1>0, <1>9
    <2> QED
        BY <2>2, <2>3
<1>8. CASE \/ GrantAppeal \/ SaveDocument \/ Seal \/ SaveSource \/ SavePrinted
           \/ SaveData \/ Fail \/ Kill \/ UNCHANGED vars
    <2>1. UNCHANGED <<chain, version, latest, clock, back, late>>
        BY <1>8 DEF GrantAppeal, SaveDocument, Seal, SaveSource, SavePrinted, SaveData,
                    CreateFile, FileSaved, Fail, Kill, vars
    <2> QED
        BY <2>1, <1>0, <1>9
<1>10. CASE SaveRow
    <2>1. approval.pc \in Packaging
        BY <1>10 DEF SaveRow, Packaging
    <2>2. approval.signature \in Seq(Signature) /\ Len(approval.signature) = 1
        BY <2>1 DEF IInv, TypeOK, ApprovalOK, Approval, Packaging
    <2>3. approval.signature[1] \in Signature
        BY <2>2
    <2>4. /\ chain' = Append(chain, approval.signature[1])
          /\ UNCHANGED <<version, latest, clock, back, late>>
        BY <1>10 DEF SaveRow
    <2>5. Extends(approval.signature[1])
        BY <2>1, <2>4 DEF Extends, IInv, NewSignatureFits
    <2> QED
        BY <2>3, <2>4, <2>5, <1>0, <1>9
<1> QED
    BY <1>1, <1>2, <1>3, <1>4, <1>7, <1>8, <1>10 DEF Next

LEMMA LatestStep ==
    ASSUME IInv, [Next]_vars
    PROVE  HasLatest'
<1>1. CASE SameChain
    BY <1>1 DEF IInv, HasLatest, IsLatest, Before, SameChain
<1>2. ASSUME NEW s \in Signature, Extends(s)
      PROVE  HasLatest'
    BY <1>2, AppendHasLatest DEF Extends, IInv, TypeOK, HasLatest, IsLatest, Before
<1> QED
    BY <1>1, <1>2, ChainSteps

LEMMA PastStep ==
    ASSUME IInv, [Next]_vars
    PROVE  SignaturesAreOfThePast'
<1>0. /\ version \in Int /\ clock \in Int /\ version' \in Int /\ clock' \in Int
      /\ chain \in Seq(Signature)
      /\ \A s \in Signature : s.time \in Int /\ s.version \in Int
    <2>1. TypeOK'
        BY TypeStep DEF IInv
    <2> QED
        BY <2>1, Bounds DEF IInv, TypeOK, Versions, Times, Signature
<1>1. CASE SameChain
    BY <1>0, <1>1, ChainSteps DEF SignaturesAreOfThePast, SameChain, IInv
<1>2. ASSUME NEW s \in Signature, Extends(s), version' = version,
             clock' = clock, back' = back
      PROVE  SignaturesAreOfThePast'
    BY <1>0, <1>2, ChainSteps DEF SignaturesAreOfThePast, Extends, IInv
<1> QED
    BY <1>1, <1>2, ChainSteps

LEMMA LinearStep ==
    ASSUME IInv, [Next]_vars
    PROVE  ChainIsLinear'
<1>0. /\ chain \in Seq(Signature)
      /\ \A s \in Signature : s.time \in Int
    BY Bounds DEF IInv, TypeOK, Times, Signature
<1>1. CASE SameChain
    BY <1>1, ChainSteps DEF IInv, ChainIsLinear, Before, SameChain
<1>2. ASSUME NEW s \in Signature, Extends(s), back' = back
      PROVE  ChainIsLinear'
    BY <1>0, <1>2 DEF IInv, ChainIsLinear, Before, Extends
<1> QED
    BY <1>1, <1>2, ChainSteps

\* A signature that is put on the chain is of the current version.
LEMMA SignedStep ==
    ASSUME IInv, [Next]_vars
    PROVE  SignsTheCurrentVersion
<1>0. chain \in Seq(Signature)
    BY DEF IInv, TypeOK
<1>1. CASE SameChain
    BY <1>1 DEF SignsTheCurrentVersion, SameChain
<1>2. ASSUME NEW s \in Signature, Extends(s), version' = version
      PROVE  SignsTheCurrentVersion
    <2>1. chain'[Len(chain')] = s
        BY <1>0, <1>2 DEF Extends
    <2> QED
        BY <2>1, <1>2, ChainSteps DEF SignsTheCurrentVersion, Extends, IInv,
                                      SignaturesAreOfThePast
<1> QED
    BY <1>1, <1>2, ChainSteps

LEMMA FitsStep ==
    ASSUME IInv, [Next]_vars
    PROVE  NewSignatureFits'
<1>0. /\ version \in Int /\ clock \in Int /\ back \in BOOLEAN
      /\ approval.pc \in Packaging => approval.signature[1].time \in Int
    <2>1. approval.pc \in Packaging => approval.signature[1] \in Signature
        BY DEF IInv, TypeOK, ApprovalOK, Approval, Packaging
    <2> QED
        BY <2>1, Bounds DEF IInv, TypeOK, Versions, Times, Signature
<1>1. CASE approval' = Idle
    BY <1>1, IdleFacts DEF NewSignatureFits, Packaging
<1>2. CASE Tick \/ SetBack \/ Upload \/ Resume \/ GrantAppeal
    BY <1>1, <1>2 DEF Tick, SetBack, Upload, Resume, GrantAppeal
<1>3. CASE SaveDocument
    BY <1>3 DEF NewSignatureFits, SaveDocument, Packaging, IInv, TypeOK, ApprovalOK, Approval
<1>4. CASE Seal \/ SaveRow \/ Fail \/ Kill
    BY <1>1, <1>4 DEF Seal, SaveRow, Fail, Kill
<1>5. ASSUME NEW r \in Requests, Load(r)
      PROVE  NewSignatureFits'
    BY <1>5 DEF NewSignatureFits, Load, IInv
<1>6. ASSUME NEW r \in Requests, \/ Return(r) \/ Refuse(r) \/ ApproveUnsigned(r) \/ Approve(r)
      PROVE  NewSignatureFits'
    BY <1>1, <1>6 DEF Return, Refuse, ApproveUnsigned, Approve, Ended
<1>7. ASSUME NEW r \in Requests, StartDocument(r)
      PROVE  NewSignatureFits'
    BY <1>7 DEF NewSignatureFits, StartDocument, Packaging, Idle
<1>8. ASSUME NEW r \in Requests, ApproveLast(r)
      PROVE  NewSignatureFits'
    <2>1. /\ NewSignature(r).version = reads[r].version
          /\ NewSignature(r).time = clock
          /\ ~back => NewSignature(r).prev = Len(chain)
        BY <1>8, NewSignatureFacts DEF IInv, ApproveLast
    <2>2. approval'.signature[1] = NewSignature(r)
        BY <1>8 DEF ApproveLast, Idle
    <2>3. /\ UNCHANGED <<chain, document, package, version, clock, back>>
          /\ ~late' => reads[r].version = version
          /\ document # Empty /\ package = NoPackage /\ Len(chain) < MaxSignatures
        BY <1>8 DEF ApproveLast, MaySign
    <2> HIDE DEF NewSignature
    <2> QED
        BY <2>1, <2>2, <2>3, <1>0 DEF NewSignatureFits, IInv, SignaturesAreOfThePast
<1>9. ASSUME NEW c, NEW pc \in Packaging, CreateFile(pc, c)
      PROVE  NewSignatureFits'
    <2>1. approval'.signature = approval.signature /\ approval.pc \in Packaging
        BY <1>9 DEF CreateFile, IInv, TypeOK, ApprovalOK, Approval
    <2> QED
        BY <2>1, <1>9 DEF NewSignatureFits, CreateFile, IInv
<1>10. ASSUME NEW pc \in Packaging, NEW next, FileSaved(pc, next)
      PROVE  NewSignatureFits'
    <2>1. approval'.signature = approval.signature /\ approval.pc \in Packaging
        BY <1>10 DEF FileSaved, IInv, TypeOK, ApprovalOK, Approval
    <2> QED
        BY <2>1, <1>10 DEF NewSignatureFits, FileSaved, IInv
<1>11. CASE SaveSource \/ SavePrinted \/ SaveData
    BY <1>9, <1>10, <1>11 DEF SaveSource, SavePrinted, SaveData, Packaging
<1>12. CASE UNCHANGED vars
    BY <1>12 DEF IInv, NewSignatureFits, vars
<1> QED
    BY <1>2, <1>3, <1>4, <1>5, <1>6, <1>7, <1>8, <1>11, <1>12 DEF Next, Request

LEMMA Initially ==
    Init => IInv
<1> SUFFICES ASSUME Init PROVE IInv
    OBVIOUS
<1>1. TypeOK
    <2>1. ApprovalOK
        BY IdleFacts DEF Init, ApprovalOK, FilesAt
    <2>2. disk \in [Names -> Content \cup {NoFile}]
        BY DEF Init
    <2>3. /\ version \in Versions /\ latest \in Versions /\ clock \in Times
          /\ faults \in 0..MaxFaults /\ kills \in 0..MaxFaults
          /\ tasks \in Tasks /\ open \subseteq 1..tasks
        BY Bounds DEF Init, Versions, Times, Tasks
    <2>4. /\ chain \in Seq(Signature) /\ Len(chain) <= MaxSignatures
          /\ package \in Seq(Stored) /\ Len(package) \in {0, 3}
        BY Bounds DEF Init, NoPackage
    <2>5. reads \in [Requests -> Read]
        BY DEF Init, Read
    <2> QED
        BY <2>1, <2>2, <2>3, <2>4, <2>5 DEF Init, TypeOK
<1> QED
    BY <1>1, IdleFacts DEF Init, IInv, HasLatest, NewSignatureFits, Packaging,
       SignaturesAreOfThePast, ChainIsLinear

LEMMA Invariance ==
    Spec => []IInv
<1>1. IInv /\ [Next]_vars => IInv'
    BY TypeStep, LatestStep, FitsStep, PastStep, LinearStep DEF IInv
<1> QED
    BY Initially, <1>1, PTL DEF Spec

\* Every row, file and approval has its type.
THEOREM TypeCorrect ==
    Spec => []TypeOK
<1>1. IInv => TypeOK
    BY DEF IInv
<1> QED
    BY Invariance, <1>1, PTL

\* The signatures of a conclusion form one chain, whatever is signed, revised
\* or given up, as long as the clock is not set back.
THEOREM Linear ==
    Spec => []ChainIsLinear
<1>1. IInv => ChainIsLinear
    BY DEF IInv
<1> QED
    BY Invariance, <1>1, PTL

\* While nothing uses a version that it has loaded too early, the version that
\* is current is signed, and no later one was signed before.
THEOREM VersionsInOrder ==
    Spec => VersionsAreSignedInOrder
<1>1. IInv /\ [Next]_vars => [SignsTheCurrentVersion]_vars
    BY SignedStep
<1> QED
    BY Invariance, <1>1, PTL DEF Spec, VersionsAreSignedInOrder

(***************************************************************************)
(* The files                                                               *)
(***************************************************************************)

\* The sealed document is on the disk, it is sealed once, and before a package.
DocumentIsKept ==
    /\ document # Empty => Verifies(document) /\ document.hash.kind = "docx"
    /\ approval.pc \in {"docx", "seal"} => document = Empty
    /\ package # NoPackage => document # Empty

\* The i-th file of a package under way.
FitsPackage(file, i) ==
    /\ Verifies(file)
    /\ file.name # document.name
    /\ file.hash.of = document.name
    /\ i > 1 => file.hash.count = Len(chain) + 1

\* The files that the transaction has written are on the disk, beside the
\* document, and say what the package is to say.
SavedFilesAreKept ==
    /\ approval.pc = "seal" =>
          Verifies(approval.saved[1]) /\ approval.saved[1].hash.kind = "docx"
    /\ approval.pc \in Packaging =>
          /\ \A i \in DOMAIN approval.saved : FitsPackage(approval.saved[i], i)
          /\ approval.writing # <<>> =>
                FitsPackage(approval.writing[1], Len(approval.saved) + 1)

FilesInv ==
    /\ DocumentIsKept
    /\ SavedFilesAreKept
    /\ PackagesVerify
    /\ FailuresLeaveOneFile

LEMMA NoFileIsNoContent ==
    /\ NoFile \notin Content
    /\ NoFile.kind \notin {"pdf", "printed", "xml"}
<1>1. NoFile.kind = "none"
    BY DEF NoFile
<1>2. \A c \in Content : c.kind # "none"
    BY DEF Content
<1> QED
    BY <1>1, <1>2

\* Names of one file.
LEMMA AmongFacts ==
    /\ \A f : ~Among(f, <<>>)
    /\ \A f, file : Among(f, <<file>>) <=> file.name = f
BY DEF Among

LEMMA AmongAppend ==
    ASSUME NEW files \in Seq(Stored), NEW file \in Stored, NEW f
    PROVE  Among(f, Append(files, file)) <=> Among(f, files) \/ file.name = f
BY DEF Among

\* There are finitely many files that nobody knows.
LEMMA LeftoversFinite ==
    IsFiniteSet(Leftovers) /\ Cardinality(Leftovers) \in Nat
<1>1. IsFiniteSet(Names)
    BY Bounds, FS_Interval DEF Names
<1>2. Leftovers \subseteq Names
    BY DEF Leftovers
<1> QED
    BY <1>1, <1>2, FS_Subset, FS_CardinalityType

LEMMA FewerLeftovers ==
    ASSUME FailuresLeaveOneFile, UNCHANGED <<faults, kills>>, TypeOK,
           kills = 0 => Leftovers' \subseteq Leftovers
    PROVE  FailuresLeaveOneFile'
<1>1. CASE kills = 0
    <2>1. Cardinality(Leftovers) <= faults /\ faults \in Int
        BY <1>1 DEF FailuresLeaveOneFile, TypeOK
    <2>2. /\ Cardinality(Leftovers') <= Cardinality(Leftovers)
          /\ Cardinality(Leftovers) \in Nat /\ Cardinality(Leftovers') \in Nat
        <3>1. IsFiniteSet(Leftovers')
            BY <1>1, LeftoversFinite, FS_Subset
        <3> QED
            BY <1>1, <3>1, LeftoversFinite, FS_Subset, FS_CardinalityType
    <2> QED
        BY <2>1, <2>2 DEF FailuresLeaveOneFile
<1>2. CASE kills # 0
    BY <1>2 DEF FailuresLeaveOneFile
<1> QED
    BY <1>1, <1>2

\* One more file that nobody knows, of one more exception.
LEMMA OneMoreLeftover ==
    ASSUME FailuresLeaveOneFile, kills' = kills, faults' = faults + 1, TypeOK,
           NEW f, Leftovers' \subseteq Leftovers \cup {f}
    PROVE  FailuresLeaveOneFile'
<1> SUFFICES ASSUME kills = 0 PROVE Cardinality(Leftovers') <= faults + 1
    BY DEF FailuresLeaveOneFile
<1>1. Cardinality(Leftovers) <= faults /\ faults \in Int
    BY DEF FailuresLeaveOneFile, TypeOK
<1>2. IsFiniteSet(Leftovers) /\ Cardinality(Leftovers) \in Nat
    BY LeftoversFinite
<1>3. /\ IsFiniteSet(Leftovers \cup {f})
      /\ Cardinality(Leftovers \cup {f}) \in Nat
      /\ Cardinality(Leftovers \cup {f}) <= Cardinality(Leftovers) + 1
    <2>1. /\ IsFiniteSet(Leftovers \cup {f})
          /\ Cardinality(Leftovers \cup {f}) =
                IF f \in Leftovers THEN Cardinality(Leftovers)
                ELSE Cardinality(Leftovers) + 1
        BY <1>2, FS_AddElement, Zenon
    <2> QED
        BY <1>2, <2>1
<1>4. /\ Cardinality(Leftovers') <= Cardinality(Leftovers \cup {f})
      /\ Cardinality(Leftovers') \in Nat
    <2>1. IsFiniteSet(Leftovers')
        BY <1>3, FS_Subset
    <2> QED
        BY <1>3, <2>1, FS_Subset, FS_CardinalityType
<1> QED
    BY <1>1, <1>2, <1>3, <1>4

\* What a step that writes no file leaves of the files.
LEMMA SameFiles ==
    ASSUME FilesInv, IInv,
           UNCHANGED <<document, package, disk, faults, kills>>,
           \/ approval' = approval /\ (chain' = chain \/ approval = Idle)
           \/ /\ approval = Idle /\ approval'.saved = <<>> /\ approval'.writing = <<>>
              /\ approval'.pc # "seal",
           approval'.pc = "docx" => document = Empty
    PROVE  FilesInv'
<1>1. DocumentIsKept'
    BY IdleFacts DEF FilesInv, DocumentIsKept, Verifies
<1>2. SavedFilesAreKept'
    <2>1. CASE approval' = approval /\ chain' = chain
        BY <2>1 DEF FilesInv, SavedFilesAreKept, FitsPackage, Verifies
    <2>2. CASE approval' = approval /\ approval = Idle
        BY <2>2, IdleFacts DEF SavedFilesAreKept, Packaging
    <2>3. CASE approval'.saved = <<>> /\ approval'.writing = <<>> /\ approval'.pc # "seal"
        BY <2>3 DEF SavedFilesAreKept
    <2> QED
        BY <2>1, <2>2, <2>3
<1>3. PackagesVerify'
    BY DEF FilesInv, PackagesVerify, Verifies
<1>4. Leftovers' \subseteq Leftovers
    BY IdleFacts, AmongFacts DEF Leftovers, Named, Among
<1>5. FailuresLeaveOneFile'
    BY <1>4, FewerLeftovers DEF FilesInv, IInv
<1> QED
    BY <1>1, <1>2, <1>3, <1>5 DEF FilesInv

\* A file of the package is created beside the others.
LEMMA CreateFileKeeps ==
    ASSUME FilesInv, IInv, NEW c \in Content, NEW pc \in {"source", "printed", "xml"},
           CreateFile(pc, c),
           c.of = document.name,
           pc # "source" => c.count = Len(chain) + 1
    PROVE  FilesInv'
<1>1. PICK f \in Names :
          /\ disk[f] = NoFile
          /\ disk' = [disk EXCEPT ![f] = c]
          /\ approval'.pc = pc
          /\ approval'.saved = approval.saved
          /\ approval'.writing = <<Field(f, c)>>
    BY CreateFileFacts DEF IInv
<1>2. /\ UNCHANGED <<document, chain, package, faults, kills>>
      /\ approval.pc = pc /\ approval.writing = <<>>
    BY DEF CreateFile
<1>3. /\ disk \in [Names -> Content \cup {NoFile}]
      /\ approval.saved \in Seq(Stored)
      /\ Len(approval.saved) = FilesAt(pc)
      /\ document \in Stored \cup {Empty}
    BY <1>2 DEF IInv, TypeOK, ApprovalOK, Approval
<1>4. document # Empty /\ package = NoPackage
    BY <1>2 DEF IInv, NewSignatureFits, Packaging
<1>5. /\ \A s \in Stored : s.name \in Names /\ s.hash \in Content
      /\ Field(f, c).name = f /\ Field(f, c).hash = c
    BY DEF Stored, Field
<1>6. \A s \in Stored : Verifies(s) => s.name # f /\ Verifies(s)'
    BY <1>1, <1>3, <1>5, NoFileIsNoContent DEF Verifies
<1>7. /\ disk'[f] = c /\ \A g \in Names : g # f => disk'[g] = disk[g]
    BY <1>1, <1>3
<1>8. document \in Stored /\ Verifies(document) /\ document.hash.kind = "docx"
    BY <1>3, <1>4 DEF FilesInv, DocumentIsKept
<1>9. Verifies(document)' /\ document.name # f
    BY <1>2, <1>6, <1>8 DEF Verifies
<1>10. DocumentIsKept'
    BY <1>1, <1>2, <1>4, <1>8, <1>9 DEF DocumentIsKept
<1>11. SavedFilesAreKept'
    <2>1. ASSUME NEW i \in DOMAIN approval.saved
          PROVE  FitsPackage(approval.saved[i], i)'
        <3>1. FitsPackage(approval.saved[i], i) /\ approval.saved[i] \in Stored
            BY <1>2, <1>3 DEF FilesInv, SavedFilesAreKept, Packaging
        <3> QED
            BY <3>1, <1>1, <1>2, <1>6 DEF FitsPackage, Verifies
    <2>2. FitsPackage(Field(f, c), Len(approval.saved) + 1)'
        <3>1. Len(approval.saved) + 1 > 1 => pc # "source"
            BY <1>3 DEF FilesAt
        <3> QED
            BY <3>1, <1>1, <1>2, <1>5, <1>7, <1>9 DEF FitsPackage, Verifies
    <2>3. approval'.writing[1] = Field(f, c)
        BY <1>1
    <2> QED
        BY <2>1, <2>2, <2>3, <1>1 DEF SavedFilesAreKept, FitsPackage, Verifies
<1>12. PackagesVerify'
    BY <1>2, <1>4, <1>9 DEF PackagesVerify
<1>13. Leftovers' \subseteq Leftovers
    BY <1>1, <1>2, <1>5, <1>7, AmongFacts DEF Leftovers, Named
<1>14. FailuresLeaveOneFile'
    BY <1>2, <1>13, FewerLeftovers DEF FilesInv, IInv
<1> QED
    BY <1>10, <1>11, <1>12, <1>14 DEF FilesInv

\* It is taken up among the saved files.
LEMMA FileSavedKeeps ==
    ASSUME FilesInv, IInv, NEW pc \in {"source", "printed", "xml"},
           NEW next \in Packaging, FileSaved(pc, next)
    PROVE  FilesInv'
<1> DEFINE w == approval.writing[1]
           n == Len(approval.saved) + 1
<1>1. /\ w \in Stored /\ approval.writing = <<w>>
      /\ approval'.pc = next
      /\ approval'.saved = Append(approval.saved, w)
      /\ approval'.writing = <<>>
    BY FileSavedFacts DEF IInv
<1>2. /\ UNCHANGED <<document, chain, package, disk, faults, kills>>
      /\ approval.pc = pc /\ approval.writing # <<>>
      /\ approval.saved \in Seq(Stored)
    BY DEF FileSaved, IInv, TypeOK, ApprovalOK, Approval
<1>3. /\ DOMAIN approval'.saved = DOMAIN approval.saved \cup {n}
      /\ approval'.saved[n] = w
      /\ \A i \in DOMAIN approval.saved : approval'.saved[i] = approval.saved[i]
    BY <1>1, <1>2
<1>4. /\ FitsPackage(w, n)
      /\ \A i \in DOMAIN approval.saved : FitsPackage(approval.saved[i], i)
    BY <1>2 DEF FilesInv, SavedFilesAreKept, Packaging
<1> HIDE DEF w, n
<1>5. SavedFilesAreKept'
    BY <1>1, <1>2, <1>3, <1>4 DEF SavedFilesAreKept, FitsPackage, Verifies, Packaging
<1>6. DocumentIsKept' /\ PackagesVerify'
    BY <1>1, <1>2 DEF FilesInv, DocumentIsKept, PackagesVerify, Verifies, Packaging
<1>7. Leftovers' \subseteq Leftovers
    BY <1>1, <1>2, AmongFacts, AmongAppend DEF Leftovers, Named
<1>8. FailuresLeaveOneFile'
    BY <1>2, <1>7, FewerLeftovers DEF FilesInv, IInv
<1> QED
    BY <1>5, <1>6, <1>8 DEF FilesInv

\* A package that fails, or a conclusion that is not sealed.
LEMMA FailKeeps ==
    ASSUME FilesInv, IInv, Fail
    PROVE  FilesInv'
<1>1. /\ UNCHANGED <<document, chain, package, kills>>
      /\ approval.pc # "idle" /\ approval' = Idle /\ faults' = faults + 1
      /\ disk' = IF approval.pc \in {"docx", "seal"} THEN disk ELSE Deletes
    BY DEF Fail
<1>2. /\ approval.saved \in Seq(Stored) /\ approval.writing \in Seq(Stored)
      /\ Len(approval.saved) = FilesAt(approval.pc)
      /\ Len(approval.writing) <=
            IF approval.pc \in {"source", "printed", "xml"} THEN 1 ELSE 0
      /\ approval.pc \in Packaging \cup {"docx", "seal"}
      /\ disk \in [Names -> Content \cup {NoFile}]
      /\ document \in Stored \cup {Empty}
    BY <1>1 DEF IInv, TypeOK, ApprovalOK, Approval, Packaging
<1>3. SavedFilesAreKept'
    BY <1>1, IdleFacts DEF SavedFilesAreKept, Packaging
<1>4. package = NoPackage
    BY <1>2 DEF IInv, NewSignatureFits, FilesInv, DocumentIsKept
<1>5. CASE approval.pc \in {"docx", "seal"}
    <2>1. disk' = disk /\ document = Empty
        BY <1>1, <1>5 DEF FilesInv, DocumentIsKept
    <2>2. DocumentIsKept' /\ PackagesVerify'
        BY <1>1, <1>4, <2>1, IdleFacts DEF DocumentIsKept, PackagesVerify
    <2>3. approval.writing = <<>>
        BY <1>2, <1>5
    <2>4. Leftovers' \subseteq Leftovers
        <3> SUFFICES ASSUME NEW g \in Names, disk[g].kind \in {"pdf", "printed", "xml"},
                            ~Named(g)
                     PROVE  ~Among(g, approval.saved) /\ ~Among(g, approval.writing)
            BY <1>1, <2>1 DEF Leftovers, Named
        <3>1. approval.pc = "docx" => approval.saved = <<>>
            BY <1>2 DEF FilesAt
        <3>2. approval.pc = "seal" =>
                  \A i \in DOMAIN approval.saved : disk[approval.saved[i].name].kind = "docx"
            BY <1>2 DEF FilesAt, FilesInv, SavedFilesAreKept, Verifies
        <3> QED
            BY <1>5, <2>3, <3>1, <3>2, AmongFacts DEF Among
    <2>5. Leftovers' \subseteq Leftovers \cup {0}
        BY <2>4
    <2>6. FailuresLeaveOneFile'
        BY <1>1, <2>5, OneMoreLeftover DEF FilesInv, IInv
    <2> QED
        BY <1>3, <2>2, <2>6 DEF FilesInv
<1>6. CASE approval.pc \in Packaging
    <2>1. disk' = Deletes /\ document # Empty
        BY <1>1, <1>6 DEF IInv, NewSignatureFits, Packaging
    <2>2. document \in Stored /\ document.name \in Names
        BY <1>2, <2>1 DEF Stored
    <2>3. Verifies(document)' /\ document.hash.kind = "docx"
        <3>1. ~Among(document.name, approval.saved)
            BY <1>6 DEF FilesInv, SavedFilesAreKept, FitsPackage, Among
        <3>2. disk'[document.name] = disk[document.name]
            BY <2>1, <2>2, <3>1 DEF Deletes
        <3> QED
            BY <1>1, <2>1, <3>2 DEF FilesInv, DocumentIsKept, Verifies
    <2>4. DocumentIsKept' /\ PackagesVerify'
        BY <1>1, <1>4, <2>3, IdleFacts DEF DocumentIsKept, PackagesVerify
    <2> DEFINE f == approval.writing[1].name
    <2>5. Leftovers' \subseteq Leftovers \cup {f}
        <3> SUFFICES ASSUME NEW g \in Names, g # f,
                            disk'[g].kind \in {"pdf", "printed", "xml"}, ~Named(g)
                     PROVE  g \in Leftovers
            BY <1>1 DEF Leftovers, Named
        <3>1. disk'[g] = disk[g] /\ ~Among(g, approval.saved)
            BY <2>1, NoFileIsNoContent DEF Deletes
        <3>2. ~Among(g, approval.writing)
            BY <1>2 DEF Among
        <3> QED
            BY <3>1, <3>2 DEF Leftovers
    <2>6. FailuresLeaveOneFile'
        BY <1>1, <2>5, OneMoreLeftover DEF FilesInv, IInv
    <2> QED
        BY <1>3, <2>4, <2>6 DEF FilesInv
<1> QED
    BY <1>2, <1>5, <1>6

\* A request writes no file.
LEMMA RequestKeeps ==
    ASSUME FilesInv, IInv, NEW r \in Requests, Request(r)
    PROVE  FilesInv'
<1>1. CASE Load(r)
    <2>1. UNCHANGED <<document, chain, package, disk, faults, kills, approval>>
        BY <1>1 DEF Load
    <2> QED
        BY <2>1, SameFiles DEF FilesInv, DocumentIsKept
<1>2. CASE Return(r) \/ Refuse(r) \/ ApproveUnsigned(r) \/ Approve(r)
    <2>1. /\ UNCHANGED <<document, package, disk, faults, kills, approval>>
          /\ approval = Idle
        BY <1>2 DEF Return, Refuse, ApproveUnsigned, Approve, Ended
    <2> QED
        BY <2>1, SameFiles, IdleFacts
<1>3. CASE StartDocument(r) \/ ApproveLast(r)
    <2>1. /\ UNCHANGED <<document, package, disk, faults, kills>>
          /\ approval = Idle /\ approval'.saved = <<>> /\ approval'.writing = <<>>
          /\ approval'.pc # "seal"
          /\ approval'.pc = "docx" => document = Empty
        BY <1>3 DEF StartDocument, ApproveLast, Ended, Idle
    <2> QED
        BY <2>1, SameFiles
<1> QED
    BY <1>1, <1>2, <1>3 DEF Request

\* Every step keeps the files.
LEMMA FilesStep ==
    ASSUME FilesInv, IInv, [Next]_vars
    PROVE  FilesInv'
<1>1. CASE Tick \/ SetBack \/ Upload \/ Resume \/ GrantAppeal \/ UNCHANGED vars
    <2>1. UNCHANGED <<document, chain, package, disk, faults, kills, approval>>
        BY <1>1 DEF Tick, SetBack, Upload, Resume, GrantAppeal, vars
    <2> QED
        BY <2>1, SameFiles DEF FilesInv, DocumentIsKept
<1>2. CASE \E r \in Requests : Request(r)
    BY <1>2, RequestKeeps
<1>3. CASE SaveDocument
    <2> DEFINE c == [kind |-> "docx", version |-> version]
    <2>1. PICK f \in Names :
              /\ disk' = [disk EXCEPT ![f] = c]
              /\ approval' = [approval EXCEPT !.pc = "seal",
                                              !.saved = <<Field(f, c)>>]
        BY <1>3 DEF SaveDocument, Write
    <2>2. /\ UNCHANGED <<document, package, chain, faults, kills>>
          /\ approval.pc = "docx"
        BY <1>3 DEF SaveDocument
    <2>3. /\ approval \in Approval /\ disk \in [Names -> Content \cup {NoFile}]
          /\ approval.saved = <<>> /\ approval.writing = <<>>
        BY <2>2 DEF IInv, TypeOK, ApprovalOK, Approval, FilesAt
    <2>4. /\ approval'.pc = "seal" /\ approval'.saved = <<Field(f, c)>>
          /\ approval'.writing = <<>>
          /\ disk'[f] = c /\ c.kind = "docx"
          /\ Field(f, c).name = f /\ Field(f, c).hash = c
        BY <2>1, <2>3 DEF Approval, Field
    <2> HIDE DEF c
    <2>5. document = Empty /\ package = NoPackage
        BY <2>2 DEF FilesInv, DocumentIsKept
    <2>6. DocumentIsKept' /\ PackagesVerify'
        BY <2>2, <2>5 DEF DocumentIsKept, PackagesVerify
    <2>7. SavedFilesAreKept'
        BY <2>4 DEF SavedFilesAreKept, Verifies, Packaging
    <2>8. Leftovers' \subseteq Leftovers
        <3>1. \A g \in Names : g # f => disk'[g] = disk[g]
            BY <2>1, <2>3
        <3> QED
            BY <2>2, <2>3, <2>4, <3>1, AmongFacts DEF Leftovers, Named
    <2>9. FailuresLeaveOneFile'
        BY <2>2, <2>8, FewerLeftovers DEF FilesInv, IInv
    <2> QED
        BY <2>6, <2>7, <2>9 DEF FilesInv
<1>4. CASE Seal
    <2>1. /\ UNCHANGED <<package, chain, disk, faults, kills>>
          /\ approval.pc = "seal" /\ approval' = Idle
          /\ document' = approval.saved[1]
        BY <1>4 DEF Seal
    <2>2. /\ approval.saved \in Seq(Stored) /\ Len(approval.saved) = 1
          /\ approval.writing = <<>>
          /\ document = Empty /\ package = NoPackage
        BY <2>1 DEF IInv, TypeOK, ApprovalOK, Approval, FilesAt, FilesInv, DocumentIsKept
    <2>3. Verifies(approval.saved[1]) /\ approval.saved[1].hash.kind = "docx"
        BY <2>1 DEF FilesInv, SavedFilesAreKept
    <2>4. DocumentIsKept' /\ PackagesVerify'
        BY <2>1, <2>2, <2>3, IdleFacts DEF DocumentIsKept, PackagesVerify, Verifies
    <2>5. SavedFilesAreKept'
        BY <2>1, IdleFacts DEF SavedFilesAreKept, Packaging
    <2>6. Leftovers' \subseteq Leftovers
        <3> SUFFICES ASSUME NEW g \in Names, disk[g].kind \in {"pdf", "printed", "xml"},
                            ~Named(g)'
                     PROVE  g \in Leftovers
            BY <2>1 DEF Leftovers
        <3>1. g # approval.saved[1].name
            BY <2>3 DEF Verifies
        <3>2. ~Among(g, approval.saved) /\ ~Among(g, approval.writing)
            BY <2>2, <3>1 DEF Among
        <3>3. ~Named(g)
            BY <2>1, <2>2 DEF Named, Empty, Names
        <3> QED
            BY <3>2, <3>3 DEF Leftovers
    <2>7. FailuresLeaveOneFile'
        BY <2>1, <2>6, FewerLeftovers DEF FilesInv, IInv
    <2> QED
        BY <2>4, <2>5, <2>7 DEF FilesInv
<1>5. CASE SaveSource \/ SavePrinted \/ SaveData
    <2>1. approval.pc \in Packaging
        BY <1>5 DEF SaveSource, SavePrinted, SaveData, CreateFile, FileSaved, Packaging
    <2>2. /\ Len(Signatures) = Len(chain) + 1
          /\ [kind |-> "pdf", of |-> document.name] \in Content
          /\ [kind |-> "printed", of |-> document.name,
              count |-> Len(Signatures)] \in Content
          /\ [kind |-> "xml", of |-> document.name,
              count |-> Len(Signatures)] \in Content
        BY <2>1, PackageContent DEF IInv
    <2> HIDE DEF Signatures
    <2>3. CASE SaveSource
        BY <2>2, <2>3, CreateFileKeeps, FileSavedKeeps DEF SaveSource, Packaging
    <2>4. CASE SavePrinted
        BY <2>2, <2>4, CreateFileKeeps, FileSavedKeeps DEF SavePrinted, Packaging
    <2>5. CASE SaveData
        BY <2>2, <2>5, CreateFileKeeps, FileSavedKeeps DEF SaveData, Packaging
    <2> QED
        BY <1>5, <2>3, <2>4, <2>5
<1>6. CASE SaveRow
    <2>1. /\ UNCHANGED <<document, disk, faults, kills>>
          /\ approval.pc = "row" /\ approval' = Idle
          /\ package' = approval.saved
          /\ chain' = Append(chain, approval.signature[1])
        BY <1>6 DEF SaveRow
    <2>2. /\ approval.saved \in Seq(Stored) /\ Len(approval.saved) = 3
          /\ approval.writing = <<>>
          /\ document # Empty /\ package = NoPackage
        BY <2>1 DEF IInv, TypeOK, ApprovalOK, Approval, FilesAt, NewSignatureFits, Packaging
    <2>3. DocumentIsKept' /\ SavedFilesAreKept'
        BY <2>1, <2>2, IdleFacts DEF FilesInv, DocumentIsKept, SavedFilesAreKept,
                                     Packaging, Verifies
    <2>4. \A i \in 1..3 :
              Verifies(approval.saved[i]) /\ approval.saved[i].hash.of = document.name
        BY <2>1, <2>2 DEF FilesInv, SavedFilesAreKept, FitsPackage, Packaging
    <2>5. PackagesVerify'
        BY <2>1, <2>2, <2>4 DEF FilesInv, DocumentIsKept, PackagesVerify, Verifies
    <2>6. Leftovers' \subseteq Leftovers
        BY <2>1, <2>2, AmongFacts DEF Leftovers, Named, NoPackage
    <2>7. FailuresLeaveOneFile'
        BY <2>1, <2>6, FewerLeftovers DEF FilesInv, IInv
    <2> QED
        BY <2>3, <2>5, <2>7 DEF FilesInv
<1>7. CASE Fail
    BY <1>7, FailKeeps
<1>8. CASE Kill
    <2>1. /\ UNCHANGED <<document, package, chain, disk>>
          /\ approval' = Idle /\ kills' = kills + 1
        BY <1>8 DEF Kill
    <2>2. kills' # 0
        BY <2>1, Bounds DEF IInv, TypeOK
    <2>3. DocumentIsKept' /\ SavedFilesAreKept' /\ PackagesVerify'
        BY <2>1, IdleFacts DEF FilesInv, DocumentIsKept, SavedFilesAreKept, PackagesVerify,
                               Verifies, Packaging
    <2> QED
        BY <2>2, <2>3 DEF FilesInv, FailuresLeaveOneFile
<1> QED
    BY <1>1, <1>2, <1>3, <1>4, <1>5, <1>6, <1>7, <1>8 DEF Next

LEMMA FilesInitially ==
    Init => FilesInv
<1> SUFFICES ASSUME Init PROVE FilesInv
    OBVIOUS
<1>1. DocumentIsKept /\ SavedFilesAreKept /\ PackagesVerify
    BY IdleFacts DEF Init, DocumentIsKept, SavedFilesAreKept, NoPackage, PackagesVerify,
                     Packaging
<1>2. Leftovers = {}
    BY NoFileIsNoContent DEF Init, Leftovers
<1>3. FailuresLeaveOneFile
    BY <1>2, FS_EmptySet DEF Init, FailuresLeaveOneFile
<1> QED
    BY <1>1, <1>3 DEF FilesInv

LEMMA FilesInvariance ==
    Spec => []FilesInv
BY FilesInitially, FilesStep, Invariance, PTL DEF Spec

\* The sealed document stays on the disk as it was sealed and a package as it
\* was completed, made of that document, whatever is signed, returned, given
\* up or killed after it.
THEOREM PackagesAlwaysVerify ==
    Spec => []PackagesVerify
<1>1. FilesInv => PackagesVerify
    BY DEF FilesInv
<1> QED
    BY FilesInvariance, <1>1, PTL

\* Exceptions leave at most one file each, the one whose save has raised.
THEOREM FailuresLeaveFew ==
    Spec => []FailuresLeaveOneFile
<1>1. FilesInv => FailuresLeaveOneFile
    BY DEF FilesInv
<1> QED
    BY FilesInvariance, <1>1, PTL

\* A package that is completed shows all the signatures.
LEMMA ShowsAllStep ==
    ASSUME FilesInv, IInv, [Next]_vars
    PROVE  ShowsAll
<1>1. CASE SaveRow
    <2>1. /\ approval.pc = "row" /\ package' = approval.saved
          /\ chain' = Append(chain, approval.signature[1])
        BY <1>1 DEF SaveRow
    <2>2. /\ Len(approval.saved) = 3 /\ approval.saved \in Seq(Stored)
          /\ chain \in Seq(Signature)
        BY <2>1 DEF IInv, TypeOK, ApprovalOK, Approval, FilesAt
    <2>3. \A i \in 2..3 : approval.saved[i].hash.count = Len(chain) + 1
        BY <2>1, <2>2 DEF FilesInv, SavedFilesAreKept, FitsPackage, Packaging
    <2> QED
        BY <2>1, <2>2, <2>3 DEF ShowsAll
<1>2. ASSUME NEW r \in Requests, Request(r)
      PROVE  package' = package
    <2>1. CASE Load(r) \/ Return(r) \/ StartDocument(r)
        BY <2>1 DEF Load, Return, StartDocument
    <2>2. CASE Refuse(r) \/ ApproveUnsigned(r)
        BY <2>2 DEF Refuse, ApproveUnsigned
    <2>3. CASE Approve(r) \/ ApproveLast(r)
        BY <2>3 DEF Approve, ApproveLast
    <2> QED
        BY <1>2, <2>1, <2>2, <2>3 DEF Request
<1>3. CASE \/ Tick \/ SetBack \/ Upload \/ Resume \/ GrantAppeal \/ SaveDocument
           \/ Seal \/ Fail \/ Kill \/ UNCHANGED vars
    <2>1. package' = package
        BY <1>3 DEF Tick, SetBack, Upload, Resume, GrantAppeal, SaveDocument, Seal,
                    Fail, Kill, vars
    <2> QED
        BY <2>1 DEF ShowsAll
<1>4. CASE SaveSource \/ SavePrinted \/ SaveData
    <2>1. package' = package
        BY <1>4 DEF SaveSource, SavePrinted, SaveData, CreateFile, FileSaved
    <2> QED
        BY <2>1 DEF ShowsAll
<1> QED
    BY <1>1, <1>2, <1>3, <1>4 DEF Next, ShowsAll

\* The printed form and the data of a package show every signature that the
\* conclusion has when it is completed.
THEOREM PackagesShowAll ==
    Spec => PackagesShowSignatures
<1>1. FilesInv /\ IInv /\ [Next]_vars => [ShowsAll]_vars
    BY ShowsAllStep
<1> QED
    BY Invariance, FilesInvariance, <1>1, PTL DEF Spec, PackagesShowSignatures
=============================================================================
