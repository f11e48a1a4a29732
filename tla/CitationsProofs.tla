-------------------------- MODULE CitationsProofs --------------------------
(***************************************************************************)
(* Theorems about Citations and the index it uses, for every number of     *)
(* processes, workspaces, sources, articles and versions.                  *)
(*                                                                         *)
(* IndexInv is about the index, its lock and its builders; WorkspacesInv   *)
(* about the workspaces and the versions made of them.  A step of a        *)
(* request changes the one or the other, except that it starts and ends    *)
(* the jobs of a search.                                                   *)
(***************************************************************************)
EXTENDS Citations, FiniteSetTheorems, TLAPS

Jobs == [step : Steps, locks : BOOLEAN, ready : BOOLEAN, done : 0..Articles,
         spaces : SUBSET Spaces, archives : BOOLEAN]

\* A temporary file has articles of one vector space; only who has made the
\* lock removes it in the end.
JobIsWhole(j) ==
    /\ \A s, t \in j.spaces : s = t
    /\ j.done > 0 => j.spaces # {}
    /\ j.step = "release" => j.locks

\* Every builder beyond the lock that is there has cost a removal.
LocksLetBuildersIn ==
    Cardinality(Builders) <= breaks + (IF lock = NoLock THEN 0 ELSE 1)

IndexInv ==
    /\ \A p \in Processes : JobIsWhole(job[p])
    /\ IndexIsWhole
    /\ LocksLetBuildersIn
    /\ LockIsHeld

-----------------------------------------------------------------------------
(* Jobs and builders *)

\* The job of p becomes j.
JobBecomes(p, j) ==
    /\ job' \in [Processes -> Jobs]
    /\ job'[p] = j
    /\ \A q \in Processes \ {p} : job'[q] = job[q]

Building(j) == j.step \in {"build", "release"} /\ j.locks

LEMMA JobUpdate ==
    ASSUME IndexTypeOK, NEW p \in Processes, NEW j \in Jobs,
           job' = [job EXCEPT ![p] = j]
    PROVE  JobBecomes(p, j)
BY DEF IndexTypeOK, JobBecomes, Jobs

LEMMA NoJobFacts ==
    /\ NoJob \in Jobs /\ ~Building(NoJob) /\ JobIsWhole(NoJob)
    /\ NoJob.step = "idle"
<1>1. NoJob \in Jobs
  BY CitationIndexAssumption DEF NoJob, Jobs, Steps
<1> QED
  BY <1>1 DEF NoJob, Building, JobIsWhole

LEMMA GotoFacts ==
    ASSUME IndexTypeOK, NEW p \in Processes, NEW step \in Steps, Goto(p, step)
    PROVE  \E j \in Jobs :
              /\ JobBecomes(p, j) /\ j.step = step
              /\ j.done = job[p].done /\ j.spaces = job[p].spaces
              /\ j.locks = job[p].locks
<1> DEFINE j == [job[p] EXCEPT !.step = step]
<1>1. job[p] \in Jobs
  BY DEF IndexTypeOK, Jobs
<1>2. /\ j \in Jobs /\ j.step = step
      /\ j.done = job[p].done /\ j.spaces = job[p].spaces /\ j.locks = job[p].locks
  BY <1>1 DEF Jobs
<1>3. job' = [job EXCEPT ![p] = j]
  BY DEF Goto
<1> HIDE DEF j
<1> QED
  BY <1>2, <1>3, JobUpdate

LEMMA AnswerFacts ==
    ASSUME IndexTypeOK, NEW p \in Processes, NEW ready \in BOOLEAN, Answer(p, ready)
    PROVE  \E j \in Jobs : /\ JobBecomes(p, j) /\ j.step = "answered" /\ JobIsWhole(j)
                           /\ ~Building(j)
<1> DEFINE j == [NoJob EXCEPT !.step = "answered", !.ready = ready]
<1>1. j \in Jobs /\ j.step = "answered" /\ j.spaces = {} /\ j.done = 0
  BY NoJobFacts DEF NoJob, Jobs, Steps
<1>2. job' = [job EXCEPT ![p] = j]
  BY DEF Answer
<1> HIDE DEF j
<1>3. JobIsWhole(j) /\ ~Building(j)
  BY <1>1 DEF JobIsWhole, Building
<1> QED
  BY <1>1, <1>2, <1>3, JobUpdate

LEMMA StartBuildFacts ==
    ASSUME IndexTypeOK, NEW p \in Processes, NEW locks \in BOOLEAN,
           NEW archives \in BOOLEAN, StartBuild(p, locks, archives)
    PROVE  \E j \in Jobs : /\ JobBecomes(p, j) /\ j.step = "build" /\ j.locks = locks
                           /\ JobIsWhole(j)
<1> DEFINE j == [NoJob EXCEPT !.step = "build", !.locks = locks, !.archives = archives]
<1>1. j \in Jobs /\ j.step = "build" /\ j.locks = locks /\ j.spaces = {} /\ j.done = 0
  BY NoJobFacts DEF NoJob, Jobs, Steps
<1>2. job' = [job EXCEPT ![p] = j]
  BY DEF StartBuild
<1> HIDE DEF j
<1>3. JobIsWhole(j)
  BY <1>1 DEF JobIsWhole
<1> QED
  BY <1>1, <1>2, <1>3, JobUpdate

\* A build ends: with the lock still to remove, or at once.
LEMMA LeaveFacts ==
    ASSUME IndexTypeOK, NEW p \in Processes, NEW ready \in BOOLEAN, Leave(p, ready),
           job[p].step = "build", JobIsWhole(job[p])
    PROVE  \E j \in Jobs : /\ JobBecomes(p, j) /\ JobIsWhole(j)
                           /\ Building(j) <=> Building(job[p])
<1>1. job[p] \in Jobs
  BY DEF IndexTypeOK, Jobs
<1>2. CASE job[p].locks
  <2> DEFINE j == [job[p] EXCEPT !.step = "release", !.ready = ready]
  <2>1. /\ j \in Jobs /\ j.step = "release" /\ j.locks
        /\ j.done = job[p].done /\ j.spaces = job[p].spaces
    BY <1>1, <1>2 DEF Jobs, Steps
  <2>2. job' = [job EXCEPT ![p].step = "release", ![p].ready = ready]
    BY <1>2 DEF Leave
  <2>3. job' = [job EXCEPT ![p] = j]
    BY <2>2 DEF IndexTypeOK
  <2> HIDE DEF j
  <2>4. JobBecomes(p, j)
    BY <2>1, <2>3, JobUpdate
  <2> QED
    BY <1>2, <2>1, <2>4 DEF JobIsWhole, Building
<1>3. CASE ~job[p].locks
  <2>1. job' = [job EXCEPT ![p] = NoJob]
    BY <1>3 DEF Leave
  <2>2. JobBecomes(p, NoJob)
    BY <2>1, NoJobFacts, JobUpdate
  <2> QED
    BY <1>3, <2>2, NoJobFacts DEF Building
<1> QED
  BY <1>2, <1>3

LEMMA ArticleFacts ==
    ASSUME IndexTypeOK, NEW p \in Processes, AddArticle(p), JobIsWhole(job[p])
    PROVE  /\ job[p].step = "build"
           /\ \E j \in Jobs : /\ JobBecomes(p, j) /\ JobIsWhole(j)
                              /\ Building(j) <=> Building(job[p])
<1>1. job[p] \in Jobs /\ job[p].step = "build" /\ job[p].done < Articles
  BY DEF IndexTypeOK, Jobs, AddArticle
<1>2. PICK space_ \in Spaces :
         /\ SameSpace(job[p], space_)
         /\ job' = [job EXCEPT ![p].done = job[p].done + 1,
                               ![p].spaces = job[p].spaces \cup {space_}]
  BY DEF AddArticle, IndexTypeOK
<1> DEFINE done == job[p].done + 1
           spaces == job[p].spaces \cup {space_}
           j == [job[p] EXCEPT !.done = done, !.spaces = spaces]
<1>3. done \in 0..Articles
  BY <1>1, CitationIndexAssumption DEF Jobs
<1>4. spaces = {space_} /\ spaces \in SUBSET Spaces
  BY <1>1, <1>2 DEF SameSpace, Jobs
<1>5. job' = [job EXCEPT ![p] = j]
  BY <1>2 DEF IndexTypeOK
<1> HIDE DEF done, spaces
<1>6. /\ j \in Jobs /\ j.spaces = spaces /\ j.step = job[p].step /\ j.locks = job[p].locks
  BY <1>1, <1>3, <1>4 DEF Jobs
<1> HIDE DEF j
<1>7. JobBecomes(p, j)
  BY <1>5, <1>6, JobUpdate
<1> QED
  BY <1>1, <1>4, <1>6, <1>7 DEF JobIsWhole, Building

\* How the number of builders changes with the job of p.
LEMMA BuildersAfter ==
    ASSUME IndexTypeOK, NEW p \in Processes, NEW j \in Jobs, JobBecomes(p, j)
    PROVE  /\ Building(j) => Builders' = Builders \cup {p}
           /\ ~Building(j) => Builders' = Builders \ {p}
           /\ p \in Builders <=> Building(job[p])
BY DEF Builders, JobBecomes, Building

LEMMA BuildersFinite ==
    /\ IsFiniteSet(Builders) /\ Cardinality(Builders) \in Nat
<1>1. Builders \in SUBSET Processes
  BY DEF Builders
<1> QED
  BY <1>1, FS_Subset, FS_CardinalityType, CitationIndexAssumption

LEMMA BuildersCounted ==
    ASSUME IndexTypeOK, NEW p \in Processes, NEW j \in Jobs, JobBecomes(p, j)
    PROVE  /\ Cardinality(Builders) \in Nat /\ Cardinality(Builders') \in Nat
           /\ Cardinality(Builders') <= Cardinality(Builders) + 1
           /\ ~Building(j) => Cardinality(Builders') <= Cardinality(Builders)
           /\ ~Building(j) /\ Building(job[p]) =>
                 Cardinality(Builders') = Cardinality(Builders) - 1
           /\ (Building(j) <=> Building(job[p])) => Builders' = Builders
<1>1. IsFiniteSet(Builders) /\ Cardinality(Builders) \in Nat
  BY BuildersFinite
<1>2. CASE Building(j)
  <2>1. /\ Builders' = Builders \cup {p}
        /\ p \in Builders <=> Building(job[p])
    BY <1>2, BuildersAfter
  <2>2. Cardinality(Builders') =
           IF p \in Builders THEN Cardinality(Builders) ELSE Cardinality(Builders) + 1
    BY <1>1, <2>1, FS_AddElement
  <2> QED
    BY <1>1, <1>2, <2>1, <2>2
<1>3. CASE ~Building(j)
  <2>1. /\ Builders' = Builders \ {p}
        /\ p \in Builders <=> Building(job[p])
    BY <1>3, BuildersAfter
  <2>2. Cardinality(Builders') =
           IF p \in Builders THEN Cardinality(Builders) - 1 ELSE Cardinality(Builders)
    BY <1>1, <2>1, FS_RemoveElement
  <2>3. p \in Builders => Cardinality(Builders) # 0
    BY <1>1, FS_EmptySet
  <2> QED
    BY <1>1, <1>3, <2>1, <2>2, <2>3
<1> QED
  BY <1>2, <1>3

-----------------------------------------------------------------------------
(* The index *)

LEMMA IndexInitially == IndexInit => IndexTypeOK /\ IndexInv
<1> SUFFICES ASSUME IndexInit PROVE IndexTypeOK /\ IndexInv
  OBVIOUS
<1>1. NoJob \in Jobs
  BY NoJobFacts
<1>2. /\ NoIndex \in [articles : 0..Articles, spaces : SUBSET Spaces,
                      recorded : Spaces \cup {NoSpace}, archives : BOOLEAN]
      /\ NoLock \in [by : Processes \cup {"none"}, old : BOOLEAN]
  BY CitationIndexAssumption DEF NoIndex, NoLock, NoSpace
<1>3. IndexTypeOK
  <2>1. kills \in 0..MaxKills /\ hours \in 0..MaxHours /\ breaks \in Nat
    BY CitationIndexAssumption DEF IndexInit
  <2>2. job \in [Processes -> Jobs]
    BY <1>1 DEF IndexInit
  <2>3. corpus \in Settings /\ missing \in BOOLEAN
    BY DEF IndexInit
  <2> QED
    BY <1>2, <2>1, <2>2, <2>3 DEF IndexInit, IndexTypeOK, Jobs
<1>4. /\ \A p \in Processes : job[p] = NoJob
      /\ index.articles = 0 /\ breaks = 0 /\ lock = NoLock
  BY DEF IndexInit, NoIndex
<1>5. \A p \in Processes : JobIsWhole(job[p])
  BY <1>4, NoJobFacts
<1>6. IndexIsWhole
  BY <1>4 DEF IndexIsWhole, Exists
<1>7. Builders = {}
  BY <1>4, NoJobFacts DEF Builders
<1>8. LocksLetBuildersIn
  BY <1>4, <1>7, FS_EmptySet DEF LocksLetBuildersIn
<1>9. LockIsHeld
  BY <1>4 DEF LockIsHeld
<1> QED
  BY <1>3, <1>5, <1>6, <1>8, <1>9 DEF IndexInv

\* A step that changes the job of p only, and makes no builder of it; where it
\* ends one, the process was killed.
LEMMA JobStep ==
    ASSUME IndexTypeOK, IndexInv,
           NEW p \in Processes, NEW j \in Jobs, JobBecomes(p, j), JobIsWhole(j),
           UNCHANGED <<corpus, missing, index, lock, hours, breaks>>,
           kills' \in 0..MaxKills, kills' = 0 => kills = 0,
           Building(j) => Building(job[p]),
           kills' = 0 => (Building(j) <=> Building(job[p]))
    PROVE  IndexTypeOK' /\ IndexInv'
<1>1. IndexTypeOK'
  BY DEF IndexTypeOK, JobBecomes, Jobs
<1>2. \A q \in Processes : JobIsWhole(job'[q])
  BY DEF IndexInv, JobBecomes
<1>3. IndexIsWhole'
  BY DEF IndexInv, IndexIsWhole, Exists
<1>4. /\ Cardinality(Builders') <= Cardinality(Builders)
      /\ Cardinality(Builders') \in Nat /\ Cardinality(Builders) \in Nat
      /\ (Building(j) <=> Building(job[p])) => Builders' = Builders
  <2>1. Building(j) => Builders' = Builders
    BY BuildersCounted
  <2>2. ~Building(j) => Cardinality(Builders') <= Cardinality(Builders)
    BY BuildersCounted
  <2>3. /\ Cardinality(Builders') \in Nat /\ Cardinality(Builders) \in Nat
        /\ (Building(j) <=> Building(job[p])) => Builders' = Builders
    BY BuildersCounted
  <2> QED
    BY <2>1, <2>2, <2>3
<1>5. LocksLetBuildersIn'
  <2> DEFINE held == IF lock = NoLock THEN 0 ELSE 1
  <2>1. /\ Cardinality(Builders) <= breaks + held /\ held \in Nat /\ breaks \in Nat
        /\ lock' = lock /\ breaks' = breaks
    BY DEF IndexInv, LocksLetBuildersIn, IndexTypeOK
  <2> HIDE DEF held
  <2>2. Cardinality(Builders') <= breaks + held
    BY <1>4, <2>1
  <2> QED
    BY <2>1, <2>2 DEF held, LocksLetBuildersIn
<1>6. LockIsHeld'
  <2>1. kills' = 0 => kills = 0 /\ Builders' = Builders
    BY <1>4
  <2> QED
    BY <2>1 DEF IndexInv, LockIsHeld
<1> QED
  BY <1>1, <1>2, <1>3, <1>5, <1>6 DEF IndexInv

LEMMA AskStep ==
    ASSUME IndexTypeOK, IndexInv, NEW p \in Processes, Ask(p)
    PROVE  IndexTypeOK' /\ IndexInv'
<1>1. /\ job[p].step = "ask" /\ ~Building(job[p]) /\ JobIsWhole(job[p])
      /\ UNCHANGED <<corpus, missing, index, lock, kills, hours, breaks>>
      /\ kills \in 0..MaxKills
  BY DEF Ask, Building, IndexInv, IndexTypeOK
<1>2. CASE \E ready \in BOOLEAN : Answer(p, ready)
  <2>1. PICK j \in Jobs : JobBecomes(p, j) /\ JobIsWhole(j) /\ ~Building(j)
    BY <1>2, AnswerFacts
  <2> QED
    BY <1>1, <2>1, JobStep
<1>3. CASE Goto(p, "lock")
  <2>1. PICK j \in Jobs : /\ JobBecomes(p, j) /\ j.step = "lock" /\ j.done = job[p].done
                          /\ j.spaces = job[p].spaces
    BY <1>3, GotoFacts DEF Steps
  <2>2. JobIsWhole(j) /\ ~Building(j)
    BY <1>1, <2>1 DEF JobIsWhole, Building
  <2> QED
    BY <1>1, <2>1, <2>2, JobStep
<1> QED
  BY <1>2, <1>3 DEF Ask

LEMMA LockStep ==
    ASSUME IndexTypeOK, IndexInv, NEW p \in Processes, Lock(p)
    PROVE  IndexTypeOK' /\ IndexInv'
<1>1. /\ job[p].step = "lock" /\ ~Building(job[p]) /\ JobIsWhole(job[p])
      /\ UNCHANGED <<corpus, missing, index, kills, hours, breaks>>
      /\ kills \in 0..MaxKills
  BY DEF Lock, Building, IndexInv, IndexTypeOK
<1>2. CASE /\ lock = NoLock
           /\ lock' = [by |-> p, old |-> FALSE]
           /\ StartBuild(p, TRUE, corpus.archives)
  <2>1. corpus.archives \in BOOLEAN
    BY CitationIndexAssumption DEF IndexTypeOK
  <2>2. PICK j \in Jobs : /\ JobBecomes(p, j) /\ j.step = "build" /\ j.locks = TRUE
                          /\ JobIsWhole(j)
    BY <1>2, <2>1, StartBuildFacts
  <2>3. /\ lock' # NoLock /\ lock'.by = p
        /\ lock' \in [by : Processes \cup {"none"}, old : BOOLEAN]
    BY <1>2, CitationIndexAssumption DEF NoLock
  <2>4. IndexTypeOK'
    BY <1>1, <2>2, <2>3 DEF IndexTypeOK, JobBecomes, Jobs
  <2>5. \A q \in Processes : JobIsWhole(job'[q])
    BY <2>2 DEF IndexInv, JobBecomes
  <2>6. IndexIsWhole'
    BY <1>1 DEF IndexInv, IndexIsWhole, Exists
  <2>7. /\ Cardinality(Builders') <= Cardinality(Builders) + 1
        /\ Cardinality(Builders') \in Nat /\ Cardinality(Builders) \in Nat
        /\ p \in Builders'
    BY <2>2, BuildersCounted, BuildersAfter DEF Building
  <2>8. Cardinality(Builders) <= breaks + 0 /\ breaks \in Nat /\ breaks' = breaks
    BY <1>1, <1>2 DEF IndexInv, LocksLetBuildersIn, IndexTypeOK
  <2>9. Cardinality(Builders') <= breaks' + 1
    BY <2>7, <2>8
  <2>10. LocksLetBuildersIn' /\ LockIsHeld'
    BY <2>3, <2>7, <2>9 DEF LocksLetBuildersIn, LockIsHeld
  <2> QED
    BY <2>4, <2>5, <2>6, <2>10 DEF IndexInv
<1>3. CASE lock' = lock /\ (Goto(p, "break") \/ Answer(p, FALSE))
  <2>1. CASE Answer(p, FALSE)
    <3>1. PICK j \in Jobs : JobBecomes(p, j) /\ JobIsWhole(j) /\ ~Building(j)
      BY <2>1, AnswerFacts
    <3> QED
      BY <1>1, <1>3, <3>1, JobStep
  <2>2. CASE Goto(p, "break")
    <3>1. PICK j \in Jobs : /\ JobBecomes(p, j) /\ j.step = "break" /\ j.done = job[p].done
                            /\ j.spaces = job[p].spaces
      BY <2>2, GotoFacts DEF Steps
    <3>2. JobIsWhole(j) /\ ~Building(j)
      BY <1>1, <3>1 DEF JobIsWhole, Building
    <3> QED
      BY <1>1, <1>3, <3>1, <3>2, JobStep
  <2> QED
    BY <1>3, <2>1, <2>2
<1> QED
  BY <1>2, <1>3 DEF Lock

\* Steps that take the lock away: of builders only who releases it ends.
LEMMA UnlockStep ==
    ASSUME IndexTypeOK, IndexInv,
           NEW p \in Processes, NEW j \in Jobs, JobBecomes(p, j), JobIsWhole(j),
           lock' = NoLock, ~Building(j),
           UNCHANGED <<corpus, missing, index, kills, hours>>,
           \/ breaks' = breaks + 1
           \/ breaks' = breaks /\ Building(job[p])
    PROVE  IndexTypeOK' /\ IndexInv'
<1>1. NoLock \in [by : Processes \cup {"none"}, old : BOOLEAN] /\ breaks' \in Nat
  BY DEF NoLock, IndexTypeOK
<1>2. IndexTypeOK'
  BY <1>1 DEF IndexTypeOK, JobBecomes, Jobs
<1>3. \A q \in Processes : JobIsWhole(job'[q])
  BY DEF IndexInv, JobBecomes
<1>4. IndexIsWhole'
  BY DEF IndexInv, IndexIsWhole, Exists
<1>5. /\ Cardinality(Builders') \in Nat /\ Cardinality(Builders) \in Nat
      /\ Cardinality(Builders') <= Cardinality(Builders)
      /\ Building(job[p]) => Cardinality(Builders') = Cardinality(Builders) - 1
  BY BuildersCounted
<1>6. /\ Cardinality(Builders) <= breaks + 1 /\ breaks \in Nat
  BY BuildersFinite DEF IndexInv, LocksLetBuildersIn, IndexTypeOK
<1>7. Cardinality(Builders') <= breaks'
  <2>1. CASE breaks' = breaks + 1
    BY <1>5, <1>6, <2>1
  <2>2. CASE breaks' = breaks /\ Building(job[p])
    <3>1. Cardinality(Builders') = Cardinality(Builders) - 1 /\ breaks' = breaks
      BY <1>5, <2>2
    <3> QED
      BY <1>5, <1>6, <3>1
  <2> QED
    BY <2>1, <2>2
<1>8. LocksLetBuildersIn' /\ LockIsHeld'
  BY <1>1, <1>5, <1>7 DEF LocksLetBuildersIn, LockIsHeld
<1> QED
  BY <1>2, <1>3, <1>4, <1>8 DEF IndexInv

LEMMA BreakStep ==
    ASSUME IndexTypeOK, IndexInv, NEW p \in Processes, Break(p)
    PROVE  IndexTypeOK' /\ IndexInv'
<1>1. /\ job[p].step = "break" /\ JobIsWhole(job[p]) /\ lock' = NoLock
      /\ breaks' = breaks + 1 /\ Goto(p, "ask")
      /\ UNCHANGED <<corpus, missing, index, kills, hours>>
  BY DEF Break, IndexInv
<1>2. PICK j \in Jobs : /\ JobBecomes(p, j) /\ j.step = "ask" /\ j.done = job[p].done
                        /\ j.spaces = job[p].spaces
  BY <1>1, GotoFacts DEF Steps
<1>3. JobIsWhole(j) /\ ~Building(j)
  BY <1>1, <1>2 DEF JobIsWhole, Building
<1> QED
  BY <1>1, <1>2, <1>3, UnlockStep

LEMMA ReleaseStep ==
    ASSUME IndexTypeOK, IndexInv, NEW p \in Processes, Release(p)
    PROVE  IndexTypeOK' /\ IndexInv'
<1>1. /\ job[p].step = "release" /\ JobIsWhole(job[p]) /\ lock' = NoLock
      /\ UNCHANGED <<corpus, missing, index, kills, hours>> /\ breaks' = breaks
  BY DEF Release, IndexInv
<1>2. Building(job[p])
  BY <1>1 DEF JobIsWhole, Building
<1>3. \E j \in Jobs : JobBecomes(p, j) /\ JobIsWhole(j) /\ ~Building(j)
  <2>1. CASE Answer(p, TRUE)
    BY <2>1, AnswerFacts
  <2>2. CASE job' = [job EXCEPT ![p] = NoJob]
    BY <2>2, NoJobFacts, JobUpdate
  <2> QED
    BY <2>1, <2>2 DEF Release
<1>4. PICK j \in Jobs : JobBecomes(p, j) /\ JobIsWhole(j) /\ ~Building(j)
  BY <1>3
<1> QED
  BY <1>1, <1>2, <1>4, UnlockStep

LEMMA ReplaceStep ==
    ASSUME IndexTypeOK, IndexInv, NEW p \in Processes, Replace(p)
    PROVE  IndexTypeOK' /\ IndexInv'
<1>1. /\ job[p].step = "build" /\ job[p].done = Articles /\ JobIsWhole(job[p])
      /\ index' = Temporary(job[p]) /\ Leave(p, TRUE)
      /\ UNCHANGED <<corpus, missing, lock, kills, hours, breaks>>
  BY DEF Replace, IndexInv, CorpusIsRead
<1>2. PICK j \in Jobs : /\ JobBecomes(p, j) /\ JobIsWhole(j)
                        /\ Building(j) <=> Building(job[p])
  BY <1>1, LeaveFacts
<1>3. job[p] \in Jobs
  BY DEF IndexTypeOK, Jobs
<1>4. job[p].spaces # {} /\ \A s, t \in job[p].spaces : s = t
  BY <1>1, CitationIndexAssumption DEF JobIsWhole
<1> DEFINE recorded == CHOOSE s \in job[p].spaces : TRUE
<1>5. recorded \in job[p].spaces
  BY <1>4
<1>6. /\ index' = [articles |-> Articles, spaces |-> job[p].spaces,
                   recorded |-> recorded, archives |-> job[p].archives]
  BY <1>1 DEF Temporary
<1> HIDE DEF recorded
<1>7. /\ index' \in [articles : 0..Articles, spaces : SUBSET Spaces,
                     recorded : Spaces \cup {NoSpace}, archives : BOOLEAN]
      /\ index'.articles = Articles /\ index'.spaces = {index'.recorded}
  BY <1>3, <1>4, <1>5, <1>6, CitationIndexAssumption DEF Jobs
<1>8. IndexTypeOK'
  BY <1>1, <1>2, <1>7 DEF IndexTypeOK, JobBecomes, Jobs
<1>9. \A q \in Processes : JobIsWhole(job'[q])
  BY <1>2 DEF IndexInv, JobBecomes
<1>10. IndexIsWhole'
  BY <1>7 DEF IndexIsWhole
<1>11. Builders' = Builders
  BY <1>2, BuildersCounted
<1>12. LocksLetBuildersIn' /\ LockIsHeld'
  BY <1>1, <1>11 DEF IndexInv, LocksLetBuildersIn, LockIsHeld
<1> QED
  BY <1>8, <1>9, <1>10, <1>12 DEF IndexInv

LEMMA BuildStep ==
    ASSUME IndexTypeOK, IndexInv, NEW p \in Processes,
           AddArticle(p) \/ BuildFails(p) \/ Command(p) \/ KillJob(p)
    PROVE  IndexTypeOK' /\ IndexInv'
<1>1. JobIsWhole(job[p]) /\ kills \in 0..MaxKills
  BY DEF IndexInv, IndexTypeOK
<1>2. CASE AddArticle(p)
  <2>1. PICK j \in Jobs : /\ JobBecomes(p, j) /\ JobIsWhole(j)
                          /\ Building(j) <=> Building(job[p])
    BY <1>1, <1>2, ArticleFacts
  <2>2. UNCHANGED <<corpus, missing, index, lock, kills, hours, breaks>>
    BY <1>2 DEF AddArticle
  <2> QED
    BY <1>1, <2>1, <2>2, JobStep
<1>3. CASE BuildFails(p)
  <2>1. /\ UNCHANGED <<corpus, missing, index, lock, kills, hours, breaks>>
        /\ job[p].step = "build" /\ Leave(p, FALSE)
    BY <1>3 DEF BuildFails
  <2>2. PICK j \in Jobs : /\ JobBecomes(p, j) /\ JobIsWhole(j)
                          /\ Building(j) <=> Building(job[p])
    BY <1>1, <2>1, LeaveFacts
  <2> QED
    BY <1>1, <2>1, <2>2, JobStep
<1>4. CASE Command(p)
  <2>1. /\ UNCHANGED <<corpus, missing, index, lock, kills, hours, breaks>>
        /\ job[p].step = "idle" /\ StartBuild(p, FALSE, corpus.archives)
        /\ corpus.archives \in BOOLEAN
    BY <1>4, CitationIndexAssumption DEF Command, IndexTypeOK
  <2>2. PICK j \in Jobs : /\ JobBecomes(p, j) /\ j.step = "build" /\ j.locks = FALSE
                          /\ JobIsWhole(j)
    BY <2>1, StartBuildFacts
  <2>3. ~Building(j) /\ ~Building(job[p])
    BY <2>1, <2>2 DEF Building
  <2> QED
    BY <1>1, <2>1, <2>2, <2>3, JobStep
<1>5. CASE KillJob(p)
  <2>1. /\ UNCHANGED <<corpus, missing, index, lock, hours, breaks>>
        /\ job' = [job EXCEPT ![p] = NoJob]
    BY <1>5 DEF KillJob
  <2>2. kills' \in 0..MaxKills /\ kills' # 0
    BY <1>1, <1>5, CitationIndexAssumption DEF KillJob
  <2>3. NoJob \in Jobs /\ JobBecomes(p, NoJob) /\ JobIsWhole(NoJob) /\ ~Building(NoJob)
    BY <2>1, NoJobFacts, JobUpdate
  <2> QED
    BY <2>1, <2>2, <2>3, JobStep
<1> QED
  BY <1>2, <1>3, <1>4, <1>5

\* Time passes, or the archives are moved.
LEMMA OutsideStep ==
    ASSUME IndexTypeOK, IndexInv, Hour \/ MoveArchives
    PROVE  IndexTypeOK' /\ IndexInv'
<1>1. UNCHANGED <<corpus, index, job, kills, breaks>>
  BY DEF Hour, MoveArchives
<1>2. /\ lock' \in [by : Processes \cup {"none"}, old : BOOLEAN]
      /\ lock'.by = lock.by
      /\ lock' = NoLock <=> lock = NoLock
      /\ missing' \in BOOLEAN /\ hours' \in 0..MaxHours
  <2>1. CASE Hour
    <3>1. /\ lock' = [lock EXCEPT !.old = TRUE] /\ lock # NoLock /\ missing' = missing
          /\ lock \in [by : Processes \cup {"none"}, old : BOOLEAN]
      BY <2>1 DEF Hour, IndexTypeOK
    <3>2. hours' \in 0..MaxHours
      BY <2>1, CitationIndexAssumption DEF Hour, IndexTypeOK
    <3> QED
      BY <3>1, <3>2 DEF NoLock, IndexTypeOK
  <2>2. CASE MoveArchives
    BY <2>2 DEF MoveArchives, IndexTypeOK
  <2> QED
    BY <2>1, <2>2
<1>3. IndexTypeOK'
  BY <1>1, <1>2 DEF IndexTypeOK
<1>4. Builders' = Builders
  BY <1>1 DEF Builders
<1>5. LocksLetBuildersIn' /\ LockIsHeld'
  BY <1>1, <1>2, <1>4 DEF IndexInv, LocksLetBuildersIn, LockIsHeld
<1>6. (\A p \in Processes : JobIsWhole(job'[p])) /\ IndexIsWhole'
  BY <1>1 DEF IndexInv, IndexIsWhole, Exists
<1> QED
  BY <1>3, <1>5, <1>6 DEF IndexInv

LEMMA IndexStepSafe ==
    ASSUME IndexTypeOK, IndexInv, IndexNext
    PROVE  IndexTypeOK' /\ IndexInv'
BY AskStep, LockStep, BreakStep, ReleaseStep, ReplaceStep, BuildStep, OutsideStep
   DEF IndexNext, IndexStep

-----------------------------------------------------------------------------
(* The workspaces *)

Requests == [step : {"none", "search", "prepare", "result", "fill", "json", "record",
                     "use", "bytes", "check", "add"},
             space : Workspaces \cup {"none"}, base : 0..MaxVersions,
             chosen : Choices \cup {{}}, read : Contents, selected : Contents]

Records == [there : BOOLEAN, base : 0..MaxVersions, sources : SUBSET Sources,
            recorded : Contents, file : Contents]

VersionRecords == [from : Workspaces \cup {"none"}, document : Contents, selected : Contents]

WorkspaceTypes ==
    /\ status \in Statuses
    /\ versions \in Seq(VersionRecords)
    /\ current \in 1..MaxVersions
    /\ space \in [Workspaces -> Records]
    /\ request \in [Processes -> Requests]
    /\ touched \subseteq Processes
    /\ agreed \subseteq Workspaces

\* What a request r finds of its own work in its workspace s, or of what it has
\* read there, as long as nobody else writes.
Undisturbed(r, s) ==
    /\ r.step = "fill" => s.file = Empty
    /\ r.step = "json" => s.file = r.chosen \cap s.sources
    /\ r.step = "record" => s.file = r.chosen \cap s.sources /\ s.recorded = Empty
    /\ r.step = "bytes" /\ r.selected # Nothing =>
          s.recorded = s.file /\ r.selected = s.recorded

\* What holds whoever else writes.
Works(r, s) ==
    /\ r.step \in {"result", "fill", "json", "record"} => r.chosen \cap s.sources # {}
    /\ r.step \in {"check", "add"} /\ r.selected # Nothing => r.read = r.selected

RequestsWork ==
    \A p \in Processes :
        /\ request[p].step \in {"none", "search"} <=> request[p].space = "none"
        /\ request[p].space # "none" =>
              /\ space[request[p].space].there
              /\ Works(request[p], space[request[p].space])
              /\ p \notin touched => Undisturbed(request[p], space[request[p].space])

\* The record s of a workspace whose last writer came to its end untouched.
Agrees(s) ==
    /\ s.there /\ s.file = s.recorded
    /\ s.recorded \in Documents /\ s.recorded \subseteq s.sources

SpacesInv == RequestsWork /\ \A w \in agreed : Agrees(space[w])

VersionsAreOfWorkspaces ==
    \A i \in 1..current :
        versions[i].from # "none" =>
            space[versions[i].from].there /\ space[versions[i].from].base = i - 1

VersionsAreAsSelected ==
    \A i \in 1..current :
        versions[i].selected # Nothing => versions[i].document = versions[i].selected

VersionsInv == VersionsAreOfWorkspaces /\ VersionsAreAsSelected

WorkspacesInv == WorkspaceTypes /\ SpacesInv /\ VersionsInv

RequestBecomes(p, r) ==
    /\ request' \in [Processes -> Requests]
    /\ request'[p] = r
    /\ \A q \in Processes \ {p} : request'[q] = request[q]

SpaceBecomes(w, s) ==
    /\ space' \in [Workspaces -> Records]
    /\ space'[w] = s
    /\ \A v \in Workspaces \ {w} : space'[v] = space[v]

LEMMA RequestUpdate ==
    ASSUME WorkspaceTypes, NEW p \in Processes, NEW r \in Requests,
           request' = [request EXCEPT ![p] = r]
    PROVE  RequestBecomes(p, r)
BY DEF WorkspaceTypes, RequestBecomes

LEMMA SpaceUpdate ==
    ASSUME WorkspaceTypes, NEW w \in Workspaces, NEW s \in Records,
           space' = [space EXCEPT ![w] = s]
    PROVE  SpaceBecomes(w, s)
BY DEF WorkspaceTypes, SpaceBecomes

LEMMA ContentsFacts ==
    /\ Nothing \in Contents /\ Empty \in Contents /\ Damaged \in Contents
    /\ \A d : d \subseteq Sources => d \in Contents
    /\ \A d : d \subseteq Sources /\ d # {} => d \in Documents
    /\ \A c \in Contents : c \notin {Nothing, Empty, Damaged} => c \in Documents
BY DEF Contents, Documents, Nothing

LEMMA NoRequestFacts ==
    /\ NoRequest \in Requests /\ NoRequest.space = "none" /\ NoRequest.step = "none"
<1>1. 0 \in 0..MaxVersions
  BY CitationsAssumption
<1> QED
  BY <1>1, ContentsFacts DEF NoRequest, Requests

LEMMA DoneFacts ==
    ASSUME WorkspaceTypes, NEW p \in Processes, Done(p)
    PROVE  RequestBecomes(p, NoRequest)
BY NoRequestFacts, RequestUpdate DEF Done

LEMMA StepFacts ==
    ASSUME WorkspaceTypes, NEW p \in Processes,
           NEW step \in {"result", "fill", "json", "record", "bytes", "add"}, Step(p, step)
    PROVE  \E r \in Requests :
              /\ RequestBecomes(p, r) /\ r.step = step
              /\ r.space = request[p].space /\ r.chosen = request[p].chosen
              /\ r.read = request[p].read /\ r.selected = request[p].selected
<1> DEFINE r == [request[p] EXCEPT !.step = step]
<1>1. request[p] \in Requests
  BY DEF WorkspaceTypes
<1>2. /\ r \in Requests /\ r.step = step /\ r.space = request[p].space
      /\ r.chosen = request[p].chosen /\ r.read = request[p].read
      /\ r.selected = request[p].selected
  BY <1>1 DEF Requests
<1>3. request' = [request EXCEPT ![p] = r]
  BY DEF Step
<1> HIDE DEF r
<1> QED
  BY <1>2, <1>3, RequestUpdate

LEMMA FileFacts ==
    ASSUME WorkspaceTypes, NEW w \in Workspaces, NEW c \in Contents,
           space' = [space EXCEPT ![w].file = c]
    PROVE  \E s \in Records :
              /\ SpaceBecomes(w, s) /\ s.file = c /\ s.recorded = space[w].recorded
              /\ s.there = space[w].there /\ s.base = space[w].base
              /\ s.sources = space[w].sources
<1> DEFINE s == [space[w] EXCEPT !.file = c]
<1>1. space[w] \in Records
  BY DEF WorkspaceTypes
<1>2. /\ s \in Records /\ s.file = c /\ s.recorded = space[w].recorded
      /\ s.there = space[w].there /\ s.base = space[w].base
      /\ s.sources = space[w].sources
  BY <1>1 DEF Records
<1>3. space' = [space EXCEPT ![w] = s]
  OBVIOUS
<1> HIDE DEF s
<1> QED
  BY <1>2, <1>3, SpaceUpdate

LEMMA RecordedFacts ==
    ASSUME WorkspaceTypes, NEW w \in Workspaces, NEW c \in Contents,
           space' = [space EXCEPT ![w].recorded = c]
    PROVE  \E s \in Records :
              /\ SpaceBecomes(w, s) /\ s.recorded = c /\ s.file = space[w].file
              /\ s.there = space[w].there /\ s.base = space[w].base
              /\ s.sources = space[w].sources
<1> DEFINE s == [space[w] EXCEPT !.recorded = c]
<1>1. space[w] \in Records
  BY DEF WorkspaceTypes
<1>2. /\ s \in Records /\ s.recorded = c /\ s.file = space[w].file
      /\ s.there = space[w].there /\ s.base = space[w].base
      /\ s.sources = space[w].sources
  BY <1>1 DEF Records
<1>3. space' = [space EXCEPT ![w] = s]
  OBVIOUS
<1> HIDE DEF s
<1> QED
  BY <1>2, <1>3, SpaceUpdate

-----------------------------------------------------------------------------
(* What the steps do to SpacesInv *)

\* A request goes on, or ends, in its workspace; if it writes there, the others that
\* are at work on the files are touched.
LEMMA OwnStep ==
    ASSUME WorkspaceTypes, SpacesInv, NEW p \in Processes, NEW r \in Requests,
           NEW w \in Workspaces, NEW s \in Records,
           request[p].space = w, RequestBecomes(p, r), SpaceBecomes(w, s),
           s.there = space[w].there, s.sources = space[w].sources,
           r.space \in {w, "none"},
           r.step \in {"none", "search"} <=> r.space = "none",
           r.space = w => Works(r, s) /\ (p \notin touched' => Undisturbed(r, s)),
           touched \ {p} \subseteq touched',
           s # space[w] => Others(p) \subseteq touched',
           agreed' \subseteq agreed \cup {w},
           w \in agreed' => Agrees(s)
    PROVE  SpacesInv'
<1>1. w # "none" /\ space[w].there
  BY CitationsAssumption DEF SpacesInv, RequestsWork
<1>2. RequestsWork'
  <2> SUFFICES ASSUME NEW q \in Processes
               PROVE  /\ request'[q].step \in {"none", "search"} <=> request'[q].space = "none"
                      /\ request'[q].space # "none" =>
                            /\ space'[request'[q].space].there
                            /\ Works(request'[q], space'[request'[q].space])
                            /\ q \notin touched' =>
                                  Undisturbed(request'[q], space'[request'[q].space])
    BY DEF RequestsWork
  <2>1. CASE q = p
    <3>1. request'[q] = r /\ space'[w] = s
      BY <2>1 DEF RequestBecomes, SpaceBecomes
    <3> QED
      BY <1>1, <2>1, <3>1
  <2>2. CASE q # p
    <3>1. request'[q] = request[q]
      BY <2>2 DEF RequestBecomes
    <3>2. /\ request[q].step \in {"none", "search"} <=> request[q].space = "none"
          /\ request[q].space # "none" =>
                /\ space[request[q].space].there
                /\ Works(request[q], space[request[q].space])
                /\ q \notin touched => Undisturbed(request[q], space[request[q].space])
          /\ request[q].space \in Workspaces \cup {"none"}
      BY DEF SpacesInv, RequestsWork, WorkspaceTypes, Requests
    <3>3. q \in touched => q \in touched'
      BY <2>2
    <3>4. CASE request[q].space = w /\ s # space[w]
      <4>1. Works(request[q], s)
        BY <1>1, <3>2, <3>4 DEF Works
      <4>2. q \notin touched' => Undisturbed(request[q], s)
        BY <2>2, <3>4 DEF Others, Undisturbed
      <4> QED
        BY <1>1, <3>1, <3>2, <3>4, <4>1, <4>2 DEF SpaceBecomes
    <3>5. CASE request[q].space # w \/ s = space[w]
      <4>1. request[q].space # "none" => space'[request[q].space] = space[request[q].space]
        BY <3>2, <3>5 DEF SpaceBecomes
      <4> QED
        BY <3>1, <3>2, <3>3, <4>1
    <3> QED
      BY <3>4, <3>5
  <2> QED
    BY <2>1, <2>2
<1>3. \A v \in agreed' : Agrees(space'[v])
  <2> SUFFICES ASSUME NEW v \in agreed' PROVE Agrees(space'[v])
    OBVIOUS
  <2>1. CASE v = w
    BY <2>1 DEF SpaceBecomes
  <2>2. CASE v # w
    <3>1. v \in agreed /\ v \in Workspaces
      BY <2>2 DEF WorkspaceTypes
    <3> QED
      BY <2>2, <3>1 DEF SpacesInv, SpaceBecomes
  <2> QED
    BY <2>1, <2>2
<1> QED
  BY <1>2, <1>3 DEF SpacesInv

\* A search starts, goes on or ends, and another workspace may come of it.
LEMMA SearchStep ==
    ASSUME WorkspaceTypes, SpacesInv, NEW p \in Processes, NEW r \in Requests,
           request[p].space = "none", RequestBecomes(p, r), r.space = "none",
           r.step \in {"none", "search"}, UNCHANGED history,
           \/ space' = space
           \/ \E w \in Workspaces, s \in Records :
                 ~space[w].there /\ SpaceBecomes(w, s)
    PROVE  SpacesInv'
<1>1. \A w \in Workspaces : space[w].there => space'[w] = space[w]
  BY DEF SpaceBecomes
<1>2. touched' = touched /\ agreed' = agreed
  BY DEF history
<1>3. RequestsWork'
  <2> SUFFICES ASSUME NEW q \in Processes
               PROVE  /\ request'[q].step \in {"none", "search"} <=> request'[q].space = "none"
                      /\ request'[q].space # "none" =>
                            /\ space'[request'[q].space].there
                            /\ Works(request'[q], space'[request'[q].space])
                            /\ q \notin touched' =>
                                  Undisturbed(request'[q], space'[request'[q].space])
    BY DEF RequestsWork
  <2>1. CASE q = p
    BY <2>1 DEF RequestBecomes
  <2>2. CASE q # p
    <3>1. request'[q] = request[q] /\ request[q].space \in Workspaces \cup {"none"}
      BY <2>2 DEF RequestBecomes, WorkspaceTypes, Requests
    <3>2. /\ request[q].step \in {"none", "search"} <=> request[q].space = "none"
          /\ request[q].space # "none" =>
                /\ space[request[q].space].there
                /\ Works(request[q], space[request[q].space])
                /\ q \notin touched => Undisturbed(request[q], space[request[q].space])
      BY DEF SpacesInv, RequestsWork
    <3>3. request[q].space # "none" => space'[request[q].space] = space[request[q].space]
      BY <1>1, <3>1, <3>2
    <3> QED
      BY <1>2, <3>1, <3>2, <3>3
  <2> QED
    BY <2>1, <2>2
<1>4. \A w \in agreed' : Agrees(space'[w])
  BY <1>1, <1>2 DEF SpacesInv, Agrees, WorkspaceTypes
<1> QED
  BY <1>3, <1>4 DEF SpacesInv

\* A request starts to work in a workspace.
LEMMA BeginStep ==
    ASSUME WorkspaceTypes, SpacesInv, NEW p \in Processes, NEW w \in Workspaces,
           NEW step \in {"prepare", "use"}, NEW chosen \in Choices \cup {{}},
           Begin(p, w, step, chosen)
    PROVE  request' \in [Processes -> Requests] /\ SpacesInv'
<1> DEFINE r == [NoRequest EXCEPT !.step = step, !.space = w, !.chosen = chosen]
<1>1. r \in Requests /\ r.step = step /\ r.space = w
  BY NoRequestFacts DEF NoRequest, Requests
<1>2. /\ request' = [request EXCEPT ![p] = r]
      /\ space[w].there /\ space' = space /\ touched' = touched /\ agreed' = agreed
  BY DEF Begin, Idle, history
<1> HIDE DEF r
<1>3. RequestBecomes(p, r)
  BY <1>1, <1>2, RequestUpdate
<1>4. w # "none"
  BY CitationsAssumption
<1>5. RequestsWork'
  BY <1>1, <1>2, <1>3, <1>4
     DEF SpacesInv, RequestsWork, RequestBecomes, Works, Undisturbed
<1> QED
  BY <1>2, <1>3, <1>5 DEF SpacesInv, RequestBecomes

-----------------------------------------------------------------------------
(* What the steps do to the versions *)

LEMMA VersionsStay ==
    ASSUME WorkspaceTypes, VersionsInv, versions' = versions,
           \A w \in Workspaces : space[w].there =>
              space'[w].there /\ space'[w].base = space[w].base
    PROVE  VersionsInv' /\ current' = current
<1>1. current' = current /\ current \in Nat
  BY DEF current, WorkspaceTypes
<1>2. \A i \in 1..current : versions[i].from \in Workspaces \cup {"none"}
  <2>1. \A v \in VersionRecords : v.from \in Workspaces \cup {"none"}
    BY DEF VersionRecords
  <2>2. \A i \in 1..Len(versions) : versions[i] \in VersionRecords
    BY DEF WorkspaceTypes
  <2> QED
    BY <2>1, <2>2 DEF current
<1>3. VersionsAreOfWorkspaces'
  BY <1>1, <1>2 DEF VersionsInv, VersionsAreOfWorkspaces
<1>4. VersionsAreAsSelected'
  BY <1>1 DEF VersionsInv, VersionsAreAsSelected
<1> QED
  BY <1>1, <1>3, <1>4 DEF VersionsInv

LEMMA VersionAdded ==
    ASSUME WorkspaceTypes, VersionsInv, current < MaxVersions,
           NEW from \in Workspaces \cup {"none"}, NEW document \in Contents,
           NEW selected \in Contents,
           AddVersion(from, document, selected), space' = space,
           from # "none" => space[from].there /\ space[from].base = current,
           selected # Nothing => document = selected
    PROVE  /\ VersionsInv' /\ status' \in Statuses
           /\ versions' \in Seq(VersionRecords)
           /\ current' \in 1..MaxVersions
<1> DEFINE v == [from |-> from, document |-> document, selected |-> selected]
<1>1. /\ v \in VersionRecords
      /\ v.from = from /\ v.document = document /\ v.selected = selected
  BY DEF VersionRecords
<1>2. versions' = Append(versions, v) /\ status' \in Statuses
  BY DEF AddVersion, Statuses
<1> HIDE DEF v
<1>3. /\ versions' \in Seq(VersionRecords)
      /\ current \in 1..MaxVersions /\ current' = current + 1
      /\ \A i \in 1..current : versions'[i] = versions[i]
      /\ versions'[current + 1] = v
  BY <1>1, <1>2 DEF WorkspaceTypes, current
<1>4. current' \in 1..MaxVersions
  BY <1>3, CitationsAssumption
<1>5. \A i \in 1..current' : i \in 1..current \/ i = current + 1
  BY <1>3, CitationsAssumption
<1>6. VersionsAreOfWorkspaces'
  <2> SUFFICES ASSUME NEW i \in 1..current', versions'[i].from # "none"
               PROVE  /\ space[versions'[i].from].there
                      /\ space[versions'[i].from].base = i - 1
    BY DEF VersionsAreOfWorkspaces
  <2>1. CASE i \in 1..current
    BY <1>3, <2>1 DEF VersionsInv, VersionsAreOfWorkspaces
  <2>2. CASE i = current + 1
    <3>1. versions'[i].from = from /\ i - 1 = current
      BY <1>1, <1>3, <2>2, CitationsAssumption
    <3> QED
      BY <3>1
  <2> QED
    BY <1>5, <2>1, <2>2
<1>7. VersionsAreAsSelected'
  <2> SUFFICES ASSUME NEW i \in 1..current', versions'[i].selected # Nothing
               PROVE  versions'[i].document = versions'[i].selected
    BY DEF VersionsAreAsSelected
  <2>1. CASE i \in 1..current
    BY <1>3, <2>1 DEF VersionsInv, VersionsAreAsSelected
  <2>2. CASE i = current + 1
    BY <1>1, <1>3, <2>2
  <2> QED
    BY <1>5, <2>1, <2>2
<1> QED
  BY <1>2, <1>3, <1>4, <1>6, <1>7 DEF VersionsInv

-----------------------------------------------------------------------------
(* The steps of a request *)

LEMMA MineFacts ==
    ASSUME WorkspacesInv, NEW p \in Processes, request[p].step \notin {"none", "search"}
    PROVE  /\ request[p].space \in Workspaces /\ Mine(p) \in Records /\ Mine(p).there
           /\ request[p] \in Requests
           /\ Selected(p) \subseteq Sources
           /\ Selected(p) = request[p].chosen \cap Mine(p).sources
           /\ Works(request[p], Mine(p))
           /\ p \notin touched => Undisturbed(request[p], Mine(p))
           /\ request[p].space \in agreed => Agrees(Mine(p))
<1>1. request[p] \in Requests /\ request[p].space # "none"
  BY DEF WorkspacesInv, WorkspaceTypes, SpacesInv, RequestsWork
<1>2. request[p].space \in Workspaces
  BY <1>1 DEF Requests
<1>3. Mine(p) \in Records
  BY <1>2 DEF WorkspacesInv, WorkspaceTypes, Mine
<1>4. /\ Mine(p).there /\ Works(request[p], Mine(p))
      /\ p \notin touched => Undisturbed(request[p], Mine(p))
      /\ request[p].space \in agreed => Agrees(Mine(p))
  BY <1>1 DEF WorkspacesInv, SpacesInv, RequestsWork, Mine
<1>5. Mine(p).sources \subseteq Sources
  BY <1>3 DEF Records
<1> QED
  BY <1>1, <1>2, <1>3, <1>4, <1>5 DEF Selected

LEMMA OwnSafe ==
    ASSUME WorkspacesInv, NEW p \in Processes, NEW r \in Requests,
           NEW w \in Workspaces, NEW s \in Records,
           request[p].space = w, RequestBecomes(p, r), SpaceBecomes(w, s),
           UNCHANGED <<status, versions>>,
           s.there = space[w].there, s.base = space[w].base, s.sources = space[w].sources,
           r.space \in {w, "none"},
           r.step \in {"none", "search"} <=> r.space = "none",
           r.space = w => Works(r, s) /\ (p \notin touched' => Undisturbed(r, s)),
           touched \ {p} \subseteq touched', touched' \subseteq Processes,
           s # space[w] => Others(p) \subseteq touched',
           agreed' \subseteq agreed \cup {w},
           w \in agreed' => Agrees(s)
    PROVE  WorkspacesInv'
<1>1. WorkspaceTypes /\ SpacesInv /\ VersionsInv
  BY DEF WorkspacesInv
<1>2. SpacesInv'
  BY <1>1, OwnStep
<1>3. \A v \in Workspaces : space[v].there =>
         space'[v].there /\ space'[v].base = space[v].base
  BY DEF SpaceBecomes
<1>4. VersionsInv' /\ current' = current
  BY <1>1, <1>3, VersionsStay
<1>5. WorkspaceTypes'
  BY <1>1, <1>4 DEF WorkspaceTypes, RequestBecomes, SpaceBecomes
<1> QED
  BY <1>2, <1>4, <1>5 DEF WorkspacesInv

\* A request that goes on in its workspace, or ends, without writing.
LEMMA ReadingStep ==
    ASSUME WorkspacesInv, NEW p \in Processes, NEW r \in Requests,
           request[p].step \notin {"none", "search"},
           RequestBecomes(p, r), UNCHANGED <<status, versions, space, agreed>>,
           touched \ {p} \subseteq touched', touched' \subseteq touched,
           \/ r = NoRequest
           \/ /\ r.space = request[p].space /\ r.step \notin {"none", "search"}
              /\ Works(r, Mine(p)) /\ (p \notin touched' => Undisturbed(r, Mine(p)))
    PROVE  WorkspacesInv'
<1> DEFINE w == request[p].space
           s == Mine(p)
<1>1. /\ w \in Workspaces /\ s \in Records /\ w # "none"
      /\ w \in agreed => Agrees(s)
  BY MineFacts, CitationsAssumption
<1>2. SpaceBecomes(w, s)
  BY <1>1 DEF WorkspacesInv, WorkspaceTypes, SpaceBecomes, Mine
<1>3. s = space[w] /\ request[p].space = w
  BY DEF Mine
<1>4. touched' \subseteq Processes
  BY DEF WorkspacesInv, WorkspaceTypes
<1>5. \/ r.space = "none" /\ r.step = "none"
      \/ /\ r.space = w /\ r.step \notin {"none", "search"}
         /\ Works(r, s) /\ (p \notin touched' => Undisturbed(r, s))
  BY NoRequestFacts
<1> HIDE DEF w, s
<1> QED
  BY <1>1, <1>2, <1>3, <1>4, <1>5, OwnSafe

LEMMA RefuseStep ==
    ASSUME WorkspacesInv, NEW p \in Processes,
           request[p].step \notin {"none", "search"}, Refuse(p)
    PROVE  WorkspacesInv'
<1>1. /\ RequestBecomes(p, NoRequest) /\ UNCHANGED <<status, versions, space, agreed>>
      /\ touched' = touched
  BY DoneFacts DEF Refuse, WorkspacesInv, history
<1> QED
  BY <1>1, NoRequestFacts, ReadingStep

LEMMA CheckPrepareStep ==
    ASSUME WorkspacesInv, NEW p \in Processes, CheckPrepare(p)
    PROVE  WorkspacesInv'
<1>1. request[p].step = "prepare"
  BY DEF CheckPrepare, At
<1>2. CASE Selected(p) # {} /\ Step(p, "result")
           /\ UNCHANGED <<status, versions, space, history>>
  <2>1. PICK r \in Requests : /\ RequestBecomes(p, r) /\ r.step = "result"
                              /\ r.space = request[p].space /\ r.chosen = request[p].chosen
    BY <1>2, StepFacts DEF WorkspacesInv
  <2>2. Works(r, Mine(p)) /\ Undisturbed(r, Mine(p))
    BY <1>1, <1>2, <2>1, MineFacts DEF Works, Undisturbed
  <2>3. touched' = touched /\ agreed' = agreed
    BY <1>2 DEF history
  <2> QED
    BY <1>1, <1>2, <2>1, <2>2, <2>3, ReadingStep
<1>3. CASE Refuse(p)
  BY <1>1, <1>3, RefuseStep
<1> QED
  BY <1>2, <1>3 DEF CheckPrepare

LEMMA ReadPayloadStep ==
    ASSUME WorkspacesInv, NEW p \in Processes, ReadPayload(p)
    PROVE  WorkspacesInv'
<1>1. request[p].step = "use"
  BY DEF ReadPayload, At
<1> DEFINE selected == IF request[p].space \in agreed THEN Mine(p).recorded ELSE Nothing
           r == [request[p] EXCEPT !.step = "bytes", !.selected = selected]
<1>2. CASE /\ request' = [request EXCEPT ![p].step = "bytes", ![p].selected = selected]
           /\ UNCHANGED <<status, versions, space, history>>
  <2>1. /\ request[p] \in Requests /\ selected \in Contents
        /\ selected # Nothing => Agrees(Mine(p)) /\ selected = Mine(p).recorded
    BY <1>1, MineFacts, ContentsFacts DEF Records
  <2>2. request' = [request EXCEPT ![p] = r]
    BY <1>2 DEF WorkspacesInv, WorkspaceTypes
  <2> HIDE DEF selected
  <2>3. /\ r \in Requests /\ r.step = "bytes" /\ r.space = request[p].space
        /\ r.selected = selected
    BY <2>1 DEF Requests
  <2> HIDE DEF r
  <2>4. RequestBecomes(p, r)
    BY <2>2, <2>3, RequestUpdate DEF WorkspacesInv
  <2>5. Works(r, Mine(p)) /\ Undisturbed(r, Mine(p))
    BY <2>1, <2>3 DEF Works, Undisturbed, Agrees
  <2>6. touched' = touched /\ agreed' = agreed
    BY <1>2 DEF history
  <2> QED
    BY <1>1, <1>2, <2>3, <2>4, <2>5, <2>6, ReadingStep
<1>3. CASE Refuse(p)
  BY <1>1, <1>3, RefuseStep
<1> QED
  BY <1>2, <1>3 DEF ReadPayload

LEMMA ReadBytesStep ==
    ASSUME WorkspacesInv, NEW p \in Processes, ReadBytes(p)
    PROVE  WorkspacesInv'
<1> DEFINE file == Mine(p).file
           selected == IF p \in touched THEN Nothing ELSE request[p].selected
           r == [request[p] EXCEPT !.step = "check", !.read = file, !.selected = selected]
<1>1. /\ request[p].step = "bytes" /\ UNCHANGED <<status, versions, space, agreed>>
      /\ request' = [request EXCEPT ![p].step = "check", ![p].read = file,
                                    ![p].selected = IF p \in touched THEN Nothing ELSE @]
      /\ touched' = touched \ {p}
  BY DEF ReadBytes, At, Leaves
<1>2. /\ request[p] \in Requests /\ file \in Contents /\ selected \in Contents
      /\ selected # Nothing => file = selected
  BY <1>1, MineFacts, ContentsFacts DEF Records, Requests, Undisturbed
<1>3. request' = [request EXCEPT ![p] = r]
  BY <1>1 DEF WorkspacesInv, WorkspaceTypes
<1> HIDE DEF file, selected
<1>4. /\ r \in Requests /\ r.step = "check" /\ r.space = request[p].space
      /\ r.read = file /\ r.selected = selected
  BY <1>2 DEF Requests
<1> HIDE DEF r
<1>5. RequestBecomes(p, r)
  BY <1>3, <1>4, RequestUpdate DEF WorkspacesInv
<1>6. Works(r, Mine(p)) /\ Undisturbed(r, Mine(p))
  BY <1>2, <1>4 DEF Works, Undisturbed
<1> QED
  BY <1>1, <1>4, <1>5, <1>6, ReadingStep

LEMMA CheckUseStep ==
    ASSUME WorkspacesInv, NEW p \in Processes, CheckUse(p)
    PROVE  WorkspacesInv'
<1>1. request[p].step = "check"
  BY DEF CheckUse, At
<1>2. CASE Step(p, "add") /\ UNCHANGED <<status, versions, space, history>>
  <2>1. PICK r \in Requests : /\ RequestBecomes(p, r) /\ r.step = "add"
                              /\ r.space = request[p].space /\ r.read = request[p].read
                              /\ r.selected = request[p].selected
    BY <1>2, StepFacts DEF WorkspacesInv
  <2>2. Works(r, Mine(p)) /\ Undisturbed(r, Mine(p))
    BY <1>1, <2>1, MineFacts DEF Works, Undisturbed
  <2>3. touched' = touched /\ agreed' = agreed
    BY <1>2 DEF history
  <2> QED
    BY <1>1, <1>2, <2>1, <2>2, <2>3, ReadingStep
<1>3. CASE Refuse(p)
  BY <1>1, <1>3, RefuseStep
<1> QED
  BY <1>2, <1>3 DEF CheckUse

\* The two files are emptied and filled.
LEMMA WritesFacts ==
    ASSUME WorkspacesInv, NEW p \in Processes, Writes(p)
    PROVE  /\ touched \subseteq touched' /\ touched' \subseteq Processes
           /\ Others(p) \subseteq touched'
           /\ agreed' \subseteq agreed /\ request[p].space \notin agreed'
BY DEF Writes, Others, WorkspacesInv, WorkspaceTypes

LEMMA OpenResultStep ==
    ASSUME WorkspacesInv, NEW p \in Processes, OpenResult(p)
    PROVE  WorkspacesInv'
<1> DEFINE w == request[p].space
<1>1. request[p].step = "result"
  BY DEF OpenResult, At
<1>2. CASE /\ space' = [space EXCEPT ![request[p].space].file = Empty]
           /\ Step(p, "fill") /\ Writes(p) /\ UNCHANGED <<status, versions>>
  <2>1. PICK r \in Requests : /\ RequestBecomes(p, r) /\ r.step = "fill"
                              /\ r.space = w /\ r.chosen = request[p].chosen
    BY <1>2, StepFacts DEF WorkspacesInv
  <2>2. w \in Workspaces /\ w # "none" /\ request[p].space = w
    BY <1>1, MineFacts, CitationsAssumption
  <2>3. PICK s \in Records :
           /\ SpaceBecomes(w, s) /\ s.file = Empty
           /\ s.there = space[w].there /\ s.base = space[w].base
           /\ s.sources = space[w].sources
    BY <1>2, <2>2, FileFacts, ContentsFacts DEF WorkspacesInv
  <2>4. Works(r, s) /\ Undisturbed(r, s)
    BY <1>1, <2>1, <2>3, MineFacts DEF Works, Undisturbed, Mine
  <2>5. /\ touched \subseteq touched' /\ touched' \subseteq Processes
        /\ Others(p) \subseteq touched' /\ agreed' \subseteq agreed /\ w \notin agreed'
    BY <1>2, WritesFacts
  <2> HIDE DEF w
  <2> QED
    BY <1>2, <2>1, <2>2, <2>3, <2>4, <2>5, OwnSafe
<1>3. CASE Refuse(p)
  BY <1>1, <1>3, RefuseStep
<1> QED
  BY <1>2, <1>3 DEF OpenResult

LEMMA FillResultStep ==
    ASSUME WorkspacesInv, NEW p \in Processes, FillResult(p)
    PROVE  WorkspacesInv'
<1> DEFINE w == request[p].space
<1>1. /\ request[p].step = "fill" /\ Step(p, "json")
      /\ Writes(p) /\ UNCHANGED <<status, versions>>
  BY DEF FillResult, At
<1>2. PICK content \in Filled(Mine(p).file, Selected(p)) :
         space' = [space EXCEPT ![request[p].space].file = content]
  BY DEF FillResult
<1>3. /\ w \in Workspaces /\ w # "none" /\ request[p].space = w
      /\ Selected(p) = request[p].chosen \cap space[w].sources
      /\ Selected(p) \subseteq Sources /\ Selected(p) # {}
      /\ p \notin touched => Mine(p).file = Empty
  BY <1>1, MineFacts, CitationsAssumption DEF Works, Undisturbed, Mine
<1>4. content \in Contents /\ (p \notin touched => content = Selected(p))
  BY <1>2, <1>3, ContentsFacts DEF Filled
<1>5. PICK r \in Requests : /\ RequestBecomes(p, r) /\ r.step = "json"
                            /\ r.space = w /\ r.chosen = request[p].chosen
  BY <1>1, StepFacts DEF WorkspacesInv
<1>6. PICK s \in Records :
         /\ SpaceBecomes(w, s) /\ s.file = content
         /\ s.there = space[w].there /\ s.base = space[w].base
         /\ s.sources = space[w].sources
  BY <1>2, <1>3, <1>4, FileFacts DEF WorkspacesInv
<1>7. /\ touched \subseteq touched' /\ touched' \subseteq Processes
      /\ Others(p) \subseteq touched' /\ agreed' \subseteq agreed /\ w \notin agreed'
  BY <1>1, WritesFacts
<1> HIDE DEF w
<1>8. Works(r, s) /\ (p \notin touched' => Undisturbed(r, s))
  BY <1>3, <1>4, <1>5, <1>6, <1>7 DEF Works, Undisturbed
<1> QED
  BY <1>1, <1>3, <1>5, <1>6, <1>7, <1>8, OwnSafe

LEMMA OpenJsonStep ==
    ASSUME WorkspacesInv, NEW p \in Processes, OpenJson(p)
    PROVE  WorkspacesInv'
<1> DEFINE w == request[p].space
<1>1. /\ request[p].step = "json" /\ Step(p, "record")
      /\ space' = [space EXCEPT ![request[p].space].recorded = Empty]
      /\ Writes(p) /\ UNCHANGED <<status, versions>>
  BY DEF OpenJson, At
<1>2. /\ w \in Workspaces /\ w # "none" /\ request[p].space = w
      /\ request[p].chosen \cap space[w].sources # {}
      /\ p \notin touched => space[w].file = request[p].chosen \cap space[w].sources
  BY <1>1, MineFacts, CitationsAssumption DEF Works, Undisturbed, Mine
<1>3. PICK r \in Requests : /\ RequestBecomes(p, r) /\ r.step = "record"
                            /\ r.space = w /\ r.chosen = request[p].chosen
  BY <1>1, StepFacts DEF WorkspacesInv
<1>4. PICK s \in Records :
         /\ SpaceBecomes(w, s) /\ s.recorded = Empty /\ s.file = space[w].file
         /\ s.there = space[w].there /\ s.base = space[w].base
         /\ s.sources = space[w].sources
  BY <1>1, <1>2, RecordedFacts, ContentsFacts DEF WorkspacesInv
<1>5. /\ touched \subseteq touched' /\ touched' \subseteq Processes
      /\ Others(p) \subseteq touched' /\ agreed' \subseteq agreed /\ w \notin agreed'
  BY <1>1, WritesFacts
<1> HIDE DEF w
<1>6. Works(r, s) /\ (p \notin touched' => Undisturbed(r, s))
  BY <1>2, <1>3, <1>4, <1>5 DEF Works, Undisturbed
<1> QED
  BY <1>1, <1>2, <1>3, <1>4, <1>5, <1>6, OwnSafe

\* A preparation that nobody touched ends with the two files agreed.
LEMMA FillJsonStep ==
    ASSUME WorkspacesInv, NEW p \in Processes, FillJson(p)
    PROVE  WorkspacesInv'
<1> DEFINE w == request[p].space
<1>1. /\ request[p].step = "record" /\ Done(p)
      /\ touched' = (touched \ {p}) \cup Others(p)
      /\ agreed' = IF p \in touched THEN agreed \ {w} ELSE agreed \cup {w}
      /\ UNCHANGED <<status, versions>>
  BY DEF FillJson, At
<1>2. PICK content \in Filled(Mine(p).recorded, Selected(p)) :
         space' = [space EXCEPT ![request[p].space].recorded = content]
  BY DEF FillJson, Recorded
<1>3. /\ w \in Workspaces /\ w # "none" /\ request[p].space = w /\ space[w].there
      /\ Selected(p) \subseteq Sources /\ Selected(p) # {}
      /\ Selected(p) \subseteq space[w].sources
      /\ p \notin touched => Selected(p) = space[w].file /\ Mine(p).recorded = Empty
  <2>1. /\ w \in Workspaces /\ Mine(p) = space[w] /\ Mine(p).there
        /\ Selected(p) = request[p].chosen \cap Mine(p).sources
        /\ Selected(p) \subseteq Sources
    BY <1>1, MineFacts DEF Mine
  <2>2. /\ request[p].chosen \cap Mine(p).sources # {}
        /\ p \notin touched =>
              /\ Mine(p).file = request[p].chosen \cap Mine(p).sources
              /\ Mine(p).recorded = Empty
    BY <1>1, MineFacts DEF Works, Undisturbed
  <2> QED
    BY <2>1, <2>2, CitationsAssumption
<1>4. content \in Contents /\ (p \notin touched => content = Selected(p))
  BY <1>2, <1>3, ContentsFacts DEF Filled
<1>5. RequestBecomes(p, NoRequest)
  BY <1>1, DoneFacts DEF WorkspacesInv
<1>6. PICK s \in Records :
         /\ SpaceBecomes(w, s) /\ s.recorded = content /\ s.file = space[w].file
         /\ s.there = space[w].there /\ s.base = space[w].base
         /\ s.sources = space[w].sources
  BY <1>2, <1>3, <1>4, RecordedFacts DEF WorkspacesInv
<1>7. touched' \subseteq Processes
  BY <1>1 DEF Others, WorkspacesInv, WorkspaceTypes
<1> HIDE DEF w
<1>8. w \in agreed' => Agrees(s)
  BY <1>1, <1>3, <1>4, <1>6, ContentsFacts DEF Agrees
<1> QED
  BY <1>1, <1>3, <1>5, <1>6, <1>7, <1>8, NoRequestFacts, OwnSafe

\* A preparation that fails or is killed, between two writes or in one.
LEMMA BreaksOffStep ==
    ASSUME WorkspacesInv, NEW p \in Processes, request[p].space # "none",
           Done(p), BreaksOff(p), UNCHANGED <<status, versions>>
    PROVE  WorkspacesInv'
<1> DEFINE w == request[p].space
<1>1. RequestBecomes(p, NoRequest) /\ request[p].step \notin {"none", "search"}
  <2>1. RequestBecomes(p, NoRequest)
    BY DoneFacts DEF WorkspacesInv
  <2>2. request[p].step \notin {"none", "search"}
    BY DEF WorkspacesInv, SpacesInv, RequestsWork
  <2> QED
    BY <2>1, <2>2
<1>2. w \in Workspaces /\ w # "none" /\ request[p].space = w
  BY <1>1, MineFacts, CitationsAssumption
<1>3. CASE UNCHANGED <<space, agreed>> /\ Leaves(p)
  BY <1>1, <1>3, NoRequestFacts, ReadingStep DEF Leaves
<1>4. ASSUME \/ space' = [space EXCEPT ![request[p].space].file = Damaged]
             \/ space' = [space EXCEPT ![request[p].space].recorded = Damaged],
             touched' = (touched \ {p}) \cup Others(p), agreed' = agreed \ {w}
      PROVE  WorkspacesInv'
  <2>1. PICK s \in Records :
           /\ SpaceBecomes(w, s)
           /\ s.there = space[w].there /\ s.base = space[w].base
           /\ s.sources = space[w].sources
    BY <1>2, <1>4, FileFacts, RecordedFacts, ContentsFacts DEF WorkspacesInv
  <2>2. touched' \subseteq Processes
    BY <1>4 DEF Others, WorkspacesInv, WorkspaceTypes
  <2> HIDE DEF w
  <2> QED
    BY <1>1, <1>2, <1>4, <2>1, <2>2, NoRequestFacts, OwnSafe
<1> QED
  BY <1>3, <1>4 DEF BreaksOff

LEMMA AddStep ==
    ASSUME WorkspacesInv, NEW p \in Processes, Add(p)
    PROVE  WorkspacesInv'
<1> DEFINE w == request[p].space
           read == request[p].read
           selected == request[p].selected
<1>1. request[p].step = "add"
  BY DEF Add, At
<1>2. CASE /\ current = Mine(p).base /\ current < MaxVersions
           /\ AddVersion(w, read, selected)
           /\ Done(p) /\ UNCHANGED <<space, history>>
  <2>1. WorkspaceTypes /\ SpacesInv /\ VersionsInv
    BY DEF WorkspacesInv
  <2>2. RequestBecomes(p, NoRequest)
    BY <1>2, <2>1, DoneFacts
  <2>3. /\ w \in Workspaces /\ w # "none" /\ request[p].space = w
        /\ read \in Contents /\ selected \in Contents
        /\ space[w] \in Records /\ space[w].there /\ space[w].base = current
        /\ selected # Nothing => read = selected
        /\ w \in agreed => Agrees(space[w])
    BY <1>1, <1>2, MineFacts, CitationsAssumption DEF Works, Mine, Requests
  <2>4. SpaceBecomes(w, space[w]) /\ touched' = touched /\ agreed' = agreed
    BY <1>2, <2>1, <2>3 DEF WorkspaceTypes, SpaceBecomes, history
  <2> HIDE DEF w, read, selected
  <2>5. SpacesInv'
    BY <1>2, <2>1, <2>2, <2>3, <2>4, NoRequestFacts, OwnStep
  <2>6. /\ VersionsInv' /\ status' \in Statuses
        /\ versions' \in Seq(VersionRecords)
        /\ current' \in 1..MaxVersions
    BY <1>2, <2>1, <2>3, VersionAdded
  <2> QED
    BY <1>2, <2>1, <2>2, <2>4, <2>5, <2>6 DEF WorkspacesInv, WorkspaceTypes, RequestBecomes
<1>3. CASE Refuse(p)
  BY <1>1, <1>3, RefuseStep
<1> QED
  BY <1>2, <1>3 DEF Add, StillExpected

LEMMA WorkspacesStay ==
    ASSUME WorkspacesInv, UNCHANGED spaceVars
    PROVE  WorkspacesInv'
<1>1. /\ UNCHANGED <<status, versions, space, request, touched, agreed>>
      /\ current' = current
  BY DEF spaceVars, history, current
<1> QED
  BY <1>1 DEF WorkspacesInv, WorkspaceTypes, SpacesInv, VersionsInv, RequestsWork,
       VersionsAreOfWorkspaces, VersionsAreAsSelected

LEMMA SearchRequestStep ==
    ASSUME IndexTypeOK, IndexInv, WorkspacesInv, NEW p \in Processes,
           StartSearch(p) \/ NextClaim(p) \/ EndSearch(p)
    PROVE  IndexTypeOK' /\ IndexInv' /\ WorkspacesInv'
<1>1. /\ WorkspaceTypes /\ SpacesInv /\ VersionsInv
      /\ UNCHANGED <<corpus, missing, index, lock, kills, hours, breaks>>
      /\ UNCHANGED <<status, versions, history>>
      /\ JobIsWhole(job[p]) /\ kills \in 0..MaxKills
  BY DEF StartSearch, NextClaim, EndSearch, spaceVars, WorkspacesInv, IndexInv, IndexTypeOK
<1>2. \E j \in Jobs : JobBecomes(p, j) /\ JobIsWhole(j) /\ ~Building(j)
  <2>1. CASE Goto(p, "ask")
    <3>1. PICK j \in Jobs : /\ JobBecomes(p, j) /\ j.step = "ask" /\ j.done = job[p].done
                            /\ j.spaces = job[p].spaces
      BY <2>1, GotoFacts DEF Steps
    <3>2. JobIsWhole(j) /\ ~Building(j)
      BY <1>1, <3>1 DEF JobIsWhole, Building
    <3> QED
      BY <3>1, <3>2
  <2>2. CASE job' = [job EXCEPT ![p] = NoJob]
    BY <2>2, NoJobFacts, JobUpdate
  <2> QED
    BY <2>1, <2>2 DEF StartSearch, NextClaim, EndSearch
<1>3. PICK j \in Jobs : JobBecomes(p, j) /\ JobIsWhole(j) /\ ~Building(j)
  BY <1>2
<1>4. ~Building(job[p])
  BY DEF StartSearch, NextClaim, EndSearch, Idle, Building
<1>5. IndexTypeOK' /\ IndexInv'
  BY <1>1, <1>3, <1>4, JobStep
<1>6. CASE NextClaim(p)
  <2>1. UNCHANGED spaceVars
    BY <1>6 DEF NextClaim
  <2> QED
    BY <1>1, <1>5, <2>1, WorkspacesStay DEF WorkspacesInv
<1>7. CASE StartSearch(p)
  <2> DEFINE r == [NoRequest EXCEPT !.step = "search", !.base = current]
  <2>1. current \in 0..MaxVersions
    BY <1>1, CitationsAssumption DEF WorkspaceTypes
  <2>2. r \in Requests /\ r.step = "search" /\ r.space = "none"
    BY <2>1, NoRequestFacts DEF NoRequest, Requests
  <2>3. /\ request' = [request EXCEPT ![p] = r]
        /\ request[p].space = "none" /\ space' = space
    BY <1>7, NoRequestFacts DEF StartSearch, Idle
  <2> HIDE DEF r
  <2>4. RequestBecomes(p, r)
    BY <1>1, <2>2, <2>3, RequestUpdate
  <2>5. SpacesInv'
    BY <1>1, <2>2, <2>3, <2>4, SearchStep
  <2>6. VersionsInv' /\ current' = current
    BY <1>1, <2>3, VersionsStay
  <2> QED
    BY <1>1, <1>5, <2>3, <2>4, <2>5, <2>6
       DEF WorkspacesInv, WorkspaceTypes, RequestBecomes, history
<1>8. CASE EndSearch(p)
  <2>1. RequestBecomes(p, NoRequest) /\ request[p].step = "search"
    BY <1>1, <1>8, DoneFacts DEF EndSearch
  <2>2. request[p].space = "none"
    BY <1>1, <2>1 DEF SpacesInv, RequestsWork
  <2>3. \/ space' = space
        \/ \E w \in Workspaces, s \in Records :
              ~space[w].there /\ SpaceBecomes(w, s)
    <3> SUFFICES ASSUME space' # space
                 PROVE  \E w \in Workspaces, s \in Records :
                           ~space[w].there /\ SpaceBecomes(w, s)
      OBVIOUS
    <3>1. PICK w \in Workspaces :
             /\ ~space[w].there
             /\ space' = [space EXCEPT ![w] =
                   [NoWorkspace EXCEPT !.there = TRUE, !.base = request[p].base,
                        !.sources = IF job[p].ready THEN Sources ELSE {}]]
      BY <1>8 DEF EndSearch
    <3> DEFINE base == request[p].base
               sources == IF job[p].ready THEN Sources ELSE {}
               s == [NoWorkspace EXCEPT !.there = TRUE, !.base = base, !.sources = sources]
    <3>2. base \in 0..MaxVersions /\ sources \in SUBSET Sources
      BY <1>1 DEF WorkspaceTypes, Requests
    <3>3. space' = [space EXCEPT ![w] = s]
      BY <3>1
    <3> HIDE DEF base, sources
    <3>4. s \in Records
      BY <3>2, ContentsFacts DEF NoWorkspace, Records
    <3> HIDE DEF s
    <3>5. SpaceBecomes(w, s)
      BY <1>1, <3>3, <3>4, SpaceUpdate
    <3> QED
      BY <3>1, <3>4, <3>5
  <2>4. SpacesInv'
    BY <1>1, <2>1, <2>2, <2>3, NoRequestFacts, SearchStep
  <2>5. space' \in [Workspaces -> Records]
    BY <1>1, <2>3 DEF WorkspaceTypes, SpaceBecomes
  <2>6. \A w \in Workspaces : space[w].there =>
           space'[w].there /\ space'[w].base = space[w].base
    BY <2>3 DEF SpaceBecomes
  <2>7. VersionsInv' /\ current' = current
    BY <1>1, <2>6, VersionsStay
  <2> QED
    BY <1>1, <1>5, <2>1, <2>4, <2>5, <2>7
       DEF WorkspacesInv, WorkspaceTypes, RequestBecomes, history
<1> QED
  BY <1>6, <1>7, <1>8

\* Steps that leave the index alone.
LEMMA IndexStays ==
    ASSUME IndexTypeOK, IndexInv,
           UNCHANGED <<corpus, missing, index, lock, job, hours, breaks>>,
           kills' \in 0..MaxKills, kills' = 0 => kills = 0
    PROVE  IndexTypeOK' /\ IndexInv'
<1>1. IndexTypeOK'
  BY DEF IndexTypeOK
<1>2. Builders' = Builders
  BY DEF Builders
<1>3. LocksLetBuildersIn' /\ LockIsHeld'
  BY <1>2 DEF IndexInv, LocksLetBuildersIn, LockIsHeld
<1>4. (\A p \in Processes : JobIsWhole(job'[p])) /\ IndexIsWhole'
  BY DEF IndexInv, IndexIsWhole, Exists
<1> QED
  BY <1>1, <1>3, <1>4 DEF IndexInv

LEMMA BeginSafe ==
    ASSUME WorkspacesInv, NEW p \in Processes, StartPrepare(p) \/ StartUse(p)
    PROVE  WorkspacesInv'
<1>1. PICK w \in Workspaces, step \in {"prepare", "use"}, chosen \in Choices \cup {{}} :
         Begin(p, w, step, chosen)
  BY DEF StartPrepare, StartUse
<1>2. WorkspaceTypes /\ SpacesInv /\ VersionsInv
  BY DEF WorkspacesInv
<1>3. request' \in [Processes -> Requests] /\ SpacesInv'
  BY <1>1, <1>2, BeginStep
<1>4. UNCHANGED <<status, versions, space, touched, agreed>>
  BY <1>1 DEF Begin, history
<1>5. VersionsInv' /\ current' = current
  BY <1>2, <1>4, VersionsStay
<1> QED
  BY <1>2, <1>3, <1>4, <1>5 DEF WorkspacesInv, WorkspaceTypes

LEMMA WriteFailsStep ==
    ASSUME WorkspacesInv, NEW p \in Processes, WriteFails(p)
    PROVE  WorkspacesInv'
<1>1. request[p].space # "none"
  BY DEF WriteFails, WorkspacesInv, SpacesInv, RequestsWork
<1> QED
  BY <1>1, BreaksOffStep DEF WriteFails

LEMMA KillSafe ==
    ASSUME WorkspacesInv, NEW p \in Processes, Kill(p)
    PROVE  WorkspacesInv'
BY BreaksOffStep DEF Kill

LEMMA AuthorSafe ==
    ASSUME WorkspacesInv, Upload \/ Move
    PROVE  WorkspacesInv'
<1>1. /\ WorkspaceTypes /\ SpacesInv /\ VersionsInv
      /\ UNCHANGED <<space, request, touched, agreed>>
  BY DEF WorkspacesInv, Upload, Move, history
<1>2. SpacesInv'
  BY <1>1 DEF SpacesInv, RequestsWork
<1>3. CASE Upload
  <2>1. /\ VersionsInv' /\ status' \in Statuses
        /\ versions' \in Seq(VersionRecords)
        /\ current' \in 1..MaxVersions
    BY <1>1, <1>3, VersionAdded, ContentsFacts DEF Upload
  <2> QED
    BY <1>1, <1>2, <2>1 DEF WorkspacesInv, WorkspaceTypes
<1>4. CASE Move
  <2>1. versions' = versions /\ status' \in Statuses
    BY <1>4 DEF Move, Statuses
  <2>2. VersionsInv' /\ current' = current
    BY <1>1, <2>1, VersionsStay
  <2> QED
    BY <1>1, <1>2, <2>1, <2>2 DEF WorkspacesInv, WorkspaceTypes
<1> QED
  BY <1>3, <1>4

-----------------------------------------------------------------------------
(* The theorems *)

Safe == IndexTypeOK /\ IndexInv /\ WorkspacesInv

LEMMA SafeInit == Init => Safe
<1> SUFFICES ASSUME Init PROVE Safe
  OBVIOUS
<1>1. IndexTypeOK /\ IndexInv
  BY IndexInitially DEF Init
<1>2. /\ status = Open /\ touched = {} /\ agreed = {}
      /\ \A p \in Processes : request[p] = NoRequest
      /\ \A w \in Workspaces : space[w] = NoWorkspace
      /\ versions = <<[from |-> "none", document |-> Nothing, selected |-> Nothing]>>
  BY DEF Init
<1>3. NoWorkspace \in Records
  BY ContentsFacts, CitationsAssumption DEF NoWorkspace, Records
<1>4. /\ versions \in Seq(VersionRecords)
      /\ current = 1 /\ versions[1].from = "none" /\ versions[1].selected = Nothing
  BY <1>2, ContentsFacts DEF current, VersionRecords
<1>5. space \in [Workspaces -> Records] /\ request \in [Processes -> Requests]
  BY <1>3, NoRequestFacts DEF Init
<1>6. WorkspaceTypes
  BY <1>2, <1>4, <1>5, CitationsAssumption DEF WorkspaceTypes, Statuses
<1>7. SpacesInv
  BY <1>2, NoRequestFacts DEF SpacesInv, RequestsWork
<1>8. \A i \in 1..current : versions[i].from = "none" /\ versions[i].selected = Nothing
  BY <1>4
<1>9. VersionsInv
  BY <1>8 DEF VersionsInv, VersionsAreOfWorkspaces, VersionsAreAsSelected
<1> QED
  BY <1>1, <1>6, <1>7, <1>9 DEF Safe, WorkspacesInv

LEMMA SafeStep ==
    ASSUME Safe, [Next]_vars
    PROVE  Safe'
<1>1. IndexTypeOK /\ IndexInv /\ WorkspacesInv /\ kills \in 0..MaxKills
  BY DEF Safe, IndexTypeOK
<1>2. CASE \E p \in Processes : StartSearch(p) \/ NextClaim(p) \/ EndSearch(p)
  BY <1>1, <1>2, SearchRequestStep DEF Safe
<1>3. ASSUME NEW p \in Processes, WorkspacesInv', UNCHANGED indexVars
      PROVE  Safe'
  BY <1>1, <1>3, IndexStays DEF Safe, indexVars
<1>4. ASSUME NEW p \in Processes, Request(p),
             ~(StartSearch(p) \/ NextClaim(p) \/ EndSearch(p)), ~Kill(p)
      PROVE  Safe'
  <2>1. UNCHANGED indexVars
    BY <1>4 DEF Request, StartPrepare, CheckPrepare, OpenResult, FillResult, OpenJson,
         FillJson, WriteFails, StartUse, ReadPayload, ReadBytes, CheckUse, Add, Begin, Refuse
  <2>2. WorkspacesInv'
    BY <1>1, <1>4, BeginSafe, CheckPrepareStep, OpenResultStep, FillResultStep,
       OpenJsonStep, FillJsonStep, WriteFailsStep, ReadPayloadStep, ReadBytesStep, CheckUseStep, AddStep
       DEF Request
  <2> QED
    BY <1>3, <2>1, <2>2
<1>5. ASSUME NEW p \in Processes, Kill(p)
      PROVE  Safe'
  <2>1. kills' \in 0..MaxKills /\ kills' # 0
    BY <1>1, <1>5, CitationIndexAssumption DEF Kill
  <2> QED
    BY <1>1, <1>5, <2>1, KillSafe, IndexStays DEF Kill, Safe
<1>6. CASE Upload \/ Move
  <2>1. UNCHANGED indexVars
    BY <1>6 DEF Upload, Move
  <2> QED
    BY <1>1, <1>6, <2>1, AuthorSafe, IndexStays DEF Safe, indexVars
<1>7. CASE IndexNext /\ UNCHANGED spaceVars
  BY <1>1, <1>7, IndexStepSafe, WorkspacesStay DEF Safe
<1>8. CASE UNCHANGED vars
  <2>1. UNCHANGED indexVars /\ UNCHANGED spaceVars
    BY <1>8 DEF vars, spaceVars
  <2> QED
    BY <1>1, <2>1, WorkspacesStay, IndexStays DEF Safe, indexVars
<1>9. Next => \/ \E p \in Processes : Request(p)
              \/ Upload \/ Move
              \/ IndexNext /\ UNCHANGED spaceVars
  BY DEF Next, IndexNext
<1> QED
  BY <1>2, <1>4, <1>5, <1>6, <1>7, <1>8, <1>9

THEOREM CitationsAreSafe == Spec => []Safe
BY SafeInit, SafeStep, PTL DEF Spec

\* All variables of the index, the workspaces and the requests always have their
\* types, for every number of processes, workspaces and articles.
THEOREM TypeCorrect == Spec => []TypeOK
<1>1. Safe => TypeOK
  BY DEF Safe, WorkspacesInv, WorkspaceTypes, TypeOK, Records, Requests,
     VersionRecords
<1> QED
  BY <1>1, CitationsAreSafe, PTL

\* An index that is there has all articles and the vectors of one space, whatever
\* builds overlap, fail or are killed.
THEOREM IndexAlwaysWhole == Spec => []IndexIsWhole
<1>1. Safe => IndexIsWhole
  BY DEF Safe, IndexInv
<1> QED
  BY <1>1, CitationsAreSafe, PTL

\* Of requests only one more than old locks were removed builds the index.
THEOREM LocksLimitBuilders == Spec => []BuildersAreCounted
<1>1. Safe => BuildersAreCounted
  <2> SUFFICES ASSUME Safe PROVE BuildersAreCounted
    OBVIOUS
  <2>1. /\ Cardinality(Builders) \in Nat /\ breaks \in Nat
        /\ \/ Cardinality(Builders) <= breaks + 0
           \/ Cardinality(Builders) <= breaks + 1
    BY BuildersFinite DEF Safe, IndexInv, LocksLetBuildersIn, IndexTypeOK
  <2> QED
    BY <2>1 DEF BuildersAreCounted
<1> QED
  BY <1>1, CitationsAreSafe, PTL

\* While nobody was killed, a lock belongs to a request that builds.
THEOREM LockAlwaysHeld == Spec => []LockIsHeld
<1>1. Safe => LockIsHeld
  BY DEF Safe, IndexInv
<1> QED
  BY <1>1, CitationsAreSafe, PTL

\* A version made of a workspace follows the version the workspace was made for.
THEOREM VersionsFollow == Spec => []VersionsFollowTheirSource
<1>1. Safe => VersionsFollowTheirSource
  BY DEF Safe, WorkspacesInv, VersionsInv, VersionsAreOfWorkspaces, VersionsFollowTheirSource
<1> QED
  BY <1>1, CitationsAreSafe, PTL

\* A preparation in whose work nobody else wrote leaves two files that agree,
\* whatever overlapped, failed or was killed before it, and a version that is made
\* of them undisturbed is the document with the selection that is recorded.
THEOREM QuietAgree == Spec => []QuietWorkspacesAgree
<1>1. Safe => QuietWorkspacesAgree
  BY DEF Safe, WorkspacesInv, VersionsInv, SpacesInv, Agrees, VersionsAreAsSelected,
         QuietWorkspacesAgree
<1> QED
  BY <1>1, CitationsAreSafe, PTL
=============================================================================
