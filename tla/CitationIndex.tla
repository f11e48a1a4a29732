--------------------------- MODULE CitationIndex ---------------------------
(***************************************************************************)
(* The index of the sources (citations/index.py): a SQLite file that any   *)
(* request builds when it is missing, guarded by a lock file that expires  *)
(* after an hour, and that a command rebuilds without the lock.            *)
(***************************************************************************)
EXTENDS Integers, FiniteSets

CONSTANTS
    Processes,  \* requests and commands
    Settings,   \* CITATION_CORPUS_MODE and CITATION_INDEX_AUTO_BUILD
    Articles,   \* number of articles of the corpus
    Spaces,     \* vectors of the embedding API, or hashes when it is away
    MaxKills,   \* bound: processes killed
    MaxHours    \* bound: hours that pass

ASSUME CitationIndexAssumption ==
    /\ IsFiniteSet(Processes) /\ "none" \notin Processes \cup Spaces
    /\ Settings \subseteq [archives : BOOLEAN, auto : BOOLEAN]
    /\ Articles \in Nat \ {0} /\ MaxKills \in Nat /\ MaxHours \in Nat

NoSpace == "none"

NoLock == [by |-> "none", old |-> FALSE]

NoIndex == [articles |-> 0, spaces |-> {}, recorded |-> NoSpace, archives |-> FALSE]

VARIABLES
    corpus,     \* the settings
    missing,    \* an archive of the indexed articles is not there
    index,      \* the file CITATION_INDEX_PATH
    lock,       \* the lock file: who made it, and whether an hour ago
    job,        \* what each process does, with its temporary file
    kills, hours,
    breaks      \* locks that were removed because of their age

indexVars == <<corpus, missing, index, lock, job, kills, hours, breaks>>

\* "answered" is the end of ensure_index: the caller goes on with its status.
Steps == {"idle", "ask", "lock", "break", "build", "release", "answered"}

NoJob == [step |-> "idle", locks |-> FALSE, ready |-> FALSE, done |-> 0,
          spaces |-> {}, archives |-> FALSE]

Exists(i) == i.articles > 0

Ready == Exists(index) /\ ~(index.archives /\ missing)

IndexInit ==
    /\ corpus \in Settings
    /\ missing = FALSE
    /\ index = NoIndex
    /\ lock = NoLock
    /\ job = [p \in Processes |-> NoJob]
    /\ kills = 0 /\ hours = 0 /\ breaks = 0

Goto(p, step) == job' = [job EXCEPT ![p].step = step]

Answer(p, ready) == job' = [job EXCEPT ![p] = [NoJob EXCEPT !.step = "answered", !.ready = ready]]

\* get_index_status and the early returns of ensure_index.
Ask(p) ==
    /\ job[p].step = "ask"
    /\ \/ /\ Ready
          /\ Answer(p, TRUE)
       \/ /\ ~Ready
          /\ corpus.archives \/ (Exists(index) /\ index.archives) \/ ~corpus.auto
          /\ Answer(p, FALSE)
       \/ /\ ~Ready
          /\ ~corpus.archives /\ ~(Exists(index) /\ index.archives) /\ corpus.auto
          /\ Goto(p, "lock")
    /\ UNCHANGED <<corpus, missing, index, lock, kills, hours, breaks>>

StartBuild(p, locks, archives) ==
    job' = [job EXCEPT ![p] = [NoJob EXCEPT !.step = "build", !.locks = locks,
                                            !.archives = archives]]

\* Fault: the lock is made whether it is there or not.
LockAnyway(p) ==
    /\ job[p].step = "lock"
    /\ lock' = [by |-> p, old |-> FALSE]
    /\ StartBuild(p, TRUE, corpus.archives)
    /\ UNCHANGED <<corpus, missing, index, kills, hours, breaks>>

\* os.open with O_CREAT | O_EXCL, or the age of the lock that is there.
Lock(p) ==
    /\ job[p].step = "lock"
    /\ \/ /\ lock = NoLock
          /\ lock' = [by |-> p, old |-> FALSE]
          /\ StartBuild(p, TRUE, corpus.archives)
       \/ /\ lock # NoLock
          /\ IF lock.old THEN Goto(p, "break") ELSE Answer(p, FALSE)
          /\ UNCHANGED lock
    /\ UNCHANGED <<corpus, missing, index, kills, hours, breaks>>

\* unlink, whoever the lock belongs to by now, and ensure_index once more.
Break(p) ==
    /\ job[p].step = "break"
    /\ lock' = NoLock
    /\ breaks' = breaks + 1
    /\ Goto(p, "ask")
    /\ UNCHANGED <<corpus, missing, index, kills, hours>>

\* Fault: the backend is not compared.
AnySpace(j, space) == TRUE

\* A vector space other than that of the articles before raises an exception.
SameSpace(j, space) == j.spaces \subseteq {space}

AddArticle(p) ==
    /\ job[p].step = "build" /\ job[p].done < Articles
    /\ \E space \in Spaces :
          /\ SameSpace(job[p], space)
          /\ job' = [job EXCEPT ![p].done = @ + 1, ![p].spaces = @ \cup {space}]
    /\ UNCHANGED <<corpus, missing, index, lock, kills, hours, breaks>>

\* What the temporary file holds.
Temporary(j) ==
    [articles |-> j.done, spaces |-> j.spaces,
     recorded |-> CHOOSE space \in j.spaces : TRUE, archives |-> j.archives]

CorpusIsRead(j) == j.done = Articles

\* Fault: unlink is not in a finally.
LeaveIfBuilt(p, ready) ==
    IF job[p].locks /\ ready
      THEN job' = [job EXCEPT ![p].step = "release", ![p].ready = ready]
      ELSE job' = [job EXCEPT ![p] = NoJob]

Leave(p, ready) ==
    IF job[p].locks THEN job' = [job EXCEPT ![p].step = "release", ![p].ready = ready]
                    ELSE job' = [job EXCEPT ![p] = NoJob]

\* The metadata, the commit and os.replace.
Replace(p) ==
    /\ job[p].step = "build" /\ CorpusIsRead(job[p])
    /\ index' = Temporary(job[p])
    /\ Leave(p, TRUE)
    /\ UNCHANGED <<corpus, missing, lock, kills, hours, breaks>>

\* A missing file, a repeated DOI, a wrong hash, another vector space.
BuildFails(p) ==
    /\ job[p].step = "build"
    /\ Leave(p, FALSE)
    /\ UNCHANGED <<corpus, missing, index, lock, kills, hours, breaks>>

\* finally: unlink.  After an exception the caller is told so.
Release(p) ==
    /\ job[p].step = "release"
    /\ lock' = NoLock
    /\ IF job[p].ready THEN Answer(p, TRUE) ELSE job' = [job EXCEPT ![p] = NoJob]
    /\ UNCHANGED <<corpus, missing, index, kills, hours, breaks>>

\* manage.py build_citation_index, of the corpus of the settings.
Command(p) ==
    /\ job[p].step = "idle"
    /\ StartBuild(p, FALSE, corpus.archives)
    /\ UNCHANGED <<corpus, missing, index, lock, kills, hours, breaks>>

\* A process is killed: its lock stays.
KillJob(p) ==
    /\ kills < MaxKills /\ job[p].step # "idle"
    /\ kills' = kills + 1
    /\ job' = [job EXCEPT ![p] = NoJob]
    /\ UNCHANGED <<corpus, missing, index, lock, hours, breaks>>

Hour ==
    /\ hours < MaxHours /\ lock # NoLock /\ ~lock.old
    /\ hours' = hours + 1
    /\ lock' = [lock EXCEPT !.old = TRUE]
    /\ UNCHANGED <<corpus, missing, index, job, kills, breaks>>

\* Somebody moves the archives away, or brings them back.
MoveArchives ==
    /\ index.archives
    /\ missing' = ~missing
    /\ UNCHANGED <<corpus, index, lock, job, kills, hours, breaks>>

IndexStep(p) ==
    \/ Ask(p) \/ Lock(p) \/ Break(p)
    \/ AddArticle(p) \/ Replace(p) \/ BuildFails(p) \/ Release(p)

IndexNext ==
    \/ \E p \in Processes : IndexStep(p) \/ Command(p) \/ KillJob(p)
    \/ Hour
    \/ MoveArchives
-----------------------------------------------------------------------------
IndexTypeOK ==
    /\ corpus \in Settings
    /\ missing \in BOOLEAN
    /\ index \in [articles : 0..Articles, spaces : SUBSET Spaces,
                  recorded : Spaces \cup {NoSpace}, archives : BOOLEAN]
    /\ lock \in [by : Processes \cup {"none"}, old : BOOLEAN]
    /\ job \in [Processes -> [step : Steps, locks : BOOLEAN, ready : BOOLEAN,
                              done : 0..Articles, spaces : SUBSET Spaces,
                              archives : BOOLEAN]]
    /\ kills \in 0..MaxKills /\ hours \in 0..MaxHours /\ breaks \in Nat

(***************************************************************************)
(* A search never sees a part of the corpus, nor vectors of another space  *)
(* than the one the index names, whatever builds fail, overlap or are      *)
(* killed (build_index).                                                   *)
(***************************************************************************)
IndexIsWhole ==
    Exists(index) => index.articles = Articles /\ index.spaces = {index.recorded}

\* Builds that ensure_index has started.
Builders == {p \in Processes : job[p].step \in {"build", "release"} /\ job[p].locks}

(***************************************************************************)
(* Requests do not build the index side by side: each removal of an old    *)
(* lock lets at most one more in (ensure_index).                           *)
(***************************************************************************)
BuildersAreCounted == Cardinality(Builders) <= 1 + breaks

(***************************************************************************)
(* A lock is not forgotten: as long as nobody was killed it is held by a   *)
(* request that builds, and the requests that hold it are told apart only  *)
(* by an hour (ensure_index: finally).                                     *)
(***************************************************************************)
LockIsHeld == kills = 0 /\ lock # NoLock => lock.by \in Builders
=============================================================================
