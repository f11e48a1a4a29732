---------------------- MODULE TemplatePreparationProofs ----------------------
(***************************************************************************)
(* Theorems about TemplatePreparation, for every number of preparations,   *)
(* templates, versions and faults.                                         *)
(*                                                                         *)
(* SettledRulesAreExtracted speaks of the states in which nothing is under *)
(* way.  PreparationInv says how the others get there: what a preparation  *)
(* under way has in memory, and who will still write the rules.            *)
(***************************************************************************)
EXTENDS TemplatePreparation, TLAPS

Loaded == {"template", "extract", "save"}

\* Rules are extracted only of attached templates they can be extracted from;
\* a preparation is about a template that is attached, and so is a snapshot
\* the author reads.
RulesAreOfAttachedTemplates ==
    /\ \A t \in Templates : analysis[t] = "ready" => t \in readable /\ t <= sub.template
    /\ \A w \in Workers :
          /\ workers[w].pc \in {"launched"} \cup Loaded =>
                workers[w].template <= sub.template
          /\ workers[w].pc = "save" =>
                (workers[w].rules <=> workers[w].template \in readable)
    /\ request.kind = "edit" => request.base <= sub.template

\* Who saw manual rules leaves the snapshot alone: it is the author's, or what
\* another preparation built of the only template.
SeenRulesStand ==
    sub.template = 1 /\ 1 \in readable =>
        \A w \in Workers : workers[w].pc \in Loaded /\ workers[w].seen =>
            sub.manual \/ sub.base = 1

\* Rules that were extracted are in the snapshot, or about to be saved.
ExtractedRulesArrive ==
    errors = 0 /\ crashes = 0 /\ sub.template = 1 /\ analysis[1] = "ready" =>
        \/ sub.manual
        \/ sub.base = 1
        \/ \E w \in Workers : workers[w].pc = "save"

PreparationInv ==
    /\ RulesAreOfAttachedTemplates
    /\ SeenRulesStand
    /\ ExtractedRulesArrive

-----------------------------------------------------------------------------
(* What a step of a preparation makes of it *)

LEMMA IdleTyped ==
    /\ 1 \in Templates /\ 1 \in Versions
    /\ Idle \in Worker /\ Idle.pc = "idle"
    /\ \A t \in Templates, v \in Versions, start \in BOOLEAN :
          /\ Preparing(t, v, start) \in Worker
          /\ Preparing(t, v, start).pc = "launched"
          /\ Preparing(t, v, start).template = t
<1>1. 1 \in Templates /\ 1 \in Versions
  BY TemplatePreparationAssumption DEF Templates, Versions
<1>2. Idle \in Worker /\ Idle.pc = "idle"
  BY <1>1 DEF Idle, Worker
<1> QED
  BY <1>1, <1>2 DEF Preparing, Idle, Worker

\* A step of the preparation w: the record it becomes.
Becomes(w, r) ==
    /\ workers' \in [Workers -> Worker]
    /\ workers'[w] = r
    /\ \A x \in Workers \ {w} : workers'[x] = workers[x]

LEMMA WorkerBecomes ==
    ASSUME TypeOK, NEW w \in Workers, NEW r \in Worker,
           workers' = [workers EXCEPT ![w] = r]
    PROVE  Becomes(w, r)
BY DEF TypeOK, Becomes

LEMMA Stops ==
    ASSUME TypeOK, NEW w \in Workers, Stop(w)
    PROVE  Becomes(w, Idle)
BY IdleTyped, WorkerBecomes DEF Stop

\* Only the fields a step writes change.
LEMMA WorkerGoes ==
    ASSUME TypeOK, NEW w \in Workers,
           NEW pc \in {"extract", "save", "recheck", "queue"}, Goes(w, pc)
    PROVE  Becomes(w, [workers[w] EXCEPT !.pc = pc])
<1>1. workers[w] \in Worker
  BY DEF TypeOK
<1>2. [workers[w] EXCEPT !.pc = pc] \in Worker
  BY <1>1 DEF Worker
<1> QED
  BY <1>2, WorkerBecomes DEF Goes

LEMMA WorkerGoesOn ==
    ASSUME TypeOK, NEW w \in Workers, GoesOn(w)
    PROVE  \E r \in Worker : r.pc = "recheck" /\ Becomes(w, r)
<1> DEFINE p == Preparing(1, workers[w].version, workers[w].start)
           r == [p EXCEPT !.pc = "recheck"]
<1>1. workers[w] \in Worker
  BY DEF TypeOK
<1>2. p \in Worker
  BY <1>1, IdleTyped DEF Worker
<1>3. workers' = [workers EXCEPT ![w] = r]
  BY DEF GoesOn
<1> HIDE DEF p
<1>4. r \in Worker /\ r.pc = "recheck"
  BY <1>2 DEF Worker
<1> HIDE DEF r
<1> QED
  BY <1>3, <1>4, WorkerBecomes

LEMMA LaunchFacts ==
    ASSUME TypeOK, NEW t \in Templates, NEW start \in BOOLEAN, Launched(t, start)
    PROVE  /\ workers' \in [Workers -> Worker]
           /\ crashes' \in 0..MaxFaults
           /\ crashes' = crashes \/ crashes' # 0
           /\ \A w \in Workers :
                 \/ workers'[w] = workers[w]
                 \/ /\ workers[w].pc = "idle"
                    /\ workers'[w].pc = "launched" /\ workers'[w].template = t
<1>1. CASE \E w \in Workers :
              /\ workers[w].pc = "idle"
              /\ workers' = [workers EXCEPT ![w] = Preparing(t, sub.version, start)]
              /\ UNCHANGED crashes
  <2>1. PICK w \in Workers :
           /\ workers[w].pc = "idle"
           /\ workers' = [workers EXCEPT ![w] = Preparing(t, sub.version, start)]
    BY <1>1
  <2> DEFINE r == Preparing(t, sub.version, start)
  <2>2. r \in Worker /\ r.pc = "launched" /\ r.template = t
    BY IdleTyped DEF TypeOK
  <2>3. workers' = [workers EXCEPT ![w] = r]
    BY <2>1
  <2> HIDE DEF r
  <2>4. Becomes(w, r)
    BY <2>2, <2>3, WorkerBecomes
  <2> QED
    BY <1>1, <2>1, <2>2, <2>4 DEF Becomes, TypeOK
<1>2. CASE /\ errors + crashes < MaxFaults
           /\ crashes' = crashes + 1
           /\ UNCHANGED workers
  BY <1>2, TemplatePreparationAssumption DEF TypeOK
<1> QED
  BY <1>1, <1>2 DEF Launched

LEMMA LoadSubmissionFacts ==
    ASSUME TypeOK, NEW w \in Workers, LoadSubmission(w)
    PROVE  /\ workers[w].pc = "launched"
           /\ \E r \in Worker :
                 /\ Becomes(w, r)
                 /\ \/ r.pc = "idle"
                    \/ /\ r.pc = "template" /\ r.template = workers[w].template
                       /\ r.seen = sub.manual
<1>1. workers[w] \in Worker /\ sub.manual \in BOOLEAN
  BY DEF TypeOK
<1>2. CASE workers' = [workers EXCEPT ![w].pc = "template", ![w].seen = sub.manual]
  <2> DEFINE r == [workers[w] EXCEPT !.pc = "template", !.seen = sub.manual]
  <2>1. /\ r \in Worker /\ r.pc = "template" /\ r.seen = sub.manual
        /\ r.template = workers[w].template
    BY <1>1 DEF Worker
  <2>2. workers' = [workers EXCEPT ![w] = r]
    BY <1>2 DEF TypeOK
  <2> HIDE DEF r
  <2> QED
    BY <2>1, <2>2, WorkerBecomes DEF LoadSubmission
<1>3. CASE Stop(w)
  BY <1>3, Stops, IdleTyped DEF LoadSubmission
<1> QED
  BY <1>2, <1>3 DEF LoadSubmission

LEMMA LoadTemplateFacts ==
    ASSUME TypeOK, NEW w \in Workers, LoadTemplate(w)
    PROVE  /\ workers[w].pc = "template" /\ workers[w].template \in Templates
           /\ \E r \in Worker :
                 /\ Becomes(w, r)
                 /\ r.template = workers[w].template /\ r.seen = workers[w].seen
                 /\ \/ /\ analysis[workers[w].template] = "ready"
                       /\ r.pc = "save" /\ r.rules
                       /\ analysis' = analysis
                    \/ /\ r.pc = "extract"
                       /\ analysis' = [analysis EXCEPT
                                          ![workers[w].template] = "processing"]
<1>1. workers[w] \in Worker /\ workers[w].template \in Templates
  BY DEF TypeOK, Worker
<1>2. CASE analysis[workers[w].template] = "ready"
  <2> DEFINE r == [workers[w] EXCEPT !.pc = "save", !.rules = TRUE]
  <2>1. /\ r \in Worker /\ r.pc = "save" /\ r.rules /\ r.seen = workers[w].seen
        /\ r.template = workers[w].template
    BY <1>1 DEF Worker
  <2>2. /\ workers' = [workers EXCEPT ![w].pc = "save", ![w].rules = TRUE]
        /\ workers[w].pc = "template" /\ analysis' = analysis
    BY <1>2 DEF LoadTemplate
  <2>3. workers' = [workers EXCEPT ![w] = r]
    BY <2>2 DEF TypeOK
  <2> HIDE DEF r
  <2> QED
    BY <1>1, <1>2, <2>1, <2>2, <2>3, WorkerBecomes
<1>3. CASE analysis[workers[w].template] # "ready"
  <2> DEFINE r == [workers[w] EXCEPT !.pc = "extract"]
  <2>1. /\ r \in Worker /\ r.pc = "extract" /\ r.seen = workers[w].seen
        /\ r.template = workers[w].template
    BY <1>1 DEF Worker
  <2>2. /\ Goes(w, "extract") /\ workers[w].pc = "template"
        /\ analysis' = [analysis EXCEPT ![workers[w].template] = "processing"]
    BY <1>3 DEF LoadTemplate
  <2>3. Becomes(w, r)
    BY <2>2, WorkerGoes
  <2> HIDE DEF r
  <2> QED
    BY <1>1, <2>1, <2>2, <2>3
<1> QED
  BY <1>2, <1>3

LEMMA ExtractFacts ==
    ASSUME TypeOK, NEW w \in Workers, ExtractRules(w)
    PROVE  /\ workers[w].pc = "extract" /\ workers[w].template \in Templates
           /\ analysis' = [analysis EXCEPT ![workers[w].template] =
                              IF workers[w].template \in readable
                              THEN "ready" ELSE "failed"]
           /\ \E r \in Worker :
                 /\ Becomes(w, r)
                 /\ r.pc = "save" /\ r.seen = workers[w].seen
                 /\ r.template = workers[w].template
                 /\ r.rules <=> workers[w].template \in readable
<1>1. workers[w] \in Worker /\ workers[w].template \in Templates
  BY DEF TypeOK, Worker
<1> DEFINE rules == workers[w].template \in readable
           r == [workers[w] EXCEPT !.pc = "save", !.rules = rules]
<1>2. rules \in BOOLEAN
  OBVIOUS
<1>3. workers' = [workers EXCEPT ![w].pc = "save", ![w].rules = rules]
  BY DEF ExtractRules
<1> HIDE DEF rules
<1>4. /\ r \in Worker /\ r.pc = "save" /\ r.rules = rules /\ r.seen = workers[w].seen
      /\ r.template = workers[w].template
  BY <1>1, <1>2 DEF Worker
<1>5. workers' = [workers EXCEPT ![w] = r]
  BY <1>3 DEF TypeOK
<1> HIDE DEF r
<1>6. Becomes(w, r)
  BY <1>4, <1>5, WorkerBecomes
<1> QED
  BY <1>1, <1>4, <1>6 DEF ExtractRules, rules

\* What a step of a preparation, an exception in it or its end writes, but for
\* the record of the preparation and the rules.
LEMMA RecheckFacts ==
    ASSUME TypeOK, NEW w \in Workers, Recheck(w) \/ QueueChecks(w) \/ Crash(w)
    PROVE  /\ \E r \in Worker : r.pc \in {"idle", "queue"} /\ Becomes(w, r)
           /\ workers[w].pc = "save" => crashes' # 0
           /\ sub' = sub \/ sub' = [sub EXCEPT !.status = "auto_checking",
                                               !.waiting = FALSE]
           /\ UNCHANGED <<analysis, readable, request, errors>>
           /\ crashes' = crashes \/ (crashes' # 0 /\ crashes' \in 0..MaxFaults)
<1>1. \E r \in Worker : r.pc \in {"idle", "queue"} /\ Becomes(w, r)
  <2>1. CASE Stop(w)
    BY <2>1, Stops, IdleTyped
  <2>2. CASE Goes(w, "queue")
    <3>1. workers[w] \in Worker
      BY DEF TypeOK
    <3>2. LET r == [workers[w] EXCEPT !.pc = "queue"]
          IN  r \in Worker /\ r.pc = "queue"
      BY <3>1 DEF Worker
    <3> QED
      BY <2>2, <3>2, WorkerGoes
  <2> QED
    BY <2>1, <2>2 DEF Recheck, QueueChecks, Crash
<1>2. /\ crashes' = crashes \/ (crashes' # 0 /\ crashes' \in 0..MaxFaults)
      /\ workers[w].pc = "save" => crashes' # 0
  BY TemplatePreparationAssumption DEF TypeOK, Recheck, QueueChecks, Crash
<1> QED
  BY <1>1, <1>2 DEF Recheck, QueueChecks, Crash

LEMMA SaveFacts ==
    ASSUME TypeOK, RulesAreOfAttachedTemplates, NEW w \in Workers, SaveRules(w)
    PROVE  /\ workers[w].pc = "save"
           /\ \E r \in Worker : r.pc = "recheck" /\ Becomes(w, r)
           /\ SnapshotBase(w) \in 0..MaxTemplates /\ SnapshotBase(w) <= sub.template
           /\ workers[w].seen => sub' = sub
           /\ ~workers[w].seen =>
                 sub' = [sub EXCEPT !.manual = FALSE, !.base = SnapshotBase(w)]
           /\ UNCHANGED <<analysis, readable, request, errors, crashes>>
<1>1. workers[w].template \in 1..MaxTemplates /\ sub.template \in 0..MaxTemplates
  BY DEF TypeOK, Worker, Templates
<1>2. workers[w].pc = "save"
  BY DEF SaveRules
<1>3. workers[w].template <= sub.template
  BY <1>2 DEF RulesAreOfAttachedTemplates, Loaded
<1>4. SnapshotBase(w) = workers[w].template \/ SnapshotBase(w) = 0
  BY DEF SnapshotBase
<1>5. SnapshotBase(w) \in 0..MaxTemplates /\ SnapshotBase(w) <= sub.template
  BY <1>1, <1>3, <1>4, TemplatePreparationAssumption
<1> QED
  BY <1>2, <1>5, WorkerGoesOn DEF SaveRules

LEMMA FailsFacts ==
    ASSUME TypeOK, NEW w \in Workers, Fails(w)
    PROVE  /\ \E r \in Worker : r.pc = "recheck" /\ Becomes(w, r)
           /\ errors' # 0 /\ errors' \in 0..MaxFaults
           /\ UNCHANGED <<sub, analysis, readable, request, crashes>>
<1>1. errors' # 0 /\ errors' \in 0..MaxFaults
  BY TemplatePreparationAssumption DEF TypeOK, Fails
<1> QED
  BY <1>1, WorkerGoesOn DEF Fails, GoesOnAfterError

LEMMA InlineFacts ==
    ASSUME TypeOK, NEW w \in Workers, PrepareInline(w)
    PROVE  /\ \E r \in Worker : /\ r.pc = "launched" /\ r.template = sub.template
                                /\ Becomes(w, r)
           /\ workers[w].pc = "idle"
           /\ UNCHANGED <<sub, analysis, readable, request, errors, crashes>>
<1> DEFINE r == Preparing(sub.template, sub.version, FALSE)
<1>1. sub.template \in Templates /\ sub.version \in Versions
  BY DEF TypeOK, PrepareInline, Templates
<1>2. r \in Worker /\ r.pc = "launched" /\ r.template = sub.template
  BY <1>1, IdleTyped
<1>3. workers' = [workers EXCEPT ![w] = r]
  BY DEF PrepareInline
<1> HIDE DEF r
<1> QED
  BY <1>2, <1>3, WorkerBecomes DEF PrepareInline

-----------------------------------------------------------------------------
(* TypeOK *)

LEMMA TypeInit == Init => TypeOK
<1> SUFFICES ASSUME Init PROVE TypeOK
  OBVIOUS
<1>1. /\ sub.status = "auto_checking" /\ sub.version \in Versions
      /\ sub.template \in 0..MaxTemplates /\ sub.base \in 0..MaxTemplates
      /\ sub.base <= sub.template
  BY IdleTyped, TemplatePreparationAssumption DEF Init, Templates
<1>2. sub \in [status : Before \cup {"in_review", "revision_requested"},
               version : Versions, template : 0..MaxTemplates,
               manual : BOOLEAN, base : 0..MaxTemplates, waiting : BOOLEAN]
  BY <1>1 DEF Init, Before
<1>3. workers \in [Workers -> Worker]
  <2>1. Idle \in Worker /\ Preparing(1, 1, TRUE) \in Worker
    BY IdleTyped
  <2>2. CASE sub.waiting
    <3>1. PICK w \in Workers :
             workers = [x \in Workers |-> IF x = w THEN Preparing(1, 1, TRUE) ELSE Idle]
      BY <2>2 DEF Init
    <3> QED
      BY <2>1, <3>1
  <2>3. CASE ~sub.waiting
    <3>1. workers = [x \in Workers |-> Idle]
      BY <2>3 DEF Init
    <3> QED
      BY <2>1, <3>1
  <2> QED
    BY <2>2, <2>3
<1>4. request \in [kind : {"none", "attach", "edit", "submit"},
                   base : 0..MaxTemplates]
  BY TemplatePreparationAssumption DEF Init, NoRequest
<1>5. analysis \in [Templates -> {"uploaded", "processing", "ready", "failed"}]
  BY DEF Init
<1> QED
  BY <1>1, <1>2, <1>3, <1>4, <1>5, TemplatePreparationAssumption DEF Init, TypeOK

LEMMA TypeStep ==
    ASSUME TypeOK, RulesAreOfAttachedTemplates, [Next]_vars
    PROVE  TypeOK'
<1> USE TemplatePreparationAssumption
<1>1. ASSUME NEW kind \in {"attach", "edit", "submit"}, Open(kind)
      PROVE  TypeOK'
  BY <1>1 DEF Open, TypeOK
<1>2. CASE GiveUp
  BY <1>2 DEF GiveUp, NoRequest, TypeOK
<1>3. CASE AttachTemplate
  <2>1. /\ sub.template + 1 \in Templates /\ sub.template + 1 \in 0..MaxTemplates
        /\ 0 <= sub.template + 1
    BY <1>3 DEF AttachTemplate, TypeOK, Templates
  <2>2. workers' \in [Workers -> Worker] /\ crashes' \in 0..MaxFaults
    BY <1>3, <2>1, LaunchFacts DEF AttachTemplate
  <2>3. sub' = [sub EXCEPT !.template = sub.template + 1, !.manual = FALSE, !.base = 0]
    BY <1>3 DEF AttachTemplate
  <2> DEFINE k == sub.template + 1
  <2>4. /\ sub' = [sub EXCEPT !.template = k, !.manual = FALSE, !.base = 0]
        /\ k \in 0..MaxTemplates /\ 0 \in 0..MaxTemplates /\ 0 <= k
    BY <2>1, <2>3
  <2> HIDE DEF k
  <2>5. /\ sub' \in [status : Before \cup {"in_review", "revision_requested"},
                     version : Versions, template : 0..MaxTemplates,
                     manual : BOOLEAN, base : 0..MaxTemplates, waiting : BOOLEAN]
        /\ sub'.base <= sub'.template
    BY <2>4 DEF TypeOK
  <2>6. request' \in [kind : {"none", "attach", "edit", "submit"},
                      base : 0..MaxTemplates]
    BY <1>3 DEF AttachTemplate, NoRequest
  <2>7. UNCHANGED <<analysis, readable, errors>>
    BY <1>3 DEF AttachTemplate
  <2> QED
    BY <2>2, <2>5, <2>6, <2>7 DEF TypeOK
<1>4. CASE EditRules
  <2>1. request.base \in 0..MaxTemplates /\ request.base <= sub.template
    BY <1>4 DEF EditRules, TypeOK, RulesAreOfAttachedTemplates
  <2>2. sub' = [sub EXCEPT !.manual = TRUE, !.base = request.base,
                           !.status = "auto_checking", !.waiting = FALSE]
    BY <1>4 DEF EditRules
  <2>3. sub' \in [status : Before \cup {"in_review", "revision_requested"},
                  version : Versions, template : 0..MaxTemplates,
                  manual : BOOLEAN, base : 0..MaxTemplates, waiting : BOOLEAN]
    BY <2>1, <2>2 DEF TypeOK, Before
  <2>4. sub'.base <= sub'.template
    BY <2>1, <2>2 DEF TypeOK
  <2>5. request' \in [kind : {"none", "attach", "edit", "submit"},
                      base : 0..MaxTemplates]
    BY <1>4 DEF EditRules, NoRequest
  <2>6. UNCHANGED <<analysis, readable, workers, errors, crashes>>
    BY <1>4 DEF EditRules
  <2> QED
    BY <2>3, <2>4, <2>5, <2>6 DEF TypeOK
<1>5. CASE Submit \/ ChecksEnd \/ RequestRevision
  BY <1>5 DEF Submit, ChecksEnd, RequestRevision, NoRequest, TypeOK, Before
<1>6. CASE UploadVersion
  <2>1. sub.version + 1 \in Versions
    BY <1>6 DEF UploadVersion, TypeOK, Versions
  <2> QED
    BY <1>6, <2>1 DEF UploadVersion, TypeOK, Before
<1>7. ASSUME NEW w \in Workers, PrepareInline(w)
      PROVE  TypeOK'
  BY <1>7, InlineFacts DEF TypeOK, Becomes
<1>8. ASSUME NEW w \in Workers, LoadSubmission(w)
      PROVE  TypeOK'
  BY <1>8, LoadSubmissionFacts DEF TypeOK, Becomes, LoadSubmission
<1>9. ASSUME NEW w \in Workers, LoadTemplate(w)
      PROVE  TypeOK'
  <2>1. workers' \in [Workers -> Worker]
    BY <1>9, LoadTemplateFacts DEF Becomes
  <2>2. analysis' = analysis
           \/ \E t \in Templates : analysis' = [analysis EXCEPT ![t] = "processing"]
    BY <1>9, LoadTemplateFacts
  <2>3. UNCHANGED <<sub, readable, request, errors, crashes>>
    BY <1>9 DEF LoadTemplate
  <2> QED
    BY <2>1, <2>2, <2>3 DEF TypeOK
<1>10. ASSUME NEW w \in Workers, ExtractRules(w)
       PROVE  TypeOK'
  <2>1. workers' \in [Workers -> Worker]
    BY <1>10, ExtractFacts DEF Becomes
  <2>2. \E t \in Templates, status \in {"ready", "failed"} :
           analysis' = [analysis EXCEPT ![t] = status]
    BY <1>10, ExtractFacts
  <2>3. UNCHANGED <<sub, readable, request, errors, crashes>>
    BY <1>10 DEF ExtractRules
  <2> QED
    BY <2>1, <2>2, <2>3 DEF TypeOK
<1>11. ASSUME NEW w \in Workers, SaveRules(w)
       PROVE  TypeOK'
  <2>1. workers' \in [Workers -> Worker]
    BY <1>11, SaveFacts DEF Becomes
  <2>2. /\ UNCHANGED <<analysis, readable, request, errors, crashes>>
        /\ \/ sub' = sub
           \/ \E b \in 0..MaxTemplates :
                 b <= sub.template /\ sub' = [sub EXCEPT !.manual = FALSE, !.base = b]
    BY <1>11, SaveFacts
  <2> QED
    BY <2>1, <2>2 DEF TypeOK
<1>12. ASSUME NEW w \in Workers, Recheck(w) \/ QueueChecks(w) \/ Crash(w)
       PROVE  TypeOK'
  <2>1. workers' \in [Workers -> Worker]
    BY <1>12, RecheckFacts DEF Becomes
  <2>2. /\ sub' = sub \/ sub' = [sub EXCEPT !.status = "auto_checking",
                                            !.waiting = FALSE]
        /\ UNCHANGED <<analysis, readable, request, errors>>
        /\ crashes' \in 0..MaxFaults
    BY <1>12, RecheckFacts DEF TypeOK
  <2>3. sub' \in [status : Before \cup {"in_review", "revision_requested"},
                  version : Versions, template : 0..MaxTemplates,
                  manual : BOOLEAN, base : 0..MaxTemplates, waiting : BOOLEAN]
    BY <2>2 DEF TypeOK, Before
  <2>4. sub'.base <= sub'.template
    BY <2>2 DEF TypeOK
  <2> QED
    BY <2>1, <2>2, <2>3, <2>4 DEF TypeOK
<1>13. ASSUME NEW w \in Workers, Fails(w)
       PROVE  TypeOK'
  BY <1>13, FailsFacts DEF TypeOK, Becomes
<1>14. CASE UNCHANGED vars
  BY <1>14 DEF TypeOK, vars
<1> QED
  BY <1>1, <1>2, <1>3, <1>4, <1>5, <1>6, <1>7, <1>8, <1>9, <1>10, <1>11, <1>12,
     <1>13, <1>14 DEF Next, Work

-----------------------------------------------------------------------------
(* SettledRulesAreExtracted *)

LEMMA PreparationInit == Init => PreparationInv
<1> SUFFICES ASSUME Init PROVE PreparationInv
  OBVIOUS
<1>1. TypeOK
  BY TypeInit
<1>2. /\ analysis = [t \in Templates |-> IF t = sub.base THEN "ready" ELSE "uploaded"]
      /\ sub.base \in {0, 1} /\ (sub.base = 1 => sub.template = 1 /\ 1 \in readable)
      /\ sub.waiting <=> sub.template = 1 /\ sub.base = 0
      /\ request.kind = "none"
  BY DEF Init, NoRequest
<1>3. \A w \in Workers : \/ workers[w].pc = "idle"
                         \/ /\ workers[w].pc = "launched" /\ workers[w].template = 1
                            /\ sub.template = 1
  <2>1. CASE sub.waiting
    <3>1. PICK w \in Workers :
             workers = [x \in Workers |-> IF x = w THEN Preparing(1, 1, TRUE) ELSE Idle]
      BY <2>1 DEF Init
    <3> QED
      BY <1>2, <2>1, <3>1, IdleTyped
  <2>2. CASE ~sub.waiting
    <3>1. workers = [x \in Workers |-> Idle]
      BY <2>2 DEF Init
    <3> QED
      BY <3>1, IdleTyped
  <2> QED
    BY <2>1, <2>2
<1>4. \A t \in Templates : analysis[t] = "ready" =>
         t = 1 /\ sub.base = 1 /\ sub.template = 1 /\ 1 \in readable
  BY <1>2 DEF Templates
<1>5. RulesAreOfAttachedTemplates
  BY <1>2, <1>3, <1>4 DEF RulesAreOfAttachedTemplates, Loaded
<1>6. SeenRulesStand
  BY <1>3 DEF SeenRulesStand, Loaded
<1>7. ExtractedRulesArrive
  BY <1>4, IdleTyped DEF ExtractedRulesArrive
<1> QED
  BY <1>5, <1>6, <1>7 DEF PreparationInv

\* A step of the preparation w that leaves the template of the submission, and
\* makes of w a record that fits it.
LEMMA RulesStep ==
    ASSUME TypeOK, RulesAreOfAttachedTemplates,
           NEW w \in Workers, NEW r \in Worker, Becomes(w, r),
           sub'.template = sub.template, readable' = readable, request' = request,
           \A t \in Templates : analysis'[t] = "ready" =>
              analysis[t] = "ready" \/ (t \in readable /\ t <= sub.template),
           r.pc \in {"launched"} \cup Loaded => r.template <= sub.template,
           r.pc = "save" => (r.rules <=> r.template \in readable)
    PROVE  RulesAreOfAttachedTemplates'
<1>1. \A t \in Templates : analysis'[t] = "ready" => t \in readable' /\ t <= sub'.template
  BY DEF RulesAreOfAttachedTemplates
<1>2. \A x \in Workers :
         /\ workers'[x].pc \in {"launched"} \cup Loaded =>
               workers'[x].template <= sub'.template
         /\ workers'[x].pc = "save" =>
               (workers'[x].rules <=> workers'[x].template \in readable')
  BY DEF RulesAreOfAttachedTemplates, Becomes
<1> QED
  BY <1>1, <1>2 DEF RulesAreOfAttachedTemplates

LEMMA SeenStep ==
    ASSUME TypeOK, SeenRulesStand,
           NEW w \in Workers, NEW r \in Worker, Becomes(w, r),
           sub'.template = sub.template, readable' = readable,
           sub'.manual = sub.manual, sub'.base = sub.base,
           \/ r.pc \notin Loaded
           \/ r.seen => sub.manual
           \/ workers[w].pc \in Loaded /\ r.seen = workers[w].seen
    PROVE  SeenRulesStand'
<1> SUFFICES ASSUME sub.template = 1, 1 \in readable,
                    NEW x \in Workers, workers'[x].pc \in Loaded, workers'[x].seen
             PROVE  sub.manual \/ sub.base = 1
  BY DEF SeenRulesStand
<1>1. \A y \in Workers : workers[y].pc \in Loaded /\ workers[y].seen =>
         sub.manual \/ sub.base = 1
  BY DEF SeenRulesStand
<1>2. CASE x # w
  BY <1>1, <1>2 DEF Becomes
<1>3. CASE x = w
  BY <1>1, <1>3 DEF Becomes
<1> QED
  BY <1>2, <1>3

LEMMA ArriveStep ==
    ASSUME TypeOK, ExtractedRulesArrive,
           NEW w \in Workers, NEW r \in Worker, Becomes(w, r),
           errors' = errors, crashes' = crashes,
           sub'.template = sub.template,
           sub'.manual = sub.manual, sub'.base = sub.base,
           analysis'[1] = "ready" => analysis[1] = "ready" \/ r.pc = "save",
           workers[w].pc # "save"
    PROVE  ExtractedRulesArrive'
<1> SUFFICES ASSUME errors = 0, crashes = 0, sub.template = 1, analysis'[1] = "ready",
                    ~sub.manual, sub.base # 1
             PROVE  \E x \in Workers : workers'[x].pc = "save"
  BY DEF ExtractedRulesArrive
<1>1. CASE r.pc = "save"
  BY <1>1 DEF Becomes
<1>2. CASE analysis[1] = "ready"
  BY <1>2 DEF ExtractedRulesArrive, Becomes
<1> QED
  BY <1>1, <1>2

\* Without a template no preparation is under way.
LEMMA NoTemplateNoWork ==
    ASSUME TypeOK, RulesAreOfAttachedTemplates, sub.template = 0
    PROVE  /\ \A w \in Workers : workers[w].pc \notin Loaded
           /\ \A t \in Templates : analysis[t] # "ready"
<1>1. \A w \in Workers : workers[w].template \in 1..MaxTemplates
  BY DEF TypeOK, Worker, Templates
<1>2. \A w \in Workers : workers[w].pc \in Loaded => workers[w].template <= 0
  BY DEF RulesAreOfAttachedTemplates
<1>3. \A t \in 1..MaxTemplates : ~(t <= 0)
  BY TemplatePreparationAssumption
<1>4. \A w \in Workers : ~(workers[w].template <= 0)
  BY <1>1, <1>3
<1>5. \A t \in Templates : analysis[t] = "ready" => t <= 0
  BY DEF RulesAreOfAttachedTemplates
<1> QED
  BY <1>2, <1>3, <1>4, <1>5 DEF Templates

LEMMA PreparationStep ==
    ASSUME TypeOK, PreparationInv, [Next]_vars
    PROVE  PreparationInv'
<1>1. RulesAreOfAttachedTemplates /\ SeenRulesStand /\ ExtractedRulesArrive
  BY DEF PreparationInv
<1>2. sub.base <= sub.template /\ 1 \in Templates
  BY IdleTyped DEF TypeOK
<1>3. ASSUME NEW kind \in {"attach", "edit", "submit"}, Open(kind)
      PROVE  PreparationInv'
  <2>1. /\ request'.kind = kind
        /\ request'.base = IF kind = "edit" THEN sub.base ELSE 0
        /\ UNCHANGED <<sub, analysis, readable, workers, errors, crashes>>
    BY <1>3 DEF Open
  <2>2. RulesAreOfAttachedTemplates'
    BY <1>1, <1>2, <2>1 DEF RulesAreOfAttachedTemplates
  <2> QED
    BY <1>1, <2>1, <2>2 DEF PreparationInv, SeenRulesStand, ExtractedRulesArrive
<1>4. CASE GiveUp
  <2>1. /\ request'.kind = "none"
        /\ UNCHANGED <<sub, analysis, readable, workers, errors, crashes>>
    BY <1>4 DEF GiveUp, NoRequest
  <2>2. RulesAreOfAttachedTemplates'
    BY <1>1, <2>1 DEF RulesAreOfAttachedTemplates
  <2> QED
    BY <1>1, <2>1, <2>2 DEF PreparationInv, SeenRulesStand, ExtractedRulesArrive
<1>5. CASE AttachTemplate
  <2> DEFINE t == sub.template + 1
  <2>1. /\ sub.template \in 0..MaxTemplates /\ t \in Templates /\ sub.template <= t
        /\ t = 1 => sub.template = 0
    BY <1>5, TemplatePreparationAssumption DEF AttachTemplate, TypeOK, Templates
  <2>2. sub'.template = t
    BY <1>5 DEF AttachTemplate, TypeOK
  <2>3. /\ UNCHANGED <<analysis, readable, errors>> /\ request'.kind = "none"
        /\ Launched(t, TRUE)
    BY <1>5 DEF AttachTemplate, NoRequest
  <2>4. \A w \in Workers :
           \/ workers'[w] = workers[w]
           \/ workers'[w].pc = "launched" /\ workers'[w].template = t
    BY <2>1, <2>3, LaunchFacts
  <2>5. \A x \in 1..MaxTemplates : x <= sub.template => x <= t
    BY <2>1, TemplatePreparationAssumption
  <2>6. \A w \in Workers : workers[w].template \in 1..MaxTemplates
    BY DEF TypeOK, Worker, Templates
  <2>7. t <= t
    BY <2>1 DEF Templates
  <2> HIDE DEF t
  <2>8. \A x \in Templates : analysis'[x] = "ready" => x \in readable' /\ x <= sub'.template
    BY <1>1, <2>2, <2>3, <2>5 DEF RulesAreOfAttachedTemplates, Templates
  <2>9. \A w \in Workers :
           /\ workers'[w].pc \in {"launched"} \cup Loaded =>
                 workers'[w].template <= sub'.template
           /\ workers'[w].pc = "save" =>
                 (workers'[w].rules <=> workers'[w].template \in readable')
    BY <1>1, <2>2, <2>3, <2>4, <2>5, <2>6, <2>7 DEF RulesAreOfAttachedTemplates, Loaded
  <2>10. RulesAreOfAttachedTemplates'
    BY <2>3, <2>8, <2>9 DEF RulesAreOfAttachedTemplates
  <2>11. sub'.template = 1 => /\ \A w \in Workers : workers'[w].pc \notin Loaded
                              /\ analysis'[1] # "ready"
    BY <1>1, <1>2, <2>1, <2>2, <2>3, <2>4, NoTemplateNoWork DEF Loaded
  <2> QED
    BY <2>10, <2>11 DEF PreparationInv, SeenRulesStand, ExtractedRulesArrive
<1>6. CASE EditRules
  <2>1. /\ sub'.template = sub.template /\ sub'.manual = TRUE
    BY <1>6 DEF EditRules, TypeOK
  <2>2. /\ request'.kind = "none"
        /\ UNCHANGED <<analysis, readable, workers, errors, crashes>>
    BY <1>6 DEF EditRules, NoRequest
  <2>3. RulesAreOfAttachedTemplates'
    BY <1>1, <2>1, <2>2 DEF RulesAreOfAttachedTemplates
  <2> QED
    BY <2>1, <2>3 DEF PreparationInv, SeenRulesStand, ExtractedRulesArrive
<1>7. CASE Submit \/ UploadVersion \/ ChecksEnd \/ RequestRevision
  <2>1. /\ sub'.template = sub.template /\ sub'.manual = sub.manual
        /\ sub'.base = sub.base
    BY <1>7 DEF Submit, UploadVersion, ChecksEnd, RequestRevision, TypeOK
  <2>2. /\ request' = request \/ request'.kind = "none"
        /\ UNCHANGED <<analysis, readable, workers, errors, crashes>>
    BY <1>7 DEF Submit, UploadVersion, ChecksEnd, RequestRevision, NoRequest
  <2>3. RulesAreOfAttachedTemplates'
    BY <1>1, <2>1, <2>2 DEF RulesAreOfAttachedTemplates
  <2> QED
    BY <1>1, <2>1, <2>2, <2>3 DEF PreparationInv, SeenRulesStand, ExtractedRulesArrive
<1>8. ASSUME NEW w \in Workers, PrepareInline(w)
      PROVE  PreparationInv'
  <2>1. PICK r \in Worker : /\ r.pc = "launched" /\ r.template = sub.template
                            /\ Becomes(w, r)
    BY <1>8, InlineFacts
  <2>2. /\ workers[w].pc = "idle" /\ r.pc \notin Loaded
        /\ UNCHANGED <<sub, analysis, readable, request, errors, crashes>>
    BY <1>8, <2>1, InlineFacts DEF Loaded
  <2>3. r.template <= sub.template
    BY <2>1, TemplatePreparationAssumption DEF TypeOK
  <2>4. RulesAreOfAttachedTemplates'
    BY <1>1, <2>1, <2>2, <2>3, RulesStep
  <2>5. SeenRulesStand'
    BY <1>1, <2>1, <2>2, SeenStep
  <2>6. ExtractedRulesArrive'
    BY <1>1, <2>1, <2>2, ArriveStep
  <2> QED
    BY <2>4, <2>5, <2>6 DEF PreparationInv
<1>9. ASSUME NEW w \in Workers, LoadSubmission(w)
      PROVE  PreparationInv'
  <2>1. PICK r \in Worker : /\ Becomes(w, r)
                            /\ \/ r.pc = "idle"
                               \/ /\ r.pc = "template" /\ r.template = workers[w].template
                                  /\ r.seen = sub.manual
    BY <1>9, LoadSubmissionFacts
  <2>2. /\ workers[w].pc = "launched"
        /\ UNCHANGED <<sub, analysis, readable, request, errors, crashes>>
    BY <1>9 DEF LoadSubmission
  <2>3. workers[w].template <= sub.template
    BY <1>1, <2>2 DEF RulesAreOfAttachedTemplates
  <2>4. RulesAreOfAttachedTemplates'
    BY <1>1, <2>1, <2>2, <2>3, RulesStep DEF Loaded
  <2>5. SeenRulesStand'
    BY <1>1, <2>1, <2>2, SeenStep DEF Loaded
  <2>6. ExtractedRulesArrive'
    BY <1>1, <2>1, <2>2, ArriveStep
  <2> QED
    BY <2>4, <2>5, <2>6 DEF PreparationInv
<1>10. ASSUME NEW w \in Workers, LoadTemplate(w)
       PROVE  PreparationInv'
  <2>1. /\ workers[w].pc = "template" /\ workers[w].template \in Templates
        /\ UNCHANGED <<sub, readable, request, errors, crashes>>
        /\ workers[w].template <= sub.template
    BY <1>1, <1>10, LoadTemplateFacts
       DEF LoadTemplate, RulesAreOfAttachedTemplates, Loaded
  <2>2. PICK r \in Worker :
           /\ Becomes(w, r)
           /\ r.template = workers[w].template /\ r.seen = workers[w].seen
           /\ \/ /\ analysis[workers[w].template] = "ready"
                 /\ r.pc = "save" /\ r.rules
                 /\ analysis' = analysis
              \/ /\ r.pc = "extract"
                 /\ analysis' = [analysis EXCEPT ![workers[w].template] = "processing"]
    BY <1>10, LoadTemplateFacts
  <2>3. /\ r.pc \in Loaded /\ workers[w].pc \in Loaded
        /\ r.pc = "save" => r.rules /\ workers[w].template \in readable
    BY <1>1, <2>1, <2>2 DEF RulesAreOfAttachedTemplates, Loaded
  <2>4. \A t \in Templates : analysis'[t] = "ready" => analysis[t] = "ready"
    BY <2>1, <2>2 DEF TypeOK
  <2>5. RulesAreOfAttachedTemplates'
    BY <1>1, <2>1, <2>2, <2>3, <2>4, RulesStep
  <2>6. SeenRulesStand'
    BY <1>1, <2>1, <2>2, <2>3, SeenStep
  <2>7. ExtractedRulesArrive'
    BY <1>1, <1>2, <2>1, <2>2, <2>4, ArriveStep
  <2> QED
    BY <2>5, <2>6, <2>7 DEF PreparationInv
<1>11. ASSUME NEW w \in Workers, ExtractRules(w)
       PROVE  PreparationInv'
  <2> DEFINE t == workers[w].template
  <2>1. /\ workers[w].pc = "extract" /\ t \in Templates
        /\ UNCHANGED <<sub, readable, request, errors, crashes>>
        /\ t <= sub.template
    BY <1>1, <1>11, ExtractFacts DEF ExtractRules, RulesAreOfAttachedTemplates, Loaded
  <2>2. PICK r \in Worker :
           /\ Becomes(w, r) /\ r.pc = "save" /\ r.seen = workers[w].seen
           /\ r.template = t
           /\ r.rules <=> t \in readable
    BY <1>11, ExtractFacts
  <2>3. \A x \in Templates : analysis'[x] = "ready" =>
           analysis[x] = "ready" \/ (x \in readable /\ x <= sub.template)
    <3>1. analysis' = [analysis EXCEPT ![t] = IF t \in readable THEN "ready" ELSE "failed"]
      BY <1>11, ExtractFacts
    <3> HIDE DEF t
    <3> QED
      BY <2>1, <3>1 DEF TypeOK
  <2>4. r.pc \in Loaded /\ workers[w].pc \in Loaded
    BY <2>1, <2>2 DEF Loaded
  <2> HIDE DEF t
  <2>5. RulesAreOfAttachedTemplates'
    BY <1>1, <2>1, <2>2, <2>3, RulesStep
  <2>6. SeenRulesStand'
    BY <1>1, <2>1, <2>2, <2>4, SeenStep
  <2>7. ExtractedRulesArrive'
    BY <1>1, <2>1, <2>2, ArriveStep
  <2> QED
    BY <2>5, <2>6, <2>7 DEF PreparationInv
<1>12. ASSUME NEW w \in Workers, SaveRules(w)
       PROVE  PreparationInv'
  <2>1. PICK r \in Worker : r.pc = "recheck" /\ Becomes(w, r)
    BY <1>1, <1>12, SaveFacts
  <2>2. /\ workers[w].pc = "save" /\ workers[w].pc \in Loaded /\ r.pc \notin Loaded
        /\ UNCHANGED <<analysis, readable, request, errors, crashes>>
    BY <1>12, <2>1 DEF SaveRules, Loaded
  <2>3. /\ sub'.template = sub.template
        /\ workers[w].seen => sub' = sub
        /\ ~workers[w].seen => sub'.base = SnapshotBase(w)
    <3>1. /\ workers[w].seen => sub' = sub
          /\ ~workers[w].seen =>
                sub' = [sub EXCEPT !.manual = FALSE, !.base = SnapshotBase(w)]
      BY <1>1, <1>12, SaveFacts
    <3>2. sub \in [status : Before \cup {"in_review", "revision_requested"},
                  version : Versions, template : 0..MaxTemplates,
                  manual : BOOLEAN, base : 0..MaxTemplates, waiting : BOOLEAN]
      BY DEF TypeOK
    <3> QED
      BY <3>1, <3>2
  <2>4. RulesAreOfAttachedTemplates'
    BY <1>1, <2>1, <2>2, <2>3, RulesStep DEF Loaded
  <2>5. sub.template = 1 /\ 1 \in readable => sub'.manual \/ sub'.base = 1
    <3> SUFFICES ASSUME sub.template = 1, 1 \in readable
                 PROVE  sub'.manual \/ sub'.base = 1
      OBVIOUS
    <3>1. CASE workers[w].seen
      BY <1>1, <2>2, <2>3, <3>1 DEF SeenRulesStand
    <3>2. CASE ~workers[w].seen
      <4>1. workers[w].template \in 1..MaxTemplates /\ workers[w].template <= 1
        BY <1>1, <2>2 DEF TypeOK, Worker, Templates, RulesAreOfAttachedTemplates
      <4>2. workers[w].template = 1
        BY <4>1, TemplatePreparationAssumption
      <4>3. workers[w].rules
        BY <1>1, <2>2, <4>2 DEF RulesAreOfAttachedTemplates
      <4> QED
        BY <2>3, <3>2, <4>2, <4>3 DEF SnapshotBase
    <3> QED
      BY <3>1, <3>2
  <2>6. SeenRulesStand'
    BY <2>2, <2>3, <2>5 DEF SeenRulesStand
  <2>7. ExtractedRulesArrive'
    BY <1>1, <1>2, <2>2, <2>3, <2>5
       DEF ExtractedRulesArrive, RulesAreOfAttachedTemplates
  <2> QED
    BY <2>4, <2>6, <2>7 DEF PreparationInv
<1>13. ASSUME NEW w \in Workers, Recheck(w) \/ QueueChecks(w) \/ Crash(w)
       PROVE  PreparationInv'
  <2>1. PICK r \in Worker : r.pc \in {"idle", "queue"} /\ Becomes(w, r)
    BY <1>13, RecheckFacts
  <2>2. /\ sub'.template = sub.template /\ sub'.manual = sub.manual
        /\ sub'.base = sub.base
    BY <1>13, RecheckFacts DEF TypeOK
  <2>3. /\ UNCHANGED <<analysis, readable, request, errors>>
        /\ workers[w].pc = "save" => crashes' # 0
        /\ crashes' = crashes \/ crashes' # 0
        /\ r.pc \notin Loaded \cup {"launched"}
    BY <1>13, <2>1, RecheckFacts DEF Loaded
  <2>4. RulesAreOfAttachedTemplates'
    BY <1>1, <2>1, <2>2, <2>3, RulesStep
  <2>5. SeenRulesStand'
    BY <1>1, <2>1, <2>2, <2>3, SeenStep
  <2>6. CASE crashes' = crashes /\ workers[w].pc # "save"
    BY <1>1, <2>1, <2>2, <2>3, <2>4, <2>5, <2>6, ArriveStep DEF PreparationInv
  <2>7. CASE crashes' # 0
    BY <2>4, <2>5, <2>7 DEF PreparationInv, ExtractedRulesArrive
  <2> QED
    BY <2>3, <2>6, <2>7
<1>14. ASSUME NEW w \in Workers, Fails(w)
       PROVE  PreparationInv'
  <2>1. PICK r \in Worker : r.pc = "recheck" /\ Becomes(w, r)
    BY <1>14, FailsFacts
  <2>2. /\ UNCHANGED <<sub, analysis, readable, request, crashes>>
        /\ errors' # 0 /\ r.pc \notin Loaded \cup {"launched"} /\ r.pc # "save"
    BY <1>14, <2>1, FailsFacts DEF Loaded
  <2>3. RulesAreOfAttachedTemplates'
    BY <1>1, <2>1, <2>2, RulesStep
  <2>4. SeenRulesStand'
    BY <1>1, <2>1, <2>2, SeenStep
  <2> QED
    BY <2>2, <2>3, <2>4 DEF PreparationInv, ExtractedRulesArrive
<1>15. CASE UNCHANGED vars
  BY <1>1, <1>15 DEF PreparationInv, RulesAreOfAttachedTemplates, SeenRulesStand,
                     ExtractedRulesArrive, vars
<1> QED
  BY <1>3, <1>4, <1>5, <1>6, <1>7, <1>8, <1>9, <1>10, <1>11, <1>12, <1>13, <1>14,
     <1>15 DEF Next, Work

\* In every execution the variables have their types and PreparationInv holds.
THEOREM PreparationIsSafe == Spec => [](TypeOK /\ PreparationInv)
<1>1. Init => TypeOK /\ PreparationInv
  BY TypeInit, PreparationInit
<1>2. TypeOK /\ PreparationInv /\ [Next]_vars => (TypeOK /\ PreparationInv)'
  BY TypeStep, PreparationStep DEF PreparationInv
<1> QED
  BY <1>1, <1>2, PTL DEF Spec

\* The submission, its templates, the preparations and the request of the author
\* always have their types, and the snapshot holds no rules of a later template.
THEOREM TypeCorrect == Spec => []TypeOK
BY PreparationIsSafe, PTL

\* When the preparations of the first template have ended, none of them failed
\* and it was read, its rules or the author's own are in the submission.
THEOREM RulesArrive == Spec => []SettledRulesAreExtracted
<1>1. PreparationInv => SettledRulesAreExtracted
  BY DEF PreparationInv, ExtractedRulesArrive, SettledRulesAreExtracted
<1> QED
  BY <1>1, PreparationIsSafe, PTL
=============================================================================
