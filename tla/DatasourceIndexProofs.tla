----------------------- MODULE DatasourceIndexProofs -----------------------
(***************************************************************************)
(* Theorems about DatasourceIndex: no build deletes a document that was in *)
(* the source all along, a run recorded as complete has left its entity    *)
(* indexed or queued, documents recorded as indexed have their chunks, and *)
(* nothing stale stays after a full build.                                 *)
(*                                                                         *)
(* The inductive invariant has three parts.  StoreInv is about the stores  *)
(* alone.  JobInv says what the page of a job and its scan so far mean for *)
(* documents that have not changed.  DataInv combines them: what the jobs, *)
(* the sweeps and the recorded runs have left in the stores.               *)
(***************************************************************************)
EXTENDS DatasourceIndex, TLAPS

Values == Contents \union {0}
DocStates == [content : Values, status : {"none", "indexed", "failed"}]
Pcs == {"none", "waiting", "paging", "fields", "enqueue", "tombstones", "failing", "over"}
Jobs == [pc : Pcs, left : SUBSET Docs, page : SUBSET Docs, found : [Docs -> Values],
         failed : BOOLEAN]
RequestType == [full : BOOLEAN, force : BOOLEAN, phase : Phases, entity : Entities \union {"any"}]
Statuses == {"none", "running", "failed", "complete"}
RunsType == [Entities -> [Phases -> Statuses]]

StoreType ==
    /\ records \in [Docs -> Values] /\ mirror \in [Docs -> Values] /\ queue \in [Docs -> Values]
    /\ chunks \in [Docs -> Values] /\ docs \in [Docs -> DocStates]

ControlType ==
    /\ source \in [Docs -> Values]
    /\ job \in [Entities -> Jobs] /\ req \in RequestType
    /\ dataRun \in RunsType /\ indexRun \in RunsType
    /\ op \in {"idle", "build", "sweep", "sweepData", "embed"}
    /\ err \in BOOLEAN /\ bad \in BOOLEAN
    /\ seen \subseteq Docs /\ todo \subseteq Docs /\ torn \subseteq Docs
    /\ kept \subseteq Docs /\ gone \subseteq Docs
    /\ began \in [Entities -> SUBSET Docs]
    /\ stable \in [Entities -> [Phases -> SUBSET Docs]]

Types == StoreType /\ ControlType

LEMMA Constants ==
    /\ EntityOf \in [Docs -> Entities] /\ "all" \in Phases
    /\ Phases \subseteq {"all", "fields", "semantic"}
    /\ Contents \subseteq Nat /\ 0 \notin Contents /\ 0 \in Values
    /\ \A c \in Contents : c # 0
    /\ \A r \in Requests : r \in RequestType
    /\ NoRequest \in RequestType /\ NotIndexed \in DocStates /\ NotIndexed.status = "none"
    /\ Absent \in [Docs -> Values] /\ \A d \in Docs : Absent[d] = 0
<1>1. /\ EntityOf \in [Docs -> Entities] /\ "all" \in Phases
      /\ Phases \subseteq {"all", "fields", "semantic"}
      /\ Contents \subseteq Nat /\ 0 \notin Contents /\ 0 \in Values
      /\ \A c \in Contents : c # 0
      /\ \A r \in Requests : r \in RequestType
  BY IndexAssumption DEF Values, RequestType
<1>2. NoRequest \in RequestType
  BY <1>1 DEF NoRequest, RequestType
<1>3. NotIndexed \in DocStates /\ NotIndexed.status = "none"
  BY <1>1 DEF NotIndexed, DocStates
<1>4. Absent \in [Docs -> Values] /\ \A d \in Docs : Absent[d] = 0
  BY <1>1 DEF Absent
<1> QED  BY <1>1, <1>2, <1>3, <1>4

(* What is written of a job.                                               *)
LEMMA NoJobIs ==
    /\ NoJob \in Jobs /\ NoJob.pc = "none" /\ NoJob.left = {} /\ NoJob.page = {}
    /\ NoJob.found = Absent /\ NoJob.failed = FALSE
  BY Constants DEF NoJob, Jobs, Pcs

LEMMA JobIs ==
    ASSUME ControlType, NEW e \in Entities
    PROVE  /\ job[e] \in Jobs /\ job[e].pc \in Pcs /\ job[e].left \subseteq Docs
           /\ job[e].page \subseteq Docs /\ job[e].found \in [Docs -> Values]
           /\ job[e].failed \in BOOLEAN
<1>1. job[e] \in Jobs
  BY DEF ControlType
<1> QED  BY <1>1 DEF Jobs

(* A job whose control moves on.                                           *)
LEMMA JobStepIs ==
    ASSUME ControlType, NEW e \in Entities, NEW from \in Pcs, NEW to \in Pcs, JobStep(e, from, to)
    PROVE  /\ op = "build" /\ job[e].pc = from /\ job' \in [Entities -> Jobs]
           /\ \A f \in Entities : f # e => job'[f] = job[f]
           /\ job'[e].pc = to /\ job'[e].left = job[e].left /\ job'[e].page = job[e].page
           /\ job'[e].found = job[e].found /\ job'[e].failed = job[e].failed
<1>1. job[e] \in Jobs
  BY DEF ControlType
<1>2. PICK j : j = [job[e] EXCEPT !.pc = to]
  OBVIOUS
<1>3. /\ j \in Jobs /\ j.pc = to /\ j.left = job[e].left /\ j.page = job[e].page
      /\ j.found = job[e].found /\ j.failed = job[e].failed
  BY <1>1, <1>2 DEF Jobs
<1>4. op = "build" /\ job[e].pc = from /\ job' = [job EXCEPT ![e] = j]
  BY <1>2 DEF JobStep, UpdateJob
<1> QED  BY <1>3, <1>4 DEF ControlType

(* A job that is replaced.                                                 *)
LEMMA UpdateJobIs ==
    ASSUME ControlType, NEW e \in Entities, NEW j \in Jobs, UpdateJob(e, j)
    PROVE  /\ job' \in [Entities -> Jobs] /\ job'[e] = j
           /\ \A f \in Entities : f # e => job'[f] = job[f]
  BY DEF UpdateJob, ControlType

LEMMA PresentIs ==
    ASSUME ControlType, NEW e \in Entities
    PROVE  /\ Present(e) \subseteq job[e].page /\ Present(e) \subseteq Docs
           /\ \A d \in Docs : d \in Present(e) <=> d \in job[e].page /\ job[e].found[d] # 0
           /\ \A d \in Present(e) : job[e].found[d] \in Contents /\ job[e].found[d] # 0
<1>1. job[e].page \subseteq Docs /\ job[e].found \in [Docs -> Values]
  BY JobIs
<1> QED  BY <1>1 DEF Present, Values

(* What the four actions that replace a job make of it.                    *)
LEMMA FetchPageIs ==
    ASSUME ControlType, NEW e \in Entities, NEW P \in SUBSET job[e].left, FetchPage(e, P)
    PROVE  /\ op = "build" /\ job[e].pc = "paging" /\ job' \in [Entities -> Jobs]
           /\ \A f \in Entities : f # e => job'[f] = job[f]
           /\ job'[e].pc = "fields" /\ job'[e].left = job[e].left \ P
           /\ job'[e].page \subseteq P /\ \A d \in P : source[d] # 0 => d \in job'[e].page
           /\ \A d \in Docs : job'[e].found[d] = IF d \in P THEN source[d] ELSE 0
           /\ job'[e].failed = job[e].failed
           /\ seen' = seen \union {d \in P : source[d] # 0}
<1>1. PICK T \in SUBSET {d \in P : source[d] = 0} :
         UpdateJob(e, [job[e] EXCEPT !.pc = "fields", !.left = @ \ P,
                         !.page = {d \in P : source[d] # 0} \cup T,
                         !.found = [d \in Docs |-> IF d \in P THEN source[d] ELSE 0]])
  BY DEF FetchPage
<1>2. PICK j : j = [job[e] EXCEPT !.pc = "fields", !.left = @ \ P,
                      !.page = {d \in P : source[d] # 0} \cup T,
                      !.found = [d \in Docs |-> IF d \in P THEN source[d] ELSE 0]]
  OBVIOUS
<1>3. PICK g \in [Docs -> Values] : g = [d \in Docs |-> IF d \in P THEN source[d] ELSE 0]
  BY Constants DEF ControlType
<1>4. job[e] \in Jobs /\ P \subseteq Docs
  BY JobIs
<1>5. /\ j \in Jobs /\ j.pc = "fields" /\ j.left = job[e].left \ P
      /\ j.page = {d \in P : source[d] # 0} \cup T /\ j.found = g /\ j.failed = job[e].failed
  BY <1>2, <1>3, <1>4 DEF Jobs, Pcs
<1>6. job' \in [Entities -> Jobs] /\ job'[e] = j /\ \A f \in Entities : f # e => job'[f] = job[f]
  BY <1>1, <1>2, <1>5, UpdateJobIs
<1>7. op = "build" /\ job[e].pc = "paging" /\ seen' = seen \union {d \in P : source[d] # 0}
  BY DEF FetchPage
<1> QED  BY <1>3, <1>5, <1>6, <1>7

(* A job that moves on, with the documents D of its page dealt with.       *)
Narrowed(e, to, D, fails) ==
    /\ job' \in [Entities -> Jobs] /\ \A f \in Entities : f # e => job'[f] = job[f]
    /\ job'[e].pc = to /\ job'[e].left = job[e].left /\ job'[e].page = job[e].page \ D
    /\ \A d \in Docs : job'[e].found[d] = IF d \in D THEN 0 ELSE job[e].found[d]
    /\ job'[e].failed = (job[e].failed \/ fails)

LEMMA JobStepNarrows ==
    ASSUME ControlType, NEW e \in Entities, NEW from \in Pcs, NEW to \in Pcs, JobStep(e, from, to)
    PROVE  Narrowed(e, to, {}, FALSE) /\ op = "build" /\ job[e].pc = from
<1>1. job[e].page \subseteq Docs /\ job[e].failed \in BOOLEAN
  BY JobIs
<1> QED  BY <1>1, JobStepIs DEF Narrowed

LEMMA DropNarrows ==
    ASSUME ControlType, NEW e \in Entities, NEW D \in SUBSET Docs, UpdateJob(e, Drop(e, D))
    PROVE  Narrowed(e, "enqueue", D, TRUE)
<1>1. job[e] \in Jobs /\ job[e].found \in [Docs -> Values] /\ job[e].page \subseteq Docs
  BY JobIs
<1>2. PICK j : j = Drop(e, D)
  OBVIOUS
<1>3. PICK g \in [Docs -> Values] : g = [d \in Docs |-> IF d \in D THEN 0 ELSE job[e].found[d]]
  BY <1>1, Constants
<1>4. /\ j \in Jobs /\ j.pc = "enqueue" /\ j.left = job[e].left /\ j.page = job[e].page \ D
      /\ j.found = g /\ j.failed = TRUE
  BY <1>1, <1>2, <1>3 DEF Drop, Jobs, Pcs
<1>5. job' \in [Entities -> Jobs] /\ job'[e] = j /\ \A f \in Entities : f # e => job'[f] = job[f]
  BY <1>2, <1>4, UpdateJobIs
<1> QED  BY <1>3, <1>4, <1>5 DEF Narrowed

LEMMA HandledNarrows ==
    ASSUME ControlType, NEW e \in Entities, NEW D \in SUBSET Docs, NEW fails \in BOOLEAN,
           Handled(e, D, fails)
    PROVE  Narrowed(e, IF job[e].page = D THEN "paging" ELSE "tombstones", D, fails)
<1>1. /\ job[e] \in Jobs /\ job[e].found \in [Docs -> Values] /\ job[e].page \subseteq Docs
      /\ job[e].failed \in BOOLEAN
  BY JobIs
<1>2. PICK g \in [Docs -> Values] : g = [d \in Docs |-> IF d \in D THEN 0 ELSE job[e].found[d]]
  BY <1>1, Constants
<1>3. PICK pc \in Pcs : pc = IF job[e].page = D THEN "paging" ELSE "tombstones"
  BY DEF Pcs
<1>4. PICK b \in BOOLEAN : b = (job[e].failed \/ fails)
  BY <1>1
<1>5. PICK j : j = [job[e] EXCEPT !.page = @ \ D, !.failed = b, !.found = g, !.pc = pc]
  OBVIOUS
<1>6. /\ j \in Jobs /\ j.pc = pc /\ j.left = job[e].left /\ j.page = job[e].page \ D
      /\ j.found = g /\ j.failed = b
  BY <1>1, <1>5 DEF Jobs
<1>7. UpdateJob(e, j)
  BY <1>2, <1>3, <1>4, <1>5 DEF Handled
<1>8. job' \in [Entities -> Jobs] /\ job'[e] = j /\ \A f \in Entities : f # e => job'[f] = job[f]
  BY <1>6, <1>7, UpdateJobIs
<1> QED  BY <1>2, <1>3, <1>4, <1>6, <1>8 DEF Narrowed

(* A job that is over.                                                     *)
LEMMA FinishIs ==
    ASSUME ControlType, NEW e \in Entities, NEW fails \in BOOLEAN, finishRun(e, fails)
    PROVE  /\ job' \in [Entities -> Jobs] /\ \A f \in Entities : f # e => job'[f] = job[f]
           /\ job'[e].pc = "over" /\ job'[e].left = {} /\ job'[e].page = {}
           /\ \A d \in Docs : job'[e].found[d] = 0
           /\ dataRun' \in RunsType /\ indexRun' \in RunsType
           /\ stable' \in [Entities -> [Phases -> SUBSET Docs]]
           /\ \A f \in Entities : \A p \in Phases :
                 \/ dataRun'[f][p] = dataRun[f][p] /\ stable'[f][p] = stable[f][p]
                 \/ dataRun'[f][p] # "complete" /\ stable'[f][p] = stable[f][p]
                 \/ /\ f = e /\ p = req.phase /\ ~fails /\ ~job[e].failed
                    /\ stable'[f][p] = began[e]
<1>1. PICK j : j = [NoJob EXCEPT !.pc = "over"]
  OBVIOUS
<1>2. j \in Jobs /\ j.pc = "over" /\ j.left = {} /\ j.page = {} /\ j.found = Absent
  BY <1>1, NoJobIs DEF Jobs, Pcs
<1>3. job' \in [Entities -> Jobs] /\ job'[e] = j /\ \A f \in Entities : f # e => job'[f] = job[f]
  BY <1>1, <1>2, UpdateJobIs DEF finishRun
<1>4. PICK s : s = IF fails \/ job[e].failed THEN "failed" ELSE "complete"
  OBVIOUS
<1>5. PICK data \in BOOLEAN, index \in BOOLEAN :
         /\ PutRuns(e, s, data, index)
         /\ stable' = IF data /\ s = "complete"
                        THEN [stable EXCEPT ![e][req.phase] = began[e]] ELSE stable
  BY <1>4 DEF finishRun
<1>6. s \in Statuses /\ req.phase \in Phases /\ began[e] \in SUBSET Docs
  BY <1>4 DEF Statuses, ControlType, RequestType
<1>7. dataRun' \in RunsType /\ indexRun' \in RunsType
  BY <1>5, <1>6 DEF PutRuns, RunsType, ControlType
<1>8. stable' \in [Entities -> [Phases -> SUBSET Docs]]
  BY <1>5, <1>6 DEF ControlType
<1>9. ASSUME NEW f \in Entities, NEW p \in Phases
      PROVE  \/ dataRun'[f][p] = dataRun[f][p] /\ stable'[f][p] = stable[f][p]
             \/ dataRun'[f][p] # "complete" /\ stable'[f][p] = stable[f][p]
             \/ /\ f = e /\ p = req.phase /\ ~fails /\ ~job[e].failed
                /\ stable'[f][p] = began[e]
  <2>1. CASE ~data
    BY <2>1, <1>5 DEF PutRuns
  <2>2. CASE data /\ (f # e \/ p # req.phase)
    BY <2>2, <1>5, <1>6 DEF PutRuns, ControlType, RunsType
  <2>3. CASE data /\ f = e /\ p = req.phase /\ s = "complete"
    BY <2>3, <1>4, <1>5, <1>6 DEF PutRuns, ControlType, RunsType
  <2>4. CASE data /\ f = e /\ p = req.phase /\ s # "complete"
    BY <2>4, <1>4, <1>5, <1>6 DEF PutRuns, ControlType, RunsType
  <2> QED  BY <2>1, <2>2, <2>3, <2>4
<1> QED  BY <1>2, <1>3, <1>7, <1>8, <1>9, Constants

(* The jobs of a build that begins, and of one that has returned.          *)
LEMMA BeginIs ==
    ASSUME ControlType, NEW r \in RequestType, Begin(r)
    PROVE  /\ job' \in [Entities -> Jobs]
           /\ \A e \in Entities :
                 /\ job'[e].page = {} /\ \A d \in Docs : job'[e].found[d] = 0
                 /\ \/ job'[e].pc = "waiting" /\ job'[e].left = Of(e)
                    \/ job'[e].pc = "none" /\ job'[e].left = {} /\ ~collected(e)'
<1>1. ASSUME NEW L \in SUBSET Docs
      PROVE  LET j == [NoJob EXCEPT !.pc = "waiting", !.left = L] IN
             /\ j \in Jobs /\ j.pc = "waiting" /\ j.left = L /\ j.page = {} /\ j.found = Absent
  BY NoJobIs DEF Jobs, Pcs
<1>2. \A e \in Entities : Of(e) \subseteq Docs
  BY DEF Of
<1>3. job' = [e \in Entities |->
                IF collected(e)' THEN [NoJob EXCEPT !.pc = "waiting", !.left = Of(e)] ELSE NoJob]
  BY DEF Begin
<1>4. ASSUME NEW e \in Entities
      PROVE  /\ job'[e] \in Jobs /\ job'[e].page = {} /\ \A d \in Docs : job'[e].found[d] = 0
             /\ \/ job'[e].pc = "waiting" /\ job'[e].left = Of(e)
                \/ job'[e].pc = "none" /\ job'[e].left = {} /\ ~collected(e)'
  <2>1. CASE collected(e)'
    <3>1. PICK L \in SUBSET Docs : L = Of(e)
      BY <1>2
    <3>2. job'[e] = [NoJob EXCEPT !.pc = "waiting", !.left = L]
      BY <2>1, <1>3, <3>1
    <3>3. /\ job'[e] \in Jobs /\ job'[e].pc = "waiting" /\ job'[e].left = L
          /\ job'[e].page = {} /\ job'[e].found = Absent
      BY <3>2, <1>1
    <3> QED  BY <3>1, <3>3, Constants
  <2>2. CASE ~collected(e)'
    <3>1. job'[e] = NoJob
      BY <2>2, <1>3
    <3> QED  BY <2>2, <3>1, NoJobIs, Constants
  <2> QED  BY <2>1, <2>2
<1>5. job' \in [Entities -> Jobs]
  <2>1. \A e \in Entities : job'[e] \in Jobs
    BY <1>4
  <2> QED  BY <1>3, <2>1
<1> QED  BY <1>4, <1>5

LEMMA NoJobsIs ==
    ASSUME job' = [e \in Entities |-> NoJob]
    PROVE  /\ job' \in [Entities -> Jobs]
           /\ \A e \in Entities :
                 /\ job'[e].page = {} /\ \A d \in Docs : job'[e].found[d] = 0
                 /\ job'[e].pc = "none" /\ job'[e].left = {}
  BY NoJobIs, Constants

(* What the calls that write several stores make of a document: the rest   *)
(* of the stores stays as it is.                                           *)
Others(d) ==
    \A x \in Docs : x # d =>
        /\ mirror'[x] = mirror[x] /\ queue'[x] = queue[x] /\ docs'[x] = docs[x]
        /\ chunks'[x] = chunks[x] /\ (x \in torn' <=> x \in torn)

LEMMA DeleteIs ==
    ASSUME StoreType, torn \subseteq Docs, NEW d \in Docs, NEW k \in 0 .. 4, Delete(d, k)
    PROVE  /\ mirror' \in [Docs -> Values] /\ queue' \in [Docs -> Values]
           /\ chunks' \in [Docs -> Values] /\ docs' \in [Docs -> DocStates] /\ torn' \subseteq Docs
           /\ Others(d)
           /\ k = 0 => /\ mirror' = mirror /\ queue' = queue /\ docs' = docs /\ chunks' = chunks
                       /\ torn' = torn
           /\ k > 0 => chunks'[d] = 0 /\ (d \notin torn' => docs'[d].status = "none")
           /\ k = 4 => /\ mirror'[d] = 0 /\ queue'[d] = 0 /\ docs'[d].status = "none"
           /\ mirror'[d] \in {mirror[d], 0} /\ queue'[d] \in {queue[d], 0}
           /\ docs'[d].status \in {docs[d].status, "none"}
<1>1. /\ mirror' \in [Docs -> Values] /\ queue' \in [Docs -> Values]
      /\ chunks' \in [Docs -> Values] /\ docs' \in [Docs -> DocStates] /\ torn' \subseteq Docs
  BY Constants DEF Delete, StoreType
<1>2. Others(d)
  <2> SUFFICES ASSUME NEW x \in Docs, x # d
               PROVE  /\ mirror'[x] = mirror[x] /\ queue'[x] = queue[x] /\ docs'[x] = docs[x]
                      /\ chunks'[x] = chunks[x] /\ (x \in torn' <=> x \in torn)
    BY DEF Others
  <2>1. chunks'[x] = chunks[x] /\ docs'[x] = docs[x]
    BY DEF Delete, StoreType
  <2>2. mirror'[x] = mirror[x] /\ queue'[x] = queue[x]
    BY DEF Delete, StoreType
  <2>3. x \in torn' <=> x \in torn
    BY DEF Delete
  <2> QED  BY <2>1, <2>2, <2>3
<1>3. k = 0 => /\ mirror' = mirror /\ queue' = queue /\ docs' = docs /\ chunks' = chunks
               /\ torn' = torn
  BY DEF Delete
<1>4. k > 0 => chunks'[d] = 0 /\ (d \notin torn' => docs'[d].status = "none")
  <2> SUFFICES ASSUME k > 0
               PROVE  chunks'[d] = 0 /\ (d \notin torn' => docs'[d].status = "none")
    OBVIOUS
  <2>1. chunks'[d] = 0
    BY DEF Delete, StoreType
  <2>2. d \notin torn' => k > 1
    BY DEF Delete
  <2>3. k > 1 => docs'[d] = NotIndexed
    BY DEF Delete, StoreType
  <2> QED  BY <2>1, <2>2, <2>3, Constants
<1>5. k = 4 => mirror'[d] = 0 /\ queue'[d] = 0 /\ docs'[d].status = "none"
  BY Constants DEF Delete, StoreType
<1>6. mirror'[d] \in {mirror[d], 0} /\ queue'[d] \in {queue[d], 0}
  BY DEF Delete, StoreType
<1>7. docs'[d].status \in {docs[d].status, "none"}
  BY Constants DEF Delete, StoreType
<1> QED  BY <1>1, <1>2, <1>3, <1>4, <1>5, <1>6, <1>7

LEMMA UpdateIs ==
    ASSUME StoreType, torn \subseteq Docs, NEW d \in Docs, NEW k \in 0 .. 3, Update(d, k)
    PROVE  /\ chunks' \in [Docs -> Values] /\ docs' \in [Docs -> DocStates] /\ torn' \subseteq Docs
           /\ \A x \in Docs : x # d => /\ docs'[x] = docs[x] /\ chunks'[x] = chunks[x]
                                       /\ (x \in torn' <=> x \in torn)
           /\ k < 3 => docs' = docs /\ torn' = torn
           /\ k = 3 => chunks'[d] = queue[d] /\ docs'[d].status = "indexed"
                       /\ docs'[d] = [content |-> queue[d], status |-> "indexed"]
                       /\ docs'[d].content = queue[d]
           /\ k \in {1, 2} => chunks'[d] \in {queue[d], 0}
           /\ k = 0 => chunks' = chunks
<1>1. PICK s : s = [content |-> queue[d], status |-> "indexed"]
  OBVIOUS
<1>2. queue[d] \in Values
  BY DEF StoreType
<1>3. s \in DocStates /\ s.status = "indexed" /\ s.content = queue[d]
  BY <1>1, <1>2 DEF DocStates
<1>4. docs' = IF k = 3 THEN [docs EXCEPT ![d] = s] ELSE docs
  BY <1>1 DEF Update
<1>5. chunks' = CASE k = 0 -> chunks [] k = 1 -> [chunks EXCEPT ![d] = 0]
                  [] k \in {2, 3} -> [chunks EXCEPT ![d] = queue[d]]
  BY DEF Update
<1>6. torn' = IF k = 3 THEN torn \ {d} ELSE torn
  BY DEF Update
<1>7. \/ k = 0 /\ chunks' = chunks
      \/ k = 1 /\ chunks' = [chunks EXCEPT ![d] = 0]
      \/ k \in {2, 3} /\ chunks' = [chunks EXCEPT ![d] = queue[d]]
  BY <1>5
<1>8. chunks' \in [Docs -> Values] /\ docs' \in [Docs -> DocStates] /\ torn' \subseteq Docs
  BY <1>2, <1>3, <1>4, <1>6, <1>7, Constants DEF StoreType
<1>9. ASSUME NEW x \in Docs, x # d
      PROVE  docs'[x] = docs[x] /\ chunks'[x] = chunks[x] /\ (x \in torn' <=> x \in torn)
  BY <1>9, <1>4, <1>6, <1>7 DEF StoreType
<1>10. k < 3 => docs' = docs /\ torn' = torn
  BY <1>4, <1>6
<1>11. k = 3 => chunks'[d] = queue[d] /\ docs'[d] = s
  BY <1>4, <1>7 DEF StoreType
<1>12. k \in {1, 2} => chunks'[d] \in {queue[d], 0}
  BY <1>7 DEF StoreType
<1>13. k = 0 => chunks' = chunks
  BY <1>7
<1> QED  BY <1>1, <1>3, <1>8, <1>9, <1>10, <1>11, <1>12, <1>13

LEMMA StoredIs ==
    ASSUME ControlType, NEW e \in Entities, NEW s \in [Docs -> Values], NEW D \in SUBSET Docs
    PROVE  /\ Stored(s, e, D) \in [Docs -> Values]
           /\ \A d \in Docs : Stored(s, e, D)[d] = IF d \in D THEN job[e].found[d] ELSE s[d]
<1>1. job[e].found \in [Docs -> Values]
  BY JobIs
<1> QED  BY <1>1 DEF Stored

LEMMA EnqueueIs ==
    ASSUME Types, NEW e \in Entities, NEW D \in SUBSET Docs, Enqueue(e, D)
    PROVE  /\ queue' \in [Docs -> Values]
           /\ \A d \in Docs : d \notin D => queue'[d] = queue[d]
           /\ \A d \in D : \/ queue'[d] = job[e].found[d] /\ ~Indexed(d, job[e].found[d])
                           \/ queue'[d] = 0 /\ Indexed(d, job[e].found[d])
           /\ torn' = torn \cup {d \in D : Reverted(d, job[e].found[d])}
<1>1. job[e].found \in [Docs -> Values] /\ queue \in [Docs -> Values]
  BY JobIs DEF Types, StoreType
<1> QED  BY <1>1, Constants DEF Enqueue

(* What the writing steps of a job make of the stores.                     *)
LEMMA FieldsIs ==
    ASSUME Types, NEW e \in Entities, buildPageFields(e)
    PROVE  /\ Narrowed(e, "enqueue", {}, FALSE) /\ op = "build" /\ job[e].pc = "fields"
           /\ records' \in [Docs -> Values] /\ mirror' \in [Docs -> Values]
           /\ \A d \in Docs : d \notin Present(e) =>
                 records'[d] = records[d] /\ mirror'[d] = mirror[d]
           /\ \A d \in Present(e) :
                 records'[d] = job[e].found[d] /\ mirror'[d] = job[e].found[d]
<1>1. Narrowed(e, "enqueue", {}, FALSE) /\ op = "build" /\ job[e].pc = "fields"
  BY JobStepNarrows DEF buildPageFields, Types, Pcs
<1>2. PICK D \in SUBSET Docs : D = Present(e)
  BY PresentIs DEF Types
<1>3. records' = Stored(records, e, D) /\ mirror' = Stored(mirror, e, D)
  BY <1>2 DEF buildPageFields
<1>4. records \in [Docs -> Values] /\ mirror \in [Docs -> Values] /\ ControlType
  BY DEF Types, StoreType
<1>5. /\ records' \in [Docs -> Values]
      /\ \A d \in Docs : records'[d] = IF d \in D THEN job[e].found[d] ELSE records[d]
  BY <1>3, <1>4, StoredIs
<1>6. /\ mirror' \in [Docs -> Values]
      /\ \A d \in Docs : mirror'[d] = IF d \in D THEN job[e].found[d] ELSE mirror[d]
  BY <1>3, <1>4, StoredIs
<1> QED  BY <1>1, <1>2, <1>5, <1>6

LEMMA FieldsFailIs ==
    ASSUME Types, NEW e \in Entities, FieldsFail(e)
    PROVE  /\ op = "build" /\ job[e].pc = "fields"
           /\ \E D \in SUBSET Present(e) : Narrowed(e, "enqueue", D, TRUE)
           /\ records' \in [Docs -> Values] /\ mirror' \in [Docs -> Values]
           /\ \A d \in Docs : d \notin Present(e) =>
                 records'[d] = records[d] /\ mirror'[d] = mirror[d]
           /\ \A d \in Present(e) : /\ records'[d] \in {job[e].found[d], records[d]}
                                    /\ mirror'[d] \in {job[e].found[d], mirror[d]}
<1>1. op = "build" /\ job[e].pc = "fields"
  BY DEF FieldsFail
<1>2. ControlType /\ Present(e) \in SUBSET Docs /\ \A D \in SUBSET Present(e) : D \in SUBSET Docs
  BY PresentIs DEF Types
<1>3. records \in [Docs -> Values] /\ mirror \in [Docs -> Values]
  BY DEF Types, StoreType
<1>4. CASE UNCHANGED <<records, mirror>> /\ UpdateJob(e, Drop(e, Present(e)))
  <2>1. Narrowed(e, "enqueue", Present(e), TRUE)
    BY <1>2, <1>4, DropNarrows
  <2> QED  BY <1>1, <1>3, <1>4, <2>1
<1>5. CASE /\ records' = Stored(records, e, Present(e))
           /\ \E D \in SUBSET Present(e) \ {{}} :
                 mirror' = Stored(mirror, e, Present(e) \ D) /\ UpdateJob(e, Drop(e, D))
  <2>1. PICK D \in SUBSET Present(e) :
           mirror' = Stored(mirror, e, Present(e) \ D) /\ UpdateJob(e, Drop(e, D))
    BY <1>5
  <2>2. Narrowed(e, "enqueue", D, TRUE)
    BY <1>2, <2>1, DropNarrows
  <2>3. /\ records' \in [Docs -> Values]
        /\ \A d \in Docs : records'[d] = IF d \in Present(e) THEN job[e].found[d] ELSE records[d]
    BY <1>2, <1>3, <1>5, StoredIs
  <2>4. PICK G \in SUBSET Docs : G = Present(e) \ D
    BY <1>2
  <2>5. /\ mirror' \in [Docs -> Values]
        /\ \A d \in Docs : mirror'[d] = IF d \in G THEN job[e].found[d] ELSE mirror[d]
    BY <1>2, <1>3, <2>1, <2>4, StoredIs
  <2> QED  BY <1>1, <1>2, <2>2, <2>3, <2>4, <2>5
<1> QED  BY <1>4, <1>5 DEF FieldsFail

LEMMA EnqueuePageIs ==
    ASSUME Types, NEW e \in Entities, EnqueuePage(e)
    PROVE  /\ op = "build" /\ job[e].pc = "enqueue" /\ queue' \in [Docs -> Values]
           /\ \E fails \in BOOLEAN :
                 /\ Narrowed(e, IF job[e].page = Present(e) THEN "paging" ELSE "tombstones",
                             Present(e), fails)
                 /\ \A d \in Docs : d \notin Present(e) => queue'[d] = queue[d]
                 /\ \A d \in Present(e) :
                       \/ queue'[d] = queue[d] /\ (fails \/ ~enqueueSemantic(e))
                       \/ queue'[d] = job[e].found[d]
                       \/ queue'[d] = 0 /\ Indexed(d, job[e].found[d])
<1>1. op = "build" /\ job[e].pc = "enqueue"
  BY DEF EnqueuePage
<1>2. ControlType /\ Present(e) \in SUBSET Docs /\ queue \in [Docs -> Values]
  BY PresentIs DEF Types, StoreType
<1>3. ASSUME NEW fails \in BOOLEAN, Handled(e, Present(e), fails)
      PROVE  Narrowed(e, IF job[e].page = Present(e) THEN "paging" ELSE "tombstones",
                      Present(e), fails)
  BY <1>2, <1>3, HandledNarrows
<1>4. CASE ~enqueueSemantic(e) /\ UNCHANGED <<queue, torn, bounds>> /\ Handled(e, Present(e), FALSE)
  <2>1. queue' = queue /\ ~enqueueSemantic(e)
    BY <1>4
  <2>2. Narrowed(e, IF job[e].page = Present(e) THEN "paging" ELSE "tombstones",
                 Present(e), FALSE)
    BY <1>3, <1>4
  <2> QED  BY <1>1, <1>2, <2>1, <2>2
<1>5. CASE enqueueSemantic(e) /\ Enqueue(e, Present(e)) /\ Handled(e, Present(e), FALSE)
  <2>1. Narrowed(e, IF job[e].page = Present(e) THEN "paging" ELSE "tombstones",
                 Present(e), FALSE)
    BY <1>3, <1>5
  <2>2. /\ queue' \in [Docs -> Values]
        /\ \A d \in Docs : d \notin Present(e) => queue'[d] = queue[d]
        /\ \A d \in Present(e) : \/ queue'[d] = job[e].found[d]
                                 \/ queue'[d] = 0 /\ Indexed(d, job[e].found[d])
    BY <1>2, <1>5, EnqueueIs
  <2> QED  BY <1>1, <2>1, <2>2
<1>6. CASE /\ \E F \in SUBSET Present(e) \ {{}} : Enqueue(e, Present(e) \ F)
           /\ Handled(e, Present(e), TRUE)
  <2>1. Narrowed(e, IF job[e].page = Present(e) THEN "paging" ELSE "tombstones",
                 Present(e), TRUE)
    BY <1>3, <1>6
  <2>2. PICK F \in SUBSET Present(e) : Enqueue(e, Present(e) \ F)
    BY <1>6
  <2>3. PICK G \in SUBSET Docs : G = Present(e) \ F
    BY <1>2
  <2>4. /\ queue' \in [Docs -> Values]
        /\ \A d \in Docs : d \notin G => queue'[d] = queue[d]
        /\ \A d \in G : \/ queue'[d] = job[e].found[d]
                        \/ queue'[d] = 0 /\ Indexed(d, job[e].found[d])
    BY <2>2, <2>3, EnqueueIs
  <2> QED  BY <1>1, <1>2, <2>1, <2>3, <2>4
<1> QED  BY <1>4, <1>5, <1>6 DEF EnqueuePage

LEMMA TombstoneIs ==
    ASSUME Types, NEW e \in Entities, NEW d \in Docs, Tombstone(e, d)
    PROVE  /\ op = "build" /\ job[e].pc = "tombstones" /\ d \in job[e].page
           /\ \E fails \in BOOLEAN :
                 Narrowed(e, IF job[e].page = {d} THEN "paging" ELSE "tombstones", {d}, fails)
           /\ \/ UNCHANGED <<records, mirror, queue, docs, chunks, torn>>
              \/ records' = [records EXCEPT ![d] = 0] /\ \E k \in 0 .. 4 : Delete(d, k)
<1>1. op = "build" /\ job[e].pc = "tombstones" /\ d \in job[e].page
  BY DEF Tombstone
<1>2. ControlType /\ {d} \in SUBSET Docs
  BY DEF Types
<1>3. ASSUME NEW fails \in BOOLEAN, Handled(e, {d}, fails)
      PROVE  Narrowed(e, IF job[e].page = {d} THEN "paging" ELSE "tombstones", {d}, fails)
  BY <1>2, <1>3, HandledNarrows
<1>4. CASE UNCHANGED <<stores, torn>> /\ Handled(e, {d}, TRUE)
  BY <1>1, <1>3, <1>4 DEF stores
<1>5. CASE /\ records' = [records EXCEPT ![d] = 0]
           /\ \E k \in 0 .. 4 : Delete(d, k) /\ Handled(e, {d}, k < 4)
  <2>1. PICK k \in 0 .. 4 : Delete(d, k) /\ Handled(e, {d}, k < 4)
    BY <1>5
  <2>2. (k < 4) \in BOOLEAN
    OBVIOUS
  <2>3. Narrowed(e, IF job[e].page = {d} THEN "paging" ELSE "tombstones", {d}, k < 4)
    BY <1>3, <2>1, <2>2
  <2> QED  BY <1>1, <1>5, <2>1, <2>2, <2>3
<1> QED  BY <1>4, <1>5 DEF Tombstone

-----------------------------------------------------------------------------
(* Types.                                                                  *)

LEMMA ForgetIs ==
    ASSUME ControlType, NEW d \in Docs, Forget(d)
    PROVE  /\ stable' \in [Entities -> [Phases -> SUBSET Docs]]
           /\ \A e \in Entities : \A p \in Phases :
                 /\ stable'[e][p] \subseteq stable[e][p]
                 /\ e = EntityOf[d] /\ ~collected(e) => d \notin stable'[e][p]
<1>1. PICK x \in Entities : x = EntityOf[d]
  BY Constants
<1>2. CASE collected(x)
  <2>1. stable' = stable
    BY <1>1, <1>2 DEF Forget
  <2> QED  BY <1>1, <1>2, <2>1 DEF ControlType
<1>3. CASE ~collected(x)
  <2>1. PICK g \in [Phases -> SUBSET Docs] : g = [p \in Phases |-> stable[x][p] \ {d}]
    BY ZenonT(30) DEF ControlType
  <2>2. stable' = [stable EXCEPT ![x] = g]
    BY <1>1, <1>3, <2>1 DEF Forget, ControlType
  <2> QED  BY <1>1, <2>1, <2>2 DEF ControlType
<1> QED  BY <1>2, <1>3

LEMMA InitTypes == Init => Types
<1> SUFFICES ASSUME Init PROVE Types
  OBVIOUS
<1>1. \A d \in Docs : source[d] \in Values
  BY IndexAssumption DEF Init, Values
<1>2. source \in [Docs -> Values]
  BY <1>1 DEF Init
<1>3. StoreType
  BY Constants DEF Init, StoreType
<1>4. job \in [Entities -> Jobs]
  BY NoJobIs DEF Init
<1>5. dataRun \in RunsType /\ indexRun \in RunsType
  BY DEF Init, RunsType, Statuses
<1>6. /\ req \in RequestType /\ op = "idle" /\ err \in BOOLEAN /\ bad \in BOOLEAN
      /\ seen \subseteq Docs /\ todo \subseteq Docs /\ torn \subseteq Docs
      /\ kept \subseteq Docs /\ gone \subseteq Docs
  BY Constants DEF Init
<1>7. began \in [Entities -> SUBSET Docs] /\ stable \in [Entities -> [Phases -> SUBSET Docs]]
  BY DEF Init
<1> QED  BY <1>2, <1>3, <1>4, <1>5, <1>6, <1>7 DEF Types, ControlType

LEMMA JobTypes ==
    ASSUME Types, NEW e \in Entities, Job(e)
    PROVE  Types'
<1> USE DEF Types
<1>1. CASE SkipFresh(e)
  <2>1. job' \in [Entities -> Jobs]
    BY <1>1, JobStepIs DEF SkipFresh, Pcs
  <2>2. UNCHANGED <<source, stores, runs, op, req, seen, err, bad, todo, ghosts>>
    BY <1>1 DEF SkipFresh
  <2> QED  BY <2>1, <2>2 DEF StoreType, ControlType, stores, runs, ghosts
<1>2. CASE NeverBegins(e)
  <2>1. job' \in [Entities -> Jobs]
    BY <1>2, JobStepIs DEF NeverBegins, Pcs
  <2>2. UNCHANGED <<source, stores, runs, op, req, seen, bad, todo, ghosts>> /\ err' = TRUE
    BY <1>2 DEF NeverBegins
  <2> QED  BY <2>1, <2>2 DEF StoreType, ControlType, stores, runs, ghosts
<1>3. CASE BeginJob(e)
  <2>1. job' \in [Entities -> Jobs]
    BY <1>3, JobStepIs DEF BeginJob, Pcs
  <2>2. began' \in [Entities -> SUBSET Docs]
    BY <1>3 DEF BeginJob, ControlType, Of
  <2>3. req.phase \in Phases /\ "running" \in Statuses
    BY DEF ControlType, RequestType, Statuses
  <2>4. dataRun' \in RunsType /\ indexRun' \in RunsType
    BY <1>3, <2>3 DEF BeginJob, PutRuns, ControlType, RunsType
  <2>5. UNCHANGED <<source, stores, op, req, seen, err, bad, todo, kept, gone, stable, torn>>
    BY <1>3 DEF BeginJob
  <2> QED  BY <2>1, <2>2, <2>4, <2>5 DEF StoreType, ControlType, stores
<1>4. ASSUME NEW P \in SUBSET job[e].left, FetchPage(e, P)
      PROVE  Types'
  <2>1. job' \in [Entities -> Jobs] /\ seen' = seen \union {d \in P : source[d] # 0}
    BY <1>4, FetchPageIs
  <2>2. UNCHANGED <<source, stores, runs, op, req, err, bad, todo, ghosts>>
    BY <1>4 DEF FetchPage
  <2>3. seen' \subseteq Docs
    BY <2>1, JobIs DEF ControlType
  <2> QED  BY <2>1, <2>2, <2>3 DEF StoreType, ControlType, stores, runs, ghosts
<1>5. CASE FetchFails(e)
  <2>1. job' \in [Entities -> Jobs]
    BY <1>5, JobStepIs DEF FetchFails, Pcs
  <2>2. UNCHANGED <<source, stores, runs, op, req, seen, bad, todo, ghosts>> /\ err' = TRUE
    BY <1>5 DEF FetchFails
  <2> QED  BY <2>1, <2>2 DEF StoreType, ControlType, stores, runs, ghosts
<1>6. ASSUME NEW fails \in BOOLEAN, finishRun(e, fails)
      PROVE  Types'
  <2>1. /\ job' \in [Entities -> Jobs] /\ dataRun' \in RunsType /\ indexRun' \in RunsType
        /\ stable' \in [Entities -> [Phases -> SUBSET Docs]]
    BY <1>6, FinishIs
  <2>2. UNCHANGED <<source, stores, op, req, seen, err, bad, todo, kept, gone, began, torn>>
    BY <1>6 DEF finishRun
  <2> QED  BY <2>1, <2>2 DEF StoreType, ControlType, stores
<1>7. CASE JobFails(e) \/ JobComplete(e)
  BY <1>6, <1>7 DEF JobFails, JobComplete
<1>8. CASE NoFields(e)
  <2>1. job' \in [Entities -> Jobs]
    BY <1>8, JobStepIs DEF NoFields, Pcs
  <2>2. UNCHANGED <<source, stores, runs, op, req, seen, err, bad, todo, ghosts>>
    BY <1>8 DEF NoFields
  <2> QED  BY <2>1, <2>2 DEF StoreType, ControlType, stores, runs, ghosts
<1>9. CASE buildPageFields(e)
  <2>1. /\ job' \in [Entities -> Jobs]
        /\ records' \in [Docs -> Values] /\ mirror' \in [Docs -> Values]
    BY <1>9, FieldsIs DEF Narrowed
  <2>2. UNCHANGED <<source, queue, docs, chunks, runs, op, req, seen, err, bad, todo, ghosts>>
    BY <1>9 DEF buildPageFields
  <2> QED  BY <2>1, <2>2 DEF StoreType, ControlType, runs, ghosts
<1>10. CASE FieldsFail(e)
  <2>1. /\ job' \in [Entities -> Jobs]
        /\ records' \in [Docs -> Values] /\ mirror' \in [Docs -> Values]
    BY <1>10, FieldsFailIs DEF Narrowed
  <2>2. UNCHANGED <<source, queue, docs, chunks, runs, op, req, seen, err, bad, todo, ghosts>>
    BY <1>10 DEF FieldsFail
  <2> QED  BY <2>1, <2>2 DEF StoreType, ControlType, runs, ghosts
<1>11. CASE EnqueuePage(e)
  <2>1. job' \in [Entities -> Jobs] /\ queue' \in [Docs -> Values]
    BY <1>11, EnqueuePageIs DEF Narrowed
  <2>2. UNCHANGED <<source, records, mirror, docs, chunks, runs, op, req, seen, err, bad, todo, kept,
                    gone, began, stable>>
    BY <1>11 DEF EnqueuePage
  <2>3. torn' \subseteq Docs
    BY <1>11, PresentIs DEF EnqueuePage, Enqueue, ControlType
  <2> QED  BY <2>1, <2>2, <2>3 DEF StoreType, ControlType, runs
<1>12. ASSUME NEW d \in Of(e), Tombstone(e, d)
       PROVE  Types'
  <2>1. d \in Docs /\ torn \subseteq Docs
    BY DEF Of, ControlType
  <2>2. job' \in [Entities -> Jobs]
    BY <1>12, <2>1, TombstoneIs DEF Narrowed
  <2>3. StoreType' /\ torn' \subseteq Docs
    <3>1. CASE UNCHANGED <<records, mirror, queue, docs, chunks, torn>>
      BY <2>1, <3>1 DEF StoreType
    <3>2. CASE records' = [records EXCEPT ![d] = 0] /\ \E k \in 0 .. 4 : Delete(d, k)
      BY <3>2, <2>1, DeleteIs, Constants DEF StoreType
    <3> QED  BY <1>12, <2>1, <3>1, <3>2, TombstoneIs
  <2>4. UNCHANGED <<source, runs, op, req, seen, err, bad, todo, kept, gone, began, stable>>
    BY <1>12 DEF Tombstone
  <2> QED  BY <2>2, <2>3, <2>4 DEF ControlType, runs
<1> QED  BY <1>1, <1>2, <1>3, <1>4, <1>5, <1>7, <1>8, <1>9, <1>10, <1>11, <1>12 DEF Job

LEMMA NextTypes == Types /\ [Next]_vars => Types'
<1> SUFFICES ASSUME Types, [Next]_vars PROVE Types'
  OBVIOUS
<1> USE DEF Types
<1>1. ASSUME NEW d \in Docs, NEW c \in Contents \cup {0}, Edit(d, c)
      PROVE  Types'
  <2>1. source' \in [Docs -> Values]
    BY <1>1 DEF Edit, ControlType, Values
  <2>2. kept' \subseteq Docs /\ gone' \subseteq Docs /\ UNCHANGED torn
    BY <1>1 DEF Edit, Changed, ControlType
  <2>3. began' \in [Entities -> SUBSET Docs] /\ stable' \in [Entities -> [Phases -> SUBSET Docs]]
    BY <1>1 DEF Edit, Changed, ControlType
  <2>4. UNCHANGED <<stores, runs, op, req, job, seen, err, bad, todo>>
    BY <1>1 DEF Edit
  <2> QED  BY <2>1, <2>2, <2>3, <2>4 DEF StoreType, ControlType, stores, runs
<1>2. ASSUME NEW r \in RequestType, Begin(r)
      PROVE  Types'
  <2>1. job' \in [Entities -> Jobs]
    BY <1>2, BeginIs
  <2>2. /\ op' = "build" /\ req' = r /\ seen' = {} /\ err' = FALSE /\ bad' = FALSE /\ todo' = {}
        /\ kept' = {d \in Docs : source[d] # 0}
        /\ UNCHANGED <<source, stores, runs, gone, began, stable, torn>>
    BY <1>2 DEF Begin
  <2> QED  BY <2>1, <2>2 DEF StoreType, ControlType, stores, runs
<1>3. CASE Warmup \/ Command
  BY <1>2, <1>3, Constants DEF Warmup, Command
<1>4. CASE StartEmbed
  <2>1. /\ op' = "embed" /\ todo' = {d \in Docs : queue[d] # 0}
        /\ UNCHANGED <<source, stores, runs, req, job, seen, err, bad, ghosts>>
    BY <1>4 DEF StartEmbed
  <2> QED  BY <2>1 DEF StoreType, ControlType, stores, runs, ghosts
<1>5. CASE \E e \in Entities : Job(e)
  BY <1>5, JobTypes
<1>6. ASSUME Return("idle"), gone' \subseteq Docs
      PROVE  Types'
  <2>1. job' \in [Entities -> Jobs]
    BY <1>6, NoJobsIs DEF Return
  <2>2. /\ op' = "idle" /\ req' = NoRequest /\ seen' = {} /\ err' = FALSE /\ bad' = FALSE
        /\ todo' = {} /\ kept' = {} /\ began' = [e \in Entities |-> {}]
        /\ UNCHANGED <<source, stores, runs, stable, torn>>
    BY <1>6 DEF Return
  <2>3. began' \in [Entities -> SUBSET Docs]
    BY <2>2
  <2> QED  BY <1>6, <2>1, <2>2, <2>3, Constants DEF StoreType, ControlType, stores, runs
<1>7. CASE Ended
  <2>1. CASE req.full /\ ~err
    <3>1. /\ op' = "sweep" /\ todo' \subseteq Docs
          /\ UNCHANGED <<source, stores, runs, req, job, seen, err, bad, ghosts>>
      BY <1>7, <2>1 DEF Ended
    <3> QED  BY <3>1 DEF StoreType, ControlType, stores, runs, ghosts
  <2>2. CASE ~(req.full /\ ~err)
    BY <1>6, <1>7, <2>2 DEF Ended, ControlType
  <2> QED  BY <2>1, <2>2
<1>8. CASE Swept
  <2>1. /\ op' = "sweepData" /\ todo' \subseteq Docs
        /\ UNCHANGED <<source, stores, runs, req, job, seen, err, bad, ghosts>>
    BY <1>8 DEF Swept
  <2> QED  BY <2>1 DEF StoreType, ControlType, stores, runs, ghosts
<1>9. CASE FullReturns
  BY <1>6, <1>9 DEF FullReturns, ControlType
<1>10. ASSUME NEW d \in Docs, SweepIndex(d)
       PROVE  Types'
  <2>1. PICK k \in 0 .. 4 : Delete(d, k) /\ bad' = (bad \/ k < 4)
    BY <1>10 DEF SweepIndex
  <2>2. stable' \in [Entities -> [Phases -> SUBSET Docs]]
    BY <1>10, ForgetIs DEF SweepIndex
  <2>3. /\ todo' \subseteq todo
        /\ UNCHANGED <<source, records, runs, op, req, job, seen, err, kept, gone, began>>
    BY <1>10 DEF SweepIndex
  <2>4. torn \subseteq Docs
    BY DEF ControlType
  <2>5. StoreType' /\ torn' \subseteq Docs
    BY <2>1, <2>3, <2>4, DeleteIs DEF StoreType
  <2>6. bad' \in BOOLEAN
    BY <2>1 DEF ControlType
  <2> QED  BY <2>2, <2>3, <2>5, <2>6 DEF ControlType, runs
<1>11. ASSUME NEW d \in Docs, SweepData(d)
       PROVE  Types'
  <2>1. stable' \in [Entities -> [Phases -> SUBSET Docs]]
    BY <1>11, ForgetIs DEF SweepData
  <2>2. /\ todo' = todo \ {d}
        /\ UNCHANGED <<source, mirror, queue, docs, chunks, runs, op, req, job, seen, err, kept,
                       gone, began, torn>>
    BY <1>11 DEF SweepData
  <2>3. bad' \in BOOLEAN /\ records' \in [Docs -> Values]
    BY <1>11, Constants DEF SweepData, StoreType, ControlType
  <2> QED  BY <2>1, <2>2, <2>3 DEF StoreType, ControlType, runs
<1>12. ASSUME NEW d \in Docs, Embed(d) \/ EmbedFails(d) \/ EmbedStops(d)
       PROVE  Types'
  <2>1. torn \subseteq Docs /\ queue[d] \in Values
    BY DEF ControlType, StoreType
  <2>2. PICK s : s = [content |-> queue[d], status |-> "failed"]
    OBVIOUS
  <2>3. s \in DocStates
    BY <2>1, <2>2 DEF DocStates
  <2>4. \/ UNCHANGED <<chunks, docs, torn>>
        \/ \E k \in 0 .. 3 : Update(d, k)
        \/ docs' = [docs EXCEPT ![d] = s] /\ UNCHANGED <<chunks, torn>>
    <3>1. CASE Embed(d)
      BY <3>1 DEF Embed
    <3>2. CASE EmbedFails(d)
      BY <3>2, <2>2 DEF EmbedFails
    <3>3. CASE EmbedStops(d)
      BY <3>3 DEF EmbedStops
    <3> QED  BY <3>1, <3>2, <3>3, <1>12
  <2>5. chunks' \in [Docs -> Values] /\ docs' \in [Docs -> DocStates] /\ torn' \subseteq Docs
    BY <2>1, <2>3, <2>4, UpdateIs DEF StoreType
  <2>6. queue' \in [Docs -> Values] /\ todo' \subseteq Docs /\ op' \in {op, "idle"}
    BY <1>12, Constants DEF Embed, EmbedFails, EmbedStops, StoreType, ControlType
  <2>7. UNCHANGED <<source, records, mirror, runs, req, job, seen, err, bad, kept, gone, began,
                    stable>>
    BY <1>12 DEF Embed, EmbedFails, EmbedStops
  <2> QED  BY <2>5, <2>6, <2>7 DEF StoreType, ControlType, runs
<1>13. CASE EmbedReturns
  <2>1. op' = "idle" /\ UNCHANGED <<source, stores, runs, req, job, seen, err, bad, todo, ghosts>>
    BY <1>13 DEF EmbedReturns
  <2> QED  BY <2>1 DEF StoreType, ControlType, stores, runs, ghosts
<1>14. CASE Interrupt
  <2>1. err' = TRUE /\ UNCHANGED <<source, stores, runs, op, req, job, seen, bad, todo, ghosts>>
    BY <1>14 DEF Interrupt
  <2> QED  BY <2>1 DEF StoreType, ControlType, stores, runs, ghosts
<1>15. CASE Crash
  <2>1. job' \in [Entities -> Jobs] /\ began' \in [Entities -> SUBSET Docs]
    BY <1>15, NoJobsIs DEF Crash
  <2> QED  BY <1>15, <2>1, Constants DEF Crash, StoreType, ControlType, stores, runs
<1>16. CASE UNCHANGED vars
  BY <1>16 DEF vars, StoreType, ControlType, stores, runs, ghosts
<1> QED
  BY <1>1, <1>3, <1>4, <1>5, <1>7, <1>8, <1>9, <1>10, <1>11, <1>12, <1>13, <1>14, <1>15, <1>16
     DEF Next, Step

-----------------------------------------------------------------------------
(* The stores alone.  A document that is recorded as indexed has its       *)
(* chunks or a job that brings others; chunks have an entry; an embedding  *)
(* run works on queued jobs.                                               *)
StoreInv ==
    /\ \A d \in Docs : d \notin torn /\ docs[d].status = "indexed" =>
          chunks[d] = docs[d].content \/ queue[d] \notin {0, docs[d].content}
    /\ \A d \in Docs : chunks[d] # 0 => Known(d)
    /\ op = "embed" => \A d \in todo : queue[d] # 0

(* A document that has not changed since its job, or a recorded run, began. *)
Settled(e, d) == d \in began[e] \/ \E p \in Phases : d \in stable[e][p]

(* What the control of a job means for its page and for its scan.          *)
Shape(e) ==
    /\ job[e].page \subseteq Of(e) /\ job[e].left \subseteq Of(e) /\ began[e] \subseteq Of(e)
    /\ \A p \in Phases : stable[e][p] \subseteq Of(e)
    /\ \A d \in Docs : job[e].found[d] # 0 => d \in job[e].page
    /\ job[e].pc \in {"none", "waiting", "paging", "failing", "over"} => job[e].page = {}
    /\ job[e].pc = "tombstones" => \A d \in Docs : job[e].found[d] = 0
    /\ job[e].pc = "waiting" => job[e].left = Of(e) /\ \A d \in Of(e) : d \notin seen
    /\ job[e].pc = "over" /\ req.full /\ ~err => job[e].left = {}
    /\ job[e].pc = "failing" => err
    /\ job[e].pc = "none" /\ op \in {"build", "sweep", "sweepData"} => ~collected(e)
    /\ op # "build" => job[e].pc \in {"none", "over"}

(* A page holds what the source has of the documents that have not changed. *)
Fetched(e) ==
    \A d \in job[e].page :
        /\ Settled(e, d) => job[e].found[d] = source[d]
        /\ job[e].found[d] = 0 => d \notin kept
        /\ d \in gone => job[e].found[d] = 0

(* Without an error, what a job has passed and not seen is not in the      *)
(* source: it was not there all along, and is not there if nothing changed. *)
Scanned(e) ==
    job[e].pc # "none" /\ ~err =>
        \A d \in Of(e) : d \notin job[e].left /\ d \notin seen =>
            d \notin kept /\ (Settled(e, d) => source[d] = 0)

JobInv(e) == Shape(e) /\ Fetched(e) /\ Scanned(e)

HistoryInv ==
    /\ \A d \in Docs : d \in seen /\ d \in began[EntityOf[d]] => source[d] # 0
    /\ \A d \in Docs : d \in kept => source[d] # 0
    /\ \A d \in Docs : d \in gone => source[d] = 0
    /\ op \in {"idle", "embed"} => kept = {}
    /\ op \in {"sweep", "sweepData"} => req.full /\ ~err

ControlInv == HistoryInv /\ \A e \in Entities : JobInv(e)

(* What the stores keep of a document that has not changed.                *)
HasFields(d) == records[d] = source[d] /\ mirror[d] = source[d]
InQueue(d) == queue[d] = source[d] \/ (queue[d] = 0 /\ Indexed(d, source[d]))

(* A job none of whose documents has failed has stored what it has passed. *)
StoredOK(e) ==
    job[e].pc \in {"paging", "fields", "enqueue", "tombstones"} /\ ~job[e].failed =>
        \A d \in began[e] : d \notin job[e].left /\ source[d] # 0 =>
            /\ buildFields(e) /\ ~(job[e].pc = "fields" /\ d \in job[e].page) => HasFields(d)
            /\ enqueueSemantic(e) /\ ~(job[e].pc \in {"fields", "enqueue"} /\ d \in job[e].page) =>
                  InQueue(d)

CompleteOK(e) ==
    \A p \in Phases : dataRun[e][p] = "complete" =>
        \A d \in stable[e][p] : source[d] # 0 =>
            /\ p \in {"all", "fields"} /\ e \in FieldEntities => HasFields(d)
            /\ p \in {"all", "semantic"} /\ e \in SemanticEntities => InQueue(d)

(* What the sweeps of a full build have left to delete.                    *)
SweepOK ==
    /\ op \in {"sweep", "sweepData"} =>
          \A d \in todo : Selected(EntityOf[d]) /\ d \notin seen
    /\ op = "sweep" /\ ~bad =>
          \A d \in Docs : Selected(EntityOf[d]) /\ d \notin seen /\ Known(d) => d \in todo
    /\ op = "sweepData" /\ ~bad =>
          \A d \in Docs : Selected(EntityOf[d]) /\ d \notin seen =>
              ~Known(d) /\ (records[d] # 0 => d \in todo)

GoneOK == \A d \in Docs : d \in gone => records[d] = 0 /\ ~Known(d)

DataInv == SweepOK /\ GoneOK /\ \A e \in Entities : StoredOK(e) /\ CompleteOK(e)

Inv == Types /\ StoreInv /\ ControlInv /\ DataInv

-----------------------------------------------------------------------------
(* The stores.                                                             *)

LEMMA InitStore == Init => StoreInv
<1> SUFFICES ASSUME Init PROVE StoreInv
  OBVIOUS
<1>1. \A d \in Docs : docs[d].status = "none" /\ chunks[d] = 0
  BY Constants DEF Init
<1> QED  BY <1>1 DEF Init, StoreInv

(* A job that is taken off the queue, or replaced, leaves no document that *)
(* is taken for done without its chunks, but for those that are torn.      *)
LEMMA EnqueuedChunks ==
    ASSUME Types, StoreInv, NEW e \in Entities, NEW D \in SUBSET Docs, Enqueue(e, D),
           \A d \in D : job[e].found[d] # 0, UNCHANGED <<docs, chunks>>
    PROVE  /\ torn' \subseteq Docs
           /\ \A d \in Docs : d \notin torn' /\ docs[d].status = "indexed" =>
                 chunks[d] = docs[d].content \/ queue'[d] \notin {0, docs[d].content}
<1>1. torn' = torn \cup {d \in D : Reverted(d, job[e].found[d])} /\ torn \subseteq Docs
  BY EnqueueIs DEF Types, ControlType
<1>2. ASSUME NEW d \in Docs, d \notin torn', docs[d].status = "indexed"
      PROVE  chunks[d] = docs[d].content \/ queue'[d] \notin {0, docs[d].content}
  <2>1. d \notin torn /\ (d \in D => ~Reverted(d, job[e].found[d]))
    BY <1>1, <1>2
  <2>2. chunks[d] = docs[d].content \/ queue[d] \notin {0, docs[d].content}
    BY <1>2, <2>1 DEF StoreInv
  <2>3. CASE d \notin D
    BY <2>2, <2>3, EnqueueIs
  <2>4. CASE d \in D /\ queue'[d] = job[e].found[d] /\ ~Indexed(d, job[e].found[d])
    <3>1. docs[d] = [content |-> docs[d].content, status |-> docs[d].status]
      BY DEF Types, StoreType, DocStates
    <3>2. job[e].found[d] # docs[d].content
      BY <1>2, <2>4, <3>1 DEF Indexed
    <3> QED  BY <2>4, <3>2
  <2>5. CASE d \in D /\ Indexed(d, job[e].found[d])
    <3>1. docs[d].content = job[e].found[d] /\ queue[d] \in {0, job[e].found[d]}
      BY <2>1, <2>5 DEF Indexed, Reverted
    <3> QED  BY <2>2, <3>1
  <2> QED  BY <2>3, <2>4, <2>5, EnqueueIs
<1> QED  BY <1>1, <1>2

LEMMA JobStore ==
    ASSUME Types, StoreInv, NEW e \in Entities, Job(e)
    PROVE  StoreInv'
<1>0. Present(e) \subseteq Docs /\ \A d \in Present(e) : job[e].found[d] # 0
  BY PresentIs DEF Types
<1>1. CASE UNCHANGED <<mirror, queue, docs, chunks, torn>> /\ op' # "embed"
  BY <1>1 DEF StoreInv, Known
<1>2. CASE SkipFresh(e) \/ NeverBegins(e) \/ FetchFails(e) \/ NoFields(e)
  BY <1>1, <1>2 DEF SkipFresh, NeverBegins, FetchFails, NoFields, JobStep, stores, ghosts
<1>3. CASE BeginJob(e)
  BY <1>1, <1>3 DEF BeginJob, JobStep, stores
<1>4. CASE \E P \in SUBSET job[e].left : FetchPage(e, P)
  BY <1>1, <1>4 DEF FetchPage, stores, ghosts
<1>5. CASE JobFails(e) \/ JobComplete(e)
  BY <1>1, <1>5 DEF JobFails, JobComplete, finishRun, stores
<1>6. CASE buildPageFields(e) \/ FieldsFail(e)
  <2>1. op = "build" /\ \A d \in Docs : mirror[d] # 0 => mirror'[d] # 0
    BY <1>0, <1>6, FieldsIs, FieldsFailIs
  <2>2. UNCHANGED <<queue, docs, chunks, torn, op>>
    BY <1>6 DEF buildPageFields, FieldsFail, ghosts
  <2> QED  BY <2>1, <2>2 DEF StoreInv, Known
<1>7. CASE EnqueuePage(e)
  <2>1. /\ op = "build"
        /\ \A d \in Docs : queue'[d] = queue[d] \/ queue'[d] # 0 \/ Indexed(d, job[e].found[d])
    BY <1>0, <1>7, EnqueuePageIs
  <2>2. \A d \in Docs : Indexed(d, job[e].found[d]) => docs[d].status = "indexed"
    BY DEF Indexed
  <2>3. UNCHANGED <<mirror, docs, chunks, op>>
    BY <1>7 DEF EnqueuePage
  <2>4. \A d \in Docs : d \notin torn' /\ docs[d].status = "indexed" =>
           chunks[d] = docs[d].content \/ queue'[d] \notin {0, docs[d].content}
    <3>1. CASE UNCHANGED <<queue, torn>>
      BY <3>1 DEF StoreInv
    <3>2. CASE Enqueue(e, Present(e))
      BY <1>0, <2>3, <3>2, EnqueuedChunks
    <3>3. ASSUME NEW F \in SUBSET Present(e), Enqueue(e, Present(e) \ F)
          PROVE  <2>4
      BY <1>0, <2>3, <3>3, EnqueuedChunks
    <3> QED  BY <1>7, <3>1, <3>2, <3>3 DEF EnqueuePage
  <2> QED  BY <2>1, <2>2, <2>3, <2>4 DEF StoreInv, Known
<1>8. ASSUME NEW d \in Of(e), Tombstone(e, d)
      PROVE  StoreInv'
  <2>1. d \in Docs /\ torn \subseteq Docs /\ StoreType /\ op' = "build"
    BY <1>8 DEF Of, Types, ControlType, Tombstone
  <2>2. CASE UNCHANGED <<records, mirror, queue, docs, chunks, torn>>
    BY <2>1, <2>2 DEF StoreInv, Known
  <2>3. ASSUME NEW k \in 0 .. 4, Delete(d, k)
        PROVE  StoreInv'
    <3>1. CASE k = 0
      BY <2>1, <2>3, <3>1, DeleteIs DEF StoreInv, Known
    <3>2. CASE k > 0
      <4>1. chunks'[d] = 0 /\ (d \notin torn' => docs'[d].status = "none") /\ Others(d)
        BY <2>1, <2>3, <3>2, DeleteIs
      <4> QED  BY <2>1, <4>1 DEF StoreInv, Known, Others
    <3> QED  BY <3>1, <3>2
  <2> QED  BY <1>8, <2>1, <2>2, <2>3, TombstoneIs
<1> QED  BY <1>2, <1>3, <1>4, <1>5, <1>6, <1>7, <1>8 DEF Job

LEMMA NextStore ==
    ASSUME Types, StoreInv, [Next]_vars
    PROVE  StoreInv'
<1>1. CASE UNCHANGED <<mirror, queue, docs, chunks, torn>> /\ op' # "embed"
  BY <1>1 DEF StoreInv, Known
<1>2. CASE \E d \in Docs, c \in Contents \cup {0} : Edit(d, c)
  BY <1>1, <1>2 DEF Edit, Changed, stores
<1>3. CASE Warmup \/ Command
  BY <1>1, <1>3 DEF Warmup, Command, Begin, stores
<1>4. CASE StartEmbed
  <2>1. UNCHANGED <<mirror, queue, docs, chunks, torn>> /\ todo' = {d \in Docs : queue[d] # 0}
    BY <1>4 DEF StartEmbed, stores, ghosts
  <2> QED  BY <2>1 DEF StoreInv, Known
<1>5. CASE \E e \in Entities : Job(e)
  BY <1>5, JobStore
<1>6. CASE Ended \/ Swept \/ FullReturns \/ EmbedReturns \/ Crash \/ Interrupt
  <2>1. CASE Ended \/ FullReturns
    BY <1>1, <2>1 DEF Ended, FullReturns, Return, stores, ghosts
  <2>2. CASE Swept \/ EmbedReturns \/ Crash \/ Interrupt
    BY <1>1, <2>2 DEF Swept, EmbedReturns, Crash, Interrupt, stores, ghosts
  <2> QED  BY <1>6, <2>1, <2>2
<1>7. ASSUME NEW d \in Docs, SweepIndex(d)
      PROVE  StoreInv'
  <2>1. PICK k \in 0 .. 4 : Delete(d, k)
    BY <1>7 DEF SweepIndex
  <2>2. torn \subseteq Docs /\ StoreType /\ op' = "sweep"
    BY <1>7 DEF Types, ControlType, SweepIndex
  <2>3. CASE k = 0
    BY <2>1, <2>2, <2>3, DeleteIs DEF StoreInv, Known
  <2>4. CASE k > 0
    <3>1. chunks'[d] = 0 /\ (d \notin torn' => docs'[d].status = "none") /\ Others(d)
      BY <2>1, <2>2, <2>4, DeleteIs
    <3> QED  BY <2>2, <3>1 DEF StoreInv, Known, Others
  <2> QED  BY <2>3, <2>4
<1>8. ASSUME NEW d \in Docs, SweepData(d)
      PROVE  StoreInv'
  BY <1>1, <1>8 DEF SweepData
<1>9. ASSUME NEW d \in Docs, Embed(d) \/ EmbedFails(d) \/ EmbedStops(d)
      PROVE  StoreInv'
  <2>1. torn \subseteq Docs /\ StoreType /\ op = "embed" /\ d \in todo /\ UNCHANGED mirror
    BY <1>9 DEF Types, ControlType, Embed, EmbedFails, EmbedStops
  <2>2. queue[d] # 0
    BY <2>1 DEF StoreInv
  <2>3. /\ \A x \in Docs : x # d => /\ docs'[x] = docs[x] /\ chunks'[x] = chunks[x]
                                    /\ queue'[x] = queue[x] /\ (x \in torn' <=> x \in torn)
        /\ d \notin torn' /\ docs'[d].status = "indexed" =>
              chunks'[d] = docs'[d].content \/ queue'[d] \notin {0, docs'[d].content}
        /\ docs'[d].status # "none" \/ queue'[d] # 0
    <3>1. PICK s : s = [content |-> queue[d], status |-> "failed"]
      OBVIOUS
    <3>2. s.status = "failed"
      BY <3>1
    <3>3. queue' = queue \/ queue' = [queue EXCEPT ![d] = 0]
      BY <1>9 DEF Embed, EmbedFails, EmbedStops
    <3>4. \A x \in Docs : x # d => queue'[x] = queue[x]
      BY <2>1, <3>3 DEF StoreType
    <3>5. CASE UNCHANGED <<chunks, docs, torn>> /\ Indexed(d, queue[d])
      <4>1. docs[d].status = "indexed" /\ docs[d].content = queue[d]
        BY <3>5 DEF Indexed
      <4> QED  BY <3>4, <3>5, <4>1 DEF StoreInv
    <3>6. CASE Update(d, 3)
      <4>1. 3 \in 0 .. 3
        OBVIOUS
      <4>2. /\ \A x \in Docs : x # d => /\ docs'[x] = docs[x] /\ chunks'[x] = chunks[x]
                                        /\ (x \in torn' <=> x \in torn)
            /\ chunks'[d] = queue[d] /\ docs'[d].status = "indexed"
            /\ docs'[d].content = queue[d]
        BY <2>1, <3>6, <4>1, UpdateIs
      <4> QED  BY <3>4, <4>2
    <3>7. CASE UNCHANGED <<chunks, torn, queue>> /\ docs' = [docs EXCEPT ![d] = s]
      BY <2>1, <2>2, <3>2, <3>7 DEF StoreType, StoreInv
    <3>8. ASSUME NEW k \in 0 .. 2, Update(d, k), UNCHANGED queue, ~Indexed(d, queue[d])
          PROVE  <2>3
      <4>1. k \in 0 .. 3 /\ k < 3
        OBVIOUS
      <4>2. /\ \A x \in Docs : x # d => /\ docs'[x] = docs[x] /\ chunks'[x] = chunks[x]
                                        /\ (x \in torn' <=> x \in torn)
            /\ docs' = docs
        BY <2>1, <3>8, <4>1, UpdateIs
      <4>3. docs[d] = [content |-> docs[d].content, status |-> docs[d].status]
        BY <2>1 DEF StoreType, DocStates
      <4>4. docs[d].status = "indexed" => queue[d] \notin {0, docs[d].content}
        BY <2>2, <3>8, <4>3 DEF Indexed
      <4> QED  BY <2>2, <3>8, <4>2, <4>4
    <3>9. CASE Embed(d) \/ EmbedStops(d)
      BY <3>5, <3>6, <3>9 DEF Embed, EmbedStops
    <3>10. CASE EmbedFails(d)
      BY <3>1, <3>7, <3>8, <3>10 DEF EmbedFails
    <3> QED  BY <1>9, <3>9, <3>10
  <2>4. op' = "embed" => todo' = todo \ {d}
    BY <1>9 DEF Embed, EmbedFails, EmbedStops
  <2> QED  BY <2>1, <2>3, <2>4 DEF StoreInv, Known, Types, ControlType
<1>10. CASE UNCHANGED vars
  BY <1>10 DEF vars, stores, ghosts, StoreInv, Known
<1> QED
  BY <1>2, <1>3, <1>4, <1>5, <1>6, <1>7, <1>8, <1>9, <1>10 DEF Next, Step

-----------------------------------------------------------------------------
(* The jobs.                                                               *)

LEMMA OfIs ==
    /\ \A e \in Entities : Of(e) \subseteq Docs
    /\ \A d \in Docs : EntityOf[d] \in Entities /\ d \in Of(EntityOf[d])
    /\ \A e \in Entities : \A d \in Of(e) : EntityOf[d] = e
    /\ \A e \in Entities : \A f \in Entities : \A d \in Of(e) : d \in Of(f) => e = f
  BY Constants DEF Of

(* A step that leaves a job alone, while the source may change.            *)
LEMMA OtherJob ==
    ASSUME NEW f \in Entities, JobInv(f), job'[f] = job[f], req' = req, err => err',
           op' # "build" => job[f].pc \in {"none", "over"},
           op' \in {"build", "sweep", "sweepData"} => op \in {"build", "sweep", "sweepData"},
           \A x \in Docs : (x \in kept' => x \in kept) /\ (x \in gone' => x \in gone),
           \A x \in Docs : x \in began'[f] => x \in began[f],
           \A p \in Phases : \A x \in Docs : x \in stable'[f][p] => x \in stable[f][p],
           began'[f] \subseteq Docs, \A p \in Phases : stable'[f][p] \subseteq Docs,
           \A x \in Docs : Settled(f, x)' => source'[x] = source[x],
           \A x \in Of(f) : x \in seen' <=> x \in seen
    PROVE  JobInv(f)'
<1>0. Of(f) \subseteq Docs /\ job[f].page \subseteq Docs
  BY OfIs DEF JobInv, Shape
<1>1. \A x \in Docs : Settled(f, x)' => Settled(f, x)
  BY DEF Settled
<1>2. collected(f)' <=> collected(f)
  BY DEF collected, Selected, buildFields, enqueueSemantic
<1>3. Shape(f)'
  <2>1. /\ job'[f].page \subseteq Of(f) /\ job'[f].left \subseteq Of(f)
        /\ began'[f] \subseteq Of(f) /\ \A p \in Phases : stable'[f][p] \subseteq Of(f)
    BY <1>0 DEF JobInv, Shape
  <2>2. /\ \A d \in Docs : job'[f].found[d] # 0 => d \in job'[f].page
        /\ job'[f].pc \in {"none", "waiting", "paging", "failing", "over"} => job'[f].page = {}
        /\ job'[f].pc = "tombstones" => \A d \in Docs : job'[f].found[d] = 0
    BY DEF JobInv, Shape
  <2>3. /\ job'[f].pc = "waiting" => job'[f].left = Of(f) /\ \A d \in Of(f) : d \notin seen'
        /\ job'[f].pc = "over" /\ req'.full /\ ~err' => job'[f].left = {}
        /\ job'[f].pc = "failing" => err'
    BY DEF JobInv, Shape
  <2>4. job'[f].pc = "none" /\ op' \in {"build", "sweep", "sweepData"} => ~collected(f)'
    BY <1>2 DEF JobInv, Shape
  <2> QED  BY <2>1, <2>2, <2>3, <2>4 DEF Shape, Of
<1>4. Fetched(f)'
  BY <1>0, <1>1 DEF JobInv, Fetched
<1>5. Scanned(f)'
  <2>1. job'[f].pc # "none" /\ ~err' =>
           \A d \in Of(f) : d \notin job'[f].left /\ d \notin seen' =>
              d \notin kept' /\ (Settled(f, d)' => source'[d] = 0)
    BY <1>0, <1>1 DEF JobInv, Scanned
  <2> QED  BY <2>1 DEF Scanned, Of
<1> QED  BY <1>3, <1>4, <1>5 DEF JobInv

(* A job that moves on with what it has fetched.                           *)
LEMMA NarrowedJob ==
    ASSUME Types, NEW e \in Entities, JobInv(e), NEW to \in Pcs, NEW D \in SUBSET Docs,
           NEW fails \in BOOLEAN, Narrowed(e, to, D, fails),
           op = "build", err => err',
           UNCHANGED <<source, op, req, seen, kept, gone, began, stable>>,
           job[e].pc # "none", to \notin {"none", "waiting"},
           to \in {"paging", "failing", "over"} => job[e].page \ D = {},
           to = "tombstones" => \A d \in Docs : job[e].found[d] # 0 => d \in D,
           to = "over" /\ req.full => err', to = "failing" => err'
    PROVE  JobInv(e)'
<1>0. /\ job'[e].pc = to /\ job'[e].left = job[e].left /\ job'[e].page = job[e].page \ D
      /\ \A d \in Docs : job'[e].found[d] = IF d \in D THEN 0 ELSE job[e].found[d]
  BY DEF Narrowed
<1>1. Of(e) \subseteq Docs /\ job[e].page \subseteq Docs
  BY OfIs DEF JobInv, Shape
<1>2. \A x \in Docs : Settled(e, x)' <=> Settled(e, x)
  BY DEF Settled
<1>3. Shape(e)'
  <2>1. /\ job'[e].page \subseteq Of(e) /\ job'[e].left \subseteq Of(e)
        /\ began'[e] \subseteq Of(e) /\ \A p \in Phases : stable'[e][p] \subseteq Of(e)
    BY <1>0 DEF JobInv, Shape
  <2>2. /\ \A d \in Docs : job'[e].found[d] # 0 => d \in job'[e].page
        /\ job'[e].pc = "tombstones" => \A d \in Docs : job'[e].found[d] = 0
    BY <1>0 DEF JobInv, Shape
  <2>3. /\ job'[e].pc \in {"none", "waiting", "paging", "failing", "over"} => job'[e].page = {}
        /\ job'[e].pc = "over" /\ req'.full /\ ~err' => job'[e].left = {}
        /\ job'[e].pc = "failing" => err'
        /\ op' = "build" /\ job'[e].pc # "none" /\ job'[e].pc # "waiting"
    BY <1>0
  <2> QED  BY <2>1, <2>2, <2>3 DEF Shape, Of
<1>4. Fetched(e)'
  <2> SUFFICES ASSUME NEW d \in job'[e].page
               PROVE  /\ Settled(e, d)' => job'[e].found[d] = source'[d]
                      /\ job'[e].found[d] = 0 => d \notin kept'
                      /\ d \in gone' => job'[e].found[d] = 0
    BY DEF Fetched
  <2>1. d \in job[e].page /\ d \in Docs /\ job'[e].found[d] = job[e].found[d]
    BY <1>0, <1>1
  <2> QED  BY <1>2, <2>1 DEF JobInv, Fetched
<1>5. Scanned(e)'
  <2>1. ~err' => \A d \in Of(e) : d \notin job'[e].left /\ d \notin seen' =>
           d \notin kept' /\ (Settled(e, d)' => source'[d] = 0)
    BY <1>0, <1>1, <1>2 DEF JobInv, Scanned
  <2> QED  BY <2>1 DEF Scanned, Of
<1> QED  BY <1>3, <1>4, <1>5 DEF JobInv

(* Steps of a job.                                                         *)
LEMMA MovesJob ==
    ASSUME Types, NEW e \in Entities, Job(e), ControlInv,
           ~BeginJob(e), \A P \in SUBSET job[e].left : ~FetchPage(e, P),
           ~JobFails(e), ~JobComplete(e)
    PROVE  ControlInv'
<1>0. /\ UNCHANGED <<source, op, req, seen, kept, gone, began, stable>> /\ (err => err')
      /\ \E to \in Pcs, D \in SUBSET Docs, fails \in BOOLEAN :
            /\ Narrowed(e, to, D, fails)
            /\ op = "build" /\ job[e].pc # "none" /\ to \notin {"none", "waiting"}
            /\ to \in {"paging", "failing", "over"} => job[e].page \ D = {}
            /\ to = "tombstones" => \A d \in Docs : job[e].found[d] # 0 => d \in D
            /\ to = "over" /\ req.full => err'
            /\ to = "failing" => err'
  <2>0. ControlType /\ Shape(e) /\ {} \in SUBSET Docs /\ FALSE \in BOOLEAN /\ TRUE \in BOOLEAN
    BY DEF ControlInv, JobInv, Types
  <2>1. CASE SkipFresh(e)
    <3>1. /\ Narrowed(e, "over", {}, FALSE) /\ op = "build" /\ job[e].pc = "waiting"
      BY <2>0, <2>1, JobStepNarrows DEF SkipFresh, Pcs
    <3>2. UNCHANGED <<source, op, req, seen, kept, gone, began, stable, err>> /\ ~req.full
      BY <2>1 DEF SkipFresh, ghosts, mayBeFresh
    <3>3. job[e].page = {} /\ "over" \in Pcs
      BY <2>0, <3>1 DEF Shape, Pcs
    <3> QED  BY <2>0, <3>1, <3>2, <3>3
  <2>2. CASE NeverBegins(e)
    <3>1. /\ Narrowed(e, "over", {}, FALSE) /\ op = "build" /\ job[e].pc = "waiting"
      BY <2>0, <2>2, JobStepNarrows DEF NeverBegins, Pcs
    <3>2. UNCHANGED <<source, op, req, seen, kept, gone, began, stable>> /\ err'
      BY <2>2 DEF NeverBegins, ghosts
    <3>3. job[e].page = {} /\ "over" \in Pcs
      BY <2>0, <3>1 DEF Shape, Pcs
    <3> QED  BY <2>0, <3>1, <3>2, <3>3
  <2>3. CASE FetchFails(e)
    <3>1. /\ Narrowed(e, "failing", {}, FALSE) /\ op = "build" /\ job[e].pc = "paging"
      BY <2>0, <2>3, JobStepNarrows DEF FetchFails, Pcs
    <3>2. UNCHANGED <<source, op, req, seen, kept, gone, began, stable>> /\ err'
      BY <2>3 DEF FetchFails, ghosts
    <3>3. job[e].page = {} /\ "failing" \in Pcs
      BY <2>0, <3>1 DEF Shape, Pcs
    <3> QED  BY <2>0, <3>1, <3>2, <3>3
  <2>4. CASE NoFields(e) \/ buildPageFields(e)
    <3>1. /\ Narrowed(e, "enqueue", {}, FALSE) /\ op = "build" /\ job[e].pc = "fields"
      BY <2>0, <2>4, JobStepNarrows, FieldsIs DEF NoFields, Pcs
    <3>2. UNCHANGED <<source, op, req, seen, kept, gone, began, stable, err>>
      BY <2>4 DEF NoFields, buildPageFields, ghosts
    <3>3. "enqueue" \in Pcs
      BY DEF Pcs
    <3> QED  BY <2>0, <3>1, <3>2, <3>3
  <2>5. CASE FieldsFail(e)
    <3>1. PICK D \in SUBSET Present(e) : Narrowed(e, "enqueue", D, TRUE)
      BY <2>5, FieldsFailIs
    <3>2. op = "build" /\ job[e].pc = "fields"
      BY <2>5, FieldsFailIs
    <3>3. UNCHANGED <<source, op, req, seen, kept, gone, began, stable, err>>
      BY <2>5 DEF FieldsFail, ghosts
    <3>4. "enqueue" \in Pcs /\ D \in SUBSET Docs
      BY <2>0, PresentIs DEF Pcs
    <3> QED  BY <2>0, <3>1, <3>2, <3>3, <3>4
  <2>6. CASE EnqueuePage(e)
    <3>1. PICK to : to = IF job[e].page = Present(e) THEN "paging" ELSE "tombstones"
      OBVIOUS
    <3>2. PICK fails \in BOOLEAN : Narrowed(e, to, Present(e), fails)
      BY <2>6, <3>1, EnqueuePageIs
    <3>3. op = "build" /\ job[e].pc = "enqueue"
      BY <2>6, EnqueuePageIs
    <3>4. UNCHANGED <<source, op, req, seen, kept, gone, began, stable, err>>
      BY <2>6 DEF EnqueuePage, ghosts
    <3>5. Present(e) \in SUBSET Docs /\ \A d \in Docs : job[e].found[d] # 0 => d \in Present(e)
      BY <2>0, PresentIs DEF Shape
    <3>6. to \in Pcs /\ to \in {"paging", "tombstones"} /\ (to = "paging" => job[e].page \ Present(e) = {})
      BY <3>1 DEF Pcs
    <3> QED  BY <2>0, <3>2, <3>3, <3>4, <3>5, <3>6
  <2>7. ASSUME NEW x \in Of(e), Tombstone(e, x)
        PROVE  <1>0
    <3>0. x \in Docs
      BY OfIs
    <3>1. PICK to : to = IF job[e].page = {x} THEN "paging" ELSE "tombstones"
      OBVIOUS
    <3>2. PICK fails \in BOOLEAN : Narrowed(e, to, {x}, fails)
      BY <2>7, <3>0, <3>1, TombstoneIs
    <3>3. op = "build" /\ job[e].pc = "tombstones"
      BY <2>7, <3>0, TombstoneIs
    <3>4. UNCHANGED <<source, op, req, seen, kept, gone, began, stable, err>>
      BY <2>7 DEF Tombstone
    <3>5. {x} \in SUBSET Docs /\ \A d \in Docs : job[e].found[d] = 0
      BY <2>0, <3>0, <3>3 DEF Shape
    <3>6. to \in Pcs /\ to \in {"paging", "tombstones"} /\ (to = "paging" => job[e].page \ {x} = {})
      BY <3>1 DEF Pcs
    <3> QED  BY <2>0, <3>2, <3>3, <3>4, <3>5, <3>6
  <2> QED  BY <2>1, <2>2, <2>3, <2>4, <2>5, <2>6, <2>7 DEF Job
<1>1. PICK to \in Pcs, D \in SUBSET Docs, fails \in BOOLEAN :
            /\ Narrowed(e, to, D, fails)
            /\ op = "build" /\ job[e].pc # "none" /\ to \notin {"none", "waiting"}
            /\ to \in {"paging", "failing", "over"} => job[e].page \ D = {}
            /\ to = "tombstones" => \A d \in Docs : job[e].found[d] # 0 => d \in D
            /\ to = "over" /\ req.full => err'
            /\ to = "failing" => err'
  BY <1>0
<1>2. JobInv(e)'
  BY <1>0, <1>1, NarrowedJob DEF ControlInv
<1>3. ASSUME NEW f \in Entities, f # e
      PROVE  JobInv(f)'
  <2>1. JobInv(f) /\ job'[f] = job[f]
    BY <1>1, <1>3 DEF Narrowed, ControlInv
  <2>2. began[f] \subseteq Docs /\ \A p \in Phases : stable[f][p] \subseteq Docs
    BY DEF Types, ControlType
  <2> QED  BY <1>0, <1>1, <2>1, <2>2, OtherJob
<1>4. HistoryInv'
  BY <1>0, <1>1 DEF ControlInv, HistoryInv
<1> QED  BY <1>2, <1>3, <1>4 DEF ControlInv

LEMMA BeginJobControl ==
    ASSUME Types, Types', NEW e \in Entities, ControlInv, BeginJob(e)
    PROVE  ControlInv'
<1>1. Narrowed(e, "paging", {}, FALSE) /\ op = "build" /\ job[e].pc = "waiting"
  BY JobStepNarrows DEF BeginJob, Pcs, Types
<1>2. /\ UNCHANGED <<source, op, req, seen, err, kept, gone, stable>>
      /\ began' = [began EXCEPT ![e] = Of(e)]
  BY DEF BeginJob
<1>3. /\ JobInv(e) /\ HistoryInv /\ Of(e) \subseteq Docs /\ job[e].page = {}
      /\ job[e].left = Of(e) /\ \A d \in Of(e) : d \notin seen
  BY <1>1, OfIs DEF ControlInv, JobInv, Shape
<1>4. /\ job'[e].pc = "paging" /\ job'[e].left = Of(e) /\ job'[e].page = {}
      /\ \A d \in Docs : job'[e].found[d] = job[e].found[d]
  BY <1>1, <1>3 DEF Narrowed
<1>5. began'[e] = Of(e) /\ \A f \in Entities : f # e => began'[f] = began[f]
  BY <1>2 DEF Types, ControlType
<1>6. JobInv(e)'
  <2>1. /\ job'[e].page \subseteq Of(e) /\ job'[e].left \subseteq Of(e)
        /\ began'[e] \subseteq Of(e) /\ \A p \in Phases : stable'[e][p] \subseteq Of(e)
        /\ \A d \in Docs : job'[e].found[d] # 0 => d \in job'[e].page
    BY <1>2, <1>3, <1>4, <1>5 DEF JobInv, Shape
  <2>2. Shape(e)'
    BY <1>1, <1>2, <1>4, <2>1 DEF Shape, Of
  <2>3. Fetched(e)'
    BY <1>4 DEF Fetched
  <2>4. Scanned(e)'
    BY <1>4 DEF Scanned, Of
  <2> QED  BY <2>2, <2>3, <2>4 DEF JobInv
<1>7. ASSUME NEW f \in Entities, f # e
      PROVE  JobInv(f)'
  <2>1. JobInv(f) /\ job'[f] = job[f]
    BY <1>1, <1>7 DEF Narrowed, ControlInv
  <2>2. began[f] \subseteq Docs /\ \A p \in Phases : stable[f][p] \subseteq Docs
    BY DEF Types, ControlType
  <2>3. began'[f] = began[f]
    BY <1>5, <1>7
  <2> QED  BY <1>1, <1>2, <2>1, <2>2, <2>3, OtherJob
<1>8. HistoryInv'
  <2>1. \A d \in Docs : d \in seen' /\ d \in began'[EntityOf[d]] => source'[d] # 0
    <3> SUFFICES ASSUME NEW d \in Docs, d \in seen', d \in began'[EntityOf[d]]
                 PROVE  source'[d] # 0
      OBVIOUS
    <3>1. EntityOf[d] # e
      BY <1>2, <1>3, OfIs
    <3>2. d \in began[EntityOf[d]]
      BY <1>5, <3>1, OfIs
    <3> QED  BY <1>2, <1>3, <3>2 DEF HistoryInv
  <2> QED  BY <1>1, <1>2, <1>3, <2>1 DEF HistoryInv
<1> QED  BY <1>6, <1>7, <1>8 DEF ControlInv

LEMMA FetchPageControl ==
    ASSUME Types, Types', NEW e \in Entities, ControlInv, NEW P \in SUBSET job[e].left, FetchPage(e, P)
    PROVE  ControlInv'
<1>1. /\ op = "build" /\ job[e].pc = "paging"
      /\ \A f \in Entities : f # e => job'[f] = job[f]
      /\ job'[e].pc = "fields" /\ job'[e].left = job[e].left \ P
      /\ job'[e].page \subseteq P /\ \A d \in P : source[d] # 0 => d \in job'[e].page
      /\ \A d \in Docs : job'[e].found[d] = IF d \in P THEN source[d] ELSE 0
      /\ seen' = seen \union {d \in P : source[d] # 0}
  BY FetchPageIs DEF Types
<1>2. UNCHANGED <<source, op, req, err, kept, gone, began, stable>>
  BY DEF FetchPage, ghosts
<1>3. JobInv(e) /\ HistoryInv /\ Of(e) \subseteq Docs /\ P \subseteq Of(e)
  BY OfIs DEF ControlInv, JobInv, Shape
<1>4. \A d \in Docs : Settled(e, d)' <=> Settled(e, d)
  BY <1>2 DEF Settled
<1>5. JobInv(e)'
  <2>1. /\ job'[e].page \subseteq Of(e) /\ job'[e].left \subseteq Of(e)
        /\ began'[e] \subseteq Of(e) /\ \A p \in Phases : stable'[e][p] \subseteq Of(e)
    BY <1>1, <1>2, <1>3 DEF JobInv, Shape
  <2>2. \A d \in Docs : job'[e].found[d] # 0 => d \in job'[e].page
    BY <1>1
  <2>3. Shape(e)'
    BY <1>1, <1>2, <2>1, <2>2 DEF Shape, Of
  <2>4. Fetched(e)'
    <3> SUFFICES ASSUME NEW d \in job'[e].page
                 PROVE  /\ job'[e].found[d] = source'[d]
                        /\ job'[e].found[d] = 0 => d \notin kept'
                        /\ d \in gone' => job'[e].found[d] = 0
      BY DEF Fetched
    <3>1. d \in P /\ d \in Docs /\ job'[e].found[d] = source[d]
      BY <1>1, <1>3
    <3> QED  BY <1>2, <1>3, <3>1 DEF HistoryInv
  <2>5. Scanned(e)'
    <3> SUFFICES ASSUME ~err', NEW d \in Of(e), d \notin job'[e].left, d \notin seen'
                 PROVE  d \notin kept' /\ (Settled(e, d)' => source'[d] = 0)
      BY DEF Scanned, Of
    <3>1. CASE d \in P
      <4>1. source[d] = 0
        BY <1>1, <3>1
      <4> QED  BY <1>2, <1>3, <4>1 DEF HistoryInv
    <3>2. CASE d \notin P
      BY <1>1, <1>2, <1>3, <1>4, <3>2 DEF JobInv, Scanned
    <3> QED  BY <3>1, <3>2
  <2> QED  BY <2>3, <2>4, <2>5 DEF JobInv
<1>6. ASSUME NEW f \in Entities, f # e
      PROVE  JobInv(f)'
  <2>1. JobInv(f) /\ job'[f] = job[f]
    BY <1>1, <1>6 DEF ControlInv
  <2>2. began[f] \subseteq Docs /\ \A p \in Phases : stable[f][p] \subseteq Docs
    BY DEF Types, ControlType
  <2>3. \A x \in Of(f) : x \in seen' <=> x \in seen
    BY <1>1, <1>3, <1>6, OfIs
  <2> QED  BY <1>1, <1>2, <2>1, <2>2, <2>3, OtherJob
<1>7. HistoryInv'
  BY <1>1, <1>2, <1>3 DEF HistoryInv
<1> QED  BY <1>5, <1>6, <1>7 DEF ControlInv

LEMMA FinishControl ==
    ASSUME Types, Types', NEW e \in Entities, ControlInv, NEW fails \in BOOLEAN,
           finishRun(e, fails), op = "build", job[e].pc \in {"failing", "paging"},
           job[e].pc = "paging" => job[e].left = {}
    PROVE  ControlInv'
<1>1. /\ \A f \in Entities : f # e => job'[f] = job[f]
      /\ job'[e].pc = "over" /\ job'[e].left = {} /\ job'[e].page = {}
      /\ \A d \in Docs : job'[e].found[d] = 0
      /\ \A f \in Entities : \A p \in Phases :
            stable'[f][p] = stable[f][p] \/ (f = e /\ stable'[f][p] = began[e])
  BY FinishIs DEF Types
<1>2. UNCHANGED <<source, op, req, err, seen, kept, gone, began>>
  BY DEF finishRun
<1>3. JobInv(e) /\ HistoryInv /\ Of(e) \subseteq Docs /\ (err \/ job[e].left = {})
  BY OfIs DEF ControlInv, JobInv, Shape
<1>4. \A d \in Docs : Settled(e, d)' => Settled(e, d)
  BY <1>1, <1>2 DEF Settled
<1>5. JobInv(e)'
  <2>1. \A p \in Phases : stable'[e][p] \subseteq Of(e)
    BY <1>1, <1>3 DEF JobInv, Shape
  <2>2. Shape(e)'
    BY <1>1, <1>2, <1>3, <2>1 DEF JobInv, Shape, Of
  <2>3. Fetched(e)'
    BY <1>1 DEF Fetched
  <2>4. Scanned(e)'
    <3> SUFFICES ASSUME ~err', NEW d \in Of(e), d \notin seen'
                 PROVE  d \notin kept' /\ (Settled(e, d)' => source'[d] = 0)
      BY DEF Scanned, Of
    <3> QED  BY <1>2, <1>3, <1>4 DEF JobInv, Scanned
  <2> QED  BY <2>2, <2>3, <2>4 DEF JobInv
<1>6. ASSUME NEW f \in Entities, f # e
      PROVE  JobInv(f)'
  <2>1. JobInv(f) /\ job'[f] = job[f] /\ \A p \in Phases : stable'[f][p] = stable[f][p]
    BY <1>1, <1>6 DEF ControlInv
  <2>2. began[f] \subseteq Docs /\ \A p \in Phases : stable[f][p] \subseteq Docs
    BY DEF Types, ControlType
  <2> QED  BY <1>1, <1>2, <2>1, <2>2, OtherJob
<1>7. HistoryInv'
  BY <1>1, <1>2, <1>3 DEF HistoryInv
<1> QED  BY <1>5, <1>6, <1>7 DEF ControlInv

LEMMA JobControl ==
    ASSUME Types, Types', ControlInv, NEW e \in Entities, Job(e)
    PROVE  ControlInv'
<1>1. CASE JobFails(e)
  BY <1>1, FinishControl DEF JobFails
<1>2. CASE JobComplete(e)
  BY <1>2, FinishControl DEF JobComplete
<1>3. CASE \E P \in SUBSET job[e].left : FetchPage(e, P)
  BY <1>3, FetchPageControl
<1>4. CASE BeginJob(e)
  BY <1>4, BeginJobControl
<1> QED  BY <1>1, <1>2, <1>3, <1>4, MovesJob

LEMMA InitControl == Init => ControlInv
<1> SUFFICES ASSUME Init PROVE ControlInv
  OBVIOUS
<1>1. HistoryInv
  BY DEF Init, HistoryInv
<1>2. ASSUME NEW e \in Entities
      PROVE  JobInv(e)
  <2>1. /\ job[e].pc = "none" /\ job[e].page = {} /\ job[e].left = {}
        /\ \A d \in Docs : job[e].found[d] = 0
    BY NoJobIs, Constants DEF Init
  <2>2. began[e] = {} /\ \A p \in Phases : stable[e][p] = {}
    BY DEF Init
  <2> QED  BY <2>1, <2>2 DEF Init, JobInv, Shape, Fetched, Scanned
<1> QED  BY <1>1, <1>2 DEF ControlInv

(* A step after which there are no jobs.                                   *)
LEMMA NoJobsControl ==
    ASSUME Types, Types', ControlInv, job' = [e \in Entities |-> NoJob], op' = "idle",
           seen' = {}, kept' = {}, began' = [e \in Entities |-> {}],
           UNCHANGED <<source, stable>>, \A d \in Docs : d \in gone' => source[d] = 0
    PROVE  ControlInv'
<1>1. HistoryInv'
  BY DEF HistoryInv
<1>2. ASSUME NEW e \in Entities
      PROVE  JobInv(e)'
  <2>1. /\ job'[e].pc = "none" /\ job'[e].page = {} /\ job'[e].left = {}
        /\ \A d \in Docs : job'[e].found[d] = 0
    BY NoJobsIs
  <2>2. began'[e] = {} /\ \A p \in Phases : stable'[e][p] \subseteq Of(e)
    BY DEF ControlInv, JobInv, Shape
  <2>3. Shape(e)'
    BY <2>1, <2>2 DEF Shape, Of
  <2>4. Fetched(e)' /\ Scanned(e)'
    BY <2>1 DEF Fetched, Scanned
  <2> QED  BY <2>3, <2>4 DEF JobInv
<1> QED  BY <1>1, <1>2 DEF ControlInv

(* A step that leaves the jobs alone.                                      *)
LEMMA QuietControl ==
    ASSUME Types, Types', ControlInv, UNCHANGED <<source, req, job, seen, kept, gone, began>>,
           err => err',
           op' # "build" => \A e \in Entities : job[e].pc \in {"none", "over"},
           op' \in {"build", "sweep", "sweepData"} => op \in {"build", "sweep", "sweepData"},
           op' \in {"sweep", "sweepData"} => req.full /\ ~err',
           op' \in {"idle", "embed"} => op \in {"idle", "embed"},
           \A e \in Entities : \A p \in Phases : stable'[e][p] \subseteq stable[e][p]
    PROVE  ControlInv'
<1>1. HistoryInv'
  BY DEF ControlInv, HistoryInv
<1>2. ASSUME NEW e \in Entities
      PROVE  JobInv(e)'
  <2>1. JobInv(e)
    BY DEF ControlInv
  <2>2. /\ began'[e] \subseteq Docs /\ \A p \in Phases : stable'[e][p] \subseteq Docs
        /\ \A p \in Phases : \A x \in Docs : x \in stable'[e][p] => x \in stable[e][p]
    BY DEF Types, ControlType
  <2> QED  BY <2>1, <2>2, OtherJob
<1> QED  BY <1>1, <1>2 DEF ControlInv

LEMMA NextControl ==
    ASSUME Types, Types', ControlInv, [Next]_vars
    PROVE  ControlInv'
<1>0. op # "build" => \A e \in Entities : job[e].pc \in {"none", "over"}
  BY DEF ControlInv, JobInv, Shape
<1>1. ASSUME NEW d \in Docs, NEW c \in Contents \cup {0}, Edit(d, c)
      PROVE  ControlInv'
  <2>1. /\ \A x \in Docs : x # d => source'[x] = source[x]
        /\ kept' = IF source'[d] = 0 THEN kept \ {d} ELSE kept
        /\ gone' = gone \ {d} /\ UNCHANGED <<op, req, job, seen, err>>
    BY <1>1 DEF Edit, Changed, Types, ControlType
  <2>2. \A e \in Entities : /\ began'[e] = began[e] \ {d}
                            /\ \A p \in Phases : stable'[e][p] = stable[e][p] \ {d}
    BY <1>1 DEF Edit, Changed
  <2>3. HistoryInv'
    <3>1. HistoryInv /\ \A x \in Docs : EntityOf[x] \in Entities
      BY OfIs DEF ControlInv
    <3>2. \A x \in Docs : x \in seen' /\ x \in began'[EntityOf[x]] => source'[x] # 0
      BY <2>1, <2>2, <3>1 DEF HistoryInv
    <3>3. \A x \in Docs : /\ x \in kept' => source'[x] # 0
                          /\ x \in gone' => source'[x] = 0
      BY <2>1, <3>1 DEF HistoryInv
    <3> QED  BY <2>1, <3>1, <3>2, <3>3 DEF HistoryInv
  <2>4. ASSUME NEW e \in Entities
        PROVE  JobInv(e)'
    <3>1. JobInv(e) /\ job'[e] = job[e]
      BY <2>1 DEF ControlInv
    <3>2. /\ began'[e] \subseteq Docs /\ \A p \in Phases : stable'[e][p] \subseteq Docs
          /\ \A x \in Docs : x \in began'[e] => x \in began[e]
          /\ \A p \in Phases : \A x \in Docs : x \in stable'[e][p] => x \in stable[e][p]
      BY <2>2 DEF Types, ControlType
    <3>3. \A x \in Docs : Settled(e, x)' => source'[x] = source[x]
      BY <2>1, <2>2 DEF Settled
    <3>4. \A x \in Docs : (x \in kept' => x \in kept) /\ (x \in gone' => x \in gone)
      BY <2>1
    <3> QED  BY <1>0, <2>1, <3>1, <3>2, <3>3, <3>4, OtherJob
  <2> QED  BY <2>3, <2>4 DEF ControlInv
<1>2. ASSUME NEW r \in RequestType, Begin(r)
      PROVE  ControlInv'
  <2>1. /\ op' = "build" /\ seen' = {} /\ ~err' /\ kept' = {d \in Docs : source[d] # 0}
        /\ UNCHANGED <<source, gone, began, stable>>
    BY <1>2 DEF Begin
  <2>2. HistoryInv'
    BY <2>1 DEF ControlInv, HistoryInv
  <2>3. ASSUME NEW e \in Entities
        PROVE  JobInv(e)'
    <3>1. /\ job'[e].page = {} /\ \A d \in Docs : job'[e].found[d] = 0
          /\ \/ job'[e].pc = "waiting" /\ job'[e].left = Of(e)
             \/ job'[e].pc = "none" /\ job'[e].left = {} /\ ~collected(e)'
      BY <1>2, BeginIs DEF Types
    <3>2. began'[e] \subseteq Of(e) /\ \A p \in Phases : stable'[e][p] \subseteq Of(e)
      BY <2>1 DEF ControlInv, JobInv, Shape
    <3>3. Shape(e)'
      BY <2>1, <3>1, <3>2 DEF Shape, Of
    <3>4. Fetched(e)' /\ Scanned(e)'
      BY <3>1 DEF Fetched, Scanned, Of
    <3> QED  BY <3>3, <3>4 DEF JobInv
  <2> QED  BY <2>2, <2>3 DEF ControlInv
<1>3. CASE Warmup \/ Command
  BY <1>2, <1>3, Constants DEF Warmup, Command
<1>4. CASE StartEmbed
  BY <1>0, <1>4, QuietControl DEF StartEmbed, ghosts
<1>5. CASE \E e \in Entities : Job(e)
  BY <1>5, JobControl
<1>6. ASSUME Return("idle"), \A d \in Docs : d \in gone' => source[d] = 0
      PROVE  ControlInv'
  BY <1>6, NoJobsControl DEF Return
<1>7. CASE Ended
  <2>1. CASE req.full /\ ~err
    <3>1. /\ op' = "sweep" /\ op = "build"
          /\ UNCHANGED <<source, req, job, seen, err, kept, gone, began, stable>>
      BY <1>7, <2>1 DEF Ended, JobsOver, ghosts
    <3>2. \A e \in Entities : job[e].pc \in {"none", "over"}
      BY <1>7 DEF Ended, JobsOver
    <3> QED  BY <2>1, <3>1, <3>2, QuietControl
  <2>2. CASE ~(req.full /\ ~err)
    BY <1>6, <1>7, <2>2 DEF Ended, ControlInv, HistoryInv
  <2> QED  BY <2>1, <2>2
<1>8. CASE Swept
  <2>1. /\ op' = "sweepData" /\ op = "sweep"
        /\ UNCHANGED <<source, req, job, seen, err, kept, gone, began, stable>>
    BY <1>8 DEF Swept, ghosts
  <2>2. req.full /\ ~err
    BY <2>1 DEF ControlInv, HistoryInv
  <2> QED  BY <1>0, <2>1, <2>2, QuietControl
<1>9. CASE FullReturns
  <2>1. \A d \in Docs : d \in gone' => source[d] = 0
    BY <1>9 DEF FullReturns, ControlInv, HistoryInv
  <2> QED  BY <1>6, <1>9, <2>1 DEF FullReturns
<1>10. ASSUME NEW d \in Docs, SweepIndex(d) \/ SweepData(d)
       PROVE  ControlInv'
  <2>1. /\ op' = op /\ op \in {"sweep", "sweepData"} /\ Forget(d)
        /\ UNCHANGED <<source, req, job, seen, err, kept, gone, began>>
    BY <1>10 DEF SweepIndex, SweepData
  <2>2. req.full /\ ~err
    BY <2>1 DEF ControlInv, HistoryInv
  <2>3. \A e \in Entities : \A p \in Phases : stable'[e][p] \subseteq stable[e][p]
    BY <2>1, ForgetIs DEF Types
  <2> QED  BY <1>0, <2>1, <2>2, <2>3, QuietControl
<1>11. ASSUME NEW d \in Docs, Embed(d) \/ EmbedFails(d) \/ EmbedStops(d)
       PROVE  ControlInv'
  <2>1. /\ op = "embed" /\ op' \in {"embed", "idle"}
        /\ UNCHANGED <<source, req, job, seen, err, kept, gone, began, stable>>
    BY <1>11 DEF Embed, EmbedFails, EmbedStops
  <2> QED  BY <1>0, <2>1, QuietControl
<1>12. CASE EmbedReturns
  <2>1. /\ op = "embed" /\ op' = "idle"
        /\ UNCHANGED <<source, req, job, seen, err, kept, gone, began, stable>>
    BY <1>12 DEF EmbedReturns, ghosts
  <2> QED  BY <1>0, <2>1, QuietControl
<1>13. CASE Interrupt
  <2>1. /\ op = "build" /\ op' = "build" /\ err' = TRUE
        /\ UNCHANGED <<source, req, job, seen, kept, gone, began, stable>>
    BY <1>13 DEF Interrupt, ghosts
  <2> QED  BY <1>0, <2>1, QuietControl
<1>14. CASE Crash
  BY <1>14, NoJobsControl DEF Crash, ControlInv, HistoryInv
<1>15. CASE UNCHANGED vars
  <2>1. UNCHANGED <<op, source, req, job, seen, err, kept, gone, began, stable>>
    BY <1>15 DEF vars, ghosts
  <2>2. op \in {"sweep", "sweepData"} => req.full /\ ~err
    BY DEF ControlInv, HistoryInv
  <2> QED  BY <1>0, <2>1, <2>2, QuietControl
<1> QED
  BY <1>1, <1>3, <1>4, <1>5, <1>7, <1>8, <1>9, <1>10, <1>11, <1>12, <1>13, <1>14, <1>15
     DEF Next, Step

-----------------------------------------------------------------------------
(* What the jobs and the sweeps have left in the stores.                   *)

(* A step that takes nothing of a document from the stores.                *)
Preserves(d) ==
    /\ source'[d] = source[d]
    /\ source[d] # 0 => (HasFields(d) => HasFields(d)') /\ (InQueue(d) => InQueue(d)')

LEMMA SamePreserves ==
    ASSUME NEW d \in Docs, source'[d] = source[d], records'[d] = records[d],
           mirror'[d] = mirror[d], queue'[d] = queue[d], docs'[d] = docs[d]
    PROVE  Preserves(d) /\ (Known(d)' <=> Known(d))
  BY DEF Preserves, HasFields, InQueue, Indexed, Known

LEMMA StoredOther ==
    ASSUME NEW f \in Entities, StoredOK(f), job'[f] = job[f], req' = req,
           began'[f] \subseteq Docs,
           \A d \in Docs : d \in began'[f] => d \in began[f] /\ Preserves(d)
    PROVE  StoredOK(f)'
<1>1. (buildFields(f)' <=> buildFields(f)) /\ (enqueueSemantic(f)' <=> enqueueSemantic(f))
  BY DEF buildFields, enqueueSemantic
<1> SUFFICES ASSUME job'[f].pc \in {"paging", "fields", "enqueue", "tombstones"},
                    ~job'[f].failed, NEW d \in began'[f], d \notin job'[f].left, source'[d] # 0
             PROVE  /\ buildFields(f)' /\ ~(job'[f].pc = "fields" /\ d \in job'[f].page) =>
                          HasFields(d)'
                    /\ enqueueSemantic(f)' /\ ~(job'[f].pc \in {"fields", "enqueue"}
                                                  /\ d \in job'[f].page) => InQueue(d)'
  BY DEF StoredOK
<1>2. d \in began[f] /\ Preserves(d)
  OBVIOUS
<1>3. /\ buildFields(f) /\ ~(job[f].pc = "fields" /\ d \in job[f].page) => HasFields(d)
      /\ enqueueSemantic(f) /\ ~(job[f].pc \in {"fields", "enqueue"} /\ d \in job[f].page) =>
            InQueue(d)
  BY <1>2 DEF StoredOK, Preserves
<1> QED  BY <1>1, <1>2, <1>3 DEF Preserves

LEMMA CompleteOther ==
    ASSUME NEW f \in Entities, CompleteOK(f),
           \A p \in Phases : stable'[f][p] \subseteq Docs,
           \A p \in Phases : dataRun'[f][p] = "complete" => dataRun[f][p] = "complete",
           \A p \in Phases : \A d \in Docs :
              d \in stable'[f][p] => d \in stable[f][p] /\ Preserves(d)
    PROVE  CompleteOK(f)'
<1> SUFFICES ASSUME NEW p \in Phases, dataRun'[f][p] = "complete", NEW d \in stable'[f][p],
                    source'[d] # 0
             PROVE  /\ p \in {"all", "fields"} /\ f \in FieldEntities => HasFields(d)'
                    /\ p \in {"all", "semantic"} /\ f \in SemanticEntities => InQueue(d)'
  BY DEF CompleteOK
<1>1. d \in stable[f][p] /\ Preserves(d) /\ dataRun[f][p] = "complete"
  OBVIOUS
<1>2. /\ p \in {"all", "fields"} /\ f \in FieldEntities => HasFields(d)
      /\ p \in {"all", "semantic"} /\ f \in SemanticEntities => InQueue(d)
  BY <1>1 DEF CompleteOK, Preserves
<1> QED  BY <1>1, <1>2 DEF Preserves

(* A step of a build that keeps what is settled, once the claim of the job *)
(* that takes it is shown.                                                 *)
LEMMA JobStepData ==
    ASSUME Types, Types', ControlInv, DataInv, NEW e \in Entities,
           op = "build", UNCHANGED <<op, req, gone, began, stable, runs>>,
           \A f \in Entities : f # e => job'[f] = job[f],
           \A f \in Entities : \A d \in Docs : Settled(f, d) => Preserves(d),
           StoredOK(e)', GoneOK'
    PROVE  DataInv'
<1>1. SweepOK'
  BY DEF SweepOK
<1>2. ASSUME NEW f \in Entities
      PROVE  StoredOK(f)' /\ CompleteOK(f)'
  <2>1. began'[f] = began[f] /\ began'[f] \subseteq Docs
    BY DEF Types, ControlType
  <2>2. \A p \in Phases : /\ stable'[f][p] = stable[f][p] /\ stable'[f][p] \subseteq Docs
                          /\ dataRun'[f][p] = dataRun[f][p]
    BY DEF Types, ControlType, runs
  <2>3. CompleteOK(f)'
    BY <2>2, CompleteOther DEF DataInv, Settled
  <2>4. CASE f = e
    BY <2>3, <2>4
  <2>5. CASE f # e
    BY <2>1, <2>3, <2>5, StoredOther DEF DataInv, Settled
  <2> QED  BY <2>4, <2>5
<1> QED  BY <1>1, <1>2 DEF DataInv

(* In a page, a document that is settled is what the source has.           *)
LEMMA PageIs ==
    ASSUME Types, ControlInv, NEW e \in Entities
    PROVE  /\ \A d \in Present(e) : d \in Docs /\ d \in Of(e) /\ d \notin gone
           /\ \A d \in job[e].page : Settled(e, d) => job[e].found[d] = source[d]
           /\ \A d \in job[e].page : Settled(e, d) /\ source[d] # 0 => d \in Present(e)
           /\ \A d \in Present(e) : \A f \in Entities : Settled(f, d) =>
                 f = e /\ job[e].found[d] = source[d]
           /\ \A d \in Docs : job[e].found[d] = 0 /\ d \in job[e].page =>
                 \A f \in Entities : Settled(f, d) => source[d] = 0
<1>1. JobInv(e) /\ Present(e) \subseteq Docs /\ job[e].page \subseteq Docs
  BY PresentIs, JobIs DEF ControlInv, Types
<1>2. \A d \in Docs : d \in Present(e) <=> d \in job[e].page /\ job[e].found[d] # 0
  BY PresentIs DEF Types
<1>3. job[e].page \subseteq Of(e)
  BY <1>1 DEF JobInv, Shape
<1>4. \A d \in job[e].page : Settled(e, d) => job[e].found[d] = source[d]
  BY <1>1 DEF JobInv, Fetched
<1>5. \A d \in job[e].page : \A f \in Entities : Settled(f, d) => f = e
  <2> SUFFICES ASSUME NEW d \in job[e].page, NEW f \in Entities, Settled(f, d)
               PROVE  f = e
    OBVIOUS
  <2>1. d \in Of(f)
    BY DEF ControlInv, JobInv, Shape, Settled
  <2> QED  BY <1>3, <2>1, OfIs
<1>6. \A d \in Present(e) : d \notin gone
  BY <1>1, <1>2 DEF JobInv, Fetched
<1> QED  BY <1>1, <1>2, <1>3, <1>4, <1>5, <1>6

(* Steps of a job that write no document.                                  *)
LEMMA NoWriteData ==
    ASSUME Types, Types', ControlInv, DataInv, NEW e \in Entities, op = "build",
           UNCHANGED <<source, records, mirror, queue, docs, op, req, gone, began, stable, runs>>,
           \A f \in Entities : f # e => job'[f] = job[f], StoredOK(e)'
    PROVE  DataInv'
<1>1. \A d \in Docs : Preserves(d) /\ (Known(d)' <=> Known(d))
  BY SamePreserves
<1>2. GoneOK'
  BY <1>1 DEF DataInv, GoneOK
<1> QED  BY <1>1, <1>2, JobStepData

LEMMA LeavesData ==
    ASSUME Types, Types', ControlInv, DataInv, NEW e \in Entities,
           SkipFresh(e) \/ NeverBegins(e) \/ FetchFails(e)
    PROVE  DataInv'
<1>1. PICK to \in {"over", "failing"} :
         op = "build" /\ job'[e].pc = to /\ \A f \in Entities : f # e => job'[f] = job[f]
  <2>1. CASE SkipFresh(e)
    BY <2>1, JobStepIs DEF SkipFresh, Types, Pcs
  <2>2. CASE NeverBegins(e)
    BY <2>2, JobStepIs DEF NeverBegins, Types, Pcs
  <2>3. CASE FetchFails(e)
    BY <2>3, JobStepIs DEF FetchFails, Types, Pcs
  <2> QED  BY <2>1, <2>2, <2>3
<1>2. UNCHANGED <<source, records, mirror, queue, docs, op, req, gone, began, stable, runs>>
  BY DEF SkipFresh, NeverBegins, FetchFails, stores, ghosts
<1>3. StoredOK(e)'
  BY <1>1 DEF StoredOK
<1> QED  BY <1>1, <1>2, <1>3, NoWriteData

LEMMA FetchPageData ==
    ASSUME Types, Types', ControlInv, DataInv, NEW e \in Entities,
           NEW P \in SUBSET job[e].left, FetchPage(e, P)
    PROVE  DataInv'
<1>1. /\ op = "build" /\ job[e].pc = "paging" /\ \A f \in Entities : f # e => job'[f] = job[f]
      /\ job'[e].pc = "fields" /\ job'[e].left = job[e].left \ P
      /\ \A d \in P : source[d] # 0 => d \in job'[e].page
      /\ job'[e].failed = job[e].failed
  BY FetchPageIs DEF Types
<1>2. UNCHANGED <<source, records, mirror, queue, docs, op, req, gone, began, stable, runs>>
  BY DEF FetchPage, stores, ghosts
<1>3. \A d \in Docs : Preserves(d)
  BY <1>2, SamePreserves
<1>4. StoredOK(e)'
  <2> SUFFICES ASSUME ~job'[e].failed, NEW d \in began'[e], d \notin job'[e].left, source'[d] # 0,
                      ~(d \in job'[e].page)
               PROVE  (buildFields(e)' => HasFields(d)') /\ (enqueueSemantic(e)' => InQueue(d)')
    BY <1>1 DEF StoredOK
  <2>1. d \in Docs /\ d \in began[e] /\ d \notin job[e].left /\ source[d] # 0 /\ ~job[e].failed
    BY <1>1, <1>2 DEF Types, ControlType
  <2>2. (buildFields(e) => HasFields(d)) /\ (enqueueSemantic(e) => InQueue(d))
    BY <1>1, <2>1 DEF DataInv, StoredOK
  <2>3. (buildFields(e)' <=> buildFields(e)) /\ (enqueueSemantic(e)' <=> enqueueSemantic(e))
    BY <1>2 DEF buildFields, enqueueSemantic
  <2> QED  BY <1>3, <2>1, <2>2, <2>3 DEF Preserves
<1> QED  BY <1>1, <1>2, <1>4, NoWriteData

LEMMA FieldsData ==
    ASSUME Types, Types', ControlInv, DataInv, NEW e \in Entities,
           NoFields(e) \/ buildPageFields(e)
    PROVE  DataInv'
<1>1. Narrowed(e, "enqueue", {}, FALSE) /\ op = "build" /\ job[e].pc = "fields"
  BY JobStepNarrows, FieldsIs DEF NoFields, Pcs, Types
<1>2. UNCHANGED <<source, queue, docs, op, req, gone, began, stable, runs>>
  BY DEF NoFields, buildPageFields, stores, ghosts
<1>3. \A d \in Docs : d \notin Present(e) => records'[d] = records[d] /\ mirror'[d] = mirror[d]
  BY FieldsIs DEF NoFields, stores
<1>4. \A d \in Present(e) :
         \/ records'[d] = records[d] /\ mirror'[d] = mirror[d]
         \/ records'[d] = job[e].found[d] /\ mirror'[d] = job[e].found[d]
  BY FieldsIs DEF NoFields, stores
<1>5. ASSUME NEW f \in Entities, NEW d \in Docs, Settled(f, d)
      PROVE  Preserves(d)
  <2>1. CASE d \notin Present(e)
    BY <1>2, <1>3, <2>1, SamePreserves
  <2>2. CASE d \in Present(e)
    <3>1. job[e].found[d] = source[d]
      BY <1>5, <2>2, PageIs
    <3> QED  BY <1>2, <1>4, <2>2, <3>1 DEF Preserves, HasFields, InQueue, Indexed
  <2> QED  BY <2>1, <2>2
<1>6. GoneOK'
  <2>1. \A d \in Docs : d \in gone => d \notin Present(e)
    BY PageIs
  <2>2. \A d \in Docs : d \notin Present(e) => (Known(d)' <=> Known(d)) /\ records'[d] = records[d]
    BY <1>2, <1>3, SamePreserves
  <2> QED  BY <1>2, <2>1, <2>2 DEF DataInv, GoneOK
<1>7. /\ \A f \in Entities : f # e => job'[f] = job[f]
      /\ job'[e].pc = "enqueue" /\ job'[e].left = job[e].left /\ job'[e].page = job[e].page
      /\ job'[e].failed = job[e].failed
  BY <1>1, JobIs DEF Narrowed, Types
<1>8. StoredOK(e)'
  <2> SUFFICES ASSUME ~job'[e].failed, NEW d \in began'[e], d \notin job'[e].left, source'[d] # 0
               PROVE  /\ buildFields(e)' => HasFields(d)'
                      /\ enqueueSemantic(e)' /\ d \notin job'[e].page => InQueue(d)'
    BY <1>7 DEF StoredOK
  <2>1. /\ d \in Docs /\ d \in began[e] /\ d \notin job[e].left /\ source[d] # 0 /\ ~job[e].failed
        /\ Settled(e, d)
    BY <1>2, <1>7 DEF Types, ControlType, Settled
  <2>2. Preserves(d)
    BY <1>5, <2>1
  <2>3. (buildFields(e)' <=> buildFields(e)) /\ (enqueueSemantic(e)' <=> enqueueSemantic(e))
    BY <1>2 DEF buildFields, enqueueSemantic
  <2>4. /\ buildFields(e) /\ d \notin job[e].page => HasFields(d)
        /\ enqueueSemantic(e) /\ d \notin job[e].page => InQueue(d)
    BY <1>1, <2>1 DEF DataInv, StoredOK
  <2>5. CASE d \notin job[e].page
    BY <1>7, <2>1, <2>2, <2>3, <2>4, <2>5 DEF Preserves
  <2>6. CASE d \in job[e].page
    <3>1. d \in Present(e) /\ job[e].found[d] = source[d]
      BY <2>1, <2>6, PageIs
    <3>2. CASE NoFields(e)
      <4>1. ~buildFields(e)
        BY <3>1, <3>2 DEF NoFields
      <4> QED  BY <1>7, <2>3, <2>6, <4>1
    <3>3. CASE buildPageFields(e)
      <4>1. records'[d] = job[e].found[d] /\ mirror'[d] = job[e].found[d]
        BY <3>1, <3>3, FieldsIs
      <4>2. HasFields(d)'
        BY <1>2, <3>1, <4>1 DEF HasFields
      <4> QED  BY <1>7, <2>6, <4>2
    <3> QED  BY <3>2, <3>3
  <2> QED  BY <2>5, <2>6
<1> QED  BY <1>1, <1>2, <1>5, <1>6, <1>7, <1>8, JobStepData

LEMMA FieldsFailData ==
    ASSUME Types, Types', ControlInv, DataInv, NEW e \in Entities, FieldsFail(e)
    PROVE  DataInv'
<1>1. PICK D \in SUBSET Present(e) : Narrowed(e, "enqueue", D, TRUE)
  BY FieldsFailIs
<1>2. UNCHANGED <<source, queue, docs, op, req, gone, began, stable, runs>> /\ op = "build"
  BY DEF FieldsFail, ghosts
<1>3. /\ \A d \in Docs : d \notin Present(e) =>
            records'[d] = records[d] /\ mirror'[d] = mirror[d]
      /\ \A d \in Present(e) : /\ records'[d] \in {job[e].found[d], records[d]}
                               /\ mirror'[d] \in {job[e].found[d], mirror[d]}
  BY FieldsFailIs
<1>4. ASSUME NEW f \in Entities, NEW d \in Docs, Settled(f, d)
      PROVE  Preserves(d)
  <2>1. CASE d \notin Present(e)
    BY <1>2, <1>3, <2>1, SamePreserves
  <2>2. CASE d \in Present(e)
    <3>1. job[e].found[d] = source[d]
      BY <1>4, <2>2, PageIs
    <3> QED  BY <1>2, <1>3, <2>2, <3>1 DEF Preserves, HasFields, InQueue, Indexed
  <2> QED  BY <2>1, <2>2
<1>5. GoneOK'
  <2>1. \A d \in Docs : d \in gone => d \notin Present(e)
    BY PageIs
  <2>2. \A d \in Docs : d \notin Present(e) => (Known(d)' <=> Known(d)) /\ records'[d] = records[d]
    BY <1>2, <1>3, SamePreserves
  <2> QED  BY <1>2, <2>1, <2>2 DEF DataInv, GoneOK
<1>6. job'[e].failed = TRUE /\ \A f \in Entities : f # e => job'[f] = job[f]
  BY <1>1, JobIs DEF Narrowed, Types
<1>7. StoredOK(e)'
  BY <1>6 DEF StoredOK
<1> QED  BY <1>2, <1>4, <1>5, <1>6, <1>7, JobStepData

LEMMA EnqueueData ==
    ASSUME Types, Types', ControlInv, DataInv, NEW e \in Entities, EnqueuePage(e)
    PROVE  DataInv'
<1>1. PICK to : to = IF job[e].page = Present(e) THEN "paging" ELSE "tombstones"
  OBVIOUS
<1>2. PICK fails \in BOOLEAN :
         /\ Narrowed(e, to, Present(e), fails)
         /\ \A d \in Docs : d \notin Present(e) => queue'[d] = queue[d]
         /\ \A d \in Present(e) :
               \/ queue'[d] = queue[d] /\ (fails \/ ~enqueueSemantic(e))
               \/ queue'[d] = job[e].found[d]
               \/ queue'[d] = 0 /\ Indexed(d, job[e].found[d])
  BY <1>1, EnqueuePageIs
<1>3. UNCHANGED <<source, records, mirror, docs, op, req, gone, began, stable, runs>>
  BY DEF EnqueuePage, ghosts
<1>4. op = "build" /\ job[e].pc = "enqueue" /\ to \in {"paging", "tombstones"}
  BY <1>1 DEF EnqueuePage
<1>5. ASSUME NEW f \in Entities, NEW d \in Docs, Settled(f, d)
      PROVE  Preserves(d)
  <2>1. CASE d \notin Present(e)
    BY <1>2, <1>3, <2>1, SamePreserves
  <2>2. CASE d \in Present(e)
    <3>1. job[e].found[d] = source[d]
      BY <1>5, <2>2, PageIs
    <3> QED  BY <1>2, <1>3, <2>2, <3>1 DEF Preserves, HasFields, InQueue, Indexed
  <2> QED  BY <2>1, <2>2
<1>6. GoneOK'
  <2>1. \A d \in Docs : d \in gone => d \notin Present(e)
    BY PageIs
  <2>2. \A d \in Docs : d \notin Present(e) => (Known(d)' <=> Known(d)) /\ records'[d] = records[d]
    BY <1>2, <1>3, SamePreserves
  <2> QED  BY <1>3, <2>1, <2>2 DEF DataInv, GoneOK
<1>7. /\ \A f \in Entities : f # e => job'[f] = job[f]
      /\ job'[e].pc = to /\ job'[e].left = job[e].left
      /\ job'[e].failed = (job[e].failed \/ fails)
  BY <1>2 DEF Narrowed
<1>8. StoredOK(e)'
  <2> SUFFICES ASSUME ~job'[e].failed, NEW d \in began'[e], d \notin job'[e].left, source'[d] # 0
               PROVE  (buildFields(e)' => HasFields(d)') /\ (enqueueSemantic(e)' => InQueue(d)')
    BY <1>4, <1>7 DEF StoredOK
  <2>1. /\ d \in Docs /\ d \in began[e] /\ d \notin job[e].left /\ source[d] # 0
        /\ ~job[e].failed /\ ~fails /\ Settled(e, d)
    BY <1>3, <1>7 DEF Types, ControlType, Settled
  <2>2. Preserves(d)
    BY <1>5, <2>1
  <2>3. (buildFields(e)' <=> buildFields(e)) /\ (enqueueSemantic(e)' <=> enqueueSemantic(e))
    BY <1>3 DEF buildFields, enqueueSemantic
  <2>4. /\ buildFields(e) => HasFields(d)
        /\ enqueueSemantic(e) /\ d \notin job[e].page => InQueue(d)
    BY <1>4, <2>1 DEF DataInv, StoredOK
  <2>5. CASE d \notin job[e].page
    BY <2>1, <2>2, <2>3, <2>4, <2>5 DEF Preserves
  <2>6. CASE d \in job[e].page
    <3>1. d \in Present(e) /\ job[e].found[d] = source[d]
      BY <2>1, <2>6, PageIs
    <3>2. enqueueSemantic(e) => InQueue(d)'
      BY <1>2, <1>3, <2>1, <3>1 DEF InQueue, Indexed
    <3> QED  BY <2>1, <2>2, <2>3, <2>4, <3>2 DEF Preserves
  <2> QED  BY <2>5, <2>6
<1> QED  BY <1>3, <1>4, <1>5, <1>6, <1>7, <1>8, JobStepData

(* What a deletion leaves of the other documents and of this one.          *)
LEMMA DeleteKeeps ==
    ASSUME Types, NEW d \in Docs, NEW k \in 0 .. 4, Delete(d, k),
           \A x \in Docs : x # d => records'[x] = records[x], UNCHANGED source
    PROVE  /\ \A x \in Docs : x # d => Preserves(x) /\ (Known(x)' <=> Known(x))
           /\ ~Known(d) => ~Known(d)'
           /\ k = 4 => ~Known(d)'
<1>1. Others(d) /\ (k = 4 => mirror'[d] = 0 /\ queue'[d] = 0 /\ docs'[d].status = "none")
  BY DeleteIs DEF Types, ControlType
<1>2. /\ mirror'[d] \in {mirror[d], 0} /\ queue'[d] \in {queue[d], 0}
      /\ docs'[d].status \in {docs[d].status, "none"}
  BY DeleteIs DEF Types, ControlType
<1>3. \A x \in Docs : x # d => Preserves(x) /\ (Known(x)' <=> Known(x))
  BY <1>1, SamePreserves DEF Others
<1> QED  BY <1>1, <1>2, <1>3 DEF Known

LEMMA TombstoneData ==
    ASSUME Types, Types', ControlInv, DataInv, NEW e \in Entities, NEW d \in Of(e), Tombstone(e, d)
    PROVE  DataInv'
<1>1. PICK to : to = IF job[e].page = {d} THEN "paging" ELSE "tombstones"
  OBVIOUS
<1>2. d \in Docs
  BY OfIs
<1>3. PICK fails \in BOOLEAN : Narrowed(e, to, {d}, fails)
  BY <1>1, <1>2, TombstoneIs
<1>4. UNCHANGED <<source, op, req, gone, began, stable, runs>>
  BY DEF Tombstone
<1>5. /\ op = "build" /\ job[e].pc = "tombstones" /\ to \in {"paging", "tombstones"}
      /\ d \in job[e].page
  BY <1>1 DEF Tombstone
<1>6. job[e].found[d] = 0
  BY <1>2, <1>5 DEF ControlInv, JobInv, Shape
<1>7. /\ \A x \in Docs : x # d => Preserves(x) /\ (Known(x)' <=> Known(x)) /\ records'[x] = records[x]
      /\ ~Known(d) => ~Known(d)'
      /\ records'[d] \in {records[d], 0}
  <2>1. CASE UNCHANGED <<records, mirror, queue, docs, chunks, torn>>
    BY <1>2, <1>4, <2>1, SamePreserves
  <2>2. ASSUME NEW k \in 0 .. 4, Delete(d, k), records' = [records EXCEPT ![d] = 0]
        PROVE  <1>7
    <3>1. records'[d] = 0 /\ \A x \in Docs : x # d => records'[x] = records[x]
      BY <1>2, <2>2 DEF Types, StoreType
    <3> QED  BY <1>2, <1>4, <2>2, <3>1, DeleteKeeps
  <2> QED  BY <1>2, <2>1, <2>2, TombstoneIs
<1>8. ASSUME NEW f \in Entities, NEW x \in Docs, Settled(f, x)
      PROVE  Preserves(x)
  <2>1. CASE x # d
    BY <1>7, <2>1
  <2>2. CASE x = d
    <3>1. source[x] = 0
      BY <1>5, <1>6, <1>8, <2>2, PageIs
    <3> QED  BY <1>4, <3>1 DEF Preserves
  <2> QED  BY <2>1, <2>2
<1>9. GoneOK'
  BY <1>4, <1>7 DEF DataInv, GoneOK
<1>10. /\ \A f \in Entities : f # e => job'[f] = job[f]
       /\ job'[e].pc = to /\ job'[e].left = job[e].left
       /\ job'[e].failed = (job[e].failed \/ fails)
  BY <1>3 DEF Narrowed
<1>11. StoredOK(e)'
  <2> SUFFICES ASSUME ~job'[e].failed, NEW x \in began'[e], x \notin job'[e].left, source'[x] # 0
               PROVE  (buildFields(e)' => HasFields(x)') /\ (enqueueSemantic(e)' => InQueue(x)')
    BY <1>5, <1>10 DEF StoredOK
  <2>1. /\ x \in Docs /\ x \in began[e] /\ x \notin job[e].left /\ source[x] # 0
        /\ ~job[e].failed /\ Settled(e, x)
    BY <1>4, <1>10 DEF Types, ControlType, Settled
  <2>2. Preserves(x)
    BY <1>8, <2>1
  <2>3. (buildFields(e)' <=> buildFields(e)) /\ (enqueueSemantic(e)' <=> enqueueSemantic(e))
    BY <1>4 DEF buildFields, enqueueSemantic
  <2>4. (buildFields(e) => HasFields(x)) /\ (enqueueSemantic(e) => InQueue(x))
    BY <1>5, <2>1 DEF DataInv, StoredOK
  <2> QED  BY <2>1, <2>2, <2>3, <2>4 DEF Preserves
<1> QED  BY <1>4, <1>5, <1>8, <1>9, <1>10, <1>11, JobStepData

LEMMA BeginJobData ==
    ASSUME Types, Types', ControlInv, DataInv, NEW e \in Entities, BeginJob(e)
    PROVE  DataInv'
<1>1. /\ op = "build" /\ job[e].pc = "waiting" /\ \A f \in Entities : f # e => job'[f] = job[f]
      /\ job'[e].left = job[e].left
  BY JobStepIs DEF BeginJob, Types, Pcs
<1>2. /\ UNCHANGED <<source, records, mirror, queue, docs, op, req, gone, stable>>
      /\ began' = [began EXCEPT ![e] = Of(e)]
  BY DEF BeginJob, stores
<1>3. \A d \in Docs : Preserves(d) /\ (Known(d)' <=> Known(d))
  BY <1>2, SamePreserves
<1>4. GoneOK' /\ SweepOK'
  BY <1>1, <1>2, <1>3 DEF DataInv, GoneOK, SweepOK
<1>5. began'[e] = Of(e) /\ \A f \in Entities : f # e => began'[f] = began[f]
  BY <1>2 DEF Types, ControlType
<1>6. job[e].left = Of(e)
  BY <1>1 DEF ControlInv, JobInv, Shape
<1>7. StoredOK(e)'
  BY <1>1, <1>5, <1>6 DEF StoredOK
<1>8. ASSUME NEW f \in Entities, f # e
      PROVE  StoredOK(f)'
  <2>1. job'[f] = job[f] /\ began'[f] = began[f] /\ began'[f] \subseteq Docs
    BY <1>1, <1>5, <1>8 DEF Types, ControlType
  <2> QED  BY <1>2, <1>3, <2>1, StoredOther DEF DataInv
<1>9. ASSUME NEW f \in Entities
      PROVE  CompleteOK(f)'
  <2>1. req.phase \in Phases
    BY DEF Types, ControlType, RequestType
  <2>2. \A p \in Phases : dataRun'[f][p] = "complete" => dataRun[f][p] = "complete"
    BY <2>1 DEF BeginJob, PutRuns, Types, ControlType, RunsType
  <2>3. \A p \in Phases : stable'[f][p] = stable[f][p] /\ stable'[f][p] \subseteq Docs
    BY <1>2 DEF Types, ControlType
  <2> QED  BY <1>3, <2>2, <2>3, CompleteOther DEF DataInv
<1> QED  BY <1>4, <1>7, <1>8, <1>9 DEF DataInv

LEMMA FinishData ==
    ASSUME Types, Types', ControlInv, DataInv, NEW e \in Entities, NEW fails \in BOOLEAN,
           finishRun(e, fails), op = "build",
           ~fails => job[e].pc = "paging" /\ job[e].left = {}
    PROVE  DataInv'
<1>1. /\ \A f \in Entities : f # e => job'[f] = job[f]
      /\ job'[e].pc = "over"
  BY FinishIs DEF Types
<1>2. \A f \in Entities : \A p \in Phases :
         \/ dataRun'[f][p] = dataRun[f][p] /\ stable'[f][p] = stable[f][p]
         \/ dataRun'[f][p] # "complete" /\ stable'[f][p] = stable[f][p]
         \/ f = e /\ p = req.phase /\ ~fails /\ ~job[e].failed /\ stable'[f][p] = began[e]
  BY FinishIs DEF Types
<1>3. UNCHANGED <<source, records, mirror, queue, docs, op, req, gone, began>>
  BY DEF finishRun, stores
<1>4. \A d \in Docs : Preserves(d) /\ (Known(d)' <=> Known(d))
  BY <1>3, SamePreserves
<1>5. GoneOK' /\ SweepOK'
  BY <1>3, <1>4 DEF DataInv, GoneOK, SweepOK
<1>6. StoredOK(e)'
  BY <1>1 DEF StoredOK
<1>7. ASSUME NEW f \in Entities, f # e
      PROVE  StoredOK(f)'
  <2>1. job'[f] = job[f] /\ began'[f] = began[f] /\ began'[f] \subseteq Docs
    BY <1>1, <1>3, <1>7 DEF Types, ControlType
  <2> QED  BY <1>3, <1>4, <2>1, StoredOther DEF DataInv
<1>8. ASSUME NEW f \in Entities
      PROVE  CompleteOK(f)'
  <2> SUFFICES ASSUME NEW p \in Phases, dataRun'[f][p] = "complete", NEW d \in stable'[f][p],
                      source'[d] # 0
               PROVE  /\ p \in {"all", "fields"} /\ f \in FieldEntities => HasFields(d)'
                      /\ p \in {"all", "semantic"} /\ f \in SemanticEntities => InQueue(d)'
    BY DEF CompleteOK
  <2>1. d \in Docs
    BY DEF Types, ControlType
  <2>2. Preserves(d) /\ source[d] # 0
    BY <1>3, <1>4, <2>1
  <2>3. CASE dataRun[f][p] = "complete" /\ stable'[f][p] = stable[f][p]
    <3>1. /\ p \in {"all", "fields"} /\ f \in FieldEntities => HasFields(d)
          /\ p \in {"all", "semantic"} /\ f \in SemanticEntities => InQueue(d)
      BY <2>2, <2>3 DEF DataInv, CompleteOK
    <3> QED  BY <2>2, <3>1 DEF Preserves
  <2>4. CASE f = e /\ p = req.phase /\ ~fails /\ ~job[e].failed /\ stable'[f][p] = began[e]
    <3>1. (buildFields(e) => HasFields(d)) /\ (enqueueSemantic(e) => InQueue(d))
      BY <2>2, <2>4 DEF DataInv, StoredOK
    <3>2. /\ p \in {"all", "fields"} /\ f \in FieldEntities => HasFields(d)
          /\ p \in {"all", "semantic"} /\ f \in SemanticEntities => InQueue(d)
      BY <2>4, <3>1 DEF buildFields, enqueueSemantic
    <3> QED  BY <2>2, <3>2 DEF Preserves
  <2> QED  BY <1>2, <2>3, <2>4
<1> QED  BY <1>5, <1>6, <1>7, <1>8 DEF DataInv

LEMMA JobData ==
    ASSUME Types, Types', ControlInv, DataInv, NEW e \in Entities, Job(e)
    PROVE  DataInv'
<1>1. CASE JobFails(e)
  BY <1>1, FinishData DEF JobFails
<1>2. CASE JobComplete(e)
  BY <1>2, FinishData DEF JobComplete
<1>3. CASE SkipFresh(e) \/ NeverBegins(e) \/ FetchFails(e)
  BY <1>3, LeavesData
<1>4. CASE BeginJob(e)
  BY <1>4, BeginJobData
<1>5. CASE \E P \in SUBSET job[e].left : FetchPage(e, P)
  BY <1>5, FetchPageData
<1>6. CASE NoFields(e) \/ buildPageFields(e)
  BY <1>6, FieldsData
<1>7. CASE FieldsFail(e)
  BY <1>7, FieldsFailData
<1>8. CASE EnqueuePage(e)
  BY <1>8, EnqueueData
<1>9. CASE \E d \in Of(e) : Tombstone(e, d)
  BY <1>9, TombstoneData
<1> QED  BY <1>1, <1>2, <1>3, <1>4, <1>5, <1>6, <1>7, <1>8, <1>9 DEF Job

LEMMA InitData == Init => DataInv
<1> SUFFICES ASSUME Init PROVE DataInv
  OBVIOUS
<1>1. \A e \in Entities : job[e].pc = "none"
  BY NoJobIs DEF Init
<1>2. \A e \in Entities : \A p \in Phases : dataRun[e][p] = "none"
  BY DEF Init
<1> QED  BY <1>1, <1>2 DEF Init, DataInv, SweepOK, GoneOK, StoredOK, CompleteOK

(* A step outside the jobs that keeps what the recorded runs say.          *)
LEMMA OutsideData ==
    ASSUME Types, Types', DataInv, UNCHANGED runs,
           \A e \in Entities : job'[e].pc \in {"none", "over", "waiting"},
           \A e \in Entities : \A p \in Phases : \A d \in Docs :
              d \in stable'[e][p] => d \in stable[e][p] /\ Preserves(d),
           SweepOK', GoneOK'
    PROVE  DataInv'
<1>1. ASSUME NEW e \in Entities
      PROVE  StoredOK(e)' /\ CompleteOK(e)'
  <2>1. StoredOK(e)'
    BY DEF StoredOK
  <2>2. /\ \A p \in Phases : stable'[e][p] \subseteq Docs
        /\ \A p \in Phases : dataRun'[e][p] = "complete" => dataRun[e][p] = "complete"
    BY DEF Types, ControlType, runs
  <2>3. CompleteOK(e)'
    BY <2>2, CompleteOther DEF DataInv
  <2> QED  BY <2>1, <2>3
<1> QED  BY <1>1 DEF DataInv

(* What a sweep is about to delete is not in the source, or no recorded    *)
(* run speaks of it any longer.                                            *)
LEMMA SweptIsStale ==
    ASSUME Types, ControlInv, DataInv, op \in {"sweep", "sweepData"}, NEW d \in todo
    PROVE  /\ d \in Docs
           /\ collected(EntityOf[d]) =>
                 d \notin kept /\ \A f \in Entities : Settled(f, d) => source[d] = 0
<1>1. PICK e \in Entities : e = EntityOf[d] /\ d \in Docs /\ d \in Of(e)
  BY OfIs DEF Types, ControlType
<1>2. d \notin seen /\ req.full /\ ~err /\ JobInv(e)
  BY DEF DataInv, SweepOK, ControlInv, HistoryInv
<1>3. ASSUME collected(e)
      PROVE  d \notin kept /\ \A f \in Entities : Settled(f, d) => source[d] = 0
  <2>1. job[e].pc = "over" /\ job[e].left = {}
    BY <1>2, <1>3 DEF JobInv, Shape
  <2>2. d \notin kept /\ (Settled(e, d) => source[d] = 0)
    BY <1>1, <1>2, <2>1 DEF JobInv, Scanned
  <2>3. \A f \in Entities : Settled(f, d) => d \in Of(f)
    BY DEF ControlInv, JobInv, Shape, Settled
  <2> QED  BY <1>1, <2>2, <2>3, OfIs
<1> QED  BY <1>1, <1>3

LEMMA SweepIndexData ==
    ASSUME Types, Types', ControlInv, DataInv, NEW d \in Docs, SweepIndex(d)
    PROVE  DataInv'
<1>1. PICK k \in 0 .. 4 : /\ Delete(d, k) /\ bad' = (bad \/ k < 4)
                          /\ todo' = todo \ {d} \/ (k < 4 /\ todo' = todo)
  BY DEF SweepIndex
<1>2. /\ op = "sweep" /\ d \in todo /\ Forget(d)
      /\ UNCHANGED <<source, records, runs, op, req, job, seen, gone>>
  BY DEF SweepIndex
<1>8. Delete(d, k) /\ bad' = (bad \/ k < 4) /\ (todo' = todo \ {d} \/ (k < 4 /\ todo' = todo))
  BY <1>1, Zenon
<1>3. /\ \A x \in Docs : x # d => Preserves(x) /\ (Known(x)' <=> Known(x))
      /\ ~Known(d) => ~Known(d)'
      /\ k = 4 => ~Known(d)'
  <2>1. Delete(d, k)
    BY <1>8, Zenon
  <2> QED  BY <1>2, <2>1, DeleteKeeps
<1>4. GoneOK'
  BY <1>2, <1>3 DEF DataInv, GoneOK
<1>5. SweepOK'
  <2>1. \A x \in Docs : Selected(EntityOf[x])' <=> Selected(EntityOf[x])
    BY <1>2 DEF Selected
  <2>2. ~bad' => ~bad /\ k = 4 /\ todo' = todo \ {d}
    <3>1. k < 4 \/ (k = 4 /\ ~(k < 4))
      OBVIOUS
    <3>2. /\ bad' = (bad \/ k < 4) /\ bad' \in BOOLEAN
          /\ todo' = todo \ {d} \/ (k < 4 /\ todo' = todo)
      BY <1>8 DEF Types, ControlType
    <3> QED  BY <3>1, <3>2, Zenon
  <2>3. todo' \subseteq Docs /\ todo \subseteq Docs
    BY DEF Types, ControlType
  <2>4. todo' \subseteq todo
    BY <1>8
  <2> QED  BY <1>2, <1>3, <2>1, <2>2, <2>3, <2>4 DEF DataInv, SweepOK
<1>6. \A e \in Entities : \A p \in Phases : \A x \in Docs :
         x \in stable'[e][p] => x \in stable[e][p] /\ Preserves(x)
  <2> SUFFICES ASSUME NEW e \in Entities, NEW p \in Phases, NEW x \in Docs, x \in stable'[e][p]
               PROVE  x \in stable[e][p] /\ Preserves(x)
    OBVIOUS
  <2>1. /\ x \in stable[e][p] /\ (e = EntityOf[d] /\ ~collected(e) => d \notin stable'[e][p])
    BY <1>2, ForgetIs DEF Types
  <2>2. CASE x # d
    BY <1>3, <2>1, <2>2
  <2>3. CASE x = d
    <3>1. e = EntityOf[d] /\ Settled(e, d)
      BY <2>1, <2>3, OfIs DEF ControlInv, JobInv, Shape, Settled
    <3>2. source[d] = 0
      BY <1>2, <2>1, <2>3, <3>1, SweptIsStale
    <3> QED  BY <1>2, <2>1, <2>3, <3>2 DEF Preserves
  <2> QED  BY <2>2, <2>3
<1>7. \A e \in Entities : job'[e].pc \in {"none", "over", "waiting"}
  BY <1>2 DEF ControlInv, JobInv, Shape
<1> QED  BY <1>2, <1>4, <1>5, <1>6, <1>7, OutsideData

LEMMA SweepDataData ==
    ASSUME Types, Types', ControlInv, DataInv, NEW d \in Docs, SweepData(d)
    PROVE  DataInv'
<1>1. /\ op = "sweepData" /\ d \in todo /\ todo' = todo \ {d} /\ Forget(d)
      /\ UNCHANGED <<source, mirror, queue, docs, runs, op, req, job, seen, gone>>
  BY DEF SweepData
<1>2. /\ \A x \in Docs : x # d => records'[x] = records[x]
      /\ records'[d] \in {records[d], 0} /\ (~bad' => ~bad /\ records'[d] = 0)
  BY DEF SweepData, Types, StoreType, ControlType
<1>3. /\ \A x \in Docs : x # d => Preserves(x)
      /\ \A x \in Docs : Known(x)' <=> Known(x)
  BY <1>1, <1>2, SamePreserves DEF Known
<1>4. GoneOK'
  BY <1>1, <1>2, <1>3 DEF DataInv, GoneOK
<1>5. SweepOK'
  <2>1. \A x \in Docs : Selected(EntityOf[x])' <=> Selected(EntityOf[x])
    BY <1>1 DEF Selected
  <2>2. todo' \subseteq Docs /\ todo \subseteq Docs
    BY DEF Types, ControlType
  <2> QED  BY <1>1, <1>2, <1>3, <2>1, <2>2 DEF DataInv, SweepOK
<1>6. \A e \in Entities : \A p \in Phases : \A x \in Docs :
         x \in stable'[e][p] => x \in stable[e][p] /\ Preserves(x)
  <2> SUFFICES ASSUME NEW e \in Entities, NEW p \in Phases, NEW x \in Docs, x \in stable'[e][p]
               PROVE  x \in stable[e][p] /\ Preserves(x)
    OBVIOUS
  <2>1. /\ x \in stable[e][p] /\ (e = EntityOf[d] /\ ~collected(e) => d \notin stable'[e][p])
    BY <1>1, ForgetIs DEF Types
  <2>2. CASE x # d
    BY <1>3, <2>1, <2>2
  <2>3. CASE x = d
    <3>1. e = EntityOf[d] /\ Settled(e, d)
      BY <2>1, <2>3, OfIs DEF ControlInv, JobInv, Shape, Settled
    <3>2. source[d] = 0
      BY <1>1, <2>1, <2>3, <3>1, SweptIsStale
    <3> QED  BY <1>1, <2>1, <2>3, <3>2 DEF Preserves
  <2> QED  BY <2>2, <2>3
<1>7. \A e \in Entities : job'[e].pc \in {"none", "over", "waiting"}
  BY <1>1 DEF ControlInv, JobInv, Shape
<1> QED  BY <1>1, <1>4, <1>5, <1>6, <1>7, OutsideData

LEMMA EmbedData ==
    ASSUME Types, Types', StoreInv, ControlInv, DataInv, NEW d \in Docs,
           Embed(d) \/ EmbedFails(d) \/ EmbedStops(d)
    PROVE  DataInv'
<1>1. /\ op = "embed" /\ op' \in {"embed", "idle"} /\ d \in todo
      /\ UNCHANGED <<source, records, mirror, runs, req, job, gone, stable>>
  BY DEF Embed, EmbedFails, EmbedStops
<1>2. queue[d] # 0 /\ StoreType /\ torn \subseteq Docs
  BY <1>1 DEF StoreInv, Types, ControlType
<1>3. PICK s : s = [content |-> queue[d], status |-> "failed"]
  OBVIOUS
<1>4. \/ docs' = docs
      \/ Update(d, 3)
      \/ \E k \in 0 .. 3 : k < 3 /\ Update(d, k)
      \/ docs' = [docs EXCEPT ![d] = s]
  BY <1>3 DEF Embed, EmbedFails, EmbedStops
<1>5. 3 \in 0 .. 3
  OBVIOUS
<1>6. /\ \A x \in Docs : x # d => docs'[x] = docs[x] /\ queue'[x] = queue[x]
      /\ queue'[d] = queue[d] \/ (queue'[d] = 0 /\ docs'[d] = [content |-> queue[d], status |-> "indexed"])
  <2>1. \A x \in Docs : x # d => docs'[x] = docs[x]
    BY <1>2, <1>4, <1>5, UpdateIs DEF StoreType
  <2>2. queue' = queue \/ (queue' = [queue EXCEPT ![d] = 0] /\ Embed(d))
    BY DEF Embed, EmbedFails, EmbedStops
  <2>3. ASSUME Embed(d)
        PROVE  docs'[d] = [content |-> queue[d], status |-> "indexed"]
    <3>1. CASE Indexed(d, queue[d]) /\ docs' = docs
      BY <3>1 DEF Indexed
    <3>2. CASE Update(d, 3)
      BY <1>2, <1>5, <3>2, UpdateIs
    <3> QED  BY <2>3, <3>1, <3>2 DEF Embed
  <2>4. CASE queue' = queue
    BY <2>1, <2>4
  <2>5. CASE queue' = [queue EXCEPT ![d] = 0] /\ Embed(d)
    <3>1. /\ queue'[d] = 0 /\ \A x \in Docs : x # d => queue'[x] = queue[x]
      BY <1>2, <2>5 DEF StoreType
    <3>2. docs'[d] = [content |-> queue[d], status |-> "indexed"]
      BY <2>3, <2>5
    <3> QED  BY <2>1, <3>1, <3>2
  <2> QED  BY <2>2, <2>4, <2>5
<1>7. ASSUME NEW x \in Docs
      PROVE  Preserves(x) /\ (x \in gone => ~Known(x)')
  <2>1. CASE x # d
    BY <1>1, <1>6, <2>1, SamePreserves DEF DataInv, GoneOK
  <2>2. CASE x = d
    <3>1. x \notin gone
      BY <1>2, <2>2 DEF DataInv, GoneOK, Known
    <3>2. InQueue(x) => InQueue(x)'
      BY <1>1, <1>2, <1>6, <2>2 DEF InQueue, Indexed
    <3>3. HasFields(x) => HasFields(x)'
      BY <1>1 DEF HasFields
    <3> QED  BY <1>1, <3>1, <3>2, <3>3 DEF Preserves
  <2> QED  BY <2>1, <2>2
<1>8. GoneOK' /\ SweepOK'
  BY <1>1, <1>7 DEF DataInv, GoneOK, SweepOK
<1>9. \A e \in Entities : job'[e].pc \in {"none", "over", "waiting"}
  BY <1>1 DEF ControlInv, JobInv, Shape
<1> QED  BY <1>1, <1>7, <1>8, <1>9, OutsideData

LEMMA FullReturnsData ==
    ASSUME Types, Types', ControlInv, DataInv, FullReturns
    PROVE  DataInv'
<1>1. /\ op = "sweepData" /\ todo = {} /\ op' = "idle" /\ job' = [e \in Entities |-> NoJob]
      /\ UNCHANGED <<source, records, mirror, queue, docs, runs, stable>>
  BY DEF FullReturns, Return, stores
<1>2. \A d \in Docs : Preserves(d) /\ (Known(d)' <=> Known(d))
  BY <1>1, SamePreserves
<1>3. GoneOK'
  <2> SUFFICES ASSUME NEW d \in Docs, d \in gone'
               PROVE  records[d] = 0 /\ ~Known(d)
    BY <1>1, <1>2 DEF GoneOK
  <2>1. CASE d \in gone
    BY <2>1 DEF DataInv, GoneOK
  <2>2. CASE d \notin gone
    <3>1. ~bad /\ collected(EntityOf[d]) /\ source[d] = 0 /\ d \in began[EntityOf[d]]
      BY <2>2 DEF FullReturns
    <3>2. d \notin seen /\ Selected(EntityOf[d])
      BY <3>1 DEF ControlInv, HistoryInv, collected
    <3> QED  BY <1>1, <3>1, <3>2 DEF DataInv, SweepOK
  <2> QED  BY <2>1, <2>2
<1>4. SweepOK'
  BY <1>1 DEF SweepOK
<1>5. \A e \in Entities : job'[e].pc \in {"none", "over", "waiting"}
  BY <1>1, NoJobsIs
<1> QED  BY <1>1, <1>2, <1>3, <1>4, <1>5, OutsideData

LEMMA NextData ==
    ASSUME Types, Types', StoreInv, ControlInv, DataInv, [Next]_vars
    PROVE  DataInv'
<1>0. op # "build" => \A e \in Entities : job[e].pc \in {"none", "over"}
  BY DEF ControlInv, JobInv, Shape
<1>1. ASSUME NEW d \in Docs, NEW c \in Contents \cup {0}, Edit(d, c)
      PROVE  DataInv'
  <2>1. /\ \A x \in Docs : x # d => source'[x] = source[x]
        /\ gone' = gone \ {d} /\ op \in {"idle", "build"}
        /\ UNCHANGED <<records, mirror, queue, docs, runs, op, req, job, seen>>
    BY <1>1 DEF Edit, Changed, Types, ControlType, stores
  <2>2. \A e \in Entities : /\ began'[e] = began[e] \ {d}
                            /\ \A p \in Phases : stable'[e][p] = stable[e][p] \ {d}
    BY <1>1 DEF Edit, Changed
  <2>3. \A x \in Docs : x # d => Preserves(x)
    BY <2>1, SamePreserves
  <2>4. GoneOK' /\ SweepOK'
    BY <2>1 DEF DataInv, GoneOK, SweepOK, Known
  <2>5. ASSUME NEW e \in Entities
        PROVE  StoredOK(e)' /\ CompleteOK(e)'
    <3>1. /\ began'[e] \subseteq Docs /\ job'[e] = job[e]
          /\ \A x \in Docs : x \in began'[e] => x \in began[e] /\ Preserves(x)
      BY <2>1, <2>2, <2>3 DEF Types, ControlType
    <3>2. /\ \A p \in Phases : stable'[e][p] \subseteq Docs
          /\ \A p \in Phases : dataRun'[e][p] = dataRun[e][p]
          /\ \A p \in Phases : \A x \in Docs :
                x \in stable'[e][p] => x \in stable[e][p] /\ Preserves(x)
      BY <2>1, <2>2, <2>3 DEF Types, ControlType, runs
    <3> QED  BY <2>1, <3>1, <3>2, StoredOther, CompleteOther DEF DataInv
  <2> QED  BY <2>4, <2>5 DEF DataInv
<1>2. ASSUME UNCHANGED <<source, records, mirror, queue, docs, runs, stable, gone>>,
             \A e \in Entities : job'[e].pc \in {"none", "over", "waiting"}, SweepOK'
      PROVE  DataInv'
  <2>1. \A d \in Docs : Preserves(d) /\ (Known(d)' <=> Known(d))
    BY <1>2, SamePreserves
  <2>2. GoneOK'
    BY <1>2, <2>1 DEF DataInv, GoneOK
  <2>3. \A e \in Entities : \A p \in Phases : \A d \in Docs :
           d \in stable'[e][p] => d \in stable[e][p] /\ Preserves(d)
    BY <1>2, <2>1
  <2> QED  BY <1>2, <2>2, <2>3, OutsideData
<1>3. ASSUME NEW r \in RequestType, Begin(r)
      PROVE  DataInv'
  <2>1. op' = "build" /\ UNCHANGED <<source, records, mirror, queue, docs, runs, stable, gone>>
    BY <1>3 DEF Begin, stores
  <2>2. \A e \in Entities : job'[e].pc \in {"none", "over", "waiting"}
    BY <1>3, BeginIs DEF Types
  <2>3. SweepOK'
    BY <2>1 DEF SweepOK
  <2> QED  BY <1>2, <2>1, <2>2, <2>3
<1>4. CASE Warmup \/ Command
  BY <1>3, <1>4, Constants DEF Warmup, Command
<1>5. CASE StartEmbed \/ EmbedReturns
  <2>1. /\ op # "build" /\ op' \in {"idle", "embed"}
        /\ UNCHANGED <<source, records, mirror, queue, docs, runs, stable, gone, job>>
    BY <1>5 DEF StartEmbed, EmbedReturns, stores, ghosts
  <2>2. SweepOK'
    BY <2>1 DEF SweepOK
  <2> QED  BY <1>0, <1>2, <2>1, <2>2
<1>6. CASE \E e \in Entities : Job(e)
  BY <1>6, JobData
<1>7. ASSUME Return("idle") /\ UNCHANGED gone
      PROVE  DataInv'
  <2>1. op' = "idle" /\ UNCHANGED <<source, records, mirror, queue, docs, runs, stable, gone>>
    BY <1>7 DEF Return, stores
  <2>2. \A e \in Entities : job'[e].pc \in {"none", "over", "waiting"}
    BY <1>7, NoJobsIs DEF Return
  <2>3. SweepOK'
    BY <2>1 DEF SweepOK
  <2> QED  BY <1>2, <2>1, <2>2, <2>3
<1>8. CASE Ended
  <2>1. CASE req.full /\ ~err
    <3>1. /\ op' = "sweep"
          /\ todo' = {d \in Docs : Selected(EntityOf[d]) /\ Known(d) /\ d \notin seen}
          /\ UNCHANGED <<source, records, mirror, queue, docs, runs, stable, gone, job, req, seen>>
      BY <1>8, <2>1 DEF Ended, stores, ghosts
    <3>2. \A e \in Entities : job'[e].pc \in {"none", "over", "waiting"}
      BY <1>8, <3>1 DEF Ended, JobsOver
    <3>3. \A d \in Docs : /\ Known(d)' <=> Known(d)
                          /\ Selected(EntityOf[d])' <=> Selected(EntityOf[d])
      BY <3>1 DEF Known, Selected
    <3>4. SweepOK'
      BY <3>1, <3>3 DEF SweepOK
    <3> QED  BY <1>2, <3>1, <3>2, <3>4
  <2>2. CASE ~(req.full /\ ~err)
    BY <1>7, <1>8, <2>2 DEF Ended
  <2> QED  BY <2>1, <2>2
<1>9. CASE Swept
  <2>1. /\ op = "sweep" /\ todo = {} /\ op' = "sweepData"
        /\ todo' = {d \in Docs : Selected(EntityOf[d]) /\ records[d] # 0 /\ d \notin seen}
        /\ UNCHANGED <<source, records, mirror, queue, docs, runs, stable, gone, job, req, seen, bad>>
    BY <1>9 DEF Swept, stores, ghosts
  <2>2. \A d \in Docs : /\ Known(d)' <=> Known(d)
                        /\ Selected(EntityOf[d])' <=> Selected(EntityOf[d])
    BY <2>1 DEF Known, Selected
  <2>3. SweepOK'
    BY <2>1, <2>2 DEF SweepOK, DataInv
  <2> QED  BY <1>0, <1>2, <2>1, <2>3
<1>10. CASE Interrupt
  <2>1. /\ op = "build" /\ UNCHANGED <<source, records, mirror, queue, docs, runs, stable, gone, job>>
        /\ UNCHANGED <<op, req, seen, began>>
    BY <1>10 DEF Interrupt, stores, ghosts
  <2>2. \A d \in Docs : Preserves(d) /\ (Known(d)' <=> Known(d))
    BY <2>1, SamePreserves
  <2>3. GoneOK' /\ SweepOK'
    BY <2>1, <2>2 DEF DataInv, GoneOK, SweepOK
  <2>4. ASSUME NEW e \in Entities
        PROVE  StoredOK(e)' /\ CompleteOK(e)'
    <3>1. /\ began'[e] \subseteq Docs /\ began'[e] = began[e] /\ job'[e] = job[e]
          /\ \A p \in Phases : stable'[e][p] \subseteq Docs /\ stable'[e][p] = stable[e][p]
          /\ \A p \in Phases : dataRun'[e][p] = dataRun[e][p]
      BY <2>1 DEF Types, ControlType, runs
    <3> QED  BY <2>1, <2>2, <3>1, StoredOther, CompleteOther DEF DataInv
  <2> QED  BY <2>3, <2>4 DEF DataInv
<1>11. CASE Crash
  <2>1. op' = "idle" /\ UNCHANGED <<source, records, mirror, queue, docs, runs, stable, gone>>
    BY <1>11 DEF Crash, stores
  <2>2. \A e \in Entities : job'[e].pc \in {"none", "over", "waiting"}
    BY <1>11, NoJobsIs DEF Crash
  <2>3. SweepOK'
    BY <2>1 DEF SweepOK
  <2> QED  BY <1>2, <2>1, <2>2, <2>3
<1>12. CASE UNCHANGED vars
  BY <1>12, SMTT(30) DEF vars, stores, runs, ghosts, DataInv, SweepOK, GoneOK, StoredOK, CompleteOK,
        HasFields, InQueue, Indexed, Known, Selected, buildFields, enqueueSemantic
<1>13. CASE \E d \in Docs : SweepIndex(d) \/ SweepData(d)
  BY <1>13, SweepIndexData, SweepDataData
<1>14. CASE \E d \in Docs : Embed(d) \/ EmbedFails(d) \/ EmbedStops(d)
  BY <1>14, EmbedData
<1> QED
  BY <1>1, <1>4, <1>5, <1>6, <1>8, <1>9, <1>10, <1>11, <1>12, <1>13, <1>14, FullReturnsData
     DEF Next, Step

-----------------------------------------------------------------------------
(* Theorems.                                                               *)

(* The inductive invariant holds throughout, whatever builds, edits of the *)
(* source, failing calls, interrupts and stops of the process there are.   *)
THEOREM Invariance == Spec => []Inv
<1>1. Init => Inv
  BY InitTypes, InitStore, InitControl, InitData DEF Inv
<1>2. Inv /\ [Next]_vars => Inv'
  <2> SUFFICES ASSUME Inv, [Next]_vars PROVE Inv'
    OBVIOUS
  <2>1. Types'
    BY NextTypes DEF Inv
  <2> QED  BY <2>1, NextStore, NextControl, NextData DEF Inv
<1> QED  BY <1>1, <1>2, PTL DEF Spec

(* Update stores the chunks before it records the document, and a job      *)
(* leaves the queue only when that is done: a document recorded as indexed *)
(* has the chunks of that content, or a queued job brings others.  Left    *)
(* out are the deletions that stopped after the chunks, and documents that *)
(* returned to the recorded content while an update was queued.            *)
THEOREM ChunksMatchRecords == Spec => []IndexedHasChunks
<1>1. Inv => IndexedHasChunks
  BY DEF Inv, StoreInv, IndexedHasChunks
<1> QED  BY <1>1, Invariance, PTL

(* After a full build whose deletions succeeded, nothing is left of the    *)
(* documents that were absent throughout, and chunks are never without an  *)
(* entry by which deleteMissing can find them.                             *)
THEOREM FullBuildsClean == Spec => []NothingStaleStays
<1>1. Inv => NothingStaleStays
  BY DEF Inv, Types, ControlType, StoreInv, DataInv, GoneOK, NothingStaleStays
<1> QED  BY <1>1, Invariance, PTL

(* A run that finishRun recorded as complete, on whose strength later      *)
(* builds skip the entity, left every document that has not changed since  *)
(* in the stores of its phase, and indexed or queued.                      *)
THEOREM CompleteRunsAreTrue == Spec => []CompleteIsTrue
<1>1. Inv => CompleteIsTrue
  BY DEF Inv, DataInv, CompleteOK, CompleteIsTrue, HasFields, InQueue
<1> QED  BY <1>1, Invariance, PTL

(* A document of an entity that the build scans, and that was in the       *)
(* source all along, stays in every store that has it.                     *)
LEMMA LiveStep ==
    ASSUME Inv, [Next]_vars, NEW d \in kept, collected(EntityOf[d])
    PROVE  /\ records[d] # 0 => records'[d] # 0
           /\ mirror[d] # 0 => mirror'[d] # 0
           /\ Tracked(d) => Tracked(d)'
<1> DEFINE Stays == /\ records[d] # 0 => records'[d] # 0
                    /\ mirror[d] # 0 => mirror'[d] # 0
                    /\ Tracked(d) => Tracked(d)'
<1>0. Types /\ ControlInv /\ DataInv /\ d \in Docs /\ op \notin {"idle", "embed"}
  BY DEF Inv, Types, ControlType, ControlInv, HistoryInv
<1>1. CASE UNCHANGED <<records, mirror, queue, docs>>
  BY <1>1 DEF Tracked
<1>2. ASSUME NEW x \in Docs, NEW c \in Contents \cup {0}, Edit(x, c)
      PROVE  Stays
  BY <1>1, <1>2 DEF Edit, stores
<1>3. CASE Warmup \/ Command \/ Ended \/ Swept \/ FullReturns \/ EmbedReturns \/ StartEmbed
  <2>1. UNCHANGED stores
    BY <1>3 DEF Warmup, Command, Begin, Ended, Return, Swept, FullReturns, EmbedReturns, StartEmbed
  <2> QED  BY <1>1, <2>1 DEF stores
<1>4. CASE Interrupt \/ Crash \/ UNCHANGED vars
  BY <1>1, <1>4 DEF Interrupt, Crash, vars, stores
<1>5. ASSUME NEW e \in Entities, Job(e)
      PROVE  Stays
  <2>0. Present(e) \subseteq Docs /\ \A x \in Present(e) : job[e].found[x] # 0
    BY <1>0, PresentIs DEF Types
  <2>1. CASE SkipFresh(e) \/ NeverBegins(e) \/ FetchFails(e) \/ NoFields(e) \/ BeginJob(e)
             \/ JobFails(e) \/ JobComplete(e) \/ \E P \in SUBSET job[e].left : FetchPage(e, P)
    <3>1. UNCHANGED stores
      BY <2>1 DEF SkipFresh, NeverBegins, FetchFails, NoFields, BeginJob, JobFails, JobComplete,
            finishRun, FetchPage
    <3> QED  BY <1>1, <3>1 DEF stores
  <2>2. CASE buildPageFields(e)
    <3>1. UNCHANGED <<queue, docs>>
      BY <2>2 DEF buildPageFields
    <3> QED  BY <1>0, <2>0, <2>2, <3>1, FieldsIs DEF Tracked
  <2>3. CASE FieldsFail(e)
    <3>1. UNCHANGED <<queue, docs>>
      BY <2>3 DEF FieldsFail
    <3> QED  BY <1>0, <2>0, <2>3, <3>1, FieldsFailIs DEF Tracked
  <2>4. CASE EnqueuePage(e)
    <3>1. UNCHANGED <<records, mirror, docs>>
      BY <2>4 DEF EnqueuePage
    <3>2. queue'[d] = queue[d] \/ queue'[d] # 0 \/ Indexed(d, job[e].found[d])
      BY <1>0, <2>0, <2>4, EnqueuePageIs
    <3>3. Indexed(d, job[e].found[d]) => docs[d].status = "indexed"
      BY DEF Indexed
    <3> QED  BY <3>1, <3>2, <3>3 DEF Tracked
  <2>5. ASSUME NEW x \in Of(e), Tombstone(e, x)
        PROVE  Stays
    <3>1. x \in Docs /\ job[e].pc = "tombstones" /\ x \in job[e].page
      BY <2>5, OfIs DEF Tombstone
    <3>2. x # d
      BY <1>0, <3>1 DEF ControlInv, JobInv, Shape, Fetched
    <3>3. CASE UNCHANGED <<records, mirror, queue, docs, chunks, torn>>
      BY <1>1, <3>3
    <3>4. ASSUME NEW k \in 0 .. 4, Delete(x, k), records' = [records EXCEPT ![x] = 0]
          PROVE  Stays
      <4>1. Others(x)
        BY <1>0, <3>1, <3>4, DeleteIs DEF Types, ControlType
      <4>2. records'[d] = records[d]
        BY <1>0, <3>2, <3>4 DEF Types, StoreType
      <4> QED  BY <1>0, <3>2, <4>1, <4>2 DEF Others, Tracked
    <3> QED  BY <1>0, <2>5, <3>1, <3>3, <3>4, TombstoneIs
  <2> QED  BY <1>5, <2>1, <2>2, <2>3, <2>4, <2>5 DEF Job
<1>6. ASSUME NEW x \in Docs, SweepIndex(x) \/ SweepData(x)
      PROVE  Stays
  <2>1. op \in {"sweep", "sweepData"} /\ x \in todo
    BY <1>6 DEF SweepIndex, SweepData
  <2>2. x # d
    BY <1>0, <2>1, SweptIsStale
  <2>3. CASE SweepIndex(x)
    <3>1. PICK k \in 0 .. 4 : Delete(x, k)
      BY <2>3 DEF SweepIndex
    <3>2. Others(x) /\ UNCHANGED records
      BY <1>0, <2>3, <3>1, DeleteIs DEF SweepIndex, Types, ControlType
    <3> QED  BY <1>0, <2>2, <3>2 DEF Others, Tracked
  <2>4. CASE SweepData(x)
    <3>1. UNCHANGED <<mirror, queue, docs>> /\ records'[d] = records[d]
      BY <1>0, <2>2, <2>4 DEF SweepData, Types, StoreType
    <3> QED  BY <3>1 DEF Tracked
  <2> QED  BY <1>6, <2>3, <2>4
<1>7. ASSUME NEW x \in Docs, Embed(x) \/ EmbedFails(x) \/ EmbedStops(x)
      PROVE  FALSE
  BY <1>0, <1>7 DEF Embed, EmbedFails, EmbedStops
<1>8. Stays
  BY <1>2, <1>3, <1>4, <1>5, <1>6, <1>7 DEF Next, Step
<1> QED  BY <1>8

(* No build removes a document that was in the source all along and whose  *)
(* entity the build scans from any store, although jobs fail, are          *)
(* cancelled or are skipped: deleteMissing runs only after every job of a  *)
(* full build has scanned its entity.  Of the entities that a full build   *)
(* of one phase leaves out it says nothing: those documents are deleted.   *)
THEOREM BuildsKeepLiveDocuments == Spec => LiveDocumentsStay
<1>1. Inv /\ [Next]_vars =>
         [\A d \in kept : collected(EntityOf[d]) =>
             /\ records[d] # 0 => records'[d] # 0
             /\ mirror[d] # 0 => mirror'[d] # 0
             /\ Tracked(d) => Tracked(d)']_vars
  BY LiveStep
<1> QED  BY <1>1, Invariance, PTL DEF Spec, LiveDocumentsStay
=============================================================================
