-------------------------- MODULE DatasourceIndex --------------------------
(***************************************************************************)
(* The datasource index (orchestration/datasourceindex, runtime/           *)
(* datasource/semantic): builds copy the documents of a source into the    *)
(* data store and the mirror and queue them for embedding, full builds     *)
(* delete what they did not see, and embedding runs empty the queue.       *)
(*                                                                         *)
(* One build or embedding run is in progress at a time, as in one process; *)
(* the jobs of a build run concurrently, one per entity, and the source    *)
(* changes at any time.  A content is a number, 0 for a document that is   *)
(* absent.  Every document of a store is written by one job, so a call     *)
(* that writes several stores is one action that takes effect up to the    *)
(* write that fails; a process that stops half-way is such a failure       *)
(* followed by Crash.                                                      *)
(***************************************************************************)
EXTENDS Naturals, FiniteSets

CONSTANTS
    Docs,           \* documents
    Entities,       \* entities of the indexed datasources
    EntityOf,       \* the entity of a document
    FieldEntities,      \* entities with EntityCapabilityIndex
    SemanticEntities,   \* entities with EntityCapabilitySemanticSearch
    Contents,       \* contents of documents, positive
    Phases,         \* phases builds are asked for
    Requests,       \* requests of the build command
    MaxCommands,    \* bound: uses of it
    MaxEdits,       \* bound: changes of the source
    MaxFaults       \* bound: failing calls of a store, a source or an embedder,
                    \* and stops of the process

ASSUME IndexAssumption ==
    /\ EntityOf \in [Docs -> Entities]
    /\ FieldEntities \subseteq Entities /\ SemanticEntities \subseteq Entities
    /\ Contents \subseteq Nat \ {0} /\ Contents # {}
    /\ "all" \in Phases /\ Phases \subseteq {"all", "fields", "semantic"}
    /\ Requests \subseteq [full : BOOLEAN, force : BOOLEAN, phase : Phases,
                            entity : Entities \cup {"any"}]

VARIABLES
    source,         \* contents of the source
    records,        \* contents in the data store
    mirror,         \* structured records of the index
    queue,          \* queued jobs of the index, queued or failed
    docs,           \* document states of the index
    chunks,         \* contents the chunks of a document were made of
    dataRun, indexRun,  \* index runs, in the data store and in the index
    op,             \* the operation in progress
    req,            \* the request of the build
    job,            \* the jobs of the build
    seen,           \* documents the build has seen
    err,            \* a job has failed and the others are cancelled
    bad,            \* a deletion of the sweep has failed
    todo,           \* what a sweep or an embedding run has left to do
    commands, edits, faults,
    \* history, for the properties
    kept,           \* documents present without a break since the build began
    gone,           \* documents absent since the last successful full build began
    began,          \* documents unchanged since the job began
    stable,         \* documents unchanged since the run that is recorded complete began
    torn            \* documents whose deletion stopped after the chunks, or that
                    \* returned to the recorded content while an update was queued

stores == <<records, mirror, queue, docs, chunks>>
runs == <<dataRun, indexRun>>
bounds == <<commands, edits, faults>>
ghosts == <<kept, gone, began, stable, torn>>
vars == <<source, stores, runs, op, req, job, seen, err, bad, todo, bounds, ghosts>>

Absent == [d \in Docs |-> 0]
NoJob == [pc |-> "none", left |-> {}, page |-> {}, found |-> Absent, failed |-> FALSE]
NoRequest == [full |-> FALSE, force |-> FALSE, phase |-> "all", entity |-> "any"]
NotIndexed == [content |-> 0, status |-> "none"]

Init ==
    /\ source = [d \in Docs |-> CHOOSE c \in Contents : TRUE]
    /\ records = Absent /\ mirror = Absent /\ queue = Absent /\ chunks = Absent
    /\ docs = [d \in Docs |-> NotIndexed]
    /\ dataRun = [e \in Entities |-> [p \in Phases |-> "none"]] /\ indexRun = dataRun
    /\ op = "idle" /\ req = NoRequest /\ job = [e \in Entities |-> NoJob]
    /\ seen = {} /\ err = FALSE /\ bad = FALSE /\ todo = {}
    /\ commands = 0 /\ edits = 0 /\ faults = 0
    /\ kept = {} /\ gone = {} /\ torn = {}
    /\ began = [e \in Entities |-> {}]
    /\ stable = [e \in Entities |-> [p \in Phases |-> {}]]

Of(e) == {d \in Docs : EntityOf[d] = e}
buildFields(e) == req.phase \in {"all", "fields"} /\ e \in FieldEntities
enqueueSemantic(e) == req.phase \in {"all", "semantic"} /\ e \in SemanticEntities
Selected(e) == req.entity \in {"any", e}
collected(e) == Selected(e) /\ (buildFields(e) \/ enqueueSemantic(e))

(* A call fails, or is refused because the context was cancelled.          *)
Fault == faults < MaxFaults /\ faults' = faults + 1 /\ UNCHANGED <<commands, edits>>
CallFails == Fault \/ (err /\ UNCHANGED bounds)

-----------------------------------------------------------------------------
(* The source.                                                             *)

Changed(d) ==
    /\ kept' = IF source'[d] = 0 THEN kept \ {d} ELSE kept
    /\ gone' = gone \ {d}
    /\ began' = [e \in Entities |-> began[e] \ {d}]
    /\ stable' = [e \in Entities |-> [p \in Phases |-> stable[e][p] \ {d}]]
    /\ UNCHANGED torn

(* A document is added, edited, possibly back to an earlier content, or    *)
(* removed, at any time.  Sweeps and embedding runs do not look at the     *)
(* source: a change during one is not told from a change after it.         *)
Edit(d, c) ==
    /\ op \in {"idle", "build"} /\ edits < MaxEdits /\ source[d] # c
    /\ source' = [source EXCEPT ![d] = c]
    /\ Changed(d)
    /\ edits' = edits + 1
    /\ UNCHANGED <<stores, runs, op, req, job, seen, err, bad, todo, commands, faults>>

-----------------------------------------------------------------------------
(* Build.                                                                  *)

Begin(r) ==
    /\ op = "idle" /\ op' = "build" /\ req' = r
    /\ job' = [e \in Entities |->
                 IF collected(e)' THEN [NoJob EXCEPT !.pc = "waiting", !.left = Of(e)] ELSE NoJob]
    /\ seen' = {} /\ err' = FALSE /\ bad' = FALSE /\ todo' = {}
    /\ kept' = {d \in Docs : source[d] # 0}
    /\ UNCHANGED <<source, stores, runs, edits, faults, gone, began, stable, torn>>

(* startDatasourceIndexWarmup.                                             *)
Warmup == Begin(NoRequest) /\ UNCHANGED commands

(* datasource index build, with its flags.                                 *)
Command ==
    /\ commands < MaxCommands /\ commands' = commands + 1
    /\ \E r \in Requests : Begin(r)

UpdateJob(e, j) == job' = [job EXCEPT ![e] = j]
JobStep(e, from, to) == op = "build" /\ job[e].pc = from /\ UpdateJob(e, [job[e] EXCEPT !.pc = to])

(* A complete run may be recent enough: the data store is asked first, the *)
(* index when it has no run or one that failed.                            *)
mayBeFresh(e) ==
    /\ ~req.full /\ ~req.force
    /\ \/ dataRun[e][req.phase] = "complete"
       \/ dataRun[e][req.phase] \in {"none", "failed"} /\ indexRun[e][req.phase] = "complete"

SkipFresh(e) ==
    /\ JobStep(e, "waiting", "over") /\ mayBeFresh(e)
    /\ UNCHANGED <<source, stores, runs, op, req, seen, err, bad, todo, bounds, ghosts>>

(* The question fails, or the dispatching loop stops: the job never begins. *)
NeverBegins(e) ==
    /\ JobStep(e, "waiting", "over") /\ CallFails
    /\ err' = TRUE
    /\ UNCHANGED <<source, stores, runs, op, req, seen, bad, todo, ghosts>>

(* putDataIndexRun and PutIndexRun: their errors are ignored.              *)
PutRuns(e, run, data, index) ==
    /\ dataRun' = IF data THEN [dataRun EXCEPT ![e][req.phase] = run] ELSE dataRun
    /\ indexRun' = IF index THEN [indexRun EXCEPT ![e][req.phase] = run] ELSE indexRun

BeginJob(e) ==
    /\ JobStep(e, "waiting", "paging")
    /\ \E data, index \in BOOLEAN :
          /\ PutRuns(e, "running", data, index)
          /\ IF data /\ index THEN UNCHANGED bounds ELSE CallFails
    /\ began' = [began EXCEPT ![e] = Of(e)]
    /\ UNCHANGED <<source, stores, op, req, seen, err, bad, todo, kept, gone, stable, torn>>

(* Mutant: failures of single documents do not fail the run.               *)
finishRun_IgnoresFailed(e, fails) ==
    LET status == IF fails THEN "failed" ELSE "complete" IN
    /\ UpdateJob(e, [NoJob EXCEPT !.pc = "over"])
    /\ PutRuns(e, status, TRUE, TRUE)
    /\ UNCHANGED bounds
    /\ stable' = IF status = "complete" THEN [stable EXCEPT ![e][req.phase] = began[e]] ELSE stable
    /\ UNCHANGED <<source, stores, op, req, seen, err, bad, todo, kept, gone, began, torn>>

(* finishRun: a run in which any document failed has failed.               *)
finishRun(e, fails) ==
    LET status == IF fails \/ job[e].failed THEN "failed" ELSE "complete" IN
    /\ UpdateJob(e, [NoJob EXCEPT !.pc = "over"])
    /\ \E data, index \in BOOLEAN :
          /\ PutRuns(e, status, data, index)
          /\ IF data /\ index THEN UNCHANGED bounds ELSE Fault
          /\ stable' = IF data /\ status = "complete"
                         THEN [stable EXCEPT ![e][req.phase] = began[e]] ELSE stable
    /\ UNCHANGED <<source, stores, op, req, seen, err, bad, todo, kept, gone, began, torn>>

(* A page holds what the source has now of the documents P; those it lacks *)
(* may be reported as tombstones.                                          *)
FetchPage(e, P) ==
    /\ op = "build" /\ job[e].pc = "paging"
    /\ P \subseteq job[e].left /\ P # {}
    /\ \E T \in SUBSET {d \in P : source[d] = 0} :
          UpdateJob(e, [job[e] EXCEPT !.pc = "fields", !.left = @ \ P,
                          !.page = {d \in P : source[d] # 0} \cup T,
                          !.found = [d \in Docs |-> IF d \in P THEN source[d] ELSE 0]])
    /\ seen' = seen \cup {d \in P : source[d] # 0}
    /\ UNCHANGED <<source, stores, runs, op, req, err, bad, todo, bounds, ghosts>>

(* Corpus fails, or the build was cancelled.                               *)
FetchFails(e) ==
    /\ JobStep(e, "paging", "failing") /\ CallFails
    /\ err' = TRUE
    /\ UNCHANGED <<source, stores, runs, op, req, seen, bad, todo, ghosts>>

JobFails(e) == op = "build" /\ job[e].pc = "failing" /\ finishRun(e, TRUE)

JobComplete(e) ==
    op = "build" /\ job[e].pc = "paging" /\ job[e].left = {} /\ finishRun(e, FALSE)

Present(e) == {d \in job[e].page : job[e].found[d] # 0}
Stored(s, e, D) == [d \in Docs |-> IF d \in D THEN job[e].found[d] ELSE s[d]]
Drop(e, D) ==
    [job[e] EXCEPT !.pc = "enqueue", !.page = @ \ D, !.failed = TRUE,
       !.found = [d \in Docs |-> IF d \in D THEN 0 ELSE @[d]]]

NoFields(e) ==
    /\ JobStep(e, "fields", "enqueue") /\ (~buildFields(e) \/ Present(e) = {})
    /\ UNCHANGED <<source, stores, runs, op, req, seen, err, bad, todo, bounds, ghosts>>

(* buildPageFields: records and relations of the data store, then the      *)
(* mirror.  Documents that fail are not enqueued.                          *)
buildPageFields(e) ==
    /\ buildFields(e) /\ Present(e) # {} /\ JobStep(e, "fields", "enqueue")
    /\ records' = Stored(records, e, Present(e)) /\ mirror' = Stored(mirror, e, Present(e))
    /\ UNCHANGED <<source, queue, docs, chunks, runs, op, req, seen, err, bad, todo, bounds, ghosts>>

(* Mutant: a document counts as seen when it has been stored.              *)
FieldsFail_Unseen(e) ==
    /\ buildFields(e) /\ Present(e) # {} /\ op = "build" /\ job[e].pc = "fields" /\ CallFails
    /\ UpdateJob(e, Drop(e, Present(e)))
    /\ seen' = seen \ Present(e)
    /\ UNCHANGED <<source, stores, runs, op, req, err, bad, todo, ghosts>>

FieldsFail(e) ==
    /\ buildFields(e) /\ Present(e) # {} /\ op = "build" /\ job[e].pc = "fields" /\ CallFails
    /\ \/ UNCHANGED <<records, mirror>> /\ UpdateJob(e, Drop(e, Present(e)))
       \/ /\ records' = Stored(records, e, Present(e))
          /\ \E D \in SUBSET Present(e) \ {{}} :
                mirror' = Stored(mirror, e, Present(e) \ D) /\ UpdateJob(e, Drop(e, D))
    /\ UNCHANGED <<source, queue, docs, chunks, runs, op, req, seen, err, bad, todo, ghosts>>

Handled(e, D, fails) ==
    UpdateJob(e, [job[e] EXCEPT !.page = @ \ D, !.failed = @ \/ fails,
                    !.found = [d \in Docs |-> IF d \in D THEN 0 ELSE @[d]],
                    !.pc = IF job[e].page = D THEN "paging" ELSE "tombstones"])

Indexed(d, c) == docs[d] = [content |-> c, status |-> "indexed"]

(* A document has returned to the content it is recorded with, while a job *)
(* with another content is queued.                                         *)
Reverted(d, c) == Indexed(d, c) /\ queue[d] \notin {0, c}

(* Enqueue: what is indexed already is taken off the queue.                *)
Enqueue(e, D) ==
    /\ queue' = [d \in Docs |-> IF d \notin D THEN queue[d]
                                ELSE IF Indexed(d, job[e].found[d]) THEN 0 ELSE job[e].found[d]]
    /\ torn' = torn \cup {d \in D : Reverted(d, job[e].found[d])}

(* The documents of the page one after the other; some may fail.           *)
EnqueuePage(e) ==
    /\ op = "build" /\ job[e].pc = "enqueue"
    /\ \/ ~enqueueSemantic(e) /\ UNCHANGED <<queue, torn, bounds>> /\ Handled(e, Present(e), FALSE)
       \/ enqueueSemantic(e) /\ Enqueue(e, Present(e)) /\ UNCHANGED bounds
          /\ Handled(e, Present(e), FALSE)
       \/ /\ enqueueSemantic(e) /\ CallFails
          /\ \E F \in SUBSET Present(e) \ {{}} : Enqueue(e, Present(e) \ F)
          /\ Handled(e, Present(e), TRUE)
    /\ UNCHANGED <<source, records, mirror, docs, chunks, runs, op, req, seen, err, bad, todo, kept,
                   gone, began, stable>>

(* Mutant: the queued job is forgotten.                                    *)
Delete_KeepsQueue(d, k) ==
    /\ chunks' = IF k >= 1 THEN [chunks EXCEPT ![d] = 0] ELSE chunks
    /\ docs' = IF k >= 2 THEN [docs EXCEPT ![d] = NotIndexed] ELSE docs
    /\ mirror' = IF k >= 3 THEN [mirror EXCEPT ![d] = 0] ELSE mirror
    /\ UNCHANGED queue
    /\ torn' = CASE k = 0 -> torn [] k = 1 -> torn \cup {d} [] k > 1 -> torn \ {d}
    /\ (k = 4 /\ UNCHANGED bounds) \/ (k < 4 /\ CallFails)

(* Index.Delete: chunks, document, record and queued job, as far as step k. *)
Delete(d, k) ==
    /\ chunks' = IF k >= 1 THEN [chunks EXCEPT ![d] = 0] ELSE chunks
    /\ docs' = IF k >= 2 THEN [docs EXCEPT ![d] = NotIndexed] ELSE docs
    /\ mirror' = IF k >= 3 THEN [mirror EXCEPT ![d] = 0] ELSE mirror
    /\ queue' = IF k >= 4 THEN [queue EXCEPT ![d] = 0] ELSE queue
    /\ torn' = CASE k = 0 -> torn [] k = 1 -> torn \cup {d} [] k > 1 -> torn \ {d}
    /\ (k = 4 /\ UNCHANGED bounds) \/ (k < 4 /\ CallFails)

(* A tombstone of the page, after its documents.                           *)
Tombstone(e, d) ==
    /\ op = "build" /\ job[e].pc = "tombstones" /\ d \in job[e].page
    /\ \/ /\ CallFails /\ UNCHANGED <<stores, torn>>
          /\ Handled(e, {d}, TRUE)
       \/ /\ records' = [records EXCEPT ![d] = 0]
          /\ \E k \in 0 .. 4 : Delete(d, k) /\ Handled(e, {d}, k < 4)
    /\ UNCHANGED <<source, runs, op, req, seen, err, bad, todo, kept, gone, began, stable>>

(* The process is interrupted: the context ends.                           *)
Interrupt ==
    /\ op = "build" /\ ~err /\ Fault
    /\ err' = TRUE
    /\ UNCHANGED <<source, stores, runs, op, req, job, seen, bad, todo, ghosts>>

-----------------------------------------------------------------------------
(* The end of a build.                                                     *)

JobsOver == op = "build" /\ \A e \in Entities : job[e].pc \in {"none", "over"}
Known(d) == docs[d].status # "none" \/ mirror[d] # 0 \/ queue[d] # 0

Return(to) ==
    /\ op' = to /\ job' = [e \in Entities |-> NoJob] /\ req' = NoRequest
    /\ seen' = {} /\ err' = FALSE /\ bad' = FALSE /\ todo' = {} /\ kept' = {}
    /\ began' = [e \in Entities |-> {}]
    /\ UNCHANGED <<source, stores, runs, bounds, stable, torn>>

(* Without an error, a full build goes on to delete what it did not see.   *)
Ended ==
    /\ JobsOver
    /\ IF req.full /\ ~err
         THEN /\ op' = "sweep"
              /\ todo' = {d \in Docs : Selected(EntityOf[d]) /\ Known(d) /\ d \notin seen}
              /\ UNCHANGED <<source, stores, runs, req, job, seen, err, bad, bounds, ghosts>>
         ELSE Return("idle") /\ UNCHANGED gone

(* What a build deletes of an entity it did not scan is not stale: the     *)
(* recorded runs of that entity say more than is stored from here on.      *)
Forget(d) ==
    stable' = IF collected(EntityOf[d]) THEN stable
              ELSE [stable EXCEPT ![EntityOf[d]] = [p \in Phases |-> @[p] \ {d}]]

(* A document whose deletion failed is tried again when another list of    *)
(* the status holds it too.                                                *)
SweepIndex(d) ==
    /\ op = "sweep" /\ d \in todo
    /\ \E k \in 0 .. 4 :
          /\ Delete(d, k) /\ bad' = (bad \/ k < 4)
          /\ todo' = todo \ {d} \/ (k < 4 /\ UNCHANGED todo)
    /\ Forget(d)
    /\ UNCHANGED <<source, records, runs, op, req, job, seen, err, kept, gone, began>>

Swept ==
    /\ op = "sweep" /\ todo = {}
    /\ op' = "sweepData"
    /\ todo' = {d \in Docs : Selected(EntityOf[d]) /\ records[d] # 0 /\ d \notin seen}
    /\ UNCHANGED <<source, stores, runs, req, job, seen, err, bad, bounds, ghosts>>

(* deleteMissingDataRecords.                                               *)
SweepData(d) ==
    /\ op = "sweepData" /\ d \in todo
    /\ todo' = todo \ {d}
    /\ \/ records' = [records EXCEPT ![d] = 0] /\ UNCHANGED <<bad, bounds>>
       \/ Fault /\ bad' = TRUE /\ UNCHANGED records
    /\ Forget(d)
    /\ UNCHANGED <<source, mirror, queue, docs, chunks, runs, op, req, job, seen, err, kept, gone,
                   began, torn>>

FullReturns ==
    /\ op = "sweepData" /\ todo = {}
    /\ gone' = IF bad THEN gone
               ELSE gone \cup {d \in Docs : /\ collected(EntityOf[d])
                                            /\ source[d] = 0 /\ d \in began[EntityOf[d]]}
    /\ Return("idle")

-----------------------------------------------------------------------------
(* ProcessQueue.                                                           *)

StartEmbed ==
    /\ op = "idle" /\ \E d \in Docs : queue[d] # 0
    /\ op' = "embed" /\ todo' = {d \in Docs : queue[d] # 0}
    /\ UNCHANGED <<source, stores, runs, req, job, seen, err, bad, bounds, ghosts>>

(* Mutant: the document is recorded before its chunks are.                 *)
Update_DocumentFirst(d, k) ==
    LET c == queue[d] IN
    /\ docs' = IF k >= 1 THEN [docs EXCEPT ![d] = [content |-> c, status |-> "indexed"]] ELSE docs
    /\ chunks' = CASE k \in {0, 1} -> chunks
                   [] k = 2 -> [chunks EXCEPT ![d] = 0]
                   [] k = 3 -> [chunks EXCEPT ![d] = c]
    /\ torn' = IF k = 3 THEN torn \ {d} ELSE torn

(* Update: chunks are deleted, stored, and the document is recorded, as    *)
(* far as step k.                                                          *)
Update(d, k) ==
    LET c == queue[d] IN
    /\ chunks' = CASE k = 0 -> chunks
                   [] k = 1 -> [chunks EXCEPT ![d] = 0]
                   [] k \in {2, 3} -> [chunks EXCEPT ![d] = c]
    /\ docs' = IF k = 3 THEN [docs EXCEPT ![d] = [content |-> c, status |-> "indexed"]] ELSE docs
    /\ torn' = IF k = 3 THEN torn \ {d} ELSE torn

(* The job leaves the queue when its document is indexed or was before.    *)
Embed(d) ==
    /\ op = "embed" /\ d \in todo
    /\ todo' = todo \ {d}
    /\ IF Indexed(d, queue[d]) THEN UNCHANGED <<chunks, docs, torn>> ELSE Update(d, 3)
    /\ queue' = [queue EXCEPT ![d] = 0]
    /\ UNCHANGED <<source, records, mirror, runs, op, req, job, seen, err, bad, bounds, kept, gone,
                   began, stable>>

(* The embedder fails and the document is recorded as failed, or a store   *)
(* does; the job stays and the next one is tried.                          *)
EmbedFails(d) ==
    /\ op = "embed" /\ d \in todo /\ ~Indexed(d, queue[d]) /\ Fault
    /\ todo' = todo \ {d}
    /\ \/ /\ docs' = [docs EXCEPT ![d] = [content |-> queue[d], status |-> "failed"]]
          /\ UNCHANGED <<chunks, torn>>
       \/ \E k \in 0 .. 2 : Update(d, k)
    /\ UNCHANGED <<source, records, mirror, queue, runs, op, req, job, seen, err, bad, kept, gone,
                   began, stable>>

(* The job of an indexed document cannot be deleted: ProcessQueue returns. *)
EmbedStops(d) ==
    /\ op = "embed" /\ d \in todo /\ Fault
    /\ IF Indexed(d, queue[d]) THEN UNCHANGED <<chunks, docs, torn>> ELSE Update(d, 3)
    /\ op' = "idle" /\ todo' = {}
    /\ UNCHANGED <<source, records, mirror, queue, runs, req, job, seen, err, bad, kept, gone,
                   began, stable>>

EmbedReturns ==
    /\ op = "embed" /\ todo = {}
    /\ op' = "idle"
    /\ UNCHANGED <<source, stores, runs, req, job, seen, err, bad, todo, bounds, ghosts>>

-----------------------------------------------------------------------------
(* The process stops, in any operation.                                    *)
Crash ==
    /\ op # "idle" /\ Fault
    /\ op' = "idle" /\ job' = [e \in Entities |-> NoJob] /\ req' = NoRequest
    /\ seen' = {} /\ err' = FALSE /\ bad' = FALSE /\ todo' = {} /\ kept' = {}
    /\ began' = [e \in Entities |-> {}]
    /\ UNCHANGED <<source, stores, runs, gone, stable, torn>>

Job(e) ==
    \/ SkipFresh(e) \/ NeverBegins(e) \/ BeginJob(e)
    \/ (\E P \in SUBSET job[e].left : FetchPage(e, P)) \/ FetchFails(e) \/ JobFails(e) \/ JobComplete(e)
    \/ NoFields(e) \/ buildPageFields(e) \/ FieldsFail(e)
    \/ EnqueuePage(e) \/ \E d \in Of(e) : Tombstone(e, d)

Step ==
    \/ \E e \in Entities : Job(e)
    \/ Ended \/ Swept \/ FullReturns
    \/ \E d \in Docs : SweepIndex(d) \/ SweepData(d) \/ Embed(d) \/ EmbedFails(d) \/ EmbedStops(d)
    \/ EmbedReturns

Next ==
    \/ \E d \in Docs, c \in Contents \cup {0} : Edit(d, c)
    \/ Warmup \/ Command \/ StartEmbed
    \/ Step \/ Interrupt \/ Crash

Spec == Init /\ [][Next]_vars

-----------------------------------------------------------------------------
(* Properties.                                                             *)

(* Every variable has its type, and an embedding run works on queued jobs. *)
TypeOK ==
    /\ \A s \in {source, records, mirror, queue, chunks} : s \in [Docs -> Contents \cup {0}]
    /\ docs \in [Docs -> [content : Contents \cup {0}, status : {"none", "indexed", "failed"}]]
    /\ \A e \in Entities : job[e].page \subseteq Of(e) /\ job[e].left \subseteq Of(e)
    /\ \A e \in Entities : \A d \in Docs : job[e].found[d] # 0 => d \in job[e].page
    /\ op = "embed" => \A d \in todo : queue[d] # 0
    /\ todo \subseteq Docs /\ seen \subseteq Docs /\ torn \subseteq Docs

(* What the index and the stores keep of a document.                       *)
Tracked(d) == queue[d] # 0 \/ docs[d].status # "none"

(* No build removes a document that was in the source all along, from any  *)
(* store, although jobs fail, are cancelled or are skipped: deleting what  *)
(* was not seen is safe only after every job of a full build has scanned   *)
(* its entity.  This is so for the entities the build scans; a full build  *)
(* of one phase deletes the documents of the entities it leaves out.       *)
LiveDocumentsStay ==
    [][\A d \in kept : collected(EntityOf[d]) =>
          /\ records[d] # 0 => records'[d] # 0
          /\ mirror[d] # 0 => mirror'[d] # 0
          /\ Tracked(d) => Tracked(d)']_vars

(* A run that is recorded as complete, and lets later builds skip the      *)
(* entity, has left every document that has not changed since it began in  *)
(* the stores of its phase, and indexed or queued.                         *)
CompleteIsTrue ==
    \A e \in Entities, p \in Phases :
        dataRun[e][p] = "complete" =>
            \A d \in stable[e][p] : source[d] # 0 =>
                /\ p \in {"all", "fields"} /\ e \in FieldEntities =>
                      records[d] = source[d] /\ mirror[d] = source[d]
                /\ p \in {"all", "semantic"} /\ e \in SemanticEntities =>
                      queue[d] = source[d] \/ Indexed(d, source[d])

(* A document that is recorded as indexed has the chunks of that content,  *)
(* or a job with another content is queued for it: an update that stopped  *)
(* half-way, in a store or with the process, leaves something neither a    *)
(* build nor an embedding run takes for done.  Two cases are not found     *)
(* again, and are left out: a deletion that stopped after the chunks, and  *)
(* a document that returned to the recorded content during an update.      *)
IndexedHasChunks ==
    \A d \in Docs \ torn : docs[d].status = "indexed" =>
        chunks[d] = docs[d].content \/ queue[d] \notin {0, docs[d].content}

(* After a full build that deleted all it meant to, nothing is left of the *)
(* documents that were absent throughout, and chunks that searches would   *)
(* find are never without an entry by which a build can find them.         *)
NothingStaleStays ==
    /\ \A d \in gone : records[d] = 0 /\ ~Known(d)
    /\ \A d \in Docs : chunks[d] # 0 => Known(d)
=============================================================================
