----------------------------- MODULE CatalogRefresh -----------------------------
(***************************************************************************)
(* The capability catalog of one workspace: the rows that                  *)
(* storage/sqlite/sqlite.go keeps per graph version, the passes of         *)
(* index/catalog_runner.go that write them, and who starts passes: the     *)
(* indexer's publisher, whose refreshes wait for each other in the         *)
(* indexer's process, and the commands, which run a process of their own.  *)
(*                                                                         *)
(* A source has one catalog unit, and what the unit says is the version    *)
(* that last changed the source: 0 when there is none.  An entry holds the *)
(* text it was made from and the text its optional synopsis describes;     *)
(* catalog_search is written with catalog_entries in every transaction and *)
(* the vector tables with catalog_embeddings, so they have no variable.    *)
(***************************************************************************)
EXTENDS Naturals, FiniteSets

CONSTANTS
  N,           (* sources 1..N, in the order SourceContributions reads them *)
  BatchSize,   (* catalogCheckpointUnits, 8 in the code                     *)
  Retained,    (* retainedGraphVersions                                     *)
  MaxVersion,  (* bound: versions that are ever published                   *)
  Commands,    (* bound: catalog processes that are ever started            *)
  Scenarios    (* smaller bounds, the sources that may disappear, and what  *)
               (* the configuration asks for                                *)

Paths == 1..N
Versions == 1..MaxVersion

(* A refresh has the number of the version it is for.                      *)
Refreshes == Versions
Workers == (MaxVersion + 1)..(MaxVersion + Commands)
Passes == Refreshes \cup Workers

None == 0

Providers == {"none", "synopsis", "embedding", "both"}

ASSUME CatalogAssumption ==
  /\ N \in Nat /\ MaxVersion \in Nat \ {0} /\ Commands \in Nat
  /\ BatchSize \in Nat \ {0} /\ Retained \in Nat \ {0}
  /\ Scenarios \subseteq [versions : 1..MaxVersion, commands : 0..Commands,
                           removable : SUBSET (1..N), options : Providers]

VARIABLES
  published,   (* the rows of graph_versions                                *)
  content,     (* content[v][p]: what source p says in version v            *)
  entries,     (* catalog_entries                                           *)
  embeddings,  (* catalog_embeddings: the texts embedded for each source    *)
  task,        (* the row of catalog_tasks                                  *)
  publisher,   (* the indexer's publisher, between its calls of the store   *)
  tail,        (* catalogRefreshes.tails of the indexer's process           *)
  pass,        (* the passes                                                *)
  stop,        (* the task a catalog-stop is about to record                *)
  scenario     (* the member of Scenarios, which stays                      *)

store == <<published, content, entries, embeddings>>
vars == <<store, task, publisher, tail, pass, stop, scenario>>

NoEntry == [text |-> None, synopsis |-> None]
NoVectors == [text |-> None, synopsis |-> None]
NoTask == [version |-> 0, state |-> "none", owner |-> 0]
NoRead == [batch |-> {}, entries |-> <<>>, embeddings |-> <<>>]

NoPass == [pc |-> "idle", result |-> "none", version |-> 0, previous |-> 0,
           changed |-> {}, after |-> 0, phase |-> 1,
           units |-> <<>>, todo |-> {}, read |-> NoRead, sound |-> FALSE]

(* An indexed workspace, cataloged without synopses or not at all.         *)
Init ==
  /\ published = {1}
  /\ content = [v \in Versions |-> [p \in Paths |-> IF v = 1 THEN 1 ELSE None]]
  /\ \E cataloged \in {None, 1} :
       entries = [v \in Versions |-> [p \in Paths |->
                    IF v = 1 THEN [NoEntry EXCEPT !.text = cataloged] ELSE NoEntry]]
  /\ embeddings = [v \in Versions |-> [p \in Paths |-> NoVectors]]
  /\ task = NoTask
  /\ publisher = [pc |-> "idle", previous |-> 0, version |-> 0, changed |-> {}]
  /\ tail = 0
  /\ pass = [i \in Passes |-> NoPass]
  /\ stop = NoTask
  /\ scenario \in Scenarios

Current == CHOOSE v \in published : \A u \in published : u <= v

-----------------------------------------------------------------------------
(* The store                                                               *)

(* Variant: a late pass takes the row back.                                *)
UpsertAlways(new) == new

(* WriteCatalogTask: ON CONFLICT ... WHERE the new version is not older.   *)
Upsert(new) == IF new.version >= task.version THEN new ELSE task

(* A write of the task whose error the caller ignores or only reports.     *)
Record(new) == task' \in {task, Upsert(new)}

(* What a publication may find of the sources S: changed or gone.          *)
Changes(S) ==
  {c \in [S -> {Current + 1, None}] : \A p \in S \ scenario.removable : c[p] # None}

(* A publication.  Pruning deletes all rows of the versions that leave the *)
(* window.                                                                 *)
Publish(changes) ==
  LET v == Current + 1
      new == [p \in Paths |-> IF p \in DOMAIN changes THEN changes[p]
                              ELSE content[Current][p]]
      kept == {u \in published \cup {v} : u + Retained > v}
  IN /\ published' = kept
     /\ content' = [u \in Versions |->
                      [p \in Paths |-> IF u = v THEN new[p]
                                       ELSE IF u \in kept THEN content[u][p] ELSE None]]
     /\ entries' = [u \in Versions |-> [p \in Paths |->
                      IF u \in kept THEN entries[u][p] ELSE NoEntry]]
     /\ embeddings' = [u \in Versions |-> [p \in Paths |->
                         IF u \in kept THEN embeddings[u][p] ELSE NoVectors]]

(* CopyCatalog: the rows of the source version for nodes that the target   *)
(* shows, over what is there.                                              *)
CopyCatalog(source, target) ==
  /\ entries' = [entries EXCEPT ![target] = [p \in Paths |->
       IF content[target][p] # None /\ entries[source][p] # NoEntry
       THEN entries[source][p] ELSE @[p]]]
  /\ embeddings' = [embeddings EXCEPT ![target] = [p \in Paths |->
       [k \in DOMAIN NoVectors |->
          IF content[target][p] # None /\ embeddings[source][p][k] # None
          THEN embeddings[source][p][k] ELSE @[p][k]]]]

-----------------------------------------------------------------------------
(* Who starts passes                                                       *)

(* newIndexerPublisher: the snapshot before, the batch, and the refresh.   *)
(* The manager calls it once at a time.                                    *)
PublisherOpens ==
  /\ publisher.pc = "idle" /\ Current < scenario.versions
  /\ publisher' = [publisher EXCEPT !.pc = "publish", !.previous = Current]
  /\ UNCHANGED <<store, task, tail, pass, stop, scenario>>

PublisherPublishes(S) ==
  /\ publisher.pc = "publish" /\ Current < scenario.versions
  /\ \E changes \in Changes(S) : Publish(changes)
  /\ publisher' = [publisher EXCEPT !.pc = "start", !.version = Current + 1,
                                    !.changed = S]
  /\ UNCHANGED <<task, tail, pass, stop, scenario>>

PublisherFails ==
  /\ publisher.pc = "publish"
  /\ publisher' = [publisher EXCEPT !.pc = "idle", !.previous = 0]
  /\ UNCHANGED <<store, task, tail, pass, stop, scenario>>

(* The task is recorded as queued, then StartRefresh puts the refresh      *)
(* behind the last one.                                                    *)
StartRefresh ==
  /\ publisher.pc = "start"
  /\ Record([version |-> publisher.version, state |-> "queued", owner |-> 0])
  /\ pass' = [pass EXCEPT ![publisher.version] =
       [NoPass EXCEPT !.pc = "waiting", !.version = publisher.version,
          !.previous = publisher.previous, !.changed = publisher.changed, !.after = tail]]
  /\ tail' = publisher.version
  /\ publisher' = [pc |-> "idle", previous |-> 0, version |-> 0, changed |-> {}]
  /\ UNCHANGED <<store, stop, scenario>>

(* The goroutine of StartRefresh, released by the refresh before it.       *)
RefreshIsReleased(i) ==
  /\ pass[i].pc = "waiting"
  /\ pass[i].after # 0 => pass[pass[i].after].pc \in {"closed", "done"}
  /\ LET failed == pass[i].after # 0 /\ pass[pass[i].after].result = "failed"
     IN pass' = [pass EXCEPT ![i].pc = "begin", ![i].after = 0,
                   ![i].previous = IF failed THEN 0 ELSE @,
                   ![i].changed = IF failed THEN {} ELSE @]
  /\ UNCHANGED <<store, task, publisher, tail, stop, scenario>>

(* index --catalog-background publishes, and starts a process unasked.     *)
IndexCommand(i) ==
  /\ pass[i].pc = "idle" /\ Current < scenario.versions
  /\ \E S \in SUBSET Paths : \E changes \in Changes(S) : Publish(changes)
  /\ pass' = [pass EXCEPT ![i].pc = "queue", ![i].version = Current + 1]
  /\ UNCHANGED <<task, publisher, tail, stop, scenario>>

IndexQueues(i) ==
  /\ pass[i].pc = "queue"
  /\ Record([version |-> pass[i].version, state |-> "queued", owner |-> 0])
  /\ \E pc \in {"spawned", "done"} :
       pass' = [pass EXCEPT ![i].pc = pc, ![i].version = 0]
  /\ UNCHANGED <<store, publisher, tail, stop, scenario>>

(* catalog, refused while a task is queued or runs, with --foreground or   *)
(* not.  The snapshot is opened before the task is read.                   *)
CatalogCommand(i) ==
  /\ pass[i].pc = "idle"
  /\ task.state \notin {"queued", "running"}
  /\ \E pc \in {"begin", "launch"} :
       pass' = [pass EXCEPT ![i].pc = pc, ![i].version = Current]
  /\ UNCHANGED <<store, task, publisher, tail, stop, scenario>>

CatalogQueues(i) ==
  /\ pass[i].pc = "launch"
  /\ task' = Upsert([version |-> pass[i].version, state |-> "queued", owner |-> 0])
  /\ pass' = [pass EXCEPT ![i].pc = "start"]
  /\ UNCHANGED <<store, publisher, tail, stop, scenario>>

(* The process starts, or the failure is recorded if it can be.            *)
CatalogStarts(i) ==
  /\ pass[i].pc = "start"
  /\ \/ pass' = [pass EXCEPT ![i].pc = "spawned", ![i].version = 0] /\ UNCHANGED task
     \/ /\ Record([version |-> pass[i].version, state |-> "failed", owner |-> 0])
        /\ pass' = [pass EXCEPT ![i].pc = "done", ![i].version = 0]
  /\ UNCHANGED <<store, publisher, tail, stop, scenario>>

(* catalog --foreground --catalog-worker opens the current snapshot.       *)
WorkerOpens(i) ==
  /\ pass[i].pc = "spawned"
  /\ pass' = [pass EXCEPT ![i].pc = "begin", ![i].version = Current]
  /\ UNCHANGED <<store, task, publisher, tail, stop, scenario>>

-----------------------------------------------------------------------------
(* A pass: Catalog, with its task                                          *)

Running(i) == [version |-> pass[i].version, state |-> "running", owner |-> i]
Ended(i, state) == [version |-> pass[i].version, state |-> state, owner |-> i]

PassBegins(i) ==
  /\ pass[i].pc = "begin"
  /\ task' = Upsert(Running(i))
  /\ pass' = [pass EXCEPT ![i].pc = "copy"]
  /\ UNCHANGED <<store, publisher, tail, stop, scenario>>

(* The catalog of version v says what its sources say.                     *)
Whole(v) == \A p \in Paths : entries[v][p].text = content[v][p]

(* Only the changed paths are read again.                                  *)
Incremental(i) == pass[i].previous # 0 /\ pass[i].changed # {}

(* The earlier catalog is complete, and what changed since is known.       *)
Continues(i) ==
  /\ Whole(pass[i].previous)
  /\ \A p \in Paths \ pass[i].changed :
       content[pass[i].version][p] = content[pass[i].previous][p]

PassCopies(i) ==
  /\ pass[i].pc = "copy"
  /\ pass' = [pass EXCEPT ![i].pc = "units",
                          ![i].sound = ~Incremental(i) \/ Continues(i)]
  /\ \/ /\ pass[i].previous = 0
        /\ UNCHANGED <<entries, embeddings>>
     \/ /\ {pass[i].previous, pass[i].version} \subseteq published
        /\ pass[i].previous # 0
        /\ CopyCatalog(pass[i].previous, pass[i].version)
  /\ UNCHANGED <<published, content, task, publisher, tail, stop, scenario>>

(* Variant: the current snapshot is opened again.                          *)
LatestSnapshot(i) == Current

(* The snapshot of the request, opened before the pass began.              *)
RequestSnapshot(i) == pass[i].version

(* The units of the snapshot's sources, or of those that changed.          *)
PassReadsUnits(i) ==
  /\ pass[i].pc = "units"
  /\ LET v == RequestSnapshot(i)
         S == {p \in Paths : /\ content[v][p] # None
                             /\ Incremental(i) => p \in pass[i].changed}
     IN pass' = [pass EXCEPT ![i].pc = IF S = {} THEN "finish" ELSE "read", ![i].todo = S,
                   ![i].units = [p \in S |-> content[v][p]]]
  /\ Record(Running(i))
  /\ UNCHANGED <<store, publisher, tail, stop, scenario>>

(* With both generators there is a pass for synopses, then for embeddings. *)
Synopsizes(i) ==
  \/ scenario.options = "synopsis"
  \/ scenario.options = "both" /\ pass[i].phase = 1

Embeds(i) ==
  \/ scenario.options = "embedding"
  \/ scenario.options = "both" /\ pass[i].phase = 2

NextBatch(S) == {p \in S : Cardinality({q \in S : q < p}) < BatchSize}

PassReadsBatch(i) ==
  /\ pass[i].pc = "read"
  /\ LET v == pass[i].version
         batch == NextBatch(pass[i].todo)
     IN pass' = [pass EXCEPT ![i].pc = "write",
          ![i].read = [batch |-> batch,
                       entries |-> [p \in batch |-> entries[v][p]],
                       embeddings |-> [p \in batch |-> embeddings[v][p]]]]
  /\ UNCHANGED <<store, task, publisher, tail, stop, scenario>>

(* Variant: an entry is reused for its node alone.                         *)
ReusedByNode(stored, text) ==
  IF stored # NoEntry THEN [stored EXCEPT !.text = text]
  ELSE [text |-> text, synopsis |-> None]

(* reuseCatalogEntries: name, fingerprint and synopsis are all the same.   *)
Reused(stored, text) ==
  IF stored.text = text THEN stored ELSE [text |-> text, synopsis |-> None]

(* The pass after a batch: the next batch, the second pass or the end.     *)
BatchDone(i) ==
  LET rest == pass[i].todo \ pass[i].read.batch
      again == rest = {} /\ scenario.options = "both" /\ pass[i].phase = 1
  IN [pass[i] EXCEPT !.pc = IF rest = {} /\ ~again THEN "finish" ELSE "read",
                     !.phase = IF again THEN 2 ELSE @,
                     !.todo = IF again THEN DOMAIN pass[i].units ELSE rest,
                     !.read = NoRead]

(* Variant: the snapshot is not looked up.                                 *)
VerifiesNothing(v) == TRUE

VerifyCatalogSnapshot(v) == v \in published

(* WriteCatalog: one transaction for the entries of a batch.               *)
WriteCatalog(v, written) ==
  /\ VerifyCatalogSnapshot(v)
  /\ entries' = [entries EXCEPT ![v] = [p \in Paths |->
                   IF p \in DOMAIN written THEN written[p] ELSE @[p]]]

(* The entries of the batch before the provider is asked.                  *)
BatchEntries(i) ==
  [p \in pass[i].read.batch |-> Reused(pass[i].read.entries[p], pass[i].units[p])]

(* addCatalogSynopses: asked for entries without a synopsis, the provider  *)
(* answers for any of them, in any order.                                  *)
Synopsized(i) ==
  LET plain == BatchEntries(i)
      pending == {p \in DOMAIN plain : Synopsizes(i) /\ plain[p].synopsis = None}
  IN {[p \in DOMAIN plain |-> IF p \in S THEN [plain[p] EXCEPT !.synopsis = plain[p].text]
                              ELSE plain[p]] : S \in SUBSET pending}

PassWrites(i) ==
  /\ pass[i].pc = "write"
  /\ \E written \in Synopsized(i) :
       /\ WriteCatalog(pass[i].version, written)
       /\ pass' = [pass EXCEPT ![i] =
                     IF Embeds(i) THEN [@ EXCEPT !.pc = "embed", !.read.entries = written]
                     ELSE BatchDone(i)]
  /\ IF Embeds(i) THEN UNCHANGED task ELSE Record(Running(i))
  /\ UNCHANGED <<published, content, embeddings, publisher, tail, stop, scenario>>

(* addCatalogEmbeddings: the texts of the batch that have no vector yet.   *)
Missing(i) ==
  {r \in pass[i].read.batch \X DOMAIN NoVectors :
     LET text == pass[i].read.entries[r[1]][r[2]]
     IN text # None /\ pass[i].read.embeddings[r[1]][r[2]] # text}

(* generateCatalogEmbeddings: the texts of a batch are one request to the  *)
(* generator, answered or not.                                             *)
Generated(i) == {{}, Missing(i)}

(* WriteCatalogEmbeddings, which fails for a version that is gone.         *)
WriteCatalogEmbeddings(i, rows) ==
  LET v == pass[i].version
  IN embeddings' = [embeddings EXCEPT ![v] = [p \in Paths |->
       [k \in DOMAIN NoVectors |->
          IF VerifyCatalogSnapshot(v) /\ <<p, k>> \in rows
          THEN pass[i].read.entries[p][k] ELSE @[p][k]]]]

(* A failure, of the generator or of the store, is only reported.          *)
PassEmbeds(i) ==
  /\ pass[i].pc = "embed"
  /\ \E rows \in Generated(i) : WriteCatalogEmbeddings(i, rows)
  /\ pass' = [pass EXCEPT ![i] = BatchDone(i)]
  /\ Record(Running(i))
  /\ UNCHANGED <<published, content, entries, publisher, tail, stop, scenario>>

(* What remains of a pass: which version it was for and how it ended.      *)
Over(i, pc, result) ==
  [NoPass EXCEPT !.pc = pc, !.result = result, !.version = pass[i].version,
                 !.sound = pass[i].sound /\ result = "ok"]

Leave(i, result) ==
  LET pc == IF i \in Refreshes THEN "closed" ELSE "done"
  IN pass' = [pass EXCEPT ![i] = Over(i, pc, result)]

PassCompletes(i) ==
  /\ pass[i].pc = "finish"
  /\ task' = Upsert(Ended(i, "complete"))
  /\ Leave(i, "ok")
  /\ UNCHANGED <<store, publisher, tail, stop, scenario>>

(* An error of the store, of the configuration or of releasing a model, or *)
(* the refresh's timeout; before the task is recorded, without a task.     *)
PassFails(i) ==
  /\ pass[i].pc \in {"begin", "copy", "units", "read", "write", "finish"}
  /\ \/ pass[i].pc = "begin" /\ UNCHANGED task
     \/ pass[i].pc # "begin" /\ Record(Ended(i, "failed"))
  /\ Leave(i, "failed")
  /\ UNCHANGED <<store, publisher, tail, stop, scenario>>

(* After close(current.done).                                              *)
RefreshIsForgotten(i) ==
  /\ pass[i].pc = "closed"
  /\ pass' = [pass EXCEPT ![i].pc = "done"]
  /\ tail' = IF tail = i THEN 0 ELSE tail
  /\ UNCHANGED <<store, task, publisher, stop, scenario>>

-----------------------------------------------------------------------------
(* Processes that end, and catalog-stop                                    *)

Dead(i) == Over(i, "done", "dead")

IndexerExits ==
  /\ publisher.pc # "idle" \/ \E i \in Refreshes : pass[i].pc \notin {"idle", "done"}
  /\ pass' = [i \in Passes |->
                IF i \in Refreshes /\ pass[i].pc \notin {"idle", "done"} THEN Dead(i)
                ELSE pass[i]]
  /\ publisher' = [pc |-> "idle", previous |-> 0, version |-> 0, changed |-> {}]
  /\ tail' = 0
  /\ UNCHANGED <<store, task, stop, scenario>>

WorkerExits(i) ==
  /\ pass[i].pc \notin {"idle", "done"}
  /\ pass' = [pass EXCEPT ![i] = Dead(i)]
  /\ UNCHANGED <<store, task, publisher, tail, stop, scenario>>

(* catalog-stop reads the task, and signals a catalog process; it refuses  *)
(* when the process is the indexer, and goes on when the process is gone.  *)
StopSignals ==
  /\ stop = NoTask /\ task.state = "running"
  /\ \/ pass[task.owner].pc = "done" /\ UNCHANGED pass
     \/ /\ task.owner \in Workers /\ pass[task.owner].pc # "done"
        /\ pass' = [pass EXCEPT ![task.owner] = Dead(task.owner)]
  /\ stop' = [task EXCEPT !.state = "interrupted", !.owner = 0]
  /\ UNCHANGED <<store, task, publisher, tail, scenario>>

(* It records the task it read as interrupted.                             *)
StopRecords ==
  /\ stop # NoTask
  /\ task' = Upsert(stop)
  /\ stop' = NoTask
  /\ UNCHANGED <<store, publisher, tail, pass, scenario>>

-----------------------------------------------------------------------------
PassStep(i) ==
  \/ PassBegins(i) \/ PassCopies(i) \/ PassReadsUnits(i) \/ PassReadsBatch(i)
  \/ PassWrites(i) \/ PassEmbeds(i) \/ PassCompletes(i) \/ PassFails(i)

Next ==
  \/ PublisherOpens \/ PublisherFails \/ StartRefresh
  \/ \E S \in (SUBSET Paths) \ {{}} : PublisherPublishes(S)
  \/ \E i \in Refreshes : RefreshIsReleased(i) \/ RefreshIsForgotten(i)
  \/ \E i \in {w \in Workers : w <= MaxVersion + scenario.commands} :
       \/ IndexCommand(i) \/ IndexQueues(i)
       \/ CatalogCommand(i) \/ CatalogQueues(i) \/ CatalogStarts(i)
       \/ WorkerOpens(i) \/ WorkerExits(i)
  \/ \E i \in Passes : PassStep(i)
  \/ IndexerExits \/ StopSignals \/ StopRecords

Spec == Init /\ [][Next]_vars

-----------------------------------------------------------------------------
(* Properties                                                              *)

Entry == [text : 0..MaxVersion, synopsis : 0..MaxVersion]

(* Every table and every pass has its type.                                *)
TypeOK ==
  /\ published \subseteq Versions
  /\ content \in [Versions -> [Paths -> 0..MaxVersion]]
  /\ entries \in [Versions -> [Paths -> Entry]]
  /\ embeddings \in [Versions -> [Paths -> Entry]]
  /\ task.version \in 0..MaxVersion /\ task.owner \in {0} \cup Passes
  /\ task.state = "running" => task.owner # 0
  /\ tail \in {0} \cup Refreshes
  /\ \A i \in Passes :
       /\ pass[i].version \in 0..MaxVersion /\ pass[i].previous \in 0..MaxVersion
       /\ pass[i].after \in {0} \cup Refreshes
       /\ pass[i].todo \subseteq Paths

(* Entries and embeddings belong to published versions and to nodes those  *)
(* versions show, whatever passes are under way when versions are pruned.  *)
NoStrayRows ==
  \A v \in Versions, p \in Paths :
    content[v][p] = None => entries[v][p] = NoEntry /\ embeddings[v][p] = NoVectors

(* The catalog tables and the passes keep their types, and the tables hold *)
(* no stray rows.  (WriteCatalog and pruneVersions, sqlite.go:2716, 4126)  *)
RowsSound == TypeOK /\ NoStrayRows

(* A synopsis describes the declaration its entry was made from: one that  *)
(* an earlier version's entry brings along is not kept for changed text.   *)
SynopsisFresh ==
  \A v \in Versions, p \in Paths : entries[v][p].synopsis \in {None, entries[v][p].text}

(* When every pass for a version has completed, from a complete earlier    *)
(* catalog and the paths changed since or from scratch, each source has an *)
(* entry with its current text, however the passes were interleaved.       *)
CatalogSettles ==
  \A v \in published :
    LET begun == {i \in Passes : /\ pass[i].version = v
                                 /\ pass[i].pc \notin {"queue", "launch", "start"}}
    IN /\ begun # {}
       /\ \A i \in begun : pass[i].result = "ok" /\ pass[i].sound
       => Whole(v)

(* The recorded task never goes back to an earlier graph version.          *)
TaskAdvances == [][task'.version >= task.version]_vars

(* A refresh that completes after the one before it failed has rebuilt the *)
(* catalog: changed and unchanged units are there.                         *)
RebuildsAfterFailure ==
  \A v \in published \cap Refreshes :
    /\ v - 1 \in Refreshes /\ pass[v - 1].result = "failed"
    /\ pass[v].result = "ok"
    => Whole(v)
=============================================================================
