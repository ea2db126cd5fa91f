-------------------------- MODULE CatalogRefreshProofs --------------------------
(***************************************************************************)
(* Proofs about CatalogRefresh, for any number of sources, versions and    *)
(* catalog processes, any batch size and any window.                       *)
(***************************************************************************)
EXTENDS CatalogRefresh, TLAPS

-----------------------------------------------------------------------------
(* The inductive invariant                                                 *)

States == {"none", "queued", "running", "complete", "failed", "interrupted"}

TaskType == [version : 0..MaxVersion, state : States, owner : {None} \cup Passes]

TaskInv ==
  /\ task \in TaskType
  /\ task.state = "running" => task.owner # None
  /\ stop \in TaskType /\ stop.state # "running"

TablesTyped ==
  /\ published \subseteq Versions
  /\ \E m \in published : \A v \in published : v <= m
  /\ content \in [Versions -> [Paths -> 0..MaxVersion]]
  /\ entries \in [Versions -> [Paths -> Entry]]
  /\ embeddings \in [Versions -> [Paths -> Entry]]
  /\ scenario \in Scenarios

(* A version that is not published shows nothing.                          *)
OnlyPublished ==
  \A v \in Versions \ published, p \in Paths : content[v][p] = None

PublisherInv ==
  /\ publisher \in [pc : {"idle", "publish", "start"}, previous : 0..MaxVersion,
                    version : 0..MaxVersion, changed : SUBSET Paths]
  /\ publisher.pc = "start" => publisher.version \in Versions /\ publisher.version <= Current
  /\ tail \in {0} \cup Refreshes

Parts(X) == UNION {[S -> X] : S \in SUBSET Paths}

PassType ==
  [pc : {"idle", "queue", "launch", "start", "spawned", "waiting", "begin", "copy",
         "units", "read", "write", "embed", "finish", "closed", "done"},
   result : {"none", "ok", "failed", "dead"},
   version : 0..MaxVersion, previous : 0..MaxVersion, changed : SUBSET Paths,
   after : {0} \cup Refreshes, phase : {1, 2}, units : Parts(0..MaxVersion),
   todo : SUBSET Paths,
   read : [batch : SUBSET Paths, entries : Parts(Entry), embeddings : Parts(Entry)],
   sound : BOOLEAN]

PassTyped == pass \in [Passes -> PassType]

Working == {"read", "write", "embed"}

(* A pass under way is for a version that was published; a refresh for the *)
(* version of its number.                                                  *)
VersionOf(i) ==
  /\ pass[i].version # 0 => pass[i].version <= Current
  /\ pass[i].pc \in {"launch", "start", "waiting", "begin", "copy", "units", "finish"} \cup Working
       => pass[i].version \in Versions
  /\ i \in Refreshes => pass[i].version \in {0, i}
  /\ i \in Refreshes => pass[i].pc \notin {"queue", "launch", "start", "spawned"}
  /\ pass[i].pc \in {"idle", "spawned"} => pass[i].version = 0
  /\ pass[i].result = "ok" => pass[i].pc \in {"closed", "done"}

(* The units of a pass are what its version says, if that is still there.  *)
UnitsOf(i) ==
  pass[i].pc \in Working =>
    /\ pass[i].todo \subseteq DOMAIN pass[i].units
    /\ \A p \in DOMAIN pass[i].units :
         pass[i].version \in published => /\ content[pass[i].version][p] # None
                                          /\ content[pass[i].version][p] = pass[i].units[p]

Fresh(entry) == entry.synopsis \in {None, entry.text}

(* What a pass has read, or will write, is an entry for each source of the *)
(* batch, whose synopsis fits.                                             *)
ReadOf(i) ==
  pass[i].pc \in {"write", "embed"} =>
    /\ pass[i].read.batch \subseteq pass[i].todo
    /\ pass[i].read.entries \in [pass[i].read.batch -> Entry]
    /\ pass[i].read.embeddings \in [pass[i].read.batch -> Entry]
    /\ \A p \in pass[i].read.batch : Fresh(pass[i].read.entries[p])

PassInv == \A i \in Passes : VersionOf(i) /\ UnitsOf(i) /\ ReadOf(i)

(* Pass i has begun to catalog version v.                                  *)
Begun(i, v) == pass[i].version = v /\ pass[i].pc \notin {"queue", "launch", "start"}

(* Pass i has begun from an incomplete catalog, or has failed.             *)
Unsound(i) ==
  /\ pass[i].pc \in Working \cup {"units", "finish", "closed", "done"}
  /\ ~pass[i].sound

(* Pass i has yet to write an entry for p, or to copy one.                 *)
Owes(i, p) ==
  \/ pass[i].pc \in {"waiting", "begin", "copy"}
  \/ /\ pass[i].pc = "units" /\ content[pass[i].version][p] # None
     /\ Incremental(i) => p \in pass[i].changed
  \/ pass[i].pc \in {"read", "write"} /\ p \in pass[i].todo
  \/ pass[i].pc = "embed" /\ p \in pass[i].todo \ pass[i].read.batch

Answers(i, v, p) == Begun(i, v) /\ (Unsound(i) \/ Owes(i, p))

(* If the entry of a source is not the one of its version, no pass has     *)
(* begun, or one has that will see to it or is unsound.                    *)
Settled(v, p) ==
  \/ entries[v][p].text = content[v][p]
  \/ \E i \in Passes : Answers(i, v, p)
  \/ \A i \in Passes : ~Begun(i, v)

SettleInv == \A v \in published, p \in Paths : Settled(v, p)

RowsInv == NoStrayRows /\ SynopsisFresh

CatalogInv ==
  /\ TaskInv /\ TablesTyped /\ OnlyPublished /\ PublisherInv
  /\ PassTyped /\ PassInv /\ RowsInv /\ SettleInv

-----------------------------------------------------------------------------
(* The constants and the types                                             *)

USE CatalogAssumption

(* The empty function is one of any type.                                  *)
LEMMA EmptyPart ==
  ASSUME NEW X
  PROVE  <<>> \in Parts(X)
<1>1. <<>> \in [{} -> X]
  OBVIOUS
<1>2. {} \in SUBSET Paths
  OBVIOUS
<1> QED
  BY <1>1, <1>2 DEF Parts

(* A function on some sources is one of a part.                            *)
LEMMA PartIntro ==
  ASSUME NEW X, NEW S \in SUBSET Paths, NEW f \in [S -> X]
  PROVE  f \in Parts(X)
BY DEF Parts

(* Refreshes are numbered like versions, catalog processes above them.     *)
LEMMA PassesTyped ==
  /\ Versions \subseteq Nat /\ 0 \notin Versions
  /\ Refreshes = Versions /\ Refreshes \subseteq Passes /\ Workers \subseteq Passes
  /\ Refreshes \cap Workers = {}
  /\ \A i \in Passes : i # 0 /\ i \in Nat
BY DEF Versions, Refreshes, Workers, Passes

(* The pass that never was has its type.                                   *)
LEMMA NoPassTyped == NoPass \in PassType
<1>1. <<>> \in Parts(0..MaxVersion) /\ <<>> \in Parts(Entry)
  BY EmptyPart
<1>2. NoRead \in [batch : SUBSET Paths, entries : Parts(Entry), embeddings : Parts(Entry)]
  BY <1>1 DEF NoRead
<1> QED
  BY <1>1, <1>2 DEF NoPass, PassType, None

(* The current version is the newest of the published ones.                *)
LEMMA CurrentIsNewest ==
  ASSUME TablesTyped
  PROVE  Current \in published /\ (\A u \in published : u <= Current) /\ Current \in Versions
BY DEF TablesTyped, Current

-----------------------------------------------------------------------------
(* What steps have in common                                               *)

(* Writing the task keeps what is said of it.                              *)
LEMMA TaskWritten ==
  ASSUME TaskInv, NEW new \in TaskType, new.state = "running" => new.owner # None,
         task' \in {task, Upsert(new)}, stop' = stop
  PROVE  TaskInv'
BY DEF TaskInv, Upsert

(* What passes record as their task.                                       *)
LEMMA TasksOfPasses ==
  ASSUME PassTyped, NEW i \in Passes
  PROVE  /\ Running(i) \in TaskType /\ Running(i).owner # None
         /\ \A state \in States \ {"running"} : /\ Ended(i, state) \in TaskType
                                               /\ Ended(i, state).state # "running"
         /\ \A v \in 0..MaxVersion : \A state \in States \ {"running"} :
              [version |-> v, state |-> state, owner |-> 0] \in TaskType
BY PassesTyped DEF PassTyped, PassType, Running, Ended, TaskType, States, None

(* Steps that leave the tables alone.                                      *)
LEMMA StoreKept ==
  ASSUME TablesTyped, OnlyPublished, RowsInv, UNCHANGED <<store, scenario>>
  PROVE  /\ TablesTyped' /\ OnlyPublished' /\ RowsInv'
         /\ Current' = Current /\ published' = published /\ content' = content
         /\ entries' = entries
<1>1. /\ published' = published /\ content' = content /\ entries' = entries
      /\ embeddings' = embeddings /\ scenario' = scenario
  BY DEF store
<1> QED
  BY <1>1 DEF TablesTyped, OnlyPublished, RowsInv, NoStrayRows, SynopsisFresh, Current

(* Steps that leave the publisher alone.                                   *)
LEMMA PublisherKept ==
  ASSUME PublisherInv, UNCHANGED <<publisher, tail>>, Current' = Current
  PROVE  PublisherInv'
BY DEF PublisherInv

(* Steps of one pass, which change no version's content.                   *)
LEMMA OnePass ==
  ASSUME PassTyped, PassInv, Current' = Current, UNCHANGED <<published, content>>,
         NEW i \in Passes, NEW r \in PassType, pass' = [pass EXCEPT ![i] = r],
         VersionOf(i)', UnitsOf(i)', ReadOf(i)'
  PROVE  PassTyped' /\ PassInv'
<1>1. PassTyped'
  BY DEF PassTyped
<1>2. ASSUME NEW j \in Passes, j # i PROVE VersionOf(j)' /\ UnitsOf(j)' /\ ReadOf(j)'
  <2>1. pass'[j] = pass[j]
    BY <1>2 DEF PassTyped
  <2> QED
    BY <2>1, <1>2 DEF PassInv, VersionOf, UnitsOf, ReadOf
<1> QED
  BY <1>1, <1>2 DEF PassInv

(* A pass that does not change goes on answering for what it did.          *)
LEMMA AnswersKept ==
  ASSUME UNCHANGED content, NEW j \in Passes, pass'[j] = pass[j], NEW v, NEW p
  PROVE  (Answers(j, v, p)' <=> Answers(j, v, p)) /\ (Begun(j, v)' <=> Begun(j, v))
BY DEF Answers, Begun, Unsound, Owes, Incremental

(* A pass goes on, and answers for what it did, or for more, or it is done. *)
LEMMA OneSettles ==
  ASSUME PassTyped, SettleInv, UNCHANGED <<published, content>>,
         NEW i \in Passes, NEW r, pass' = [pass EXCEPT ![i] = r],
         \A v \in published, p \in Paths :
           \/ entries'[v][p].text = content[v][p]
           \/ Answers(i, v, p)'
           \/ /\ entries'[v][p] = entries[v][p]
              /\ Answers(i, v, p) => Answers(i, v, p)'
              /\ Begun(i, v)' => Begun(i, v)
  PROVE  SettleInv'
<1> SUFFICES ASSUME NEW v \in published, NEW p \in Paths PROVE Settled(v, p)'
  BY DEF SettleInv
<1>1. ASSUME NEW j \in Passes, j # i
      PROVE (Answers(j, v, p)' <=> Answers(j, v, p)) /\ (Begun(j, v)' <=> Begun(j, v))
  <2>1. pass'[j] = pass[j]
    BY <1>1 DEF PassTyped
  <2> QED
    BY <2>1, AnswersKept
<1>2. Settled(v, p)
  BY DEF SettleInv
<1> HIDE DEF Answers, Begun
<1>3. CASE entries'[v][p].text = content[v][p]
  BY <1>3 DEF Settled
<1>4. CASE Answers(i, v, p)'
  BY <1>4 DEF Settled
<1>5. CASE /\ entries'[v][p] = entries[v][p]
           /\ Answers(i, v, p) => Answers(i, v, p)'
           /\ Begun(i, v)' => Begun(i, v)
  <2>1. CASE entries[v][p].text = content[v][p]
    BY <1>5, <2>1 DEF Settled
  <2>2. CASE \E j \in Passes : Answers(j, v, p)
    <3> PICK j \in Passes : Answers(j, v, p)
      BY <2>2
    <3>1. Answers(j, v, p)'
      BY <1>1, <1>5
    <3> QED
      BY <3>1 DEF Settled
  <2>3. CASE \A j \in Passes : ~Begun(j, v)
    BY <1>1, <1>5, <2>3 DEF Settled
  <2> QED
    BY <1>2, <2>1, <2>2, <2>3 DEF Settled
<1> QED
  BY <1>3, <1>4, <1>5

(* A step that only writes the task and starts a pass or goes on with one. *)
LEMMA StoreKeepingStep ==
  ASSUME CatalogInv, UNCHANGED <<store, scenario>>, TaskInv',
         Current' = Current => PublisherInv',
         NEW i \in Passes, NEW r \in PassType, pass' = [pass EXCEPT ![i] = r],
         VersionOf(i)', UnitsOf(i)', ReadOf(i)',
         \A v \in published, p \in Paths :
           /\ \/ entries[v][p].text = content[v][p]
              \/ Answers(i, v, p) => Answers(i, v, p)'
           /\ Begun(i, v)' => Begun(i, v) \/ Answers(i, v, p)'
  PROVE  CatalogInv'
<1> USE DEF CatalogInv
<1>1. /\ TablesTyped' /\ OnlyPublished' /\ RowsInv'
      /\ Current' = Current /\ published' = published /\ content' = content
      /\ entries' = entries
  BY StoreKept
<1>2. PassTyped' /\ PassInv'
  BY <1>1, OnePass
<1>3. SettleInv'
  BY <1>1, OneSettles
<1> QED
  BY <1>1, <1>2, <1>3

(* A step of one pass that only writes the task besides.                   *)
LEMMA QuietStep ==
  ASSUME CatalogInv, UNCHANGED <<store, publisher, scenario>>, TaskInv',
         tail' \in {0, tail},
         NEW i \in Passes, NEW r \in PassType, pass' = [pass EXCEPT ![i] = r],
         VersionOf(i)', UnitsOf(i)', ReadOf(i)',
         \A v \in published, p \in Paths :
           /\ \/ entries[v][p].text = content[v][p]
              \/ Answers(i, v, p) => Answers(i, v, p)'
           /\ Begun(i, v)' => Begun(i, v) \/ Answers(i, v, p)'
  PROVE  CatalogInv'
<1>1. Current' = Current => PublisherInv'
  BY PassesTyped DEF CatalogInv, PublisherInv
<1> QED
  BY <1>1, StoreKeepingStep

(* Steps that no pass takes, and that leave the tables alone.              *)
LEMMA NoPassStep ==
  ASSUME CatalogInv, UNCHANGED <<store, pass, scenario>>, TaskInv',
         Current' = Current => PublisherInv'
  PROVE  CatalogInv'
<1>1. /\ TablesTyped' /\ OnlyPublished' /\ RowsInv'
      /\ Current' = Current /\ published' = published /\ content' = content
      /\ entries' = entries
  BY StoreKept DEF CatalogInv
<1>2. PassTyped' /\ PassInv'
  BY <1>1 DEF CatalogInv, PassTyped, PassInv, VersionOf, UnitsOf, ReadOf
<1>3. SettleInv'
  BY <1>1 DEF CatalogInv, SettleInv, Settled, Answers, Begun, Unsound, Owes, Incremental
<1> QED
  BY <1>1, <1>2, <1>3 DEF CatalogInv

(* What a pass is before and after a step.                                 *)
LEMMA PassFacts ==
  ASSUME CatalogInv, NEW i \in Passes
  PROVE  /\ pass[i] \in PassType /\ VersionOf(i) /\ UnitsOf(i) /\ ReadOf(i)
         /\ DOMAIN pass = Passes
         /\ TaskInv /\ PassTyped /\ TablesTyped /\ RowsInv
BY DEF CatalogInv, PassTyped, PassInv

(* A pass whose version and duties stay, only renamed.                     *)
LEMMA RefreshIsReleasedKeeps ==
  ASSUME CatalogInv, NEW i \in Refreshes, RefreshIsReleased(i)
  PROVE  CatalogInv'
<1> USE DEF RefreshIsReleased
<1>0. i \in Passes
  BY PassesTyped
<1> DEFINE failed == pass[i].after # 0 /\ pass[pass[i].after].result = "failed"
           r == [pass[i] EXCEPT !.pc = "begin", !.after = 0,
                                !.previous = IF failed THEN 0 ELSE @,
                                !.changed = IF failed THEN {} ELSE @]
<1>1. pass[i] \in PassType /\ VersionOf(i) /\ TaskInv /\ DOMAIN pass = Passes
  BY <1>0, PassFacts
<1>2. r \in PassType /\ r.pc = "begin" /\ r.version = pass[i].version /\ r.result = pass[i].result
  <2> HIDE DEF failed, RefreshIsReleased
  <2>1. 0 \in 0..MaxVersion
    OBVIOUS
  <2>2. CASE failed
    BY <1>1, <2>1, <2>2 DEF PassType
  <2>3. CASE ~failed
    BY <1>1, <2>3 DEF PassType
  <2> QED
    BY <2>2, <2>3
<1>3. pass' = [pass EXCEPT ![i] = r]
  BY <1>0, <1>1
<1>4. pass'[i] = r
  BY <1>0, <1>1, <1>3
<1> HIDE DEF r
<1>5. Current' = Current
  BY DEF store, Current
<1>6. VersionOf(i)' /\ UnitsOf(i)' /\ ReadOf(i)'
  BY <1>1, <1>2, <1>4, <1>5 DEF VersionOf, UnitsOf, ReadOf, Working
<1>7. TaskInv'
  BY <1>1 DEF TaskInv
<1>8. ASSUME NEW v \in published, NEW p \in Paths
      PROVE /\ Answers(i, v, p) => Answers(i, v, p)'
            /\ Begun(i, v)' => Begun(i, v) \/ Answers(i, v, p)'
  BY <1>2, <1>4 DEF Answers, Begun, Owes
<1> QED
  BY <1>0, <1>2, <1>3, <1>6, <1>7, <1>8, QuietStep

(* A refresh leaves the chain.                                             *)
LEMMA RefreshIsForgottenKeeps ==
  ASSUME CatalogInv, NEW i \in Refreshes, RefreshIsForgotten(i)
  PROVE  CatalogInv'
<1> USE DEF RefreshIsForgotten
<1>0. i \in Passes
  BY PassesTyped
<1> DEFINE r == [pass[i] EXCEPT !.pc = "done"]
<1>1. pass[i] \in PassType /\ VersionOf(i) /\ TaskInv /\ DOMAIN pass = Passes
  BY <1>0, PassFacts
<1>2. /\ r \in PassType /\ r.pc = "done" /\ r.version = pass[i].version
      /\ r.result = pass[i].result /\ r.sound = pass[i].sound
  BY <1>1 DEF PassType
<1>3. pass' = [pass EXCEPT ![i] = r]
  BY <1>0, <1>1
<1>4. pass'[i] = r
  BY <1>0, <1>1, <1>3
<1> HIDE DEF r
<1>5. Current' = Current
  BY DEF store, Current
<1>6. VersionOf(i)' /\ UnitsOf(i)' /\ ReadOf(i)'
  BY <1>1, <1>2, <1>4, <1>5 DEF VersionOf, UnitsOf, ReadOf, Working
<1>7. TaskInv'
  BY <1>1 DEF TaskInv
<1>8. ASSUME NEW v \in published, NEW p \in Paths
      PROVE /\ Answers(i, v, p) => Answers(i, v, p)'
            /\ Begun(i, v)' => Begun(i, v) \/ Answers(i, v, p)'
  BY <1>2, <1>4 DEF Answers, Begun, Owes, Unsound, Working
<1> QED
  BY <1>0, <1>2, <1>3, <1>6, <1>7, <1>8, QuietStep

(* What remains of a pass that is over.                                    *)
LEMMA OverFacts ==
  ASSUME NEW i \in Passes, pass[i] \in PassType, NEW pc \in {"closed", "done"},
         NEW result \in {"ok", "failed", "dead"}
  PROVE  /\ Over(i, pc, result) \in PassType
         /\ Over(i, pc, result).pc = pc
         /\ Over(i, pc, result).version = pass[i].version
         /\ Over(i, pc, result).result = result
         /\ Over(i, pc, result).sound = (pass[i].sound /\ result = "ok")
<1> DEFINE version == pass[i].version
           sound == pass[i].sound /\ result = "ok"
           r == Over(i, pc, result)
<1>1. version \in 0..MaxVersion /\ sound \in BOOLEAN
  BY DEF PassType
<1>2. r = [NoPass EXCEPT !.pc = pc, !.result = result, !.version = version, !.sound = sound]
  BY DEF Over
<1> HIDE DEF version, sound, r
<1>3. /\ r \in PassType /\ r.pc = pc /\ r.version = version
      /\ r.result = result /\ r.sound = sound
  BY <1>1, <1>2, NoPassTyped DEF PassType
<1> QED
  BY <1>3 DEF version, sound, r

(* A pass that is over answers for its version unless all is well.         *)
LEMMA PassEnds ==
  ASSUME CatalogInv, UNCHANGED <<store, publisher, scenario>>, TaskInv',
         tail' \in {0, tail}, NEW i \in Passes, NEW pc \in {"closed", "done"},
         NEW result \in {"ok", "failed", "dead"},
         result = "ok" => pass[i].pc = "finish",
         pass' = [pass EXCEPT ![i] = Over(i, pc, result)]
  PROVE  CatalogInv'
<1> DEFINE r == Over(i, pc, result)
<1>1. pass[i] \in PassType /\ VersionOf(i) /\ DOMAIN pass = Passes
  BY PassFacts
<1>2. /\ r \in PassType /\ r.pc = pc /\ r.version = pass[i].version
      /\ r.result = result /\ r.sound = (pass[i].sound /\ result = "ok")
  BY <1>1, OverFacts
<1>3. pass' = [pass EXCEPT ![i] = r] /\ pass'[i] = r
  BY <1>1
<1> HIDE DEF r
<1>4. Current' = Current
  BY DEF store, Current
<1>5. VersionOf(i)' /\ UnitsOf(i)' /\ ReadOf(i)'
  BY <1>1, <1>2, <1>3, <1>4 DEF VersionOf, UnitsOf, ReadOf, Working
<1>6. ASSUME NEW v \in published, NEW p \in Paths
      PROVE /\ Answers(i, v, p) => Answers(i, v, p)'
            /\ Begun(i, v)' => Begun(i, v) \/ Answers(i, v, p)'
  <2>1. CASE result = "ok"
    BY <1>2, <1>3, <2>1 DEF Answers, Begun, Owes, Unsound, Working
  <2>2. CASE result # "ok"
    BY <1>2, <1>3, <2>2 DEF Answers, Begun, Owes, Unsound, Working
  <2> QED
    BY <2>1, <2>2
<1> QED
  BY <1>2, <1>3, <1>5, <1>6, QuietStep

(* A pass that completes owed nothing.                                     *)
LEMMA PassCompletesKeeps ==
  ASSUME CatalogInv, NEW i \in Passes, PassCompletes(i)
  PROVE  CatalogInv'
<1>1. TaskInv'
  BY PassFacts, TasksOfPasses, TaskWritten DEF PassCompletes, States
<1> QED
  BY <1>1, PassEnds DEF PassCompletes, Leave

(* A pass that fails is unsound.                                           *)
LEMMA PassFailsKeeps ==
  ASSUME CatalogInv, NEW i \in Passes, PassFails(i)
  PROVE  CatalogInv'
<1>1. TaskInv'
  <2>1. CASE UNCHANGED task
    BY <2>1, PassFacts DEF PassFails, TaskInv
  <2>2. CASE Record(Ended(i, "failed"))
    BY <2>2, PassFacts, TasksOfPasses, TaskWritten DEF PassFails, Record, States
  <2> QED
    BY <2>1, <2>2 DEF PassFails
<1> QED
  BY <1>1, PassEnds DEF PassFails, Leave

(* So is one whose process ends,                                           *)
LEMMA WorkerExitsKeeps ==
  ASSUME CatalogInv, NEW i \in Workers, WorkerExits(i)
  PROVE  CatalogInv'
<1>1. TaskInv'
  BY PassesTyped, PassFacts DEF WorkerExits, TaskInv
<1> QED
  BY <1>1, PassesTyped, PassEnds DEF WorkerExits, Dead

(* or is ended by a catalog-stop.                                          *)
LEMMA StopSignalsKeeps ==
  ASSUME CatalogInv, StopSignals
  PROVE  CatalogInv'
<1>1. TaskInv'
  BY DEF CatalogInv, TaskInv, StopSignals, TaskType, States, None
<1>2. CASE UNCHANGED pass
  BY <1>1, <1>2, NoPassStep DEF StopSignals, CatalogInv, PublisherInv
<1>3. CASE /\ task.owner \in Workers /\ pass[task.owner].pc # "done"
           /\ pass' = [pass EXCEPT ![task.owner] = Dead(task.owner)]
  BY <1>1, <1>3, PassesTyped, PassEnds DEF StopSignals, Dead
<1> QED
  BY <1>2, <1>3 DEF StopSignals

(* A pass before its task: it opens a version, or has none yet.            *)
LEMMA PassMoves ==
  ASSUME CatalogInv, UNCHANGED <<store, publisher, tail, scenario>>, TaskInv',
         NEW i \in Passes, NEW pc, NEW version,
         \/ /\ i \notin Refreshes /\ pass[i].pc \in {"queue", "start"}
            /\ pc \in {"spawned", "done"} /\ version = 0
         \/ /\ i \notin Refreshes /\ pass[i].pc \in {"idle", "spawned"}
            /\ pc \in {"begin", "launch"} /\ version = Current
         \/ /\ pass[i].pc = "launch" /\ pc = "start" /\ version = pass[i].version
         \/ /\ pass[i].pc = "begin" /\ pc = "copy" /\ version = pass[i].version,
         pass' = [pass EXCEPT ![i] = [pass[i] EXCEPT !.pc = pc, !.version = version]]
  PROVE  CatalogInv'
<1> DEFINE r == [pass[i] EXCEPT !.pc = pc, !.version = version]
<1>1. /\ pass[i] \in PassType /\ VersionOf(i) /\ DOMAIN pass = Passes
      /\ Current \in published /\ Current \in Versions /\ 0 \notin Versions /\ 0 \notin published
  BY PassFacts, CurrentIsNewest, PassesTyped DEF TablesTyped
<1>2. version \in 0..MaxVersion
  BY <1>1 DEF Versions, PassType
<1>3. pc \in {"spawned", "done", "begin", "launch", "start", "copy"}
  OBVIOUS
<1>4. /\ r \in PassType /\ r.pc = pc /\ r.version = version /\ r.result = pass[i].result
  BY <1>1, <1>2, <1>3 DEF PassType
<1>5. pass' = [pass EXCEPT ![i] = r] /\ pass'[i] = r
  BY <1>1
<1> HIDE DEF r
<1>6. Current' = Current
  BY DEF store, Current
<1>7. Current <= Current
  BY <1>1 DEF Versions
<1>8. VersionOf(i)' /\ UnitsOf(i)' /\ ReadOf(i)'
  <2>1. VersionOf(i)'
    BY <1>1, <1>4, <1>5, <1>6, <1>7 DEF VersionOf, Working
  <2> QED
    BY <1>3, <1>4, <1>5, <2>1 DEF UnitsOf, ReadOf, Working
<1>9. ASSUME NEW v \in published, NEW p \in Paths
      PROVE /\ Answers(i, v, p) => Answers(i, v, p)'
            /\ Begun(i, v)' => Begun(i, v) \/ Answers(i, v, p)'
  <2>1. v # 0
    BY <1>1
  <2> QED
    BY <1>1, <1>4, <1>5, <2>1 DEF Answers, Begun, Owes, Unsound, Working, VersionOf
<1> QED
  BY <1>4, <1>5, <1>8, <1>9, QuietStep

(* index --catalog-background: the process it starts has no version yet.   *)
LEMMA IndexQueuesKeeps ==
  ASSUME CatalogInv, NEW i \in Workers, IndexQueues(i)
  PROVE  CatalogInv'
<1>1. i \in Passes /\ i \notin Refreshes
  BY PassesTyped
<1>2. TaskInv'
  <2>1. [version |-> pass[i].version, state |-> "queued", owner |-> 0] \in TaskType
    BY <1>1, PassFacts, TasksOfPasses DEF PassType, States
  <2> QED
    BY <2>1, <1>1, PassFacts, TaskWritten DEF IndexQueues, Record
<1>3. PICK pc \in {"spawned", "done"} :
        pass' = [pass EXCEPT ![i].pc = pc, ![i].version = 0]
  BY DEF IndexQueues
<1>4. pass' = [pass EXCEPT ![i] = [pass[i] EXCEPT !.pc = pc, !.version = 0]]
  BY <1>3
<1> QED
  BY <1>1, <1>2, <1>4, PassMoves DEF IndexQueues

(* catalog opens the current snapshot,                                     *)
LEMMA CatalogCommandKeeps ==
  ASSUME CatalogInv, NEW i \in Workers, CatalogCommand(i)
  PROVE  CatalogInv'
<1>1. i \in Passes /\ i \notin Refreshes
  BY PassesTyped
<1>2. TaskInv'
  BY DEF CatalogInv, TaskInv, CatalogCommand
<1>3. PICK pc \in {"begin", "launch"} :
        pass' = [pass EXCEPT ![i].pc = pc, ![i].version = Current]
  BY DEF CatalogCommand
<1>4. pass' = [pass EXCEPT ![i] = [pass[i] EXCEPT !.pc = pc, !.version = Current]]
  BY <1>3
<1> QED
  BY <1>1, <1>2, <1>4, PassMoves DEF CatalogCommand

(* records a task,                                                         *)
LEMMA CatalogQueuesKeeps ==
  ASSUME CatalogInv, NEW i \in Workers, CatalogQueues(i)
  PROVE  CatalogInv'
<1>1. i \in Passes
  BY PassesTyped
<1>2. pass[i] \in PassType /\ DOMAIN pass = Passes
  BY <1>1, PassFacts
<1>3. TaskInv'
  <2>1. [version |-> pass[i].version, state |-> "queued", owner |-> 0] \in TaskType
    BY <1>1, PassFacts, TasksOfPasses DEF PassType, States
  <2> QED
    BY <2>1, <1>1, PassFacts, TaskWritten DEF CatalogQueues
<1>4. pass' = [pass EXCEPT ![i] = [pass[i] EXCEPT !.pc = "start", !.version = pass[i].version]]
  BY <1>2 DEF CatalogQueues, PassType
<1> QED
  <2> DEFINE pc == "start"
             version == pass[i].version
  <2>1. /\ UNCHANGED <<store, publisher, tail, scenario>>
        /\ pass[i].pc = "launch" /\ pc = "start" /\ version = pass[i].version
        /\ pass' = [pass EXCEPT ![i] = [pass[i] EXCEPT !.pc = pc, !.version = version]]
    BY <1>4 DEF CatalogQueues
  <2> HIDE DEF pc, version
  <2> QED
    BY <1>1, <1>3, <2>1, PassMoves

(* and starts a process,                                                   *)
LEMMA CatalogStartsKeeps ==
  ASSUME CatalogInv, NEW i \in Workers, CatalogStarts(i)
  PROVE  CatalogInv'
<1>1. i \in Passes /\ i \notin Refreshes
  BY PassesTyped
<1>2. TaskInv'
  <2>1. [version |-> pass[i].version, state |-> "failed", owner |-> 0] \in TaskType
    BY <1>1, PassFacts, TasksOfPasses DEF PassType, States
  <2>2. CASE UNCHANGED task
    BY <2>2, PassFacts, <1>1 DEF CatalogStarts, TaskInv
  <2>3. CASE Record([version |-> pass[i].version, state |-> "failed", owner |-> 0])
    BY <2>1, <2>3, <1>1, PassFacts, TaskWritten DEF CatalogStarts, Record
  <2> QED
    BY <2>2, <2>3 DEF CatalogStarts
<1>3. PICK pc \in {"spawned", "done"} :
        pass' = [pass EXCEPT ![i].pc = pc, ![i].version = 0]
  BY DEF CatalogStarts
<1>4. pass' = [pass EXCEPT ![i] = [pass[i] EXCEPT !.pc = pc, !.version = 0]]
  BY <1>3
<1> QED
  BY <1>1, <1>2, <1>4, PassMoves DEF CatalogStarts

(* which opens the snapshot that is current by then.                       *)
LEMMA WorkerOpensKeeps ==
  ASSUME CatalogInv, NEW i \in Workers, WorkerOpens(i)
  PROVE  CatalogInv'
<1>1. i \in Passes /\ i \notin Refreshes
  BY PassesTyped
<1>2. TaskInv'
  BY DEF CatalogInv, TaskInv, WorkerOpens
<1>3. pass' = [pass EXCEPT ![i] = [pass[i] EXCEPT !.pc = "begin", !.version = Current]]
  BY DEF WorkerOpens
<1> QED
  <2> DEFINE pc == "begin"
             version == Current
  <2>1. /\ UNCHANGED <<store, publisher, tail, scenario>>
        /\ pass[i].pc = "spawned" /\ pc = "begin" /\ version = Current
        /\ pass' = [pass EXCEPT ![i] = [pass[i] EXCEPT !.pc = pc, !.version = version]]
    BY <1>3 DEF WorkerOpens
  <2> HIDE DEF pc, version
  <2> QED
    BY <1>1, <1>2, <2>1, PassMoves

(* A pass that begins owes everything.                                     *)
LEMMA PassBeginsKeeps ==
  ASSUME CatalogInv, NEW i \in Passes, PassBegins(i)
  PROVE  CatalogInv'
<1>1. pass[i] \in PassType /\ DOMAIN pass = Passes
  BY PassFacts
<1>2. TaskInv'
  BY PassFacts, TasksOfPasses, TaskWritten DEF PassBegins
<1>3. pass' = [pass EXCEPT ![i] = [pass[i] EXCEPT !.pc = "copy", !.version = pass[i].version]]
  BY <1>1 DEF PassBegins, PassType
<1> QED
  <2> DEFINE pc == "copy"
             version == pass[i].version
  <2>1. /\ UNCHANGED <<store, publisher, tail, scenario>>
        /\ pass[i].pc = "begin" /\ pc = "copy" /\ version = pass[i].version
        /\ pass' = [pass EXCEPT ![i] = [pass[i] EXCEPT !.pc = pc, !.version = version]]
    BY <1>3 DEF PassBegins
  <2> HIDE DEF pc, version
  <2> QED
    BY <1>2, <2>1, PassMoves

(* What the sources without a unit say is what their entries say: nothing. *)
LEMMA PassReadsUnitsKeeps ==
  ASSUME CatalogInv, NEW i \in Passes, PassReadsUnits(i)
  PROVE  CatalogInv'
<1> DEFINE v == pass[i].version
           S == {p \in Paths : /\ content[v][p] # None
                               /\ Incremental(i) => p \in pass[i].changed}
           pc == IF S = {} THEN "finish" ELSE "read"
           units == [p \in S |-> content[v][p]]
           r == [pass[i] EXCEPT !.pc = pc, !.todo = S, !.units = units]
<1>1. /\ pass[i] \in PassType /\ VersionOf(i) /\ DOMAIN pass = Passes /\ pass[i].pc = "units"
      /\ TaskInv /\ PassTyped /\ TablesTyped /\ RowsInv
  BY PassFacts DEF PassReadsUnits
<1>2. v \in Versions
  BY <1>1 DEF VersionOf
<1>3. S \in SUBSET Paths /\ pc \in {"finish", "read"} /\ (pc = "finish" => S = {})
  OBVIOUS
<1>4. units \in Parts(0..MaxVersion)
  <2>1. units \in [S -> 0..MaxVersion]
    BY <1>1, <1>2 DEF TablesTyped
  <2> HIDE DEF units, S
  <2> QED
    BY <1>3, <2>1, PartIntro
<1>5. /\ pass' = [pass EXCEPT ![i] = r]
      /\ UNCHANGED <<store, publisher, tail, stop, scenario>>
  BY DEF PassReadsUnits, RequestSnapshot
<1>6. TaskInv'
  BY <1>1, TasksOfPasses, TaskWritten DEF PassReadsUnits, Record
<1>7. \A p \in Paths : p \in S <=> content[v][p] # None /\ (Incremental(i) => p \in pass[i].changed)
  OBVIOUS
<1>8. DOMAIN units = S /\ \A p \in S : units[p] = content[v][p]
  OBVIOUS
<1>9. /\ r \in PassType /\ r.pc = pc /\ r.version = v /\ r.result = pass[i].result
      /\ r.todo = S /\ r.units = units /\ r.sound = pass[i].sound
  <2> HIDE DEF pc, S, units
  <2> QED
    BY <1>1, <1>3, <1>4 DEF PassType
<1> HIDE DEF r, units, pc, S
<1>10. pass'[i] = r
  BY <1>1, <1>5
<1>11. Current' = Current /\ published' = published /\ content' = content
  BY <1>5 DEF store, Current
<1>12. VersionOf(i)' /\ UnitsOf(i)' /\ ReadOf(i)'
  <2>1. VersionOf(i)'
    BY <1>1, <1>2, <1>3, <1>9, <1>10, <1>11 DEF VersionOf, Working
  <2>2. UnitsOf(i)'
    BY <1>7, <1>8, <1>9, <1>10, <1>11, <1>3 DEF UnitsOf
  <2> QED
    BY <2>1, <2>2, <1>3, <1>9, <1>10 DEF ReadOf
<1>13. ASSUME NEW u \in published, NEW p \in Paths
       PROVE /\ \/ entries[u][p].text = content[u][p]
                \/ Answers(i, u, p) => Answers(i, u, p)'
             /\ Begun(i, u)' => Begun(i, u) \/ Answers(i, u, p)'
  <2>1. content[v][p] = None => entries[v][p].text = content[v][p]
    BY <1>1, <1>2 DEF RowsInv, NoStrayRows, NoEntry
  <2>2. CASE p \in S
    BY <1>1, <1>3, <1>9, <1>10, <2>2 DEF Answers, Begun, Owes, Unsound, Working
  <2>3. CASE p \notin S
    BY <1>1, <1>3, <1>7, <1>9, <1>10, <2>1, <2>3 DEF Answers, Begun, Owes, Unsound, Working
  <2> QED
    BY <2>2, <2>3
<1> QED
  BY <1>5, <1>6, <1>9, <1>12, <1>13, QuietStep

(* What is read of the tables is as fresh as they are.                     *)
LEMMA PassReadsBatchKeeps ==
  ASSUME CatalogInv, NEW i \in Passes, PassReadsBatch(i)
  PROVE  CatalogInv'
<1> DEFINE v == pass[i].version
           batch == NextBatch(pass[i].todo)
           entriesRead == [p \in batch |-> entries[v][p]]
           embeddingsRead == [p \in batch |-> embeddings[v][p]]
           read == [batch |-> batch, entries |-> entriesRead, embeddings |-> embeddingsRead]
           r == [pass[i] EXCEPT !.pc = "write", !.read = read]
<1>1. /\ pass[i] \in PassType /\ VersionOf(i) /\ UnitsOf(i) /\ DOMAIN pass = Passes
      /\ pass[i].pc = "read" /\ TaskInv /\ TablesTyped /\ RowsInv
  BY PassFacts DEF PassReadsBatch
<1>2. v \in Versions
  BY <1>1 DEF VersionOf, Working
<1>3. batch \subseteq pass[i].todo /\ batch \in SUBSET Paths
  BY <1>1 DEF NextBatch, PassType
<1>4. entriesRead \in [batch -> Entry] /\ embeddingsRead \in [batch -> Entry]
  BY <1>1, <1>2, <1>3 DEF TablesTyped
<1>5. \A p \in batch : Fresh(entriesRead[p])
  BY <1>1, <1>2, <1>3 DEF RowsInv, SynopsisFresh, Fresh
<1>6. /\ pass' = [pass EXCEPT ![i] = r]
      /\ UNCHANGED <<store, task, publisher, tail, stop, scenario>>
  BY DEF PassReadsBatch
<1> HIDE DEF batch, entriesRead, embeddingsRead
<1>7. entriesRead \in Parts(Entry) /\ embeddingsRead \in Parts(Entry)
  BY <1>3, <1>4, PartIntro
<1>8. /\ read \in [batch : SUBSET Paths, entries : Parts(Entry), embeddings : Parts(Entry)]
      /\ read.batch = batch /\ read.entries = entriesRead /\ read.embeddings = embeddingsRead
  BY <1>3, <1>7
<1> HIDE DEF read
<1>9. /\ r \in PassType /\ r.pc = "write" /\ r.version = v /\ r.result = pass[i].result
      /\ r.todo = pass[i].todo /\ r.units = pass[i].units /\ r.sound = pass[i].sound
      /\ r.read = read
  BY <1>1, <1>8 DEF PassType
<1> HIDE DEF r
<1>10. pass'[i] = r
  BY <1>1, <1>6
<1>11. Current' = Current /\ published' = published /\ content' = content
  BY <1>6 DEF store, Current
<1>12. VersionOf(i)' /\ UnitsOf(i)' /\ ReadOf(i)'
  <2>1. VersionOf(i)'
    BY <1>1, <1>2, <1>9, <1>10, <1>11 DEF VersionOf, Working
  <2>2. UnitsOf(i)'
    BY <1>1, <1>9, <1>10, <1>11 DEF UnitsOf, Working
  <2>3. ReadOf(i)'
    BY <1>3, <1>4, <1>5, <1>8, <1>9, <1>10 DEF ReadOf
  <2> QED
    BY <2>1, <2>2, <2>3
<1>13. ASSUME NEW u \in published, NEW p \in Paths
       PROVE /\ Answers(i, u, p) => Answers(i, u, p)'
             /\ Begun(i, u)' => Begun(i, u) \/ Answers(i, u, p)'
  BY <1>1, <1>9, <1>10 DEF Answers, Begun, Owes, Unsound, Working
<1>14. TaskInv'
  BY <1>1, <1>6 DEF TaskInv
<1> QED
  BY <1>6, <1>9, <1>12, <1>13, <1>14, QuietStep

(* catalog-stop records a task that does not run.                          *)
LEMMA StopRecordsKeeps ==
  ASSUME CatalogInv, StopRecords
  PROVE  CatalogInv'
<1>1. TaskInv'
  BY DEF CatalogInv, TaskInv, StopRecords, Upsert, NoTask, TaskType, States, None
<1> QED
  BY <1>1, NoPassStep DEF StopRecords, CatalogInv, PublisherInv

(* The publisher's own steps touch no table.                               *)
LEMMA PublisherOpensKeeps ==
  ASSUME CatalogInv, PublisherOpens
  PROVE  CatalogInv'
<1>1. TaskInv'
  BY DEF CatalogInv, TaskInv, PublisherOpens
<1>2. Current \in 0..MaxVersion
  BY CurrentIsNewest DEF CatalogInv, Versions
<1>3. Current' = Current => PublisherInv'
  BY <1>2 DEF CatalogInv, PublisherInv, PublisherOpens
<1> QED
  BY <1>1, <1>3, NoPassStep DEF PublisherOpens

(* A batch that fails leaves nothing to refresh.                           *)
LEMMA PublisherFailsKeeps ==
  ASSUME CatalogInv, PublisherFails
  PROVE  CatalogInv'
<1>1. TaskInv'
  BY DEF CatalogInv, TaskInv, PublisherFails
<1>2. publisher' \in [pc : {"idle", "publish", "start"}, previous : 0..MaxVersion,
                     version : 0..MaxVersion, changed : SUBSET Paths]
  <2>1. 0 \in 0..MaxVersion
    OBVIOUS
  <2> QED
    BY <2>1 DEF CatalogInv, PublisherInv, PublisherFails
<1>3. publisher'.pc = "idle" /\ tail' = tail
  BY DEF CatalogInv, PublisherInv, PublisherFails
<1>4. Current' = Current => PublisherInv'
  BY <1>2, <1>3 DEF CatalogInv, PublisherInv
<1> QED
  BY <1>1, <1>4, NoPassStep DEF PublisherFails

(* A refresh that waits answers for its whole version.                     *)
LEMMA StartRefreshKeeps ==
  ASSUME CatalogInv, StartRefresh
  PROVE  CatalogInv'
<1>0. PICK i \in Versions : i = publisher.version
  BY DEF CatalogInv, PublisherInv, StartRefresh
<1> DEFINE r == [NoPass EXCEPT !.pc = "waiting", !.version = publisher.version,
                              !.previous = publisher.previous, !.changed = publisher.changed,
                              !.after = tail]
<1>1. /\ i \in Passes /\ i \in Versions /\ i <= Current
      /\ publisher.version \in 0..MaxVersion /\ publisher.previous \in 0..MaxVersion
      /\ publisher.changed \in SUBSET Paths /\ tail \in {0} \cup Refreshes
  BY <1>0, PassesTyped DEF CatalogInv, PublisherInv, StartRefresh
<1>2. TaskInv'
  <2>1. [version |-> i, state |-> "queued", owner |-> 0] \in TaskType
    BY <1>0, <1>1, TasksOfPasses DEF CatalogInv, States
  <2> QED
    BY <1>0, <2>1, TaskWritten DEF StartRefresh, Record, CatalogInv
<1>3. /\ r \in PassType /\ r.pc = "waiting" /\ r.version = i /\ r.result = "none"
  BY <1>0, <1>1, NoPassTyped DEF NoPass, PassType
<1>4. pass' = [pass EXCEPT ![i] = r] /\ UNCHANGED <<store, scenario>>
  BY <1>0 DEF StartRefresh
<1> HIDE DEF r
<1>5. pass'[i] = r
  BY <1>1, <1>4, PassFacts
<1>6. Current' = Current => PublisherInv'
  <2>1. 0 \in 0..MaxVersion
    OBVIOUS
  <2>2. publisher' \in [pc : {"idle", "publish", "start"}, previous : 0..MaxVersion,
                       version : 0..MaxVersion, changed : SUBSET Paths]
    BY <2>1 DEF StartRefresh
  <2>3. publisher'.pc = "idle" /\ tail' \in Refreshes
    BY <1>0, PassesTyped DEF StartRefresh
  <2> QED
    BY <2>2, <2>3 DEF PublisherInv
<1>7. Current' = Current
  BY <1>4 DEF store, Current
<1>8. VersionOf(i)' /\ UnitsOf(i)' /\ ReadOf(i)'
  <2>1. VersionOf(i)'
    BY <1>1, <1>3, <1>5, <1>7 DEF VersionOf
  <2> QED
    BY <1>3, <1>5, <2>1 DEF UnitsOf, ReadOf, Working
<1>9. ASSUME NEW v \in published, NEW p \in Paths
      PROVE /\ Answers(i, v, p) => Answers(i, v, p)'
            /\ Begun(i, v)' => Begun(i, v) \/ Answers(i, v, p)'
  <2>1. pass[i].version \in {0, i} /\ v # 0
    BY <1>1, PassFacts, PassesTyped DEF VersionOf, TablesTyped
  <2> QED
    BY <1>3, <1>5, <2>1 DEF Answers, Begun, Owes
<1> QED
  BY <1>1, <1>2, <1>3, <1>4, <1>6, <1>8, <1>9, StoreKeepingStep

(* The refreshes that end with the indexer's process leave their versions  *)
(* unsound.                                                                *)
LEMMA IndexerExitsKeeps ==
  ASSUME CatalogInv, IndexerExits
  PROVE  CatalogInv'
<1>1. /\ TablesTyped' /\ OnlyPublished' /\ RowsInv' /\ Current' = Current
      /\ published' = published /\ content' = content /\ entries' = entries
  BY StoreKept DEF IndexerExits, CatalogInv
<1>2. TaskInv' /\ PublisherInv'
  BY DEF CatalogInv, TaskInv, PublisherInv, IndexerExits
<1>3. ASSUME NEW j \in Passes
      PROVE \/ pass'[j] = pass[j]
            \/ /\ j \in Refreshes /\ pass[j].pc # "idle"
               /\ pass'[j] = Over(j, "done", "dead")
  BY DEF IndexerExits, Dead
<1>4. ASSUME NEW j \in Passes, j \in Refreshes, pass[j].pc # "idle",
             pass'[j] = Over(j, "done", "dead")
      PROVE /\ pass'[j] \in PassType /\ pass'[j].pc = "done" /\ pass'[j].result = "dead"
            /\ pass'[j].version = pass[j].version /\ ~pass'[j].sound
  <2> DEFINE pc == "done"
             result == "dead"
  <2>1. pc \in {"closed", "done"} /\ result \in {"ok", "failed", "dead"} /\ result # "ok"
    OBVIOUS
  <2>2. pass[j] \in PassType
    BY PassFacts
  <2> HIDE DEF pc, result
  <2>3. /\ Over(j, pc, result) \in PassType /\ Over(j, pc, result).pc = pc
        /\ Over(j, pc, result).version = pass[j].version
        /\ Over(j, pc, result).result = result
        /\ Over(j, pc, result).sound = (pass[j].sound /\ result = "ok")
    BY <2>1, <2>2, OverFacts
  <2>4. ~Over(j, pc, result).sound
    BY <2>1, <2>3
  <2> QED
    BY <1>4, <2>3, <2>4 DEF pc, result
<1>5. PassTyped'
  <2>1. \A j \in Passes : pass'[j] \in PassType
    BY <1>3, <1>4 DEF CatalogInv, PassTyped
  <2> QED
    BY <2>1 DEF IndexerExits, PassTyped
<1>6. PassInv'
  <2> SUFFICES ASSUME NEW j \in Passes PROVE VersionOf(j)' /\ UnitsOf(j)' /\ ReadOf(j)'
    BY DEF PassInv
  <2>1. VersionOf(j) /\ UnitsOf(j) /\ ReadOf(j)
    BY PassFacts
  <2>2. CASE pass'[j] = pass[j]
    BY <1>1, <2>1, <2>2 DEF VersionOf, UnitsOf, ReadOf
  <2>3. CASE /\ j \in Refreshes /\ pass[j].pc # "idle"
             /\ pass'[j] = Over(j, "done", "dead")
    BY <1>1, <1>4, <2>1, <2>3 DEF VersionOf, UnitsOf, ReadOf, Working
  <2> QED
    BY <1>3, <2>2, <2>3
<1>7. SettleInv'
  <2> SUFFICES ASSUME NEW v \in published, NEW p \in Paths PROVE Settled(v, p)'
    BY <1>1 DEF SettleInv
  <2>1. ASSUME NEW j \in Passes
        PROVE /\ Answers(j, v, p) => Answers(j, v, p)'
              /\ Begun(j, v)' => Begun(j, v)
    <3>1. CASE pass'[j] = pass[j]
      BY <1>1, <3>1, AnswersKept
    <3>2. CASE /\ j \in Refreshes /\ pass[j].pc # "idle"
               /\ pass'[j] = Over(j, "done", "dead")
      <4>1. VersionOf(j)
        BY PassFacts
      <4> QED
        BY <1>4, <3>2, <4>1 DEF Answers, Begun, Unsound, VersionOf
    <3> QED
      BY <1>3, <3>1, <3>2
  <2>2. Settled(v, p)
    BY DEF CatalogInv, SettleInv
  <2> HIDE DEF Answers, Begun
  <2> QED
    BY <1>1, <2>1, <2>2 DEF Settled
<1> QED
  BY <1>1, <1>2, <1>5, <1>6, <1>7 DEF CatalogInv

-----------------------------------------------------------------------------
(* Steps that change the tables                                            *)

(* A publication adds a version after all others, without entries, and     *)
(* leaves those that stay as they are.                                     *)
LEMMA Publishes ==
  ASSUME CatalogInv, UNCHANGED scenario, Current < scenario.versions,
         NEW S \in SUBSET Paths, NEW changes \in Changes(S), Publish(changes)
  PROVE  /\ TablesTyped' /\ OnlyPublished' /\ RowsInv'
         /\ Current + 1 \in Versions /\ Current' = Current + 1
         /\ published' \subseteq published \cup {Current + 1}
         /\ \A v \in published' : v # Current + 1 =>
              /\ v \in published /\ v <= Current
              /\ content'[v] = content[v] /\ entries'[v] = entries[v]
<1> DEFINE v == Current + 1
           new == [p \in Paths |-> IF p \in DOMAIN changes THEN changes[p]
                                   ELSE content[Current][p]]
           kept == {u \in published \cup {v} : u + Retained > v}
           contents == [u \in Versions |->
                          [p \in Paths |-> IF u = v THEN new[p]
                                           ELSE IF u \in kept THEN content[u][p] ELSE None]]
           rows(table, row) == [u \in Versions |-> [p \in Paths |->
                                  IF u \in kept THEN table[u][p] ELSE row]]
<1>1. /\ TablesTyped /\ OnlyPublished /\ NoStrayRows /\ SynopsisFresh
      /\ Current \in published /\ Current \in Versions
      /\ \A u \in published : u <= Current
  BY CurrentIsNewest DEF CatalogInv, RowsInv
<1>2. scenario.versions \in 1..MaxVersion
  BY <1>1 DEF TablesTyped
<1>3. v \in Versions /\ v \notin published /\ Current < v
  BY <1>1, <1>2 DEF Versions
<1>4. /\ published' = kept /\ content' = contents
      /\ entries' = rows(entries, NoEntry) /\ embeddings' = rows(embeddings, NoVectors)
  BY DEF Publish
<1>5. /\ v \in kept /\ kept \subseteq published \cup {v} /\ kept \subseteq Versions
      /\ \A u \in kept : u <= v /\ (u # v => u \in published /\ u <= Current)
  <2>1. published \subseteq Versions /\ Versions \subseteq Nat /\ Current \in Nat
    BY <1>1, PassesTyped DEF TablesTyped
  <2> HIDE DEF v
  <2>2. v \in Nat /\ v <= v /\ v + Retained > v
    BY <1>3, PassesTyped
  <2>3. \A u \in published : u \in Nat /\ u <= Current /\ u <= v
    BY <1>1, <1>3, <2>1, <2>2
  <2> QED
    BY <1>3, <2>1, <2>2, <2>3
<1>6. new \in [Paths -> 0..MaxVersion]
  <2>1. \A p \in DOMAIN changes : changes[p] \in {v, None}
    BY DEF Changes
  <2>2. v \in 0..MaxVersion /\ None \in 0..MaxVersion
    BY <1>3 DEF Versions, None
  <2> HIDE DEF v
  <2>3. \A p \in Paths : content[Current][p] \in 0..MaxVersion
    BY <1>1 DEF TablesTyped
  <2> QED
    BY <2>1, <2>2, <2>3
<1>7. NoEntry \in Entry /\ NoVectors \in Entry
  BY DEF NoEntry, NoVectors, Entry, None
<1> HIDE DEF v, new, kept
<1>8. contents \in [Versions -> [Paths -> 0..MaxVersion]]
  <2>1. None \in 0..MaxVersion
    BY DEF None
  <2> QED
    BY <1>1, <1>6, <2>1 DEF TablesTyped
<1>9. ASSUME NEW table \in [Versions -> [Paths -> Entry]], NEW row \in Entry
      PROVE  rows(table, row) \in [Versions -> [Paths -> Entry]]
  BY <1>9
<1>10. entries' \in [Versions -> [Paths -> Entry]] /\ embeddings' \in [Versions -> [Paths -> Entry]]
  <2>1. entries \in [Versions -> [Paths -> Entry]] /\ embeddings \in [Versions -> [Paths -> Entry]]
    BY <1>1 DEF TablesTyped
  <2> HIDE DEF rows
  <2> QED
    BY <1>4, <1>7, <1>9, <2>1
<1>11. TablesTyped'
  BY <1>1, <1>4, <1>5, <1>8, <1>10 DEF TablesTyped
<1>12. OnlyPublished'
  BY <1>4, <1>5 DEF OnlyPublished
<1>13. NoStrayRows'
  <2> SUFFICES ASSUME NEW u \in Versions, NEW p \in Paths, contents[u][p] = None
               PROVE  /\ rows(entries, NoEntry)[u][p] = NoEntry
                      /\ rows(embeddings, NoVectors)[u][p] = NoVectors
    BY <1>4 DEF NoStrayRows
  <2>1. CASE u = v
    <3>1. content[v][p] = None
      BY <1>1, <1>3 DEF OnlyPublished
    <3>2. entries[v][p] = NoEntry /\ embeddings[v][p] = NoVectors
      BY <1>1, <1>3, <3>1 DEF NoStrayRows
    <3> QED
      BY <1>5, <2>1, <3>2
  <2>2. CASE u # v /\ u \in kept
    <3>1. content[u][p] = None
      BY <2>2
    <3> QED
      BY <1>1, <2>2, <3>1 DEF NoStrayRows
  <2>3. CASE u \notin kept
    BY <2>3
  <2> QED
    BY <2>1, <2>2, <2>3
<1>14. SynopsisFresh'
  BY <1>1, <1>4 DEF SynopsisFresh, NoEntry
<1>15. Current' = v
  <2>1. /\ v \in kept /\ \A u \in kept : u <= v
        /\ kept \subseteq Nat /\ v \in Nat
    BY <1>3, <1>5 DEF Versions
  <2>2. \A u \in kept : (\A w \in kept : w <= u) => u = v
    BY <2>1
  <2> QED
    BY <1>4, <2>1, <2>2 DEF Current
<1>16. ASSUME NEW u \in published', u # v
       PROVE  /\ u \in published /\ u <= Current
              /\ content'[u] = content[u] /\ entries'[u] = entries[u]
  <2>1. u \in kept /\ u \in Versions /\ u \in published /\ u <= Current
    BY <1>4, <1>5, <1>16
  <2>2. content'[u] = [p \in Paths |-> content[u][p]] /\ content[u] = [p \in Paths |-> content[u][p]]
    BY <1>1, <1>4, <1>16, <2>1 DEF TablesTyped
  <2>3. entries'[u] = [p \in Paths |-> entries[u][p]] /\ entries[u] = [p \in Paths |-> entries[u][p]]
    BY <1>1, <1>4, <1>16, <2>1 DEF TablesTyped
  <2> QED
    BY <2>1, <2>2, <2>3
<1> QED
  <2>1. RowsInv'
    BY <1>13, <1>14 DEF RowsInv
  <2>2. published' \subseteq published \cup {v}
    BY <1>4, <1>5
  <2>3. v = Current + 1
    BY DEF v
  <2> HIDE DEF contents, rows
  <2> QED
    BY <1>3, <1>11, <1>12, <1>15, <1>16, <2>1, <2>2, <2>3

(* No pass has begun for a new version, and those for the others go on.    *)
LEMMA PassesOutlivePublishing ==
  ASSUME CatalogInv, NEW m \in Versions, m = Current + 1, Current' = m,
         published' \subseteq published \cup {m},
         \A v \in published' : v # m =>
           /\ v \in published /\ v <= Current
           /\ content'[v] = content[v] /\ entries'[v] = entries[v],
         NEW j \in Passes, pass'[j] = pass[j]
  PROVE  /\ VersionOf(j)' /\ UnitsOf(j)' /\ ReadOf(j)'
         /\ ~Begun(j, m)'
         /\ \A v \in published', p \in Paths : v # m =>
              (Answers(j, v, p)' <=> Answers(j, v, p)) /\ (Begun(j, v)' <=> Begun(j, v))
<1>1. /\ VersionOf(j) /\ UnitsOf(j) /\ ReadOf(j) /\ pass[j] \in PassType
      /\ Current \in Versions
  BY PassFacts, CurrentIsNewest
<1>2. pass[j].version \in 0..MaxVersion /\ (pass[j].version # 0 => pass[j].version <= Current)
  BY <1>1 DEF VersionOf, PassType
<1>3. pass[j].version # m /\ pass[j].version <= m
  BY <1>1, <1>2 DEF Versions
<1>4. VersionOf(j)'
  BY <1>1, <1>3 DEF VersionOf
<1>5. UnitsOf(j)'
  BY <1>1, <1>3 DEF UnitsOf
<1>6. ReadOf(j)'
  BY <1>1 DEF ReadOf
<1>7. ASSUME NEW v \in published', NEW p \in Paths, v # m
      PROVE (Answers(j, v, p)' <=> Answers(j, v, p)) /\ (Begun(j, v)' <=> Begun(j, v))
  <2>1. content'[v] = content[v]
    BY <1>7
  <2>2. Begun(j, v)' <=> Begun(j, v)
    BY DEF Begun
  <2>3. CASE Begun(j, v)
    <3>1. pass[j].version = v
      BY <2>3 DEF Begun
    <3> QED
      BY <2>1, <2>2, <2>3, <3>1 DEF Answers, Unsound, Owes, Incremental
  <2>4. CASE ~Begun(j, v)
    BY <2>2, <2>4 DEF Answers
  <2> QED
    BY <2>2, <2>3, <2>4
<1> QED
  BY <1>3, <1>4, <1>5, <1>6, <1>7 DEF Begun

(* The publisher publishes the version it will refresh.                    *)
LEMMA PublisherPublishesKeeps ==
  ASSUME CatalogInv, NEW S \in SUBSET Paths, PublisherPublishes(S)
  PROVE  CatalogInv'
<1>1. PICK changes \in Changes(S) : Publish(changes)
  BY DEF PublisherPublishes
<1>2. /\ UNCHANGED <<task, tail, pass, stop, scenario>> /\ Current < scenario.versions
      /\ publisher' = [publisher EXCEPT !.pc = "start", !.version = Current + 1, !.changed = S]
  BY DEF PublisherPublishes
<1>3. PICK m \in Versions : m = Current + 1
  BY <1>1, <1>2, Publishes
<1>4. /\ TablesTyped' /\ OnlyPublished' /\ RowsInv' /\ Current' = m
      /\ published' \subseteq published \cup {m}
      /\ \A v \in published' : v # m =>
           /\ v \in published /\ v <= Current
           /\ content'[v] = content[v] /\ entries'[v] = entries[v]
  BY <1>1, <1>2, <1>3, Publishes
<1>5. TaskInv' /\ PassTyped'
  BY <1>2 DEF CatalogInv, TaskInv, PassTyped
<1>6. PublisherInv'
  <2>1. m \in 0..MaxVersion /\ m <= m
    BY DEF Versions
  <2>2. publisher' \in [pc : {"idle", "publish", "start"}, previous : 0..MaxVersion,
                       version : 0..MaxVersion, changed : SUBSET Paths]
    BY <1>2, <1>3, <2>1 DEF CatalogInv, PublisherInv
  <2>3. publisher'.version = m /\ tail' = tail
    BY <1>2, <1>3 DEF CatalogInv, PublisherInv
  <2> QED
    BY <1>4, <2>1, <2>2, <2>3 DEF CatalogInv, PublisherInv
<1>7. ASSUME NEW j \in Passes
      PROVE  /\ VersionOf(j)' /\ UnitsOf(j)' /\ ReadOf(j)'
             /\ ~Begun(j, m)'
             /\ \A v \in published', p \in Paths : v # m =>
                  (Answers(j, v, p)' <=> Answers(j, v, p)) /\ (Begun(j, v)' <=> Begun(j, v))
  BY <1>2, <1>3, <1>4, PassesOutlivePublishing
<1>8. SettleInv'
  <2> SUFFICES ASSUME NEW v \in published', NEW p \in Paths PROVE Settled(v, p)'
    BY DEF SettleInv
  <2> HIDE DEF Answers, Begun
  <2>1. CASE v = m
    BY <1>7, <2>1 DEF Settled
  <2>2. CASE v # m
    BY <1>4, <1>7, <2>2 DEF CatalogInv, SettleInv, Settled
  <2> QED
    BY <2>1, <2>2
<1> QED
  BY <1>4, <1>5, <1>6, <1>7, <1>8 DEF CatalogInv, PassInv

(* An index publishes beside it.                                           *)
LEMMA IndexCommandKeeps ==
  ASSUME CatalogInv, NEW i \in Workers, IndexCommand(i)
  PROVE  CatalogInv'
<1>1. PICK S \in SUBSET Paths : \E changes \in Changes(S) : Publish(changes)
  BY DEF IndexCommand
<1>2. PICK changes \in Changes(S) : Publish(changes)
  BY <1>1
<1>3. /\ UNCHANGED <<task, publisher, tail, stop, scenario>> /\ Current < scenario.versions
      /\ pass[i].pc = "idle"
      /\ pass' = [pass EXCEPT ![i] = [pass[i] EXCEPT !.pc = "queue", !.version = Current + 1]]
  BY DEF IndexCommand
<1>4. PICK m \in Versions : m = Current + 1
  BY <1>2, <1>3, Publishes
<1>5. /\ TablesTyped' /\ OnlyPublished' /\ RowsInv' /\ Current' = m
      /\ published' \subseteq published \cup {m}
      /\ \A v \in published' : v # m =>
           /\ v \in published /\ v <= Current
           /\ content'[v] = content[v] /\ entries'[v] = entries[v]
  BY <1>2, <1>3, <1>4, Publishes
<1>6. TaskInv'
  BY <1>3 DEF CatalogInv, TaskInv
<1>7. PublisherInv'
  <2>1. Current \in Versions
    BY CurrentIsNewest DEF CatalogInv
  <2>2. publisher.version \in Versions /\ publisher.version <= Current => publisher.version <= m
    BY <1>4, <2>1 DEF Versions
  <2> QED
    BY <1>3, <1>5, <2>2 DEF CatalogInv, PublisherInv
<1>8. /\ i \in Passes /\ i \notin Refreshes /\ pass[i] \in PassType /\ DOMAIN pass = Passes
      /\ VersionOf(i)
  BY PassesTyped, PassFacts
<1> DEFINE r == [pass[i] EXCEPT !.pc = "queue", !.version = m]
<1>9. /\ r \in PassType /\ r.pc = "queue" /\ r.version = m /\ r.result = pass[i].result
      /\ m <= m
  <2>1. m \in 0..MaxVersion /\ m <= m
    BY DEF Versions
  <2> QED
    BY <1>8, <2>1 DEF PassType
<1>10. pass' = [pass EXCEPT ![i] = r]
  BY <1>3, <1>4
<1> HIDE DEF r
<1>11. pass'[i] = r /\ \A j \in Passes : j # i => pass'[j] = pass[j]
  BY <1>8, <1>10
<1>12. PassTyped'
  BY <1>9, <1>10 DEF CatalogInv, PassTyped
<1>13. VersionOf(i)' /\ UnitsOf(i)' /\ ReadOf(i)'
  BY <1>3, <1>5, <1>8, <1>9, <1>11 DEF VersionOf, UnitsOf, ReadOf, Working
<1>14. ASSUME NEW j \in Passes, j # i
       PROVE  /\ VersionOf(j)' /\ UnitsOf(j)' /\ ReadOf(j)'
              /\ ~Begun(j, m)'
              /\ \A v \in published', p \in Paths : v # m =>
                   (Answers(j, v, p)' <=> Answers(j, v, p)) /\ (Begun(j, v)' <=> Begun(j, v))
  BY <1>4, <1>5, <1>11, <1>14, PassesOutlivePublishing
<1>15. ASSUME NEW v \in published', NEW p \in Paths
       PROVE  ~Begun(i, v)' /\ (v # m => ~Begun(i, v) /\ ~Answers(i, v, p))
  <2>1. v # 0
    BY <1>5, PassesTyped DEF TablesTyped
  <2> QED
    BY <1>3, <1>8, <1>9, <1>11, <2>1 DEF Begun, Answers, VersionOf
<1>16. SettleInv'
  <2> SUFFICES ASSUME NEW v \in published', NEW p \in Paths PROVE Settled(v, p)'
    BY DEF SettleInv
  <2> HIDE DEF Answers, Begun
  <2>1. CASE v = m
    BY <1>14, <1>15, <2>1 DEF Settled
  <2>2. CASE v # m
    <3>1. Settled(v, p) /\ content'[v] = content[v] /\ entries'[v] = entries[v]
      BY <1>5, <2>2 DEF CatalogInv, SettleInv
    <3>2. CASE \E j \in Passes : Answers(j, v, p)
      <4> PICK j \in Passes : Answers(j, v, p)
        BY <3>2
      <4>1. Answers(j, v, p)'
        BY <1>14, <1>15, <2>2
      <4> QED
        BY <4>1 DEF Settled
    <3>3. CASE \A j \in Passes : ~Begun(j, v)
      BY <1>14, <1>15, <2>2, <3>3 DEF Settled
    <3> QED
      BY <3>1, <3>2, <3>3 DEF Settled
  <2> QED
    BY <2>1, <2>2
<1> QED
  BY <1>5, <1>6, <1>7, <1>12, <1>13, <1>14, <1>16 DEF CatalogInv, PassInv

(* Copying writes only into the target, what the source has for it.        *)
LEMMA CopiesRows ==
  ASSUME TablesTyped, RowsInv, NEW source \in Versions, NEW target \in Versions,
         CopyCatalog(source, target), UNCHANGED <<published, content, scenario>>
  PROVE  /\ TablesTyped' /\ RowsInv'
         /\ \A v \in Versions : v # target => entries'[v] = entries[v]
         /\ \A p \in Paths : content[target][p] # None /\ entries[source][p] # NoEntry =>
              entries'[target][p] = entries[source][p]
<1> DEFINE rows == [p \in Paths |-> IF content[target][p] # None /\ entries[source][p] # NoEntry
                                    THEN entries[source][p] ELSE entries[target][p]]
           row(p) == [k \in DOMAIN NoVectors |->
                        IF content[target][p] # None /\ embeddings[source][p][k] # None
                        THEN embeddings[source][p][k] ELSE embeddings[target][p][k]]
           vectors == [p \in Paths |-> row(p)]
<1>1. /\ entries \in [Versions -> [Paths -> Entry]] /\ embeddings \in [Versions -> [Paths -> Entry]]
      /\ content \in [Versions -> [Paths -> 0..MaxVersion]]
      /\ NoStrayRows /\ SynopsisFresh
  BY DEF TablesTyped, RowsInv
<1>2. entries' = [entries EXCEPT ![target] = rows] /\ embeddings' = [embeddings EXCEPT ![target] = vectors]
  BY <1>1 DEF CopyCatalog
<1>3. rows \in [Paths -> Entry]
  BY <1>1
<1>4. ASSUME NEW p \in Paths
      PROVE  row(p) \in Entry /\ (content[target][p] = None => row(p) = embeddings[target][p])
  <2>1. embeddings[source][p] \in Entry /\ embeddings[target][p] \in Entry
    BY <1>1
  <2> QED
    BY <2>1 DEF Entry, NoVectors
<1>5. vectors \in [Paths -> Entry]
  BY <1>4
<1>6. TablesTyped'
  BY <1>1, <1>2, <1>3, <1>5 DEF TablesTyped
<1>7. NoStrayRows'
  BY <1>1, <1>2, <1>4 DEF NoStrayRows
<1>8. SynopsisFresh'
  BY <1>1, <1>2 DEF SynopsisFresh
<1> QED
  BY <1>1, <1>2, <1>6, <1>7, <1>8 DEF RowsInv

(* A step of pass i that writes rows of its version.                       *)
LEMMA WritingStep ==
  ASSUME CatalogInv, UNCHANGED <<published, content, publisher, tail, scenario>>,
         TaskInv', TablesTyped', RowsInv',
         NEW i \in Passes, NEW r \in PassType, pass' = [pass EXCEPT ![i] = r],
         VersionOf(i)', UnitsOf(i)', ReadOf(i)',
         \A v \in published, p \in Paths :
           \/ entries'[v][p].text = content[v][p]
           \/ Answers(i, v, p)'
           \/ /\ entries'[v][p] = entries[v][p]
              /\ Answers(i, v, p) => Answers(i, v, p)'
              /\ Begun(i, v)' => Begun(i, v)
  PROVE  CatalogInv'
<1> USE DEF CatalogInv
<1>1. Current' = Current
  BY DEF Current
<1>2. OnlyPublished' /\ PublisherInv'
  BY <1>1, PublisherKept DEF OnlyPublished
<1>3. PassTyped' /\ PassInv'
  BY <1>1, OnePass
<1>4. SettleInv'
  BY OneSettles
<1> QED
  BY <1>2, <1>3, <1>4

(* What a pass has copied is right where the earlier catalog was whole and *)
(* the source is the same; the rest it will read again.                    *)
LEMMA PassCopiesKeeps ==
  ASSUME CatalogInv, NEW i \in Passes, PassCopies(i)
  PROVE  CatalogInv'
<1> DEFINE source == pass[i].previous
           target == pass[i].version
           sound == ~Incremental(i) \/ Continues(i)
           r == [pass[i] EXCEPT !.pc = "units", !.sound = sound]
<1>1. /\ pass[i] \in PassType /\ VersionOf(i) /\ DOMAIN pass = Passes /\ pass[i].pc = "copy"
      /\ TaskInv /\ TablesTyped /\ RowsInv
  BY PassFacts DEF PassCopies
<1>2. target \in Versions
  BY <1>1 DEF VersionOf
<1>3. /\ pass' = [pass EXCEPT ![i] = r]
      /\ UNCHANGED <<published, content, task, publisher, tail, stop, scenario>>
      /\ \/ source = 0 /\ UNCHANGED <<entries, embeddings>>
         \/ /\ {source, target} \subseteq published /\ source # 0
            /\ CopyCatalog(source, target)
  BY DEF PassCopies
<1>4. sound \in BOOLEAN /\ (sound => ~Incremental(i) \/ Continues(i))
  BY DEF Incremental, Continues, Whole
<1> HIDE DEF sound
<1>5. /\ r \in PassType /\ r.pc = "units" /\ r.version = target /\ r.result = pass[i].result
      /\ r.previous = source /\ r.changed = pass[i].changed /\ r.sound = sound
  BY <1>1, <1>4 DEF PassType
<1> HIDE DEF r
<1>6. pass'[i] = r
  BY <1>1, <1>3
<1>7. Current' = Current
  BY <1>3 DEF Current
<1>8. VersionOf(i)' /\ UnitsOf(i)' /\ ReadOf(i)'
  BY <1>1, <1>2, <1>3, <1>5, <1>6, <1>7 DEF VersionOf, UnitsOf, ReadOf, Working
<1>9. TaskInv'
  BY <1>1, <1>3 DEF TaskInv
<1>10. /\ TablesTyped' /\ RowsInv'
       /\ \A v \in Versions : v # target => entries'[v] = entries[v]
       /\ \A p \in Paths : source # 0 /\ content[target][p] # None /\ entries[source][p] # NoEntry =>
            entries'[target][p] = entries[source][p]
  <2>1. CASE source = 0 /\ UNCHANGED <<entries, embeddings>>
    BY <1>1, <1>3, <2>1 DEF TablesTyped, RowsInv, NoStrayRows, SynopsisFresh
  <2>2. CASE /\ {source, target} \subseteq published /\ source # 0
             /\ CopyCatalog(source, target)
    <3>1. source \in Versions
      BY <1>1, <2>2 DEF TablesTyped
    <3> QED
      BY <1>1, <1>2, <1>3, <2>2, <3>1, CopiesRows
  <2> QED
    BY <1>3, <2>1, <2>2
<1>11. Incremental(i)' = Incremental(i)
  BY <1>5, <1>6 DEF Incremental
<1>12. ASSUME NEW v \in published, NEW p \in Paths
       PROVE \/ entries'[v][p].text = content[v][p]
             \/ Answers(i, v, p)'
             \/ /\ entries'[v][p] = entries[v][p]
                /\ Answers(i, v, p) => Answers(i, v, p)'
                /\ Begun(i, v)' => Begun(i, v)
  <2>1. CASE v # target
    <3>1. entries'[v][p] = entries[v][p]
      BY <1>1, <1>10, <2>1 DEF TablesTyped
    <3>2. ~Begun(i, v)' /\ ~Answers(i, v, p)
      BY <1>5, <1>6, <2>1 DEF Begun, Answers
    <3> QED
      BY <3>1, <3>2
  <2>2. CASE v = target /\ content[target][p] = None
    BY <1>2, <1>3, <1>10, <2>2 DEF RowsInv, NoStrayRows, NoEntry
  <2>3. CASE v = target /\ content[target][p] # None /\ (Incremental(i) => p \in pass[i].changed)
    BY <1>3, <1>5, <1>6, <1>11, <2>3 DEF Answers, Begun, Owes
  <2>4. CASE v = target /\ ~sound
    BY <1>5, <1>6, <2>4 DEF Answers, Begun, Unsound, Working
  <2>5. CASE /\ v = target /\ sound /\ content[target][p] # None
             /\ Incremental(i) /\ p \notin pass[i].changed
    <3>1. entries[source][p].text = content[source][p] /\ content[target][p] = content[source][p]
      BY <1>4, <2>5 DEF Continues, Whole
    <3>2. source # 0 /\ entries[source][p] # NoEntry
      BY <2>5, <3>1 DEF Incremental, NoEntry
    <3> QED
      BY <1>10, <2>5, <3>1, <3>2
  <2> QED
    BY <2>1, <2>2, <2>3, <2>4, <2>5
<1> QED
  BY <1>3, <1>5, <1>8, <1>9, <1>10, <1>12, WritingStep

(* A pass after a batch still answers for the sources beyond it.           *)
LEMMA BatchDoneFacts ==
  ASSUME NEW i \in Passes, pass[i] \in PassType, UnitsOf(i), ReadOf(i),
         pass[i].pc \in {"write", "embed"}
  PROVE  /\ BatchDone(i) \in PassType
         /\ BatchDone(i).pc \in {"read", "finish"}
         /\ BatchDone(i).version = pass[i].version /\ BatchDone(i).result = pass[i].result
         /\ BatchDone(i).units = pass[i].units /\ BatchDone(i).sound = pass[i].sound
         /\ BatchDone(i).todo \subseteq DOMAIN pass[i].units
         /\ \A p \in pass[i].todo \ pass[i].read.batch :
              BatchDone(i).pc = "read" /\ p \in BatchDone(i).todo
<1> DEFINE rest == pass[i].todo \ pass[i].read.batch
           again == rest = {} /\ scenario.options = "both" /\ pass[i].phase = 1
           pc == IF rest = {} /\ ~again THEN "finish" ELSE "read"
           phase == IF again THEN 2 ELSE pass[i].phase
           todo == IF again THEN DOMAIN pass[i].units ELSE rest
           r == [pass[i] EXCEPT !.pc = pc, !.phase = phase, !.todo = todo, !.read = NoRead]
<1>1. BatchDone(i) = r
  BY DEF BatchDone
<1>2. DOMAIN pass[i].units \in SUBSET Paths
  BY DEF PassType, Parts
<1>3. rest \in SUBSET Paths /\ rest \subseteq DOMAIN pass[i].units
  BY <1>2 DEF UnitsOf, Working
<1>4. /\ pc \in {"read", "finish"} /\ phase \in {1, 2} /\ todo \in SUBSET Paths
      /\ todo \subseteq DOMAIN pass[i].units
      /\ \A p \in rest : pc = "read" /\ p \in todo
  BY <1>2, <1>3 DEF PassType
<1>5. NoRead \in [batch : SUBSET Paths, entries : Parts(Entry), embeddings : Parts(Entry)]
  BY EmptyPart DEF NoRead
<1> HIDE DEF pc, phase, todo, NoRead
<1>6. /\ r \in PassType /\ r.pc = pc /\ r.version = pass[i].version
      /\ r.result = pass[i].result /\ r.units = pass[i].units /\ r.sound = pass[i].sound
      /\ r.todo = todo
  BY <1>4, <1>5 DEF PassType
<1> HIDE DEF r
<1> QED
  BY <1>1, <1>4, <1>6

(* The entries of a batch say what the units say, and no synopsis is kept  *)
(* or made for another text.                                               *)
LEMMA SynopsizedFacts ==
  ASSUME NEW i \in Passes, pass[i] \in PassType, UnitsOf(i), ReadOf(i),
         pass[i].pc = "write", NEW written \in Synopsized(i)
  PROVE  /\ written \in [pass[i].read.batch -> Entry]
         /\ \A p \in pass[i].read.batch :
              /\ p \in DOMAIN pass[i].units /\ p \in Paths
              /\ written[p].text = pass[i].units[p]
              /\ Fresh(written[p])
<1> DEFINE batch == pass[i].read.batch
           plain == BatchEntries(i)
<1>1. /\ batch \subseteq DOMAIN pass[i].units /\ batch \subseteq Paths
      /\ pass[i].read.entries \in [batch -> Entry]
      /\ \A p \in batch : Fresh(pass[i].read.entries[p])
  BY DEF UnitsOf, ReadOf, Working, PassType
<1>2. \A p \in batch : pass[i].units[p] \in 0..MaxVersion
  BY <1>1 DEF PassType, Parts
<1>3. None \in 0..MaxVersion
  BY DEF None
<1>4. \A p \in batch : LET entry == Reused(pass[i].read.entries[p], pass[i].units[p])
                       IN entry \in Entry /\ entry.text = pass[i].units[p] /\ Fresh(entry)
  BY <1>1, <1>2, <1>3 DEF Reused, Entry, Fresh
<1>5. plain = [p \in batch |-> Reused(pass[i].read.entries[p], pass[i].units[p])]
  BY DEF BatchEntries
<1> HIDE DEF plain
<1>6. /\ DOMAIN plain = batch /\ plain \in [batch -> Entry]
      /\ \A p \in batch : plain[p].text = pass[i].units[p] /\ Fresh(plain[p])
  BY <1>4, <1>5
<1>7. PICK S \in SUBSET batch :
        written = [p \in batch |-> IF p \in S THEN [plain[p] EXCEPT !.synopsis = plain[p].text]
                                   ELSE plain[p]]
  BY <1>6 DEF Synopsized, plain
<1>8. ASSUME NEW p \in batch
      PROVE  /\ [plain[p] EXCEPT !.synopsis = plain[p].text] \in Entry
             /\ [plain[p] EXCEPT !.synopsis = plain[p].text].text = plain[p].text
             /\ Fresh([plain[p] EXCEPT !.synopsis = plain[p].text])
  BY <1>6 DEF Entry, Fresh
<1>9. \A p \in batch : /\ written[p] \in Entry
                       /\ written[p].text = pass[i].units[p] /\ Fresh(written[p])
  BY <1>6, <1>7, <1>8
<1> QED
  BY <1>1, <1>7, <1>9

(* A batch that is written is as its version says.                         *)
LEMMA PassWritesKeeps ==
  ASSUME CatalogInv, NEW i \in Passes, PassWrites(i)
  PROVE  CatalogInv'
<1> DEFINE v == pass[i].version
           batch == pass[i].read.batch
<1>1. /\ pass[i] \in PassType /\ VersionOf(i) /\ UnitsOf(i) /\ ReadOf(i) /\ DOMAIN pass = Passes
      /\ pass[i].pc = "write" /\ TaskInv /\ PassTyped /\ TablesTyped /\ RowsInv
  BY PassFacts DEF PassWrites
<1>2. PICK written \in Synopsized(i) :
        /\ WriteCatalog(v, written)
        /\ pass' = [pass EXCEPT ![i] =
                      IF Embeds(i) THEN [pass[i] EXCEPT !.pc = "embed", !.read.entries = written]
                      ELSE BatchDone(i)]
  BY <1>1 DEF PassWrites
<1>3. /\ written \in [batch -> Entry]
      /\ \A p \in batch : /\ p \in DOMAIN pass[i].units /\ p \in Paths
                          /\ written[p].text = pass[i].units[p] /\ Fresh(written[p])
  BY <1>1, SynopsizedFacts
<1>4. /\ v \in published /\ v \in Versions
      /\ UNCHANGED <<published, content, embeddings, publisher, tail, stop, scenario>>
  BY <1>1, <1>2 DEF WriteCatalog, VerifyCatalogSnapshot, TablesTyped, PassWrites
<1>5. \A p \in batch : content[v][p] # None /\ written[p].text = content[v][p]
  BY <1>1, <1>3, <1>4 DEF UnitsOf, Working
<1> DEFINE rows == [p \in Paths |-> IF p \in batch THEN written[p] ELSE entries[v][p]]
<1>6. entries' = [entries EXCEPT ![v] = rows]
  BY <1>2, <1>3 DEF WriteCatalog
<1>7. rows \in [Paths -> Entry]
  BY <1>1, <1>3, <1>4 DEF TablesTyped
<1>8. /\ \A p \in batch : entries'[v][p] = written[p]
      /\ \A u \in published, p \in Paths : u # v \/ p \notin batch => entries'[u][p] = entries[u][p]
  BY <1>1, <1>3, <1>4, <1>6 DEF TablesTyped
<1>9. TablesTyped'
  BY <1>1, <1>4, <1>6, <1>7 DEF TablesTyped
<1>10. RowsInv'
  <2>1. NoStrayRows'
    BY <1>1, <1>4, <1>5, <1>6 DEF RowsInv, NoStrayRows, TablesTyped
  <2>2. SynopsisFresh'
    BY <1>1, <1>3, <1>4, <1>6 DEF RowsInv, SynopsisFresh, TablesTyped, Fresh
  <2> QED
    BY <2>1, <2>2 DEF RowsInv
<1>11. TaskInv'
  <2>1. CASE UNCHANGED task
    BY <1>1, <1>4, <2>1 DEF TaskInv
  <2>2. CASE Record(Running(i))
    BY <1>1, <1>4, <2>2, TasksOfPasses, TaskWritten DEF Record
  <2> QED
    BY <2>1, <2>2 DEF PassWrites
<1>12. PICK r \in PassType :
         /\ pass' = [pass EXCEPT ![i] = r]
         /\ r.pc \in {"embed", "read", "finish"} /\ r.version = v
         /\ r.result = pass[i].result /\ r.units = pass[i].units /\ r.sound = pass[i].sound
         /\ r.todo \subseteq DOMAIN pass[i].units
         /\ r.pc = "embed" => /\ r.read.batch \subseteq r.todo
                              /\ r.read.entries \in [r.read.batch -> Entry]
                              /\ r.read.embeddings \in [r.read.batch -> Entry]
                              /\ \A p \in r.read.batch : Fresh(r.read.entries[p])
         /\ \A p \in pass[i].todo \ batch :
              \/ r.pc = "read" /\ p \in r.todo
              \/ r.pc = "embed" /\ p \in r.todo \ r.read.batch
  <2>1. CASE Embeds(i)
    <3> DEFINE read == [pass[i].read EXCEPT !.entries = written]
               r == [pass[i] EXCEPT !.pc = "embed", !.read = read]
    <3>1. pass' = [pass EXCEPT ![i] = r]
      BY <1>2, <2>1
    <3>2. written \in Parts(Entry)
      BY <1>1, <1>3, PartIntro DEF PassType
    <3>3. /\ read \in [batch : SUBSET Paths, entries : Parts(Entry), embeddings : Parts(Entry)]
          /\ read.batch = batch /\ read.entries = written
          /\ read.embeddings = pass[i].read.embeddings
      BY <1>1, <3>2 DEF PassType
    <3> HIDE DEF read
    <3>4. /\ r \in PassType /\ r.pc = "embed" /\ r.version = v /\ r.result = pass[i].result
          /\ r.units = pass[i].units /\ r.sound = pass[i].sound /\ r.todo = pass[i].todo
          /\ r.read = read
      BY <1>1, <3>3 DEF PassType
    <3> HIDE DEF r
    <3>5. /\ batch \subseteq pass[i].todo /\ pass[i].todo \subseteq DOMAIN pass[i].units
          /\ pass[i].read.embeddings \in [batch -> Entry]
      BY <1>1 DEF UnitsOf, ReadOf, Working
    <3> QED
      BY <1>3, <3>1, <3>3, <3>4, <3>5
  <2>2. CASE ~Embeds(i)
    <3> DEFINE r == BatchDone(i)
    <3>1. pass' = [pass EXCEPT ![i] = r]
      BY <1>2, <2>2
    <3>2. /\ r \in PassType /\ r.pc \in {"read", "finish"} /\ r.version = v
          /\ r.result = pass[i].result /\ r.units = pass[i].units /\ r.sound = pass[i].sound
          /\ r.todo \subseteq DOMAIN pass[i].units
          /\ \A p \in pass[i].todo \ batch : r.pc = "read" /\ p \in r.todo
      BY <1>1, BatchDoneFacts
    <3> HIDE DEF r
    <3> QED
      BY <3>1, <3>2
  <2> QED
    BY <2>1, <2>2
<1>13. pass'[i] = r
  BY <1>1, <1>12
<1>14. Current' = Current
  BY <1>4 DEF Current
<1>15. VersionOf(i)' /\ UnitsOf(i)' /\ ReadOf(i)'
  <2>1. VersionOf(i)'
    BY <1>1, <1>4, <1>12, <1>13, <1>14 DEF VersionOf, Working
  <2>2. UnitsOf(i)'
    BY <1>1, <1>4, <1>12, <1>13 DEF UnitsOf, Working
  <2>3. ReadOf(i)'
    BY <1>12, <1>13 DEF ReadOf
  <2> QED
    BY <2>1, <2>2, <2>3
<1>16. ASSUME NEW u \in published, NEW p \in Paths
       PROVE \/ entries'[u][p].text = content[u][p]
             \/ Answers(i, u, p)'
             \/ /\ entries'[u][p] = entries[u][p]
                /\ Answers(i, u, p) => Answers(i, u, p)'
                /\ Begun(i, u)' => Begun(i, u)
  <2>1. CASE u = v /\ p \in batch
    BY <1>5, <1>8, <2>1
  <2>2. CASE u # v \/ p \notin batch
    <3>1. entries'[u][p] = entries[u][p]
      BY <1>8, <2>2
    <3>2. Begun(i, u)' => Begun(i, u)
      BY <1>1, <1>12, <1>13 DEF Begun
    <3>3. ASSUME Answers(i, u, p) PROVE Answers(i, u, p)'
      <4>1. u = v /\ p \notin batch /\ Begun(i, u)'
        BY <1>12, <1>13, <2>2, <3>3 DEF Answers, Begun
      <4>2. CASE Unsound(i)
        BY <1>1, <1>12, <1>13, <4>1, <4>2 DEF Answers, Unsound, Working
      <4>3. CASE Owes(i, p)
        BY <1>1, <1>12, <1>13, <4>1, <4>3 DEF Answers, Owes
      <4> QED
        BY <3>3, <4>2, <4>3 DEF Answers
    <3> QED
      BY <3>1, <3>2, <3>3
  <2> QED
    BY <2>1, <2>2
<1> QED
  BY <1>4, <1>9, <1>10, <1>11, <1>12, <1>15, <1>16, WritingStep

(* Embeddings are of sources that the version shows.                       *)
LEMMA PassEmbedsKeeps ==
  ASSUME CatalogInv, NEW i \in Passes, PassEmbeds(i)
  PROVE  CatalogInv'
<1> DEFINE v == pass[i].version
           batch == pass[i].read.batch
           texts == pass[i].read.entries
           r == BatchDone(i)
<1>1. /\ pass[i] \in PassType /\ VersionOf(i) /\ UnitsOf(i) /\ ReadOf(i) /\ DOMAIN pass = Passes
      /\ pass[i].pc = "embed" /\ TaskInv /\ PassTyped /\ TablesTyped /\ RowsInv
  BY PassFacts DEF PassEmbeds
<1>2. PICK rows \in Generated(i) : WriteCatalogEmbeddings(i, rows)
  BY DEF PassEmbeds
<1>3. /\ pass' = [pass EXCEPT ![i] = r]
      /\ UNCHANGED <<published, content, entries, publisher, tail, stop, scenario>>
  BY DEF PassEmbeds
<1>4. /\ v \in Versions /\ texts \in [batch -> Entry] /\ batch \subseteq pass[i].todo
      /\ pass[i].todo \subseteq DOMAIN pass[i].units
  BY <1>1 DEF VersionOf, ReadOf, UnitsOf, Working
<1>5. \A p \in Paths : \A k \in {"text", "synopsis"} : <<p, k>> \in rows => p \in batch
  BY <1>2 DEF Generated, Missing
<1> DEFINE row(p) == [k \in DOMAIN NoVectors |->
                        IF VerifyCatalogSnapshot(v) /\ <<p, k>> \in rows
                        THEN texts[p][k] ELSE embeddings[v][p][k]]
           vectors == [p \in Paths |-> row(p)]
<1>6. embeddings' = [embeddings EXCEPT ![v] = vectors]
  BY <1>1, <1>2, <1>4 DEF WriteCatalogEmbeddings, TablesTyped
<1>7. ASSUME NEW p \in Paths
      PROVE  row(p) \in Entry /\ (content[v][p] = None => row(p) = embeddings[v][p])
  <2>1. embeddings[v][p] \in Entry
    BY <1>1, <1>4 DEF TablesTyped
  <2>2. CASE VerifyCatalogSnapshot(v) /\ p \in batch
    <3>1. texts[p] \in Entry
      BY <1>4, <2>2
    <3>2. content[v][p] # None
      BY <1>1, <1>4, <2>2 DEF UnitsOf, Working, VerifyCatalogSnapshot
    <3> QED
      BY <2>1, <3>1, <3>2 DEF Entry, NoVectors
  <2>3. CASE ~(VerifyCatalogSnapshot(v) /\ p \in batch)
    BY <1>5, <2>1, <2>3 DEF Entry, NoVectors
  <2> QED
    BY <2>2, <2>3
<1>8. TablesTyped'
  <2>1. vectors \in [Paths -> Entry]
    BY <1>7
  <2> HIDE DEF vectors
  <2> QED
    BY <1>1, <1>3, <1>4, <1>6, <2>1 DEF TablesTyped
<1>9. RowsInv'
  <2>1. NoStrayRows'
    <3> SUFFICES ASSUME NEW u \in Versions, NEW p \in Paths, content[u][p] = None
                 PROVE  entries[u][p] = NoEntry /\ embeddings'[u][p] = NoVectors
      BY <1>3 DEF NoStrayRows
    <3>1. entries[u][p] = NoEntry /\ embeddings[u][p] = NoVectors
      BY <1>1 DEF RowsInv, NoStrayRows
    <3>2. embeddings'[u][p] = embeddings[u][p]
      <4>1. CASE u = v
        BY <1>1, <1>4, <1>6, <1>7, <4>1 DEF TablesTyped
      <4>2. CASE u # v
        BY <1>1, <1>4, <1>6, <4>2 DEF TablesTyped
      <4> QED
        BY <4>1, <4>2
    <3> QED
      BY <3>1, <3>2
  <2>2. SynopsisFresh'
    BY <1>1, <1>3 DEF RowsInv, SynopsisFresh
  <2> QED
    BY <2>1, <2>2 DEF RowsInv
<1>10. TaskInv'
  BY <1>1, <1>3, TasksOfPasses, TaskWritten DEF PassEmbeds, Record
<1>11. /\ r \in PassType /\ r.pc \in {"read", "finish"} /\ r.version = v
       /\ r.result = pass[i].result /\ r.units = pass[i].units /\ r.sound = pass[i].sound
       /\ r.todo \subseteq DOMAIN pass[i].units
       /\ \A p \in pass[i].todo \ batch : r.pc = "read" /\ p \in r.todo
  BY <1>1, BatchDoneFacts
<1> HIDE DEF r
<1>12. pass'[i] = r
  BY <1>1, <1>3
<1>13. Current' = Current
  BY <1>3 DEF Current
<1>14. VersionOf(i)' /\ UnitsOf(i)' /\ ReadOf(i)'
  <2>1. VersionOf(i)'
    BY <1>1, <1>4, <1>11, <1>12, <1>13 DEF VersionOf, Working
  <2>2. UnitsOf(i)'
    BY <1>1, <1>3, <1>11, <1>12 DEF UnitsOf, Working
  <2> QED
    BY <1>11, <1>12, <2>1, <2>2 DEF ReadOf
<1>15. ASSUME NEW u \in published, NEW p \in Paths
       PROVE /\ entries'[u][p] = entries[u][p]
             /\ Answers(i, u, p) => Answers(i, u, p)'
             /\ Begun(i, u)' => Begun(i, u)
  <2>1. Begun(i, u)' <=> Begun(i, u)
    BY <1>1, <1>11, <1>12 DEF Begun
  <2>2. ASSUME Answers(i, u, p) PROVE Answers(i, u, p)'
    BY <1>1, <1>11, <1>12, <2>1, <2>2 DEF Answers, Unsound, Owes, Working
  <2> QED
    BY <1>3, <2>1, <2>2
<1> QED
  BY <1>3, <1>8, <1>9, <1>10, <1>11, <1>14, <1>15, WritingStep

-----------------------------------------------------------------------------
(* The theorems                                                            *)

(* The invariant holds at first.                                           *)
LEMMA CatalogInit ==
  ASSUME Init PROVE CatalogInv
<1> USE DEF Init
<1>1. 1 \in Versions /\ 1 \in 0..MaxVersion /\ 0 \in 0..MaxVersion /\ None = 0
  BY DEF Versions, None
<1>2. PICK cataloged \in {None, 1} :
        entries = [v \in Versions |-> [p \in Paths |->
                     IF v = 1 THEN [NoEntry EXCEPT !.text = cataloged] ELSE NoEntry]]
  OBVIOUS
<1> DEFINE first == [NoEntry EXCEPT !.text = cataloged]
<1>3. /\ first \in Entry /\ first.synopsis = None /\ NoEntry \in Entry /\ NoVectors \in Entry
      /\ NoEntry.synopsis = None
  BY <1>1 DEF NoEntry, NoVectors, Entry
<1> HIDE DEF first
<1>4. entries \in [Versions -> [Paths -> Entry]] /\ embeddings \in [Versions -> [Paths -> Entry]]
  BY <1>2, <1>3 DEF first
<1>5. TablesTyped
  <2>1. content \in [Versions -> [Paths -> 0..MaxVersion]]
    BY <1>1
  <2>2. published \subseteq Versions /\ \E m \in published : \A v \in published : v <= m
    BY <1>1
  <2> QED
    BY <1>4, <2>1, <2>2 DEF TablesTyped
<1>6. OnlyPublished
  BY DEF OnlyPublished
<1>7. RowsInv
  <2>1. NoStrayRows
    BY <1>1, <1>2 DEF NoStrayRows
  <2>2. SynopsisFresh
    BY <1>2, <1>3 DEF SynopsisFresh, first
  <2> QED
    BY <2>1, <2>2 DEF RowsInv
<1>8. TaskInv
  BY <1>1 DEF TaskInv, TaskType, NoTask, States
<1>9. PublisherInv
  BY <1>1 DEF PublisherInv
<1>10. PassTyped
  BY NoPassTyped DEF PassTyped
<1>11. \A i \in Passes : pass[i].pc = "idle" /\ pass[i].version = 0 /\ pass[i].result = "none"
  BY DEF NoPass
<1>12. PassInv
  BY <1>11 DEF PassInv, VersionOf, UnitsOf, ReadOf, Working
<1>13. SettleInv
  BY <1>1, <1>11 DEF SettleInv, Settled, Begun
<1> QED
  BY <1>5, <1>6, <1>7, <1>8, <1>9, <1>10, <1>12, <1>13 DEF CatalogInv

(* A step that changes nothing keeps it.                                   *)
LEMMA CatalogStutter ==
  ASSUME CatalogInv, UNCHANGED vars PROVE CatalogInv'
BY NoPassStep DEF vars, CatalogInv, TaskInv, PublisherInv

(* Every step keeps the invariant.                                         *)
LEMMA CatalogStep ==
  ASSUME CatalogInv, [Next]_vars PROVE CatalogInv'
<1>1. CASE UNCHANGED vars
  BY <1>1, CatalogStutter
<1>2. CASE PublisherOpens \/ PublisherFails \/ StartRefresh
  BY <1>2, PublisherOpensKeeps, PublisherFailsKeeps, StartRefreshKeeps
<1>3. ASSUME NEW S \in SUBSET Paths, PublisherPublishes(S) PROVE CatalogInv'
  BY <1>3, PublisherPublishesKeeps
<1>4. ASSUME NEW i \in Refreshes, RefreshIsReleased(i) \/ RefreshIsForgotten(i)
      PROVE CatalogInv'
  BY <1>4, RefreshIsReleasedKeeps, RefreshIsForgottenKeeps
<1>5. ASSUME NEW i \in Workers,
             \/ IndexCommand(i) \/ IndexQueues(i)
             \/ CatalogCommand(i) \/ CatalogQueues(i) \/ CatalogStarts(i)
             \/ WorkerOpens(i) \/ WorkerExits(i)
      PROVE CatalogInv'
  BY <1>5, IndexCommandKeeps, IndexQueuesKeeps, CatalogCommandKeeps, CatalogQueuesKeeps,
     CatalogStartsKeeps, WorkerOpensKeeps, WorkerExitsKeeps
<1>6. ASSUME NEW i \in Passes, PassStep(i) PROVE CatalogInv'
  BY <1>6, PassBeginsKeeps, PassCopiesKeeps, PassReadsUnitsKeeps, PassReadsBatchKeeps,
     PassWritesKeeps, PassEmbedsKeeps, PassCompletesKeeps, PassFailsKeeps DEF PassStep
<1>7. CASE IndexerExits \/ StopSignals \/ StopRecords
  BY <1>7, IndexerExitsKeeps, StopSignalsKeeps, StopRecordsKeeps
<1> QED
  BY <1>1, <1>2, <1>3, <1>4, <1>5, <1>6, <1>7 DEF Next

(* The invariant always holds.                                             *)
LEMMA CatalogInvariant == Spec => []CatalogInv
<1>1. Init => CatalogInv
  BY CatalogInit
<1>2. CatalogInv /\ [Next]_vars => CatalogInv'
  BY CatalogStep
<1> QED
  BY <1>1, <1>2, PTL DEF Spec

(* The tables hold rows of published versions and of nodes they show only, *)
(* whatever passes are under way when a publication prunes their version.  *)
THEOREM RowsSoundAlways == Spec => []RowsSound
<1>1. CatalogInv => RowsSound
  <2> SUFFICES ASSUME CatalogInv PROVE RowsSound
    OBVIOUS
  <2>1. ASSUME NEW i \in Passes
        PROVE  /\ pass[i].version \in 0..MaxVersion /\ pass[i].previous \in 0..MaxVersion
               /\ pass[i].after \in {0} \cup Refreshes
               /\ pass[i].todo \subseteq Paths
    BY PassFacts DEF PassType
  <2> QED
    BY <2>1 DEF CatalogInv, RowsSound, TypeOK, RowsInv, TablesTyped, TaskInv, TaskType,
                PublisherInv, None
<1> QED
  BY <1>1, CatalogInvariant, PTL

(* No entry keeps the synopsis of an earlier declaration, whichever passes *)
(* copy and write it.                                                      *)
THEOREM SynopsisFreshAlways == Spec => []SynopsisFresh
<1>1. CatalogInv => SynopsisFresh
  BY DEF CatalogInv, RowsInv
<1> QED
  BY <1>1, CatalogInvariant, PTL

(* Passes that all complete, from sound beginnings, leave a whole catalog, *)
(* in whatever order they copied, read and wrote.                          *)
THEOREM CatalogSettlesAlways == Spec => []CatalogSettles
<1>1. CatalogInv => CatalogSettles
  <2> SUFFICES ASSUME CatalogInv, NEW v \in published, NEW j \in Passes, Begun(j, v),
                      \A i \in Passes : Begun(i, v) => pass[i].result = "ok" /\ pass[i].sound,
                      NEW p \in Paths
               PROVE  entries[v][p].text = content[v][p]
    BY DEF CatalogSettles, Whole, Begun
  <2>1. Settled(v, p)
    BY DEF CatalogInv, SettleInv
  <2>2. ASSUME NEW i \in Passes PROVE ~Answers(i, v, p)
    <3>1. CASE Begun(i, v)
      <4>1. pass[i].result = "ok" /\ pass[i].sound /\ pass[i].pc \in {"closed", "done"}
        BY <3>1, PassFacts DEF VersionOf
      <4> QED
        BY <4>1 DEF Answers, Unsound, Owes
    <3>2. CASE ~Begun(i, v)
      BY <3>2 DEF Answers
    <3> QED
      BY <3>1, <3>2
  <2> QED
    BY <2>1, <2>2 DEF Settled
<1> QED
  BY <1>1, CatalogInvariant, PTL

(* The recorded task is never taken back to an earlier graph version, also *)
(* not by a pass or a catalog-stop that is late.                           *)
THEOREM TaskAdvancesAlways == Spec => TaskAdvances
<1>1. CatalogInv /\ [Next]_vars => [task'.version >= task.version]_vars
  <2> SUFFICES ASSUME CatalogInv, Next PROVE task'.version >= task.version
    OBVIOUS
  <2>1. task.version \in Nat
    BY DEF CatalogInv, TaskInv, TaskType
  <2>2. ASSUME NEW new, task' \in {task, Upsert(new)} PROVE task'.version >= task.version
    BY <2>1, <2>2 DEF Upsert
  <2>3. ASSUME task' = task PROVE task'.version >= task.version
    BY <2>1, <2>3
  <2>4. CASE PublisherOpens \/ PublisherFails \/ StartRefresh
    BY <2>2, <2>3, <2>4 DEF PublisherOpens, PublisherFails, StartRefresh, Record
  <2>5. ASSUME NEW S \in SUBSET Paths, PublisherPublishes(S) PROVE task'.version >= task.version
    BY <2>3, <2>5 DEF PublisherPublishes
  <2>6. ASSUME NEW i \in Refreshes, RefreshIsReleased(i) \/ RefreshIsForgotten(i)
        PROVE task'.version >= task.version
    BY <2>3, <2>6 DEF RefreshIsReleased, RefreshIsForgotten
  <2>7. ASSUME NEW i \in Workers,
               \/ IndexCommand(i) \/ IndexQueues(i)
               \/ CatalogCommand(i) \/ CatalogQueues(i) \/ CatalogStarts(i)
               \/ WorkerOpens(i) \/ WorkerExits(i)
        PROVE task'.version >= task.version
    BY <2>2, <2>3, <2>7 DEF IndexCommand, IndexQueues, CatalogCommand, CatalogQueues,
       CatalogStarts, WorkerOpens, WorkerExits, Record
  <2>8. ASSUME NEW i \in Passes, PassStep(i) PROVE task'.version >= task.version
    <3>1. CASE PassBegins(i) \/ PassCopies(i) \/ PassReadsUnits(i) \/ PassReadsBatch(i)
      <4>1. CASE PassBegins(i)
        BY <2>2, <4>1 DEF PassBegins
      <4>2. CASE PassCopies(i)
        BY <2>3, <4>2 DEF PassCopies
      <4>3. CASE PassReadsUnits(i)
        <5>1. Record(Running(i))
          BY <4>3 DEF PassReadsUnits
        <5> QED
          BY <2>2, <5>1 DEF Record
      <4>4. CASE PassReadsBatch(i)
        BY <2>3, <4>4 DEF PassReadsBatch
      <4> QED
        BY <3>1, <4>1, <4>2, <4>3, <4>4
    <3>2. CASE PassWrites(i)
      BY <2>2, <2>3, <3>2 DEF PassWrites, Record
    <3>3. CASE PassEmbeds(i) \/ PassCompletes(i) \/ PassFails(i)
      BY <2>2, <2>3, <3>3 DEF PassEmbeds, PassCompletes, PassFails, Record
    <3> QED
      BY <2>8, <3>1, <3>2, <3>3 DEF PassStep
  <2>9. CASE IndexerExits \/ StopSignals \/ StopRecords
    BY <2>2, <2>3, <2>9 DEF IndexerExits, StopSignals, StopRecords
  <2> QED
    BY <2>4, <2>5, <2>6, <2>7, <2>8, <2>9 DEF Next
<1> QED
  BY <1>1, CatalogInvariant, PTL DEF Spec, TaskAdvances
=============================================================================
