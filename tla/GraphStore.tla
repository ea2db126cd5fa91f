------------------------------ MODULE GraphStore ------------------------------
(***************************************************************************)
(* The versioned graph tables of storage/sqlite/sqlite.go for one          *)
(* workspace.  Every statement of that file is keyed by the workspace, so  *)
(* workspaces do not interact and one is enough.                           *)
(*                                                                         *)
(* A contribution is stored once, with the interval of graph versions it   *)
(* is valid in; a snapshot of version v is what the intervals holding v    *)
(* select.  Publishing closes intervals and opens new ones, rolling back   *)
(* reopens them, pruning moves their lower ends.  The twelve contribution  *)
(* tables are always closed, deleted, reopened and rebased in one loop     *)
(* over contributionTables, so they are one table here: `rows'.            *)
(*                                                                         *)
(* SQLite runs in WAL mode with _txlock=immediate: a transaction takes the *)
(* write lock when it begins, readers keep reading the committed tables.   *)
(* A one-shot writer is therefore one step on `db'.  A contribution        *)
(* session keeps its transaction open over many calls: its uncommitted     *)
(* tables are `work', and no other writer runs until it ends.  A failed    *)
(* call, an exceeded budget or a crash rolls the transaction back.         *)
(***************************************************************************)
EXTENDS Naturals

CONSTANTS
  Paths,          (* source paths of the workspace                          *)
  Contributions,  (* what an extractor may contribute for one source        *)
  Dependencies,   (* sets of target paths a contribution may depend on      *)
  Edges,          (* resolved workspace edges                               *)
  Owner,          (* Owner[e]: the path resolved_fact_owner records for e   *)
  Nodes,          (* workspace nodes                                        *)
  Retained,       (* retainedGraphVersions, 25 in the code                  *)
  MaxVersion      (* bound of the model: no version above it is published   *)

ASSUME StoreAssumption ==
  /\ Retained \in Nat \ {0}
  /\ MaxVersion \in Nat
  /\ Owner \in [Edges -> Paths]

VARIABLES
  db,       (* the committed tables                                         *)
  work,     (* the tables inside the contribution session's transaction     *)
  session   (* the contribution session's own fields                        *)

vars == <<db, work, session>>

-----------------------------------------------------------------------------
(* Tables                                                                  *)

(* valid_to_version IS NULL.  A closed row ends at version - 1 >= 1.       *)
Open == 0

Versions == 1..MaxVersion

Row == [path : Paths, from : Versions, to : {Open} \cup Versions,
        value : Contributions, deps : Dependencies]

(* What the lexical index of one version holds: the nodes of the visible   *)
(* contributions and the workspace nodes of the version.                   *)
LexicalItem == (Paths \X Contributions) \cup Nodes

Tables == [versions : SUBSET Versions,
           rows     : SUBSET Row,
           nodes    : SUBSET (Versions \X Nodes),
           edges    : SUBSET (Versions \X Edges),
           lexical  : SUBSET (Versions \X LexicalItem)]

NoTables == [versions |-> {}, rows |-> {}, nodes |-> {}, edges |-> {},
             lexical |-> {}]

(* The contribution, node and edge queries' validity condition.            *)
Visible(rows, v) ==
  {r \in rows : r.from <= v /\ (r.to = Open \/ r.to >= v)}

Sources(rows, v) ==
  {<<r.path, r.value, r.deps>> : r \in Visible(rows, v)}

NodesAt(t, v) == {n \in Nodes : <<v, n>> \in t.nodes}
EdgesAt(t, v) == {e \in Edges : <<v, e>> \in t.edges}
LexicalAt(t, v) == {x \in LexicalItem : <<v, x>> \in t.lexical}

(* What a snapshot of version v shows.                                     *)
Snapshot(t, v) == [sources |-> Sources(t.rows, v),
                   nodes   |-> NodesAt(t, v),
                   edges   |-> EdgesAt(t, v)]

(* SELECT COALESCE(MAX(version), 0): the version OpenSnapshot selects when *)
(* the request names none.                                                 *)
Current(t) == IF t.versions = {} THEN 0
              ELSE CHOOSE v \in t.versions : \A u \in t.versions : u <= v

-----------------------------------------------------------------------------
(* Statements on the contribution tables                                   *)

closeContributionRecords(rows, paths, v) ==
  {IF r.path \in paths /\ r.to = Open THEN [r EXCEPT !.to = v] ELSE r
     : r \in rows}

closeContributionsMissingFromStagedSources(rows, staged, v) ==
  {IF r.path \notin staged /\ r.to = Open THEN [r EXCEPT !.to = v] ELSE r
     : r \in rows}

(* Variant: rows closed at the rollback version itself stay closed.        *)
ReopenAfterOnly(rows, v) ==
  {IF r.to # Open /\ r.to > v THEN [r EXCEPT !.to = Open] ELSE r : r \in rows}

reopenContributionRecords(rows, v) ==
  {IF r.to # Open /\ r.to >= v THEN [r EXCEPT !.to = Open] ELSE r
     : r \in rows}

rebaseContributions(rows, v) ==
  {IF r.from < v /\ (r.to = Open \/ r.to >= v)
     THEN [r EXCEPT !.from = v] ELSE r : r \in rows}

(* One open row per contribution of an update; update[p] is the value and  *)
(* the dependency set of source p.                                         *)
NewRows(update, v) ==
  {[path |-> p, from |-> v, to |-> Open,
    value |-> update[p][1], deps |-> update[p][2]] : p \in DOMAIN update}

(* Variant: the prior rows of an updated source stay open.                 *)
CloseNothing(rows, paths, v) == rows

(* publicationBatch.add closes the prior rows of a source only above       *)
(* version 1, when there can be any.                                       *)
CloseUpdated(rows, paths, v) ==
  IF v > 1 THEN closeContributionRecords(rows, paths, v - 1) ELSE rows

-----------------------------------------------------------------------------
(* Statements on the other tables                                          *)

(* Edges of the previous version whose owner the update did not replace.   *)
retainWorkspaceFacts(t, v, replaced) ==
  IF replaced = {} \/ v <= 1 THEN {}
  ELSE {<<v, e>> : e \in {x \in EdgesAt(t, v - 1) : Owner[x] \notin replaced}}

rebuildLexicalSnapshot(t, v) ==
  [t EXCEPT !.lexical =
     {l \in t.lexical : l[1] # v}
       \cup {<<v, x>> : x \in {<<r.path, r.value>> : r \in Visible(t.rows, v)}
                                 \cup NodesAt(t, v)}]

(* Variants: rows are deleted by their first version without being rebased;*)
(* the lexical index of the deleted versions is left behind.               *)
PruneWithoutRebase(t, retained) ==
  [versions |-> {v \in t.versions : v >= retained},
   rows     |-> {r \in t.rows : r.from >= retained},
   nodes    |-> {f \in t.nodes : f[1] >= retained},
   edges    |-> {f \in t.edges : f[1] >= retained},
   lexical  |-> {l \in t.lexical : l[1] >= retained}]

PruneWithoutIndex(t, retained) ==
  [versions |-> {v \in t.versions : v >= retained},
   rows     |-> {r \in rebaseContributions(t.rows, retained) : r.from >= retained},
   nodes    |-> {f \in t.nodes : f[1] >= retained},
   edges    |-> {f \in t.edges : f[1] >= retained},
   lexical  |-> t.lexical]

pruneVersions(t, retained) ==
  [versions |-> {v \in t.versions : v >= retained},
   rows     |-> {r \in rebaseContributions(t.rows, retained) : r.from >= retained},
   nodes    |-> {f \in t.nodes : f[1] >= retained},
   edges    |-> {f \in t.edges : f[1] >= retained},
   lexical  |-> {l \in t.lexical : l[1] >= retained}]

(* The statements of Store.Rollback.                                       *)
rollbackVersions(t, v) ==
  [versions |-> {u \in t.versions : u <= v},
   rows     |-> reopenContributionRecords({r \in t.rows : r.from <= v}, v),
   nodes    |-> {f \in t.nodes : f[1] <= v},
   edges    |-> {f \in t.edges : f[1] <= v},
   lexical  |-> {l \in t.lexical : l[1] <= v}]

(* pruneVersions refuses a boundary that is not a published version, and   *)
(* publish and Commit then fail: the version being published is not        *)
(* committed.                                                              *)
RetentionBoundary(v) == v - Retained + 1
RetentionAccepts(t, v) == v > Retained => RetentionBoundary(v) \in t.versions

ApplyRetention(t, v) ==
  IF v > Retained THEN pruneVersions(t, RetentionBoundary(v)) ELSE t

-----------------------------------------------------------------------------
(* Writers of one transaction                                              *)

(* The partial functions from paths to what a source contributes:          *)
(* encodeContributions refuses an update with a path twice.                *)
Updates == UNION {[S -> Contributions \X Dependencies] : S \in SUBSET Paths}

(* The tables a publication of `update' leaves before retention.           *)
storePreparedPublication(t, v, update, replaced, ns, es) ==
  [t EXCEPT
     !.versions = t.versions \cup {v},
     !.rows     = CloseUpdated(t.rows, DOMAIN update, v) \cup NewRows(update, v),
     !.nodes    = t.nodes \cup ({v} \X ns),
     !.edges    = t.edges \cup retainWorkspaceFacts(t, v, replaced)
                          \cup ({v} \X es)]

(* Store.publish, for Publish, PublishWithProgress and PublishStaged: the  *)
(* staging callback of the latter runs inside the same transaction.        *)
Publish(update, replaced, ns, es) ==
  LET v == Current(db) + 1
      t == storePreparedPublication(db, v, update, replaced, ns, es)
  IN /\ ~session.open
     /\ v <= MaxVersion
     /\ RetentionAccepts(t, v)
     /\ db' = rebuildLexicalSnapshot(ApplyRetention(t, v), v)
     /\ UNCHANGED <<work, session>>

Rollback(v) ==
  /\ ~session.open
  /\ v \in db.versions
  /\ db' = rollbackVersions(db, v)
  /\ UNCHANGED <<work, session>>

Prune(v) ==
  /\ ~session.open
  /\ v \in db.versions
  /\ db' = pruneVersions(db, v)
  /\ UNCHANGED <<work, session>>

RebuildLexicalIndex ==
  /\ ~session.open
  /\ db' = [db EXCEPT !.lexical =
              UNION {{<<v, x>> : x \in {<<r.path, r.value>> : r \in Visible(db.rows, v)}
                                          \cup NodesAt(db, v)}
                       : v \in db.versions}]
  /\ UNCHANGED <<work, session>>

-----------------------------------------------------------------------------
(* The contribution session                                                *)

ClosedSession ==
  [open |-> FALSE, pending |-> 0, staged |-> {}, written |-> {}, buffer |-> {},
   sealed |-> FALSE, missingClosed |-> FALSE,
   factsWritten |-> FALSE, factsSealed |-> FALSE]

Begin ==
  /\ ~session.open
  /\ Current(db) < MaxVersion
  /\ work' = db
  /\ session' = [ClosedSession EXCEPT !.open = TRUE, !.pending = Current(db) + 1]
  /\ UNCHANGED db

StageSource(p) ==
  /\ session.open /\ ~session.sealed
  /\ p \notin session.staged
  /\ session' = [session EXCEPT !.staged = @ \cup {p}]
  /\ UNCHANGED <<db, work>>

(* The batch holds the new rows until its row, byte or source limit makes  *)
(* it flush: before the source's rows are added, after them, or not yet.   *)
(* The prior rows are closed at once.                                      *)
WriteContribution(p, value, deps) ==
  LET new    == NewRows([q \in {p} |-> <<value, deps>>], session.pending)
      closed == CloseUpdated(work.rows, {p}, session.pending)
  IN /\ session.open /\ ~session.sealed
     /\ p \in session.staged \ session.written
     /\ \E flushed \in {{}, session.buffer, session.buffer \cup new} :
          /\ work' = [work EXCEPT !.rows = closed \cup flushed]
          /\ session' = [session EXCEPT
                           !.written = @ \cup {p},
                           !.buffer = (@ \cup new) \ flushed]
     /\ UNCHANGED db

(* Variant: sealing does not flush the batch.                              *)
SealWithoutFlush ==
  /\ session.open /\ ~session.sealed
  /\ session' = [session EXCEPT !.sealed = TRUE]
  /\ UNCHANGED <<db, work>>

SealContributions ==
  /\ session.open /\ ~session.sealed
  /\ work' = [work EXCEPT !.rows = @ \cup session.buffer]
  /\ session' = [session EXCEPT !.sealed = TRUE, !.buffer = {}]
  /\ UNCHANGED db

ReplaceContributionDependencies(p, deps) ==
  /\ session.open /\ session.sealed
  /\ p \in session.written
  /\ work' = [work EXCEPT !.rows =
                {IF r.path = p /\ r.from = session.pending
                   THEN [r EXCEPT !.deps = deps] ELSE r : r \in work.rows}]
  /\ UNCHANGED <<db, session>>

WriteWorkspaceFacts(ns, es) ==
  /\ session.open /\ session.sealed /\ ~session.factsSealed
  /\ work' = [work EXCEPT !.nodes = @ \cup ({session.pending} \X ns),
                          !.edges = @ \cup ({session.pending} \X es)]
  /\ session' = [session EXCEPT !.factsWritten = TRUE]
  /\ UNCHANGED db

(* contributionSession.closeMissingSources                                 *)
closeMissingSources(rows) ==
  IF session.missingClosed \/ session.pending = 1 THEN rows
  ELSE closeContributionsMissingFromStagedSources(
         rows, session.staged, session.pending - 1)

SealWorkspaceFacts ==
  /\ session.open /\ session.sealed
  /\ work' = [work EXCEPT !.rows = closeMissingSources(work.rows)]
  /\ session' = [session EXCEPT !.missingClosed = TRUE, !.factsSealed = TRUE]
  /\ UNCHANGED db

(* The tables Commit leaves before retention.                              *)
CommitTables ==
  [work EXCEPT !.versions = @ \cup {session.pending},
               !.rows = closeMissingSources(work.rows \cup session.buffer)]

Commit ==
  LET v == session.pending
  IN /\ session.open
     /\ session.factsWritten => session.factsSealed
     /\ RetentionAccepts(CommitTables, v)
     /\ db' = rebuildLexicalSnapshot(ApplyRetention(CommitTables, v), v)
     /\ work' = NoTables
     /\ session' = ClosedSession

(* contributionSession.Rollback, and fail: a refused or failed call, an    *)
(* expired context, a refused Commit or a crash of the process.            *)
EndSession ==
  /\ session.open
  /\ work' = NoTables
  /\ session' = ClosedSession
  /\ UNCHANGED db

-----------------------------------------------------------------------------
Init ==
  /\ db = NoTables
  /\ work = NoTables
  /\ session = ClosedSession

Next ==
  \/ \E update \in Updates, replaced \in SUBSET Paths,
       ns \in SUBSET Nodes, es \in SUBSET Edges :
         Publish(update, replaced, ns, es)
  \/ \E v \in Versions : Rollback(v)
  \/ \E v \in Versions : Prune(v)
  \/ RebuildLexicalIndex
  \/ Begin
  \/ \E p \in Paths : StageSource(p)
  \/ \E p \in Paths, value \in Contributions, deps \in Dependencies :
         WriteContribution(p, value, deps)
  \/ SealContributions
  \/ \E p \in Paths, deps \in Dependencies :
         ReplaceContributionDependencies(p, deps)
  \/ \E ns \in SUBSET Nodes, es \in SUBSET Edges : WriteWorkspaceFacts(ns, es)
  \/ SealWorkspaceFacts
  \/ Commit
  \/ EndSession

Spec == Init /\ [][Next]_vars

-----------------------------------------------------------------------------
(* Properties                                                              *)

Session ==
  [open : BOOLEAN, pending : {0} \cup Versions, staged : SUBSET Paths,
   written : SUBSET Paths, buffer : SUBSET Row, sealed : BOOLEAN,
   missingClosed : BOOLEAN, factsWritten : BOOLEAN, factsSealed : BOOLEAN]

(* Every table holds rows of its schema.                                   *)
TypeOK ==
  /\ db \in Tables
  /\ work \in Tables
  /\ session \in Session

(* A snapshot shows a source once: no two rows of a path overlap in a      *)
(* published version, whatever was closed, reopened or rebased before.     *)
OneRowPerSource ==
  \A v \in db.versions : \A r, s \in Visible(db.rows, v) :
    r.path = s.path => r = s

(* The published versions are the consecutive ones up to the current, and  *)
(* no more than the newest `Retained' of them.                             *)
RetainedWindow ==
  \A v \in db.versions : /\ v..Current(db) \subseteq db.versions
                         /\ Current(db) < v + Retained

(* Search sees the graph: the lexical index of every published version     *)
(* holds the nodes that version shows, and there is no other index.        *)
LexicalAgrees ==
  /\ \A v \in db.versions :
       LexicalAt(db, v) = {<<s[1], s[2]>> : s \in Sources(db.rows, v)}
                            \cup NodesAt(db, v)
  /\ \A l \in db.lexical : l[1] \in db.versions

(* Pruning and rolling back leave nothing behind: every stored row belongs *)
(* to a published version.                                                 *)
NoOrphanRows ==
  /\ \A r \in db.rows : \E v \in db.versions : r \in Visible(db.rows, v)
  /\ \A f \in db.nodes \cup db.edges : f[1] \in db.versions

(* The interval tables are sound: well typed, one row of a source in each  *)
(* version, consecutive versions within the window, and nothing left of    *)
(* versions that are gone.  (publish, pruneVersions, Rollback,             *)
(* sqlite.go:244, 4126, 4013)                                              *)
TablesSound == TypeOK /\ OneRowPerSource /\ RetainedWindow /\ NoOrphanRows

(* Once the contributions are sealed, the session's resolver reads of the  *)
(* pending version see each written source exactly once, as written in     *)
(* this session, and still see the prior row of a staged source that was   *)
(* not written.                                                            *)
SealedSessionReads ==
  session.sealed =>
    /\ \A p \in session.written :
         \E r \in work.rows :
           {q \in Visible(work.rows, session.pending) : q.path = p} = {r}
             /\ r.from = session.pending
    /\ \A r \in Visible(db.rows, Current(db)) :
         r.path \in session.staged \ session.written =>
           r \in Visible(work.rows, session.pending)

(* A step never changes what a published snapshot shows: it keeps the      *)
(* snapshot as it is or removes its version.                               *)
SnapshotsImmutable ==
  [][\A v \in db.versions \cap db'.versions :
       Snapshot(db', v) = Snapshot(db, v)]_vars

(* The tables implement the history of snapshots that readers rely on.     *)
History == INSTANCE GraphHistory
             WITH history <- [v \in db.versions |-> Snapshot(db, v)],
                  draft   <- [open    |-> session.open,
                              staged  |-> session.staged,
                              written |-> session.written]

ImplementsHistory == History!Spec
=============================================================================
