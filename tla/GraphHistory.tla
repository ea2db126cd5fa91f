----------------------------- MODULE GraphHistory -----------------------------
(***************************************************************************)
(* What the graph store promises its readers (storage/storage.go): a       *)
(* history of numbered snapshots.  A published snapshot never changes; a   *)
(* publication adds one complete snapshot after the latest, or nothing;    *)
(* rolling back removes the snapshots above a published one and pruning    *)
(* those below it.  A contribution session collects what the next snapshot *)
(* shows, and no other publication runs while it is open.  Nothing is said *)
(* about intervals, open rows or tables: GraphStore implements this module.*)
(***************************************************************************)
EXTENDS Naturals

CONSTANTS Paths, Contributions, Dependencies, Edges, Owner, Nodes, Retained,
          MaxVersion

VARIABLES
  history,  (* history[v]: what a snapshot of version v shows              *)
  draft     (* the contribution session: the sources it has staged and     *)
            (* the ones among them it has written                          *)

NoDraft == [open |-> FALSE, staged |-> {}, written |-> {}]

NoSnapshot == [sources |-> {}, nodes |-> {}, edges |-> {}]

Latest == IF DOMAIN history = {} THEN 0
          ELSE CHOOSE v \in DOMAIN history : \A u \in DOMAIN history : u <= v

(* The snapshot a publication starts from.                                 *)
Base == IF DOMAIN history = {} THEN NoSnapshot ELSE history[Latest]

Updates == UNION {[S -> Contributions \X Dependencies] : S \in SUBSET Paths}

Contributed(update) == {<<p, update[p][1], update[p][2]>> : p \in DOMAIN update}

(* Append a snapshot and keep only the newest `Retained' version numbers.  *)
Append(snapshot) ==
  LET n == Latest + 1
  IN /\ n <= MaxVersion
     /\ history' = [u \in {w \in DOMAIN history \cup {n} : w + Retained > n} |->
                      IF u = n THEN snapshot ELSE history[u]]

(* An update replaces the contributions of its sources and leaves the      *)
(* others.  Resolved edges are kept for the owners it does not replace.    *)
Publish(update, replaced, ns, es) ==
  /\ ~draft.open
  /\ UNCHANGED draft
  /\ Append([sources |-> {s \in Base.sources : s[1] \notin DOMAIN update}
                           \cup Contributed(update),
             nodes   |-> ns,
             edges   |-> es \cup {e \in Base.edges : /\ replaced # {}
                                                     /\ Owner[e] \notin replaced}])

Rollback(v) ==
  /\ ~draft.open
  /\ v \in DOMAIN history
  /\ history' = [u \in {w \in DOMAIN history : w <= v} |-> history[u]]
  /\ UNCHANGED draft

Prune(v) ==
  /\ ~draft.open
  /\ v \in DOMAIN history
  /\ history' = [u \in {w \in DOMAIN history : w >= v} |-> history[u]]
  /\ UNCHANGED draft

(* A session shows nothing to readers until it is committed.               *)
OpenDraft ==
  /\ ~draft.open
  /\ draft' = [open |-> TRUE, staged |-> {}, written |-> {}]
  /\ UNCHANGED history

Stage(p) ==
  /\ draft.open /\ p \notin draft.staged
  /\ draft' = [draft EXCEPT !.staged = @ \cup {p}]
  /\ UNCHANGED history

Write(p) ==
  /\ draft.open /\ p \in draft.staged \ draft.written
  /\ draft' = [draft EXCEPT !.written = @ \cup {p}]
  /\ UNCHANGED history

Abandon ==
  /\ draft.open
  /\ draft' = NoDraft
  /\ UNCHANGED history

(* A session names every source of the workspace: what it did not stage    *)
(* disappears, what it staged without writing is kept, and what it wrote   *)
(* replaces what was there.                                                *)
Replace(update, ns, es) ==
  /\ draft.open
  /\ DOMAIN update = draft.written
  /\ Append([sources |-> {s \in Base.sources :
                             s[1] \in draft.staged \ draft.written}
                           \cup Contributed(update),
             nodes   |-> ns,
             edges   |-> es])
  /\ draft' = NoDraft

Init ==
  /\ history = [v \in {} |-> NoSnapshot]
  /\ draft = NoDraft

Next ==
  \/ \E update \in Updates, replaced \in SUBSET Paths,
       ns \in SUBSET Nodes, es \in SUBSET Edges :
         Publish(update, replaced, ns, es)
  \/ \E v \in 1..MaxVersion : Rollback(v) \/ Prune(v)
  \/ OpenDraft \/ Abandon
  \/ \E p \in Paths : Stage(p) \/ Write(p)
  \/ \E update \in Updates, ns \in SUBSET Nodes, es \in SUBSET Edges :
         Replace(update, ns, es)

Spec == Init /\ [][Next]_<<history, draft>>
=============================================================================
