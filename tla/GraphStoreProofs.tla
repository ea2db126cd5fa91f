--------------------------- MODULE GraphStoreProofs ---------------------------
(***************************************************************************)
(* Proofs about GraphStore for every set of paths, contributions, edges    *)
(* and nodes, every retention and every version bound.                     *)
(***************************************************************************)
EXTENDS GraphStore, TLAPS

(* `top' is the current version of the published versions V: they are the  *)
(* consecutive versions up to it, at most `Retained' of them.              *)
VersionsOK(V, top) ==
  \/ V = {} /\ top = 0
  \/ top \in V /\ \A v \in V : v <= top /\ top < v + Retained /\ v..top \subseteq V

(* A row begins in a published version and is open or ends before the      *)
(* current one; rows of a path are apart.                                  *)
Apart(r, s) == r.to # Open /\ r.to < s.from

RowsOK(rows, V, top) ==
  /\ \A r \in rows : r.from \in V /\ (r.to = Open \/ (r.from <= r.to /\ r.to < top))
  /\ \A r, s \in rows : r.path = s.path => r = s \/ Apart(r, s) \/ Apart(s, r)

FactsOK(facts, V) == \A f \in facts : f[1] \in V

IndexOK(t) ==
  \A v \in Versions, x \in LexicalItem :
    <<v, x>> \in t.lexical <=>
      /\ v \in t.versions
      /\ \/ x \in NodesAt(t, v)
         \/ \E s \in Sources(t.rows, v) : x = <<s[1], s[2]>>

TablesOK(t, top) ==
  /\ VersionsOK(t.versions, top)
  /\ RowsOK(t.rows, t.versions, top)
  /\ FactsOK(t.nodes, t.versions)
  /\ FactsOK(t.edges, t.versions)
  /\ IndexOK(t)

-----------------------------------------------------------------------------
(* The current version is the greatest published one.                      *)
LEMMA CurrentIsTop ==
  ASSUME NEW t \in Tables, NEW top, VersionsOK(t.versions, top)
  PROVE  Current(t) = top /\ top \in 0..MaxVersion
<1>1. CASE t.versions = {}
  BY <1>1, StoreAssumption DEF Current, VersionsOK, Tables, Versions
<1>2. CASE t.versions # {}
  <2>1. top \in t.versions /\ \A v \in t.versions : v <= top
    BY <1>2 DEF VersionsOK
  <2>2. t.versions \subseteq Nat /\ top \in 1..MaxVersion
    BY <2>1, StoreAssumption DEF Tables, Versions
  <2>3. \A m \in t.versions : (\A u \in t.versions : u <= m) => m = top
    BY <2>1, <2>2, StoreAssumption
  <2>4. (CHOOSE v \in t.versions : \A u \in t.versions : u <= v) = top
    BY <2>1, <2>3
  <2> QED
    BY <1>2, <2>2, <2>4, StoreAssumption DEF Current
<1> QED
  BY <1>1, <1>2

(* Closing the open rows of the paths in G at the current version.         *)
Shut(r, G, top) == IF r.path \in G /\ r.to = Open THEN [r EXCEPT !.to = top] ELSE r

(* New rows of the sources in G, one for a source.                         *)
NewFor(new, G, v) ==
  /\ \A r \in new : r.from = v /\ r.to = Open /\ r.path \in G
  /\ \A r, s \in new : r.path = s.path => r = s

Extend(rows, G, top, new) == {Shut(r, G, top) : r \in rows} \cup new

Shown(rows, G, top, new) ==
  {s \in Sources(rows, top) : s[1] \notin G}
    \cup {<<r.path, r.value, r.deps>> : r \in new}

(* What a publication of version `next' starts from, and what it leaves.   *)
Growing(rows, V, top, next, G, new) ==
  /\ rows \in SUBSET Row /\ V \in SUBSET Versions
  /\ top \in Nat /\ next \in Versions /\ next = top + 1
  /\ VersionsOK(V, top) /\ RowsOK(rows, V, top)
  /\ G \in SUBSET Paths /\ new \in SUBSET Row /\ NewFor(new, G, next)

Grown(rows, V, top, next, all, shown) ==
  /\ all \in SUBSET Row
  /\ RowsOK(all, V \cup {next}, next)
  /\ \A v \in V : Sources(all, v) = Sources(rows, v)
  /\ Sources(all, next) = shown

(* The rows of the next version `top + 1': what is not closed stays        *)
(* visible, what is closed stays visible up to `top', and the new rows are *)
(* visible from the next version on only.                                  *)
LEMMA ExtendRows ==
  ASSUME NEW rows, NEW V, NEW top, NEW next, NEW G, NEW new,
         Growing(rows, V, top, next, G, new)
  PROVE  Grown(rows, V, top, next, Extend(rows, G, top, new), Shown(rows, G, top, new))
<1> USE DEF NewFor, Growing
<1> DEFINE all == {Shut(r, G, top) : r \in rows} \cup new
<1>0. top \in Nat /\ MaxVersion \in Nat /\ V \subseteq Nat \ {0} /\ (V # {} => top \in V)
  <2>1. MaxVersion \in Nat /\ V \subseteq Nat \ {0}
    BY StoreAssumption DEF Versions
  <2>2. V # {} => top \in V
    BY Zenon DEF VersionsOK
  <2> QED
    BY <2>1, <2>2
<1>1. \A r \in rows : /\ r.from \in V /\ r.from <= top /\ r.from \in Nat
                      /\ top \in V /\ top \in Versions
                      /\ r.to \in Nat
                      /\ r.to = Open \/ (r.from <= r.to /\ r.to < top)
  BY <1>0 DEF RowsOK, VersionsOK, Row, Versions, Open
<1>2. \A r \in rows : /\ Shut(r, G, top) \in Row
                      /\ Shut(r, G, top).path = r.path
                      /\ Shut(r, G, top).from = r.from
                      /\ Shut(r, G, top).value = r.value
                      /\ Shut(r, G, top).deps = r.deps
                      /\ Shut(r, G, top).to = IF r.path \in G /\ r.to = Open THEN top ELSE r.to
  BY <1>1 DEF Shut, Row
<1>3. all \in SUBSET Row
  BY <1>2
<1>4. RowsOK(all, V \cup {top + 1}, top + 1)
  <2>1. \A r \in all : /\ r.from \in V \cup {top + 1}
                       /\ r.to = Open \/ (r.from <= r.to /\ r.to < top + 1)
    BY <1>0, <1>1, <1>2 DEF Open
  <2>2. ASSUME NEW r \in all, NEW s \in all, r.path = s.path
        PROVE  r = s \/ Apart(r, s) \/ Apart(s, r)
    <3>1. CASE r \in new /\ s \in new
      BY <2>2, <3>1
    <3>2. ASSUME NEW x \in rows, NEW y \in new, x.path = y.path
          PROVE  Apart(Shut(x, G, top), y)
      <4>1. y.from = top + 1 /\ x.path \in G
        BY <3>2
      <4>2. Shut(x, G, top).to \in Nat \ {0} /\ Shut(x, G, top).to <= top
        BY <4>1, <1>0, <1>1, <1>2 DEF Open
      <4> QED
        BY <4>1, <4>2, <1>0 DEF Apart, Open
    <3>3. ASSUME NEW x \in rows, NEW y \in rows, x.path = y.path
          PROVE  LET a == Shut(x, G, top)
                     b == Shut(y, G, top)
                 IN a = b \/ Apart(a, b) \/ Apart(b, a)
      <4>1. x = y \/ Apart(x, y) \/ Apart(y, x)
        BY <3>3 DEF RowsOK
      <4> QED
        BY <4>1, <3>3, <1>0, <1>1, <1>2 DEF Apart, Open
    <3> QED
      BY <2>2, <3>1, <3>2, <3>3, <1>2
  <2> QED
    BY <2>1, <2>2 DEF RowsOK
<1>5. ASSUME NEW v \in V
      PROVE  Sources(all, v) = Sources(rows, v)
  <2>1. v \in Nat /\ v <= top
    BY <1>0, <1>5 DEF VersionsOK
  <2>2. \A r \in rows : Shut(r, G, top) \in Visible(all, v) <=> r \in Visible(rows, v)
    BY <1>0, <1>1, <1>2, <2>1 DEF Visible, Open
  <2>3. \A r \in Visible(all, v) : \E x \in rows : r = Shut(x, G, top)
    BY <1>0, <2>1 DEF Visible
  <2> QED
    BY <1>2, <2>2, <2>3 DEF Sources, Visible
<1>6. Sources(all, top + 1) = {s \in Sources(rows, top) : s[1] \notin G}
                               \cup {<<r.path, r.value, r.deps>> : r \in new}
  <2>1. \A r \in new : r \in Visible(all, top + 1)
    BY <1>0 DEF Visible, Open
  <2>2. \A r \in rows : Shut(r, G, top) \in Visible(all, top + 1)
                           <=> r \in Visible(rows, top) /\ r.path \notin G
    BY <1>0, <1>1, <1>2 DEF Visible, Open
  <2>3. \A r \in Visible(all, top + 1) : r \in new \/ \E x \in rows : r = Shut(x, G, top)
    BY DEF Visible
  <2>4. ASSUME NEW s \in Sources(all, top + 1)
        PROVE  \/ s \in Sources(rows, top) /\ s[1] \notin G
               \/ s \in {<<r.path, r.value, r.deps>> : r \in new}
    <3>1. PICK r \in Visible(all, top + 1) : s = <<r.path, r.value, r.deps>>
      BY <2>4 DEF Sources
    <3>2. CASE r \in new
      BY <3>1, <3>2
    <3>3. ASSUME NEW x \in rows, r = Shut(x, G, top)
          PROVE  s \in Sources(rows, top) /\ s[1] \notin G
      BY <3>1, <3>3, <1>2, <2>2 DEF Sources
    <3> QED
      BY <2>3, <3>2, <3>3
  <2>5. ASSUME NEW s \in Sources(rows, top), s[1] \notin G
        PROVE  s \in Sources(all, top + 1)
    <3>1. PICK r \in Visible(rows, top) : s = <<r.path, r.value, r.deps>>
      BY <2>5 DEF Sources
    <3>2. r \in rows /\ r.path \notin G
      BY <2>5, <3>1 DEF Visible
    <3> QED
      BY <3>1, <3>2, <1>2, <2>2 DEF Sources
  <2> QED
    BY <2>1, <2>4, <2>5 DEF Sources
<1> QED
  BY <1>3, <1>4, <1>5, <1>6 DEF Extend, Shown, Grown

(* A row that reaches b from below begins at b; a row closed at b or later *)
(* is open again.                                                          *)
Moved(r, b) == IF r.from < b /\ (r.to = Open \/ r.to >= b)
                 THEN [r EXCEPT !.from = b] ELSE r
Reopened(r, b) == IF r.to # Open /\ r.to >= b THEN [r EXCEPT !.to = Open] ELSE r

(* Pruning at a published version b: rows that reach b begin there, the    *)
(* others are gone, and the versions from b on show what they showed.      *)
LEMMA PruneRows ==
  ASSUME NEW rows \in SUBSET Row, NEW V \in SUBSET Versions, NEW top \in Nat,
         \A v \in V : v <= top, RowsOK(rows, V, top), NEW b \in V
  PROVE  LET kept == {r \in rebaseContributions(rows, b) : r.from >= b}
         IN /\ kept \in SUBSET Row
            /\ RowsOK(kept, {v \in V : v >= b}, top)
            /\ \A v \in V : v >= b => Sources(kept, v) = Sources(rows, v)
<1> DEFINE kept == {r \in rebaseContributions(rows, b) : r.from >= b}
<1>0. /\ b \in Nat \ {0} /\ b <= top /\ b \in Versions
      /\ V \subseteq Nat \ {0}
      /\ \A v \in V : v <= top
  <2>1. V \subseteq Nat \ {0} /\ b \in Versions
    BY StoreAssumption DEF Versions
  <2> QED
    BY <2>1
<1>1. \A r \in rows : /\ r.from \in V /\ r.from <= top /\ r.from \in Nat
                      /\ r.to \in Nat
                      /\ r.to = Open \/ (r.from <= r.to /\ r.to < top)
  BY <1>0, StoreAssumption DEF RowsOK, Row, Versions, Open
<1>2. \A r \in rows : /\ Moved(r, b) \in Row
                      /\ Moved(r, b).path = r.path
                      /\ Moved(r, b).to = r.to
                      /\ Moved(r, b).value = r.value
                      /\ Moved(r, b).deps = r.deps
                      /\ Moved(r, b).from = IF r.from < b /\ (r.to = Open \/ r.to >= b)
                                           THEN b ELSE r.from
  BY <1>0 DEF Row, Moved
<1>3. \A r : r \in kept <=> \E x \in rows : r = Moved(x, b) /\ r.from >= b
  BY DEF rebaseContributions, Moved
<1>4. kept \in SUBSET Row
  BY <1>2, <1>3
<1>5. RowsOK(kept, {v \in V : v >= b}, top)
  <2>1. ASSUME NEW r \in kept
        PROVE  /\ r.from \in {v \in V : v >= b}
               /\ r.to = Open \/ (r.from <= r.to /\ r.to < top)
    <3>1. PICK x \in rows : r = Moved(x, b) /\ r.from >= b
      BY <1>3
    <3> QED
      BY <3>1, <1>0, <1>1, <1>2
  <2>2. ASSUME NEW r \in kept, NEW s \in kept, r.path = s.path
        PROVE  r = s \/ Apart(r, s) \/ Apart(s, r)
    <3>1. PICK x \in rows : r = Moved(x, b) /\ r.from >= b
      BY <1>3
    <3>2. PICK y \in rows : s = Moved(y, b) /\ s.from >= b
      BY <1>3
    <3>3. x = y \/ Apart(x, y) \/ Apart(y, x)
      BY <2>2, <3>1, <3>2, <1>2 DEF RowsOK
    <3> QED
      BY <3>1, <3>2, <3>3, <1>0, <1>1, <1>2 DEF Apart, Open
  <2> QED
    BY <2>1, <2>2 DEF RowsOK
<1>6. ASSUME NEW v \in V, v >= b
      PROVE  Sources(kept, v) = Sources(rows, v)
  <2>1. v \in Nat
    BY <1>0
  <2>2. ASSUME NEW r \in rows, Moved(r, b) \in kept
        PROVE  Moved(r, b) \in Visible(kept, v) <=> r \in Visible(rows, v)
    <3>1. Moved(r, b) \in Visible(kept, v)
            <=> Moved(r, b).from <= v /\ (Moved(r, b).to = Open \/ Moved(r, b).to >= v)
      BY <2>2 DEF Visible
    <3>2. r \in Visible(rows, v) <=> r.from <= v /\ (r.to = Open \/ r.to >= v)
      BY DEF Visible
    <3>3. Moved(r, b).from >= b
      BY <2>2, <1>2, <1>3
    <3> QED
      BY <3>1, <3>2, <3>3, <1>0, <1>1, <1>2, <1>6, <2>1 DEF Open
  <2>3. ASSUME NEW r \in Visible(rows, v)
        PROVE  r \in rows /\ Moved(r, b) \in kept
    <3>1. r \in rows /\ r.from <= v /\ (r.to = Open \/ r.to >= v)
      BY DEF Visible
    <3>2. Moved(r, b).from >= b
      BY <3>1, <1>0, <1>1, <1>2, <1>6, <2>1 DEF Open
    <3> QED
      BY <3>1, <3>2, <1>3
  <2>4. ASSUME NEW s \in Sources(kept, v)
        PROVE  s \in Sources(rows, v)
    <3>1. PICK r \in Visible(kept, v) : s = <<r.path, r.value, r.deps>>
      BY <2>4 DEF Sources
    <3>2. r \in kept
      BY DEF Visible
    <3>3. PICK x \in rows : r = Moved(x, b)
      BY <3>2, <1>3
    <3> QED
      BY <3>1, <3>2, <3>3, <1>2, <2>2 DEF Sources
  <2>5. ASSUME NEW s \in Sources(rows, v)
        PROVE  s \in Sources(kept, v)
    <3>1. PICK r \in Visible(rows, v) : s = <<r.path, r.value, r.deps>>
      BY <2>5 DEF Sources
    <3> QED
      BY <3>1, <1>2, <2>2, <2>3 DEF Sources
  <2> HIDE DEF kept
  <2> QED
    BY <2>4, <2>5
<1> QED
  BY <1>4, <1>5, <1>6

(* Rolling back to a published version b: what begins later is gone, what  *)
(* was closed at b or later is open again, and the versions up to b show   *)
(* what they showed.                                                       *)
LEMMA RollbackRows ==
  ASSUME NEW rows \in SUBSET Row, NEW V \in SUBSET Versions, NEW top \in Nat,
         \A v \in V : v <= top, RowsOK(rows, V, top), NEW b \in V
  PROVE  LET kept == reopenContributionRecords({r \in rows : r.from <= b}, b)
         IN /\ kept \in SUBSET Row
            /\ RowsOK(kept, {v \in V : v <= b}, b)
            /\ \A v \in V : v <= b => Sources(kept, v) = Sources(rows, v)
<1> DEFINE kept == reopenContributionRecords({r \in rows : r.from <= b}, b)
<1>0. /\ b \in Nat \ {0} /\ b <= top
      /\ V \subseteq Nat \ {0}
      /\ \A v \in V : v <= top
  <2>1. V \subseteq Nat \ {0}
    BY StoreAssumption DEF Versions
  <2> QED
    BY <2>1
<1>1. \A r \in rows : /\ r.from \in V /\ r.from <= top /\ r.from \in Nat
                      /\ r.to \in Nat
                      /\ r.to = Open \/ (r.from <= r.to /\ r.to < top)
  BY <1>0, StoreAssumption DEF RowsOK, Row, Versions, Open
<1>2. \A r \in rows : /\ Reopened(r, b) \in Row
                      /\ Reopened(r, b).path = r.path
                      /\ Reopened(r, b).from = r.from
                      /\ Reopened(r, b).value = r.value
                      /\ Reopened(r, b).deps = r.deps
                      /\ Reopened(r, b).to = IF r.to # Open /\ r.to >= b THEN Open ELSE r.to
  BY <1>0 DEF Row, Reopened
<1>3. \A r : r \in kept <=> \E x \in rows : x.from <= b /\ r = Reopened(x, b)
  BY DEF reopenContributionRecords, Reopened
<1>4. kept \in SUBSET Row
  BY <1>2, <1>3
<1>5. RowsOK(kept, {v \in V : v <= b}, b)
  <2>1. ASSUME NEW r \in kept
        PROVE  /\ r.from \in {v \in V : v <= b}
               /\ r.to = Open \/ (r.from <= r.to /\ r.to < b)
    <3>1. PICK x \in rows : x.from <= b /\ r = Reopened(x, b)
      BY <1>3
    <3> QED
      BY <3>1, <1>0, <1>1, <1>2
  <2>2. ASSUME NEW r \in kept, NEW s \in kept, r.path = s.path
        PROVE  r = s \/ Apart(r, s) \/ Apart(s, r)
    <3>1. PICK x \in rows : x.from <= b /\ r = Reopened(x, b)
      BY <1>3
    <3>2. PICK y \in rows : y.from <= b /\ s = Reopened(y, b)
      BY <1>3
    <3>3. x = y \/ Apart(x, y) \/ Apart(y, x)
      BY <2>2, <3>1, <3>2, <1>2 DEF RowsOK
    <3> QED
      BY <3>1, <3>2, <3>3, <1>0, <1>1, <1>2 DEF Apart, Open
  <2> QED
    BY <2>1, <2>2 DEF RowsOK
<1>6. ASSUME NEW v \in V, v <= b
      PROVE  Sources(kept, v) = Sources(rows, v)
  <2>1. v \in Nat
    BY <1>0
  <2>2. ASSUME NEW r \in rows, Reopened(r, b) \in kept
        PROVE  Reopened(r, b) \in Visible(kept, v) <=> r \in Visible(rows, v)
    <3>1. Reopened(r, b) \in Visible(kept, v)
            <=> Reopened(r, b).from <= v /\ (Reopened(r, b).to = Open \/ Reopened(r, b).to >= v)
      BY <2>2 DEF Visible
    <3>2. r \in Visible(rows, v) <=> r.from <= v /\ (r.to = Open \/ r.to >= v)
      BY DEF Visible
    <3> QED
      BY <3>1, <3>2, <1>0, <1>1, <1>2, <1>6, <2>1 DEF Open
  <2>3. ASSUME NEW r \in Visible(rows, v)
        PROVE  r \in rows /\ Reopened(r, b) \in kept
    <3>1. r \in rows /\ r.from <= v /\ (r.to = Open \/ r.to >= v)
      BY DEF Visible
    <3>2. r.from <= b
      BY <3>1, <1>0, <1>1, <1>2, <1>6, <2>1 DEF Open
    <3> QED
      BY <3>1, <3>2, <1>3
  <2>4. ASSUME NEW s \in Sources(kept, v)
        PROVE  s \in Sources(rows, v)
    <3>1. PICK r \in Visible(kept, v) : s = <<r.path, r.value, r.deps>>
      BY <2>4 DEF Sources
    <3>2. r \in kept
      BY DEF Visible
    <3>3. PICK x \in rows : r = Reopened(x, b)
      BY <3>2, <1>3
    <3> QED
      BY <3>1, <3>2, <3>3, <1>2, <2>2 DEF Sources
  <2>5. ASSUME NEW s \in Sources(rows, v)
        PROVE  s \in Sources(kept, v)
    <3>1. PICK r \in Visible(rows, v) : s = <<r.path, r.value, r.deps>>
      BY <2>5 DEF Sources
    <3> QED
      BY <3>1, <1>2, <2>2, <2>3 DEF Sources
  <2> HIDE DEF kept
  <2> QED
    BY <2>4, <2>5
<1> QED
  BY <1>4, <1>5, <1>6

-----------------------------------------------------------------------------
(* Tables whose versions run up to `top', with sound rows and facts.       *)
Sound(t, top) ==
  /\ top \in t.versions
  /\ \A v \in t.versions : v <= top
  /\ \A v \in t.versions : v..top \subseteq t.versions
  /\ RowsOK(t.rows, t.versions, top)
  /\ FactsOK(t.nodes, t.versions)
  /\ FactsOK(t.edges, t.versions)

(* d holds the versions of t from b on, and they show what they showed.    *)
Pruned(t, b, top, d) ==
  /\ d \in Tables
  /\ d.versions = {v \in t.versions : v >= b}
  /\ RowsOK(d.rows, d.versions, top)
  /\ FactsOK(d.nodes, d.versions) /\ FactsOK(d.edges, d.versions)
  /\ \A v \in d.versions : Snapshot(d, v) = Snapshot(t, v)
  /\ \A v \in d.versions : LexicalAt(d, v) = LexicalAt(t, v)
  /\ \A l \in d.lexical : l \in t.lexical /\ l[1] >= b

(* Pruning keeps the tables sound and the remaining snapshots as they were.*)
LEMMA PruneTables ==
  ASSUME NEW t \in Tables, NEW top \in Nat, NEW b \in t.versions, Sound(t, top)
  PROVE  Pruned(t, b, top, pruneVersions(t, b))
<1> USE DEF Sound
<1> DEFINE d == pruneVersions(t, b)
<1>1. /\ t.rows \in SUBSET Row /\ t.versions \in SUBSET Versions
      /\ t.nodes \in SUBSET (Versions \X Nodes)
      /\ t.edges \in SUBSET (Versions \X Edges)
      /\ t.lexical \in SUBSET (Versions \X LexicalItem)
  BY DEF Tables
<1>2. /\ d.versions = {v \in t.versions : v >= b}
      /\ d.rows = {r \in rebaseContributions(t.rows, b) : r.from >= b}
      /\ d.nodes = {f \in t.nodes : f[1] >= b}
      /\ d.edges = {f \in t.edges : f[1] >= b}
      /\ d.lexical = {l \in t.lexical : l[1] >= b}
  BY DEF pruneVersions
<1>3. /\ d.rows \in SUBSET Row
      /\ RowsOK(d.rows, d.versions, top)
      /\ \A v \in t.versions : v >= b => Sources(d.rows, v) = Sources(t.rows, v)
  <2> DEFINE kept == {r \in rebaseContributions(t.rows, b) : r.from >= b}
  <2>1. /\ kept \in SUBSET Row
        /\ RowsOK(kept, {v \in t.versions : v >= b}, top)
        /\ \A v \in t.versions : v >= b => Sources(kept, v) = Sources(t.rows, v)
    BY <1>1, PruneRows
  <2> HIDE DEF d, kept
  <2> QED
    BY <2>1, <1>2 DEF kept
<1>4. d \in Tables
  <2>1. d = [versions |-> d.versions, rows |-> d.rows, nodes |-> d.nodes,
             edges |-> d.edges, lexical |-> d.lexical]
    BY DEF pruneVersions
  <2>2. /\ d.versions \in SUBSET Versions
        /\ d.nodes \in SUBSET (Versions \X Nodes)
        /\ d.edges \in SUBSET (Versions \X Edges)
        /\ d.lexical \in SUBSET (Versions \X LexicalItem)
    BY <1>1, <1>2
  <2> HIDE DEF d
  <2> QED
    BY <1>3, <2>1, <2>2 DEF Tables
<1>5. FactsOK(d.nodes, d.versions) /\ FactsOK(d.edges, d.versions)
  BY <1>2 DEF FactsOK
<1>6. ASSUME NEW v \in d.versions
      PROVE  Snapshot(d, v) = Snapshot(t, v) /\ LexicalAt(d, v) = LexicalAt(t, v)
  <2>1. v \in t.versions /\ v >= b
    BY <1>2
  <2>2. NodesAt(d, v) = NodesAt(t, v)
    BY <1>2, <2>1 DEF NodesAt
  <2>3. EdgesAt(d, v) = EdgesAt(t, v)
    BY <1>2, <2>1 DEF EdgesAt
  <2>4. LexicalAt(d, v) = LexicalAt(t, v)
    BY <1>2, <2>1 DEF LexicalAt
  <2> HIDE DEF d
  <2> QED
    BY <2>1, <2>2, <2>3, <2>4, <1>3 DEF Snapshot
<1> HIDE DEF d
<1>7. \A l \in d.lexical : l \in t.lexical /\ l[1] >= b
  BY <1>2
<1> QED
  BY <1>2, <1>3, <1>4, <1>5, <1>6, <1>7 DEF d, Pruned

(* Rebuilding the index of version v changes the index of v only.          *)
LEMMA RebuildTables ==
  ASSUME NEW t \in Tables, NEW v \in Versions
  PROVE  LET d == rebuildLexicalSnapshot(t, v)
         IN /\ d \in Tables
            /\ d.versions = t.versions /\ d.rows = t.rows
            /\ d.nodes = t.nodes /\ d.edges = t.edges
            /\ \A w \in Versions, x \in LexicalItem :
                 <<w, x>> \in d.lexical <=>
                   IF w = v THEN \/ x \in NodesAt(t, v)
                                 \/ \E s \in Sources(t.rows, v) : x = <<s[1], s[2]>>
                            ELSE <<w, x>> \in t.lexical
<1> DEFINE d == rebuildLexicalSnapshot(t, v)
           items == {<<r.path, r.value>> : r \in Visible(t.rows, v)} \cup NodesAt(t, v)
           lex == {l \in t.lexical : l[1] # v} \cup {<<v, x>> : x \in items}
<1>1. /\ t.rows \in SUBSET Row
      /\ t.lexical \in SUBSET (Versions \X LexicalItem)
  BY DEF Tables
<1>2. items \subseteq LexicalItem
  BY <1>1 DEF LexicalItem, Visible, Row, NodesAt
<1>3. \A x : x \in items <=> \/ x \in NodesAt(t, v)
                             \/ \E s \in Sources(t.rows, v) : x = <<s[1], s[2]>>
  <2>1. \A s \in Sources(t.rows, v) :
          \E r \in Visible(t.rows, v) : s[1] = r.path /\ s[2] = r.value
    BY DEF Sources
  <2>2. ASSUME NEW r \in Visible(t.rows, v)
        PROVE  \E s \in Sources(t.rows, v) : s[1] = r.path /\ s[2] = r.value
    <3>1. <<r.path, r.value, r.deps>> \in Sources(t.rows, v)
      BY DEF Sources
    <3> WITNESS <<r.path, r.value, r.deps>> \in Sources(t.rows, v)
    <3> QED
      OBVIOUS
  <2> QED
    BY <2>1, <2>2
<1>4. /\ d \in [versions : {t.versions}, rows : {t.rows}, nodes : {t.nodes},
               edges : {t.edges}, lexical : {lex}]
  BY DEF rebuildLexicalSnapshot, Tables
<1> HIDE DEF d, items
<1>5. lex \in SUBSET (Versions \X LexicalItem)
  BY <1>1, <1>2
<1>6. \A w \in Versions, x \in LexicalItem :
        <<w, x>> \in lex <=> IF w = v THEN x \in items ELSE <<w, x>> \in t.lexical
  OBVIOUS
<1> HIDE DEF lex
<1>7. d \in Tables
  BY <1>4, <1>5 DEF Tables
<1> QED
  BY <1>3, <1>4, <1>6, <1>7 DEF d

FactsAdded(old, new, v) ==
  /\ old \subseteq new
  /\ \A f \in new : f \in old \/ f[1] = v

(* u is what a publication of version v = top + 1 on the tables t writes   *)
(* before retention.                                                       *)
Publishing(t, top, v, G, new, u) ==
  /\ t \in Tables /\ TablesOK(t, top)
  /\ top \in Nat /\ v \in Versions /\ v = top + 1
  /\ G \in SUBSET Paths /\ new \in SUBSET Row /\ NewFor(new, G, v)
  /\ u \in Tables
  /\ u.versions = t.versions \cup {v}
  /\ u.rows = Extend(t.rows, G, top, new)
  /\ FactsAdded(t.nodes, u.nodes, v)
  /\ FactsAdded(t.edges, u.edges, v)
  /\ u.lexical = t.lexical
  /\ RetentionAccepts(u, v)

(* d are the tables it commits, where version v shows the sources `shown'. *)
Published(t, v, u, shown, d) ==
  /\ d \in Tables
  /\ TablesOK(d, v)
  /\ d.versions = {w \in t.versions \cup {v} : w + Retained > v}
  /\ \A w \in t.versions : w \in d.versions => Snapshot(d, w) = Snapshot(t, w)
  /\ Snapshot(d, v) = [sources |-> shown, nodes |-> NodesAt(u, v),
                       edges |-> EdgesAt(u, v)]

(* Version v is published whole: sound tables, the retained snapshots as   *)
(* they were, and in v the updated sources next to the untouched ones.     *)
LEMMA PublishTables ==
  ASSUME NEW t, NEW top, NEW v, NEW G, NEW new, NEW u,
         Publishing(t, top, v, G, new, u)
  PROVE  Published(t, v, u, Shown(t.rows, G, top, new),
                   rebuildLexicalSnapshot(ApplyRetention(u, v), v))
<1> USE DEF Publishing, FactsAdded
<1>0. /\ v \in Nat \ {0} /\ Retained \in Nat \ {0} /\ v \in u.versions
      /\ t.versions \in SUBSET Versions /\ t.versions \subseteq Nat \ {0}
      /\ u.versions \subseteq Nat \ {0}
      /\ t.rows \in SUBSET Row /\ u.rows \in SUBSET Row
      /\ t.lexical \in SUBSET (Versions \X LexicalItem)
  BY StoreAssumption DEF Tables, Versions
<1>1. /\ RowsOK(u.rows, u.versions, v)
      /\ \A w \in t.versions : Sources(u.rows, w) = Sources(t.rows, w)
      /\ Sources(u.rows, v) = Shown(t.rows, G, top, new)
  <2>1. VersionsOK(t.versions, top) /\ RowsOK(t.rows, t.versions, top)
    BY DEF TablesOK
  <2>2. t.rows \in SUBSET Row /\ t.versions \in SUBSET Versions
    BY <1>0
  <2>3. /\ RowsOK(Extend(t.rows, G, top, new), t.versions \cup {v}, v)
        /\ \A w \in t.versions :
             Sources(Extend(t.rows, G, top, new), w) = Sources(t.rows, w)
        /\ Sources(Extend(t.rows, G, top, new), v) = Shown(t.rows, G, top, new)
    <3>1. Growing(t.rows, t.versions, top, v, G, new)
      BY <2>1, <2>2 DEF Growing
    <3> HIDE DEF Publishing, FactsAdded
    <3>2. Grown(t.rows, t.versions, top, v, Extend(t.rows, G, top, new),
                Shown(t.rows, G, top, new))
      BY <3>1, ExtendRows
    <3> QED
      BY <3>2 DEF Grown
  <2> QED
    BY <2>3
<1>2. /\ \A w \in t.versions : w < v
      /\ \A w \in u.versions : w <= v /\ w..v \subseteq u.versions
  <2>1. \A w \in t.versions : w <= top /\ w..top \subseteq t.versions
    BY DEF TablesOK, VersionsOK
  <2> QED
    BY <1>0, <2>1
<1>3. FactsOK(u.nodes, u.versions) /\ FactsOK(u.edges, u.versions)
  BY DEF TablesOK, FactsOK
<1>4. ASSUME NEW w \in t.versions
      PROVE  Snapshot(u, w) = Snapshot(t, w)
  <2>1. w # v
    BY <1>0, <1>2
  <2>2. NodesAt(u, w) = NodesAt(t, w)
    BY <2>1 DEF NodesAt
  <2>3. EdgesAt(u, w) = EdgesAt(t, w)
    BY <2>1 DEF EdgesAt
  <2> QED
    BY <1>1, <2>2, <2>3 DEF Snapshot
<1>5. \A l \in u.lexical : l[1] \in t.versions
  <2>1. IndexOK(t)
    BY DEF TablesOK
  <2> QED
    <3>1. ASSUME NEW l \in u.lexical
          PROVE  l[1] \in t.versions
      <4>1. l \in t.lexical /\ l = <<l[1], l[2]>> /\ l[1] \in Versions /\ l[2] \in LexicalItem
        BY <1>0
      <4>2. <<l[1], l[2]>> \in t.lexical => l[1] \in t.versions
        BY <2>1, <4>1 DEF IndexOK
      <4> QED
        BY <4>1, <4>2
    <3> QED
      BY <3>1
<1> DEFINE p == ApplyRetention(u, v)
<1>6. /\ p \in Tables
      /\ p.versions = {w \in u.versions : w + Retained > v}
      /\ RowsOK(p.rows, p.versions, v)
      /\ FactsOK(p.nodes, p.versions) /\ FactsOK(p.edges, p.versions)
      /\ \A w \in p.versions : Snapshot(p, w) = Snapshot(u, w)
      /\ \A w \in p.versions : LexicalAt(p, w) = LexicalAt(u, w)
      /\ \A l \in p.lexical : l[1] \in p.versions
  <2>1. CASE v > Retained
    <3> DEFINE b == RetentionBoundary(v)
    <3>1. b \in u.versions /\ p = pruneVersions(u, b)
      BY <2>1 DEF RetentionAccepts, ApplyRetention
    <3>2. \A w \in u.versions : w >= b <=> w + Retained > v
      BY <1>0, <2>1 DEF RetentionBoundary
    <3> DEFINE q == pruneVersions(u, b)
    <3>q. Pruned(u, b, v, q)
      <4>1. v \in Nat /\ b \in u.versions
        BY <3>1, <1>0
      <4>2. Sound(u, v)
        BY <1>0, <1>1, <1>2, <1>3 DEF Sound
      <4> HIDE DEF b
      <4> QED
        BY <4>1, <4>2, PruneTables
    <3> HIDE DEF b, p, q
    <3>3. /\ p \in Tables
          /\ p.versions = {w \in u.versions : w >= b}
          /\ RowsOK(p.rows, p.versions, v)
          /\ FactsOK(p.nodes, p.versions) /\ FactsOK(p.edges, p.versions)
          /\ \A w \in p.versions : Snapshot(p, w) = Snapshot(u, w)
          /\ \A w \in p.versions : LexicalAt(p, w) = LexicalAt(u, w)
          /\ \A l \in p.lexical : l \in u.lexical /\ l[1] >= b
      BY <3>1, <3>q DEF q, Pruned
    <3> QED
      BY <3>2, <3>3, <1>5
  <2>2. CASE ~(v > Retained)
    <3>1. p = u
      BY <2>2 DEF ApplyRetention
    <3>2. \A w \in u.versions : w + Retained > v
      BY <1>0, <2>2
    <3> HIDE DEF p
    <3> QED
      BY <3>1, <3>2, <1>1, <1>3, <1>5
  <2> QED
    BY <2>1, <2>2
<1> DEFINE d == rebuildLexicalSnapshot(p, v)
<1> HIDE DEF p
<1>7. /\ d \in Tables
      /\ d.versions = p.versions /\ d.rows = p.rows
      /\ d.nodes = p.nodes /\ d.edges = p.edges
      /\ \A w \in Versions, x \in LexicalItem :
           <<w, x>> \in d.lexical <=>
             IF w = v THEN \/ x \in NodesAt(p, v)
                           \/ \E s \in Sources(p.rows, v) : x = <<s[1], s[2]>>
                      ELSE <<w, x>> \in p.lexical
  BY <1>6, RebuildTables
<1> HIDE DEF d
<1>8. /\ v \in d.versions
      /\ \A w \in d.versions : w \in u.versions /\ w <= v /\ v < w + Retained
      /\ \A w \in d.versions : w..v \subseteq d.versions
  BY <1>0, <1>2, <1>6, <1>7
<1>9. VersionsOK(d.versions, v)
  BY <1>8 DEF VersionsOK
<1>10. \A w \in d.versions : Snapshot(d, w) = Snapshot(u, w) /\ Snapshot(d, w) = Snapshot(p, w)
  BY <1>6, <1>7 DEF Snapshot, NodesAt, EdgesAt
<1>11. IndexOK(d)
  <2>1. ASSUME NEW w \in Versions, NEW x \in LexicalItem
        PROVE  <<w, x>> \in d.lexical <=>
                 /\ w \in d.versions
                 /\ \/ x \in NodesAt(d, w)
                    \/ \E s \in Sources(d.rows, w) : x = <<s[1], s[2]>>
    <3>1. CASE w = v
      <4>1. NodesAt(d, w) = NodesAt(p, v) /\ Sources(d.rows, w) = Sources(p.rows, v)
        BY <3>1, <1>7 DEF NodesAt
      <4> QED
        BY <3>1, <4>1, <1>7, <1>8
    <3>2. CASE w # v /\ w \in d.versions
      <4>1. w \in t.versions /\ w \in p.versions
        BY <3>2, <1>7, <1>8
      <4>2. Snapshot(d, w) = Snapshot(t, w)
        BY <3>2, <4>1, <1>4, <1>10
      <4>3. NodesAt(d, w) = NodesAt(t, w) /\ Sources(d.rows, w) = Sources(t.rows, w)
        BY <4>2 DEF Snapshot
      <4>4. <<w, x>> \in d.lexical <=> <<w, x>> \in t.lexical
        BY <3>2, <4>1, <1>6, <1>7 DEF LexicalAt
      <4>5. <<w, x>> \in t.lexical <=>
              /\ w \in t.versions
              /\ \/ x \in NodesAt(t, w)
                 \/ \E s \in Sources(t.rows, w) : x = <<s[1], s[2]>>
        BY DEF TablesOK, IndexOK
      <4> QED
        BY <3>2, <4>1, <4>3, <4>4, <4>5
    <3>3. CASE w # v /\ w \notin d.versions
      <4>1. <<w, x>> \in p.lexical => w \in p.versions
        BY <1>6
      <4> QED
        BY <3>3, <4>1, <1>7
    <3> QED
      BY <3>1, <3>2, <3>3
  <2> QED
    BY <2>1 DEF IndexOK
<1>12. TablesOK(d, v)
  BY <1>6, <1>7, <1>9, <1>11 DEF TablesOK
<1>13. d.versions = {w \in t.versions \cup {v} : w + Retained > v}
  BY <1>6, <1>7
<1>14. Snapshot(d, v) = [sources |-> Sources(u.rows, v), nodes |-> NodesAt(u, v),
                         edges |-> EdgesAt(u, v)]
  BY <1>8, <1>10 DEF Snapshot
<1> QED
  BY <1>1, <1>4, <1>7, <1>10, <1>12, <1>13, <1>14 DEF d, p, Published

(* The index stays right when versions are dropped with their index and    *)
(* the others keep snapshot and index.                                     *)
LEMMA IndexKept ==
  ASSUME NEW t \in Tables, NEW d \in Tables, IndexOK(t),
         d.versions \subseteq t.versions,
         \A v \in d.versions : Snapshot(d, v) = Snapshot(t, v),
         \A v \in d.versions : LexicalAt(d, v) = LexicalAt(t, v),
         \A l \in d.lexical : l[1] \in d.versions
  PROVE  IndexOK(d)
<1>1. ASSUME NEW w \in Versions, NEW x \in LexicalItem
      PROVE  <<w, x>> \in d.lexical <=>
               /\ w \in d.versions
               /\ \/ x \in NodesAt(d, w)
                  \/ \E s \in Sources(d.rows, w) : x = <<s[1], s[2]>>
  <2>1. CASE w \in d.versions
    <3>1. Snapshot(d, w) = Snapshot(t, w) /\ LexicalAt(d, w) = LexicalAt(t, w)
      BY <2>1
    <3>2. NodesAt(d, w) = NodesAt(t, w) /\ Sources(d.rows, w) = Sources(t.rows, w)
      BY <3>1 DEF Snapshot
    <3>3. <<w, x>> \in d.lexical <=> <<w, x>> \in t.lexical
      BY <3>1 DEF LexicalAt
    <3>4. <<w, x>> \in t.lexical <=>
            /\ w \in t.versions
            /\ \/ x \in NodesAt(t, w)
               \/ \E s \in Sources(t.rows, w) : x = <<s[1], s[2]>>
      BY DEF IndexOK
    <3> QED
      BY <2>1, <3>2, <3>3, <3>4
  <2>2. CASE w \notin d.versions
    <3>1. <<w, x>> \in d.lexical => w \in d.versions
      OBVIOUS
    <3> QED
      BY <2>2, <3>1
  <2> QED
    BY <2>1, <2>2
<1> QED
  BY <1>1 DEF IndexOK

(* A step that only drops versions.                                        *)
Dropped(t, d, top) ==
  /\ d \in Tables
  /\ TablesOK(d, top)
  /\ d.versions \subseteq t.versions
  /\ \A v \in d.versions : Snapshot(d, v) = Snapshot(t, v)

(* The index of a sound store names published versions only.               *)
LEMMA IndexVersions ==
  ASSUME NEW t \in Tables, IndexOK(t), NEW l \in t.lexical
  PROVE  l[1] \in t.versions
<1>1. l = <<l[1], l[2]>> /\ l[1] \in Versions /\ l[2] \in LexicalItem
  BY DEF Tables
<1>2. <<l[1], l[2]>> \in t.lexical => l[1] \in t.versions
  BY <1>1 DEF IndexOK
<1> QED
  BY <1>1, <1>2

(* pruneVersions on sound tables drops versions below b and nothing else.  *)
LEMMA PruneStep ==
  ASSUME NEW t \in Tables, NEW top \in Nat, TablesOK(t, top), NEW b \in t.versions
  PROVE  /\ Dropped(t, pruneVersions(t, b), top)
         /\ pruneVersions(t, b).versions = {v \in t.versions : v >= b}
<1>1. Sound(t, top)
  BY DEF TablesOK, VersionsOK, Sound
<1> DEFINE d == pruneVersions(t, b)
<1>2. Pruned(t, b, top, d)
  BY <1>1, PruneTables
<1> HIDE DEF d
<1>3. \A l \in d.lexical : l[1] \in d.versions
  <2>1. \A l \in d.lexical : l[1] \in t.versions
    BY <1>2, IndexVersions DEF TablesOK, Pruned
  <2> QED
    BY <2>1, <1>2 DEF Pruned
<1>4. IndexOK(d)
  BY <1>2, <1>3, IndexKept DEF TablesOK, Pruned
<1>5. t.versions \subseteq Nat /\ b \in Nat /\ Retained \in Nat /\ b <= top
  BY <1>1, StoreAssumption DEF Tables, Versions, Sound
<1>6. VersionsOK(d.versions, top)
  <2>1. \A v \in t.versions : v <= top /\ top < v + Retained /\ v..top \subseteq t.versions
    BY DEF TablesOK, VersionsOK
  <2>2. d.versions = {v \in t.versions : v >= b} /\ top \in t.versions
    BY <1>1, <1>2 DEF Pruned, Sound
  <2>3. \A v \in d.versions : v <= top /\ top < v + Retained /\ v..top \subseteq d.versions
    BY <2>1, <2>2, <1>5
  <2> QED
    BY <2>2, <2>3, <1>5 DEF VersionsOK
<1> QED
  BY <1>2, <1>4, <1>6 DEF Pruned, Dropped, TablesOK, d

(* Store.Rollback on sound tables drops versions above b and nothing else. *)
LEMMA RollbackStep ==
  ASSUME NEW t \in Tables, NEW top \in Nat, TablesOK(t, top), NEW b \in t.versions
  PROVE  /\ Dropped(t, rollbackVersions(t, b), b)
         /\ rollbackVersions(t, b).versions = {v \in t.versions : v <= b}
<1> DEFINE d == rollbackVersions(t, b)
<1>1. /\ t.rows \in SUBSET Row /\ t.versions \in SUBSET Versions
      /\ t.nodes \in SUBSET (Versions \X Nodes)
      /\ t.edges \in SUBSET (Versions \X Edges)
      /\ t.lexical \in SUBSET (Versions \X LexicalItem)
      /\ t.versions \subseteq Nat /\ b \in Nat /\ Retained \in Nat
  BY StoreAssumption DEF Tables, Versions
<1>2. /\ d.versions = {v \in t.versions : v <= b}
      /\ d.rows = reopenContributionRecords({r \in t.rows : r.from <= b}, b)
      /\ d.nodes = {f \in t.nodes : f[1] <= b}
      /\ d.edges = {f \in t.edges : f[1] <= b}
      /\ d.lexical = {l \in t.lexical : l[1] <= b}
  BY DEF rollbackVersions
<1>3. \A v \in t.versions : v <= top /\ top < v + Retained /\ v..top \subseteq t.versions
  BY DEF TablesOK, VersionsOK
<1>4. /\ d.rows \in SUBSET Row
      /\ RowsOK(d.rows, d.versions, b)
      /\ \A v \in t.versions : v <= b => Sources(d.rows, v) = Sources(t.rows, v)
  <2> DEFINE kept == reopenContributionRecords({r \in t.rows : r.from <= b}, b)
  <2>1. RowsOK(t.rows, t.versions, top)
    BY DEF TablesOK
  <2>2. /\ kept \in SUBSET Row
        /\ RowsOK(kept, {v \in t.versions : v <= b}, b)
        /\ \A v \in t.versions : v <= b => Sources(kept, v) = Sources(t.rows, v)
    BY <1>1, <1>3, <2>1, RollbackRows
  <2> HIDE DEF d, kept
  <2> QED
    BY <2>2, <1>2 DEF kept
<1>5. d \in Tables
  <2>1. d = [versions |-> d.versions, rows |-> d.rows, nodes |-> d.nodes,
             edges |-> d.edges, lexical |-> d.lexical]
    BY DEF rollbackVersions
  <2>2. /\ d.versions \in SUBSET Versions
        /\ d.nodes \in SUBSET (Versions \X Nodes)
        /\ d.edges \in SUBSET (Versions \X Edges)
        /\ d.lexical \in SUBSET (Versions \X LexicalItem)
    BY <1>1, <1>2
  <2> HIDE DEF d
  <2> QED
    BY <1>4, <2>1, <2>2 DEF Tables
<1>6. FactsOK(d.nodes, d.versions) /\ FactsOK(d.edges, d.versions)
  BY <1>2 DEF FactsOK, TablesOK
<1> HIDE DEF d
<1>7. ASSUME NEW v \in d.versions
      PROVE  Snapshot(d, v) = Snapshot(t, v) /\ LexicalAt(d, v) = LexicalAt(t, v)
  <2>1. v \in t.versions /\ v <= b
    BY <1>2
  <2>2. NodesAt(d, v) = NodesAt(t, v)
    BY <1>2, <2>1 DEF NodesAt
  <2>3. EdgesAt(d, v) = EdgesAt(t, v)
    BY <1>2, <2>1 DEF EdgesAt
  <2>4. LexicalAt(d, v) = LexicalAt(t, v)
    BY <1>2, <2>1 DEF LexicalAt
  <2> QED
    BY <2>1, <2>2, <2>3, <2>4, <1>4 DEF Snapshot
<1>8. \A l \in d.lexical : l[1] \in d.versions
  <2>1. \A l \in d.lexical : l[1] \in t.versions
    BY <1>2, IndexVersions DEF TablesOK
  <2> QED
    BY <2>1, <1>2
<1>9. IndexOK(d)
  BY <1>2, <1>5, <1>7, <1>8, IndexKept DEF TablesOK
<1>10. VersionsOK(d.versions, b)
  <2>1. \A v \in d.versions : v <= b /\ b < v + Retained /\ v..b \subseteq d.versions
    BY <1>1, <1>2, <1>3
  <2> QED
    BY <2>1, <1>1, <1>2 DEF VersionsOK
<1> QED
  BY <1>2, <1>4, <1>5, <1>6, <1>7, <1>9, <1>10 DEF Dropped, TablesOK, d

-----------------------------------------------------------------------------
(* The session's transaction.  The rows of prior versions are those of the *)
(* committed tables, with what the session has replaced or found missing   *)
(* closed; every source written has exactly one new row, in the table or   *)
(* still in the batch.                                                     *)
Gone == session.written \cup IF session.missingClosed THEN Paths \ session.staged
                                                       ELSE {}

Pending(rows) == {r \in rows : r.from = session.pending}

RowsAdded ==
  /\ \A d \in db.rows : Shut(d, Gone, session.pending - 1) \in work.rows
  /\ \A r \in work.rows \ Pending(work.rows) :
       \E d \in db.rows : r = Shut(d, Gone, session.pending - 1)
  /\ \A r \in session.buffer : r.from = session.pending
  /\ \A r \in Pending(work.rows) \cup session.buffer :
       r.to = Open /\ r.path \in session.written
  /\ \A r, s \in Pending(work.rows) \cup session.buffer : r.path = s.path => r = s
  /\ \A p \in session.written :
       \E r \in Pending(work.rows) \cup session.buffer : r.path = p

OpenOK ==
  /\ session.pending = Current(db) + 1
  /\ session.pending \in Versions
  /\ work.versions = db.versions
  /\ work.lexical = db.lexical
  /\ FactsAdded(db.nodes, work.nodes, session.pending)
  /\ FactsAdded(db.edges, work.edges, session.pending)
  /\ RowsAdded
  /\ session.written \subseteq session.staged
  /\ session.sealed => session.buffer = {}
  /\ session.missingClosed => session.sealed

SessionOK ==
  /\ session.open => OpenOK
  /\ ~session.open => session = ClosedSession /\ work = NoTables

Inv == TypeOK /\ TablesOK(db, Current(db)) /\ SessionOK

-----------------------------------------------------------------------------
(* The invariant in the initial state.                                     *)
LEMMA InvInit == Init => Inv
<1> SUFFICES ASSUME Init PROVE Inv
  OBVIOUS
<1>1. TypeOK
  BY StoreAssumption DEF Init, TypeOK, NoTables, ClosedSession, Tables, Session
<1>2. Current(db) = 0
  BY DEF Init, NoTables, Current
<1>3. TablesOK(db, 0)
  <2>1. VersionsOK(db.versions, 0) /\ RowsOK(db.rows, db.versions, 0)
    BY DEF Init, NoTables, VersionsOK, RowsOK
  <2>2. FactsOK(db.nodes, db.versions) /\ FactsOK(db.edges, db.versions) /\ IndexOK(db)
    BY DEF Init, NoTables, FactsOK, IndexOK
  <2> QED
    BY <2>1, <2>2 DEF TablesOK
<1>4. SessionOK
  BY DEF Init, SessionOK, ClosedSession
<1> QED
  BY <1>1, <1>2, <1>3, <1>4 DEF Inv

(* What the invariant says of the current version.                         *)
LEMMA InvCurrent ==
  ASSUME Inv
  PROVE  /\ Current(db) \in Nat /\ db \in Tables
         /\ TablesOK(db, Current(db)) /\ VersionsOK(db.versions, Current(db))
         /\ db.versions \subseteq Nat
         /\ Current(db) + 1 <= MaxVersion => Current(db) + 1 \in Versions
<1>1. db \in Tables /\ TablesOK(db, Current(db))
  BY DEF Inv, TypeOK
<1>2. VersionsOK(db.versions, Current(db))
  BY <1>1 DEF TablesOK
<1>3. Current(db) \in 0..MaxVersion
  BY <1>1, <1>2, CurrentIsTop
<1> QED
  BY <1>1, <1>2, <1>3, StoreAssumption DEF Versions, Tables

(* Committed tables that are sound and typed, with no session open.        *)
LEMMA InvIdle ==
  ASSUME Inv, ~session.open, UNCHANGED <<work, session>>,
         NEW top, db' \in Tables, TablesOK(db', top)
  PROVE  Inv' /\ Current(db') = top
<1>1. Current(db') = top
  <2>1. VersionsOK(db'.versions, top)
    BY DEF TablesOK
  <2> QED
    BY <2>1, CurrentIsTop
<1>2. TypeOK'
  BY DEF Inv, TypeOK
<1>3. SessionOK'
  BY DEF Inv, SessionOK, ClosedSession
<1> QED
  BY <1>1, <1>2, <1>3 DEF Inv

(* Closing the rows of the sources an update replaces.                     *)
LEMMA CloseIsShut ==
  ASSUME Inv, NEW rows \in SUBSET Row, NEW v \in Versions,
         NEW G \in SUBSET Paths, v = 1 => rows = {}
  PROVE  CloseUpdated(rows, G, v) = {Shut(r, G, v - 1) : r \in rows}
<1>1. v \in Nat \ {0}
  BY StoreAssumption DEF Versions
<1>2. CASE v = 1
  BY <1>2 DEF CloseUpdated
<1>3. CASE v > 1
  BY <1>3 DEF CloseUpdated, closeContributionRecords, Shut
<1> QED
  BY <1>1, <1>2, <1>3

(* Store.publish keeps the invariant and publishes what the update says.   *)
LEMMA PublishInv ==
  ASSUME Inv, NEW update \in Updates, NEW replaced \in SUBSET Paths,
         NEW ns \in SUBSET Nodes, NEW es \in SUBSET Edges,
         Publish(update, replaced, ns, es)
  PROVE  LET v == Current(db) + 1
         IN /\ Inv' /\ Current(db') = v
            /\ Published(db, v,
                         storePreparedPublication(db, v, update, replaced, ns, es),
                         Shown(db.rows, DOMAIN update, Current(db), NewRows(update, v)),
                         db')
<1> DEFINE top == Current(db)
           v == top + 1
           u == storePreparedPublication(db, v, update, replaced, ns, es)
           new == NewRows(update, v)
           G == DOMAIN update
<1>1. /\ ~session.open /\ v \in Versions /\ RetentionAccepts(u, v)
      /\ db' = rebuildLexicalSnapshot(ApplyRetention(u, v), v)
      /\ UNCHANGED <<work, session>>
  BY InvCurrent DEF Publish
<1>2. /\ db \in Tables /\ top \in Nat /\ TablesOK(db, top)
      /\ VersionsOK(db.versions, top) /\ RowsOK(db.rows, db.versions, top)
  BY InvCurrent DEF TablesOK
<1>3. /\ db.rows \in SUBSET Row /\ db.versions \in SUBSET Versions
      /\ db.nodes \in SUBSET (Versions \X Nodes)
      /\ db.edges \in SUBSET (Versions \X Edges)
      /\ db.lexical \in SUBSET (Versions \X LexicalItem)
  BY <1>2 DEF Tables
<1>4. G \in SUBSET Paths /\ \A p \in G : update[p] \in Contributions \X Dependencies
  <2>1. PICK S \in SUBSET Paths : update \in [S -> Contributions \X Dependencies]
    BY DEF Updates
  <2> QED
    BY <2>1
<1>5. new \in SUBSET Row /\ NewFor(new, G, v)
  <2>1. \A r \in new : \E p \in G : r = [path |-> p, from |-> v, to |-> Open,
                                      value |-> update[p][1], deps |-> update[p][2]]
    BY DEF NewRows
  <2> HIDE DEF new, G, v
  <2> QED
    BY <1>1, <1>4, <2>1 DEF NewFor, Row
<1>6. /\ u \in [versions : {db.versions \cup {v}},
               rows : {CloseUpdated(db.rows, G, v) \cup new},
               nodes : {db.nodes \cup ({v} \X ns)},
               edges : {db.edges \cup retainWorkspaceFacts(db, v, replaced)
                          \cup ({v} \X es)},
               lexical : {db.lexical}]
  BY <1>2 DEF storePreparedPublication, Tables
<1> HIDE DEF u, new, G, v
<1>7. CloseUpdated(db.rows, G, v) \cup new = Extend(db.rows, G, top, new)
  <2>1. v = 1 => db.rows = {}
    <3>1. top = 0 => db.versions = {}
      BY <1>2, <1>3 DEF VersionsOK, Versions
    <3> QED
      BY <1>2, <3>1 DEF RowsOK, v
  <2>2. v - 1 = top
    BY <1>2 DEF v
  <2> QED
    BY <1>1, <1>3, <1>4, <2>1, <2>2, CloseIsShut DEF Extend
<1>8. /\ retainWorkspaceFacts(db, v, replaced) \in SUBSET (Versions \X Edges)
      /\ \A f \in retainWorkspaceFacts(db, v, replaced) : f[1] = v
  <2>1. \A f \in retainWorkspaceFacts(db, v, replaced) : \E e \in Edges : f = <<v, e>>
    BY DEF retainWorkspaceFacts, EdgesAt
  <2>2. \A f \in retainWorkspaceFacts(db, v, replaced) :
          f \in Versions \X Edges /\ f[1] = v
    BY <2>1, <1>1
  <2> QED
    BY <2>2
<1>9. u \in Tables
  <2>1. /\ u.versions \in SUBSET Versions
        /\ u.rows \in SUBSET Row
        /\ u.nodes \in SUBSET (Versions \X Nodes)
        /\ u.edges \in SUBSET (Versions \X Edges)
        /\ u.lexical \in SUBSET (Versions \X LexicalItem)
    <3>1. Grown(db.rows, db.versions, top, v, Extend(db.rows, G, top, new),
                Shown(db.rows, G, top, new))
      <4>1. Growing(db.rows, db.versions, top, v, G, new)
        BY <1>1, <1>2, <1>3, <1>4, <1>5 DEF Growing, v
      <4> QED
        BY <4>1, ExtendRows
    <3>2. u.rows \in SUBSET Row
      BY <3>1, <1>6, <1>7 DEF Grown
    <3> QED
      BY <3>2, <1>1, <1>3, <1>6, <1>8
  <2> QED
    BY <2>1, <1>6 DEF Tables
<1>10. /\ FactsAdded(db.nodes, u.nodes, v)
       /\ FactsAdded(db.edges, u.edges, v)
  BY <1>6, <1>8 DEF FactsAdded
<1>11. Publishing(db, top, v, G, new, u)
  <2>1. v = top + 1
    BY DEF v
  <2> QED
    BY <2>1, <1>1, <1>2, <1>4, <1>5, <1>6, <1>7, <1>9, <1>10 DEF Publishing
<1>12. Published(db, v, u, Shown(db.rows, G, top, new), db')
  BY <1>1, <1>11, PublishTables
<1>13. Inv' /\ Current(db') = v
  <2>1. db' \in Tables /\ TablesOK(db', v)
    BY <1>12 DEF Published
  <2> QED
    BY <2>1, <1>1, InvIdle
<1> QED
  BY <1>12, <1>13 DEF v, u, G, new

-----------------------------------------------------------------------------
(* Steps of an open session.                                               *)
LEMMA InvOpen ==
  ASSUME Inv, session.open
  PROVE  /\ OpenOK /\ work \in Tables /\ session \in Session /\ db \in Tables
         /\ session.pending \in Nat \ {0}
         /\ session.pending - 1 = Current(db)
         /\ work.rows \in SUBSET Row /\ db.rows \in SUBSET Row
         /\ session.pending = 1 => db.rows = {}
         /\ \A d \in db.rows : d.from \in Nat /\ d.from < session.pending
<1>1. /\ OpenOK /\ work \in Tables /\ session \in Session /\ db \in Tables
      /\ work.rows \in SUBSET Row /\ db.rows \in SUBSET Row
  BY DEF Inv, TypeOK, SessionOK, Tables
<1>2. /\ Current(db) \in Nat /\ VersionsOK(db.versions, Current(db))
      /\ RowsOK(db.rows, db.versions, Current(db)) /\ db.versions \subseteq Nat \ {0}
  BY InvCurrent, StoreAssumption DEF TablesOK, Tables, Versions
<1>3. session.pending = Current(db) + 1
  BY <1>1 DEF OpenOK
<1>4. \A d \in db.rows : d.from \in db.versions
  BY <1>2 DEF RowsOK
<1>5. \A w \in db.versions : w <= Current(db)
  BY <1>2 DEF VersionsOK
<1> QED
  BY <1>1, <1>2, <1>3, <1>4, <1>5

(* A session call that keeps the session open and its part of the          *)
(* invariant keeps the whole.                                              *)
LEMMA InvStays ==
  ASSUME Inv, session.open, UNCHANGED db, session' \in Session, work' \in Tables,
         session'.open, OpenOK'
  PROVE  Inv'
<1>1. TypeOK' /\ SessionOK'
  BY DEF Inv, TypeOK, SessionOK
<1>2. TablesOK(db', Current(db'))
  BY DEF Inv
<1> QED
  BY <1>1, <1>2 DEF Inv

(* Closing further open rows inside the transaction: W are the rows left.  *)
ShutAgain(H, W) ==
  /\ W \in SUBSET Row
  /\ \A d \in db.rows : Shut(d, Gone \cup H, session.pending - 1) \in W
  /\ \A r \in W : \/ r.from = session.pending
                  \/ \E d \in db.rows : r = Shut(d, Gone \cup H, session.pending - 1)
  /\ \A r : r.from = session.pending => (r \in W <=> r \in work.rows)

(* Closing open rows of sources the session has not written touches none   *)
(* of its own rows.                                                        *)
LEMMA ShutMore ==
  ASSUME Inv, session.open, NEW H \in SUBSET Paths, H \cap session.written = {},
         NEW W,
         W = IF session.pending = 1 THEN work.rows
             ELSE {Shut(r, H, session.pending - 1) : r \in work.rows}
  PROVE  ShutAgain(H, W)
<1> DEFINE v == session.pending
           top == v - 1
<1>1. /\ v \in Nat \ {0} /\ v \in Versions
      /\ work.rows \in SUBSET Row /\ db.rows \in SUBSET Row
      /\ v = 1 => db.rows = {}
      /\ \A d \in db.rows : d.from \in Nat /\ d.from < v
      /\ RowsAdded
  BY InvOpen DEF OpenOK
<1>2. CASE v = 1
  <2>1. \A r \in work.rows : r.from = v
    BY <1>1, <1>2 DEF RowsAdded, Pending
  <2> QED
    BY <1>1, <1>2, <2>1 DEF ShutAgain
<1>3. CASE v > 1
  <2>1. top \in Nat \ {0} /\ top \in Versions /\ W = {Shut(r, H, top) : r \in work.rows}
    BY <1>1, <1>3, StoreAssumption DEF Versions
  <2>2. \A r \in Row : /\ Shut(r, H, top) \in Row
                       /\ Shut(r, H, top).from = r.from
                       /\ Shut(r, H, top).path = r.path
    BY <2>1 DEF Shut, Row
  <2>3. \A d \in Row : Shut(Shut(d, Gone, top), H, top) = Shut(d, Gone \cup H, top)
    BY <2>1 DEF Shut, Row, Open
  <2>4. \A d \in Row : Shut(d, Gone, top).from = d.from
    BY DEF Shut, Row
  <2>5. \A r \in work.rows : r.from = v => Shut(r, H, top) = r
    BY <1>1 DEF RowsAdded, Pending, Shut
  <2> HIDE DEF top, v
  <2>6. \A d \in db.rows : Shut(d, Gone, top) \in work.rows
    BY <1>1 DEF RowsAdded, top, v
  <2>7. \A r \in work.rows : r.from # v => \E d \in db.rows : r = Shut(d, Gone, top)
    BY <1>1 DEF RowsAdded, Pending, top, v
  <2>8. W \in SUBSET Row
    BY <1>1, <2>1, <2>2
  <2>9. \A d \in db.rows : Shut(d, Gone \cup H, top) \in W
    <3> TAKE d \in db.rows
    <3>1. Shut(Shut(d, Gone, top), H, top) = Shut(d, Gone \cup H, top)
      BY <1>1, <2>3
    <3> QED
      BY <2>1, <2>6, <3>1
  <2>10. ASSUME NEW r \in W
         PROVE  r.from = v \/ \E d \in db.rows : r = Shut(d, Gone \cup H, top)
    <3>1. PICK x \in work.rows : r = Shut(x, H, top)
      BY <2>1
    <3>2. CASE x.from = v
      BY <3>1, <3>2, <2>5
    <3>3. CASE x.from # v
      <4>1. PICK d \in db.rows : x = Shut(d, Gone, top)
        BY <3>3, <2>7
      <4>2. r = Shut(d, Gone \cup H, top)
        BY <4>1, <3>1, <2>3, <1>1
      <4> QED
        BY <4>2
    <3> QED
      BY <3>2, <3>3
  <2>11. ASSUME NEW r, r.from = v
         PROVE  r \in W <=> r \in work.rows
    <3>1. ASSUME r \in W PROVE r \in work.rows
      <4>1. PICK x \in work.rows : r = Shut(x, H, top)
        BY <2>1, <3>1
      <4>2. x.from = v
        BY <4>1, <2>11, <2>2, <1>1
      <4> QED
        BY <4>1, <4>2, <2>5
    <3>2. ASSUME r \in work.rows PROVE r \in W
      <4>1. r = Shut(r, H, top)
        BY <3>2, <2>5, <2>11
      <4> QED
        BY <3>2, <4>1, <2>1
    <3> QED
      BY <3>1, <3>2
  <2> QED
    BY <2>8, <2>9, <2>10, <2>11 DEF ShutAgain, top, v
<1> QED
  BY <1>1, <1>2, <1>3

(* BeginContributionSession keeps the invariant.                           *)
LEMMA BeginInv == ASSUME Inv, Begin PROVE Inv'
<1>1. /\ db \in Tables /\ Current(db) \in Nat /\ Current(db) + 1 \in Versions
      /\ TablesOK(db, Current(db)) /\ db.rows \in SUBSET Row
  BY InvCurrent, StoreAssumption DEF Begin, Versions, Tables
<1>2. /\ work' = db /\ db' = db /\ session' \in Session
      /\ session'.open /\ session'.pending = Current(db) + 1
      /\ session'.written = {} /\ session'.staged = {} /\ session'.buffer = {}
      /\ session'.missingClosed = FALSE
  BY <1>1 DEF Begin, ClosedSession, Session
<1>3. \A r \in db.rows : r.from # session'.pending
  <2>1. \A r \in db.rows : r.from \in db.versions
    BY <1>1 DEF TablesOK, RowsOK
  <2>2. \A w \in db.versions : w \in Nat /\ w <= Current(db)
    BY InvCurrent DEF VersionsOK
  <2> QED
    BY <1>1, <1>2, <2>1, <2>2
<1>4. Gone' = {}
  BY <1>2 DEF Gone
<1>5. \A r \in db.rows : Shut(r, Gone', session'.pending - 1) = r
  BY <1>4 DEF Shut
<1>6. RowsAdded'
  BY <1>2, <1>3, <1>5 DEF RowsAdded, Pending
<1>7. OpenOK'
  <2>1. /\ FactsAdded(db.nodes, db.nodes, session'.pending)
        /\ FactsAdded(db.edges, db.edges, session'.pending)
    BY DEF FactsAdded
  <2> QED
    BY <1>1, <1>2, <1>6, <2>1 DEF OpenOK
<1>8. TypeOK' /\ SessionOK' /\ TablesOK(db', Current(db'))
  BY <1>1, <1>2, <1>7 DEF TypeOK, SessionOK
<1> QED
  BY <1>8 DEF Inv

(* StageSource keeps the invariant: nothing was closed as missing yet.     *)
LEMMA StageSourceInv ==
  ASSUME Inv, NEW p \in Paths, StageSource(p) PROVE Inv'
<1>1. session.open /\ OpenOK /\ work \in Tables /\ session \in Session /\ ~session.sealed
  BY InvOpen DEF StageSource
<1>2. /\ work' = work /\ db' = db /\ session' \in Session
      /\ session'.open = session.open /\ session'.pending = session.pending
      /\ session'.written = session.written /\ session'.buffer = session.buffer
      /\ session'.staged = session.staged \cup {p}
      /\ session'.missingClosed = session.missingClosed
      /\ session'.sealed = session.sealed
  BY <1>1 DEF StageSource, Session
<1>3. ~session.missingClosed
  BY <1>1 DEF OpenOK
<1>4. Gone' = Gone
  BY <1>2, <1>3 DEF Gone
<1>5. OpenOK'
  <2>1. RowsAdded' <=> RowsAdded
    BY <1>2, <1>4 DEF RowsAdded, Pending
  <2> QED
    BY <1>1, <1>2, <2>1 DEF OpenOK
<1> QED
  BY <1>1, <1>2, <1>5, InvStays

(* WriteContribution keeps the invariant, whenever its batch flushes.      *)
LEMMA WriteContributionInv ==
  ASSUME Inv, NEW p \in Paths, NEW value \in Contributions, NEW deps \in Dependencies,
         WriteContribution(p, value, deps)
  PROVE  Inv'
<1> DEFINE v == session.pending
           n == [path |-> p, from |-> v, to |-> Open, value |-> value, deps |-> deps]
           closed == CloseUpdated(work.rows, {p}, v)
<1>1. /\ session.open /\ OpenOK /\ work \in Tables /\ session \in Session
      /\ ~session.sealed /\ p \in session.staged /\ p \notin session.written
      /\ v \in Nat \ {0} /\ work.rows \in SUBSET Row
  BY InvOpen DEF WriteContribution
<1>2. v \in Versions /\ n \in Row /\ RowsAdded /\ session.buffer \in SUBSET Row
  BY <1>1 DEF OpenOK, Row, Session
<1>3. NewRows([q \in {p} |-> <<value, deps>>], v) = {n}
  BY DEF NewRows
<1>4. PICK flushed \in {{}, session.buffer, session.buffer \cup {n}} :
        /\ work' = [work EXCEPT !.rows = closed \cup flushed]
        /\ session' = [session EXCEPT !.written = @ \cup {p},
                                     !.buffer = (@ \cup {n}) \ flushed]
  BY <1>3 DEF WriteContribution
<1>5. db' = db
  BY DEF WriteContribution
<1>6. ShutAgain({p}, closed)
  <2>1. closed = IF v = 1 THEN work.rows ELSE {Shut(r, {p}, v - 1) : r \in work.rows}
    BY <1>1 DEF CloseUpdated, closeContributionRecords, Shut
  <2> HIDE DEF closed
  <2> QED
    BY <1>1, <2>1, ShutMore
<1> HIDE DEF v, n, closed
<1>7. /\ work'.rows = closed \cup flushed /\ work'.versions = work.versions
      /\ work'.nodes = work.nodes /\ work'.edges = work.edges
      /\ work'.lexical = work.lexical
  BY <1>1, <1>4 DEF Tables
<1>8. /\ session'.open /\ session'.pending = v /\ session'.staged = session.staged
      /\ session'.written = session.written \cup {p}
      /\ session'.buffer = (session.buffer \cup {n}) \ flushed
      /\ session'.sealed = FALSE /\ session'.missingClosed = session.missingClosed
  BY <1>1, <1>4 DEF Session, v
<1>9. /\ flushed \in SUBSET Row
      /\ flushed \subseteq session.buffer \cup {n}
      /\ flushed \cup session'.buffer = session.buffer \cup {n} \/ flushed = {}
      /\ session'.buffer \in SUBSET Row
  BY <1>2, <1>4, <1>8
<1>10. session' \in Session /\ work' \in Tables
  <2>1. session' \in Session
    BY <1>1, <1>4, <1>8, <1>9 DEF Session
  <2>2. closed \cup flushed \in SUBSET Row
    BY <1>6, <1>9 DEF ShutAgain
  <2> QED
    BY <1>1, <1>4, <2>1, <2>2 DEF Tables
<1>11. Gone' = Gone \cup {p}
  BY <1>1, <1>8 DEF Gone
<1>12. /\ \A r \in session.buffer : r.from = v
       /\ \A r \in session.buffer \cup {n} : r.from = v
  BY <1>2 DEF RowsAdded, n, v
<1>13. Pending(work.rows)' \cup session'.buffer
         = (Pending(work.rows) \cup session.buffer) \cup {n}
  <2>1. \A r : r.from = v => (r \in closed <=> r \in work.rows)
    BY <1>6 DEF ShutAgain, v
  <2>2. Pending(work.rows)' = Pending(work.rows) \cup flushed
    BY <2>1, <1>7, <1>8, <1>9, <1>12 DEF Pending, v
  <2> QED
    BY <2>2, <1>8, <1>9
<1>14. RowsAdded'
  <2>1. \A d \in db'.rows : Shut(d, Gone', session'.pending - 1) \in work'.rows
    BY <1>5, <1>6, <1>7, <1>8, <1>11 DEF ShutAgain, v
  <2>2. \A r \in work'.rows \ Pending(work.rows)' :
          \E d \in db'.rows : r = Shut(d, Gone', session'.pending - 1)
    <3> TAKE r \in work'.rows \ Pending(work.rows)'
    <3>1. r \in work'.rows /\ r.from # v
      BY <1>8 DEF Pending
    <3>2. r \in closed
      BY <3>1, <1>7, <1>9, <1>12
    <3> QED
      BY <3>1, <3>2, <1>5, <1>6, <1>8, <1>11 DEF ShutAgain, v
  <2>3. \A r \in session'.buffer : r.from = session'.pending
    BY <1>8, <1>12
  <2> DEFINE old == Pending(work.rows) \cup session.buffer
  <2>4. /\ \A r \in old : r.to = Open /\ r.path \in session.written
        /\ \A r, s \in old : r.path = s.path => r = s
        /\ \A q \in session.written : \E r \in old : r.path = q
    BY <1>2 DEF RowsAdded
  <2>5. n.path = p /\ n.to = Open
    BY DEF n
  <2> HIDE DEF old
  <2>6. /\ \A r \in old \cup {n} : r.to = Open /\ r.path \in session'.written
        /\ \A r, s \in old \cup {n} : r.path = s.path => r = s
        /\ \A q \in session'.written : \E r \in old \cup {n} : r.path = q
    BY <1>1, <1>8, <2>4, <2>5
  <2> QED
    BY <2>1, <2>2, <2>3, <2>6, <1>13 DEF RowsAdded, old
<1>15. OpenOK'
  BY <1>1, <1>5, <1>7, <1>8, <1>14 DEF OpenOK, v
<1> QED
  BY <1>1, <1>5, <1>8, <1>10, <1>15, InvStays

(* SealContributions keeps the invariant: the batch is flushed.            *)
LEMMA SealContributionsInv == ASSUME Inv, SealContributions PROVE Inv'
<1>1. /\ session.open /\ OpenOK /\ work \in Tables /\ session \in Session /\ ~session.sealed
      /\ work.rows \in SUBSET Row /\ session.buffer \in SUBSET Row /\ RowsAdded
  BY InvOpen DEF SealContributions, Session, OpenOK
<1>2. /\ db' = db
      /\ work' = [work EXCEPT !.rows = @ \cup session.buffer]
      /\ session' = [session EXCEPT !.sealed = TRUE, !.buffer = {}]
  BY DEF SealContributions
<1>3. /\ work'.rows = work.rows \cup session.buffer /\ work'.versions = work.versions
      /\ work'.nodes = work.nodes /\ work'.edges = work.edges
      /\ work'.lexical = work.lexical
  BY <1>1, <1>2 DEF Tables
<1>4. /\ session'.open /\ session'.pending = session.pending
      /\ session'.staged = session.staged /\ session'.written = session.written
      /\ session'.buffer = {} /\ session'.sealed = TRUE
      /\ session'.missingClosed = session.missingClosed
  BY <1>1, <1>2 DEF Session
<1>5. session' \in Session /\ work' \in Tables
  BY <1>1, <1>2 DEF Session, Tables
<1>6. Gone' = Gone
  BY <1>4 DEF Gone
<1>7. \A r \in session.buffer : r.from = session.pending
  BY <1>1 DEF RowsAdded
<1>8. Pending(work.rows)' \cup session'.buffer = Pending(work.rows) \cup session.buffer
  BY <1>3, <1>4, <1>7 DEF Pending
<1>9. RowsAdded'
  <2>1. \A d \in db'.rows : Shut(d, Gone', session'.pending - 1) \in work'.rows
    BY <1>1, <1>2, <1>3, <1>4, <1>6 DEF RowsAdded
  <2>2. \A r \in work'.rows \ Pending(work.rows)' :
          \E d \in db'.rows : r = Shut(d, Gone', session'.pending - 1)
    BY <1>1, <1>2, <1>3, <1>4, <1>6, <1>7 DEF RowsAdded, Pending
  <2> QED
    BY <2>1, <2>2, <1>1, <1>4, <1>8 DEF RowsAdded
<1>10. OpenOK'
  BY <1>1, <1>2, <1>3, <1>4, <1>9 DEF OpenOK
<1> QED
  BY <1>1, <1>2, <1>4, <1>5, <1>10, InvStays

(* ReplaceContributionDependencies keeps the invariant: it edits rows of   *)
(* the pending version only.                                               *)
LEMMA ReplaceContributionDependenciesInv ==
  ASSUME Inv, NEW p \in Paths, NEW deps \in Dependencies,
         ReplaceContributionDependencies(p, deps)
  PROVE  Inv'
<1> DEFINE Edited(r) == IF r.path = p /\ r.from = session.pending
                          THEN [r EXCEPT !.deps = deps] ELSE r
           rows == {Edited(r) : r \in work.rows}
<1>1. /\ session.open /\ OpenOK /\ work \in Tables /\ session \in Session
      /\ session.buffer = {} /\ work.rows \in SUBSET Row /\ RowsAdded
      /\ db.rows \in SUBSET Row
      /\ \A d \in db.rows : d.from \in Nat /\ d.from < session.pending
      /\ session.pending \in Nat
  BY InvOpen DEF ReplaceContributionDependencies, OpenOK
<1>2. /\ db' = db /\ session' = session
      /\ work' = [work EXCEPT !.rows = rows]
  BY DEF ReplaceContributionDependencies
<1>3. \A r \in Row : /\ Edited(r) \in Row
                     /\ Edited(r).path = r.path /\ Edited(r).from = r.from
                     /\ Edited(r).to = r.to
                     /\ r.from # session.pending => Edited(r) = r
  BY DEF Row
<1> HIDE DEF Edited
<1>4. rows \in SUBSET Row
  BY <1>1, <1>3
<1>5. /\ work'.rows = rows /\ work'.versions = work.versions
      /\ work'.nodes = work.nodes /\ work'.edges = work.edges
      /\ work'.lexical = work.lexical /\ work' \in Tables
  BY <1>1, <1>2, <1>4 DEF Tables
<1>6. Gone' = Gone
  BY <1>2 DEF Gone
<1>7. RowsAdded'
  <2>1. \A d \in db'.rows : Shut(d, Gone', session'.pending - 1) \in work'.rows
    <3> TAKE d \in db'.rows
    <3> DEFINE x == Shut(d, Gone, session.pending - 1)
    <3>1. x \in work.rows
      BY <1>1, <1>2 DEF RowsAdded
    <3>2. x.from = d.from
      BY <1>1, <1>2 DEF Shut, Row
    <3> HIDE DEF x
    <3>3. d.from # session.pending
      BY <1>1, <1>2
    <3>4. Edited(x) = x
      BY <3>1, <3>2, <3>3, <1>1, <1>3
    <3>5. x \in rows
      BY <3>1, <3>4
    <3> QED
      BY <3>5, <1>2, <1>5, <1>6 DEF x
  <2>2. \A r \in work'.rows \ Pending(work.rows)' :
          \E d \in db'.rows : r = Shut(d, Gone', session'.pending - 1)
    <3> TAKE r \in work'.rows \ Pending(work.rows)'
    <3>1. PICK x \in work.rows : r = Edited(x)
      BY <1>5
    <3>2. r.from # session.pending
      BY <1>2 DEF Pending
    <3>3. x = r /\ x.from # session.pending
      BY <3>1, <3>2, <1>1, <1>3
    <3> QED
      BY <3>3, <1>1, <1>2, <1>6 DEF RowsAdded, Pending
  <2>3. ASSUME NEW r \in Pending(work.rows)'
        PROVE  \E x \in Pending(work.rows) : r = Edited(x)
    <3>1. PICK x \in work.rows : r = Edited(x)
      BY <1>5 DEF Pending
    <3> QED
      BY <3>1, <1>1, <1>2, <1>3 DEF Pending
  <2>4. \A x \in Pending(work.rows) : /\ Edited(x) \in Pending(work.rows)'
                                      /\ Edited(x).path = x.path /\ Edited(x).to = x.to
    BY <1>1, <1>2, <1>3, <1>5 DEF Pending
  <2>5. /\ \A r \in Pending(work.rows) : r.to = Open /\ r.path \in session.written
        /\ \A r, s \in Pending(work.rows) : r.path = s.path => r = s
        /\ \A q \in session.written : \E r \in Pending(work.rows) : r.path = q
    BY <1>1 DEF RowsAdded
  <2>6. /\ \A r \in Pending(work.rows)' : r.to = Open /\ r.path \in session'.written
        /\ \A r, s \in Pending(work.rows)' : r.path = s.path => r = s
    BY <2>3, <2>4, <2>5, <1>2
  <2>7. \A q \in session'.written : \E r \in Pending(work.rows)' : r.path = q
    BY <2>4, <2>5, <1>2
  <2>8. session'.buffer = {}
    BY <1>1, <1>2
  <2> QED
    BY <2>1, <2>2, <2>6, <2>7, <2>8 DEF RowsAdded
<1>8. OpenOK'
  BY <1>1, <1>2, <1>5, <1>7 DEF OpenOK
<1> QED
  BY <1>1, <1>2, <1>5, <1>8, InvStays

(* WriteWorkspaceFacts keeps the invariant.                                *)
LEMMA WriteWorkspaceFactsInv ==
  ASSUME Inv, NEW ns \in SUBSET Nodes, NEW es \in SUBSET Edges,
         WriteWorkspaceFacts(ns, es)
  PROVE  Inv'
<1>1. /\ session.open /\ OpenOK /\ work \in Tables /\ session \in Session
      /\ session.pending \in Versions
  BY InvOpen DEF WriteWorkspaceFacts, OpenOK
<1>2. /\ db' = db
      /\ work' = [work EXCEPT !.nodes = @ \cup ({session.pending} \X ns),
                              !.edges = @ \cup ({session.pending} \X es)]
      /\ session' = [session EXCEPT !.factsWritten = TRUE]
  BY DEF WriteWorkspaceFacts
<1>3. /\ work'.rows = work.rows /\ work'.versions = work.versions
      /\ work'.nodes = work.nodes \cup ({session.pending} \X ns)
      /\ work'.edges = work.edges \cup ({session.pending} \X es)
      /\ work'.lexical = work.lexical
  BY <1>1, <1>2 DEF Tables
<1>4. /\ session'.open /\ session'.pending = session.pending
      /\ session'.staged = session.staged /\ session'.written = session.written
      /\ session'.buffer = session.buffer /\ session'.sealed = session.sealed
      /\ session'.missingClosed = session.missingClosed
  BY <1>1, <1>2 DEF Session
<1>5. session' \in Session
  BY <1>1, <1>2 DEF Session
<1>6. work' \in Tables
  <2>1. /\ work.nodes \cup ({session.pending} \X ns) \in SUBSET (Versions \X Nodes)
        /\ work.edges \cup ({session.pending} \X es) \in SUBSET (Versions \X Edges)
    BY <1>1 DEF Tables
  <2> QED
    BY <2>1, <1>1, <1>2 DEF Tables
<1>7. Gone' = Gone
  BY <1>4 DEF Gone
<1>8. RowsAdded' <=> RowsAdded
  BY <1>2, <1>3, <1>4, <1>7 DEF RowsAdded, Pending
<1>9. FactsAdded(db.nodes, work'.nodes, session.pending)
      /\ FactsAdded(db.edges, work'.edges, session.pending)
  BY <1>1, <1>3 DEF OpenOK, FactsAdded
<1>10. OpenOK'
  BY <1>1, <1>2, <1>3, <1>4, <1>8, <1>9 DEF OpenOK
<1> QED
  BY <1>1, <1>2, <1>4, <1>5, <1>6, <1>10, InvStays

(* Closing the sources a session did not stage: nothing the session wrote  *)
(* is touched, and a second call changes nothing.                          *)
LEMMA CloseMissing ==
  ASSUME Inv, session.open
  PROVE  /\ ShutAgain(Paths \ session.staged, closeMissingSources(work.rows))
         /\ closeMissingSources(work.rows \cup session.buffer)
              = closeMissingSources(work.rows) \cup session.buffer
<1> DEFINE H == Paths \ session.staged
           v == session.pending
           Kept(r) == IF r.path \notin session.staged /\ r.to = Open
                        THEN [r EXCEPT !.to = v - 1] ELSE r
<1>1. /\ OpenOK /\ session \in Session /\ work.rows \in SUBSET Row /\ RowsAdded
      /\ H \in SUBSET Paths /\ H \cap session.written = {}
      /\ session.buffer \in SUBSET Row
  BY InvOpen DEF OpenOK, Session
<1>2. ShutAgain(H, closeMissingSources(work.rows))
  <2>1. CASE session.missingClosed
    <3>1. Gone \cup H = Gone
      BY <2>1 DEF Gone
    <3>2. closeMissingSources(work.rows) = work.rows
      BY <2>1 DEF closeMissingSources
    <3> HIDE DEF H
    <3>3. \A d \in db.rows : Shut(d, Gone, v - 1) \in work.rows
      BY <1>1 DEF RowsAdded
    <3>4. \A r \in work.rows : r.from = v \/ \E d \in db.rows : r = Shut(d, Gone, v - 1)
      BY <1>1 DEF RowsAdded, Pending
    <3> QED
      BY <1>1, <3>1, <3>2, <3>3, <3>4 DEF ShutAgain
  <2>2. CASE ~session.missingClosed
    <3>1. \A r \in work.rows : Kept(r) = Shut(r, H, v - 1)
      BY <1>1 DEF Shut, Row
    <3>2. closeMissingSources(work.rows) =
            IF v = 1 THEN work.rows ELSE {Kept(r) : r \in work.rows}
      BY <2>2 DEF closeMissingSources, closeContributionsMissingFromStagedSources
    <3> HIDE DEF Kept, H
    <3>3. {Kept(r) : r \in work.rows} = {Shut(r, H, v - 1) : r \in work.rows}
      BY <3>1
    <3> QED
      BY <1>1, <3>2, <3>3, ShutMore
  <2> QED
    BY <2>1, <2>2
<1>3. closeMissingSources(work.rows \cup session.buffer)
        = closeMissingSources(work.rows) \cup session.buffer
  <2>1. \A r \in session.buffer : Kept(r) = r
    BY <1>1 DEF RowsAdded, OpenOK
  <2>2. \A rows : closeMissingSources(rows) =
                    IF session.missingClosed \/ v = 1 THEN rows ELSE {Kept(r) : r \in rows}
    BY DEF closeMissingSources, closeContributionsMissingFromStagedSources
  <2> HIDE DEF Kept
  <2>3. {Kept(r) : r \in work.rows \cup session.buffer}
          = {Kept(r) : r \in work.rows} \cup session.buffer
    BY <2>1
  <2> QED
    BY <2>2, <2>3
<1> QED
  BY <1>2, <1>3

(* SealWorkspaceFacts keeps the invariant, also when called twice.         *)
LEMMA SealWorkspaceFactsInv == ASSUME Inv, SealWorkspaceFacts PROVE Inv'
<1> DEFINE H == Paths \ session.staged
           v == session.pending
           W == closeMissingSources(work.rows)
<1>1. /\ session.open /\ OpenOK /\ work \in Tables /\ session \in Session
      /\ session.sealed /\ session.buffer = {} /\ RowsAdded
  BY InvOpen DEF SealWorkspaceFacts, OpenOK
<1>2. /\ db' = db /\ work' = [work EXCEPT !.rows = W]
      /\ session' = [session EXCEPT !.missingClosed = TRUE, !.factsSealed = TRUE]
  BY DEF SealWorkspaceFacts
<1>3. ShutAgain(H, W)
  BY <1>1, CloseMissing
<1> HIDE DEF W
<1>4. /\ work'.rows = W /\ work'.versions = work.versions
      /\ work'.nodes = work.nodes /\ work'.edges = work.edges
      /\ work'.lexical = work.lexical /\ work' \in Tables
  BY <1>1, <1>2, <1>3 DEF Tables, ShutAgain
<1>5. /\ session'.open /\ session'.pending = session.pending
      /\ session'.staged = session.staged /\ session'.written = session.written
      /\ session'.buffer = {} /\ session'.sealed
      /\ session'.missingClosed = TRUE /\ session' \in Session
  BY <1>1, <1>2 DEF Session
<1>6. Gone' = Gone \cup H
  BY <1>5 DEF Gone
<1>7. Pending(work.rows)' = Pending(work.rows)
  BY <1>3, <1>4, <1>5 DEF Pending, ShutAgain
<1>8. RowsAdded'
  <2>1. \A d \in db'.rows : Shut(d, Gone', session'.pending - 1) \in work'.rows
    BY <1>2, <1>3, <1>4, <1>5, <1>6 DEF ShutAgain
  <2>2. \A r \in work'.rows \ Pending(work.rows)' :
          \E d \in db'.rows : r = Shut(d, Gone', session'.pending - 1)
    <3> TAKE r \in work'.rows \ Pending(work.rows)'
    <3>1. r \in W /\ r.from # v
      BY <1>4, <1>5 DEF Pending
    <3>2. \E d \in db.rows : r = Shut(d, Gone \cup H, v - 1)
      BY <3>1, <1>3 DEF ShutAgain
    <3> QED
      BY <3>2, <1>2, <1>5, <1>6
  <2> QED
    BY <2>1, <2>2, <1>1, <1>5, <1>7 DEF RowsAdded
<1>9. OpenOK'
  BY <1>1, <1>2, <1>4, <1>5, <1>8 DEF OpenOK
<1> QED
  BY <1>1, <1>2, <1>4, <1>5, <1>9, InvStays

(* Ending a session by rollback, failure or crash keeps the invariant.     *)
LEMMA EndSessionInv == ASSUME Inv, EndSession PROVE Inv'
<1>1. TypeOK'
  BY StoreAssumption DEF EndSession, Inv, TypeOK, NoTables, ClosedSession, Tables, Session
<1>2. SessionOK'
  BY DEF EndSession, SessionOK, ClosedSession
<1>3. TablesOK(db', Current(db'))
  BY DEF EndSession, Inv
<1> QED
  BY <1>1, <1>2, <1>3 DEF Inv

(* contributionSession.Commit keeps the invariant and publishes what the   *)
(* session staged and wrote.                                               *)
LEMMA CommitInv ==
  ASSUME Inv, Commit
  PROVE  LET v == session.pending
         IN /\ Inv' /\ Current(db') = v
            /\ Published(db, v, CommitTables,
                         Shown(db.rows,
                               session.written \cup (Paths \ session.staged),
                               Current(db), Pending(work.rows) \cup session.buffer),
                         db')
<1> DEFINE v == session.pending
           top == Current(db)
           H == Paths \ session.staged
           G == session.written \cup H
           new == Pending(work.rows) \cup session.buffer
           u == CommitTables
           W == closeMissingSources(work.rows)
<1>1. /\ session.open /\ RetentionAccepts(u, v)
      /\ db' = rebuildLexicalSnapshot(ApplyRetention(u, v), v)
      /\ work' = NoTables /\ session' = ClosedSession
  BY DEF Commit
<1>2. /\ OpenOK /\ RowsAdded /\ work \in Tables /\ db \in Tables /\ session \in Session
      /\ v \in Versions /\ v = top + 1 /\ v - 1 = top /\ top \in Nat /\ TablesOK(db, top)
      /\ work.rows \in SUBSET Row /\ session.buffer \in SUBSET Row
  BY <1>1, InvOpen, InvCurrent DEF OpenOK, Session
<1>3. G \in SUBSET Paths /\ new \in SUBSET Row
  BY <1>2 DEF Session, Pending
<1>4. NewFor(new, G, v)
  <2>1. \A r \in new : r.from = v
    BY <1>2 DEF RowsAdded, Pending
  <2> QED
    BY <1>2, <2>1 DEF RowsAdded, NewFor
<1>5. ShutAgain(H, W)
  BY <1>1, CloseMissing
<1>6. Gone \cup H = G
  BY DEF Gone
<1>7. u \in [versions : {db.versions \cup {v}}, rows : {W \cup session.buffer},
             nodes : {work.nodes}, edges : {work.edges}, lexical : {db.lexical}]
  <2>1. closeMissingSources(work.rows \cup session.buffer) = W \cup session.buffer
    BY <1>1, CloseMissing
  <2>2. work.versions = db.versions /\ work.lexical = db.lexical
    BY <1>2 DEF OpenOK
  <2> HIDE DEF W
  <2> QED
    BY <1>2, <2>1, <2>2 DEF CommitTables, Tables
<1> HIDE DEF u, W, G, H
<1>8. W \cup session.buffer = Extend(db.rows, G, top, new)
  <2>1. ASSUME NEW r \in W \cup session.buffer
        PROVE  r \in new \/ \E d \in db.rows : r = Shut(d, G, top)
    <3>1. CASE r \in session.buffer
      BY <3>1
    <3>2. CASE r \in W /\ r.from = v
      BY <3>2, <1>5 DEF ShutAgain, Pending
    <3>3. CASE r \in W /\ r.from # v
      BY <3>3, <1>2, <1>5, <1>6 DEF ShutAgain
    <3> QED
      BY <3>1, <3>2, <3>3
  <2>2. ASSUME NEW d \in db.rows
        PROVE  Shut(d, G, top) \in W
    BY <1>2, <1>5, <1>6 DEF ShutAgain
  <2>3. ASSUME NEW r \in new
        PROVE  r \in W \cup session.buffer
    BY <1>5 DEF ShutAgain, Pending
  <2> HIDE DEF new
  <2> QED
    BY <2>1, <2>2, <2>3 DEF Extend
<1>9. u \in Tables
  <2>1. W \cup session.buffer \in SUBSET Row
    BY <1>2, <1>5 DEF ShutAgain
  <2> QED
    BY <2>1, <1>2, <1>7 DEF Tables
<1>10. FactsAdded(db.nodes, u.nodes, v) /\ FactsAdded(db.edges, u.edges, v)
  BY <1>2, <1>7 DEF OpenOK
<1>11. Publishing(db, top, v, G, new, u)
  BY <1>1, <1>2, <1>3, <1>4, <1>7, <1>8, <1>9, <1>10 DEF Publishing
<1>12. Published(db, v, u, Shown(db.rows, G, top, new), db')
  BY <1>1, <1>11, PublishTables
<1>13. db' \in Tables /\ TablesOK(db', v)
  BY <1>12 DEF Published
<1>14. Current(db') = v
  <2>1. VersionsOK(db'.versions, v)
    BY <1>13 DEF TablesOK
  <2> QED
    BY <1>13, <2>1, CurrentIsTop
<1>15. TypeOK' /\ SessionOK'
  <2>1. NoTables \in Tables /\ ClosedSession \in Session
    BY StoreAssumption DEF NoTables, ClosedSession, Tables, Session
  <2> QED
    BY <2>1, <1>1, <1>13 DEF TypeOK, SessionOK, ClosedSession
<1> QED
  BY <1>12, <1>13, <1>14, <1>15 DEF Inv, u, G, H

(* A step that leaves versions and snapshots as they are.                  *)
SameSnapshots ==
  /\ db'.versions = db.versions
  /\ \A v \in db.versions : Snapshot(db', v) = Snapshot(db, v)

(* RebuildLexicalIndex keeps the invariant and every snapshot.             *)
LEMMA RebuildLexicalIndexInv ==
  ASSUME Inv, RebuildLexicalIndex PROVE Inv' /\ SameSnapshots
<1> DEFINE Items(v) == {<<r.path, r.value>> : r \in Visible(db.rows, v)} \cup NodesAt(db, v)
           Index(v) == {<<v, x>> : x \in Items(v)}
           lex == UNION {Index(v) : v \in db.versions}
<1>1. /\ db \in Tables /\ db.rows \in SUBSET Row /\ db.versions \in SUBSET Versions
      /\ ~session.open /\ db' = [db EXCEPT !.lexical = lex]
      /\ UNCHANGED <<work, session>>
  BY DEF RebuildLexicalIndex, Inv, TypeOK, Tables
<1>2. \A v : Items(v) \subseteq LexicalItem
  BY <1>1 DEF LexicalItem, Visible, Row, NodesAt
<1>3. ASSUME NEW v, NEW x
      PROVE  x \in Items(v) <=> \/ x \in NodesAt(db, v)
                                \/ \E s \in Sources(db.rows, v) : x = <<s[1], s[2]>>
  <2>1. \A s \in Sources(db.rows, v) :
          \E r \in Visible(db.rows, v) : s[1] = r.path /\ s[2] = r.value
    BY DEF Sources
  <2>2. ASSUME NEW r \in Visible(db.rows, v)
        PROVE  \E s \in Sources(db.rows, v) : s[1] = r.path /\ s[2] = r.value
    <3>1. <<r.path, r.value, r.deps>> \in Sources(db.rows, v)
      BY DEF Sources
    <3> WITNESS <<r.path, r.value, r.deps>> \in Sources(db.rows, v)
    <3> QED
      OBVIOUS
  <2> QED
    BY <2>1, <2>2
<1> HIDE DEF Items
<1>4. \A l : l \in lex <=> \E v \in db.versions : \E x \in Items(v) : l = <<v, x>>
  OBVIOUS
<1> HIDE DEF lex
<1>5. lex \in SUBSET (Versions \X LexicalItem)
  BY <1>1, <1>2, <1>4
<1>6. /\ db' \in Tables /\ db'.lexical = lex /\ db'.versions = db.versions
      /\ db'.rows = db.rows /\ db'.nodes = db.nodes /\ db'.edges = db.edges
  BY <1>1, <1>5 DEF Tables
<1>7. IndexOK(db')
  <2>1. \A v : NodesAt(db', v) = NodesAt(db, v)
    BY <1>6 DEF NodesAt
  <2>2. \A v, x : <<v, x>> \in lex <=> v \in db.versions /\ x \in Items(v)
    BY <1>4
  <2>3. ASSUME NEW v \in Versions, NEW x \in LexicalItem
        PROVE  <<v, x>> \in db'.lexical <=>
                 /\ v \in db'.versions
                 /\ \/ x \in NodesAt(db', v)
                    \/ \E s \in Sources(db'.rows, v) : x = <<s[1], s[2]>>
    <3>1. <<v, x>> \in lex <=> v \in db.versions /\ x \in Items(v)
      BY <2>2
    <3>2. x \in Items(v) <=> \/ x \in NodesAt(db, v)
                            \/ \E s \in Sources(db.rows, v) : x = <<s[1], s[2]>>
      BY <1>3
    <3> QED
      BY <3>1, <3>2, <1>6, <2>1
  <2> QED
    BY <2>3 DEF IndexOK
<1>8. TablesOK(db', Current(db))
  BY <1>6, <1>7 DEF Inv, TablesOK
<1>9. Inv'
  BY <1>1, <1>6, <1>8, InvIdle
<1>10. SameSnapshots
  BY <1>6 DEF SameSnapshots, Snapshot, NodesAt, EdgesAt
<1> QED
  BY <1>9, <1>10

(* Rolling back and pruning keep the invariant.                            *)
LEMMA RollbackInv ==
  ASSUME Inv, NEW b \in Versions, Rollback(b)
  PROVE  /\ Inv' /\ db'.versions = {u \in db.versions : u <= b}
         /\ \A u \in db'.versions : Snapshot(db', u) = Snapshot(db, u)
<1>1. /\ db \in Tables /\ Current(db) \in Nat /\ TablesOK(db, Current(db))
      /\ b \in db.versions /\ db' = rollbackVersions(db, b)
      /\ ~session.open /\ UNCHANGED <<work, session>>
  BY InvCurrent DEF Rollback
<1>2. Dropped(db, db', b) /\ db'.versions = {u \in db.versions : u <= b}
  BY <1>1, RollbackStep
<1> QED
  BY <1>1, <1>2, InvIdle DEF Dropped

(* Store.Prune keeps the invariant and the snapshots it does not drop.     *)
LEMMA PruneInv ==
  ASSUME Inv, NEW b \in Versions, Prune(b)
  PROVE  /\ Inv' /\ db'.versions = {u \in db.versions : u >= b}
         /\ \A u \in db'.versions : Snapshot(db', u) = Snapshot(db, u)
<1>1. /\ db \in Tables /\ Current(db) \in Nat /\ TablesOK(db, Current(db))
      /\ b \in db.versions /\ db' = pruneVersions(db, b)
      /\ ~session.open /\ UNCHANGED <<work, session>>
  BY InvCurrent DEF Prune
<1>2. Dropped(db, db', Current(db)) /\ db'.versions = {u \in db.versions : u >= b}
  BY <1>1, PruneStep
<1> QED
  BY <1>1, <1>2, InvIdle DEF Dropped

(* Every step keeps the invariant, and the snapshots it does not drop.     *)
Kept == \A v \in db.versions \cap db'.versions : Snapshot(db', v) = Snapshot(db, v)

(* Every writer of the store keeps the invariant and every snapshot it     *)
(* does not drop.                                                          *)
LEMMA InvNext == ASSUME Inv, [Next]_vars PROVE Inv' /\ Kept
<1>0. UNCHANGED db => Kept
  BY DEF Kept
<1>1. ASSUME NEW update \in Updates, NEW replaced \in SUBSET Paths,
             NEW ns \in SUBSET Nodes, NEW es \in SUBSET Edges,
             Publish(update, replaced, ns, es)
      PROVE  Inv' /\ Kept
  BY <1>1, PublishInv DEF Published, Kept
<1>2. ASSUME NEW v \in Versions, Rollback(v) PROVE Inv' /\ Kept
  BY <1>2, RollbackInv DEF Kept
<1>3. ASSUME NEW v \in Versions, Prune(v) PROVE Inv' /\ Kept
  BY <1>3, PruneInv DEF Kept
<1>4. CASE RebuildLexicalIndex
  BY <1>4, RebuildLexicalIndexInv DEF SameSnapshots, Kept
<1>5. CASE Begin
  BY <1>0, <1>5, BeginInv DEF Begin
<1>6. ASSUME NEW p \in Paths, StageSource(p) PROVE Inv' /\ Kept
  BY <1>0, <1>6, StageSourceInv DEF StageSource
<1>7. ASSUME NEW p \in Paths, NEW value \in Contributions, NEW deps \in Dependencies,
             WriteContribution(p, value, deps)
      PROVE  Inv' /\ Kept
  BY <1>0, <1>7, WriteContributionInv DEF WriteContribution
<1>8. CASE SealContributions
  BY <1>0, <1>8, SealContributionsInv DEF SealContributions
<1>9. ASSUME NEW p \in Paths, NEW deps \in Dependencies,
             ReplaceContributionDependencies(p, deps)
      PROVE  Inv' /\ Kept
  BY <1>0, <1>9, ReplaceContributionDependenciesInv DEF ReplaceContributionDependencies
<1>10. ASSUME NEW ns \in SUBSET Nodes, NEW es \in SUBSET Edges,
              WriteWorkspaceFacts(ns, es)
       PROVE  Inv' /\ Kept
  BY <1>0, <1>10, WriteWorkspaceFactsInv DEF WriteWorkspaceFacts
<1>11. CASE SealWorkspaceFacts
  BY <1>0, <1>11, SealWorkspaceFactsInv DEF SealWorkspaceFacts
<1>12. CASE Commit
  <2>1. Inv' /\ \A w \in db.versions : w \in db'.versions => Snapshot(db', w) = Snapshot(db, w)
    BY <1>12, CommitInv DEF Published
  <2> QED
    BY <2>1 DEF Kept
<1>13. CASE EndSession
  BY <1>0, <1>13, EndSessionInv DEF EndSession
<1>14. CASE UNCHANGED vars
  <2>1. Inv'
    <3>1. db' = db /\ work' = work /\ session' = session
      BY <1>14 DEF vars
    <3>2. TypeOK' /\ TablesOK(db', Current(db'))
      BY <3>1 DEF Inv, TypeOK
    <3>3. Gone' = Gone /\ Pending(work.rows)' = Pending(work.rows)
      BY <3>1 DEF Gone, Pending
    <3>4. RowsAdded' <=> RowsAdded
      BY <3>1, <3>3 DEF RowsAdded
    <3>5. OpenOK' <=> OpenOK
      BY <3>1, <3>4 DEF OpenOK
    <3>6. SessionOK'
      BY <3>1, <3>5 DEF Inv, SessionOK
    <3> QED
      BY <3>2, <3>6 DEF Inv
  <2> QED
    BY <1>0, <1>14, <2>1 DEF vars
<1> QED
  BY <1>1, <1>2, <1>3, <1>4, <1>5, <1>6, <1>7, <1>8, <1>9, <1>10, <1>11, <1>12,
     <1>13, <1>14 DEF Next

-----------------------------------------------------------------------------
(* The invariant holds in every reachable state.                           *)
THEOREM Invariance == Spec => []Inv
<1>1. Inv /\ [Next]_vars => Inv'
  BY InvNext
<1> QED
  BY InvInit, <1>1, PTL DEF Spec

(* Every table and session field keeps its type.                           *)
THEOREM TypeCorrect == Spec => []TypeOK
<1>1. Inv => TypeOK
  BY DEF Inv
<1> QED
  BY <1>1, Invariance, PTL

(* A snapshot shows every source at most once.                             *)
THEOREM OneRowPerSourceAlways == Spec => []OneRowPerSource
<1>1. Inv => OneRowPerSource
  <2> SUFFICES ASSUME Inv, NEW v \in db.versions,
                      NEW r \in Visible(db.rows, v), NEW s \in Visible(db.rows, v),
                      r.path = s.path
               PROVE  r = s
    BY DEF OneRowPerSource
  <2>1. r \in db.rows /\ s \in db.rows /\ db.rows \in SUBSET Row /\ v \in Nat
    BY StoreAssumption DEF Visible, Inv, TypeOK, Tables, Versions
  <2>2. r = s \/ Apart(r, s) \/ Apart(s, r)
    BY <2>1 DEF Inv, TablesOK, RowsOK
  <2>3. /\ r.from \in Nat /\ r.to \in Nat /\ s.from \in Nat /\ s.to \in Nat
    BY <2>1, StoreAssumption DEF Row, Versions, Open
  <2>4. ~Apart(r, s) /\ ~Apart(s, r)
    BY <2>1, <2>3 DEF Apart, Visible
  <2> QED
    BY <2>2, <2>4
<1> QED
  BY <1>1, Invariance, PTL

(* The published versions are consecutive and within the retention.        *)
THEOREM RetainedWindowAlways == Spec => []RetainedWindow
<1>1. Inv => RetainedWindow
  BY InvCurrent DEF RetainedWindow, VersionsOK
<1> QED
  BY <1>1, Invariance, PTL

(* A published snapshot never changes.                                     *)
THEOREM SnapshotsNeverChange == Spec => SnapshotsImmutable
<1>1. Inv /\ [Next]_vars =>
        [\A v \in db.versions \cap db'.versions : Snapshot(db', v) = Snapshot(db, v)]_vars
  BY InvNext DEF Kept
<1> QED
  BY <1>1, Invariance, PTL DEF Spec, SnapshotsImmutable

(* Every stored row belongs to a published version.                        *)
THEOREM NoOrphanRowsAlways == Spec => []NoOrphanRows
<1>1. Inv => NoOrphanRows
  <2> SUFFICES ASSUME Inv PROVE NoOrphanRows
    OBVIOUS
  <2>1. ASSUME NEW r \in db.rows
        PROVE  r.from \in db.versions /\ r \in Visible(db.rows, r.from)
    <3>1. /\ r.from \in db.versions /\ r.from \in Nat /\ r.to \in Nat
          /\ r.to = Open \/ r.from <= r.to
      BY StoreAssumption
      DEF Inv, TypeOK, Tables, TablesOK, RowsOK, Row, Versions, Open
    <3> QED
      BY <3>1 DEF Visible
  <2>2. FactsOK(db.nodes, db.versions) /\ FactsOK(db.edges, db.versions)
    BY DEF Inv, TablesOK
  <2> QED
    BY <2>1, <2>2 DEF NoOrphanRows, FactsOK
<1> QED
  BY <1>1, Invariance, PTL

(* The interval tables are sound in every reachable state (sqlite.go       *)
(* publish, Store.Rollback, pruneVersions).                                *)
THEOREM TablesSoundAlways == Spec => []TablesSound
BY TypeCorrect, OneRowPerSourceAlways, RetainedWindowAlways, NoOrphanRowsAlways, PTL
DEF TablesSound

(* Search sees the graph of every published version and nothing else.      *)
THEOREM LexicalAgreesAlways == Spec => []LexicalAgrees
<1>1. Inv => LexicalAgrees
  <2> SUFFICES ASSUME Inv PROVE LexicalAgrees
    OBVIOUS
  <2>1. db \in Tables /\ IndexOK(db) /\ db.versions \subseteq Versions
        /\ db.rows \in SUBSET Row
    BY DEF Inv, TypeOK, TablesOK, Tables
  <2>2. ASSUME NEW v \in db.versions
        PROVE  LexicalAt(db, v) = {<<s[1], s[2]>> : s \in Sources(db.rows, v)}
                                    \cup NodesAt(db, v)
    <3> DEFINE shown == {<<s[1], s[2]>> : s \in Sources(db.rows, v)} \cup NodesAt(db, v)
    <3>1. \A s \in Sources(db.rows, v) : <<s[1], s[2]>> \in LexicalItem
      BY <2>1 DEF Sources, Visible, Row, LexicalItem
    <3>2. shown \subseteq LexicalItem
      BY <3>1 DEF NodesAt, LexicalItem
    <3>3. \A x \in LexicalItem : x \in LexicalAt(db, v) <=> <<v, x>> \in db.lexical
      BY DEF LexicalAt
    <3>4. \A x \in LexicalItem : <<v, x>> \in db.lexical <=> x \in shown
      BY <2>1 DEF IndexOK
    <3>5. LexicalAt(db, v) \subseteq LexicalItem
      BY DEF LexicalAt
    <3> HIDE DEF shown
    <3>6. LexicalAt(db, v) = shown
      BY <3>2, <3>3, <3>4, <3>5
    <3> QED
      BY <3>6 DEF shown
  <2>3. \A l \in db.lexical : l[1] \in db.versions
    BY <2>1, IndexVersions
  <2> QED
    BY <2>2, <2>3 DEF LexicalAgrees
<1> QED
  BY <1>1, Invariance, PTL

(* After the seal, the session's own reads see what it wrote, once, and    *)
(* the prior rows of what it staged but did not write.                     *)
THEOREM SealedSessionReadsAlways == Spec => []SealedSessionReads
<1>1. Inv => SealedSessionReads
  <2> SUFFICES ASSUME Inv, session.sealed PROVE SealedSessionReads
    BY DEF SealedSessionReads
  <2> DEFINE v == session.pending
             top == v - 1
  <2>1. session.open
    BY DEF Inv, SessionOK, ClosedSession
  <2>2. /\ RowsAdded /\ session.buffer = {} /\ session.written \subseteq session.staged
        /\ v \in Nat \ {0} /\ top = Current(db) /\ session \in Session
        /\ work.rows \in SUBSET Row /\ db.rows \in SUBSET Row
        /\ v = 1 => db.rows = {}
        /\ \A d \in db.rows : d.from \in Nat /\ d.from < v
    BY <2>1, InvOpen DEF OpenOK
  <2>3. \A d \in db.rows : d.to \in Nat /\ (d.to = Open \/ d.to < top)
    BY <2>2, StoreAssumption DEF Inv, TablesOK, RowsOK, Row, Versions, Open
  <2>4. ASSUME NEW p \in session.written
        PROVE  \E r \in work.rows :
                 {q \in Visible(work.rows, v) : q.path = p} = {r} /\ r.from = v
    <3>1. PICK r \in Pending(work.rows) : r.path = p
      BY <2>2 DEF RowsAdded
    <3>2. r \in work.rows /\ r.from = v /\ r.to = Open
      BY <2>2 DEF RowsAdded, Pending
    <3>3. r \in Visible(work.rows, v)
      BY <2>2, <3>2 DEF Visible
    <3>4. ASSUME NEW q \in Visible(work.rows, v), q.path = p
          PROVE  q = r
      <4>1. q \in work.rows
        BY DEF Visible
      <4>2. CASE q.from = v
        BY <2>2, <3>1, <3>4, <4>1, <4>2 DEF RowsAdded, Pending
      <4>3. CASE q.from # v
        <5>1. PICK d \in db.rows : q = Shut(d, Gone, top)
          BY <2>2, <4>1, <4>3 DEF RowsAdded, Pending
        <5>2. d \in Row /\ d.path = p /\ p \in Gone
          BY <2>2, <3>4, <5>1 DEF Shut, Row, Gone
        <5>3. top \in Nat \ {0}
          BY <2>2
        <5>4. q.to \in Nat \ {0} /\ q.to <= top
          <6>1. CASE d.to = Open
            <7>1. q = [d EXCEPT !.to = top]
              BY <5>1, <5>2, <6>1 DEF Shut
            <7>2. q.to = top
              BY <5>2, <7>1 DEF Row
            <7> QED
              BY <5>3, <7>2
          <6>2. CASE d.to # Open
            <7>1. q = d
              BY <5>1, <6>2 DEF Shut
            <7> QED
              BY <2>3, <5>3, <6>2, <7>1 DEF Open
          <6> QED
            BY <6>1, <6>2
        <5> QED
          BY <2>2, <5>4 DEF Visible, Open
      <4> QED
        BY <4>2, <4>3
    <3>5. {q \in Visible(work.rows, v) : q.path = p} = {r}
      BY <3>1, <3>3, <3>4
    <3> QED
      BY <3>2, <3>5
  <2>5. ASSUME NEW r \in Visible(db.rows, Current(db)),
               r.path \in session.staged \ session.written
        PROVE  r \in Visible(work.rows, v)
    <3>1. r \in db.rows /\ r.to = Open /\ r.from \in Nat /\ r.from < v
      <4>1. r \in db.rows /\ (r.to = Open \/ r.to >= Current(db))
        BY DEF Visible
      <4>2. r.to \in Nat /\ (r.to = Open \/ r.to < Current(db))
        BY <2>2, <2>3, <4>1
      <4>3. Current(db) \in Nat
        BY InvCurrent
      <4> QED
        BY <2>2, <4>1, <4>2, <4>3
    <3>2. r.path \notin Gone
      BY <2>5 DEF Gone
    <3>3. Shut(r, Gone, top) = r
      BY <3>2 DEF Shut
    <3>4. r \in work.rows
      BY <2>2, <3>1, <3>3 DEF RowsAdded
    <3> QED
      BY <2>2, <3>1, <3>4 DEF Visible
  <2> QED
    BY <2>4, <2>5 DEF SealedSessionReads
<1> QED
  BY <1>1, Invariance, PTL

-----------------------------------------------------------------------------
(* The history of snapshots readers rely on.                               *)
LEMMA HistoryLatest == History!Latest = Current(db)
  BY DEF History!Latest, Current

(* A publication starts from the snapshot of the current version.          *)
LEMMA HistoryBase ==
  ASSUME Inv
  PROVE  /\ History!Base.sources = Sources(db.rows, Current(db))
         /\ History!Base.edges = EdgesAt(db, Current(db))
<1>1. CASE db.versions = {}
  <2>1. db.rows = {} /\ db.edges = {}
    BY <1>1 DEF Inv, TablesOK, RowsOK, FactsOK
  <2>2. Sources(db.rows, Current(db)) = {} /\ EdgesAt(db, Current(db)) = {}
    BY <2>1 DEF Sources, Visible, EdgesAt
  <2>3. History!Base = History!NoSnapshot
    BY <1>1 DEF History!Base
  <2> QED
    BY <2>2, <2>3 DEF History!NoSnapshot
<1>2. CASE db.versions # {}
  <2>1. Current(db) \in db.versions
    BY <1>2, InvCurrent DEF VersionsOK
  <2>2. History!Base = Snapshot(db, Current(db))
    BY <1>2, <2>1, HistoryLatest DEF History!Base
  <2> QED
    BY <2>2 DEF Snapshot
<1> QED
  BY <1>1, <1>2

(* A publication appends one snapshot to the history.                      *)
LEMMA HistoryAppend ==
  ASSUME Inv, NEW v, NEW u, NEW shown, Published(db, v, u, shown, db'),
         v = Current(db) + 1, v <= MaxVersion
  PROVE  History!Append([sources |-> shown, nodes |-> NodesAt(u, v),
                         edges |-> EdgesAt(u, v)])
<1> DEFINE snapshot == [sources |-> shown, nodes |-> NodesAt(u, v), edges |-> EdgesAt(u, v)]
           kept == {w \in db.versions \cup {v} : w + Retained > v}
<1>1. /\ db'.versions = kept
      /\ \A w \in db.versions : w \in kept => Snapshot(db', w) = Snapshot(db, w)
      /\ Snapshot(db', v) = snapshot
  BY DEF Published
<1>2. v \notin db.versions
  BY InvCurrent DEF VersionsOK
<1> HIDE DEF snapshot
<1>3. \A w \in kept : Snapshot(db', w) =
                        IF w = v THEN snapshot ELSE [x \in db.versions |-> Snapshot(db, x)][w]
  BY <1>1
<1>4. [w \in db'.versions |-> Snapshot(db', w)] =
        [w \in kept |-> IF w = v THEN snapshot
                                 ELSE [x \in db.versions |-> Snapshot(db, x)][w]]
  BY <1>1, <1>3
<1> QED
  BY <1>4, HistoryLatest DEF History!Append, snapshot

(* Store.publish is a Publish of the history.                              *)
LEMMA HistoryPublish ==
  ASSUME Inv, NEW update \in Updates, NEW replaced \in SUBSET Paths,
         NEW ns \in SUBSET Nodes, NEW es \in SUBSET Edges,
         Publish(update, replaced, ns, es)
  PROVE  History!Publish(update, replaced, ns, es)
<1> DEFINE top == Current(db)
           v == top + 1
           u == storePreparedPublication(db, v, update, replaced, ns, es)
           new == NewRows(update, v)
<1>1. Published(db, v, u, Shown(db.rows, DOMAIN update, top, new), db')
  BY PublishInv
<1>2. /\ v <= MaxVersion /\ top \in Nat /\ db \in Tables
      /\ \A w \in db.versions : w \in Nat /\ w <= top
      /\ FactsOK(db.nodes, db.versions) /\ FactsOK(db.edges, db.versions)
  BY InvCurrent DEF Publish, VersionsOK, TablesOK
<1>3. Shown(db.rows, DOMAIN update, top, new) =
        {s \in History!Base.sources : s[1] \notin DOMAIN update}
          \cup History!Contributed(update)
  <2>1. {<<r.path, r.value, r.deps>> : r \in new} = History!Contributed(update)
    <3>1. \A r \in new : \E p \in DOMAIN update :
            r = [path |-> p, from |-> v, to |-> Open,
                 value |-> update[p][1], deps |-> update[p][2]]
      BY DEF NewRows
    <3>2. \A p \in DOMAIN update :
            [path |-> p, from |-> v, to |-> Open,
             value |-> update[p][1], deps |-> update[p][2]] \in new
      BY DEF NewRows
    <3> HIDE DEF new
    <3>3. ASSUME NEW s \in {<<r.path, r.value, r.deps>> : r \in new}
          PROVE  s \in History!Contributed(update)
      BY <3>1 DEF History!Contributed
    <3>4. ASSUME NEW p \in DOMAIN update
          PROVE  <<p, update[p][1], update[p][2]>> \in {<<r.path, r.value, r.deps>> : r \in new}
      <4>1. PICK r \in new : r = [path |-> p, from |-> v, to |-> Open,
                                  value |-> update[p][1], deps |-> update[p][2]]
        BY <3>2
      <4>2. <<p, update[p][1], update[p][2]>> = <<r.path, r.value, r.deps>>
        BY <4>1
      <4> QED
        BY <4>2
    <3> QED
      BY <3>3, <3>4 DEF History!Contributed
  <2> HIDE DEF new
  <2> QED
    BY <2>1, HistoryBase DEF Shown
<1>4. u.nodes = db.nodes \cup ({v} \X ns) /\
      u.edges = db.edges \cup retainWorkspaceFacts(db, v, replaced) \cup ({v} \X es)
  BY <1>2 DEF storePreparedPublication, Tables
<1>5. /\ \A f \in db.nodes : f[1] # v
      /\ \A f \in db.edges : f[1] # v
  BY <1>2 DEF FactsOK
<1> HIDE DEF u
<1>6. NodesAt(u, v) = ns
  <2>1. \A n \in Nodes : <<v, n>> \in u.nodes <=> n \in ns
    BY <1>4, <1>5
  <2> QED
    BY <2>1 DEF NodesAt
<1>7. EdgesAt(u, v) = es \cup {e \in History!Base.edges : /\ replaced # {}
                                                        /\ Owner[e] \notin replaced}
  <2>1. \A e : <<v, e>> \in retainWorkspaceFacts(db, v, replaced) <=>
                 e \in EdgesAt(db, top) /\ replaced # {} /\ Owner[e] \notin replaced
    <3>1. v - 1 = top /\ (v <= 1 <=> top = 0)
      BY <1>2
    <3>2. top = 0 => EdgesAt(db, top) = {}
      <4>1. top = 0 => db.edges = {}
        BY <1>2, StoreAssumption DEF FactsOK, Tables, Versions
      <4> QED
        BY <4>1 DEF EdgesAt
    <3> HIDE DEF v, top
    <3> QED
      BY <3>1, <3>2 DEF retainWorkspaceFacts
  <2>2. \A e \in Edges : <<v, e>> \in u.edges <=>
          e \in es \/ <<v, e>> \in retainWorkspaceFacts(db, v, replaced)
    BY <1>4, <1>5
  <2>3. EdgesAt(db, top) \subseteq Edges
    BY DEF EdgesAt
  <2>4. \A e : e \in EdgesAt(u, v) <=> e \in Edges /\ <<v, e>> \in u.edges
    BY DEF EdgesAt
  <2> HIDE DEF v
  <2> QED
    BY <2>1, <2>2, <2>3, <2>4, HistoryBase
<1>8. History!Append([sources |-> Shown(db.rows, DOMAIN update, top, new),
                      nodes |-> NodesAt(u, v), edges |-> EdgesAt(u, v)])
  BY <1>1, <1>2, HistoryAppend
<1> HIDE DEF new, v, top
<1>9. ~session.open /\ UNCHANGED session
  BY DEF Publish
<1> QED
  BY <1>3, <1>6, <1>7, <1>8, <1>9 DEF History!Publish

(* contributionSession.Commit is a Replace of the history.                 *)
LEMMA HistoryCommit ==
  ASSUME Inv, Commit
  PROVE  \E update \in History!Updates, ns \in SUBSET Nodes, es \in SUBSET Edges :
           History!Replace(update, ns, es)
<1> DEFINE v == session.pending
           top == Current(db)
           staged == session.staged
           written == session.written
           G == written \cup (Paths \ staged)
           new == Pending(work.rows) \cup session.buffer
           Of(p) == CHOOSE r \in new : r.path = p
           update == [p \in written |-> <<Of(p).value, Of(p).deps>>]
           u == CommitTables
<1>1. Published(db, v, u, Shown(db.rows, G, top, new), db')
  BY CommitInv
<1>2. /\ session.open /\ OpenOK /\ RowsAdded /\ session \in Session
      /\ db \in Tables /\ db.rows \in SUBSET Row /\ work.rows \in SUBSET Row
      /\ v = top + 1 /\ v <= MaxVersion /\ top \in Nat
  <2>1. session.open
    BY DEF Commit
  <2> QED
    BY <2>1, InvOpen, InvCurrent, StoreAssumption DEF OpenOK, Versions
<1>3. /\ staged \in SUBSET Paths /\ written \subseteq staged
      /\ new \in SUBSET Row
  BY <1>2 DEF Session, OpenOK, Pending
<1>4. /\ \A r \in new : r.path \in written
      /\ \A r, s \in new : r.path = s.path => r = s
      /\ \A p \in written : \E r \in new : r.path = p
  BY <1>2 DEF RowsAdded
<1> HIDE DEF new
<1>5. \A p \in written : Of(p) \in new /\ Of(p).path = p
  BY <1>4
<1>6. \A r \in new : Of(r.path) = r
  BY <1>4, <1>5
<1> HIDE DEF Of
<1>7. update \in History!Updates
  <2>1. \A p \in written : <<Of(p).value, Of(p).deps>> \in Contributions \X Dependencies
    BY <1>3, <1>5 DEF Row
  <2>2. update \in [written -> Contributions \X Dependencies]
    BY <2>1
  <2> QED
    BY <1>3, <2>2 DEF History!Updates
<1>8. {<<r.path, r.value, r.deps>> : r \in new} = History!Contributed(update)
  <2>1. ASSUME NEW r \in new
        PROVE  /\ r.path \in DOMAIN update
               /\ <<r.path, r.value, r.deps>>
                    = <<r.path, update[r.path][1], update[r.path][2]>>
    BY <1>4, <1>6
  <2>2. ASSUME NEW p \in DOMAIN update
        PROVE  \E r \in new : <<p, update[p][1], update[p][2]>>
                                = <<r.path, r.value, r.deps>>
    BY <1>5
  <2> HIDE DEF update
  <2> QED
    BY <2>1, <2>2 DEF History!Contributed
<1>9. {s \in Sources(db.rows, top) : s[1] \notin G}
        = {s \in History!Base.sources : s[1] \in staged \ written}
  <2>1. \A s \in Sources(db.rows, top) : s[1] \in Paths
    BY <1>2 DEF Sources, Visible, Row
  <2>2. \A s \in Sources(db.rows, top) : s[1] \notin G <=> s[1] \in staged \ written
    BY <1>3, <2>1
  <2> HIDE DEF G
  <2> QED
    BY <2>2, HistoryBase
<1>10. Shown(db.rows, G, top, new) =
         {s \in History!Base.sources : s[1] \in staged \ written}
           \cup History!Contributed(update)
  BY <1>8, <1>9 DEF Shown
<1>11. NodesAt(u, v) \in SUBSET Nodes /\ EdgesAt(u, v) \in SUBSET Edges
  BY DEF NodesAt, EdgesAt
<1>12. History!Append([sources |-> Shown(db.rows, G, top, new),
                       nodes |-> NodesAt(u, v), edges |-> EdgesAt(u, v)])
  <2> HIDE DEF u, G, v
  <2>1. v = Current(db) + 1 /\ v <= MaxVersion
    BY <1>2
  <2> QED
    BY <1>1, <2>1, HistoryAppend
<1>13. History!Replace(update, NodesAt(u, v), EdgesAt(u, v))
  <2>1. session.open /\ session' = ClosedSession
    BY DEF Commit
  <2>2. DOMAIN update = session.written
    OBVIOUS
  <2> HIDE DEF update, u, G
  <2> QED
    BY <1>10, <1>12, <2>1, <2>2 DEF History!Replace, History!NoDraft, ClosedSession
<1> HIDE DEF update, u, v
<1> QED
  BY <1>7, <1>11, <1>13

(* The tables, closed, reopened, rebased and pruned as they are, implement *)
(* the history: every step is a step of GraphHistory or leaves it alone.   *)
THEOREM Refinement == Spec => ImplementsHistory
<1> DEFINE h == [v \in db.versions |-> Snapshot(db, v)]
           d == [open |-> session.open, staged |-> session.staged,
                 written |-> session.written]
<1>1. Init => History!Init
  BY DEF Init, NoTables, ClosedSession, History!Init, History!NoDraft
<1>2. ASSUME Inv, [Next]_vars
      PROVE  History!Next \/ UNCHANGED <<h, d>>
  <2>0. /\ UNCHANGED db => UNCHANGED h
        /\ UNCHANGED session => UNCHANGED d
    OBVIOUS
  <2>a. session \in Session
    BY <1>2 DEF Inv, TypeOK
  <2>1. ASSUME NEW update \in Updates, NEW replaced \in SUBSET Paths,
               NEW ns \in SUBSET Nodes, NEW es \in SUBSET Edges,
               Publish(update, replaced, ns, es)
        PROVE  History!Next
    <3>1. History!Publish(update, replaced, ns, es)
      BY <1>2, <2>1, HistoryPublish
    <3>2. update \in History!Updates
      BY DEF Updates, History!Updates
    <3> QED
      BY <3>1, <3>2 DEF History!Next
  <2>2. ASSUME NEW b \in Versions, Rollback(b) PROVE History!Next
    <3>1. /\ b \in db.versions /\ db'.versions = {w \in db.versions : w <= b}
          /\ \A w \in db'.versions : Snapshot(db', w) = Snapshot(db, w)
      BY <1>2, <2>2, RollbackInv DEF Rollback
    <3>2. h' = [w \in {x \in db.versions : x <= b} |-> h[w]]
      BY <3>1
    <3>3. History!Rollback(b)
      BY <2>2, <3>1, <3>2 DEF History!Rollback, Rollback
    <3> QED
      BY <3>3 DEF History!Next, Versions
  <2>3. ASSUME NEW b \in Versions, Prune(b) PROVE History!Next
    <3>1. /\ b \in db.versions /\ db'.versions = {w \in db.versions : w >= b}
          /\ \A w \in db'.versions : Snapshot(db', w) = Snapshot(db, w)
      BY <1>2, <2>3, PruneInv DEF Prune
    <3>2. h' = [w \in {x \in db.versions : x >= b} |-> h[w]]
      BY <3>1
    <3>3. History!Prune(b)
      BY <2>3, <3>1, <3>2 DEF History!Prune, Prune
    <3> QED
      BY <3>3 DEF History!Next, Versions
  <2>4. CASE RebuildLexicalIndex
    BY <1>2, <2>4, RebuildLexicalIndexInv DEF SameSnapshots, RebuildLexicalIndex
  <2>5. CASE Commit
    BY <1>2, <2>5, HistoryCommit DEF History!Next
  <2>6. CASE Begin
    <3>1. ~session.open /\ UNCHANGED h
      BY <2>0, <2>6 DEF Begin
    <3>2. session'.open = TRUE /\ session'.staged = {} /\ session'.written = {}
      BY <2>6 DEF Begin, ClosedSession
    <3>3. d' = [open |-> TRUE, staged |-> {}, written |-> {}]
      BY <3>2, Zenon
    <3>4. History!OpenDraft
      BY <3>1, <3>3 DEF History!OpenDraft
    <3> QED
      BY <3>4 DEF History!Next
  <2>7. CASE EndSession
    <3>1. History!Abandon
      BY <2>0, <2>7 DEF EndSession, ClosedSession, History!Abandon, History!NoDraft
    <3> QED
      BY <3>1 DEF History!Next
  <2>8. ASSUME NEW p \in Paths, StageSource(p) PROVE History!Next
    <3>1. session.open /\ p \notin session.staged /\ UNCHANGED h
      BY <2>0, <2>8 DEF StageSource
    <3>2. /\ session'.open = session.open /\ session'.written = session.written
          /\ session'.staged = session.staged \cup {p}
      BY <2>8, <2>a DEF StageSource, Session
    <3>3. d' = [d EXCEPT !.staged = @ \cup {p}]
      BY <3>2
    <3>4. History!Stage(p)
      BY <3>1, <3>3 DEF History!Stage
    <3> QED
      BY <3>4 DEF History!Next
  <2>9. ASSUME NEW p \in Paths, NEW value \in Contributions, NEW deps \in Dependencies,
               WriteContribution(p, value, deps)
        PROVE  History!Next
    <3>1. session.open /\ p \in session.staged \ session.written /\ UNCHANGED h
      BY <2>0, <2>9 DEF WriteContribution
    <3>2. /\ session'.open = session.open /\ session'.staged = session.staged
          /\ session'.written = session.written \cup {p}
      BY <2>9, <2>a DEF WriteContribution, Session
    <3>3. d' = [d EXCEPT !.written = @ \cup {p}]
      BY <3>2
    <3>4. History!Write(p)
      BY <3>1, <3>3 DEF History!Write
    <3> QED
      BY <3>4 DEF History!Next
  <2>10. CASE SealContributions \/ SealWorkspaceFacts \/ UNCHANGED vars
    BY <2>0, <2>10, <2>a
    DEF SealContributions, SealWorkspaceFacts, Session, vars
  <2>11. ASSUME NEW p \in Paths, NEW deps \in Dependencies,
                ReplaceContributionDependencies(p, deps)
         PROVE  UNCHANGED <<h, d>>
    BY <2>0, <2>11 DEF ReplaceContributionDependencies
  <2>12. ASSUME NEW ns \in SUBSET Nodes, NEW es \in SUBSET Edges,
                WriteWorkspaceFacts(ns, es)
         PROVE  UNCHANGED <<h, d>>
    BY <2>0, <2>12, <2>a DEF WriteWorkspaceFacts, Session
  <2> HIDE DEF h, d
  <2> QED
    BY <1>2, <2>1, <2>2, <2>3, <2>4, <2>5, <2>6, <2>7, <2>8, <2>9, <2>10, <2>11, <2>12
    DEF Next
<1> HIDE DEF h, d
<1>3. Inv /\ [Next]_vars => [History!Next]_<<h, d>>
  BY <1>2
<1> QED
  BY <1>1, <1>3, Invariance, PTL DEF Spec, ImplementsHistory, History!Spec, h, d
=============================================================================
