------------------------- MODULE GraphUpkeep_proofs -------------------------
(***************************************************************************)
(* Proofs about what is done to the whole graph beside its writers:        *)
(* PartitionMoves, for any sources, nodes and partitions, and              *)
(* GraphPruning, for any nodes, claims, ages and thresholds.               *)
(***************************************************************************)
EXTENDS PartitionMoves, GraphPruning, TLAPS

-----------------------------------------------------------------------------
(* The migration: its inductive invariant.                                 *)

Places == Keys \union {Null}

\* Rows of sources, of nodes and of mappings.
Rows == {Absent} \union [there : {TRUE}, part : Places, node : NodeIds]
Spots == {Absent, Gone} \union [there : {TRUE}, part : Places, shows : Origins \union {Null}]
Maps == {NoMap, [state |-> "pending"]} \union [state : {"completed", "quarantined"}, to : NodeIds]

Transactions ==
    [kind : {"write", "move", "reuse", "split"}, source : Origins, part : Places,
     node : NodeIds, from : NodeIds \union {Null}, made : BOOLEAN, checked : BOOLEAN]

MigrationTypes ==
    /\ migration \in {"unmigrated", "migrating", "migrated"} /\ known \in BOOLEAN
    /\ origin \in [Origins -> Rows] /\ place \in [NodeIds -> Spots]
    /\ mapping \in [NodeIds -> [Keys -> Maps]]
    /\ open \subseteq Transactions /\ blind \subseteq Origins /\ turns \in 0 .. MaxTurns

\* A source there is about a node that is there.
Grounded == \A s \in Origins : origin[s].there => place[origin[s].node].there

\* A source is in one transaction at a time.
OneEach == \A t, u \in open : t.source = u.source => t = u

\* What a transaction is about stays what it read: the row of its source, and
\* its node, unless the node is made by it and nobody else's.
Standing(t) ==
    /\ t.kind = "write" <=> ~origin[t.source].there
    /\ t.kind # "write" => origin[t.source].node = t.from /\ t.part \in Keys
    /\ t.kind = "write" => t.from = Null
    /\ t.kind = "move" => t.node = t.from
    /\ t.kind = "split" => t.made
    /\ t.kind \in {"move", "reuse"} => ~t.made
    /\ t.made => place[t.node] = Absent /\ \A u \in open : u.node = t.node => u = t
    /\ ~t.made => place[t.node].there
    /\ t.kind = "reuse" => place[t.node].part = t.part

\* What its triggers have seen still holds, unless another committed blindly.
StillSeen(t) ==
    t.checked =>
        /\ t.kind = "write" /\ ~t.made => place[t.node].part = t.part \/ t.source \in blind
        /\ t.kind = "move" => \A other \in Supports(t.node) \ {t.source} :
                                  origin[other].part = t.part \/ other \in blind
        /\ t.part = Null /\ migration # "unmigrated" => t.source \in blind

\* A mapping is from a node that was there, and a finished one to such a node.
Mapped ==
    \A n \in NodeIds, k \in Keys :
        /\ mapping[n][k].state = "completed" => place[mapping[n][k].to] # Absent
        /\ place[n] = Absent => mapping[n][k] = NoMap

\* A user nobody has heard of has nothing.
Unheard == ~known => /\ open = {} /\ LiveNodes = {}
                     /\ \A s \in Origins : ~origin[s].there

\* After the migration, what is still outside the partitions is one source that
\* was committed blindly with a node of its own, which nobody else can reach.
Leftover ==
    migration = "migrated" =>
        /\ \A s \in Origins : origin[s].there /\ origin[s].part = Null => s \in blind
        /\ \A n \in LiveNodes : place[n].part = Null =>
              /\ \A k \in Keys : mapping[n][k] = NoMap
              /\ \E s \in blind : Supports(n) = {s}
              /\ \A t \in open : t.node = n \/ t.from = n => t.kind = "move"

PartitionInv ==
    /\ MigrationTypes /\ Grounded /\ OneEach /\ Mapped /\ Unheard /\ Leftover
    /\ NothingCrosses /\ SplitsLeadHome
    /\ \A t \in open : Standing(t) /\ StillSeen(t)

-----------------------------------------------------------------------------
(* Rows.                                                                   *)

USE PartitionAssumption DEF PartitionAssumption

\* What a row of sources looks like; no row has no partition and no node.
LEMMA RowShapes ==
    /\ \A r \in Rows : /\ r.there => r.part \in Places /\ r.node \in NodeIds
                       /\ r.there \in BOOLEAN
                       /\ ~r.there => r = Absent
    /\ \A k \in Places, n \in NodeIds :
          /\ About(k, n) \in Rows /\ About(k, n).there
          /\ About(k, n).part = k /\ About(k, n).node = n
    /\ Absent \in Rows /\ ~Absent.there
<1>1. ASSUME NEW r \in Rows
      PROVE  /\ r.there => r.part \in Places /\ r.node \in NodeIds
             /\ r.there \in BOOLEAN
             /\ ~r.there => r = Absent
  <2>1. CASE r = Absent
    BY <2>1 DEF Absent
  <2>2. CASE r \in [there : {TRUE}, part : Places, node : NodeIds]
    BY <2>2
  <2>. QED BY <2>1, <2>2 DEF Rows
<1>2. ASSUME NEW k \in Places, NEW n \in NodeIds
      PROVE  /\ About(k, n) \in Rows /\ About(k, n).there
             /\ About(k, n).part = k /\ About(k, n).node = n
  BY DEF About, Rows
<1>3. Absent \in Rows /\ ~Absent.there
  BY DEF Rows, Absent
<1>. QED BY <1>1, <1>2, <1>3

\* What a row of nodes looks like.
LEMMA SpotShapes ==
    /\ \A r \in Spots : /\ r.there => r.part \in Places /\ r.shows \in Origins \union {Null}
                        /\ r.there \in BOOLEAN
                        /\ ~r.there => r \in {Absent, Gone}
    /\ \A k \in Places, x \in Origins \union {Null} :
          /\ Placed(k, x) \in Spots /\ Placed(k, x).there /\ Placed(k, x).part = k
    /\ Absent \in Spots /\ Gone \in Spots /\ ~Absent.there /\ ~Gone.there /\ Absent # Gone
<1>1. ASSUME NEW r \in Spots
      PROVE  /\ r.there => r.part \in Places /\ r.shows \in Origins \union {Null}
             /\ r.there \in BOOLEAN
             /\ ~r.there => r \in {Absent, Gone}
  <2>1. CASE r = Absent \/ r = Gone
    <3>1. r.there = FALSE
      BY <2>1 DEF Absent, Gone
    <3>. QED BY <2>1, <3>1
  <2>2. CASE r \in [there : {TRUE}, part : Places, shows : Origins \union {Null}]
    BY <2>2
  <2>. QED BY <2>1, <2>2 DEF Spots
<1>2. ASSUME NEW k \in Places, NEW x \in Origins \union {Null}
      PROVE  Placed(k, x) \in Spots /\ Placed(k, x).there /\ Placed(k, x).part = k
  BY DEF Placed, Spots
<1>3. Absent \in Spots /\ Gone \in Spots /\ ~Absent.there /\ ~Gone.there /\ Absent # Gone
  <2>1. Absent.used # Gone.used
    BY DEF Absent, Gone
  <2>. QED BY <2>1 DEF Spots, Absent, Gone
<1>. QED BY <1>1, <1>2, <1>3

\* A node that is there stays so whatever it shows and wherever it moves.
LEMMA SpotChanges ==
    ASSUME NEW r \in Spots, r.there
    PROVE  /\ \A x \in Origins \union {Null} :
                 /\ [r EXCEPT !.shows = x] \in Spots /\ [r EXCEPT !.shows = x].there
                 /\ [r EXCEPT !.shows = x].part = r.part
           /\ \A k \in Places :
                 /\ [r EXCEPT !.part = k] \in Spots /\ [r EXCEPT !.part = k].there
                 /\ [r EXCEPT !.part = k].part = k
<1> DEFINE R == [there : {TRUE}, part : Places, shows : Origins \union {Null}]
<1>1. r \in R
  <2>1. r # Absent /\ r # Gone
    BY SpotShapes
  <2>. QED BY <2>1 DEF Spots
<1>2. ASSUME NEW x \in Origins \union {Null}
      PROVE  /\ [r EXCEPT !.shows = x] \in R /\ [r EXCEPT !.shows = x].there
             /\ [r EXCEPT !.shows = x].part = r.part
  BY <1>1
<1>3. ASSUME NEW k \in Places
      PROVE  /\ [r EXCEPT !.part = k] \in R /\ [r EXCEPT !.part = k].there
             /\ [r EXCEPT !.part = k].part = k
  BY <1>1
<1>4. R \subseteq Spots
  BY DEF Spots
<1>. QED BY <1>2, <1>3, <1>4

\* What a mapping looks like.
LEMMA MapShapes ==
    /\ \A m \in Maps : /\ m.state \in {"none", "completed", "pending", "quarantined"}
                       /\ m.state = "none" => m = NoMap
                       /\ m.state \in {"completed", "quarantined"} => m.to \in NodeIds
    /\ NoMap \in Maps /\ NoMap.state = "none" /\ [state |-> "pending"] \in Maps
    /\ \A n \in NodeIds, x \in {"completed", "quarantined"} :
          LET y == [state |-> x, to |-> n]
          IN  y \in Maps /\ y # NoMap /\ y.state = x /\ y.to = n
BY DEF Maps, NoMap

\* A node keeps its place, whatever it shows.
Alike(n) == /\ place'[n].there <=> place[n].there
            /\ place[n].there => place'[n].part = place[n].part
            /\ place'[n] = Absent <=> place[n] = Absent

\* No mapping is made or finished.
Weaker == \A n \in NodeIds, k \in Keys :
              /\ mapping'[n][k].state = "completed" => mapping'[n][k] = mapping[n][k]
              /\ mapping[n][k] = NoMap => mapping'[n][k] = NoMap

\* A quarantine finishes no mapping.
LEMMA Quarantine ==
    ASSUME MigrationTypes, NEW nodes, mapping' = Quarantined(nodes)
    PROVE  mapping' \in [NodeIds -> [Keys -> Maps]] /\ Weaker
<1>1. ASSUME NEW n \in NodeIds, NEW k \in Keys
      PROVE  /\ mapping'[n][k] \in Maps
             /\ mapping'[n][k].state = "completed" => mapping'[n][k] = mapping[n][k]
             /\ mapping[n][k] = NoMap => mapping'[n][k] = NoMap
  <2>0. mapping[n][k] \in Maps
    BY DEF MigrationTypes
  <2>1. CASE mapping[n][k].state = "completed" /\ mapping[n][k].to \in nodes
    <3>1. mapping'[n][k] = [mapping[n][k] EXCEPT !.state = "quarantined"]
      BY <2>1 DEF Quarantined
    <3>2. mapping[n][k] \in [state : {"completed", "quarantined"}, to : NodeIds]
      BY <2>0, <2>1 DEF Maps, NoMap
    <3>3. mapping'[n][k] \in Maps /\ mapping'[n][k].state = "quarantined"
      BY <3>1, <3>2 DEF Maps
    <3>. QED BY <2>1, <3>3 DEF NoMap
  <2>2. CASE ~(mapping[n][k].state = "completed" /\ mapping[n][k].to \in nodes)
    BY <2>0, <2>2 DEF Quarantined
  <2>. QED BY <2>1, <2>2
<1>2. mapping' \in [NodeIds -> [Keys -> Maps]]
  BY <1>1 DEF Quarantined
<1>. QED BY <1>1, <1>2 DEF Weaker

\* Hiding what a source presents moves no node.
LEMMA Hiding ==
    ASSUME MigrationTypes, NEW s \in Origins, NEW n \in NodeIds
    PROVE  /\ Hidden(s)[n] \in Spots
           /\ Hidden(s)[n].there <=> place[n].there
           /\ place[n].there => Hidden(s)[n].part = place[n].part
           /\ Hidden(s)[n] = Absent <=> place[n] = Absent
<1>0. place[n] \in Spots
  BY DEF MigrationTypes
<1>1. CASE place[n].there /\ place[n].shows = s
  <2> DEFINE y == [place[n] EXCEPT !.shows = Null]
  <2>1. y \in Spots /\ y.there /\ y.part = place[n].part
    BY <1>0, <1>1, SpotChanges
  <2>2. Hidden(s)[n] = y
    BY <1>1 DEF Hidden
  <2> HIDE DEF y
  <2>. QED BY <1>1, <2>1, <2>2, SpotShapes
<1>2. CASE ~(place[n].there /\ place[n].shows = s)
  BY <1>0, <1>2 DEF Hidden
<1>. QED BY <1>1, <1>2

-----------------------------------------------------------------------------
(* Steps, one lemma each.                                                  *)

\* Presentations come and go without moving anything.
LEMMA ShowsSafe ==
    ASSUME PartitionInv, NEW s \in Origins, Present(s) \/ Withdraw(s)
    PROVE  PartitionInv'
<1>1. /\ UNCHANGED <<migration, known, origin, open, blind>> /\ turns' \in 0 .. MaxTurns
  BY DEF Present, Withdraw, PartitionInv, MigrationTypes
<1>2. place' \in [NodeIds -> Spots] /\ \A n \in NodeIds : Alike(n)
  <2>1. CASE Present(s)
    <3> DEFINE m == origin[s].node
    <3>1. m \in NodeIds /\ place[m].there /\ place[m] \in Spots
      BY <2>1, RowShapes DEF Present, PartitionInv, MigrationTypes, Grounded
    <3> HIDE DEF m
    <3>2. place' = [place EXCEPT ![m] = [place[m] EXCEPT !.shows = s]]
      BY <2>1 DEF Present, m
    <3>3. place'[m] = [place[m] EXCEPT !.shows = s] /\ \A n \in NodeIds \ {m} : place'[n] = place[n]
      BY <3>1, <3>2 DEF PartitionInv, MigrationTypes
    <3>4. place'[m] \in Spots /\ place'[m].there /\ place'[m].part = place[m].part
      BY <3>1, <3>3, SpotChanges
    <3>5. Alike(m)
      BY <3>1, <3>4, SpotShapes DEF Alike
    <3>6. \A n \in NodeIds : Alike(n)
      BY <3>3, <3>5 DEF Alike
    <3>7. \A n \in NodeIds : place'[n] \in Spots
      BY <3>3, <3>4 DEF PartitionInv, MigrationTypes
    <3>. QED BY <3>2, <3>6, <3>7 DEF PartitionInv, MigrationTypes
  <2>2. CASE Withdraw(s)
    <3>1. place' = Hidden(s)
      BY <2>2 DEF Withdraw
    <3>2. ASSUME NEW n \in NodeIds PROVE place'[n] \in Spots /\ Alike(n)
      BY <3>1, Hiding DEF Alike, PartitionInv
    <3>. QED BY <3>1, <3>2 DEF Hidden
  <2>. QED BY <2>1, <2>2
<1>3. mapping' \in [NodeIds -> [Keys -> Maps]] /\ Weaker
  BY Quarantine DEF Present, Withdraw, PartitionInv, MigrationTypes, Weaker
<1>4. MigrationTypes'
  BY <1>1, <1>2, <1>3 DEF PartitionInv, MigrationTypes
<1>5. \A r \in Origins : origin[r].there => origin[r].node \in NodeIds
  BY RowShapes DEF PartitionInv, MigrationTypes
<1>6. Grounded' /\ OneEach' /\ Unheard' /\ NothingCrosses'
  <2>1. LiveNodes' = LiveNodes
    BY <1>2 DEF LiveNodes, Alike
  <2>2. Grounded' /\ NothingCrosses'
    BY <1>1, <1>2, <1>5 DEF PartitionInv, Grounded, NothingCrosses, Alike
  <2>. QED BY <1>1, <2>1, <2>2 DEF PartitionInv, OneEach, Unheard
<1>7. Mapped' /\ SplitsLeadHome'
  <2>1. \A n \in NodeIds, k \in Keys : mapping[n][k].state = "completed" => mapping[n][k].to \in NodeIds
    <3>1. \A n \in NodeIds, k \in Keys : mapping[n][k] \in Maps
      BY DEF PartitionInv, MigrationTypes
    <3>. QED BY <3>1, MapShapes
  <2>2. Mapped'
    <3> SUFFICES ASSUME NEW n \in NodeIds, NEW k \in Keys
                 PROVE  /\ mapping'[n][k].state = "completed" => place'[mapping'[n][k].to] # Absent
                        /\ place'[n] = Absent => mapping'[n][k] = NoMap
      BY DEF Mapped
    <3>. QED BY <1>2, <1>3, <2>1 DEF PartitionInv, Mapped, Alike, Weaker
  <2>3. SplitsLeadHome'
    <3> SUFFICES ASSUME NEW n \in NodeIds, NEW k \in Keys, mapping'[n][k].state = "completed"
                 PROVE  place'[mapping'[n][k].to].there => place'[mapping'[n][k].to].part = k
      BY DEF SplitsLeadHome
    <3>. QED BY <1>2, <1>3, <2>1 DEF PartitionInv, SplitsLeadHome, Alike, Weaker
  <2>. QED BY <2>2, <2>3
<1>8. Leftover'
  <2>1. \A n \in NodeIds : Supports(n)' = Supports(n)
    BY <1>1 DEF Supports
  <2>2. LiveNodes' = LiveNodes /\ \A n \in LiveNodes : place'[n].part = place[n].part
    BY <1>2 DEF LiveNodes, Alike
  <2>3. \A n \in LiveNodes, k \in Keys : mapping[n][k] = NoMap => mapping'[n][k] = NoMap
    BY <1>3 DEF LiveNodes, Weaker
  <2>. QED BY <1>1, <2>1, <2>2, <2>3 DEF PartitionInv, Leftover, LiveNodes
<1>9. ASSUME NEW t \in open' PROVE Standing(t)' /\ StillSeen(t)'
  <2>1. t \in open /\ Standing(t) /\ StillSeen(t) /\ t.node \in NodeIds
    BY <1>1 DEF PartitionInv, MigrationTypes, Transactions
  <2>2. Supports(t.node)' = Supports(t.node)
    BY <1>1 DEF Supports
  <2>3. Alike(t.node)
    BY <1>2, <2>1
  <2>4. Standing(t)'
    BY <1>1, <2>1, <2>3 DEF Standing, Alike
  <2>5. StillSeen(t)'
    BY <1>1, <2>1, <2>2, <2>3 DEF StillSeen, Standing, Alike
  <2>. QED BY <2>4, <2>5
<1>. QED BY <1>4, <1>6, <1>7, <1>8, <1>9 DEF PartitionInv

\* A step that leaves the tables alone, whatever is under way then.
LEMMA OpenFrame ==
    ASSUME PartitionInv, MigrationTypes', OneEach', Unheard',
           UNCHANGED <<migration, origin, place, mapping, blind>>,
           \A t \in open' : Standing(t)' /\ StillSeen(t)',
           migration = "migrated" =>
               \A n \in LiveNodes, t \in open' :
                   place[n].part = Null /\ (t.node = n \/ t.from = n) => t.kind = "move"
    PROVE  PartitionInv'
<1>1. Grounded' /\ Mapped' /\ NothingCrosses' /\ SplitsLeadHome'
  BY DEF PartitionInv, Grounded, Mapped, NothingCrosses, SplitsLeadHome
<1>2. LiveNodes' = LiveNodes /\ \A n \in NodeIds : Supports(n)' = Supports(n)
  BY DEF LiveNodes, Supports
<1>3. Leftover'
  BY <1>2 DEF PartitionInv, Leftover, LiveNodes
<1>. QED BY <1>1, <1>3 DEF PartitionInv

\* A transaction begins with what it has just read.
LEMMA Opening ==
    ASSUME PartitionInv, NEW t \in Transactions, open' = open \union {t}, ~t.checked,
           ~Locked(t.source), known', known' \in BOOLEAN, turns' \in 0 .. MaxTurns,
           UNCHANGED <<migration, origin, place, mapping, blind>>,
           t.kind = "write" <=> ~origin[t.source].there,
           t.kind = "write" => t.from = Null,
           t.kind # "write" => origin[t.source].node = t.from /\ t.part \in Keys,
           t.kind = "move" => t.node = t.from,
           t.kind = "split" => t.made,
           t.kind \in {"move", "reuse"} => ~t.made,
           t.made => Unused(t.node),
           ~t.made => place[t.node].there /\ (t.kind # "move" => place[t.node].part = t.part),
           \* what is left outside is split for nobody, and written about by nobody
           migration = "migrated" => \A n \in LiveNodes :
               place[n].part = Null /\ (t.node = n \/ t.from = n) => t.kind = "move"
    PROVE  PartitionInv'
<1>1. MigrationTypes' /\ OneEach' /\ Unheard'
  BY DEF PartitionInv, MigrationTypes, OneEach, Unheard, Locked
<1>2. ASSUME NEW u \in open' PROVE Standing(u)' /\ StillSeen(u)'
  <2>1. CASE u = t
    <3>1. t.made => place[t.node] = Absent /\ \A v \in open : v.node # t.node
      BY DEF Unused
    <3>2. Standing(t)'
      BY <3>1 DEF Standing
    <3>. QED BY <2>1, <3>2 DEF StillSeen
  <2>2. CASE u # t
    <3>1. u \in open /\ Standing(u) /\ StillSeen(u) /\ u \in Transactions
      BY <2>2 DEF PartitionInv, MigrationTypes
    <3>2. u.made => t.node # u.node
      <4>1. CASE t.made
        BY <3>1, <4>1 DEF Unused
      <4>2. CASE ~t.made
        <5>1. u.made => ~place[u.node].there
          BY <3>1, SpotShapes DEF Standing
        <5>. QED BY <4>2, <5>1
      <4>. QED BY <4>1, <4>2 DEF Transactions
    <3>3. Standing(u)'
      BY <3>1, <3>2 DEF Standing
    <3>4. StillSeen(u)'
      BY <3>1 DEF StillSeen, Supports
    <3>. QED BY <3>3, <3>4
  <2>. QED BY <2>1, <2>2
<1>3. migration = "migrated" =>
         \A n \in LiveNodes, u \in open' :
             place[n].part = Null /\ (u.node = n \/ u.from = n) => u.kind = "move"
  BY DEF PartitionInv, Leftover
<1>. QED BY <1>1, <1>2, <1>3, OpenFrame

\* NewNode is one that is not used.
LEMMA Newest == (\E n \in NodeIds : Unused(n)) => NewNode \in NodeIds /\ Unused(NewNode)
BY DEF NewNode

\* A write begins, about a node of its partition or a new one.
LEMMA WriteOpens ==
    ASSUME PartitionInv, NEW s \in Origins, NEW k \in Places, OpenWrite(s, k)
    PROVE  PartitionInv'
<1>0. /\ ~origin[s].there /\ ~Locked(s) /\ MayWrite(k) /\ known' /\ known' \in BOOLEAN
      /\ UNCHANGED <<migration, origin, place, mapping, blind>> /\ turns' \in 0 .. MaxTurns
  BY DEF OpenWrite, PartitionInv, MigrationTypes
<1>1. ASSUME NEW n \in LiveNodes, place[n].part = k,
             open' = open \union {Begun("write", s, k, n, Null, FALSE)}
      PROVE  PartitionInv'
  <2> DEFINE t == Begun("write", s, k, n, Null, FALSE)
  <2>1. n \in NodeIds /\ place[n].there
    BY DEF LiveNodes
  <2>2. /\ t \in Transactions
        /\ t.kind = "write" /\ t.source = s /\ t.part = k /\ t.node = n
        /\ t.from = Null /\ ~t.made /\ ~t.checked
    BY <2>1 DEF Begun, Transactions
  <2>3. migration = "migrated" => k # Null
    BY <1>0 DEF MayWrite
  <2>4. \A m \in LiveNodes : m # Null
    BY DEF LiveNodes
  <2> HIDE DEF t
  <2>. QED BY <1>0, <1>1, <2>1, <2>2, <2>3, <2>4, Opening DEF t
<1>2. ASSUME \E n \in NodeIds : Unused(n),
             open' = open \union {Begun("write", s, k, NewNode, Null, TRUE)}
      PROVE  PartitionInv'
  <2> DEFINE n == NewNode
             t == Begun("write", s, k, n, Null, TRUE)
  <2>1. n \in NodeIds /\ Unused(n)
    BY <1>2, Newest
  <2>2. /\ t \in Transactions
        /\ t.kind = "write" /\ t.source = s /\ t.part = k /\ t.node = n
        /\ t.from = Null /\ t.made /\ ~t.checked
    BY <2>1 DEF Begun, Transactions
  <2>3. \A m \in LiveNodes : m # Null /\ m # n
    BY <2>1, SpotShapes DEF LiveNodes, Unused
  <2>4. open' = open \union {t}
    BY <1>2
  <2> HIDE DEF t, n
  <2>. QED BY <1>0, <2>1, <2>2, <2>3, <2>4, Opening
<1>. QED BY <1>1, <1>2 DEF OpenWrite

\* A move begins: it moves the node, splits it, or reuses a split.
LEMMA MoveOpens ==
    ASSUME PartitionInv, NEW s \in Origins, NEW k \in Keys, OpenMove(s, k)
    PROVE  PartitionInv'
<1> DEFINE n == origin[s].node
           m == mapping[n][k].state
<1>0. /\ origin[s].there /\ ~Locked(s) /\ known' /\ known' \in BOOLEAN
      /\ UNCHANGED <<migration, origin, place, mapping, blind>> /\ turns' \in 0 .. MaxTurns
  <2>1. known' = known /\ known
    BY RowShapes DEF OpenMove, PartitionInv, Unheard, MigrationTypes
  <2>. QED BY <2>1 DEF OpenMove, PartitionInv, MigrationTypes
<1>1. n \in NodeIds /\ place[n].there /\ n \in LiveNodes /\ k \in Places
  BY <1>0, RowShapes DEF PartitionInv, MigrationTypes, Grounded, LiveNodes, Places
<1>2. migration = "migrated" /\ place[n].part = Null => m = "none" /\ Supports(n) = {s}
  <2>1. s \in Supports(n)
    BY <1>0 DEF Supports
  <2>. QED BY <1>1, <2>1, MapShapes DEF PartitionInv, Leftover
<1>3. CASE Replaces(n, k) /\ open' = open \union {Begun("reuse", s, k, mapping[n][k].to, n, FALSE)}
  <2> DEFINE to == mapping[n][k].to
             t == Begun("reuse", s, k, to, n, FALSE)
  <2>1. to \in NodeIds /\ place[to].there /\ place[to].part = k /\ m = "completed"
    <3>1. mapping[n][k] \in Maps
      BY <1>1 DEF PartitionInv, MigrationTypes
    <3>. QED BY <1>3, <3>1, MapShapes DEF Replaces
  <2>2. /\ t \in Transactions
        /\ t.kind = "reuse" /\ t.source = s /\ t.part = k /\ t.node = to
        /\ t.from = n /\ ~t.made /\ ~t.checked
    BY <1>1, <2>1 DEF Begun, Transactions
  <2>3. open' = open \union {t}
    BY <1>3
  <2> HIDE DEF t, to
  <2>. QED BY <1>0, <1>1, <1>2, <2>1, <2>2, <2>3, Opening DEF LiveNodes
<1>4. CASE /\ IF m = "none" THEN Shared(s, n, k) ELSE m \in {"completed", "pending"} /\ ~Replaces(n, k)
           /\ \E new \in NodeIds : Unused(new)
           /\ open' = open \union {Begun("split", s, k, NewNode, n, TRUE)}
  <2> DEFINE new == NewNode
             t == Begun("split", s, k, new, n, TRUE)
  <2>1. new \in NodeIds /\ Unused(new)
    BY <1>4, Newest
  <2>2. /\ t \in Transactions
        /\ t.kind = "split" /\ t.source = s /\ t.part = k /\ t.node = new
        /\ t.from = n /\ t.made /\ ~t.checked
    BY <1>1, <2>1 DEF Begun, Transactions
  <2>3. open' = open \union {t}
    BY <1>4
  <2>4. ~(migration = "migrated" /\ place[n].part = Null)
    BY <1>2, <1>4 DEF Shared
  <2>5. new \notin LiveNodes
    BY <2>1, SpotShapes DEF LiveNodes, Unused
  <2> HIDE DEF t, new
  <2>. QED BY <1>0, <1>1, <2>1, <2>2, <2>3, <2>4, <2>5, Opening
<1>5. CASE open' = open \union {Begun("move", s, k, n, n, FALSE)}
  <2> DEFINE t == Begun("move", s, k, n, n, FALSE)
  <2>2. /\ t \in Transactions
        /\ t.kind = "move" /\ t.source = s /\ t.part = k /\ t.node = n
        /\ t.from = n /\ ~t.made /\ ~t.checked
    BY <1>1 DEF Begun, Transactions
  <2>3. open' = open \union {t}
    BY <1>5
  <2> HIDE DEF t
  <2>. QED BY <1>0, <1>1, <2>2, <2>3, Opening
<1>6. \/ Replaces(n, k) /\ open' = open \union {Begun("reuse", s, k, mapping[n][k].to, n, FALSE)}
      \/ /\ IF m = "none" THEN Shared(s, n, k) ELSE m \in {"completed", "pending"} /\ ~Replaces(n, k)
         /\ \E new \in NodeIds : Unused(new)
         /\ open' = open \union {Begun("split", s, k, NewNode, n, TRUE)}
      \/ open' = open \union {Begun("move", s, k, n, n, FALSE)}
  BY DEF OpenMove
<1>. QED BY <1>3, <1>4, <1>5, <1>6

\* The triggers look at what is committed; a transaction that fails them is
\* gone.
LEMMA CheckSafe ==
    ASSUME PartitionInv, NEW t \in open, Check(t)
    PROVE  PartitionInv'
<1> DEFINE c == [t EXCEPT !.checked = TRUE]
<1>0. /\ UNCHANGED <<migration, known, origin, place, mapping, blind, turns>>
      /\ open' = (open \ {t}) \union IF Allowed(t) THEN {c} ELSE {}
      /\ t \in Transactions /\ Standing(t)
  BY DEF Check, PartitionInv, MigrationTypes
<1>1. /\ c \in Transactions
      /\ c.kind = t.kind /\ c.source = t.source /\ c.part = t.part /\ c.node = t.node
      /\ c.from = t.from /\ (c.made <=> t.made)
  BY <1>0 DEF Transactions
<1> HIDE DEF c
<1>2. \A u \in open' : u \in open \ {t} \/ (u = c /\ Allowed(t))
  BY <1>0
<1>3. MigrationTypes' /\ OneEach' /\ Unheard'
  <2>1. MigrationTypes'
    BY <1>0, <1>1, <1>2 DEF PartitionInv, MigrationTypes
  <2>2. OneEach'
    BY <1>1, <1>2 DEF PartitionInv, OneEach
  <2>3. Unheard'
    BY <1>0 DEF PartitionInv, Unheard, LiveNodes
  <2>. QED BY <2>1, <2>2, <2>3
<1>4. ASSUME NEW u \in open' PROVE Standing(u)' /\ StillSeen(u)'
  <2>1. CASE u \in open \ {t}
    <3>1. Standing(u) /\ StillSeen(u) /\ (u.made => t.node # u.node)
      BY <2>1 DEF PartitionInv, Standing
    <3>2. Standing(u)'
      BY <1>0, <1>1, <1>2, <3>1 DEF Standing
    <3>3. StillSeen(u)'
      BY <1>0, <3>1 DEF StillSeen, Supports
    <3>. QED BY <3>2, <3>3
  <2>2. CASE u = c /\ Allowed(t)
    <3>1. Standing(c)'
      BY <1>0, <1>1, <1>2 DEF Standing
    <3>2. StillSeen(c)'
      BY <1>0, <1>1, <2>2 DEF StillSeen, Allowed, Shared, Supports
    <3>. QED BY <2>2, <3>1, <3>2
  <2>. QED BY <1>2, <2>1, <2>2
<1>5. migration = "migrated" =>
         \A n \in LiveNodes, u \in open' :
             place[n].part = Null /\ (u.node = n \/ u.from = n) => u.kind = "move"
  BY <1>1, <1>2 DEF PartitionInv, Leftover
<1>. QED BY <1>0, <1>3, <1>4, <1>5, OpenFrame

\* A new user begins migrated, with nothing.
LEMMA InitializeSafe ==
    ASSUME PartitionInv, Initialize
    PROVE  PartitionInv'
<1>0. /\ UNCHANGED <<origin, place, mapping, open, blind, turns>> /\ ~known
      /\ migration' = "migrated" /\ known' = TRUE
  BY DEF Initialize
<1>1. open = {} /\ LiveNodes = {} /\ \A s \in Origins : ~origin[s].there
  BY <1>0 DEF PartitionInv, Unheard
<1>2. MigrationTypes' /\ OneEach' /\ Unheard'
  BY <1>0, <1>1 DEF PartitionInv, MigrationTypes, OneEach, Unheard
<1>3. Grounded' /\ Mapped' /\ NothingCrosses' /\ SplitsLeadHome'
  BY <1>0 DEF PartitionInv, Grounded, Mapped, NothingCrosses, SplitsLeadHome
<1>4. Leftover'
  BY <1>0, <1>1 DEF Leftover, LiveNodes
<1>. QED BY <1>0, <1>1, <1>2, <1>3, <1>4 DEF PartitionInv

\* The migration begins; who was checked before is remembered.
LEMMA StartSafe ==
    ASSUME PartitionInv, StartMigration
    PROVE  PartitionInv'
<1>0. /\ UNCHANGED <<origin, place, mapping, open, turns>> /\ known' = TRUE
      /\ migration = "unmigrated" /\ migration' = "migrating"
      /\ blind \subseteq blind' /\ \A t \in open : t.checked => t.source \in blind'
  BY DEF StartMigration
<1>1. blind' \subseteq Origins
  BY DEF StartMigration, PartitionInv, MigrationTypes, Transactions
<1>2. MigrationTypes' /\ OneEach' /\ Unheard'
  BY <1>0, <1>1 DEF PartitionInv, MigrationTypes, OneEach, Unheard
<1>3. Grounded' /\ Mapped' /\ NothingCrosses' /\ SplitsLeadHome' /\ Leftover'
  BY <1>0 DEF PartitionInv, Grounded, Mapped, NothingCrosses, SplitsLeadHome, Leftover
<1>4. ASSUME NEW t \in open' PROVE Standing(t)' /\ StillSeen(t)'
  <2>1. t \in open /\ Standing(t) /\ StillSeen(t)
    BY <1>0 DEF PartitionInv
  <2>2. Standing(t)'
    BY <1>0, <2>1 DEF Standing
  <2>3. StillSeen(t)'
    BY <1>0, <2>1 DEF StillSeen, Supports
  <2>. QED BY <2>2, <2>3
<1>. QED BY <1>2, <1>3, <1>4 DEF PartitionInv

\* The migration ends; the nodes nobody supports get a partition.
LEMMA FinishSafe ==
    ASSUME PartitionInv, FinishMigration
    PROVE  PartitionInv'
<1>0. /\ UNCHANGED <<known, origin, mapping, open, turns>>
      /\ migration = "migrating" /\ migration' = "migrated"
      /\ \A s \in Origins : origin[s].there => origin[s].part # Null
      /\ \A n \in LiveNodes \ Strays : place[n].part # Null
      /\ blind \subseteq blind'
      /\ \A t \in open : t.checked /\ t.node \in Strays => t.source \in blind'
  BY DEF FinishMigration
<1>1. blind' \subseteq Origins
  BY DEF FinishMigration, PartitionInv, MigrationTypes, Transactions
<1>2. place' = [n \in NodeIds |-> IF n \in Strays THEN [place[n] EXCEPT !.part = Unassigned] ELSE place[n]]
  BY DEF FinishMigration
<1>3. ASSUME NEW n \in NodeIds
      PROVE  /\ place'[n] \in Spots
             /\ place'[n].there <=> place[n].there
             /\ place'[n] = Absent <=> place[n] = Absent
             /\ n \notin Strays => place'[n] = place[n]
             /\ n \in Strays => /\ place[n].there /\ place[n].part = Null /\ Supports(n) = {}
                                /\ place'[n].part = Unassigned
  <2>0. place[n] \in Spots
    BY DEF PartitionInv, MigrationTypes
  <2>1. CASE n \in Strays
    <3>1. place[n].there /\ place[n].part = Null /\ Supports(n) = {}
      BY <2>1 DEF Strays, LiveNodes
    <3> DEFINE y == [place[n] EXCEPT !.part = Unassigned]
    <3>2. y \in Spots /\ y.there /\ y.part = Unassigned
      BY <2>0, <3>1, SpotChanges DEF Places
    <3>3. place'[n] = y
      BY <1>2, <2>1
    <3> HIDE DEF y
    <3>. QED BY <2>1, <3>1, <3>2, <3>3, SpotShapes
  <2>2. CASE n \notin Strays
    BY <1>2, <2>0, <2>2
  <2>. QED BY <2>1, <2>2
<1>4. MigrationTypes'
  BY <1>0, <1>1, <1>2, <1>3 DEF PartitionInv, MigrationTypes
<1>5. OneEach' /\ Unheard'
  BY <1>0, <1>3 DEF PartitionInv, OneEach, Unheard, LiveNodes
<1>6. \A s \in Origins : origin[s].there => /\ origin[s].node \in NodeIds /\ place[origin[s].node].there
                                            /\ origin[s].node \notin Strays
  BY RowShapes DEF PartitionInv, MigrationTypes, Grounded, Strays, Supports
<1>7. Grounded' /\ NothingCrosses'
  BY <1>0, <1>3, <1>6 DEF PartitionInv, Grounded, NothingCrosses
<1>8. \A n \in NodeIds, k \in Keys :
         mapping[n][k].state = "completed" =>
             mapping[n][k].to \in NodeIds /\ mapping[n][k].to \notin Strays
  <2>1. \A n \in NodeIds, k \in Keys : mapping[n][k] \in Maps
    BY DEF PartitionInv, MigrationTypes
  <2>2. ASSUME NEW n \in NodeIds, NEW k \in Keys, mapping[n][k].state = "completed"
        PROVE  mapping[n][k].to \notin Strays
    BY <2>2 DEF PartitionInv, SplitsLeadHome, Strays, LiveNodes
  <2>. QED BY <2>1, <2>2, MapShapes
<1>9. Mapped' /\ SplitsLeadHome'
  BY <1>0, <1>3, <1>8 DEF PartitionInv, Mapped, SplitsLeadHome
<1>10. Leftover'
  <2>1. \A n \in LiveNodes' : place'[n].part # Null
    BY <1>0, <1>3 DEF LiveNodes
  <2>. QED BY <1>0, <2>1 DEF Leftover
<1>11. ASSUME NEW t \in open' PROVE Standing(t)' /\ StillSeen(t)'
  <2>1. t \in open /\ Standing(t) /\ StillSeen(t) /\ t.node \in NodeIds
    BY <1>0 DEF PartitionInv, MigrationTypes, Transactions
  <2>2. t.kind = "reuse" => t.node \notin Strays
    BY <2>1 DEF Standing, Strays
  <2>3. Standing(t)'
    BY <1>0, <1>3, <2>1, <2>2 DEF Standing
  <2>4. StillSeen(t)'
    BY <1>0, <1>3, <2>1 DEF StillSeen, Supports
  <2>. QED BY <2>3, <2>4
<1>. QED BY <1>4, <1>5, <1>7, <1>9, <1>10, <1>11 DEF PartitionInv

\* A source is erased, and its node with it if nothing else is about it.
LEMMA EraseSafe ==
    ASSUME PartitionInv, NEW s \in Origins, EraseOrigin(s)
    PROVE  PartitionInv'
<1> DEFINE n == origin[s].node
           last == Supports(n) = {s}
<1>0. /\ UNCHANGED <<migration, known, open, turns>>
      /\ origin[s].there /\ blind' = blind \ {s}
      /\ last => \A t \in open : t.node # n
      /\ origin' = [origin EXCEPT ![s] = Absent]
      /\ place' = IF last THEN [Hidden(s) EXCEPT ![n] = Gone] ELSE Hidden(s)
      /\ \A t \in open : t.source # s
  BY DEF EraseOrigin, Locked
<1>1. n \in NodeIds /\ place[n].there /\ s \in Supports(n)
  BY <1>0, RowShapes DEF PartitionInv, MigrationTypes, Grounded, Supports
<1>2. /\ origin' \in [Origins -> Rows] /\ ~origin'[s].there
      /\ \A r \in Origins \ {s} : origin'[r] = origin[r]
  BY <1>0, RowShapes DEF PartitionInv, MigrationTypes
<1>3. ASSUME NEW m \in NodeIds
      PROVE  /\ place'[m] \in Spots
             /\ m = n /\ last => place'[m] = Gone
             /\ ~(m = n /\ last) => Alike(m)
  <2>1. Hidden(s)[m] \in Spots /\ DOMAIN Hidden(s) = NodeIds
    BY Hiding DEF Hidden, PartitionInv
  <2>2. CASE m = n /\ last
    <3>1. place'[m] = Gone
      BY <1>0, <1>1, <2>1, <2>2
    <3>. QED BY <2>2, <3>1, SpotShapes
  <2>3. CASE ~(m = n /\ last)
    <3>1. place'[m] = Hidden(s)[m]
      BY <1>0, <1>1, <2>1, <2>3
    <3>. QED BY <2>3, <2>1, <3>1, Hiding DEF Alike, PartitionInv
  <2>. QED BY <2>2, <2>3
<1>4. mapping' \in [NodeIds -> [Keys -> Maps]] /\ Weaker
  BY Quarantine DEF EraseOrigin, PartitionInv
<1> HIDE DEF n, last
<1>5. MigrationTypes'
  <2>1. place' \in [NodeIds -> Spots]
    <3>1. DOMAIN place' = NodeIds /\ place' = [m \in NodeIds |-> place'[m]]
      BY <1>0 DEF Hidden
    <3>. QED BY <1>3, <3>1
  <2>. QED BY <1>0, <1>2, <1>4, <2>1 DEF PartitionInv, MigrationTypes
<1>6. \A r \in Origins \ {s} : origin[r].there =>
          /\ origin[r].node \in NodeIds /\ place[origin[r].node].there
          /\ origin[r].node = n => ~last
  BY RowShapes DEF PartitionInv, MigrationTypes, Grounded, Supports, last
<1>7. Grounded' /\ NothingCrosses'
  <2>1. ASSUME NEW r \in Origins, origin'[r].there
        PROVE  /\ place'[origin'[r].node].there
               /\ origin'[r].part = place'[origin'[r].node].part \/ r \in blind'
    <3>1. r # s /\ origin'[r] = origin[r] /\ origin[r].there
      BY <1>2, <2>1
    <3>2. Alike(origin[r].node)
      BY <1>3, <1>6, <3>1
    <3>. QED BY <1>0, <1>6, <3>1, <3>2 DEF PartitionInv, NothingCrosses, Alike
  <2>. QED BY <2>1 DEF Grounded, NothingCrosses
<1>8. OneEach' /\ Unheard'
  <2>1. Unheard'
    BY <1>0, RowShapes DEF PartitionInv, MigrationTypes, Unheard
  <2>. QED BY <1>0, <2>1 DEF PartitionInv, OneEach
<1>9. Mapped' /\ SplitsLeadHome'
  <2>1. \A m \in NodeIds, k \in Keys : mapping[m][k].state = "completed" => mapping[m][k].to \in NodeIds
    <3>1. \A m \in NodeIds, k \in Keys : mapping[m][k] \in Maps
      BY DEF PartitionInv, MigrationTypes
    <3>. QED BY <3>1, MapShapes
  <2>2. \A m \in NodeIds : /\ place'[m] = Absent => place[m] = Absent
                           /\ place'[m].there => place[m].there /\ place'[m].part = place[m].part
    BY <1>1, <1>3, SpotShapes DEF Alike
  <2>3. Mapped'
    BY <1>4, <2>1, <2>2 DEF PartitionInv, Mapped, Weaker
  <2>4. SplitsLeadHome'
    BY <1>4, <2>1, <2>2 DEF PartitionInv, SplitsLeadHome, Weaker
  <2>. QED BY <2>3, <2>4
<1>10. \A m \in NodeIds : Supports(m)' = Supports(m) \ {s}
  BY <1>2 DEF Supports
<1>11. Leftover'
  <2> SUFFICES ASSUME migration = "migrated" PROVE Leftover'
    BY <1>0 DEF Leftover
  <2>1. \A r \in Origins : origin'[r].there /\ origin'[r].part = Null => r \in blind'
    BY <1>0, <1>2 DEF PartitionInv, Leftover
  <2>2. ASSUME NEW m \in LiveNodes', place'[m].part = Null
        PROVE  /\ \A k \in Keys : mapping'[m][k] = NoMap
               /\ \E r \in blind' : Supports(m)' = {r}
               /\ \A t \in open' : t.node = m \/ t.from = m => t.kind = "move"
    <3>1. m \in NodeIds /\ place'[m].there /\ ~(m = n /\ last) /\ Alike(m)
      BY <1>3, SpotShapes DEF LiveNodes
    <3>2. m \in LiveNodes /\ place[m].part = Null
      BY <2>2, <3>1 DEF LiveNodes, Alike
    <3>3. PICK r \in blind : Supports(m) = {r}
      BY <3>2 DEF PartitionInv, Leftover
    <3>4. r # s
      <4>1. CASE m = n
        BY <1>1, <3>1, <3>3, <4>1 DEF last
      <4>2. CASE m # n
        BY <3>3, <4>2 DEF Supports, n
      <4>. QED BY <4>1, <4>2
    <3>5. r \in blind' /\ Supports(m)' = {r}
      BY <1>0, <1>10, <3>1, <3>3, <3>4
    <3>6. \A k \in Keys : mapping'[m][k] = NoMap
      BY <1>4, <3>1, <3>2 DEF PartitionInv, Leftover, Weaker
    <3>. QED BY <1>0, <3>2, <3>5, <3>6 DEF PartitionInv, Leftover
  <2>. QED BY <2>1, <2>2 DEF Leftover
<1>12. ASSUME NEW t \in open' PROVE Standing(t)' /\ StillSeen(t)'
  <2>1. t \in open /\ Standing(t) /\ StillSeen(t) /\ t.node \in NodeIds /\ t.source \in Origins \ {s}
    BY <1>0 DEF PartitionInv, MigrationTypes, Transactions
  <2>2. Alike(t.node)
    BY <1>0, <1>3, <2>1 DEF last, n
  <2>3. Standing(t)'
    BY <1>0, <1>2, <2>1, <2>2 DEF Standing, Alike
  <2>4. StillSeen(t)'
    <3>1. Supports(t.node)' = Supports(t.node) \ {s} /\ Supports(t.node) \subseteq Origins
      BY <1>10, <2>1 DEF Supports
    <3>2. \A r \in Supports(t.node) \ {s} : origin'[r] = origin[r] /\ (r \in blind => r \in blind')
      BY <1>0, <1>2, <3>1
    <3>3. t.source \in blind => t.source \in blind'
      BY <1>0, <2>1
    <3>. QED BY <1>0, <2>1, <2>2, <3>1, <3>2, <3>3 DEF StillSeen, Standing, Alike
  <2>. QED BY <2>3, <2>4
<1>. QED BY <1>5, <1>7, <1>8, <1>9, <1>11, <1>12 DEF PartitionInv

\* What a commit does to nodes and mappings: its node is where it was checked
\* to be, or where it is moved, and no other node; a mapping that is finished
\* leads there.
Settles(t) ==
    /\ place' \in [NodeIds -> Spots] /\ mapping' \in [NodeIds -> [Keys -> Maps]]
    /\ \A n \in NodeIds \ {t.node} : Alike(n)
    /\ place'[t.node].there
    /\ place'[t.node].part = t.part \/ (t.kind = "write" /\ t.source \in blind)
    /\ t.kind # "move" /\ ~t.made => place'[t.node].part = place[t.node].part
    /\ \A n \in NodeIds, k \in Keys :
          /\ mapping'[n][k].state = "completed" =>
                /\ mapping'[n][k].to = t.node => place'[t.node].part = k
                /\ mapping'[n][k].to # t.node => mapping'[n][k] = mapping[n][k]
          /\ mapping[n][k] = NoMap =>
                mapping'[n][k] = NoMap \/ (n = t.from /\ t.kind \in {"reuse", "split"})

\* Every commit settles its node and its mappings.
LEMMA Settling ==
    ASSUME PartitionInv, NEW t \in open, Commit(t)
    PROVE  Settles(t)
<1> DEFINE n == t.node
<1>0. t \in Transactions /\ Standing(t) /\ StillSeen(t) /\ n \in NodeIds /\ t.checked
  BY DEF Commit, PartitionInv, MigrationTypes, Transactions
<1>1. /\ place \in [NodeIds -> Spots] /\ mapping \in [NodeIds -> [Keys -> Maps]]
      /\ \A m \in NodeIds, k \in Keys : mapping[m][k] \in Maps
  BY DEF PartitionInv, MigrationTypes
<1>2. ASSUME NEW m \in NodeIds, NEW k \in Keys, mapping[m][k].state = "completed"
      PROVE  /\ mapping[m][k].to \in NodeIds /\ place[mapping[m][k].to] # Absent
             /\ mapping[m][k].to = n => ~t.made
             /\ mapping[m][k].to = n /\ place[n].there => place[n].part = k
  BY <1>0, <1>1, <1>2, MapShapes DEF PartitionInv, Mapped, SplitsLeadHome, Standing
<1> HIDE DEF n
<1>3. CASE t.kind = "write" /\ t.made
  <2>1. place' = [place EXCEPT ![n] = Placed(t.part, Null)] /\ mapping' = mapping
    BY <1>3 DEF Commit, n
  <2>2. Placed(t.part, Null) \in Spots /\ Placed(t.part, Null).there /\ Placed(t.part, Null).part = t.part
    BY <1>0, SpotShapes DEF Transactions
  <2>3. /\ place' \in [NodeIds -> Spots] /\ place'[n] = Placed(t.part, Null)
        /\ \A m \in NodeIds \ {n} : place'[m] = place[m]
    BY <1>0, <1>1, <2>1, <2>2
  <2>. QED BY <1>0, <1>1, <1>2, <1>3, <2>1, <2>2, <2>3 DEF Settles, Alike, n
<1>4. CASE t.kind = "write" /\ ~t.made
  <2>1. place' = place /\ mapping' = mapping
    BY <1>4 DEF Commit
  <2>2. place[n].there /\ (place[n].part = t.part \/ t.source \in blind)
    BY <1>0, <1>4 DEF Standing, StillSeen, n
  <2>. QED BY <1>0, <1>1, <1>2, <1>4, <2>1, <2>2 DEF Settles, Alike, n
<1>5. CASE t.kind = "move"
  <2>1. place' = [place EXCEPT ![n] = [place[n] EXCEPT !.part = t.part]] /\ mapping' = Reopened(n, t.part)
    BY <1>5 DEF Commit, n
  <2>2. place[n].there /\ place[n] \in Spots /\ t.part \in Keys /\ t.part \in Places
    BY <1>0, <1>1, <1>5 DEF Standing, n, Places
  <2> DEFINE y == [place[n] EXCEPT !.part = t.part]
  <2>3. y \in Spots /\ y.there /\ y.part = t.part
    BY <2>2, SpotChanges
  <2>4. /\ place' \in [NodeIds -> Spots] /\ place'[n] = y
        /\ \A m \in NodeIds \ {n} : place'[m] = place[m]
    BY <1>0, <1>1, <2>1, <2>3
  <2> HIDE DEF y
  <2>5. ASSUME NEW m \in NodeIds, NEW k \in Keys
        PROVE  /\ mapping'[m][k] \in Maps
               /\ mapping'[m][k].state = "completed" =>
                     /\ mapping'[m][k] = mapping[m][k]
                     /\ mapping'[m][k].to = n => k = t.part
               /\ mapping[m][k] = NoMap => mapping'[m][k] = NoMap
    <3>1. CASE mapping[m][k].state = "completed" /\ mapping[m][k].to = n /\ k # t.part
      <4>1. mapping'[m][k] = [state |-> "pending"]
        BY <2>1, <3>1 DEF Reopened
      <4>. QED BY <3>1, <4>1, MapShapes
    <3>2. CASE ~(mapping[m][k].state = "completed" /\ mapping[m][k].to = n /\ k # t.part)
      <4>1. mapping'[m][k] = mapping[m][k]
        BY <2>1, <3>2 DEF Reopened
      <4>. QED BY <1>1, <3>2, <4>1
    <3>. QED BY <3>1, <3>2
  <2>6. mapping' \in [NodeIds -> [Keys -> Maps]]
    BY <2>1, <2>5 DEF Reopened
  <2>. QED BY <1>0, <1>5, <2>3, <2>4, <2>5, <2>6 DEF Settles, Alike, n
<1>6. CASE t.kind \in {"reuse", "split"}
  <2>0. t.from \in NodeIds /\ t.part \in Keys /\ t.part \in Places
    <3>1. origin[t.source].node \in NodeIds
      BY <1>0, <1>6, RowShapes DEF Standing, PartitionInv, MigrationTypes, Transactions
    <3>. QED BY <1>0, <1>6, <3>1 DEF Standing, Places
  <2>1. PICK shows \in Origins \union {Null}, x \in {"completed", "quarantined"} :
           /\ place' = [place EXCEPT ![n] = Placed(t.part, shows)]
           /\ mapping' = [mapping EXCEPT ![t.from][t.part] = [state |-> x, to |-> n]]
    <3> DEFINE shown == place[t.from].shows = t.source
               had == IF t.made THEN Null ELSE place[n].shows
               both == shown /\ had \notin {Null, t.source}
               shows == IF both THEN Null ELSE IF shown THEN t.source ELSE had
               x == IF both THEN "quarantined" ELSE "completed"
    <3>1. had \in Origins \union {Null}
      BY <1>0, <1>1, SpotShapes DEF Standing, n
    <3>2. shows \in Origins \union {Null} /\ x \in {"completed", "quarantined"}
      BY <1>0, <3>1 DEF Transactions
    <3>3. /\ place' = [place EXCEPT ![n] = Placed(t.part, shows)]
          /\ mapping' = [mapping EXCEPT ![t.from][t.part] = [state |-> x, to |-> n]]
      BY <1>6 DEF Commit, SplitOff, n
    <3> HIDE DEF shows, x
    <3>. QED BY <3>2, <3>3
  <2>2. Placed(t.part, shows) \in Spots /\ Placed(t.part, shows).there /\ Placed(t.part, shows).part = t.part
    BY <2>0, SpotShapes
  <2>3. /\ place' \in [NodeIds -> Spots] /\ place'[n] = Placed(t.part, shows)
        /\ \A m \in NodeIds \ {n} : place'[m] = place[m]
    BY <1>0, <1>1, <2>1, <2>2
  <2> DEFINE y == [state |-> x, to |-> n]
  <2>4. y \in Maps /\ y.to = n
    BY <1>0, MapShapes
  <2>5. ASSUME NEW m \in NodeIds, NEW k \in Keys
        PROVE  mapping'[m][k] = IF m = t.from /\ k = t.part THEN y ELSE mapping[m][k]
    BY <1>1, <2>0, <2>1
  <2>6. mapping' \in [NodeIds -> [Keys -> Maps]]
    BY <1>1, <2>0, <2>1, <2>4
  <2> HIDE DEF y
  <2>7. ~t.made => place[n].part = t.part /\ place[n].there
    BY <1>0, <1>6 DEF Standing, n
  <2>8. ASSUME NEW m \in NodeIds, NEW k \in Keys
        PROVE  /\ mapping'[m][k].state = "completed" =>
                     /\ mapping'[m][k].to = n => k = t.part
                     /\ mapping'[m][k].to # n => mapping'[m][k] = mapping[m][k]
               /\ mapping[m][k] = NoMap => mapping'[m][k] = NoMap \/ m = t.from
    BY <1>2, <2>4, <2>5, <2>7
  <2>. QED BY <1>0, <1>6, <2>2, <2>3, <2>6, <2>7, <2>8 DEF Settles, Alike, n
<1>. QED BY <1>0, <1>3, <1>4, <1>5, <1>6 DEF Transactions

\* What is committed stands beside everything that is still under way.
LEMMA CommitSafe ==
    ASSUME PartitionInv, NEW t \in open, Commit(t)
    PROVE  PartitionInv'
<1> DEFINE n == t.node
           s == t.source
<1>0. /\ t \in Transactions /\ Standing(t) /\ StillSeen(t) /\ t.checked
      /\ n \in NodeIds /\ s \in Origins /\ t.part \in Places
      /\ UNCHANGED <<migration, known, turns>> /\ open' = open \ {t} /\ known
  BY DEF Commit, PartitionInv, MigrationTypes, Transactions, Unheard
<1>1. Settles(t)
  BY Settling
<1>2. /\ origin' \in [Origins -> Rows] /\ origin'[s].there
      /\ origin'[s].part = t.part /\ origin'[s].node = n
      /\ \A r \in Origins \ {s} : origin'[r] = origin[r]
  <2>1. origin' = [origin EXCEPT ![s] = About(t.part, n)]
    BY DEF Commit
  <2>2. About(t.part, n) \in Rows
    BY <1>0, RowShapes
  <2>. QED BY <1>0, <2>1, <2>2, RowShapes DEF PartitionInv, MigrationTypes
<1>3. /\ blind \subseteq blind' /\ blind' \subseteq Origins
      /\ \A u \in open \ {t} : u.checked /\ u.node = n => u.source \in blind' /\ s \in blind'
  BY <1>0 DEF Commit, PartitionInv, MigrationTypes, Transactions
<1>4. ASSUME NEW u \in open \ {t}
      PROVE  /\ u \in Transactions /\ Standing(u) /\ StillSeen(u) /\ u.node \in NodeIds
             /\ u.source \in Origins \ {s}
             /\ u.node = n => ~t.made /\ ~u.made /\ ~(t.kind = "move" /\ u.kind = "reuse")
  <2>1. u.node = n => ~t.made /\ ~u.made
    BY <1>0 DEF PartitionInv, Standing
  <2>2. u.node = n => ~(t.kind = "move" /\ u.kind = "reuse")
    BY DEF Commit
  <2>. QED BY <2>1, <2>2 DEF PartitionInv, MigrationTypes, OneEach, Transactions
<1>5. \A r \in Origins \ {s} : origin[r].there =>
          /\ origin[r].node \in NodeIds /\ place[origin[r].node].there
          /\ origin[r].node = n => ~t.made
  BY <1>0, RowShapes, SpotShapes DEF PartitionInv, MigrationTypes, Grounded, Standing
<1>6. t.kind # "write" => t.from \in NodeIds /\ place[t.from].there
  BY <1>0, RowShapes DEF PartitionInv, MigrationTypes, Grounded, Standing
<1>7. /\ \A m \in NodeIds \ {n} : Alike(m)
      /\ place'[n].there /\ place'[n] # Absent
  BY <1>1, SpotShapes DEF Settles
<1> HIDE DEF n, s
<1>8. MigrationTypes'
  BY <1>0, <1>1, <1>2, <1>3 DEF PartitionInv, MigrationTypes, Settles
<1>9. OneEach' /\ Unheard'
  BY <1>0 DEF PartitionInv, OneEach, Unheard
<1>10. Grounded' /\ NothingCrosses'
  <2>1. ASSUME NEW r \in Origins, origin'[r].there
        PROVE  /\ place'[origin'[r].node].there
               /\ origin'[r].part = place'[origin'[r].node].part \/ r \in blind'
    <3>1. CASE r = s
      BY <1>1, <1>2, <1>3, <3>1 DEF Settles, n, s
    <3>2. CASE r # s /\ origin[r].node # n
      <4>1. Alike(origin[r].node) /\ origin'[r] = origin[r]
        BY <1>2, <1>5, <1>7, <2>1, <3>2
      <4>. QED BY <1>2, <1>3, <1>5, <2>1, <3>2, <4>1 DEF PartitionInv, NothingCrosses, Alike
    <3>3. CASE r # s /\ origin[r].node = n
      <4>1. origin'[r] = origin[r] /\ origin[r].there /\ ~t.made
        BY <1>2, <1>5, <2>1, <3>3
      <4>2. CASE t.kind = "move"
        <5>1. r \in Supports(n) \ {s}
          BY <3>3, <4>1 DEF Supports
        <5>2. origin[r].part = t.part \/ r \in blind
          BY <1>0, <4>2, <5>1 DEF StillSeen, n, s
        <5>. QED BY <1>1, <1>3, <1>7, <3>3, <4>1, <4>2, <5>2 DEF Settles, n
      <4>3. CASE t.kind # "move"
        <5>1. place'[n].part = place[n].part
          BY <1>1, <4>1, <4>3 DEF Settles, n
        <5>. QED BY <1>3, <1>7, <3>3, <4>1, <5>1 DEF PartitionInv, NothingCrosses
      <4>. QED BY <4>2, <4>3
    <3>. QED BY <3>1, <3>2, <3>3
  <2>. QED BY <2>1 DEF Grounded, NothingCrosses
<1>11. Mapped' /\ SplitsLeadHome'
  <2>1. \A m \in NodeIds, k \in Keys : mapping[m][k].state = "completed" => mapping[m][k].to \in NodeIds
    <3>1. \A m \in NodeIds, k \in Keys : mapping[m][k] \in Maps
      BY DEF PartitionInv, MigrationTypes
    <3>. QED BY <3>1, MapShapes
  <2>2. ASSUME NEW m \in NodeIds, NEW k \in Keys
        PROVE  /\ mapping'[m][k].state = "completed" =>
                     /\ place'[mapping'[m][k].to] # Absent
                     /\ place'[mapping'[m][k].to].there => place'[mapping'[m][k].to].part = k
               /\ place'[m] = Absent => mapping'[m][k] = NoMap
    <3>1. ASSUME mapping'[m][k].state = "completed", mapping'[m][k].to # n
          PROVE  /\ place'[mapping'[m][k].to] # Absent
                 /\ place'[mapping'[m][k].to].there => place'[mapping'[m][k].to].part = k
      <4>1. mapping'[m][k] = mapping[m][k]
        BY <1>1, <3>1 DEF Settles, n
      <4>2. Alike(mapping[m][k].to)
        BY <1>7, <2>1, <3>1, <4>1
      <4>. QED BY <3>1, <4>1, <4>2 DEF PartitionInv, Mapped, SplitsLeadHome, Alike
    <3>2. ASSUME mapping'[m][k].state = "completed", mapping'[m][k].to = n
          PROVE  place'[n].part = k
      BY <1>1, <3>2 DEF Settles, n
    <3>3. ASSUME place'[m] = Absent PROVE mapping'[m][k] = NoMap
      <4>1. m # n /\ place[m] = Absent /\ mapping[m][k] = NoMap
        BY <1>7, <3>3 DEF Alike, PartitionInv, Mapped
      <4>2. ~(m = t.from /\ t.kind \in {"reuse", "split"})
        BY <1>6, <4>1, SpotShapes
      <4>. QED BY <1>1, <4>1, <4>2 DEF Settles
    <3>. QED BY <1>7, <3>1, <3>2, <3>3
  <2>. QED BY <2>2 DEF Mapped, SplitsLeadHome
<1>12. Leftover'
  <2> SUFFICES ASSUME migration = "migrated" PROVE Leftover'
    BY <1>0 DEF Leftover
  <2>0. t.part = Null => s \in blind /\ t.kind = "write"
    <3>1. t.kind # "write" => t.part # Null
      BY <1>0 DEF Standing
    <3>. QED BY <1>0, <3>1 DEF StillSeen, s
  <2>1. \A r \in Origins : origin'[r].there /\ origin'[r].part = Null => r \in blind'
    BY <1>2, <1>3, <2>0 DEF PartitionInv, Leftover
  <2>2. ASSUME NEW m \in LiveNodes', place'[m].part = Null
        PROVE  /\ \A k \in Keys : mapping'[m][k] = NoMap
               /\ \E r \in blind' : Supports(m)' = {r}
               /\ \A u \in open' : u.node = m \/ u.from = m => u.kind = "move"
    <3>0. m \in NodeIds /\ place'[m].there
      BY DEF LiveNodes
    <3>1. CASE m # n
      <4>1. m \in LiveNodes /\ place[m].part = Null
        BY <1>7, <2>2, <3>0, <3>1 DEF LiveNodes, Alike
      <4>2. PICK r \in blind : Supports(m) = {r}
        BY <4>1 DEF PartitionInv, Leftover
      <4>3. t.from = m => FALSE
        <5>1. t.from = m => t.kind = "move"
          BY <4>1 DEF PartitionInv, Leftover
        <5>. QED BY <1>0, <3>1, <5>1 DEF Standing, n
      <4>4. s \notin Supports(m)
        <5>1. s \in Supports(m) => t.from = m
          BY <1>0 DEF Supports, Standing, s
        <5>. QED BY <4>3, <5>1
      <4>5. Supports(m)' = Supports(m)
        BY <1>2, <3>1, <4>4 DEF Supports
      <4>6. \A k \in Keys : mapping'[m][k] = NoMap
        BY <1>1, <3>0, <4>1, <4>3 DEF PartitionInv, Leftover, Settles
      <4>. QED BY <1>0, <1>3, <4>1, <4>2, <4>5, <4>6 DEF PartitionInv, Leftover
    <3>2. CASE m = n /\ ~t.made
      <4>1. t.kind = "write" /\ place'[n].part = place[n].part /\ place[n].there
        BY <1>0, <1>1, <2>0, <2>2, <3>2 DEF Settles, Standing, n
      <4>2. n \in LiveNodes /\ place[n].part = Null
        BY <2>2, <3>0, <3>2, <4>1 DEF LiveNodes
      <4>. QED BY <1>0, <4>1, <4>2 DEF PartitionInv, Leftover, n
    <3>3. CASE m = n /\ t.made
      <4>1. place[n] = Absent /\ \A u \in open : u.node = n => u = t
        BY <1>0, <3>3 DEF Standing, n
      <4>2. t.kind = "write" /\ s \in blind
        <5>1. t.part = Null \/ (t.kind = "write" /\ s \in blind)
          BY <1>1, <2>2, <3>3 DEF Settles, n, s
        <5>. QED BY <2>0, <5>1
      <4>3. \A k \in Keys : mapping'[n][k] = NoMap
        BY <1>0, <1>1, <3>0, <3>3, <4>1, <4>2 DEF PartitionInv, Mapped, Settles, n
      <4>4. Supports(n)' = {s}
        <5>1. \A r \in Origins \ {s} : origin[r].there => origin[r].node # n
          BY <1>5, <3>3
        <5>. QED BY <1>0, <1>2, <5>1 DEF Supports, s
      <4>5. \A u \in open' : u.node # n
        BY <1>0, <4>1
      <4>6. \A u \in open' : u.from # n
        <5>1. ASSUME NEW u \in open \ {t}, u.from = n PROVE FALSE
          <6>1. u.kind # "write"
            BY <1>4, <3>0, <3>3, <5>1 DEF Standing
          <6>2. origin[u.source].there /\ origin[u.source].node = n /\ u.source \in Origins \ {s}
            BY <1>4, <5>1, <6>1 DEF Standing
          <6>. QED BY <1>5, <3>3, <6>2
        <5>. QED BY <1>0, <5>1
      <4>. QED BY <1>3, <3>3, <4>2, <4>3, <4>4, <4>5, <4>6
    <3>. QED BY <3>1, <3>2, <3>3
  <2>. QED BY <2>1, <2>2 DEF Leftover
<1>13. ASSUME NEW u \in open' PROVE Standing(u)' /\ StillSeen(u)'
  <2>1. /\ u \in open \ {t} /\ Standing(u) /\ StillSeen(u) /\ u.node \in NodeIds
        /\ u.source \in Origins \ {s} /\ origin'[u.source] = origin[u.source]
        /\ u.node = n => ~t.made /\ ~u.made /\ ~(t.kind = "move" /\ u.kind = "reuse")
    BY <1>0, <1>2, <1>4
  <2>2. u.node # n => Alike(u.node)
    BY <1>7, <2>1
  <2>3. u.node = n /\ t.kind # "move" => place'[n].part = place[n].part
    BY <1>1, <2>1 DEF Settles, n
  <2>4. Standing(u)'
    <3>1. CASE u.node = n
      BY <1>0, <1>7, <2>1, <2>3, <3>1 DEF Standing
    <3>2. CASE u.node # n
      BY <1>0, <2>1, <2>2, <3>2 DEF Standing, Alike
    <3>. QED BY <3>1, <3>2
  <2>5. StillSeen(u)'
    <3> SUFFICES ASSUME u.checked PROVE StillSeen(u)'
      BY DEF StillSeen
    <3>1. u.kind = "write" /\ ~u.made => place'[u.node].part = u.part \/ u.source \in blind'
      <4>1. CASE u.node = n
        BY <1>3, <2>1, <4>1
      <4>2. CASE u.node # n
        BY <1>3, <2>1, <2>2, <4>2 DEF StillSeen, Standing, Alike
      <4>. QED BY <4>1, <4>2
    <3>2. ASSUME u.kind = "move", NEW other \in Supports(u.node)' \ {u.source}
          PROVE  origin'[other].part = u.part \/ other \in blind'
      <4>1. CASE other = s
        <5>1. u.node = n
          BY <1>2, <3>2, <4>1 DEF Supports
        <5>. QED BY <1>3, <2>1, <4>1, <5>1
      <4>2. CASE other # s
        <5>1. other \in Supports(u.node) \ {u.source} /\ origin'[other] = origin[other]
          BY <1>2, <3>2, <4>2 DEF Supports
        <5>. QED BY <1>3, <2>1, <3>2, <5>1 DEF StillSeen
      <4>. QED BY <4>1, <4>2
    <3>3. u.part = Null /\ migration # "unmigrated" => u.source \in blind'
      BY <1>3, <2>1 DEF StillSeen
    <3>. QED BY <1>0, <3>1, <3>2, <3>3 DEF StillSeen
  <2>. QED BY <2>4, <2>5
<1>. QED BY <1>8, <1>9, <1>10, <1>11, <1>12, <1>13 DEF PartitionInv

-----------------------------------------------------------------------------
(* The theorems.                                                           *)

\* The invariant holds where nothing has been written.
LEMMA InitSafe == PartitionInit => PartitionInv
<1> SUFFICES ASSUME PartitionInit PROVE PartitionInv
  OBVIOUS
<1>0. /\ migration = "unmigrated" /\ known = FALSE /\ open = {} /\ blind = {} /\ turns = 0
      /\ \A s \in Origins : origin[s] = Absent
      /\ \A n \in NodeIds : place[n] = Absent
      /\ \A n \in NodeIds, k \in Keys : mapping[n][k] = NoMap
  BY DEF PartitionInit
<1>1. origin \in [Origins -> Rows] /\ place \in [NodeIds -> Spots] /\ mapping \in [NodeIds -> [Keys -> Maps]]
  BY RowShapes, SpotShapes, MapShapes DEF PartitionInit
<1>2. MigrationTypes
  <2>1. turns \in 0 .. MaxTurns
    BY <1>0
  <2>2. migration \in {"unmigrated", "migrating", "migrated"} /\ known \in BOOLEAN
    BY <1>0
  <2>3. open \subseteq Transactions /\ blind \subseteq Origins
    BY <1>0
  <2>. QED BY <1>1, <2>1, <2>2, <2>3 DEF MigrationTypes
<1>3. Grounded /\ OneEach /\ Unheard /\ NothingCrosses /\ Leftover
  BY <1>0, RowShapes, SpotShapes DEF Grounded, OneEach, Unheard, NothingCrosses, Leftover, LiveNodes
<1>4. Mapped /\ SplitsLeadHome
  BY <1>0, MapShapes DEF Mapped, SplitsLeadHome
<1>. QED BY <1>0, <1>2, <1>3, <1>4 DEF PartitionInv

\* Every step keeps the invariant.
LEMMA NextSafe == PartitionInv /\ [PartitionNext]_partitionVars => PartitionInv'
<1> SUFFICES ASSUME PartitionInv, [PartitionNext]_partitionVars PROVE PartitionInv'
  OBVIOUS
<1>1. CASE UNCHANGED partitionVars
  <2>1. UNCHANGED <<migration, known, origin, place, mapping, open, blind, turns>>
    BY <1>1 DEF partitionVars
  <2>2. MigrationTypes' /\ OneEach' /\ Unheard'
    BY <2>1 DEF PartitionInv, MigrationTypes, OneEach, Unheard, LiveNodes
  <2>3. \A t \in open' : Standing(t)' /\ StillSeen(t)'
    BY <2>1 DEF PartitionInv, Standing, StillSeen, Supports
  <2>. QED BY <2>1, <2>2, <2>3, OpenFrame DEF PartitionInv, Leftover
<1>2. CASE PartitionNext
  <2>1. ASSUME NEW s \in Origins, Present(s) \/ Withdraw(s) PROVE PartitionInv'
    BY <2>1, ShowsSafe
  <2>2. ASSUME NEW s \in Origins, EraseOrigin(s) PROVE PartitionInv'
    BY <2>2, EraseSafe
  <2>3. ASSUME NEW s \in Origins, NEW k \in Places, OpenWrite(s, k) PROVE PartitionInv'
    BY <2>3, WriteOpens
  <2>4. ASSUME NEW s \in Origins, NEW k \in Keys, OpenMove(s, k) PROVE PartitionInv'
    BY <2>4, MoveOpens
  <2>5. ASSUME NEW t \in open, Check(t) \/ Commit(t) PROVE PartitionInv'
    BY <2>5, CheckSafe, CommitSafe
  <2>6. CASE Initialize \/ StartMigration \/ FinishMigration
    BY <2>6, InitializeSafe, StartSafe, FinishSafe
  <2>. QED BY <1>2, <2>1, <2>2, <2>3, <2>4, <2>5, <2>6 DEF PartitionNext, Places
<1>. QED BY <1>1, <1>2

\* The inductive invariant holds of every behaviour of the partitions.
THEOREM PartitionInvariant == PartitionSpec => []PartitionInv
BY InitSafe, NextSafe, PTL DEF PartitionSpec

\* Rows, mappings and transactions that the invariant allows are well-typed.
LEMMA PartitionTypes == PartitionInv => PartitionTypeOK
<1> SUFFICES ASSUME PartitionInv PROVE PartitionTypeOK
  OBVIOUS
<1>1. ASSUME NEW s \in Origins
      PROVE  \/ origin[s] = Absent
             \/ origin[s].part \in Keys \union {Null} /\ origin[s].node \in LiveNodes
  BY RowShapes DEF PartitionInv, MigrationTypes, Grounded, LiveNodes, Places
<1>2. ASSUME NEW n \in NodeIds
      PROVE  \/ place[n] \in {Absent, Gone}
             \/ place[n].part \in Keys \union {Null} /\ place[n].shows \in Origins \union {Null}
  BY SpotShapes DEF PartitionInv, MigrationTypes, Places
<1>3. ASSUME NEW n \in NodeIds, NEW k \in Keys
      PROVE  /\ mapping[n][k].state \in {"none", "completed", "pending", "quarantined"}
             /\ mapping[n][k].state \in {"completed", "quarantined"} => mapping[n][k].to \in NodeIds
  <2>1. mapping[n][k] \in Maps
    BY DEF PartitionInv, MigrationTypes
  <2>. QED BY <2>1, MapShapes
<1>. QED BY <1>1, <1>2, <1>3 DEF PartitionInv, MigrationTypes, OneEach, PartitionTypeOK

\* Every source, node, mapping and transaction keeps its type, and no source is
\* in two transactions at once (withSourceWriteFence).
THEOREM PartitionIsTyped == PartitionSpec => []PartitionTypeOK
BY PartitionTypes, PartitionInvariant, PTL

\* A finished split leads into the partition it was made for, however nodes
\* move on, are reused or are erased (recoverPartitionNodes and the trigger
\* reopen_mappings_for_replacement_partition).
THEOREM SplitsAlwaysLeadHome == PartitionSpec => []SplitsLeadHome
<1>1. PartitionInv => SplitsLeadHome
  BY DEF PartitionInv
<1>. QED BY <1>1, PartitionInvariant, PTL

\* A finished migration leaves nothing outside the partitions.
LEMMA HoldingPartitions == PartitionInv => PartitionsHold
BY DEF PartitionInv, Leftover, MigratedIsPartitioned, PartitionsHold

\* Evidence is where what it is about is, and after the migration everything is
\* in a partition, except what two transactions checked before either was
\* committed (partition-migration.ts, the triggers of
\* drizzle/0028_dizzy_norrin_radd.sql).
THEOREM PartitionsAlwaysHold == PartitionSpec => []PartitionsHold
BY HoldingPartitions, PartitionInvariant, PTL

-----------------------------------------------------------------------------
(* The sweeps: their inductive invariant.                                  *)

\* Rows of nodes and of claims.
NodeRows == [there : {FALSE}] \union
            [there : {TRUE}, task : BOOLEAN, age : Ages, mark : BOOLEAN, alias : BOOLEAN]
NoteRows == {NoNote, RemovedNote} \union
            [there : {TRUE}, kind : Kinds, ends : SUBSET Things, by : Things \union {NoThing},
             age : Ages, active : BOOLEAN]

Sweeps == [at : {"idle", "list", "begin", "select", "nodes", "rows", "look", "delete"},
           kind : {"none", "orphan", "stale"}, chosen : SUBSET Things, fresh : SUBSET Things,
           suspect : BOOLEAN, version : Nat]

PruneTypes ==
    /\ thing \in [Things -> NodeRows] /\ note \in [Notes -> NoteRows]
    /\ named \subseteq Things /\ writes \in 0 .. MaxWrites
    /\ upload \in [live : BOOLEAN, version : Nat, stored : BOOLEAN, child : BOOLEAN]
    /\ sweep \in Sweeps

\* The user is no task.
NoTaskIsTheUser == \A n \in Things : There(n) /\ thing[n].mark => ~thing[n].task

\* The foreign keys of claims.
Attached ==
    \A c \in Notes : note[c].there =>
        /\ note[c].ends # {} /\ \A n \in note[c].ends : There(n)
        /\ note[c].by = NoThing \/ There(note[c].by)

\* What a sweep is at its steps: what it deletes it has chosen, and what it has
\* locked is there.
InOrder ==
    /\ sweep.fresh \subseteq sweep.chosen
    /\ sweep.at # "delete" => sweep.fresh = {}
    /\ sweep.at \in {"list", "begin"} => sweep.kind = "orphan"
    /\ sweep.at # "idle" => sweep.kind \in {"orphan", "stale"}
    /\ sweep.at \in {"rows", "look", "delete"} => \A n \in sweep.chosen : There(n)

\* What the store was asked about is told from the row: bytes that were missing
\* are missing as long as the version is the one that was scanned.
StillMissing ==
    /\ sweep.at \in {"list", "begin"} => sweep.version <= upload.version
    /\ sweep.at = "begin" /\ sweep.suspect /\ upload.version = sweep.version => ~upload.stored

\* What was disposable under the locks is until they are released.
StillDisposable == sweep.at = "delete" => \A n \in sweep.fresh : Candidate(n)

PruneInv ==
    /\ PruneTypes /\ NoTaskIsTheUser /\ Attached /\ InOrder /\ StillMissing /\ StillDisposable

-----------------------------------------------------------------------------
(* Rows.                                                                   *)

\* What a claim row that is there consists of, and one that is not.
LEMMA NoteShape ==
    ASSUME PruneTypes, NEW c \in Notes
    PROVE  /\ note[c] \in NoteRows
           /\ note[c].there \in BOOLEAN
           /\ note[c].there =>
                note[c] \in [there : {TRUE}, kind : Kinds, ends : SUBSET Things,
                             by : Things \union {NoThing}, age : Ages, active : BOOLEAN]
<1>1. note[c] \in NoteRows
  BY DEF PruneTypes
<1>2. NoNote.there = FALSE /\ RemovedNote.there = FALSE
  BY DEF NoNote, RemovedNote
<1>3. CASE note[c] \in {NoNote, RemovedNote}
  BY <1>1, <1>2, <1>3
<1>4. CASE note[c] \in [there : {TRUE}, kind : Kinds, ends : SUBSET Things,
                       by : Things \union {NoThing}, age : Ages, active : BOOLEAN]
  BY <1>1, <1>4
<1> QED
  BY <1>1, <1>3, <1>4 DEF NoteRows

\* What a node row that is there consists of.
LEMMA NodeShape ==
    ASSUME PruneTypes, NEW n \in Things
    PROVE  /\ thing[n] \in NodeRows
           /\ thing[n].there \in BOOLEAN
           /\ thing[n].there =>
                thing[n] \in [there : {TRUE}, task : BOOLEAN, age : Ages, mark : BOOLEAN,
                              alias : BOOLEAN]
BY DEF PruneTypes, NodeRows

-----------------------------------------------------------------------------
(* What a sweep judges a node by.                                          *)

\* A claim that speaks for a node is there, and refers to it.
LEMMA Speaking ==
    ASSUME NEW n \in Things
    PROVE  /\ On(n) \subseteq AnyOf(n) /\ Active(n) \subseteq On(n) /\ AnyOf(n) \subseteq Notes
           /\ \A c \in Notes : c \in On(n) <=> note[c].there /\ n \in note[c].ends
           /\ \A c \in On(n) : c \in Active(n) <=> note[c].active
BY DEF On, AnyOf, Active

\* A node is judged by its row, its claims and the user's names: as long as they
\* stay, so does the verdict.
LEMMA VerdictStands ==
    ASSUME NEW n \in Things, sweep'.kind = sweep.kind,
           sweep.kind = "orphan" \/ named' = named,
           thing'[n] = thing[n],
           \A c \in Notes : note'[c] = note[c] \/ (c \notin AnyOf(n) /\ c \notin AnyOf(n)')
    PROVE  Candidate(n)' <=> Candidate(n)
<1>1. AnyOf(n)' = AnyOf(n)
  BY DEF AnyOf
<1>2. There(n)' <=> There(n)
  BY DEF There
<1>3. CASE sweep.kind = "orphan"
  BY <1>1, <1>2, <1>3 DEF Candidate, OrphanCandidate
<1>4. CASE sweep.kind # "orphan"
  <2>1. On(n)' = On(n)
    BY DEF AnyOf, On
  <2>2. \A c \in On(n) : note'[c] = note[c]
    BY DEF AnyOf, On
  <2>3. Active(n)' = Active(n) /\ \A c \in Active(n) : note'[c] = note[c]
    BY <2>1, <2>2 DEF Active
  <2>4. {note[c].age : c \in On(n)}' = {note[c].age : c \in On(n)}
    BY <2>1, <2>2
  <2>5. Idleness(n)' = Idleness(n)
    BY <2>4 DEF Idleness
  <2>6. IsProtected(n)' <=> IsProtected(n)
    BY <1>4, <2>3 DEF IsProtected
  <2>7. IsReference(n)' <=> IsReference(n)
    BY <2>3 DEF IsReference
  <2>8. (\E c \in Active(n) : note[c].kind \notin Ungrounded)'
           <=> (\E c \in Active(n) : note[c].kind \notin Ungrounded)
    BY <2>3
  <2>9. ScoresAtLeast(n, Threshold)' <=> ScoresAtLeast(n, Threshold)
    BY <2>1, <2>3, <2>5, <2>8 DEF ScoresAtLeast
  <2> QED
    BY <1>2, <1>4, <2>5, <2>6, <2>7, <2>9 DEF Candidate, StaleCandidate
<1> QED
  BY <1>3, <1>4

-----------------------------------------------------------------------------
(* The invariant at the beginning.                                         *)

\* The claims of long ago have an age.
LEMMA OldestIsAnAge == Max(Ages) \in Ages
<1>1. PICK oldest \in Ages : \A g \in Ages : g <= oldest
  BY PruneAssumption
<1>2. \A g \in Ages : oldest >= g
  BY <1>1, PruneAssumption
<1> QED
  BY <1>2 DEF Max

\* The invariant holds where a behaviour begins.
LEMMA InitInv == PruneInit => PruneInv
<1> SUFFICES ASSUME PruneInit PROVE PruneInv
  OBVIOUS
<1> USE DEF PruneInit
<1>0. ASSUME NEW n \in Things
      PROVE  thing[n] \in [there : {TRUE}, task : BOOLEAN, age : Ages, mark : BOOLEAN,
                           alias : BOOLEAN]
  <2>1. PICK t \in BOOLEAN, g \in Ages, m \in BOOLEAN, l \in BOOLEAN :
           thing[n] = [there |-> TRUE, task |-> t, age |-> g, mark |-> m, alias |-> l]
    OBVIOUS
  <2> QED
    BY <2>1
<1>1. thing \in [Things -> NodeRows] /\ \A n \in Things : There(n)
  <2>1. DOMAIN thing = Things /\ thing = [n \in DOMAIN thing |-> thing[n]]
    OBVIOUS
  <2> QED
    BY <1>0, <2>1 DEF NodeRows, There
<1>2. ASSUME NEW c \in Notes
      PROVE  /\ note[c] \in NoteRows
             /\ note[c].there => note[c].ends # {} /\ note[c].ends \subseteq Things /\ note[c].by = NoThing
  <2>1. CASE note[c] = NoNote
    BY <2>1 DEF NoteRows, NoNote
  <2>2. CASE \E k \in Kinds, n \in Things, a \in BOOLEAN : note[c] = OfLongAgo(k, n, a)
    <3>1. PICK k \in Kinds, n \in Things, a \in BOOLEAN : note[c] = OfLongAgo(k, n, a)
      BY <2>2
    <3>2. note[c] = [there |-> TRUE, kind |-> k, ends |-> {n}, by |-> NoThing, age |-> Max(Ages),
                     active |-> a]
      BY <3>1 DEF Note, OfLongAgo
    <3> QED
      BY <3>2, OldestIsAnAge DEF NoteRows
  <2> QED
    BY <2>1, <2>2
<1>3. note \in [Notes -> NoteRows]
  BY <1>2
<1>4. sweep \in Sweeps /\ sweep.at = "idle" /\ sweep.fresh = {} /\ sweep.chosen = {}
  BY DEF Quiet, Sweeps
<1>8. upload \in [live : BOOLEAN, version : Nat, stored : BOOLEAN, child : BOOLEAN]
  <2>1. PICK b \in BOOLEAN, c \in BOOLEAN :
           upload = [live |-> TRUE, version |-> 0, stored |-> b, child |-> c]
    OBVIOUS
  <2> QED
    BY <2>1
<1>5. PruneTypes
  BY <1>8, <1>1, <1>3, <1>4, PruneAssumption DEF PruneTypes
<1>6. NoTaskIsTheUser /\ Attached
  BY <1>1, <1>2 DEF NoTaskIsTheUser, Attached
<1>7. InOrder /\ StillMissing /\ StillDisposable
  BY <1>4 DEF InOrder, StillMissing, StillDisposable
<1> QED
  BY <1>5, <1>6, <1>7 DEF PruneInv

-----------------------------------------------------------------------------
(* The steps of the sweeps.                                                *)

\* A step of a sweep that only moves the sweep keeps the rows as they were.
LEMMA OnlySweepMoves ==
    ASSUME PruneInv, UNCHANGED <<thing, note, named, upload, writes>>, sweep' \in Sweeps,
           InOrder', StillMissing', StillDisposable'
    PROVE  PruneInv'
<1>1. PruneTypes'
  BY DEF PruneInv, PruneTypes
<1>2. NoTaskIsTheUser' /\ Attached'
  BY DEF PruneInv, NoTaskIsTheUser, Attached, There
<1> QED
  BY <1>1, <1>2 DEF PruneInv

\* A sweep that begins has chosen nothing yet, and knows the version of the row
\* it scans.
LEMMA SweepStarts == ASSUME PruneInv, ScanUploads \/ BeginStale PROVE PruneInv'
<1>1. CASE ScanUploads
  <2>1. sweep' = [at |-> "list", kind |-> "orphan", chosen |-> {}, fresh |-> {},
                  suspect |-> upload.live, version |-> upload.version]
    BY <1>1 DEF ScanUploads, Quiet
  <2>2. upload' = upload /\ upload.version \in Nat /\ upload.live \in BOOLEAN
    BY <1>1 DEF ScanUploads, PruneInv, PruneTypes
  <2>3. sweep' \in Sweeps
    BY <2>1, <2>2 DEF Sweeps
  <2>4. InOrder' /\ StillMissing' /\ StillDisposable'
    BY <2>1, <2>2 DEF InOrder, StillMissing, StillDisposable
  <2> QED
    BY <1>1, <2>3, <2>4, OnlySweepMoves DEF ScanUploads
<1>2. CASE BeginStale
  <2>1. sweep' = [at |-> "select", kind |-> "stale", chosen |-> {}, fresh |-> {},
                  suspect |-> FALSE, version |-> 0]
    BY <1>2 DEF BeginStale, Quiet
  <2>2. sweep' \in Sweeps
    BY <2>1 DEF Sweeps
  <2>3. InOrder' /\ StillMissing' /\ StillDisposable'
    BY <2>1 DEF InOrder, StillMissing, StillDisposable
  <2> QED
    BY <1>2, <2>2, <2>3, OnlySweepMoves DEF BeginStale
<1> QED
  BY <1>1, <1>2

\* The answer of the store is about the version that was scanned, or an older
\* one.
LEMMA ListUploadsInv == ASSUME PruneInv, ListUploads PROVE PruneInv'
<1>1. sweep \in Sweeps /\ upload.stored \in BOOLEAN
  BY DEF PruneInv, PruneTypes
<1>2. DEFINE still == sweep.suspect /\ ~upload.stored
<1>3. still \in BOOLEAN /\ (still => ~upload.stored)
  OBVIOUS
<1>4. sweep' = [sweep EXCEPT !.at = "begin", !.suspect = still] /\ sweep.at = "list"
  BY DEF ListUploads
<1> HIDE DEF still
<1>5. /\ sweep' \in Sweeps /\ sweep'.at = "begin" /\ sweep'.kind = sweep.kind
      /\ sweep'.chosen = sweep.chosen /\ sweep'.fresh = sweep.fresh
      /\ sweep'.suspect = still /\ sweep'.version = sweep.version
  BY <1>1, <1>3, <1>4 DEF Sweeps
<1>6. InOrder'
  BY <1>4, <1>5 DEF PruneInv, InOrder
<1>7. StillMissing'
  BY <1>3, <1>4, <1>5 DEF PruneInv, StillMissing, ListUploads
<1>8. StillDisposable'
  BY <1>5 DEF StillDisposable
<1> QED
  BY <1>5, <1>6, <1>7, <1>8, OnlySweepMoves DEF ListUploads

\* A sweep that is over owes nothing.
LEMMA QuietInv == ASSUME sweep' = Quiet PROVE sweep' \in Sweeps /\ InOrder' /\ StillMissing' /\ StillDisposable'
<1>1. sweep' = [at |-> "idle", kind |-> "none", chosen |-> {}, fresh |-> {},
                suspect |-> FALSE, version |-> 0]
  BY DEF Quiet
<1>2. sweep' \in Sweeps
  BY <1>1 DEF Sweeps
<1> QED
  BY <1>1, <1>2 DEF InOrder, StillMissing, StillDisposable

\* Giving a source up ends what the scan is relied on for.
LEMMA TombstoneMissingInv == ASSUME PruneInv, TombstoneMissing PROVE PruneInv'
<1>1. /\ PruneTypes /\ sweep \in Sweeps /\ sweep.at = "begin"
      /\ upload \in [live : BOOLEAN, version : Nat, stored : BOOLEAN, child : BOOLEAN]
  BY DEF PruneInv, PruneTypes, TombstoneMissing
<1>2. UNCHANGED <<thing, note, named, writes>>
  BY DEF TombstoneMissing
<1>3. upload' \in [live : BOOLEAN, version : Nat, stored : BOOLEAN, child : BOOLEAN]
  BY <1>1 DEF TombstoneMissing
<1>4. sweep' \in Sweeps /\ InOrder' /\ StillMissing' /\ StillDisposable'
  <2>1. CASE sweep' = Quiet
    BY <2>1, QuietInv
  <2>2. CASE sweep' = [sweep EXCEPT !.at = "select"]
    <3>1. /\ sweep' \in Sweeps /\ sweep'.at = "select" /\ sweep'.kind = sweep.kind
          /\ sweep'.chosen = sweep.chosen /\ sweep'.fresh = sweep.fresh
      BY <1>1, <2>2 DEF Sweeps
    <3> QED
      BY <1>1, <3>1 DEF PruneInv, InOrder, StillMissing, StillDisposable
  <2> QED
    BY <2>1, <2>2 DEF TombstoneMissing
<1>5. PruneTypes'
  BY <1>1, <1>2, <1>3, <1>4 DEF PruneTypes
<1>6. NoTaskIsTheUser' /\ Attached'
  BY <1>2 DEF PruneInv, NoTaskIsTheUser, Attached, There
<1> QED
  BY <1>4, <1>5, <1>6 DEF PruneInv

\* What is selected is not yet relied on.
LEMMA SelectInv == ASSUME PruneInv, Select PROVE PruneInv'
<1>1. sweep \in Sweeps /\ sweep.at = "select" /\ UNCHANGED <<thing, note, named, upload, writes>>
  BY DEF PruneInv, PruneTypes, Select
<1>2. CASE sweep' = Quiet
  BY <1>1, <1>2, QuietInv, OnlySweepMoves
<1>3. CASE sweep' # Quiet
  <2>1. PICK some \in SUBSET Things : sweep' = [sweep EXCEPT !.at = "nodes", !.chosen = some]
    BY <1>3 DEF Select
  <2>2. /\ sweep' \in Sweeps /\ sweep'.at = "nodes" /\ sweep'.kind = sweep.kind
        /\ sweep'.chosen = some /\ sweep'.fresh = sweep.fresh
    BY <1>1, <2>1 DEF Sweeps
  <2>3. InOrder' /\ StillMissing' /\ StillDisposable'
    BY <1>1, <2>2 DEF PruneInv, InOrder, StillMissing, StillDisposable
  <2> QED
    BY <1>1, <2>2, <2>3, OnlySweepMoves
<1> QED
  BY <1>2, <1>3

\* Locking the nodes leaves those that are still there.
LEMMA LocksInv == ASSUME PruneInv, LockNodes \/ LockRows PROVE PruneInv'
<1>1. /\ sweep \in Sweeps /\ sweep.at \in {"nodes", "rows"} /\ sweep.fresh = {}
      /\ UNCHANGED <<thing, note, named, upload, writes>>
  BY DEF PruneInv, PruneTypes, InOrder, LockNodes, LockRows
<1>2. CASE LockNodes
  <2>1. DEFINE present == {n \in sweep.chosen : There(n)}
  <2>2. present \subseteq Things /\ \A n \in present : There(n)
    BY <1>1 DEF Sweeps
  <2>3. sweep' = [sweep EXCEPT !.at = "rows", !.chosen = present]
    BY <1>2 DEF LockNodes
  <2> HIDE DEF present
  <2>4. /\ sweep' \in Sweeps /\ sweep'.at = "rows" /\ sweep'.kind = sweep.kind
        /\ sweep'.chosen = present /\ sweep'.fresh = {}
    BY <1>1, <2>2, <2>3 DEF Sweeps
  <2>5. InOrder' /\ StillMissing' /\ StillDisposable'
    BY <1>1, <2>2, <2>4 DEF PruneInv, InOrder, StillMissing, StillDisposable, There
  <2> QED
    BY <1>1, <2>4, <2>5, OnlySweepMoves
<1>3. CASE LockRows
  <2>1. sweep' = [sweep EXCEPT !.at = "look"] /\ sweep.at = "rows"
    BY <1>3 DEF LockRows
  <2>2. /\ sweep' \in Sweeps /\ sweep'.at = "look" /\ sweep'.kind = sweep.kind
        /\ sweep'.chosen = sweep.chosen /\ sweep'.fresh = {}
    BY <1>1, <2>1 DEF Sweeps
  <2>3. InOrder' /\ StillMissing' /\ StillDisposable'
    BY <1>1, <2>1, <2>2 DEF PruneInv, InOrder, StillMissing, StillDisposable, There
  <2> QED
    BY <1>1, <2>2, <2>3, OnlySweepMoves
<1> QED
  BY <1>2, <1>3

\* Looking again under the locks finds what is disposable now.
LEMMA LookAgainInv == ASSUME PruneInv, LookAgain PROVE PruneInv'
<1>1. /\ sweep \in Sweeps /\ sweep.at = "look"
      /\ UNCHANGED <<thing, note, named, upload, writes>>
  BY DEF PruneInv, PruneTypes, LookAgain
<1>2. DEFINE still == {n \in sweep.chosen : Candidate(n)}
<1>3. still \subseteq sweep.chosen /\ \A n \in still : n \in Things /\ Candidate(n)
  BY <1>1 DEF Sweeps
<1>4. sweep' = [sweep EXCEPT !.at = "delete", !.fresh = still]
  BY DEF LookAgain
<1> HIDE DEF still
<1>5. /\ sweep' \in Sweeps /\ sweep'.at = "delete" /\ sweep'.kind = sweep.kind
      /\ sweep'.chosen = sweep.chosen /\ sweep'.fresh = still
  BY <1>1, <1>3, <1>4 DEF Sweeps
<1>6. InOrder' /\ StillMissing'
  BY <1>1, <1>3, <1>5 DEF PruneInv, InOrder, StillMissing, There
<1>7. ASSUME NEW n \in still PROVE Candidate(n)'
  BY <1>1, <1>3, <1>5, <1>7, VerdictStands
<1>8. StillDisposable'
  BY <1>5, <1>7 DEF StillDisposable
<1> QED
  BY <1>1, <1>5, <1>6, <1>8, OnlySweepMoves

\* A deletion takes the claims about the nodes with it, and the others forget
\* the nodes that asserted them.
LEMMA DeleteNodesInv == ASSUME PruneInv, DeleteNodes PROVE PruneInv'
<1>1. PruneTypes /\ NoTaskIsTheUser /\ Attached
  BY DEF PruneInv
<1>2. PICK gone \in SUBSET Things :
         /\ thing' = [n \in Things |-> IF n \in gone THEN [there |-> FALSE] ELSE thing[n]]
         /\ note' = Cascaded(gone)
  <2>1. DEFINE left == IF sweep.kind = "orphan" THEN {n \in sweep.fresh : OrphanCandidate(n)}
                       ELSE sweep.fresh
  <2>2. left \in SUBSET Things
    BY <1>1 DEF PruneTypes, Sweeps
  <2> QED
    BY <2>2 DEF DeleteNodes
<1>3. sweep' = Quiet /\ UNCHANGED <<named, upload, writes>>
  BY DEF DeleteNodes
<1>4. ASSUME NEW n \in Things
      PROVE  /\ thing'[n] \in NodeRows
             /\ thing'[n].there => thing'[n] = thing[n]
             /\ n \notin gone => thing'[n] = thing[n]
  BY <1>1, <1>2 DEF PruneTypes, NodeRows
<1>5. ASSUME NEW c \in Notes
      PROVE  /\ note'[c] \in NoteRows
             /\ note'[c].there =>
                  /\ note[c].there /\ note'[c].ends = note[c].ends /\ note[c].ends \cap gone = {}
                  /\ note'[c].by = NoThing \/ (note'[c].by = note[c].by /\ note[c].by \notin gone)
  <2>1. /\ note[c] \in NoteRows
        /\ note[c].there => note[c] \in [there : {TRUE}, kind : Kinds, ends : SUBSET Things,
                                         by : Things \union {NoThing}, age : Ages, active : BOOLEAN]
    BY <1>1, NoteShape
  <2>2. CASE ~note[c].there
    BY <1>2, <2>1, <2>2 DEF Cascaded
  <2>3. CASE note[c].there /\ note[c].ends \cap gone # {}
    BY <1>2, <2>3 DEF Cascaded, NoteRows, RemovedNote
  <2>4. CASE note[c].there /\ note[c].ends \cap gone = {} /\ note[c].by \in gone
    <3>1. note'[c] = [note[c] EXCEPT !.by = NoThing]
      BY <1>2, <2>4 DEF Cascaded
    <3>2. /\ note'[c] \in [there : {TRUE}, kind : Kinds, ends : SUBSET Things,
                           by : Things \union {NoThing}, age : Ages, active : BOOLEAN]
          /\ note'[c].ends = note[c].ends /\ note'[c].by = NoThing
      BY <2>1, <2>4, <3>1
    <3> QED
      BY <2>4, <3>2 DEF NoteRows
  <2>5. CASE note[c].there /\ note[c].ends \cap gone = {} /\ note[c].by \notin gone
    BY <1>2, <2>1, <2>5 DEF Cascaded
  <2> QED
    BY <2>2, <2>3, <2>4, <2>5
<1>6. thing' \in [Things -> NodeRows] /\ note' \in [Notes -> NoteRows]
  BY <1>2, <1>4, <1>5 DEF Cascaded
<1>7. PruneTypes'
  BY <1>1, <1>3, <1>6, QuietInv DEF PruneTypes
<1>8. NoTaskIsTheUser'
  BY <1>1, <1>4 DEF NoTaskIsTheUser, There
<1>9. Attached'
  <2> SUFFICES ASSUME NEW c \in Notes, note'[c].there
               PROVE  /\ note'[c].ends # {} /\ \A n \in note'[c].ends : thing'[n].there
                      /\ note'[c].by = NoThing \/ thing'[note'[c].by].there
    BY DEF Attached, There
  <2>1. /\ note[c].there /\ note'[c].ends = note[c].ends /\ note[c].ends \cap gone = {}
        /\ note'[c].by = NoThing \/ (note'[c].by = note[c].by /\ note[c].by \notin gone)
    BY <1>5
  <2>2. note[c].ends \subseteq Things /\ note[c].by \in Things \union {NoThing}
    BY <1>1, <2>1, NoteShape
  <2> QED
    BY <1>1, <1>4, <2>1, <2>2 DEF Attached, There
<1> QED
  BY <1>3, <1>7, <1>8, <1>9, QuietInv DEF PruneInv

-----------------------------------------------------------------------------
(* The steps of everyone else.                                             *)

\* A write beside a sweep keeps what the sweep relies on if it leaves alone what
\* the sweep has locked.
LEMMA BesideASweep ==
    ASSUME PruneInv, sweep' = sweep,
           thing' \in [Things -> NodeRows], note' \in [Notes -> NoteRows], named' \subseteq Things,
           \A n \in Things : thing'[n].there = thing[n].there,
           \A n \in Things : HoldsNode(n) => thing'[n] = thing[n],
           HoldsSelf => named' = named,
           \A c \in Notes : note'[c] = note[c] \/
              \A n \in Things : sweep.at = "delete" /\ HoldsNode(n) => c \notin AnyOf(n) /\ c \notin AnyOf(n)'
    PROVE  InOrder' /\ StillDisposable'
<1>1. InOrder'
  BY DEF PruneInv, PruneTypes, Sweeps, InOrder, There
<1>2. ASSUME NEW n \in sweep.fresh, sweep.at = "delete" PROVE Candidate(n)'
  <2>1. n \in Things /\ HoldsNode(n)
    BY <1>2 DEF PruneInv, PruneTypes, Sweeps, InOrder, HoldsNode
  <2>2. sweep.kind = "orphan" \/ named' = named
    BY <1>2 DEF PruneInv, InOrder, HoldsSelf
  <2>3. \A c \in Notes : note'[c] = note[c] \/ (c \notin AnyOf(n) /\ c \notin AnyOf(n)')
    BY <1>2, <2>1
  <2>4. Candidate(n)
    BY <1>2 DEF PruneInv, StillDisposable
  <2> QED
    BY <2>1, <2>2, <2>3, <2>4, VerdictStands
<1> QED
  BY <1>1, <1>2 DEF StillDisposable

\* A file replaced moves the version on, and lost bytes are not found again.
LEMMA UploadInv ==
    ASSUME PruneInv, ReplaceUpload \/ AttachToUpload \/ LoseBytes
    PROVE  PruneInv'
<1>1. /\ PruneTypes /\ upload \in [live : BOOLEAN, version : Nat, stored : BOOLEAN, child : BOOLEAN]
      /\ UNCHANGED <<thing, note, named, sweep>> /\ writes \in Nat /\ writes' = writes + 1
      /\ writes < MaxWrites
  BY DEF PruneInv, PruneTypes, ReplaceUpload, AttachToUpload, LoseBytes, Write
<1>2. /\ upload' \in [live : BOOLEAN, version : Nat, stored : BOOLEAN, child : BOOLEAN]
      /\ \/ upload'.version = upload.version /\ (upload'.stored => upload.stored)
         \/ upload'.version = upload.version + 1
  <2>1. CASE ReplaceUpload
    <3>1. PICK next \in Nat : next = upload.version + 1
      BY <1>1
    <3>2. upload' = [upload EXCEPT !.stored = TRUE, !.version = next]
      BY <2>1, <3>1 DEF ReplaceUpload
    <3>3. /\ upload' \in [live : BOOLEAN, version : Nat, stored : BOOLEAN, child : BOOLEAN]
          /\ upload'.version = next
      BY <1>1, <3>2
    <3> QED
      BY <3>1, <3>3
  <2>2. CASE AttachToUpload
    BY <1>1, <2>2 DEF AttachToUpload
  <2>3. CASE LoseBytes
    BY <1>1, <2>3 DEF LoseBytes
  <2> QED
    BY <2>1, <2>2, <2>3
<1>3. PruneTypes'
  BY <1>1, <1>2, PruneAssumption DEF PruneTypes
<1>4. NoTaskIsTheUser' /\ Attached'
  BY <1>1 DEF PruneInv, NoTaskIsTheUser, Attached, There
<1>5. sweep.version \in Nat
  BY <1>1 DEF PruneTypes, Sweeps
<1>6. StillMissing'
  BY <1>1, <1>2, <1>5 DEF PruneInv, StillMissing
<1>7. InOrder'
  BY <1>1 DEF PruneInv, InOrder, There
<1>8. StillDisposable'
  <2>1. ASSUME NEW n \in sweep.fresh, sweep.at = "delete" PROVE Candidate(n)'
    BY <1>1, <2>1, VerdictStands DEF PruneInv, PruneTypes, Sweeps, StillDisposable
  <2> QED
    BY <1>1, <2>1 DEF StillDisposable
<1> QED
  BY <1>3, <1>4, <1>6, <1>7, <1>8 DEF PruneInv

\* A write of a node, a claim or a name leaves the upload and the sweep alone.
LEMMA GraphWrite ==
    ASSUME PruneInv, UNCHANGED <<upload, sweep>>, Write,
           thing' \in [Things -> NodeRows], note' \in [Notes -> NoteRows], named' \subseteq Things
    PROVE  PruneTypes' /\ StillMissing'
BY PruneAssumption DEF PruneInv, PruneTypes, Write, StillMissing

\* An alias is not written while its node is locked.
LEMMA AliasInv == ASSUME PruneInv, NEW n \in Things, Alias(n) PROVE PruneInv'
<1>1. /\ PruneTypes /\ Write /\ UNCHANGED <<note, named, upload, sweep>>
      /\ thing[n].there /\ ~HoldsNode(n)
  BY DEF PruneInv, Alias, There
<1>2. thing[n] \in [there : {TRUE}, task : BOOLEAN, age : Ages, mark : BOOLEAN, alias : BOOLEAN]
  BY <1>1, NodeShape
<1>3. thing' = [thing EXCEPT ![n] = [thing[n] EXCEPT !.alias = ~thing[n].alias]]
  BY DEF Alias
<1>4. DEFINE row == [thing[n] EXCEPT !.alias = ~thing[n].alias]
<1>5. /\ row \in [there : {TRUE}, task : BOOLEAN, age : Ages, mark : BOOLEAN, alias : BOOLEAN]
      /\ row.mark = thing[n].mark /\ row.task = thing[n].task
  BY <1>2
<1> HIDE DEF row
<1>6. thing \in [Things -> NodeRows] /\ row \in NodeRows
  BY <1>1, <1>5 DEF PruneTypes, NodeRows
<1>7. thing' \in [Things -> NodeRows] /\ thing'[n] = row /\ \A m \in Things \ {n} : thing'[m] = thing[m]
  BY <1>3, <1>6 DEF row
<1>8. \A m \in Things : /\ thing'[m].there = thing[m].there
                        /\ thing'[m].mark /\ thing[m].there => thing[m].mark /\ thing'[m].task = thing[m].task
  BY <1>2, <1>5, <1>7
<1>9. PruneTypes' /\ StillMissing'
  BY <1>1, <1>7, GraphWrite DEF PruneTypes
<1>10. NoTaskIsTheUser' /\ Attached'
  BY <1>1, <1>8, NoteShape DEF PruneInv, NoTaskIsTheUser, Attached, There
<1>11. InOrder' /\ StillDisposable'
  BY <1>1, <1>7, <1>8, BesideASweep DEF PruneTypes
<1> QED
  BY <1>9, <1>10, <1>11 DEF PruneInv

\* The names of the user wait for a sweep that judges by them.
LEMMA SetUserSelfAliasesInv ==
    ASSUME PruneInv, NEW names \in SUBSET Things, SetUserSelfAliases(names)
    PROVE  PruneInv'
<1>1. /\ PruneTypes /\ Write /\ ~HoldsSelf /\ UNCHANGED <<note, upload, sweep>> /\ named' = names
      /\ \A n \in Things : There(n) /\ thing[n].mark => ~HoldsNode(n)
      /\ thing \in [Things -> NodeRows]
  BY DEF PruneInv, PruneTypes, SetUserSelfAliases
<1>2. ASSUME NEW n \in Things
      PROVE  /\ thing'[n] \in NodeRows /\ thing'[n].there = thing[n].there
             /\ HoldsNode(n) => thing'[n] = thing[n]
             /\ thing[n].there => thing'[n].mark = thing[n].mark /\ thing'[n].task = thing[n].task
  <2>1. CASE There(n) /\ thing[n].mark
    <3>1. thing[n] \in [there : {TRUE}, task : BOOLEAN, age : Ages, mark : BOOLEAN, alias : BOOLEAN]
      BY <1>1, <2>1, NodeShape DEF There
    <3>2. thing'[n] = [thing[n] EXCEPT !.alias = TRUE]
      BY <2>1 DEF SetUserSelfAliases
    <3>3. /\ thing'[n] \in [there : {TRUE}, task : BOOLEAN, age : Ages, mark : BOOLEAN, alias : BOOLEAN]
          /\ thing'[n].mark = thing[n].mark /\ thing'[n].task = thing[n].task
      BY <3>1, <3>2
    <3> QED
      BY <1>1, <2>1, <3>1, <3>3 DEF NodeRows
  <2>2. CASE ~(There(n) /\ thing[n].mark)
    BY <1>1, <2>2 DEF SetUserSelfAliases
  <2> QED
    BY <2>1, <2>2
<1>3. thing' \in [Things -> NodeRows]
  BY <1>2 DEF SetUserSelfAliases
<1>4. PruneTypes' /\ StillMissing'
  BY <1>1, <1>3, GraphWrite DEF PruneTypes
<1>5. NoTaskIsTheUser' /\ Attached'
  BY <1>1, <1>2, NoteShape DEF PruneInv, NoTaskIsTheUser, Attached, There
<1>6. InOrder' /\ StillDisposable'
  BY <1>1, <1>2, <1>3, BesideASweep DEF PruneTypes
<1> QED
  BY <1>4, <1>5, <1>6 DEF PruneInv

\* The update of a claim is not one of a claim that a sweep has locked.
LEMMA UpdateNoteInv == ASSUME PruneInv, NEW c \in Notes, UpdateNote(c) PROVE PruneInv'
<1>1. /\ PruneTypes /\ Write /\ UNCHANGED <<thing, named, upload, sweep>>
      /\ note[c].there /\ ~HoldsNote(c)
  BY DEF PruneInv, UpdateNote
<1>2. note[c] \in [there : {TRUE}, kind : Kinds, ends : SUBSET Things,
                   by : Things \union {NoThing}, age : Ages, active : BOOLEAN]
  BY <1>1, NoteShape
<1>3. DEFINE row == [note[c] EXCEPT !.active = ~note[c].active]
<1>4. /\ row \in [there : {TRUE}, kind : Kinds, ends : SUBSET Things,
                  by : Things \union {NoThing}, age : Ages, active : BOOLEAN]
      /\ row.ends = note[c].ends /\ row.by = note[c].by
  BY <1>2
<1>5. note' = [note EXCEPT ![c] = row]
  BY DEF UpdateNote
<1> HIDE DEF row
<1>6. note \in [Notes -> NoteRows] /\ row \in NoteRows
  BY <1>1, <1>4 DEF PruneTypes, NoteRows
<1>7. note' \in [Notes -> NoteRows] /\ note'[c] = row /\ \A d \in Notes \ {c} : note'[d] = note[d]
  BY <1>5, <1>6
<1>8. PruneTypes' /\ StillMissing'
  BY <1>1, <1>7, GraphWrite DEF PruneTypes
<1>9. Attached'
  <2> SUFFICES ASSUME NEW d \in Notes, note'[d].there
               PROVE  /\ note'[d].ends # {} /\ \A n \in note'[d].ends : thing'[n].there
                      /\ note'[d].by = NoThing \/ thing'[note'[d].by].there
    BY DEF Attached, There
  <2>1. note[d].there /\ note'[d].ends = note[d].ends /\ note'[d].by = note[d].by
    BY <1>1, <1>4, <1>7
  <2> QED
    BY <1>1, <2>1 DEF PruneInv, Attached, There
<1>10. NoTaskIsTheUser'
  BY <1>1 DEF PruneInv, NoTaskIsTheUser, There
<1>11. ASSUME NEW n \in Things, sweep.at = "delete", HoldsNode(n)
       PROVE  c \notin AnyOf(n) /\ c \notin AnyOf(n)'
  <2>1. n \in sweep.chosen
    BY <1>11 DEF HoldsNode
  <2>2. c \notin AnyOf(n)
    BY <1>1, <1>11, <2>1 DEF HoldsNote
  <2> QED
    BY <1>1, <1>4, <1>7, <2>2 DEF AnyOf
<1>12. InOrder' /\ StillDisposable'
  <2>1. /\ \A n \in Things : thing'[n].there = thing[n].there /\ thing'[n] = thing[n]
        /\ thing' \in [Things -> NodeRows] /\ named' \subseteq Things
    BY <1>1 DEF PruneTypes
  <2>2. \A d \in Notes : note'[d] = note[d] \/
           \A n \in Things : sweep.at = "delete" /\ HoldsNode(n) => d \notin AnyOf(n) /\ d \notin AnyOf(n)'
    BY <1>7, <1>11
  <2> QED
    BY <1>1, <1>7, <2>1, <2>2, BesideASweep
<1> QED
  BY <1>8, <1>9, <1>10, <1>12 DEF PruneInv

\* A claim inserted refers to nodes that no sweep has locked.
LEMMA InsertNoteInv ==
    ASSUME PruneInv, NEW kind \in Kinds, NEW ends \in SUBSET Things, ends # {},
           NEW by \in Things \union {NoThing}, NEW age \in Ages, InsertNote(kind, ends, by, age)
    PROVE  PruneInv'
<1>1. /\ PruneTypes /\ Write /\ UNCHANGED <<thing, named, upload, sweep>>
      /\ \A n \in (ends \union {by}) \ {NoThing} : There(n) /\ ~HoldsNode(n)
  BY DEF PruneInv, InsertNote
<1>2. PICK c \in Notes : /\ Free(c)
                         /\ note' = [note EXCEPT ![c] = Note(kind, ends, by, age)]
  BY DEF InsertNote
<1>3. DEFINE row == Note(kind, ends, by, age)
<1>4. /\ row \in [there : {TRUE}, kind : Kinds, ends : SUBSET Things,
                  by : Things \union {NoThing}, age : Ages, active : BOOLEAN]
      /\ row.ends = ends /\ row.by = by
  BY DEF Note
<1> HIDE DEF row
<1>5. note \in [Notes -> NoteRows] /\ row \in NoteRows
  BY <1>1, <1>4 DEF PruneTypes, NoteRows
<1>6. note' \in [Notes -> NoteRows] /\ note'[c] = row /\ \A d \in Notes \ {c} : note'[d] = note[d]
  BY <1>2, <1>5 DEF row
<1>7. PruneTypes' /\ StillMissing'
  BY <1>1, <1>6, GraphWrite DEF PruneTypes
<1>8. ends \subseteq Things /\ NoThing \notin Things
  BY PruneAssumption
<1>9. Attached'
  <2> SUFFICES ASSUME NEW d \in Notes, note'[d].there
               PROVE  /\ note'[d].ends # {} /\ \A n \in note'[d].ends : thing'[n].there
                      /\ note'[d].by = NoThing \/ thing'[note'[d].by].there
    BY DEF Attached, There
  <2>1. CASE d = c
    BY <1>1, <1>4, <1>6, <1>8, <2>1 DEF There
  <2>2. CASE d # c
    BY <1>1, <1>6, <2>2 DEF PruneInv, Attached, There
  <2> QED
    BY <2>1, <2>2
<1>10. NoTaskIsTheUser'
  BY <1>1 DEF PruneInv, NoTaskIsTheUser, There
<1>11. ASSUME NEW n \in Things, sweep.at = "delete", HoldsNode(n)
       PROVE  c \notin AnyOf(n) /\ c \notin AnyOf(n)'
  <2>1. n \notin ends /\ n # by
    BY <1>1, <1>8, <1>11
  <2>2. note[c].there = FALSE
    BY <1>2 DEF Free, NoNote
  <2> QED
    BY <1>4, <1>6, <2>1, <2>2 DEF AnyOf
<1>12. InOrder' /\ StillDisposable'
  <2>1. /\ \A n \in Things : thing'[n].there = thing[n].there /\ thing'[n] = thing[n]
        /\ thing' \in [Things -> NodeRows] /\ named' \subseteq Things
    BY <1>1 DEF PruneTypes
  <2>2. \A d \in Notes : note'[d] = note[d] \/
           \A n \in Things : sweep.at = "delete" /\ HoldsNode(n) => d \notin AnyOf(n) /\ d \notin AnyOf(n)'
    BY <1>6, <1>11
  <2> QED
    BY <1>1, <1>6, <2>1, <2>2, BesideASweep
<1> QED
  BY <1>7, <1>9, <1>10, <1>12 DEF PruneInv

\* A status recovered is a claim inserted.
LEMMA RecoverStatusInv == ASSUME PruneInv, NEW n \in Things, RecoverStatus(n) PROVE PruneInv'
<1>1. InsertNote("guessed", {n}, NoThing, 0) /\ "guessed" \in Kinds /\ 0 \in Ages
  BY PruneAssumption DEF RecoverStatus, Kinds
<1> QED
  BY <1>1, InsertNoteInv

-----------------------------------------------------------------------------
(* The theorems.                                                           *)

\* Every step keeps the invariant.
LEMMA StepInv == PruneInv /\ [PruneNext]_pruneVars => PruneInv'
<1> SUFFICES ASSUME PruneInv, [PruneNext]_pruneVars PROVE PruneInv'
  OBVIOUS
<1>1. CASE ScanUploads \/ BeginStale
  BY <1>1, SweepStarts
<1>2. CASE ListUploads
  BY <1>2, ListUploadsInv
<1>3. CASE TombstoneMissing
  BY <1>3, TombstoneMissingInv
<1>4. CASE Select
  BY <1>4, SelectInv
<1>5. CASE LockNodes \/ LockRows
  BY <1>5, LocksInv
<1>6. CASE LookAgain
  BY <1>6, LookAgainInv
<1>7. CASE DeleteNodes
  BY <1>7, DeleteNodesInv
<1>8. ASSUME NEW kind \in Kinds, NEW s \in Things, NEW o \in Things,
             NEW by \in Things \union {NoThing}, NEW age \in Ages, InsertNote(kind, {s, o}, by, age)
      PROVE  PruneInv'
  BY <1>8, InsertNoteInv
<1>9. ASSUME NEW c \in Notes, UpdateNote(c) PROVE PruneInv'
  BY <1>9, UpdateNoteInv
<1>10. ASSUME NEW n \in Things, Alias(n) \/ RecoverStatus(n) PROVE PruneInv'
  BY <1>10, AliasInv, RecoverStatusInv
<1>11. ASSUME NEW names \in SUBSET Things, SetUserSelfAliases(names) PROVE PruneInv'
  BY <1>11, SetUserSelfAliasesInv
<1>12. CASE ReplaceUpload \/ AttachToUpload \/ LoseBytes
  BY <1>12, UploadInv
<1>13. CASE UNCHANGED pruneVars
  <2>1. UNCHANGED <<thing, note, named, upload, writes, sweep>>
    BY <1>13 DEF pruneVars
  <2>2. ASSUME NEW n \in sweep.fresh, sweep.at = "delete" PROVE Candidate(n)'
    BY <2>1, <2>2, VerdictStands DEF PruneInv, PruneTypes, Sweeps, StillDisposable
  <2>3. StillDisposable'
    BY <2>1, <2>2 DEF StillDisposable
  <2>4. sweep' \in Sweeps /\ InOrder' /\ StillMissing'
    BY <2>1 DEF PruneInv, PruneTypes, InOrder, StillMissing, There
  <2> QED
    BY <2>1, <2>3, <2>4, OnlySweepMoves
<1> QED
  BY <1>1, <1>2, <1>3, <1>4, <1>5, <1>6, <1>7, <1>8, <1>9, <1>10, <1>11, <1>12, <1>13
  DEF PruneNext

\* What a sweep relies on holds in every state, whoever writes beside it.
THEOREM PruneInvariant == PruneSpec => []PruneInv
<1>1. PruneInit => PruneInv
  BY InitInv
<1>2. PruneInv /\ [PruneNext]_pruneVars => PruneInv'
  BY StepInv
<1> QED
  BY <1>1, <1>2, PTL DEF PruneSpec

\* Every row is one the code can write, and every claim is about nodes that are
\* there, for any nodes, claims and ages.
THEOREM PruningIsTyped == PruneSpec => []PruneTypeOK
<1>1. PruneInv => PruneTypeOK
  <2> SUFFICES ASSUME PruneInv PROVE PruneTypeOK
    OBVIOUS
  <2>1. PruneTypes /\ NoTaskIsTheUser /\ Attached /\ InOrder
    BY DEF PruneInv
  <2>2. \A n \in Things : ~There(n) \/ (thing[n].age \in Ages /\ (thing[n].mark => ~thing[n].task))
    BY <2>1, NodeShape DEF NoTaskIsTheUser, There
  <2>3. \A c \in Notes : note[c].there => note[c].kind \in Kinds /\ note[c].age \in Ages
    BY <2>1, NoteShape
  <2> QED
    BY <2>1, <2>2, <2>3 DEF PruneTypeOK, PruneTypes, Sweeps, Attached, InOrder
<1> QED
  BY <1>1, PruneInvariant, PTL

\* Whatever others write while a sweep selects, locks and looks again: the nodes
\* it deletes are disposable in the state it commits to, and a source is given up
\* only while the store has no bytes of it and it has no child.
THEOREM PruningIsSafe == PruneSpec => OnlyDisposableIsPruned
<1>1. PruneInv /\ [PruneNext]_pruneVars => [DisposableWhenPruned]_pruneVars
  <2> SUFFICES ASSUME PruneInv, [PruneNext]_pruneVars PROVE DisposableWhenPruned
    OBVIOUS
  <2>1. CASE DeleteNodes
    <3>1. upload' = upload /\ sweep.at = "delete" /\ sweep.fresh \subseteq Things
      BY <2>1 DEF DeleteNodes, PruneInv, PruneTypes, Sweeps
    <3>2. ASSUME NEW n \in Things, There(n), ~thing'[n].there
          PROVE  n \in sweep.fresh /\ (sweep.kind = "orphan" => OrphanCandidate(n))
      BY <2>1, <3>2 DEF DeleteNodes, There
    <3>3. \A n \in sweep.fresh : Candidate(n)
      BY <3>1 DEF PruneInv, StillDisposable
    <3> QED
      BY <3>1, <3>2, <3>3 DEF DisposableWhenPruned, Candidate
  <2>2. CASE TombstoneMissing
    <3>1. thing' = thing /\ sweep.at = "begin"
      BY <2>2 DEF TombstoneMissing
    <3>2. /\ upload \in [live : BOOLEAN, version : Nat, stored : BOOLEAN, child : BOOLEAN]
          /\ sweep.suspect \in BOOLEAN
      BY DEF PruneInv, PruneTypes, Sweeps
    <3>3. upload.live /\ ~upload'.live => sweep.suspect /\ UnchangedSince /\ ~upload.child
      BY <2>2, <3>2 DEF TombstoneMissing
    <3>4. upload.live /\ ~upload'.live => ~upload.stored /\ ~upload.child
      BY <3>1, <3>3 DEF PruneInv, StillMissing, UnchangedSince
    <3> QED
      BY <3>1, <3>4 DEF DisposableWhenPruned, There
  <2>3. CASE thing' = thing /\ upload' = upload
    BY <2>3 DEF DisposableWhenPruned, There
  <2>4. ASSUME NEW n \in Things, Alias(n) PROVE DisposableWhenPruned
    <3>1. thing \in [Things -> NodeRows] /\ thing[n] \in [there : {TRUE}, task : BOOLEAN, age : Ages,
                                                          mark : BOOLEAN, alias : BOOLEAN]
      BY <2>4, NodeShape DEF Alias, There, PruneInv, PruneTypes
    <3>2. upload' = upload /\ \A m \in Things : There(m) => thing'[m].there
      BY <2>4, <3>1 DEF Alias, There
    <3> QED
      BY <3>2 DEF DisposableWhenPruned
  <2>5. ASSUME NEW names \in SUBSET Things, SetUserSelfAliases(names) PROVE DisposableWhenPruned
    <3>1. upload' = upload /\ \A m \in Things : There(m) => thing'[m].there
      <4>1. upload' = upload
        BY <2>5 DEF SetUserSelfAliases
      <4>2. ASSUME NEW m \in Things, There(m) PROVE thing'[m].there
        <5>1. thing[m] \in [there : {TRUE}, task : BOOLEAN, age : Ages, mark : BOOLEAN, alias : BOOLEAN]
          BY <4>2, NodeShape DEF There, PruneInv
        <5> QED
          BY <2>5, <4>2, <5>1 DEF SetUserSelfAliases, There
      <4> QED
        BY <4>1, <4>2
    <3> QED
      BY <3>1 DEF DisposableWhenPruned
  <2>6. CASE ReplaceUpload \/ AttachToUpload \/ LoseBytes
    <3>1. thing' = thing /\ upload'.live = upload.live
      BY <2>6 DEF ReplaceUpload, AttachToUpload, LoseBytes, PruneInv, PruneTypes
    <3> QED
      BY <3>1 DEF DisposableWhenPruned, There
  <2>7. ASSUME NEW c \in Notes, UpdateNote(c) PROVE thing' = thing /\ upload' = upload
    BY <2>7 DEF UpdateNote
  <2>8. ASSUME NEW kind, NEW ends, NEW by, NEW age, InsertNote(kind, ends, by, age)
        PROVE  thing' = thing /\ upload' = upload
    BY <2>8 DEF InsertNote
  <2>9. ASSUME NEW n \in Things, RecoverStatus(n) PROVE thing' = thing /\ upload' = upload
    BY <2>8, <2>9 DEF RecoverStatus
  <2>10. CASE ScanUploads \/ ListUploads \/ BeginStale \/ Select \/ LockNodes \/ LockRows \/ LookAgain
    BY <2>3, <2>10 DEF ScanUploads, ListUploads, BeginStale, Select, LockNodes, LockRows, LookAgain
  <2>11. CASE UNCHANGED pruneVars
    BY <2>3, <2>11 DEF pruneVars
  <2> QED
    BY <2>1, <2>2, <2>3, <2>4, <2>5, <2>6, <2>7, <2>8, <2>9, <2>10, <2>11 DEF PruneNext
<1> QED
  BY <1>1, PruneInvariant, PTL DEF PruneSpec, OnlyDisposableIsPruned

=============================================================================
