---------------------------- MODULE Graph_proofs ----------------------------
(***************************************************************************)
(* Proofs about NodeMerge, for any nodes, claims and transactions; and     *)
(* about NodeMerge, PartitionMoves and GraphPruning side by side, as       *)
(* MCGraph has them.                                                       *)
(***************************************************************************)
EXTENDS MCGraph, GraphUpkeep_proofs, FiniteSetTheorems, TLAPS

-----------------------------------------------------------------------------
(* The inductive invariant.                                                *)

Optional == Nodes \union {None}

\* Rows of claims.
Claimed == [state : {"stored", "loop", "duplicate", "lost"}, subject : Nodes, object : Optional,
            value : Values \union {None}, first : Nodes \X Optional, active : BOOLEAN,
            raced : BOOLEAN]

\* A transaction is told from others by its id, whatever that is.
Activities(id) ==
    [id : {id}, kind : {"merge", "sweep", "insert"}, at : {"begun", "rewired", "linked"},
     keep : Optional, gone : SUBSET Nodes, new : Claimed \union {NoFact},
     moved : SUBSET Facts, loops : SUBSET Facts, doubles : SUBSET Facts,
     rows : SUBSET Facts, links : SUBSET Nodes, shares : SUBSET Nodes]

TypeInv ==
    /\ node \in [Nodes -> {"live", "merged", "swept", "deleted"}]
    /\ into \in [Nodes -> Optional] /\ redirect \in [Nodes -> Optional]
    /\ fact \in [Facts -> Claimed \union {NoFact}]
    /\ \A t \in tx : t \in Activities(t.id)
    /\ IsFiniteSet(tx) /\ Cardinality(tx) <= MaxOpen
    /\ torn \subseteq Nodes /\ opened \in 0 .. MaxOpened

\* A redirect is from a node that is gone to one that is there; a claim is about
\* nodes that are there.
Kept ==
    /\ \A n \in Nodes : redirect[n] # None => ~LiveNode(n) /\ LiveNode(redirect[n])
    /\ \A c \in Facts : Stored(c) => \A n \in Refers(c) : LiveNode(n)

\* A node has been taken in by another if it was consumed.
Consumed == \A n \in Nodes : into[n] # None <=> node[n] \in {"merged", "swept"}

\* The nodes that share an identity are one chain, which ends.
Ends(n, e) ==
    /\ e \in Path(n) /\ into[e] = None
    /\ \A m \in Path(n) : into[m] = None => m = e

Chained == \A n \in Nodes : \E e \in Nodes : Ends(n, e)

\* What a transaction has read and locked stays what it was.
StillStands(t) ==
    /\ t.kind = "insert" =>
          /\ t.new \in Claimed /\ t.new.state = "stored"
          /\ t.shares = {t.new.subject, t.new.object} \ {None}
          /\ t.gone = {} /\ t.at = "begun"
    /\ t.kind # "insert" => t.keep \in Nodes /\ t.keep \notin t.gone
    /\ t.kind # "insert" /\ t.at # "begun" => t.shares = {t.keep}
    /\ \A n \in t.shares : LiveNode(n)
    /\ t.at = "begun" => t.rows = {}
    /\ t.moved \union t.loops \union t.doubles \subseteq t.rows
    /\ \A c \in t.rows : fact[c] # NoFact
    /\ t.at # "linked" => t.links = {}
    /\ t.at = "linked" => /\ t.kind = "merge" /\ t.gone \subseteq t.links
                          /\ \A n \in t.links : n \in t.gone \/ redirect[n] \in t.gone

\* Whether the citation of a merged node must follow it.
Followed(n) ==
    /\ node[n] = "merged" /\ LiveNode(Carrier(n))
    /\ \A m \in Path(n) \ {Carrier(n)} : node[m] = "merged" /\ m \notin torn

\* A merge that has locked the redirects it must write has locked all of those
\* that have to follow.
LinksAll(t) ==
    t.at = "linked" => \A n \in Nodes :
        Followed(n) /\ redirect[n] \in t.gone => n \in t.links

Apart(t, u) == t.rows \cap u.rows = {} /\ t.links \cap u.links = {}

NodeInv ==
    /\ TypeInv /\ Kept /\ Consumed /\ Chained
    /\ \A t \in tx : StillStands(t) /\ LinksAll(t)
    /\ \A t, u \in tx : t # u => Apart(t, u)
    /\ CitationsFollow

-----------------------------------------------------------------------------
(* Chains of identity.                                                     *)

\* The least set with n that a function does not lead out of.
LEMMA Closure ==
    ASSUME NEW f \in [Nodes -> Optional], NEW n \in Nodes, NEW P,
           P = {m \in Nodes : \A S \in SUBSET Nodes :
                   n \in S /\ (\A k \in S : f[k] # None => f[k] \in S) => m \in S}
    PROVE  /\ P \subseteq Nodes /\ n \in P
           /\ \A m \in P : f[m] # None => f[m] \in P
           /\ \A S \in SUBSET Nodes :
                n \in S /\ (\A k \in S : f[k] # None => f[k] \in S) => P \subseteq S
<1>1. P \subseteq Nodes /\ n \in P
  OBVIOUS
<1>2. ASSUME NEW m \in P, f[m] # None PROVE f[m] \in P
  <2>1. f[m] \in Nodes
    BY <1>1, <1>2 DEF Optional
  <2>2. ASSUME NEW S \in SUBSET Nodes, n \in S, \A k \in S : f[k] # None => f[k] \in S
        PROVE  f[m] \in S
    BY <1>2, <2>2
  <2> QED
    BY <2>1, <2>2
<1>3. ASSUME NEW S \in SUBSET Nodes, n \in S, \A k \in S : f[k] # None => f[k] \in S
      PROVE  P \subseteq S
  BY <1>3
<1> QED
  BY <1>1, <1>2, <1>3

\* Path is that least set, of the function `into`.
LEMMA PathIs ==
    ASSUME into \in [Nodes -> Optional], NEW n \in Nodes
    PROVE  /\ Path(n) \subseteq Nodes /\ n \in Path(n)
           /\ \A m \in Path(n) : into[m] # None => into[m] \in Path(n)
           /\ \A S \in SUBSET Nodes :
                n \in S /\ (\A k \in S : into[k] # None => into[k] \in S) => Path(n) \subseteq S
BY Closure DEF Path

\* The same of the state after a step.
LEMMA PathIsNext ==
    ASSUME into' \in [Nodes -> Optional], NEW n \in Nodes
    PROVE  /\ Path(n)' \subseteq Nodes /\ n \in Path(n)'
           /\ \A m \in Path(n)' : into'[m] # None => into'[m] \in Path(n)'
           /\ \A S \in SUBSET Nodes :
                n \in S /\ (\A k \in S : into'[k] # None => into'[k] \in S) => Path(n)' \subseteq S
BY Closure DEF Path

\* The carrier of a node is the end of its chain.
LEMMA CarrierEnds ==
    ASSUME NEW n \in Nodes, NEW e \in Nodes, Ends(n, e), None \notin Nodes
    PROVE  Carrier(n) = e
BY DEF Ends, Carrier

\* The same of the state after a step.
LEMMA CarrierEndsNext ==
    ASSUME NEW n \in Nodes, NEW e \in Nodes, Ends(n, e)', None \notin Nodes
    PROVE  Carrier(n)' = e
BY DEF Ends, Carrier

\* Nodes taken in together lead to the one that took them in; the chains that
\* ended with one of them end there, the others stay.
LEMMA ChainsGrow ==
    ASSUME into \in [Nodes -> Optional], into' \in [Nodes -> Optional], None \notin Nodes,
           NEW keep \in Nodes, NEW taken \in SUBSET Nodes, keep \notin taken, into[keep] = None,
           \A n \in taken : into[n] = None /\ into'[n] = keep,
           \A n \in Nodes \ taken : into'[n] = into[n],
           NEW n \in Nodes, NEW e \in Nodes, Ends(n, e)
    PROVE  /\ e \notin taken => Path(n)' = Path(n) /\ Ends(n, e)'
           /\ e \in taken => Path(n)' = Path(n) \union {keep} /\ Ends(n, keep)'
<1>1. Path(n) \subseteq Path(n)'
  <2>1. \A k \in Path(n)' : into[k] # None => into[k] \in Path(n)'
    BY PathIsNext
  <2> QED
    BY <2>1, PathIs, PathIsNext
<1>2. \A m \in Path(n) : m \in taken => m = e
  BY PathIs DEF Ends
<1>3. CASE e \notin taken
  <2>1. \A k \in Path(n) : into'[k] = into[k]
    BY <1>2, <1>3, PathIs
  <2>2. Path(n)' \subseteq Path(n)
    BY <2>1, PathIs, PathIsNext
  <2>3. Path(n)' = Path(n)
    BY <1>1, <2>2
  <2> QED
    BY <1>3, <2>1, <2>3 DEF Ends
<1>4. CASE e \in taken
  <2>1. keep \in Path(n)'
    <3>1. e \in Path(n)' /\ into'[e] = keep /\ into'[e] # None
      BY <1>1, <1>4 DEF Ends
    <3> QED
      BY <3>1, PathIsNext
  <2>2. \A k \in Path(n) \ {e} : into'[k] = into[k] /\ into[k] # None
    BY <1>2, PathIs DEF Ends
  <2>3. Path(n)' \subseteq Path(n) \union {keep}
    <3> DEFINE S == Path(n) \union {keep}
    <3>1. S \in SUBSET Nodes /\ n \in S
      BY PathIs
    <3>2. \A k \in S : into'[k] # None => into'[k] \in S
      BY <1>4, <2>2, PathIs DEF Ends
    <3> HIDE DEF S
    <3>3. Path(n)' \subseteq S
      BY <3>1, <3>2, PathIsNext
    <3> QED
      BY <3>3 DEF S
  <2>4. Path(n)' = Path(n) \union {keep}
    BY <1>1, <2>1, <2>3
  <2>5. into'[keep] = None /\ \A m \in Path(n) : into'[m] # None
    BY <1>4, <2>2
  <2>6. Ends(n, keep)'
    BY <2>1, <2>4, <2>5 DEF Ends
  <2> QED
    BY <1>4, <2>4, <2>6
<1> QED
  BY <1>3, <1>4

-----------------------------------------------------------------------------
(* Steps that only open, advance or close a transaction.                   *)

\* Chains depend on `into` alone.
LEMMA PathStays ==
    ASSUME UNCHANGED into, NEW n \in Nodes
    PROVE  Path(n)' = Path(n) /\ Carrier(n)' = Carrier(n)
<1>1. Path(n)' = Path(n)
  BY DEF Path
<1> QED
  BY <1>1 DEF Carrier

\* What is not written stays followed as it was.
LEMMA FollowedStays ==
    ASSUME UNCHANGED <<node, into, torn>>, NEW n \in Nodes
    PROVE  Path(n)' = Path(n) /\ Carrier(n)' = Carrier(n) /\ Followed(n)' = Followed(n)
BY PathStays DEF Followed, LiveNode

\* A merge that has locked all it must keeps having done so while nodes and
\* redirects stay as they are.
LEMMA LinksAllStays ==
    ASSUME UNCHANGED <<node, into, redirect, torn>>, NEW t, LinksAll(t)
    PROVE  LinksAll(t)'
BY FollowedStays DEF LinksAll

\* What a transaction holds stays what it was while nodes, claims and redirects
\* do.
LEMMA StandingStays ==
    ASSUME UNCHANGED <<node, fact, redirect>>, NEW t, StillStands(t)
    PROVE  StillStands(t)'
BY DEF StillStands, LiveNode

\* The state of nodes stays as it is and so does what is true of it.
LEMMA IdentityStays ==
    ASSUME Consumed, Chained, CitationsFollow, UNCHANGED <<node, into, redirect, torn>>
    PROVE  Consumed' /\ Chained' /\ CitationsFollow'
<1>1. Consumed'
  BY DEF Consumed
<1>2. \A n, e \in Nodes : Ends(n, e) => Ends(n, e)'
  BY FollowedStays DEF Ends
<1>3. Chained'
  BY <1>2 DEF Chained
<1>4. CitationsFollow'
  BY FollowedStays DEF CitationsFollow, Followed, LiveNode
<1> QED
  BY <1>1, <1>3, <1>4

\* A step that only replaces or adds one transaction keeps the invariant, if
\* that transaction is as it should be.
LEMMA QuietStep ==
    ASSUME NodeAssumption, NodeInv, UNCHANGED <<node, into, fact, redirect, torn>>,
           NEW S, S \subseteq tx, NEW v, tx' = S \/ tx' = S \union {v},
           v \in Activities(v.id), StillStands(v), LinksAll(v), \A u \in S : Apart(u, v),
           IsFiniteSet(tx'), Cardinality(tx') <= MaxOpen, opened' \in 0 .. MaxOpened
    PROVE  NodeInv'
<1>1. \A t \in tx' : t \in tx \/ t = v
  OBVIOUS
<1>2. TypeInv'
  BY <1>1 DEF NodeInv, TypeInv
<1>3. Kept'
  BY DEF NodeInv, Kept, LiveNode, Stored, Refers
<1>4. Consumed' /\ Chained' /\ CitationsFollow'
  BY IdentityStays DEF NodeInv
<1>5. ASSUME NEW t \in tx' PROVE StillStands(t)' /\ LinksAll(t)'
  <2>1. StillStands(t) /\ LinksAll(t)
    BY <1>1 DEF NodeInv
  <2> QED
    BY <2>1, StandingStays, LinksAllStays
<1>6. \A t, u \in tx' : t # u => Apart(t, u)
  <2>1. \A t, u \in tx : t # u => Apart(t, u)
    BY DEF NodeInv
  <2>2. \A u \in S : Apart(u, v) /\ Apart(v, u)
    BY DEF Apart
  <2> QED
    BY <2>1, <2>2
<1> QED
  BY <1>2, <1>3, <1>4, <1>5, <1>6 DEF NodeInv, Apart

\* So does one that opens a transaction that has done nothing.
LEMMA Opened ==
    ASSUME NodeAssumption, NodeInv, MayOpen, NEW v, BeginTx(v),
           v \in Activities(v.id), StillStands(v), v.at = "begun", v.rows = {}, v.links = {}
    PROVE  NodeInv'
<1>1. IsFiniteSet(tx') /\ Cardinality(tx') <= MaxOpen
  <2>1. IsFiniteSet(tx) /\ Cardinality(tx) \in Nat /\ Cardinality(tx) < MaxOpen
    BY FS_CardinalityType DEF MayOpen, NodeInv, TypeInv
  <2>2. IsFiniteSet(tx') /\ (Cardinality(tx') = Cardinality(tx) \/ Cardinality(tx') = Cardinality(tx) + 1)
    BY <2>1, FS_AddElement DEF BeginTx
  <2> QED
    BY <2>1, <2>2 DEF NodeAssumption
<1>2. opened' \in 0 .. MaxOpened
  BY DEF BeginTx, MayOpen, NodeInv, TypeInv, NodeAssumption
<1>3. LinksAll(v) /\ \A u \in tx : Apart(u, v)
  BY DEF LinksAll, Apart
<1>4. tx' = tx \union {v} /\ UNCHANGED <<node, into, fact, redirect, torn>>
  BY DEF BeginTx
<1> QED
  BY <1>1, <1>2, <1>3, <1>4, QuietStep

\* A transaction that has done nothing.
Blank(k) ==
    [id |-> k, kind |-> "none", at |-> "begun", keep |-> None, gone |-> {},
     new |-> NoFact, moved |-> {}, loops |-> {}, doubles |-> {},
     rows |-> {}, links |-> {}, shares |-> {}]

\* A new transaction has done nothing.
LEMMA Fresh == \E k : NewTx = Blank(k)
<1> PICK k : k = CHOOSE i \in 1 .. MaxOpen : \A t \in tx : t.id # i
  OBVIOUS
<1> QED
  BY DEF NewTx, Blank

\* mergeNodes begins.
LEMMA BeginMergeKeeps ==
    ASSUME NodeAssumption, NodeInv, MayOpen,
           NEW keep \in Nodes, NEW gone \in SUBSET Nodes, BeginMerge(keep, gone)
    PROVE  NodeInv'
<1> PICK k : NewTx = Blank(k)
  BY Fresh
<1> PICK v : v = [NewTx EXCEPT !.kind = "merge", !.keep = keep, !.gone = gone]
  OBVIOUS
<1>1. BeginTx(v)
  BY DEF BeginMerge
<1>2. /\ v.kind = "merge" /\ v.at = "begun" /\ v.keep = keep /\ v.gone = gone
      /\ v.moved = {} /\ v.loops = {} /\ v.doubles = {} /\ v.rows = {} /\ v.links = {}
      /\ v.shares = {} /\ v \in Activities(v.id)
  BY DEF Blank, Activities, Optional
<1>3. StillStands(v)
  BY <1>2 DEF StillStands, BeginMerge
<1> QED
  BY <1>1, <1>2, <1>3, Opened

\* The nightly sweep begins with a pair.
LEMMA BeginSweepKeeps ==
    ASSUME NodeAssumption, NodeInv, MayOpen, NEW keep \in Nodes, NEW n \in Nodes,
           BeginSweep(keep, n)
    PROVE  NodeInv'
<1> PICK k : NewTx = Blank(k)
  BY Fresh
<1> PICK v : v = [NewTx EXCEPT !.kind = "sweep", !.keep = keep, !.gone = {n}]
  OBVIOUS
<1>1. BeginTx(v)
  BY DEF BeginSweep
<1>2. /\ v.kind = "sweep" /\ v.at = "begun" /\ v.keep = keep /\ v.gone = {n}
      /\ v.moved = {} /\ v.loops = {} /\ v.doubles = {} /\ v.rows = {} /\ v.links = {}
      /\ v.shares = {} /\ v \in Activities(v.id)
  BY DEF Blank, Activities, Optional
<1>3. StillStands(v)
  BY <1>2 DEF StillStands, BeginSweep
<1> QED
  BY <1>1, <1>2, <1>3, Opened

\* An insertion begins.
LEMMA BeginFactKeeps ==
    ASSUME NodeAssumption, NodeInv, MayOpen, NEW subject \in Nodes, NEW object \in Optional,
           NEW value \in Values \union {None}, BeginFact(subject, object, value)
    PROVE  NodeInv'
<1> PICK k : NewTx = Blank(k)
  BY Fresh
<1> PICK c : c = [state |-> "stored", subject |-> subject, object |-> object, value |-> value,
                  first |-> <<subject, object>>, active |-> TRUE, raced |-> FALSE]
  OBVIOUS
<1> PICK v : v = [NewTx EXCEPT !.kind = "insert", !.shares = {subject, object} \ {None},
                               !.new = c]
  OBVIOUS
<1>1. BeginTx(v)
  BY DEF BeginFact
<1>2. c \in Claimed /\ c.state = "stored" /\ c.subject = subject /\ c.object = object
  BY DEF Claimed
<1>3. /\ v.kind = "insert" /\ v.at = "begun" /\ v.gone = {} /\ v.new = c
      /\ v.moved = {} /\ v.loops = {} /\ v.doubles = {} /\ v.rows = {} /\ v.links = {}
      /\ v.shares = {subject, object} \ {None} /\ v \in Activities(v.id)
  BY <1>2 DEF Blank, Activities, Optional
<1>4. StillStands(v)
  BY <1>2, <1>3 DEF StillStands, BeginFact
<1> QED
  BY <1>1, <1>3, <1>4, Opened

\* Replacing a transaction adds none.
LEMMA OthersAreFewer ==
    ASSUME NodeAssumption, NodeInv, NEW t \in tx
    PROVE  /\ IsFiniteSet(Others(t)) /\ Cardinality(Others(t)) <= MaxOpen
           /\ \A v : /\ IsFiniteSet(Others(t) \union {v})
                     /\ Cardinality(Others(t) \union {v}) <= MaxOpen
<1>1. /\ IsFiniteSet(tx) /\ Cardinality(tx) \in Nat /\ Cardinality(tx) <= MaxOpen
      /\ MaxOpen \in Nat
  BY FS_CardinalityType DEF NodeInv, TypeInv, NodeAssumption
<1>2. /\ IsFiniteSet(Others(t)) /\ Cardinality(Others(t)) = Cardinality(tx) - 1
      /\ Cardinality(Others(t)) \in Nat
  BY <1>1, FS_RemoveElement, FS_CardinalityType DEF Others
<1>3. ASSUME NEW v
      PROVE  /\ IsFiniteSet(Others(t) \union {v})
             /\ Cardinality(Others(t) \union {v}) <= MaxOpen
  <2>1. /\ IsFiniteSet(Others(t) \union {v})
        /\ \/ Cardinality(Others(t) \union {v}) = Cardinality(Others(t)) + 1
           \/ Cardinality(Others(t) \union {v}) = Cardinality(Others(t))
    BY <1>2, FS_AddElement
  <2> QED
    BY <1>1, <1>2, <2>1
<1>4. Cardinality(Others(t)) <= MaxOpen
  BY <1>1, <1>2
<1> QED
  BY <1>2, <1>3, <1>4

\* A row that is there belongs to a claim.
LEMMA StoredIsThere ==
    ASSUME NEW c \in Facts, Stored(c)
    PROVE  fact[c] # NoFact
BY DEF Stored, NoFact

\* The merge reads and locks the claims it moves and drops.
LEMMA RewireKeeps ==
    ASSUME NodeAssumption, NodeInv, NEW t \in tx, Rewire(t)
    PROVE  NodeInv'
<1> DEFINE rows == Moved(t) \union Loops(t) \union Duplicates(t)
<1> PICK v : v = [t EXCEPT !.at = "rewired", !.moved = Moved(t), !.loops = Loops(t),
                           !.doubles = Duplicates(t) \ Loops(t), !.rows = rows,
                           !.shares = {t.keep}]
  OBVIOUS
<1>1. t \in Activities(t.id) /\ StillStands(t)
  BY DEF NodeInv, TypeInv
<1>2. Moved(t) \subseteq Facts /\ Loops(t) \subseteq Facts /\ Duplicates(t) \subseteq Facts
  BY DEF Moved, Loops, Duplicates
<1>3. t.keep \in Nodes /\ t.keep \notin t.gone /\ t.links = {} /\ LiveNode(t.keep)
  BY <1>1 DEF Rewire, StillStands
<1>4. /\ v.kind = t.kind /\ v.at = "rewired" /\ v.keep = t.keep /\ v.gone = t.gone
      /\ v.moved = Moved(t) /\ v.loops = Loops(t) /\ v.doubles = Duplicates(t) \ Loops(t)
      /\ v.rows = rows /\ v.links = t.links /\ v.shares = {t.keep}
  BY <1>1 DEF Activities
<1>5. v \in Activities(v.id)
  BY <1>1, <1>2, <1>3 DEF Activities
<1>6. StillStands(v)
  <2>1. v.kind # "insert"
    BY <1>4 DEF Rewire
  <2>2. \A c \in rows : fact[c] # NoFact
    BY <1>2, StoredIsThere DEF Moved, Loops, Duplicates
  <2> QED
    BY <1>3, <1>4, <2>1, <2>2 DEF StillStands
<1>7. LinksAll(v)
  BY <1>4 DEF LinksAll
<1>8. \A u \in Others(t) : Apart(u, v)
  BY <1>3, <1>4 DEF Rewire, Apart
<1>9. tx' = Others(t) \union {v} /\ UNCHANGED <<node, into, fact, redirect, torn, opened>>
  BY DEF Rewire
<1>10. Others(t) \subseteq tx /\ opened' \in 0 .. MaxOpened
  BY <1>9 DEF Others, NodeInv, TypeInv
<1>11. IsFiniteSet(tx') /\ Cardinality(tx') <= MaxOpen
  BY <1>9, OthersAreFewer
<1> QED
  BY <1>5, <1>6, <1>7, <1>8, <1>9, <1>10, <1>11, QuietStep

\* The merge locks the redirects it writes.
LEMMA LinkKeeps ==
    ASSUME NodeAssumption, NodeInv, NEW t \in tx, Link(t)
    PROVE  NodeInv'
<1> DEFINE links == Chains(t) \union t.gone
<1> PICK v : v = [t EXCEPT !.at = "linked", !.links = links]
  OBVIOUS
<1>1. t \in Activities(t.id) /\ StillStands(t)
  BY DEF NodeInv, TypeInv
<1>2. links \subseteq Nodes
  BY <1>1 DEF Chains, Activities
<1>3. /\ v.kind = t.kind /\ v.at = "linked" /\ v.keep = t.keep /\ v.gone = t.gone
      /\ v.moved = t.moved /\ v.loops = t.loops /\ v.doubles = t.doubles
      /\ v.rows = t.rows /\ v.links = links /\ v.shares = t.shares
  BY <1>1 DEF Activities
<1>4. v \in Activities(v.id)
  BY <1>1, <1>2 DEF Activities
<1>5. StillStands(v)
  <2>1. t.kind = "merge" /\ t.at = "rewired"
    BY DEF Link
  <2>2. \A n \in links : n \in t.gone \/ redirect[n] \in t.gone
    BY DEF Chains
  <2> QED
    BY <1>1, <1>3, <2>1, <2>2 DEF StillStands
<1>6. LinksAll(v)
  BY <1>3 DEF LinksAll, Chains
<1>7. \A u \in Others(t) : Apart(u, v)
  <2>1. \A u \in Others(t) : Apart(u, t)
    BY DEF NodeInv, Others
  <2> QED
    BY <1>3, <2>1 DEF Link, Apart
<1>8. tx' = Others(t) \union {v} /\ UNCHANGED <<node, into, fact, redirect, torn, opened>>
  BY DEF Link
<1>9. Others(t) \subseteq tx /\ opened' \in 0 .. MaxOpened
  BY <1>8 DEF Others, NodeInv, TypeInv
<1>10. IsFiniteSet(tx') /\ Cardinality(tx') <= MaxOpen
  BY <1>8, OthersAreFewer
<1> QED
  BY <1>4, <1>5, <1>6, <1>7, <1>8, <1>9, <1>10, QuietStep

\* A transaction is rolled back.
LEMMA RollbackKeeps ==
    ASSUME NodeAssumption, NodeInv, NEW t \in tx, RollbackTx(t)
    PROVE  NodeInv'
<1>1. tx' = Others(t) /\ UNCHANGED <<node, into, fact, redirect, torn, opened>>
  BY DEF RollbackTx
<1>2. t \in Activities(t.id) /\ StillStands(t) /\ LinksAll(t) /\ \A u \in Others(t) : Apart(u, t)
  BY DEF NodeInv, TypeInv, Others
<1>3. Others(t) \subseteq tx /\ opened' \in 0 .. MaxOpened
  BY <1>1 DEF Others, NodeInv, TypeInv
<1>4. IsFiniteSet(tx') /\ Cardinality(tx') <= MaxOpen
  BY <1>1, OthersAreFewer
<1> QED
  BY <1>1, <1>2, <1>3, <1>4, QuietStep

-----------------------------------------------------------------------------
(* A claim is committed.                                                   *)

\* An insertion commits; nodes and redirects stay as they are.
LEMMA CommitFactKeeps ==
    ASSUME NodeAssumption, NodeInv, NEW t \in tx, CommitFact(t)
    PROVE  NodeInv'
<1> DEFINE id == Inserted + 1
           raced == \E u \in tx : u.gone \cap t.shares # {}
<1>1. StillStands(t) /\ t.new \in Claimed /\ t.new.state = "stored"
      /\ t.shares = {t.new.subject, t.new.object} \ {None}
  BY DEF NodeInv, StillStands, CommitFact
<1>2. /\ tx' = Others(t) /\ UNCHANGED <<node, into, redirect, torn, opened>>
  BY DEF CommitFact, Others
<1> PICK row : row = [t.new EXCEPT !.raced = raced]
  OBVIOUS
<1>3. row \in Claimed /\ row.state = "stored" /\ row.subject = t.new.subject
      /\ row.object = t.new.object
  BY <1>1 DEF Claimed
<1>4. \A c \in Facts : \/ fact'[c] = row
                       \/ fact'[c] = fact[c]
                       \/ fact[c] # NoFact /\ fact'[c] = [fact[c] EXCEPT !.active = FALSE]
  BY StoredIsThere DEF CommitFact
<1>5. fact \in [Facts -> Claimed \union {NoFact}]
  BY DEF NodeInv, TypeInv
<1>6. DOMAIN fact' = Facts /\ fact' = [c \in Facts |-> fact'[c]]
  BY DEF CommitFact
<1>7. ASSUME NEW c \in Facts
      PROVE  /\ fact'[c] \in Claimed \union {NoFact}
             /\ fact[c] # NoFact => fact'[c] # NoFact
             /\ \/ fact'[c] = row
                \/ Stored(c)' => Stored(c) /\ Refers(c)' = Refers(c)
  <2>1. NoFact \notin Claimed
    BY DEF NoFact, Claimed
  <2>2. CASE fact'[c] = row
    BY <1>3, <2>1, <2>2
  <2>3. CASE fact'[c] = fact[c]
    BY <1>5, <2>3 DEF Stored, Refers
  <2>4. CASE fact[c] # NoFact /\ fact'[c] = [fact[c] EXCEPT !.active = FALSE]
    <3>1. fact[c] \in Claimed
      BY <1>5, <2>4
    <3>2. /\ fact'[c] \in Claimed /\ fact'[c].state = fact[c].state
          /\ fact'[c].subject = fact[c].subject /\ fact'[c].object = fact[c].object
      BY <2>4, <3>1 DEF Claimed
    <3> QED
      BY <2>1, <3>2 DEF Stored, Refers
  <2> QED
    BY <1>4, <2>2, <2>3, <2>4
<1>8. TypeInv'
  <2>1. fact' \in [Facts -> Claimed \union {NoFact}]
    BY <1>6, <1>7
  <2>2. \A u \in tx' : u \in Activities(u.id)
    BY <1>2 DEF NodeInv, TypeInv, Others
  <2> QED
    BY <1>2, <2>1, <2>2, OthersAreFewer DEF NodeInv, TypeInv
<1>9. Kept'
  <2>1. ASSUME NEW c \in Facts, Stored(c)', NEW n \in Refers(c)' PROVE LiveNode(n)'
    <3>1. CASE fact'[c] = row
      <4>1. n \in t.shares
        BY <1>1, <1>3, <2>1, <3>1 DEF Refers
      <4> QED
        BY <1>1, <1>2, <4>1 DEF StillStands, LiveNode
    <3>2. CASE fact'[c] # row
      BY <1>2, <1>7, <2>1, <3>2 DEF NodeInv, Kept, LiveNode
    <3> QED
      BY <3>1, <3>2
  <2> QED
    BY <1>2, <2>1 DEF NodeInv, Kept, LiveNode
<1>10. Consumed' /\ Chained' /\ CitationsFollow'
  BY <1>2, IdentityStays DEF NodeInv
<1>11. ASSUME NEW u \in tx' PROVE StillStands(u)' /\ LinksAll(u)'
  <2>1. StillStands(u) /\ LinksAll(u) /\ u.rows \subseteq Facts
    BY <1>2 DEF NodeInv, Others, TypeInv, Activities
  <2>2. \A c \in u.rows : fact'[c] # NoFact
    BY <1>7, <2>1 DEF StillStands
  <2> QED
    BY <1>2, <2>1, <2>2, LinksAllStays DEF StillStands, LiveNode
<1>12. \A u, w \in tx' : u # w => Apart(u, w)'
  BY <1>2 DEF NodeInv, Others, Apart
<1> QED
  BY <1>8, <1>9, <1>10, <1>11, <1>12 DEF NodeInv

-----------------------------------------------------------------------------
(* A node is deleted.                                                      *)

\* What a deletion leaves of a row.
LEMMA CascadeIs ==
    ASSUME TypeInv, NEW c \in Facts, NEW gone \in SUBSET Nodes, fact'[c] = Cascade(c, gone)
    PROVE  /\ fact'[c] \in Claimed \union {NoFact}
           /\ fact[c] # NoFact => fact'[c] # NoFact
           /\ Stored(c)' => Stored(c) /\ Refers(c)' = Refers(c) /\ Refers(c) \cap gone = {}
<1>1. NoFact \notin Claimed
  BY DEF NoFact, Claimed
<1>2. fact[c] \in Claimed \union {NoFact}
  BY DEF TypeInv
<1>3. CASE Stored(c) /\ Refers(c) \cap gone # {}
  <2>1. fact[c] \in Claimed
    BY <1>2, <1>3 DEF Stored, NoFact
  <2>2. fact'[c] \in Claimed /\ fact'[c].state = "lost"
    BY <1>3, <2>1 DEF Cascade, Claimed
  <2> QED
    BY <1>1, <2>2 DEF Stored
<1>4. CASE ~(Stored(c) /\ Refers(c) \cap gone # {})
  BY <1>2, <1>4 DEF Cascade, Stored, Refers
<1> QED
  BY <1>3, <1>4

\* A node that nobody holds is deleted with its claims and redirects.
LEMMA DeleteNodeKeeps ==
    ASSUME NodeAssumption, NodeInv, NEW d \in Nodes, DeleteNode(d)
    PROVE  NodeInv'
<1>1. LiveNode(d) /\ MayDelete(tx, {d}) /\ UNCHANGED <<into, tx, torn>>
  BY DEF DeleteNode
<1>2. \A n \in Nodes : node'[n] = IF n = d THEN "deleted" ELSE node[n]
  BY DEF DeleteNode, NodeInv, TypeInv
<1>3. \A n \in Nodes : redirect'[n] = IF redirect[n] = d THEN None ELSE redirect[n]
  BY DEF DeleteNode
<1>4. ASSUME NEW c \in Facts
      PROVE  /\ fact'[c] \in Claimed \union {NoFact}
             /\ fact[c] # NoFact => fact'[c] # NoFact
             /\ Stored(c)' => Stored(c) /\ Refers(c)' = Refers(c) /\ Refers(c) \cap {d} = {}
  <2>1. fact'[c] = Cascade(c, {d})
    BY DEF DeleteNode
  <2> QED
    BY <2>1, CascadeIs DEF NodeInv
<1>5. TypeInv'
  <2>1. fact' \in [Facts -> Claimed \union {NoFact}]
    BY <1>4 DEF DeleteNode
  <2>2. node' \in [Nodes -> {"live", "merged", "swept", "deleted"}]
    BY DEF DeleteNode, NodeInv, TypeInv
  <2>3. redirect' \in [Nodes -> Optional]
    BY DEF DeleteNode, NodeInv, TypeInv, Optional
  <2>4. opened' \in 0 .. MaxOpened
    BY DEF DeleteNode, NodeInv, TypeInv, NodeAssumption
  <2> QED
    BY <1>1, <2>1, <2>2, <2>3, <2>4 DEF NodeInv, TypeInv
<1>6. Kept'
  <2>1. ASSUME NEW n \in Nodes, redirect'[n] # None
        PROVE  node'[n] # "live" /\ node'[redirect[n]] = "live"
    <3>1. redirect[n] # None /\ redirect[n] # d /\ redirect[n] \in Nodes
      BY <1>3, <2>1 DEF NodeInv, TypeInv, Optional
    <3>2. ~LiveNode(n) /\ LiveNode(redirect[n])
      BY <3>1 DEF NodeInv, Kept
    <3> QED
      BY <1>1, <1>2, <3>1, <3>2 DEF LiveNode
  <2>2. ASSUME NEW c \in Facts, Stored(c)', NEW n \in Refers(c)' PROVE LiveNode(n)'
    <3>1. n # d /\ LiveNode(n) /\ n \in Nodes
      <4>1. n \in Refers(c) /\ n # d /\ Stored(c) /\ fact[c] \in Claimed
        BY <1>4, <2>2 DEF NodeInv, TypeInv, Stored, NoFact
      <4> QED
        BY <4>1 DEF NodeInv, Kept, Refers, Claimed, Optional
    <3> QED
      BY <1>2, <3>1 DEF LiveNode
  <2>3. \A n \in Nodes : redirect'[n] # None => redirect'[n] = redirect[n]
    BY <1>3
  <2> QED
    BY <2>1, <2>2, <2>3 DEF Kept, LiveNode
<1>7. Consumed'
  BY <1>1, <1>2 DEF NodeInv, Consumed, LiveNode
<1>8. \A n \in Nodes : Path(n)' = Path(n)
  BY <1>1, PathStays
<1>9. \A n \in Nodes : Carrier(n)' = Carrier(n)
  BY <1>1, PathStays
<1>10. Chained'
  BY <1>1, <1>8 DEF NodeInv, Chained, Ends
<1>11. ASSUME NEW n \in Nodes, Followed(n)'
       PROVE  Followed(n) /\ redirect'[n] = redirect[n]
  <2> PICK e \in Nodes : Ends(n, e)
    BY DEF NodeInv, Chained
  <2>1. Carrier(n) = e
    BY CarrierEnds DEF NodeAssumption
  <2>2. Path(n) \subseteq Nodes
    BY PathIs DEF NodeInv, TypeInv
  <2>3. e # d /\ LiveNode(e) /\ n # d /\ node[n] = "merged"
    BY <1>2, <1>9, <1>11, <2>1 DEF Followed, LiveNode
  <2>4. \A m \in Path(n) \ {e} : node[m] = "merged" /\ m \notin torn
    BY <1>1, <1>2, <1>8, <1>9, <1>11, <2>1, <2>2 DEF Followed
  <2>5. Followed(n)
    BY <2>1, <2>3, <2>4 DEF Followed
  <2>6. redirect[n] = e
    BY <2>1, <2>5 DEF NodeInv, CitationsFollow, Followed
  <2> QED
    BY <1>3, <2>3, <2>5, <2>6
<1>12. CitationsFollow'
  BY <1>9, <1>11 DEF NodeInv, CitationsFollow, Followed
<1>13. ASSUME NEW t \in tx PROVE StillStands(t)' /\ LinksAll(t)'
  <2>1. StillStands(t) /\ LinksAll(t) /\ t \in Activities(t.id)
    BY DEF NodeInv, TypeInv
  <2>2. t.rows \subseteq Facts /\ t.links \subseteq Nodes /\ t.gone \subseteq Nodes
    BY <2>1 DEF Activities
  <2>3. \A c \in t.rows : fact'[c] # NoFact
    BY <1>4, <2>1, <2>2 DEF StillStands
  <2>4. \A n \in t.shares : n \in Nodes /\ n # d /\ LiveNode(n)
    BY <1>1, <2>1 DEF MayDelete, StillStands, Activities
  <2>5. \A n \in t.shares : LiveNode(n)'
    BY <1>2, <2>4 DEF LiveNode
  <2>6. \A n \in t.links : redirect'[n] = redirect[n]
    BY <1>1, <1>3, <2>2 DEF MayDelete
  <2>7. StillStands(t)'
    BY <2>1, <2>3, <2>5, <2>6 DEF StillStands
  <2>8. LinksAll(t)'
    BY <1>11, <2>1 DEF LinksAll
  <2> QED
    BY <2>7, <2>8
<1>14. \A t, u \in tx : t # u => Apart(t, u)'
  BY DEF NodeInv, Apart
<1> QED
  BY <1>1, <1>5, <1>6, <1>7, <1>10, <1>12, <1>13, <1>14 DEF NodeInv

-----------------------------------------------------------------------------
(* Nodes are consumed.                                                     *)

\* A merge commits. The chains that ended with a consumed node end with the
\* survivor now. If the citation must follow, the node was linked, for its
\* redirect led to the consumed node; and another merge that is about to
\* consume the survivor makes the chain a torn one.
LEMMA CommitMergeKeeps ==
    ASSUME NodeAssumption, NodeInv, NEW t \in tx, CommitMerge(t)
    PROVE  NodeInv'
<1> DEFINE taken == {n \in t.gone : LiveNode(n)}
           rank  == IF t.kind = "merge" THEN "merged" ELSE "swept"
<1>1. /\ t \in Activities(t.id) /\ StillStands(t) /\ LinksAll(t)
      /\ MayDelete(Others(t), t.gone) /\ tx' = Others(t) /\ UNCHANGED opened
      /\ into \in [Nodes -> Optional] /\ None \notin Nodes
  BY DEF NodeInv, TypeInv, CommitMerge, NodeAssumption
<1>2. /\ t.keep \in Nodes /\ t.keep \notin t.gone /\ LiveNode(t.keep)
      /\ t.gone \in SUBSET Nodes /\ t.links \subseteq Nodes
  BY <1>1 DEF StillStands, CommitMerge, Activities
<1>3. /\ t.kind = "merge" => t.gone \subseteq t.links
      /\ \A n \in t.links : n \in t.gone \/ redirect[n] \in t.gone
      /\ t.kind # "merge" => t.links = {}
  BY <1>1 DEF StillStands, CommitMerge, Activities
<1>4. taken \in SUBSET Nodes /\ t.keep \notin taken
  BY <1>2
<1>5. \A n \in Nodes : node'[n] = IF n \in taken THEN rank ELSE node[n]
  BY DEF CommitMerge
<1>6. \A n \in Nodes : into'[n] = IF n \in taken THEN t.keep ELSE into[n]
  BY DEF CommitMerge
<1>7. \A n \in Nodes : redirect'[n] = IF n \in t.links THEN t.keep
                                     ELSE IF redirect[n] \in t.gone THEN None ELSE redirect[n]
  BY DEF CommitMerge
<1>8. \A n \in t.gone : node'[n] # "live" /\ (n \notin taken => n \in torn')
  BY <1>2, <1>5 DEF CommitMerge, LiveNode
<1>9. torn \subseteq torn' /\ torn' \subseteq Nodes
      /\ \A u \in Others(t) : t.keep \in u.gone => t.gone \subseteq torn'
  BY <1>2 DEF CommitMerge, NodeInv, TypeInv
<1>10. \A n \in Nodes : LiveNode(n)' <=> LiveNode(n) /\ n \notin t.gone
  BY <1>5, <1>8 DEF LiveNode
<1>11. ASSUME NEW c \in Facts
       PROVE  /\ fact'[c] \in Claimed \union {NoFact}
              /\ fact[c] # NoFact => fact'[c] # NoFact
              /\ Stored(c)' => Stored(c) /\ Refers(c)' \cap t.gone = {}
                                         /\ Refers(c)' \subseteq Refers(c) \union {t.keep}
  <2>1. NoFact \notin Claimed
    BY DEF NoFact, Claimed
  <2>2. fact[c] \in Claimed \union {NoFact} /\ TypeInv
    BY DEF NodeInv, TypeInv
  <2>3. t.moved \union t.loops \union t.doubles \subseteq t.rows /\ \A d \in t.rows : fact[d] # NoFact
    BY <1>1 DEF StillStands
  <2>4. CASE c \in t.loops \union t.doubles
    <3>1. fact[c] \in Claimed
      BY <2>2, <2>3, <2>4
    <3>2. fact'[c] \in Claimed /\ fact'[c].state \in {"loop", "duplicate"}
      BY <2>4, <3>1 DEF CommitMerge, Claimed
    <3> QED
      BY <2>1, <3>2 DEF Stored
  <2>5. CASE c \in t.moved \ (t.loops \union t.doubles)
    <3>1. fact[c] \in Claimed
      BY <2>2, <2>3, <2>5
    <3> DEFINE s == To(t, fact[c].subject)
               o == To(t, fact[c].object)
    <3>2. s \in Nodes /\ o \in Optional /\ s \notin t.gone /\ o \notin t.gone
      BY <1>2, <3>1 DEF To, Claimed, Optional
    <3>3. {s, o} \ {None} \subseteq Refers(c) \union {t.keep}
      BY <1>2 DEF To, Refers
    <3>4. fact'[c] = [fact[c] EXCEPT !.subject = s, !.object = o]
      BY <2>5, <3>1 DEF CommitMerge, Claimed
    <3> HIDE DEF s, o
    <3>5. /\ fact'[c] \in Claimed /\ fact'[c].state = fact[c].state
          /\ fact'[c].subject = s /\ fact'[c].object = o
      BY <3>1, <3>2, <3>4 DEF Claimed
    <3> QED
      BY <2>1, <3>2, <3>3, <3>5 DEF Stored, Refers
  <2>6. CASE c \notin t.moved \union t.loops \union t.doubles
    <3>1. fact'[c] = Cascade(c, t.gone)
      BY <2>6 DEF CommitMerge
    <3> QED
      BY <1>2, <2>2, <3>1, CascadeIs
  <2> QED
    BY <2>4, <2>5, <2>6
<1>12. TypeInv'
  <2>1. fact' \in [Facts -> Claimed \union {NoFact}]
    <3> DEFINE After(c) ==
            CASE c \in t.loops   -> [fact[c] EXCEPT !.state = "loop"]
              [] c \in t.doubles -> [fact[c] EXCEPT !.state = "duplicate"]
              [] c \in t.moved \ (t.loops \union t.doubles) ->
                    [fact[c] EXCEPT !.subject = To(t, @), !.object = To(t, @)]
              [] OTHER -> Cascade(c, t.gone)
    <3>1. fact' = [c \in Facts |-> After(c)]
      BY DEF CommitMerge
    <3> HIDE DEF After
    <3>2. \A c \in Facts : After(c) \in Claimed \union {NoFact}
      BY <1>11, <3>1
    <3> QED
      BY <3>1, <3>2
  <2>2. node' \in [Nodes -> {"live", "merged", "swept", "deleted"}]
    BY DEF CommitMerge, NodeInv, TypeInv
  <2>3. into' \in [Nodes -> Optional] /\ redirect' \in [Nodes -> Optional]
    BY <1>2 DEF CommitMerge, NodeInv, TypeInv, Optional
  <2>4. \A u \in tx' : u \in Activities(u.id)
    BY <1>1 DEF NodeInv, TypeInv, Others
  <2>5. opened' \in 0 .. MaxOpened
    BY <1>1 DEF NodeInv, TypeInv
  <2> QED
    BY <1>1, <1>9, <2>1, <2>2, <2>3, <2>4, <2>5, OthersAreFewer DEF TypeInv
<1>13. Kept'
  <2>1. ASSUME NEW n \in Nodes, redirect'[n] # None
        PROVE  node'[n] # "live" /\ node'[redirect'[n]] = "live"
    <3>1. CASE n \in t.links
      <4>1. redirect'[n] = t.keep /\ (n \in t.gone \/ redirect[n] \in t.gone)
        BY <1>3, <1>7, <3>1
      <4>2. n \in t.gone \/ ~LiveNode(n)
        BY <1>1, <1>2, <4>1 DEF NodeInv, Kept
      <4> QED
        BY <1>2, <1>10, <4>1, <4>2 DEF LiveNode
    <3>2. CASE n \notin t.links
      <4>1. redirect'[n] = redirect[n] /\ redirect[n] \notin t.gone /\ redirect[n] # None
        BY <1>7, <2>1, <3>2
      <4>2. ~LiveNode(n) /\ LiveNode(redirect[n]) /\ redirect[n] \in Nodes
        BY <4>1 DEF NodeInv, Kept, TypeInv, Optional
      <4> QED
        BY <1>10, <4>1, <4>2 DEF LiveNode
    <3> QED
      BY <3>1, <3>2
  <2>2. ASSUME NEW c \in Facts, Stored(c)', NEW n \in Refers(c)' PROVE LiveNode(n)'
    <3>1. Stored(c) /\ n \notin t.gone /\ (n \in Refers(c) \/ n = t.keep)
      BY <1>11, <2>2
    <3>2. fact[c] \in Claimed
      BY <3>1 DEF Stored, NoFact, NodeInv, TypeInv
    <3>3. n \in Nodes /\ LiveNode(n)
      BY <1>2, <3>1, <3>2 DEF NodeInv, Kept, Refers, Claimed, Optional
    <3> QED
      BY <1>10, <3>1, <3>3
  <2> QED
    BY <2>1, <2>2 DEF Kept, LiveNode
<1>14. Consumed'
  <2>1. \A n \in taken : into'[n] # None /\ node'[n] \in {"merged", "swept"}
    BY <1>1, <1>2, <1>4, <1>5, <1>6
  <2>2. \A n \in Nodes \ taken : into'[n] = into[n] /\ node'[n] = node[n]
    BY <1>5, <1>6
  <2> QED
    BY <2>1, <2>2 DEF NodeInv, Consumed
<1> HIDE DEF taken, rank
<1>15. ASSUME NEW n \in Nodes, NEW e \in Nodes, Ends(n, e)
       PROVE  /\ e \notin taken => Path(n)' = Path(n) /\ Ends(n, e)'
              /\ e \in taken => Path(n)' = Path(n) \union {t.keep} /\ Ends(n, t.keep)'
  <2>1. into[t.keep] = None /\ \A m \in taken : into[m] = None /\ into'[m] = t.keep
    BY <1>2, <1>4, <1>6 DEF NodeInv, Consumed, LiveNode, taken
  <2>2. into' \in [Nodes -> Optional] /\ \A m \in Nodes \ taken : into'[m] = into[m]
    BY <1>6, <1>12 DEF TypeInv
  <2> QED
    BY <1>1, <1>2, <1>4, <1>15, <2>1, <2>2, ChainsGrow
<1>16. Chained'
  BY <1>2, <1>15 DEF NodeInv, Chained
<1>17. ASSUME NEW n \in Nodes, Followed(n)'
       PROVE  /\ redirect'[n] = Carrier(n)'
              /\ \/ Followed(n) /\ redirect'[n] = redirect[n]
                 \/ redirect'[n] = t.keep /\ \A u \in Others(t) : t.keep \notin u.gone
  <2> PICK e \in Nodes : Ends(n, e)
    BY DEF NodeInv, Chained
  <2>1. Carrier(n) = e /\ into[e] = None
    BY <1>1, CarrierEnds DEF Ends
  <2>2. Path(n) \subseteq Nodes /\ n \in Path(n) /\ e \in Path(n)
    BY <1>1, PathIs DEF Ends
  <2>3. \A m \in Path(n) \ {e} : m \notin taken
    BY <1>4, <2>2 DEF Ends, NodeInv, Consumed, LiveNode, taken
  <2>4. node'[n] = "merged"
    BY <1>17 DEF Followed
  <2>5. CASE e \notin taken
    <3>1. Path(n)' = Path(n) /\ Carrier(n)' = e
      BY <1>1, <1>15, <2>5, CarrierEndsNext
    <3>2. LiveNode(e)' /\ \A m \in Path(n) \ {e} : node'[m] = "merged" /\ m \notin torn'
      BY <1>17, <3>1 DEF Followed, LiveNode
    <3>3. n # e /\ LiveNode(e) /\ e \notin t.gone
      BY <1>10, <2>4, <3>2 DEF LiveNode
    <3>4. \A m \in Path(n) \ {e} : node[m] = "merged" /\ m \notin torn
      BY <1>5, <1>9, <2>2, <2>3, <3>2
    <3>5. Followed(n)
      BY <2>1, <2>2, <3>3, <3>4 DEF Followed
    <3>6. redirect[n] = e
      BY <2>1, <3>5 DEF NodeInv, CitationsFollow, Followed
    <3>7. n \notin t.gone
      BY <1>8, <2>2, <2>3, <3>2, <3>3
    <3>8. redirect'[n] = e
      BY <1>3, <1>7, <3>3, <3>6, <3>7
    <3> QED
      BY <3>1, <3>5, <3>6, <3>8
  <2>6. CASE e \in taken
    <3>1. Path(n)' = Path(n) \union {t.keep} /\ Carrier(n)' = t.keep
      BY <1>1, <1>2, <1>15, <2>6, CarrierEndsNext
    <3>2. t.keep \notin Path(n)
      BY <1>2, <1>4, <2>2, <2>6 DEF Ends, NodeInv, Consumed, LiveNode
    <3>3. \A m \in Path(n) : node'[m] = "merged" /\ m \notin torn'
      BY <1>17, <3>1, <3>2 DEF Followed
    <3>4. t.kind = "merge" /\ t.at = "linked"
      BY <1>5, <2>2, <2>6, <3>3 DEF rank, CommitMerge
    <3>5. e \in t.gone /\ LiveNode(e)
      BY <2>6 DEF taken
    <3>6. n \in t.links
      <4>1. CASE n = e
        BY <1>3, <3>4, <3>5, <4>1
      <4>2. CASE n # e
        <5>1. \A m \in Path(n) \ {e} : node[m] = "merged" /\ m \notin torn
          BY <1>5, <1>9, <2>2, <2>3, <3>3
        <5>2. Followed(n)
          BY <2>1, <2>2, <3>5, <4>2, <5>1 DEF Followed
        <5>3. redirect[n] = e
          BY <2>1, <5>2 DEF NodeInv, CitationsFollow, Followed
        <5> QED
          BY <1>1, <3>4, <3>5, <5>2, <5>3 DEF LinksAll
      <4> QED
        BY <4>1, <4>2
    <3>7. redirect'[n] = t.keep
      BY <1>7, <3>6
    <3>8. \A u \in Others(t) : t.keep \notin u.gone
      BY <1>9, <2>2, <3>3, <3>5
    <3> QED
      BY <3>1, <3>7, <3>8
  <2> QED
    BY <2>5, <2>6
<1>18. CitationsFollow'
  BY <1>17 DEF CitationsFollow, Followed
<1>19. ASSUME NEW u \in Others(t) PROVE StillStands(u)' /\ LinksAll(u)'
  <2>1. /\ StillStands(u) /\ LinksAll(u) /\ u \in Activities(u.id)
        /\ u \in tx /\ u # t /\ Apart(u, t)
    BY DEF NodeInv, TypeInv, Others
  <2>2. u.rows \subseteq Facts /\ u.links \subseteq Nodes /\ u.gone \subseteq Nodes
    BY <2>1 DEF Activities
  <2>3. \A c \in u.rows : fact'[c] # NoFact
    BY <1>11, <2>1, <2>2 DEF StillStands
  <2>4. \A n \in u.shares : LiveNode(n)'
    <3>1. \A n \in u.shares : n \in Nodes /\ LiveNode(n) /\ n \notin t.gone
      BY <1>1, <2>1 DEF StillStands, Activities, MayDelete
    <3> QED
      BY <1>10, <3>1
  <2>5. \A n \in u.links : redirect'[n] = redirect[n]
    BY <1>1, <1>7, <2>1, <2>2 DEF Apart, MayDelete
  <2>6. StillStands(u)'
    BY <2>1, <2>3, <2>4, <2>5 DEF StillStands
  <2>7. LinksAll(u)'
    BY <1>17, <2>1 DEF LinksAll
  <2> QED
    BY <2>6, <2>7
<1>20. \A u, w \in tx' : u # w => Apart(u, w)'
  BY <1>1 DEF NodeInv, Apart, Others
<1> QED
  BY <1>1, <1>12, <1>13, <1>14, <1>16, <1>18, <1>19, <1>20 DEF NodeInv

-----------------------------------------------------------------------------
(* The theorems.                                                           *)

\* The invariant holds at first.
LEMMA NodeInitInv ==
    ASSUME NodeAssumption, NodeInit
    PROVE  NodeInv
<1>1. TypeInv
  <2>1. IsFiniteSet(tx) /\ Cardinality(tx) <= MaxOpen
    BY FS_EmptySet DEF NodeInit, NodeAssumption
  <2> QED
    BY <2>1 DEF NodeInit, TypeInv, Optional, NodeAssumption
<1>2. Kept
  BY DEF NodeInit, Kept, LiveNode, Stored, NoFact
<1>3. Consumed
  BY DEF NodeInit, Consumed
<1>4. ASSUME NEW n \in Nodes PROVE Ends(n, n)
  <2>1. {n} \in SUBSET Nodes /\ \A k \in {n} : into[k] = None
    BY DEF NodeInit
  <2>2. Path(n) \subseteq {n}
    BY <1>1, <2>1, PathIs DEF TypeInv
  <2> QED
    BY <1>1, <2>1, <2>2, PathIs DEF TypeInv, Ends
<1>5. Chained
  BY <1>4 DEF Chained
<1>6. CitationsFollow
  BY DEF NodeInit, CitationsFollow
<1> QED
  BY <1>1, <1>2, <1>3, <1>5, <1>6 DEF NodeInv, NodeInit

\* Every step keeps the invariant.
LEMMA NodeStep ==
    ASSUME NodeAssumption, NodeInv, NodeNext
    PROVE  NodeInv'
<1>1. CASE MayOpen /\ \E keep \in Nodes, gone \in SUBSET Nodes : BeginMerge(keep, gone)
  BY <1>1, BeginMergeKeeps
<1>2. CASE MayOpen /\ \E keep, n \in Nodes : BeginSweep(keep, n)
  BY <1>2, BeginSweepKeeps
<1>3. CASE MayOpen /\ \E subject, object \in Nodes :
              subject # object /\ BeginFact(subject, object, None)
  BY <1>3, BeginFactKeeps DEF Optional
<1>4. CASE MayOpen /\ \E subject \in Nodes, value \in Values : BeginFact(subject, None, value)
  BY <1>4, BeginFactKeeps DEF Optional
<1>5. CASE \E t \in tx : CommitFact(t)
  BY <1>5, CommitFactKeeps
<1>6. CASE \E t \in tx : Rewire(t)
  BY <1>6, RewireKeeps
<1>7. CASE \E t \in tx : Link(t)
  BY <1>7, LinkKeeps
<1>8. CASE \E t \in tx : CommitMerge(t)
  BY <1>8, CommitMergeKeeps
<1>9. CASE \E t \in tx : RollbackTx(t)
  BY <1>9, RollbackKeeps
<1>10. CASE \E n \in Nodes : DeleteNode(n)
  BY <1>10, DeleteNodeKeeps
<1> QED
  BY <1>1, <1>2, <1>3, <1>4, <1>5, <1>6, <1>7, <1>8, <1>9, <1>10 DEF NodeNext

\* The inductive invariant of nodes, claims, redirects and transactions.
THEOREM NodeInvariant == NodeSpec => []NodeInv
<1>1. NodeInit => NodeInv
  BY NodeAssumption, NodeInitInv
<1>2. NodeInv /\ [NodeNext]_nodeVars => NodeInv'
  <2>1. ASSUME NodeInv, NodeNext PROVE NodeInv'
    BY <2>1, NodeAssumption, NodeStep
  <2>2. ASSUME NodeInv, UNCHANGED nodeVars PROVE NodeInv'
    <3>1. UNCHANGED <<node, into, fact, redirect, torn, opened, tx>>
      BY <2>2 DEF nodeVars
    <3>2. TypeInv' /\ Kept'
      BY <2>2, <3>1 DEF NodeInv, TypeInv, Kept, LiveNode, Stored, Refers
    <3>3. Consumed' /\ Chained' /\ CitationsFollow'
      BY <2>2, <3>1, IdentityStays DEF NodeInv
    <3>4. \A t \in tx : StillStands(t)' /\ LinksAll(t)'
      BY <2>2, <3>1, StandingStays, LinksAllStays DEF NodeInv
    <3> QED
      BY <2>2, <3>1, <3>2, <3>3, <3>4 DEF NodeInv, Apart
  <2> QED
    BY <2>1, <2>2
<1> QED
  BY <1>1, <1>2, PTL DEF NodeSpec

\* NodeTypeOK: no claim and no redirect points to a node that is gone, and no
\* claim is held by two transactions.
THEOREM NodesAreTyped == NodeSpec => []NodeTypeOK
<1>1. NodeInv => NodeTypeOK
  <2> SUFFICES ASSUME NodeInv PROVE NodeTypeOK
    OBVIOUS
  <2>1. \A c \in Facts : fact[c] = NoFact \/
          /\ fact[c].state \in {"stored", "loop", "duplicate", "lost"}
          /\ Stored(c) => \A n \in Refers(c) : LiveNode(n)
          /\ fact[c].active \in BOOLEAN /\ fact[c].raced \in BOOLEAN
    BY DEF NodeInv, TypeInv, Kept, Claimed
  <2> QED
    BY <2>1 DEF NodeInv, NodeTypeOK, TypeInv, Optional, Kept, Apart
<1> QED
  BY <1>1, NodeInvariant, PTL

\* CitationsFollow: a citation of a merged node leads to the node that carries
\* its identity now (writeNodeRedirects keeps chains flat).
THEOREM CitationsAreFollowed == NodeSpec => []CitationsFollow
<1>1. NodeInv => CitationsFollow
  BY DEF NodeInv
<1> QED
  BY <1>1, NodeInvariant, PTL

-----------------------------------------------------------------------------
(* The invariant behind FactsSurvive.                                      *)

StatedFacts == {c \in Facts : fact[c] # NoFact}
Inserts == {t \in tx : t.kind = "insert"}

\* Claims are numbered in the order of their creation, and there is room for
\* those on their way.
Numbered == StatedFacts = 1 .. Inserted /\ Inserted + Cardinality(Inserts) <= MaxFacts

\* A claim that is stored is about the carriers of what it was about first, and
\* never about one node twice.
AtCarriers ==
    \A c \in Facts : Stored(c) =>
        /\ fact[c].subject = Carrier(fact[c].first[1])
        /\ fact[c].object = Carrier(fact[c].first[2])
        /\ fact[c].subject # fact[c].object

\* c has an older equal e, which t moves along if e is about what t consumes.
Twin(t, c, e) ==
    /\ e < c /\ Stored(e) /\ Image(t, e) = Image(t, c)
    /\ Refers(e) \cap t.gone # {} => e \in t.moved

\* Of what t consumes, it moves all that is stated, except what was stated while
\* it did; and what it drops is a loop or is stated by another claim.
Rewired(t) ==
    t.kind # "insert" /\ t.at # "begun" =>
        /\ \A c \in t.rows : Stored(c)
        /\ t.doubles \cap t.loops = {}
        /\ \A c \in t.rows :
              c \in t.loops <=> /\ To(t, fact[c].subject) = t.keep
                               /\ To(t, fact[c].object) = t.keep
        /\ \A c \in t.doubles : \E e \in Facts : Twin(t, c, e)
        /\ \A c \in Facts : Stored(c) /\ Refers(c) \cap t.gone # {} =>
              c \in t.moved \/ Excused(c)

\* What is on its way is about two nodes, and first about them.
Stating(t) ==
    t.kind = "insert" =>
        /\ t.new.first = <<t.new.subject, t.new.object>>
        /\ t.new.subject # t.new.object

SurvivalInv ==
    /\ Numbered /\ AtCarriers /\ \A t \in tx : Rewired(t) /\ Stating(t)
    /\ FactsSurvive

\* A chain that a claim is excused for.
Broken(n) == n # None /\ \E m \in Path(n) : m \in torn \/ node[m] = "deleted"

-----------------------------------------------------------------------------
(* What is stated, and of whom.                                            *)

\* A set of claims has an oldest one.
LEMMA LeastOf ==
    ASSUME NEW S \in SUBSET Facts, S # {}, MaxFacts \in Nat
    PROVE  \E m \in S : \A k \in S : ~(k < m)
<1> DEFINE T == {1 .. k : k \in S}
<1>1. S \subseteq Nat /\ IsFiniteSet(Facts)
  BY FS_Interval DEF Facts
<1>2. T \subseteq FiniteSubsetsOf(Facts) /\ T # {}
  <2>1. \A k \in S : 1 .. k \subseteq Facts /\ IsFiniteSet(1 .. k)
    BY FS_Interval DEF Facts
  <2> QED
    BY <2>1 DEF FiniteSubsetsOf
<1>3. PICK least \in T : \A other \in T : <<other, least>> \notin StrictSubsetOrdering(Facts)
  BY <1>1, <1>2, FS_StrictSubsetOrderingWellFounded, WFMin
<1>4. PICK m \in S : least = 1 .. m
  BY <1>3
<1>5. ASSUME NEW k \in S, k < m PROVE FALSE
  <2>1. 1 .. k \subseteq 1 .. m /\ m \in 1 .. m /\ m \notin 1 .. k
    BY <1>1, <1>5 DEF Facts
  <2>2. 1 .. k \subseteq Facts /\ 1 .. m \subseteq Facts
    BY DEF Facts
  <2>3. <<1 .. k, 1 .. m>> \in StrictSubsetOrdering(Facts)
    BY <2>1, <2>2 DEF StrictSubsetOrdering
  <2> QED
    BY <1>3, <1>4, <2>3
<1> QED
  BY <1>5

\* A row that is there was first about a node, and another or none.
LEMMA RowIs ==
    ASSUME TypeInv, NEW c \in Facts, fact[c] # NoFact
    PROVE  /\ fact[c] \in Claimed /\ fact[c].subject \in Nodes /\ fact[c].object \in Optional
           /\ \E a \in Nodes, b \in Optional : fact[c].first = <<a, b>>
BY DEF TypeInv, Claimed

\* What a claim states, by what it was first about.
LEMMA ContentIs ==
    ASSUME NEW c, NEW a, NEW b
    PROVE  fact[c].first = <<a, b>> => Content(c) = <<Carrier(a), Carrier(b), fact[c].value>>
BY DEF Content

\* The same of the state after a step.
LEMMA ContentIsNext ==
    ASSUME NEW c, NEW a, NEW b
    PROVE  fact'[c].first = <<a, b>> =>
              Content(c)' = <<Carrier(a)', Carrier(b)', fact'[c].value>>
<1>1. (fact[c].first = <<a, b>> => Content(c) = <<Carrier(a), Carrier(b), fact[c].value>>)'
  BY ContentIs, PTL
<1> QED
  BY <1>1

\* When a claim is excused, by what it was first about.
LEMMA ExcusedIs ==
    ASSUME NEW c, NEW a, NEW b
    PROVE  fact[c].first = <<a, b>> =>
              (Excused(c) <=> \/ fact[c].raced \/ Carrier(a) = Carrier(b)
                              \/ Broken(a) \/ Broken(b))
<1> HAVE fact[c].first = <<a, b>>
<1>1. Content(c)[1] = Carrier(a) /\ Content(c)[2] = Carrier(b)
  BY ContentIs
<1> HIDE DEF Content
<1>2. (\E n \in {fact[c].first[1], fact[c].first[2]} \ {None} :
           \E m \in Path(n) : m \in torn \/ node[m] = "deleted") <=> Broken(a) \/ Broken(b)
  BY DEF Broken
<1> QED
  BY <1>1, <1>2 DEF Excused

\* The same of the state after a step.
LEMMA ExcusedIsNext ==
    ASSUME NEW c, NEW a, NEW b
    PROVE  fact'[c].first = <<a, b>> =>
              (Excused(c)' <=> \/ fact'[c].raced \/ Carrier(a)' = Carrier(b)'
                               \/ Broken(a)' \/ Broken(b)')
<1>1. (fact[c].first = <<a, b>> =>
              (Excused(c) <=> \/ fact[c].raced \/ Carrier(a) = Carrier(b)
                              \/ Broken(a) \/ Broken(b)))'
  BY ExcusedIs, PTL
<1> QED
  BY <1>1

\* A node's carrier is the end of its chain.
LEMMA Carriers ==
    ASSUME TypeInv, Chained, NodeAssumption, NEW n \in Optional
    PROVE  /\ n = None => Carrier(n) = None
           /\ n # None => Carrier(n) \in Nodes /\ Ends(n, Carrier(n))
<1>1. CASE n = None
  BY <1>1 DEF Carrier
<1>2. CASE n # None
  <2>1. n \in Nodes
    BY <1>2 DEF Optional
  <2> PICK e \in Nodes : Ends(n, e)
    BY <2>1 DEF Chained
  <2>2. Carrier(n) = e
    BY <2>1, CarrierEnds DEF NodeAssumption
  <2> QED
    BY <1>2, <2>2
<1> QED
  BY <1>1, <1>2

\* A node that is there carries itself.
LEMMA LiveIsCarrier ==
    ASSUME NodeAssumption, TypeInv, Consumed, NEW n \in Optional, n # None => LiveNode(n)
    PROVE  Carrier(n) = n
<1>1. CASE n = None
  BY <1>1 DEF Carrier
<1>2. CASE n # None
  <2>1. n \in Nodes /\ into[n] = None
    BY <1>2 DEF Optional, Consumed, LiveNode
  <2>2. {n} \in SUBSET Nodes /\ \A k \in {n} : into[k] = None
    BY <2>1
  <2>3. Path(n) \subseteq {n} /\ n \in Path(n)
    BY <2>1, <2>2, PathIs DEF TypeInv
  <2>4. Ends(n, n)
    BY <2>1, <2>3 DEF Ends
  <2> QED
    BY <2>1, <2>4, CarrierEnds DEF NodeAssumption
<1> QED
  BY <1>1, <1>2

\* A step that parts no chains that have met, and mends none that is broken.
Onward ==
    /\ \A a, b \in Optional : Carrier(a) = Carrier(b) => Carrier(a)' = Carrier(b)'
    /\ \A a \in Optional : Broken(a) => Broken(a)'

\* A claim of which the step changes neither what was first stated nor its excuse.
Lasting(c) ==
    /\ fact[c] # NoFact /\ fact'[c] # NoFact /\ fact'[c].first = fact[c].first
    /\ fact'[c].value = fact[c].value /\ fact'[c].raced = fact[c].raced

\* A claim that is excused stays so.
LEMMA ExcusedStays ==
    ASSUME TypeInv, Onward, NEW c \in Facts, Lasting(c), Excused(c)
    PROVE  Excused(c)'
<1> PICK a \in Nodes, b \in Optional : fact[c].first = <<a, b>>
  BY RowIs DEF Lasting
<1>1. fact[c].raced \/ Carrier(a) = Carrier(b) \/ Broken(a) \/ Broken(b)
  BY ExcusedIs
<1>2. fact'[c].raced \/ Carrier(a)' = Carrier(b)' \/ Broken(a)' \/ Broken(b)'
  BY <1>1 DEF Onward, Lasting, Optional
<1> QED
  BY <1>2, ExcusedIsNext DEF Lasting

\* Claims that state the same keep doing so.
LEMMA EqualStays ==
    ASSUME TypeInv, Onward, NEW c \in Facts, Lasting(c), NEW d \in Facts, Lasting(d),
           Content(c) = Content(d)
    PROVE  Content(c)' = Content(d)'
<1> PICK a \in Nodes, b \in Optional : fact[c].first = <<a, b>>
  BY RowIs DEF Lasting
<1> PICK k \in Nodes, l \in Optional : fact[d].first = <<k, l>>
  BY RowIs DEF Lasting
<1>1. Carrier(a) = Carrier(k) /\ Carrier(b) = Carrier(l) /\ fact[c].value = fact[d].value
  <2>1. <<Carrier(a), Carrier(b), fact[c].value>> = <<Carrier(k), Carrier(l), fact[d].value>>
    BY ContentIs
  <2> QED
    BY <2>1
<1>2. Carrier(a)' = Carrier(k)' /\ Carrier(b)' = Carrier(l)' /\ fact'[c].value = fact'[d].value
  BY <1>1 DEF Onward, Lasting, Optional
<1> QED
  BY <1>2, ContentIsNext DEF Lasting

\* A claim that is stored is excused, or stands for what it stated.
LEMMA StoredStates ==
    ASSUME AtCarriers, TypeInv, NEW c \in Facts, Stored(c)
    PROVE  <<fact[c].subject, fact[c].object, fact[c].value>> = Content(c)
BY DEF AtCarriers, Content

\* The same of the state after a step.
LEMMA StoredStatesNext ==
    ASSUME AtCarriers', TypeInv', NEW c \in Facts, Stored(c)'
    PROVE  (<<fact[c].subject, fact[c].object, fact[c].value>> = Content(c))'
<1>1. (AtCarriers /\ TypeInv /\ c \in Facts /\ Stored(c) =>
          <<fact[c].subject, fact[c].object, fact[c].value>> = Content(c))'
  BY StoredStates, PTL
<1> QED
  BY <1>1

\* When what was stored still is, or is excused, or has an equal that is stored, and
\* what is new is stored, then what was stated survives.
LEMMA SurvivalStep ==
    ASSUME TypeInv, TypeInv', AtCarriers', Onward, FactsSurvive,
           \A c \in Facts : fact[c] # NoFact => Lasting(c),
           \A c \in Facts : fact[c] = NoFact /\ fact'[c] # NoFact => Stored(c)',
           \A c \in Facts : Stored(c) =>
              \/ Stored(c)' \/ Excused(c)'
              \/ \E e \in Facts : Stored(e)' /\ Content(e)' = Content(c)'
    PROVE  FactsSurvive'
<1> SUFFICES ASSUME NEW c \in Facts, fact'[c] # NoFact, ~Excused(c)'
             PROVE  \E d \in Facts : /\ fact'[d] # NoFact /\ Content(d)' = Content(c)'
                                     /\ \/ Excused(d)'
                                        \/ /\ Stored(d)'
                                           /\ <<fact'[d].subject, fact'[d].object, fact'[d].value>>
                                                = Content(d)'
  BY DEF FactsSurvive
<1>1. \A d \in Facts : Stored(d)' =>
          /\ fact'[d] # NoFact
          /\ <<fact'[d].subject, fact'[d].object, fact'[d].value>> = Content(d)'
  BY StoredStatesNext DEF Stored, NoFact
<1>2. CASE fact[c] = NoFact
  BY <1>1, <1>2
<1>3. CASE fact[c] # NoFact
  <2>1. Lasting(c) /\ ~Excused(c)
    BY <1>3, ExcusedStays
  <2>2. PICK d \in Facts : fact[d] # NoFact /\ Content(d) = Content(c) /\ (Excused(d) \/ Stored(d))
    BY <1>3, <2>1 DEF FactsSurvive
  <2>3. Lasting(d) /\ Content(d)' = Content(c)'
    BY <2>1, <2>2, EqualStays
  <2>4. CASE Excused(d)
    BY <2>3, <2>4, ExcusedStays DEF Lasting
  <2>5. CASE Stored(d)
    <3>1. CASE Stored(d)' \/ Excused(d)'
      BY <1>1, <2>3, <3>1 DEF Lasting
    <3>2. CASE \E e \in Facts : Stored(e)' /\ Content(e)' = Content(d)'
      BY <1>1, <2>3, <3>2
    <3> QED
      BY <2>5, <3>1, <3>2
  <2> QED
    BY <2>2, <2>4, <2>5
<1> QED
  BY <1>2, <1>3

\* When what is locked stays, an equal keeps an equal, and what it is about to consume
\* is still moved or excused, the transaction is as good as it was.
LEMMA RewiredStays ==
    ASSUME NEW u, u \in Activities(u.id), StillStands(u), Rewired(u),
           \A c \in u.rows : Stored(c) => /\ Stored(c)' /\ fact'[c].subject = fact[c].subject
                                          /\ fact'[c].object = fact[c].object,
           \A c \in u.doubles, e \in Facts : Twin(u, c, e) => \E d \in Facts : Twin(u, c, d)',
           \A c \in Facts : Stored(c)' /\ Refers(c)' \cap u.gone # {} =>
              c \in u.moved \/ Excused(c)'
    PROVE  Rewired(u)'
<1> SUFFICES ASSUME u.kind # "insert", u.at # "begun" PROVE Rewired(u)'
  BY DEF Rewired
<1>1. u.loops \subseteq u.rows
  BY DEF StillStands
<1> QED
  BY <1>1 DEF Rewired

-----------------------------------------------------------------------------
(* Steps that leave claims and nodes alone.                                *)

\* There are finitely many claims.
LEMMA FactsAreFinite ==
    ASSUME NodeAssumption
    PROVE  IsFiniteSet(Facts)
BY FS_Interval DEF Facts, NodeAssumption

\* Claims stay numbered while none is inserted.
LEMMA NumberedStays ==
    ASSUME NodeAssumption, NodeInv, Numbered, StatedFacts' = StatedFacts, Inserts' \subseteq Inserts
    PROVE  Numbered'
<1>1. Inserted' = Inserted
  BY DEF Inserted, StatedFacts
<1>2. IsFiniteSet(Inserts)
  BY FS_Subset DEF NodeInv, TypeInv, Inserts
<1>3. IsFiniteSet(Inserts') /\ Cardinality(Inserts') <= Cardinality(Inserts)
  BY <1>2, FS_Subset
<1>4. IsFiniteSet(StatedFacts)
  BY FS_Interval, FS_Subset DEF StatedFacts, Facts, NodeAssumption
<1>5. Inserted \in Nat /\ Cardinality(Inserts) \in Nat /\ Cardinality(Inserts') \in Nat
  BY <1>2, <1>3, <1>4, FS_CardinalityType DEF Inserted, StatedFacts
<1>6. Inserted' + Cardinality(Inserts') <= MaxFacts
  BY <1>1, <1>3, <1>5 DEF Numbered, NodeAssumption
<1> QED
  BY <1>1, <1>6 DEF Numbered

\* Nothing happened to nodes.
LEMMA BrokenStays ==
    ASSUME UNCHANGED <<node, into, torn>>, NEW n \in Optional
    PROVE  Carrier(n)' = Carrier(n) /\ Broken(n)' = Broken(n)
<1>1. CASE n = None
  BY <1>1 DEF Carrier, Broken
<1>2. CASE n # None
  <2>1. n \in Nodes
    BY <1>2 DEF Optional
  <2>2. Path(n)' = Path(n) /\ Carrier(n)' = Carrier(n)
    BY <2>1, PathStays
  <2> QED
    BY <2>2 DEF Broken
<1> QED
  BY <1>1, <1>2

\* Then no chains part and none is mended.
LEMMA QuietIsOnward ==
    ASSUME UNCHANGED <<node, into, torn>>
    PROVE  Onward
BY BrokenStays DEF Onward

\* A claim that is not written is what it was.
LEMMA QuietLasts ==
    ASSUME NEW c \in Facts, fact[c] # NoFact, UNCHANGED fact
    PROVE  Lasting(c)
BY DEF Lasting

\* A transaction that has read its claims is as good as it was while nothing is
\* written.
LEMMA QuietRewired ==
    ASSUME TypeInv, UNCHANGED <<node, into, fact, redirect, torn>>, NEW t, Rewired(t)
    PROVE  Rewired(t)'
<1>1. \A c \in Facts : Stored(c)' <=> Stored(c)
  BY DEF Stored
<1>2. \A c \in Facts : Stored(c)' /\ Refers(c)' \cap t.gone # {} /\ t.kind # "insert" /\ t.at # "begun" =>
         c \in t.moved \/ Excused(c)'
  BY <1>1, QuietLasts, QuietIsOnward, ExcusedStays, StoredIsThere DEF Rewired, Refers
<1> QED
  BY <1>2 DEF Rewired, Twin, Stored, Refers, Image, To

\* A step that only opens, advances or closes transactions.
LEMMA QuietSurvives ==
    ASSUME NodeAssumption, NodeInv, NodeInv', SurvivalInv,
           UNCHANGED <<node, into, fact, redirect, torn>>,
           Numbered', \A t \in tx' : t \in tx \/ (Rewired(t) /\ Stating(t))
    PROVE  SurvivalInv'
<1>1. \A c \in Facts : fact[c] # NoFact => Lasting(c)
  BY QuietLasts
<1>2. Onward
  BY QuietIsOnward
<1>3. AtCarriers'
  <2> SUFFICES ASSUME NEW c \in Facts, Stored(c)'
               PROVE  (/\ fact[c].subject = Carrier(fact[c].first[1])
                       /\ fact[c].object = Carrier(fact[c].first[2])
                       /\ fact[c].subject # fact[c].object)'
    BY DEF AtCarriers
  <2>1. fact[c] # NoFact /\ Stored(c)
    BY StoredIsThere DEF Stored
  <2> PICK a \in Nodes, b \in Optional : fact[c].first = <<a, b>>
    BY <2>1, RowIs DEF NodeInv
  <2>2. /\ fact[c].subject = Carrier(a) /\ fact[c].object = Carrier(b)
        /\ fact[c].subject # fact[c].object
    BY <2>1 DEF AtCarriers, SurvivalInv
  <2>3. Carrier(a)' = Carrier(a) /\ Carrier(b)' = Carrier(b)
    BY BrokenStays DEF Optional
  <2> QED
    BY <2>2, <2>3
<1>4. \A c \in Facts : Stored(c)' <=> Stored(c)
  BY DEF Stored
<1>5. FactsSurvive'
  BY <1>1, <1>2, <1>3, <1>4, SurvivalStep DEF NodeInv, SurvivalInv
<1>6. \A t \in tx' : Rewired(t)' /\ Stating(t)
  BY QuietRewired DEF SurvivalInv, NodeInv
<1> QED
  BY <1>3, <1>5, <1>6 DEF SurvivalInv, Stating

\* A transaction opens that has done nothing.
LEMMA OpenedSurvives ==
    ASSUME NodeAssumption, NodeInv, NodeInv', SurvivalInv, NEW v, BeginTx(v),
           v.at = "begun", Stating(v),
           v.kind # "insert" \/ Inserted + Cardinality(Inserts) < MaxFacts
    PROVE  SurvivalInv'
<1>1. tx' = tx \union {v} /\ UNCHANGED <<node, into, fact, redirect, torn>>
  BY DEF BeginTx
<1>2. StatedFacts' = StatedFacts /\ Inserted' = Inserted
  BY <1>1 DEF StatedFacts, Inserted
<1>3. Numbered'
  <2>1. CASE v.kind # "insert"
    <3>1. Inserts' \subseteq Inserts
      BY <1>1, <2>1 DEF Inserts
    <3> QED
      BY <1>2, <3>1, NumberedStays DEF SurvivalInv
  <2>2. CASE v.kind = "insert"
    <3>1. IsFiniteSet(Inserts) /\ IsFiniteSet(StatedFacts)
      <4>1. IsFiniteSet(Facts) /\ IsFiniteSet(tx)
        BY FS_Interval DEF NodeInv, TypeInv, Facts, NodeAssumption
      <4> QED
        BY <4>1, FS_Subset DEF Inserts, StatedFacts
    <3>2. Inserts' = Inserts \union {v}
      BY <1>1, <2>2 DEF Inserts
    <3>3. /\ IsFiniteSet(Inserts')
          /\ \/ Cardinality(Inserts') = Cardinality(Inserts) + 1
             \/ Cardinality(Inserts') = Cardinality(Inserts)
      BY <3>1, <3>2, FS_AddElement
    <3>4. Inserted \in Nat /\ Cardinality(Inserts) \in Nat /\ MaxFacts \in Nat
      BY <3>1, FS_CardinalityType DEF Inserted, StatedFacts, NodeAssumption
    <3>5. Inserted' + Cardinality(Inserts') <= MaxFacts
      BY <1>2, <2>2, <3>3, <3>4
    <3> QED
      BY <1>2, <3>5 DEF Numbered, SurvivalInv
  <2> QED
    BY <2>1, <2>2
<1>4. Rewired(v)
  BY DEF Rewired
<1> QED
  BY <1>1, <1>3, <1>4, QuietSurvives

\* mergeNodes begins.
LEMMA BeginMergeSurvives ==
    ASSUME NodeAssumption, NodeInv, NodeInv', SurvivalInv,
           NEW keep \in Nodes, NEW gone \in SUBSET Nodes, BeginMerge(keep, gone)
    PROVE  SurvivalInv'
<1> PICK k : NewTx = Blank(k)
  BY Fresh
<1> PICK v : v = [NewTx EXCEPT !.kind = "merge", !.keep = keep, !.gone = gone]
  OBVIOUS
<1>1. BeginTx(v)
  BY DEF BeginMerge
<1>2. v.kind = "merge" /\ v.at = "begun"
  BY DEF Blank
<1> QED
  BY <1>1, <1>2, OpenedSurvives DEF Stating

\* The nightly sweep begins with a pair.
LEMMA BeginSweepSurvives ==
    ASSUME NodeAssumption, NodeInv, NodeInv', SurvivalInv,
           NEW keep \in Nodes, NEW n \in Nodes, BeginSweep(keep, n)
    PROVE  SurvivalInv'
<1> PICK k : NewTx = Blank(k)
  BY Fresh
<1> PICK v : v = [NewTx EXCEPT !.kind = "sweep", !.keep = keep, !.gone = {n}]
  OBVIOUS
<1>1. BeginTx(v)
  BY DEF BeginSweep
<1>2. v.kind = "sweep" /\ v.at = "begun"
  BY DEF Blank
<1> QED
  BY <1>1, <1>2, OpenedSurvives DEF Stating

\* An insertion begins, for which there is room.
LEMMA BeginFactSurvives ==
    ASSUME NodeAssumption, NodeInv, NodeInv', SurvivalInv, NEW subject, NEW object, NEW value,
           subject # object, BeginFact(subject, object, value)
    PROVE  SurvivalInv'
<1> PICK k : NewTx = Blank(k)
  BY Fresh
<1> PICK c : c = [state |-> "stored", subject |-> subject, object |-> object, value |-> value,
                  first |-> <<subject, object>>, active |-> TRUE, raced |-> FALSE]
  OBVIOUS
<1> PICK v : v = [NewTx EXCEPT !.kind = "insert", !.shares = {subject, object} \ {None},
                               !.new = c]
  OBVIOUS
<1>1. BeginTx(v)
  BY DEF BeginFact
<1>2. Inserted + Cardinality(Inserts) < MaxFacts
  BY DEF BeginFact, Inserts
<1>3. v.kind = "insert" /\ v.at = "begun" /\ v.new = c
  BY DEF Blank
<1>4. Stating(v)
  BY <1>3 DEF Stating
<1> QED
  BY <1>1, <1>2, <1>3, <1>4, OpenedSurvives

\* A merge reads its claims, locks its redirects, or is rolled back.
LEMMA AdvanceSurvives ==
    ASSUME NodeAssumption, NodeInv, NodeInv', SurvivalInv, NEW t \in tx,
           Rewire(t) \/ Link(t) \/ RollbackTx(t)
    PROVE  SurvivalInv'
<1>1. UNCHANGED <<node, into, fact, redirect, torn>>
  BY DEF Rewire, Link, RollbackTx
<1>2. StatedFacts' = StatedFacts
  BY <1>1 DEF StatedFacts
<1>3. t \in Activities(t.id) /\ Rewired(t) /\ Stating(t) /\ Others(t) \subseteq tx
  BY DEF NodeInv, TypeInv, SurvivalInv, Others
<1>4. CASE Rewire(t)
  <2> DEFINE rows == Moved(t) \union Loops(t) \union Duplicates(t)
  <2> PICK v : v = [t EXCEPT !.at = "rewired", !.moved = Moved(t), !.loops = Loops(t),
                             !.doubles = Duplicates(t) \ Loops(t), !.rows = rows,
                             !.shares = {t.keep}]
    OBVIOUS
  <2>1. /\ v.kind = t.kind /\ v.at = "rewired" /\ v.keep = t.keep /\ v.gone = t.gone
        /\ v.moved = Moved(t) /\ v.loops = Loops(t) /\ v.doubles = Duplicates(t) \ Loops(t)
        /\ v.rows = rows
    BY <1>3 DEF Activities
  <2>2. tx' = Others(t) \union {v} /\ t.kind # "insert"
    BY <1>4 DEF Rewire
  <2>3. Rewired(v)
    <3>1. \A c \in v.rows : Stored(c)
      BY <2>1 DEF Moved, Loops, Duplicates
    <3>2. /\ \A c \in v.rows :
                c \in v.loops <=> /\ To(v, fact[c].subject) = v.keep
                                 /\ To(v, fact[c].object) = v.keep
          /\ v.doubles \cap v.loops = {}
      <4>1. \A c \in Facts : c \in Loops(t) <=> /\ Stored(c) /\ To(t, fact[c].subject) = t.keep
                                                /\ To(t, fact[c].object) = t.keep
        BY DEF Loops
      <4>2. v.rows \subseteq Facts
        BY <2>1 DEF Moved, Loops, Duplicates
      <4> QED
        BY <2>1, <3>1, <4>1, <4>2 DEF To
    <3>3. \A c \in v.doubles : \E e \in Facts : Twin(v, c, e)
      BY <2>1 DEF Duplicates, Twin, Moved, Image, To
    <3>4. \A c \in Facts : Stored(c) /\ Refers(c) \cap v.gone # {} => c \in v.moved
      BY <2>1 DEF Moved
    <3> QED
      BY <3>1, <3>2, <3>3, <3>4 DEF Rewired
  <2>4. Inserts' \subseteq Inserts
    BY <2>1, <2>2 DEF Inserts, Others
  <2> QED
    BY <1>1, <1>2, <1>3, <2>1, <2>2, <2>3, <2>4, NumberedStays, QuietSurvives DEF Stating, SurvivalInv
<1>5. CASE Link(t)
  <2> DEFINE links == Chains(t) \union t.gone
  <2> PICK v : v = [t EXCEPT !.at = "linked", !.links = links]
    OBVIOUS
  <2>1. /\ v.kind = t.kind /\ v.at = "linked" /\ v.keep = t.keep /\ v.gone = t.gone
        /\ v.moved = t.moved /\ v.loops = t.loops /\ v.doubles = t.doubles
        /\ v.rows = t.rows
    BY <1>3 DEF Activities
  <2>2. tx' = Others(t) \union {v} /\ t.kind = "merge" /\ t.at = "rewired"
    BY <1>5 DEF Link
  <2>3. Rewired(v)
    BY <1>3, <2>1, <2>2 DEF Rewired, Twin, Image, To
  <2>4. Inserts' \subseteq Inserts
    BY <2>1, <2>2 DEF Inserts, Others
  <2> QED
    BY <1>1, <1>2, <1>3, <2>1, <2>2, <2>3, <2>4, NumberedStays, QuietSurvives DEF Stating, SurvivalInv
<1>6. CASE RollbackTx(t)
  <2>1. tx' = Others(t) /\ Inserts' \subseteq Inserts
    BY <1>3, <1>6 DEF RollbackTx, Inserts
  <2> QED
    BY <1>1, <1>2, <1>3, <2>1, NumberedStays, QuietSurvives DEF SurvivalInv
<1> QED
  BY <1>4, <1>5, <1>6

-----------------------------------------------------------------------------
(* A claim is committed.                                                   *)

\* What a step leaves of the references of a claim that stays stored.
Unmoved(c) ==
    fact'[c].state = fact[c].state /\ fact'[c].subject = fact[c].subject
    /\ fact'[c].object = fact[c].object

\* An insertion commits: the claim is about nodes that are there, and raced
\* with the merges that are about to consume them.
LEMMA CommitFactSurvives ==
    ASSUME NodeAssumption, NodeInv, NodeInv', SurvivalInv, NEW t \in tx, CommitFact(t)
    PROVE  SurvivalInv'
<1> PICK id : id = Inserted + 1
  OBVIOUS
<1> DEFINE raced == \E u \in tx : u.gone \cap t.shares # {}
<1>1. /\ StillStands(t) /\ t.new \in Claimed /\ t.new.state = "stored" /\ t.kind = "insert"
      /\ t.shares = {t.new.subject, t.new.object} \ {None} /\ Stating(t)
  BY DEF NodeInv, StillStands, CommitFact, SurvivalInv
<1>2. tx' = Others(t) /\ UNCHANGED <<node, into, redirect, torn, opened>>
  BY DEF CommitFact, Others
<1> PICK row : row = [t.new EXCEPT !.raced = raced]
  OBVIOUS
<1>3. /\ row.state = "stored" /\ row.subject = t.new.subject /\ row.object = t.new.object
      /\ row.first = t.new.first /\ row.raced = raced
  BY <1>1 DEF Claimed
<1>4. /\ IsFiniteSet(Inserts) /\ IsFiniteSet(StatedFacts) /\ Inserted \in Nat
      /\ Cardinality(Inserts \ {t}) \in Nat
      /\ Cardinality(Inserts) = Cardinality(Inserts \ {t}) + 1
  <2>1. IsFiniteSet(Facts) /\ IsFiniteSet(tx)
    BY FactsAreFinite DEF NodeInv, TypeInv
  <2>2. IsFiniteSet(Inserts) /\ IsFiniteSet(StatedFacts) /\ t \in Inserts
    BY <1>1, <2>1, FS_Subset DEF Inserts, StatedFacts
  <2>3. /\ Cardinality(Inserts \ {t}) = Cardinality(Inserts) - 1
        /\ IsFiniteSet(Inserts \ {t})
    BY <2>2, FS_RemoveElement
  <2>4. Cardinality(Inserts) \in Nat /\ Cardinality(Inserts \ {t}) \in Nat /\ Cardinality(StatedFacts) \in Nat
    BY <2>2, <2>3, FS_CardinalityType
  <2> QED
    BY <2>2, <2>3, <2>4 DEF Inserted, StatedFacts
<1>5. id \in Facts /\ fact[id] = NoFact /\ StatedFacts = 1 .. Inserted /\ id + Cardinality(Inserts \ {t}) <= MaxFacts
  <2>1. StatedFacts = 1 .. Inserted /\ Inserted + Cardinality(Inserts) <= MaxFacts /\ MaxFacts \in Nat
    BY DEF SurvivalInv, Numbered, NodeAssumption
  <2>2. id \in 1 .. MaxFacts /\ id \notin 1 .. Inserted /\ id + Cardinality(Inserts \ {t}) <= MaxFacts
    BY <1>4, <2>1
  <2> QED
    BY <2>1, <2>2 DEF StatedFacts, Facts
<1>6. fact'[id] = row
  BY <1>5 DEF CommitFact
<1>7. ASSUME NEW c \in Facts, c # id
      PROVE  /\ fact[c] = NoFact => fact'[c] = NoFact
             /\ fact[c] # NoFact => Lasting(c) /\ Unmoved(c)
  <2>1. \/ fact'[c] = fact[c]
        \/ fact[c] # NoFact /\ fact'[c] = [fact[c] EXCEPT !.active = FALSE]
    BY <1>7, StoredIsThere DEF CommitFact
  <2>2. CASE fact'[c] = fact[c]
    BY <2>2 DEF Lasting, Unmoved
  <2>3. CASE fact[c] # NoFact /\ fact'[c] = [fact[c] EXCEPT !.active = FALSE]
    <3>1. fact[c] \in Claimed
      BY <2>3 DEF NodeInv, TypeInv
    <3>2. /\ fact'[c] \in Claimed /\ fact'[c].state = fact[c].state
          /\ fact'[c].subject = fact[c].subject /\ fact'[c].object = fact[c].object
          /\ fact'[c].first = fact[c].first /\ fact'[c].value = fact[c].value
          /\ fact'[c].raced = fact[c].raced
      BY <2>3, <3>1 DEF Claimed
    <3>3. NoFact \notin Claimed
      BY DEF NoFact, Claimed
    <3> QED
      BY <2>3, <3>2, <3>3 DEF Lasting, Unmoved
  <2> QED
    BY <2>1, <2>2, <2>3
<1>8. Stored(id)' /\ fact'[id] # NoFact /\ ~Stored(id)
  BY <1>3, <1>5, <1>6 DEF Stored, NoFact
<1>9. \A c \in Facts : c # id => (Stored(c)' <=> Stored(c)) /\ (Stored(c) => Unmoved(c) /\ Lasting(c))
  BY <1>7, StoredIsThere DEF Unmoved, Stored, NoFact
<1>10. Numbered'
  <2>1. StatedFacts' = StatedFacts \union {id}
    BY <1>5, <1>7, <1>8 DEF StatedFacts, Lasting
  <2>2. StatedFacts' = 1 .. id
    <3>1. id \in Nat /\ id = Inserted + 1 /\ StatedFacts = 1 .. Inserted
      BY <1>4, <1>5
    <3>2. 1 .. id = (1 .. Inserted) \union {id}
      <4>1. PICK k \in Nat : k = Inserted
        BY <1>4
      <4>2. 1 .. k + 1 = (1 .. k) \union {k + 1}
        OBVIOUS
      <4> QED
        BY <3>1, <4>1, <4>2
    <3> QED
      BY <2>1, <3>1, <3>2
  <2>3. Inserted' = id
    <3>1. Cardinality(1 .. id) = id
      <4>1. id \in Int /\ 1 \in Int /\ ~(1 > id)
        BY <1>4
      <4>2. Cardinality(1 .. id) = id - 1 + 1
        BY <4>1, FS_Interval
      <4> QED
        BY <4>1, <4>2
    <3> QED
      BY <2>2, <3>1 DEF Inserted, StatedFacts
  <2>4. Inserts' = Inserts \ {t}
    BY <1>2 DEF Inserts, Others
  <2> QED
    BY <1>5, <2>2, <2>3, <2>4 DEF Numbered
<1>11. Onward
  BY <1>2, QuietIsOnward
<1>12. AtCarriers'
  <2> SUFFICES ASSUME NEW c \in Facts, Stored(c)'
               PROVE  (/\ fact[c].subject = Carrier(fact[c].first[1])
                       /\ fact[c].object = Carrier(fact[c].first[2])
                       /\ fact[c].subject # fact[c].object)'
    BY DEF AtCarriers
  <2>1. CASE c = id
    <3> PICK a \in Nodes, b \in Optional : a = t.new.subject /\ b = t.new.object
      BY <1>1 DEF Claimed
    <3>1. row.first = <<a, b>> /\ a # b /\ row.subject = a /\ row.object = b
      BY <1>1, <1>3 DEF Stating
    <3>2. LiveNode(a) /\ (b # None => LiveNode(b))
      BY <1>1 DEF StillStands, NodeAssumption
    <3>3. Carrier(a) = a /\ Carrier(b) = b
      BY <3>2, LiveIsCarrier DEF NodeInv, Optional
    <3>4. Carrier(a)' = a /\ Carrier(b)' = b
      BY <1>2, <3>3, BrokenStays DEF Optional
    <3>5. fact'[c].first = <<a, b>> /\ fact'[c].subject = a /\ fact'[c].object = b
      BY <1>6, <2>1, <3>1
    <3> QED
      BY <3>1, <3>4, <3>5
  <2>2. CASE c # id
    <3>1. Stored(c) /\ Lasting(c) /\ Unmoved(c)
      BY <1>9, <2>2
    <3> PICK a \in Nodes, b \in Optional : fact[c].first = <<a, b>>
      BY <3>1, RowIs DEF NodeInv, Lasting
    <3>2. /\ fact[c].subject = Carrier(a) /\ fact[c].object = Carrier(b)
          /\ fact[c].subject # fact[c].object
      BY <3>1 DEF AtCarriers, SurvivalInv
    <3>3. Carrier(a)' = Carrier(a) /\ Carrier(b)' = Carrier(b)
      BY <1>2, BrokenStays DEF Optional
    <3> QED
      BY <3>1, <3>2, <3>3 DEF Lasting, Unmoved
  <2> QED
    BY <2>1, <2>2
<1>13. FactsSurvive'
  <2>1. \A c \in Facts : fact[c] # NoFact => Lasting(c)
    BY <1>5, <1>7
  <2>2. \A c \in Facts : fact[c] = NoFact /\ fact'[c] # NoFact => Stored(c)'
    BY <1>7, <1>8
  <2>3. \A c \in Facts : Stored(c) => Stored(c)'
    BY <1>8, <1>9
  <2> QED
    BY <1>11, <1>12, <2>1, <2>2, <2>3, SurvivalStep DEF NodeInv, SurvivalInv
<1>14. ASSUME NEW u \in Others(t) PROVE Rewired(u)'
  <2>1. u \in tx /\ u \in Activities(u.id) /\ StillStands(u) /\ Rewired(u)
    BY DEF Others, NodeInv, TypeInv, SurvivalInv
  <2> SUFFICES ASSUME u.kind # "insert", u.at # "begun" PROVE Rewired(u)'
    BY DEF Rewired
  <2>2. \A c \in u.rows : Stored(c) => Stored(c)' /\ Unmoved(c)
    BY <1>8, <1>9, <2>1 DEF Activities
  <2>3. ASSUME NEW c \in u.doubles, NEW e \in Facts, Twin(u, c, e) PROVE Twin(u, c, e)'
    <3>1. c \in Facts /\ Stored(c) /\ Stored(e)
      BY <2>1, <2>3 DEF StillStands, Rewired, Activities, Twin
    <3>2. Unmoved(c) /\ Unmoved(e) /\ Stored(e)' /\ Lasting(c) /\ Lasting(e)
      BY <1>8, <1>9, <3>1
    <3> QED
      BY <2>3, <3>2 DEF Twin, Image, To, Unmoved, Lasting, Refers
  <2>4. ASSUME NEW c \in Facts, Stored(c)', Refers(c)' \cap u.gone # {}
        PROVE  c \in u.moved \/ Excused(c)'
    <3>1. CASE c = id
      <4>1. Refers(c)' = t.shares
        BY <1>1, <1>3, <1>6, <3>1 DEF Refers
      <4>2. u.gone \cap t.shares # {}
        BY <2>4, <4>1
      <4>3. raced
        BY <2>1, <4>2
      <4>4. fact'[c].raced = raced
        BY <1>3, <1>6, <3>1
      <4> QED
        BY <4>3, <4>4 DEF Excused
    <3>2. CASE c # id
      <4>1. Stored(c) /\ Unmoved(c) /\ Lasting(c)
        BY <1>9, <2>4, <3>2
      <4>2. c \in u.moved \/ Excused(c)
        BY <2>1, <2>4, <4>1 DEF Rewired, Unmoved, Refers
      <4> QED
        BY <1>11, <4>1, <4>2, ExcusedStays DEF NodeInv
    <3> QED
      BY <3>1, <3>2
  <2> QED
    BY <2>1, <2>2, <2>3, <2>4, RewiredStays DEF Unmoved
<1> QED
  BY <1>2, <1>10, <1>12, <1>13, <1>14 DEF SurvivalInv, Stating, Others

-----------------------------------------------------------------------------
(* A node is deleted.                                                      *)

\* A row that a transaction holds, or of what it shares, outlives a deletion.
LEMMA HeldIsSpared ==
    ASSUME NodeInv, SurvivalInv, NEW u \in tx, NEW others, u \in others, NEW gone,
           MayDelete(others, gone), u.kind # "insert", u.at # "begun"
    PROVE  /\ \A c \in u.rows : Refers(c) \cap gone = {}
           /\ \A c \in u.doubles, e \in Facts : Twin(u, c, e) => Refers(e) \cap gone = {}
<1>1. StillStands(u) /\ Rewired(u) /\ u \in Activities(u.id)
  BY DEF NodeInv, TypeInv, SurvivalInv
<1>2. \A c \in u.rows : Refers(c) \cap gone = {}
  BY DEF MayDelete
<1>3. u.keep \notin gone
  BY <1>1 DEF StillStands, MayDelete
<1>4. ASSUME NEW c \in u.doubles, NEW e \in Facts, Twin(u, c, e) PROVE Refers(e) \cap gone = {}
  <2>1. CASE Refers(e) \cap u.gone # {}
    BY <1>1, <1>2, <1>4, <2>1 DEF Twin, StillStands
  <2>2. CASE Refers(e) \cap u.gone = {}
    <3>1. Refers(c) \cap gone = {}
      BY <1>1, <1>2 DEF StillStands
    <3>2. /\ To(u, fact[e].subject) = To(u, fact[c].subject)
          /\ To(u, fact[e].object) = To(u, fact[c].object)
      BY <1>4 DEF Twin, Image
    <3>3. ASSUME NEW n \in Refers(e) PROVE n \notin gone
      <4>1. n \notin u.gone /\ n # None
        BY <2>2 DEF Refers
      <4>2. \/ n = To(u, fact[c].subject)
            \/ n = To(u, fact[c].object)
        BY <3>2, <4>1 DEF Refers, To
      <4>3. n = u.keep \/ n = fact[c].subject \/ n = fact[c].object
        BY <4>2 DEF To
      <4> QED
        BY <1>3, <3>1, <4>1, <4>3 DEF Refers
    <3> QED
      BY <3>3
  <2> QED
    BY <2>1, <2>2
<1> QED
  BY <1>2, <1>4

\* A node is deleted: the claims that are lost with it are excused, as it is on
\* their chain, and what an open merge relies on is not among them.
LEMMA DeleteNodeSurvives ==
    ASSUME NodeAssumption, NodeInv, NodeInv', SurvivalInv, NEW d \in Nodes, DeleteNode(d)
    PROVE  SurvivalInv'
<1>1. LiveNode(d) /\ MayDelete(tx, {d}) /\ UNCHANGED <<into, tx, torn>>
  BY DEF DeleteNode
<1>2. \A n \in Nodes : node'[n] = IF n = d THEN "deleted" ELSE node[n]
  BY DEF DeleteNode, NodeInv, TypeInv
<1>3. ASSUME NEW c \in Facts, fact[c] # NoFact
      PROVE  /\ Lasting(c)
             /\ ~(Stored(c) /\ d \in Refers(c)) => fact'[c] = fact[c]
             /\ Stored(c) /\ d \in Refers(c) => ~Stored(c)'
  <2>1. fact[c] \in Claimed /\ NoFact \notin Claimed
    BY <1>3 DEF NodeInv, TypeInv, NoFact, Claimed
  <2>2. fact'[c] = Cascade(c, {d})
    BY DEF DeleteNode
  <2>3. CASE Stored(c) /\ d \in Refers(c)
    <3>1. fact'[c] = [fact[c] EXCEPT !.state = "lost"]
      BY <2>2, <2>3 DEF Cascade
    <3>2. /\ fact'[c] \in Claimed /\ fact'[c].state = "lost" /\ fact'[c].first = fact[c].first
          /\ fact'[c].value = fact[c].value /\ fact'[c].raced = fact[c].raced
      BY <2>1, <3>1 DEF Claimed
    <3> QED
      BY <1>3, <2>1, <2>3, <3>2 DEF Lasting, Stored
  <2>4. CASE ~(Stored(c) /\ d \in Refers(c))
    <3>1. fact'[c] = fact[c]
      BY <2>2, <2>4 DEF Cascade
    <3> QED
      BY <1>3, <2>4, <3>1 DEF Lasting
  <2> QED
    BY <2>3, <2>4
<1>4. \A c \in Facts : fact[c] = NoFact => fact'[c] = NoFact
  BY DEF DeleteNode, Cascade, Stored, NoFact
<1>5. \A c \in Facts : Stored(c)' => Stored(c) /\ fact'[c] = fact[c] /\ Lasting(c)
  BY <1>3, <1>4 DEF Stored, NoFact
<1>6. \A n \in Optional : Carrier(n)' = Carrier(n) /\ (Broken(n) => Broken(n)')
  <2> SUFFICES ASSUME NEW n \in Optional
               PROVE  Carrier(n)' = Carrier(n) /\ (Broken(n) => Broken(n)')
    OBVIOUS
  <2>1. CASE n = None
    BY <2>1 DEF Carrier, Broken
  <2>2. CASE n # None
    <3>1. n \in Nodes /\ Path(n)' = Path(n) /\ Carrier(n)' = Carrier(n) /\ Path(n) \subseteq Nodes
      BY <1>1, <2>2, PathStays, PathIs DEF Optional, NodeInv, TypeInv
    <3> QED
      BY <1>1, <1>2, <3>1 DEF Broken
  <2> QED
    BY <2>1, <2>2
<1>7. Onward
  BY <1>6 DEF Onward
<1>8. Numbered'
  <2>1. StatedFacts' = StatedFacts
    BY <1>3, <1>4 DEF StatedFacts, Lasting
  <2> QED
    BY <1>1, <2>1, NumberedStays DEF SurvivalInv, Inserts
<1>9. AtCarriers'
  <2> SUFFICES ASSUME NEW c \in Facts, Stored(c)'
               PROVE  (/\ fact[c].subject = Carrier(fact[c].first[1])
                       /\ fact[c].object = Carrier(fact[c].first[2])
                       /\ fact[c].subject # fact[c].object)'
    BY DEF AtCarriers
  <2>1. Stored(c) /\ fact'[c] = fact[c] /\ fact[c] # NoFact
    BY <1>5 DEF Lasting
  <2> PICK a \in Nodes, b \in Optional : fact[c].first = <<a, b>>
    BY <2>1, RowIs DEF NodeInv
  <2>2. /\ fact[c].subject = Carrier(a) /\ fact[c].object = Carrier(b)
        /\ fact[c].subject # fact[c].object
    BY <2>1 DEF AtCarriers, SurvivalInv
  <2>3. Carrier(a)' = Carrier(a) /\ Carrier(b)' = Carrier(b)
    BY <1>6 DEF Optional
  <2> QED
    BY <2>1, <2>2, <2>3
<1>10. FactsSurvive'
  <2>1. ASSUME NEW c \in Facts, Stored(c) PROVE Stored(c)' \/ Excused(c)'
    <3>1. fact[c] # NoFact /\ Lasting(c)
      BY <1>3, <2>1, StoredIsThere
    <3>2. CASE d \notin Refers(c)
      BY <1>3, <2>1, <3>1, <3>2 DEF Stored
    <3>3. CASE d \in Refers(c)
      <4> PICK a \in Nodes, b \in Optional : fact[c].first = <<a, b>>
        BY <3>1, RowIs DEF NodeInv
      <4>1. d = Carrier(a) \/ (d = Carrier(b) /\ d # None)
        BY <2>1, <3>3 DEF AtCarriers, SurvivalInv, Refers, NodeAssumption
      <4>2. ASSUME NEW n \in Optional, n # None, Carrier(n) = d PROVE Broken(n)'
        <5>1. n \in Nodes /\ d \in Path(n) /\ Path(n)' = Path(n)
          BY <1>1, <4>2, Carriers, PathStays DEF NodeInv, Ends, Optional
        <5> QED
          BY <1>2, <4>2, <5>1 DEF Broken
      <4>3. Broken(a)' \/ Broken(b)'
        BY <4>1, <4>2, Carriers DEF NodeInv, Optional, NodeAssumption
      <4> QED
        BY <3>1, <4>3, ExcusedIsNext DEF Lasting
    <3> QED
      BY <3>2, <3>3
  <2> QED
    BY <1>3, <1>4, <1>7, <1>9, <2>1, SurvivalStep DEF NodeInv, SurvivalInv
<1>11. ASSUME NEW u \in tx PROVE Rewired(u)'
  <2>1. u \in Activities(u.id) /\ StillStands(u) /\ Rewired(u)
    BY DEF NodeInv, TypeInv, SurvivalInv
  <2> SUFFICES ASSUME u.kind # "insert", u.at # "begun" PROVE Rewired(u)'
    BY DEF Rewired
  <2>2. /\ \A c \in u.rows : Refers(c) \cap {d} = {}
        /\ \A c \in u.doubles, e \in Facts : Twin(u, c, e) => Refers(e) \cap {d} = {}
    BY <1>1, HeldIsSpared
  <2>3. \A c \in u.rows : Stored(c) /\ fact'[c] = fact[c]
    BY <1>3, <2>1, <2>2, StoredIsThere DEF Rewired, Activities
  <2>4. ASSUME NEW c \in u.doubles, NEW e \in Facts, Twin(u, c, e) PROVE Twin(u, c, e)'
    <3>1. c \in u.rows /\ Stored(e) /\ d \notin Refers(e)
      BY <2>1, <2>2, <2>4 DEF StillStands, Twin
    <3>2. fact'[c] = fact[c] /\ fact'[e] = fact[e]
      BY <1>3, <2>3, <3>1, StoredIsThere
    <3> QED
      BY <2>4, <3>2 DEF Twin, Stored, Image, To, Refers
  <2>5. ASSUME NEW c \in Facts, Stored(c)', Refers(c)' \cap u.gone # {}
        PROVE  c \in u.moved \/ Excused(c)'
    <3>1. Stored(c) /\ fact'[c] = fact[c] /\ Lasting(c)
      BY <1>5, <2>5
    <3>2. c \in u.moved \/ Excused(c)
      BY <2>1, <2>5, <3>1 DEF Rewired, Refers
    <3> QED
      BY <1>7, <3>1, <3>2, ExcusedStays DEF NodeInv
  <2>6. \A c \in u.rows : Stored(c)' /\ fact'[c].subject = fact[c].subject
                                     /\ fact'[c].object = fact[c].object
    BY <2>3 DEF Stored
  <2> QED
    BY <2>1, <2>4, <2>5, <2>6, RewiredStays
<1> QED
  BY <1>1, <1>8, <1>9, <1>10, <1>11 DEF SurvivalInv, Stating

-----------------------------------------------------------------------------
(* Nodes are consumed.                                                     *)

\* The oldest of the equals of a claim that is dropped is not dropped.
LEMMA OldestIsKept ==
    ASSUME NodeAssumption, NEW t, StillStands(t), Rewired(t), t \in Activities(t.id),
           t.kind # "insert", t.at # "begun", NEW c \in t.doubles
    PROVE  \E m \in Facts : Twin(t, c, m) /\ m \notin t.loops \union t.doubles
<1> DEFINE S == {e \in Facts : Twin(t, c, e)}
<1>1. S \in SUBSET Facts /\ S # {}
  BY DEF Rewired
<1>2. PICK m \in S : \A k \in S : ~(k < m)
  BY <1>1, LeastOf DEF NodeAssumption
<1>3. Twin(t, c, m) /\ m \in Facts /\ c \in t.rows /\ c \in Facts
  BY <1>2 DEF StillStands, Activities
<1>4. m \notin t.loops
  BY <1>3 DEF Rewired, Twin, Image, StillStands
<1>5. ASSUME m \in t.doubles PROVE FALSE
  <2>1. PICK e \in Facts : Twin(t, m, e)
    BY <1>5 DEF Rewired
  <2>2. e < m /\ e < c
    <3>1. e \in Nat /\ m \in Nat /\ c \in Nat /\ e < m /\ m < c
      BY <1>3, <2>1 DEF Facts, Twin, NodeAssumption
    <3> QED
      BY <3>1
  <2>3. Twin(t, c, e)
    BY <1>3, <2>1, <2>2 DEF Twin
  <2> QED
    BY <1>2, <2>2, <2>3
<1> QED
  BY <1>3, <1>4, <1>5

\* What the commit of a merge does to chains.
LEMMA MergeIsOnward ==
    ASSUME NodeAssumption, NodeInv, NEW t \in tx, CommitMerge(t)
    PROVE  /\ Onward
           /\ \A n \in Optional : (Carrier(n) # None => LiveNode(Carrier(n))) =>
                                     Carrier(n)' = To(t, Carrier(n))
           /\ \A n \in Nodes : Path(n) \subseteq Path(n)'
<1> DEFINE taken == {n \in t.gone : LiveNode(n)}
<1>1. /\ t \in Activities(t.id) /\ StillStands(t) /\ into \in [Nodes -> Optional]
      /\ None \notin Nodes /\ torn \subseteq torn'
  BY DEF NodeInv, TypeInv, CommitMerge, NodeAssumption
<1>2. /\ t.keep \in Nodes /\ t.keep \notin t.gone /\ LiveNode(t.keep)
      /\ t.gone \in SUBSET Nodes
  BY <1>1 DEF StillStands, CommitMerge, Activities
<1>3. taken \in SUBSET Nodes /\ t.keep \notin taken
  BY <1>2
<1>4. \A n \in Nodes : into'[n] = IF n \in taken THEN t.keep ELSE into[n]
  BY DEF CommitMerge
<1>15. into' \in [Nodes -> Optional]
  BY <1>1, <1>2 DEF CommitMerge, Optional
<1>5. \A n \in Nodes : node[n] = "deleted" => node'[n] = "deleted"
  BY DEF CommitMerge, LiveNode
<1>6. into[t.keep] = None /\ \A m \in taken : into[m] = None /\ into'[m] = t.keep
  BY <1>2, <1>3, <1>4 DEF NodeInv, Consumed, LiveNode
<1>7. \A n \in taken : LiveNode(n)
  OBVIOUS
<1>8. \A n \in t.gone : LiveNode(n) => n \in taken
  OBVIOUS
<1>9. taken \subseteq t.gone
  OBVIOUS
<1> HIDE DEF taken
<1>10. ASSUME NEW n \in Nodes
       PROVE  /\ Path(n) \subseteq Path(n)'
              /\ Carrier(n)' = IF Carrier(n) \in taken THEN t.keep ELSE Carrier(n)
  <2>1. Carrier(n) \in Nodes /\ Ends(n, Carrier(n))
    BY <1>1, Carriers DEF NodeInv, Optional
  <2> PICK e \in Nodes : e = Carrier(n) /\ Ends(n, e)
    BY <2>1
  <2>2. \A m \in Nodes \ taken : into'[m] = into[m]
    BY <1>4
  <2>3. /\ e \notin taken => Path(n)' = Path(n) /\ Ends(n, e)'
        /\ e \in taken => Path(n)' = Path(n) \union {t.keep} /\ Ends(n, t.keep)'
    BY <1>1, <1>2, <1>3, <1>6, <1>15, <2>2, ChainsGrow
  <2> QED
    BY <1>1, <1>2, <2>3, CarrierEndsNext
<1>11. Carrier(None) = None /\ Carrier(None)' = None
  BY DEF Carrier
<1>12. \A n \in Optional : Carrier(n)' = IF Carrier(n) \in taken THEN t.keep ELSE Carrier(n)
  BY <1>1, <1>3, <1>10, <1>11 DEF Optional
<1>13. ASSUME NEW n \in Optional, Broken(n) PROVE Broken(n)'
  <2>1. n \in Nodes /\ n # None
    BY <1>13 DEF Broken, Optional
  <2>2. PICK m \in Path(n) : m \in torn \/ node[m] = "deleted"
    BY <1>13 DEF Broken
  <2>3. m \in Path(n)' /\ m \in Nodes
    BY <1>1, <1>10, <2>1, PathIs
  <2> QED
    BY <1>1, <1>5, <2>1, <2>2, <2>3 DEF Broken
<1>14. \A n \in Optional : (Carrier(n) # None => LiveNode(Carrier(n))) =>
                              Carrier(n)' = To(t, Carrier(n))
  BY <1>1, <1>2, <1>8, <1>9, <1>12 DEF To
<1> QED
  BY <1>10, <1>12, <1>13, <1>14 DEF Onward

\* What the commit of a merge leaves of a claim.
Moving(t, c) ==
    /\ fact'[c].state = "stored" /\ fact'[c].subject = To(t, fact[c].subject)
    /\ fact'[c].object = To(t, fact[c].object)

\* The commit of a merge moves, drops, loses or spares a claim.
LEMMA MergeOfClaim ==
    ASSUME NodeAssumption, NodeInv, SurvivalInv, NEW t \in tx, CommitMerge(t),
           NEW c \in Facts
    PROVE  /\ fact[c] = NoFact => fact'[c] = NoFact
           /\ fact[c] # NoFact => Lasting(c)
           /\ Stored(c)' => Stored(c) /\ Moving(t, c) /\ c \notin t.loops \union t.doubles
                            /\ (c \in t.moved \/ Refers(c) \cap t.gone = {})
           /\ Stored(c) /\ c \notin t.loops \union t.doubles
                        /\ (c \in t.moved \/ Refers(c) \cap t.gone = {}) => Stored(c)'
<1>1. NoFact \notin Claimed /\ NoFact.state # "stored"
  BY DEF NoFact, Claimed
<1>2. /\ t \in Activities(t.id) /\ StillStands(t) /\ Rewired(t)
      /\ fact[c] \in Claimed \union {NoFact}
  BY DEF NodeInv, TypeInv, SurvivalInv
<1>3. /\ t.moved \union t.loops \union t.doubles \subseteq t.rows
      /\ \A d \in t.rows : Stored(d)
  <2>1. t.kind # "insert" /\ t.at # "begun"
    BY DEF CommitMerge
  <2> QED
    BY <1>2, <2>1 DEF StillStands, Rewired
<1>4. None \notin t.gone /\ t.keep \in Nodes
  BY <1>2 DEF Activities, CommitMerge, StillStands, NodeAssumption
<1>5. CASE c \in t.loops \union t.doubles
  <2>1. fact[c] \in Claimed /\ fact[c] # NoFact
    BY <1>1, <1>2, <1>3, <1>5 DEF Stored
  <2>2. /\ fact'[c] \in Claimed /\ fact'[c].state # "stored" /\ fact'[c].first = fact[c].first
        /\ fact'[c].value = fact[c].value /\ fact'[c].raced = fact[c].raced
    BY <1>5, <2>1 DEF CommitMerge, Claimed
  <2> QED
    BY <1>1, <1>5, <2>1, <2>2 DEF Lasting, Stored
<1>6. CASE c \in t.moved \ (t.loops \union t.doubles)
  <2>1. fact[c] \in Claimed /\ fact[c] # NoFact /\ Stored(c)
    BY <1>1, <1>2, <1>3, <1>6 DEF Stored
  <2> DEFINE s == To(t, fact[c].subject)
             o == To(t, fact[c].object)
  <2>2. s \in Nodes /\ o \in Optional
    BY <1>4, <2>1 DEF To, Claimed, Optional
  <2>3. fact'[c] = [fact[c] EXCEPT !.subject = s, !.object = o]
    BY <1>6, <2>1 DEF CommitMerge, Claimed
  <2>4. s = To(t, fact[c].subject) /\ o = To(t, fact[c].object)
    OBVIOUS
  <2> HIDE DEF s, o
  <2>5. /\ fact'[c] \in Claimed /\ fact'[c].state = fact[c].state
        /\ fact'[c].subject = s /\ fact'[c].object = o /\ fact'[c].first = fact[c].first
        /\ fact'[c].value = fact[c].value /\ fact'[c].raced = fact[c].raced
    BY <2>1, <2>2, <2>3 DEF Claimed
  <2> QED
    BY <1>1, <1>6, <2>1, <2>4, <2>5 DEF Lasting, Stored, Moving
<1>7. CASE c \notin t.moved \union t.loops \union t.doubles
  <2>1. fact'[c] = Cascade(c, t.gone)
    BY <1>7 DEF CommitMerge
  <2>2. CASE Stored(c) /\ Refers(c) \cap t.gone # {}
    <3>1. fact[c] \in Claimed /\ fact[c] # NoFact
      BY <1>1, <1>2, <2>2 DEF Stored
    <3>2. fact'[c] = [fact[c] EXCEPT !.state = "lost"]
      BY <2>1, <2>2 DEF Cascade
    <3>3. /\ fact'[c] \in Claimed /\ fact'[c].state = "lost" /\ fact'[c].first = fact[c].first
          /\ fact'[c].value = fact[c].value /\ fact'[c].raced = fact[c].raced
      BY <3>1, <3>2 DEF Claimed
    <3> QED
      BY <1>1, <1>7, <2>2, <3>1, <3>3 DEF Lasting, Stored
  <2>3. CASE ~(Stored(c) /\ Refers(c) \cap t.gone # {})
    <3>1. fact'[c] = fact[c]
      BY <2>1, <2>3 DEF Cascade
    <3>2. Refers(c) \cap t.gone = {} =>
             To(t, fact[c].subject) = fact[c].subject /\ To(t, fact[c].object) = fact[c].object
      BY <1>4 DEF To, Refers
    <3> QED
      BY <1>7, <2>3, <3>1, <3>2 DEF Lasting, Stored, Moving
  <2> QED
    BY <2>2, <2>3
<1> QED
  BY <1>5, <1>6, <1>7

\* A merge commits. A claim that is dropped as a double leaves the oldest of
\* its equals, one that is dropped as a loop has both ends in one, and one that
\* is lost was excused. The equal that another merge relies on may be dropped,
\* but leaves its own oldest equal in the same place.
LEMMA CommitMergeSurvives ==
    ASSUME NodeAssumption, NodeInv, NodeInv', SurvivalInv, NEW t \in tx, CommitMerge(t)
    PROVE  SurvivalInv'
<1>1. /\ t \in Activities(t.id) /\ StillStands(t) /\ Rewired(t)
      /\ t.kind # "insert" /\ t.at # "begun"
  BY DEF NodeInv, TypeInv, SurvivalInv, CommitMerge
<1>2. /\ MayDelete(Others(t), t.gone) /\ tx' = Others(t)
      /\ \A u \in Others(t) : t.keep \in u.gone => t.gone \subseteq torn'
  BY DEF CommitMerge
<1>3. /\ t.keep \in Nodes /\ t.keep \notin t.gone /\ t.gone \in SUBSET Nodes
      /\ t.rows \subseteq Facts /\ t.doubles \subseteq t.rows /\ t.loops \subseteq t.rows
      /\ t.moved \subseteq t.rows /\ None \notin Nodes
  BY <1>1 DEF StillStands, Activities, NodeAssumption
<1>4. Onward
  BY MergeIsOnward
<1>5. \A n \in Nodes : Path(n) \subseteq Path(n)'
  BY MergeIsOnward
<1>6. ASSUME NEW c \in Facts, Stored(c), NEW a \in Nodes, NEW b \in Optional,
             fact[c].first = <<a, b>>
      PROVE  /\ fact[c].subject = Carrier(a) /\ fact[c].object = Carrier(b)
             /\ fact[c].subject # fact[c].object
             /\ Carrier(a)' = To(t, fact[c].subject) /\ Carrier(b)' = To(t, fact[c].object)
  <2>1. /\ fact[c].subject = Carrier(a) /\ fact[c].object = Carrier(b)
        /\ fact[c].subject # fact[c].object
    BY <1>6 DEF AtCarriers, SurvivalInv
  <2>2. /\ Carrier(a) # None => LiveNode(Carrier(a))
        /\ Carrier(b) # None => LiveNode(Carrier(b))
    BY <1>6, <2>1 DEF NodeInv, Kept, Refers
  <2> QED
    BY <2>1, <2>2, MergeIsOnward DEF Optional
<1>7. ASSUME NEW c \in Facts, Stored(c)
      PROVE  Content(c)' = Image(t, c)
  <2>1. fact[c] # NoFact /\ Lasting(c)
    BY <1>7, StoredIsThere, MergeOfClaim
  <2> PICK a \in Nodes, b \in Optional : fact[c].first = <<a, b>>
    BY <2>1, RowIs DEF NodeInv
  <2> QED
    BY <1>6, <1>7, <2>1, ContentIsNext DEF Lasting, Image
<1>8. Numbered'
  <2>1. StatedFacts' = StatedFacts
    BY MergeOfClaim DEF StatedFacts, Lasting
  <2>2. Inserts' \subseteq Inserts
    BY <1>2 DEF Inserts, Others
  <2> QED
    BY <2>1, <2>2, NumberedStays DEF SurvivalInv
<1>9. AtCarriers'
  <2> SUFFICES ASSUME NEW c \in Facts, Stored(c)'
               PROVE  (/\ fact[c].subject = Carrier(fact[c].first[1])
                       /\ fact[c].object = Carrier(fact[c].first[2])
                       /\ fact[c].subject # fact[c].object)'
    BY DEF AtCarriers
  <2>1. /\ Stored(c) /\ Moving(t, c) /\ c \notin t.loops \union t.doubles
        /\ c \in t.moved \/ Refers(c) \cap t.gone = {}
    BY MergeOfClaim
  <2>2. Lasting(c) /\ fact[c] # NoFact
    BY <2>1, StoredIsThere, MergeOfClaim
  <2> PICK a \in Nodes, b \in Optional : fact[c].first = <<a, b>>
    BY <2>2, RowIs DEF NodeInv
  <2>3. /\ fact'[c].subject = Carrier(a)' /\ fact'[c].object = Carrier(b)'
        /\ fact[c].subject # fact[c].object
    BY <1>6, <2>1 DEF Moving
  <2>4. fact'[c].subject # fact'[c].object
    <3>1. CASE Refers(c) \cap t.gone = {}
      <4>1. To(t, fact[c].subject) = fact[c].subject /\ To(t, fact[c].object) = fact[c].object
        BY <1>3, <3>1 DEF To, Refers
      <4> QED
        BY <2>1, <2>3, <4>1 DEF Moving
    <3>2. CASE c \in t.moved
      <4>1. ~(To(t, fact[c].subject) = t.keep /\ To(t, fact[c].object) = t.keep)
        BY <1>1, <1>3, <2>1, <3>2 DEF Rewired
      <4>2. To(t, fact[c].subject) # To(t, fact[c].object)
        BY <2>3, <4>1 DEF To
      <4> QED
        BY <2>1, <4>2 DEF Moving
    <3> QED
      BY <2>1, <3>1, <3>2
  <2>5. fact'[c].first = <<a, b>>
    BY <2>2 DEF Lasting
  <2> QED
    BY <2>3, <2>4, <2>5
<1>10. ASSUME NEW c \in Facts, c \in t.doubles
       PROVE  \E m \in Facts : Twin(t, c, m) /\ Stored(m)' /\ Moving(t, m)
  <2>1. PICK m \in Facts : Twin(t, c, m) /\ m \notin t.loops \union t.doubles
    BY <1>1, <1>10, OldestIsKept
  <2>2. Stored(m) /\ (m \in t.moved \/ Refers(m) \cap t.gone = {})
    BY <2>1 DEF Twin
  <2>3. Stored(m)'
    BY <2>1, <2>2, MergeOfClaim
  <2> QED
    BY <2>1, <2>3, MergeOfClaim
<1>11. FactsSurvive'
  <2>1. ASSUME NEW c \in Facts, Stored(c)
        PROVE  \/ Stored(c)' \/ Excused(c)'
               \/ \E e \in Facts : Stored(e)' /\ Content(e)' = Content(c)'
    <3>1. fact[c] # NoFact /\ Lasting(c)
      BY <2>1, StoredIsThere, MergeOfClaim
    <3>2. CASE c \in t.loops
      <4> PICK a \in Nodes, b \in Optional : fact[c].first = <<a, b>>
        BY <3>1, RowIs DEF NodeInv
      <4>1. To(t, fact[c].subject) = t.keep /\ To(t, fact[c].object) = t.keep
        BY <1>1, <1>3, <3>2 DEF Rewired
      <4>2. Carrier(a)' = Carrier(b)'
        BY <1>6, <2>1, <4>1
      <4> QED
        BY <3>1, <4>2, ExcusedIsNext DEF Lasting
    <3>3. CASE c \in t.doubles
      <4>1. PICK m \in Facts : Twin(t, c, m) /\ Stored(m)'
        BY <1>10, <3>3
      <4>2. Content(m)' = Content(c)'
        BY <1>7, <2>1, <4>1 DEF Twin
      <4> QED
        BY <4>1, <4>2
    <3>4. CASE c \notin t.loops \union t.doubles
      <4>1. CASE c \in t.moved \/ Refers(c) \cap t.gone = {}
        BY <2>1, <3>4, <4>1, MergeOfClaim
      <4>2. CASE c \notin t.moved /\ Refers(c) \cap t.gone # {}
        <5>1. Excused(c)
          BY <1>1, <2>1, <4>2 DEF Rewired
        <5> QED
          BY <1>4, <3>1, <5>1, ExcusedStays DEF NodeInv
      <4> QED
        BY <4>1, <4>2
    <3> QED
      BY <3>2, <3>3, <3>4
  <2>2. \A c \in Facts : fact[c] # NoFact => Lasting(c)
    BY MergeOfClaim
  <2>3. \A c \in Facts : fact[c] = NoFact /\ fact'[c] # NoFact => Stored(c)'
    BY MergeOfClaim
  <2>4. TypeInv /\ TypeInv' /\ FactsSurvive
    BY DEF NodeInv, SurvivalInv
  <2> QED
    BY <1>4, <1>9, <2>1, <2>2, <2>3, <2>4, SurvivalStep
<1>12. ASSUME NEW u \in Others(t) PROVE Rewired(u)'
  <2>1. /\ u \in Activities(u.id) /\ StillStands(u) /\ Rewired(u) /\ u \in tx
        /\ Apart(t, u)
    BY DEF NodeInv, TypeInv, SurvivalInv, Others
  <2> SUFFICES ASSUME u.kind # "insert", u.at # "begun" PROVE Rewired(u)'
    BY DEF Rewired
  <2>2. /\ \A c \in u.rows : Refers(c) \cap t.gone = {}
        /\ \A c \in u.doubles, e \in Facts : Twin(u, c, e) => Refers(e) \cap t.gone = {}
    BY <1>2, <2>1, HeldIsSpared
  <2>3. ASSUME NEW c \in Facts, Refers(c) \cap t.gone = {}
        PROVE  To(t, fact[c].subject) = fact[c].subject /\ To(t, fact[c].object) = fact[c].object
    BY <1>3, <2>3 DEF To, Refers
  <2>4. ASSUME NEW c \in u.rows
        PROVE  /\ Stored(c) /\ Stored(c)' /\ Lasting(c)
               /\ fact'[c].subject = fact[c].subject /\ fact'[c].object = fact[c].object
    <3>1. c \in Facts /\ Stored(c) /\ c \notin t.rows /\ Refers(c) \cap t.gone = {}
      BY <2>1, <2>2 DEF Rewired, Apart, Activities
    <3>2. Stored(c)' /\ Moving(t, c) /\ Lasting(c)
      BY <1>3, <3>1, MergeOfClaim, StoredIsThere
    <3> QED
      BY <2>3, <3>1, <3>2 DEF Moving
  <2>5. ASSUME NEW c \in u.doubles, NEW e \in Facts, Twin(u, c, e)
        PROVE  \E d \in Facts : Twin(u, c, d)'
    <3>1. /\ c \in u.rows /\ c \in Facts /\ Stored(e) /\ e < c /\ Image(u, e) = Image(u, c)
          /\ Refers(e) \cap t.gone = {} /\ Lasting(e)
      BY <2>1, <2>2, <2>5, StoredIsThere, MergeOfClaim DEF StillStands, Twin, Activities
    <3>2. To(t, fact[e].subject) = fact[e].subject /\ To(t, fact[e].object) = fact[e].object
      BY <2>3, <3>1
    <3>3. e \notin t.loops
      <4>1. fact[e].subject # fact[e].object
        BY <3>1 DEF SurvivalInv, AtCarriers
      <4> QED
        BY <1>1, <1>3, <3>2, <4>1 DEF Rewired
    <3>4. Image(u, c)' = Image(u, c)
      BY <2>4, <3>1 DEF Image, To, Lasting
    <3>5. CASE e \notin t.doubles
      <4>1. Stored(e)' /\ Moving(t, e)
        BY <3>1, <3>3, <3>5, MergeOfClaim
      <4>2. fact'[e].subject = fact[e].subject /\ fact'[e].object = fact[e].object
        BY <3>2, <4>1 DEF Moving
      <4>3. Image(u, e)' = Image(u, e) /\ Refers(e)' = Refers(e)
        BY <3>1, <4>2 DEF Image, To, Lasting, Refers
      <4>4. Refers(e)' \cap u.gone # {} => e \in u.moved
        BY <2>5, <4>3 DEF Twin
      <4> QED
        BY <3>1, <3>4, <4>1, <4>3, <4>4 DEF Twin
    <3>6. CASE e \in t.doubles
      <4>1. PICK m \in Facts : Twin(t, e, m) /\ Stored(m)' /\ Moving(t, m)
        BY <1>10, <3>6
      <4>2. Lasting(m) /\ Stored(m)
        BY <4>1, MergeOfClaim, StoredIsThere
      <4>3. /\ fact'[m].subject = fact[e].subject /\ fact'[m].object = fact[e].object
            /\ fact'[m].value = fact[e].value
        BY <3>2, <4>1, <4>2 DEF Twin, Image, Moving, Lasting
      <4>4. Image(u, m)' = Image(u, e) /\ Refers(m)' = Refers(e)
        BY <4>3 DEF Image, To, Refers
      <4>5. Refers(e) \cap u.gone = {}
        <5>1. e \notin u.rows
          BY <1>3, <2>1, <3>6 DEF Apart
        <5> QED
          BY <2>1, <2>5, <5>1 DEF Twin, StillStands
      <4>6. m < c
        <5>1. m \in Nat /\ e \in Nat /\ c \in Nat /\ m < e /\ e < c
          BY <3>1, <4>1 DEF Facts, Twin, NodeAssumption
        <5> QED
          BY <5>1
      <4> QED
        BY <3>1, <3>4, <4>1, <4>4, <4>5, <4>6 DEF Twin
    <3> QED
      BY <3>5, <3>6
  <2>6. ASSUME NEW c \in Facts, Stored(c)', Refers(c)' \cap u.gone # {}
        PROVE  c \in u.moved \/ Excused(c)'
    <3>1. Stored(c) /\ Moving(t, c) /\ Lasting(c) /\ fact[c] # NoFact
      BY <2>6, MergeOfClaim, StoredIsThere
    <3>2. CASE Refers(c) \cap u.gone # {}
      <4>1. c \in u.moved \/ Excused(c)
        BY <2>1, <3>1, <3>2 DEF Rewired
      <4> QED
        BY <1>4, <3>1, <4>1, ExcusedStays DEF NodeInv
    <3>3. CASE Refers(c) \cap u.gone = {}
      <4> PICK a \in Nodes, b \in Optional : fact[c].first = <<a, b>>
        BY <3>1, RowIs DEF NodeInv
      <4>1. Refers(c)' \subseteq Refers(c) \union {t.keep}
        BY <3>1 DEF Refers, Moving, To
      <4>2. t.keep \in u.gone /\ t.keep \notin Refers(c) /\ t.keep \in Refers(c)'
        BY <2>6, <3>3, <4>1
      <4>3. fact[c].subject \in t.gone \/ fact[c].object \in t.gone
        BY <3>1, <4>2 DEF Refers, Moving, To
      <4>4. Carrier(a) \in t.gone \/ Carrier(b) \in t.gone
        BY <1>6, <3>1, <4>3
      <4>5. ASSUME NEW n \in Optional, Carrier(n) \in t.gone PROVE Broken(n)'
        <5>1. n # None /\ n \in Nodes
          BY <1>3, <4>5, Carriers DEF NodeInv, Optional
        <5>2. Carrier(n) \in Path(n)
          BY <5>1, Carriers DEF NodeInv, Optional, Ends
        <5>3. Carrier(n) \in Path(n)' /\ Carrier(n) \in torn'
          BY <1>2, <1>5, <4>2, <4>5, <5>1, <5>2
        <5> QED
          BY <5>1, <5>3 DEF Broken
      <4>6. Broken(a)' \/ Broken(b)'
        BY <4>4, <4>5 DEF Optional
      <4> QED
        BY <3>1, <4>6, ExcusedIsNext DEF Lasting
    <3> QED
      BY <3>2, <3>3
  <2> QED
    BY <2>1, <2>4, <2>5, <2>6, RewiredStays
<1> QED
  BY <1>2, <1>8, <1>9, <1>11, <1>12 DEF SurvivalInv, Stating, Others

-----------------------------------------------------------------------------
(* What was stated survives.                                               *)

\* The invariant holds at first.
LEMMA SurvivalInit ==
    ASSUME NodeAssumption, NodeInit
    PROVE  SurvivalInv
<1>1. StatedFacts = {} /\ Inserts = {}
  BY DEF NodeInit, StatedFacts, Inserts
<1>2. Inserted = 0 /\ Cardinality(Inserts) = 0
  BY <1>1, FS_EmptySet DEF Inserted, StatedFacts
<1>3. Numbered
  <2>1. 1 .. 0 = {} /\ 0 + 0 <= MaxFacts
    BY DEF NodeAssumption
  <2> QED
    BY <1>1, <1>2, <2>1 DEF Numbered
<1>4. \A c \in Facts : fact[c] = NoFact /\ ~Stored(c)
  BY DEF NodeInit, Stored, NoFact
<1> QED
  BY <1>3, <1>4 DEF SurvivalInv, AtCarriers, FactsSurvive, NodeInit

\* Every step keeps it.
LEMMA SurvivalNext ==
    ASSUME NodeAssumption, NodeInv, NodeInv', SurvivalInv, NodeNext
    PROVE  SurvivalInv'
<1>1. CASE \E keep \in Nodes, gone \in SUBSET Nodes : BeginMerge(keep, gone)
  BY <1>1, BeginMergeSurvives
<1>2. CASE \E keep, n \in Nodes : BeginSweep(keep, n)
  BY <1>2, BeginSweepSurvives
<1>3. CASE \E subject, object \in Nodes : subject # object /\ BeginFact(subject, object, None)
  BY <1>3, BeginFactSurvives
<1>4. CASE \E subject \in Nodes, value \in Values : BeginFact(subject, None, value)
  BY <1>4, BeginFactSurvives DEF NodeAssumption
<1>5. CASE \E t \in tx : CommitFact(t)
  BY <1>5, CommitFactSurvives
<1>6. CASE \E t \in tx : Rewire(t) \/ Link(t) \/ RollbackTx(t)
  BY <1>6, AdvanceSurvives
<1>7. CASE \E t \in tx : CommitMerge(t)
  BY <1>7, CommitMergeSurvives
<1>8. CASE \E n \in Nodes : DeleteNode(n)
  BY <1>8, DeleteNodeSurvives
<1> QED
  BY <1>1, <1>2, <1>3, <1>4, <1>5, <1>6, <1>7, <1>8 DEF NodeNext

\* The inductive invariant behind FactsSurvive.
THEOREM SurvivalInvariant == NodeSpec => []SurvivalInv
<1>1. NodeInit => SurvivalInv
  BY NodeAssumption, SurvivalInit
<1>2. NodeInv /\ NodeInv' /\ SurvivalInv /\ [NodeNext]_nodeVars => SurvivalInv'
  <2>1. ASSUME NodeInv, NodeInv', SurvivalInv, NodeNext PROVE SurvivalInv'
    BY <2>1, NodeAssumption, SurvivalNext
  <2>2. ASSUME NodeInv, NodeInv', SurvivalInv, UNCHANGED nodeVars PROVE SurvivalInv'
    <3>1. UNCHANGED <<node, into, fact, redirect, torn, tx>>
      BY <2>2 DEF nodeVars
    <3>2. Numbered'
      BY <2>2, <3>1 DEF SurvivalInv, Numbered, StatedFacts, Inserted, Inserts
    <3> QED
      BY <2>2, <3>1, <3>2, NodeAssumption, QuietSurvives
  <2> QED
    BY <2>1, <2>2
<1> QED
  BY <1>1, <1>2, NodeInvariant, PTL DEF NodeSpec

\* FactsSurvive: what was stated of a node is stated of the node that carries
\* its identity, whatever was merged, swept or dropped as a duplicate since
\* (mergeNodes, the sweep of equal labels, deleteNode).
THEOREM WhatWasStatedSurvives == NodeSpec => []FactsSurvive
<1>1. SurvivalInv => FactsSurvive
  BY DEF SurvivalInv
<1> QED
  BY <1>1, SurvivalInvariant, PTL

-----------------------------------------------------------------------------
(* All three components.                                                   *)

\* Where a run begins in the middle of a migration, the migration's invariant
\* holds.
LEMMA UnderwayIsSafe == PartitionUnderway => PartitionInv
<1> SUFFICES ASSUME PartitionUnderway PROVE PartitionInv
  OBVIOUS
<1> DEFINE k == IF migration = "migrated" THEN Unassigned ELSE Null
           n == CHOOSE m \in NodeIds : TRUE
<1>1. k \in Places /\ n \in NodeIds /\ (migration = "migrated" => k # Null)
  <2>1. NodeIds # {}
    BY DEF PartitionUnderway
  <2>2. n \in NodeIds
    BY <2>1, Zenon
  <2> HIDE DEF n
  <2>. QED BY <2>2, PartitionAssumption DEF PartitionAssumption, Places
<1>2. /\ migration \in {"unmigrated", "migrating", "migrated"} /\ known = TRUE
      /\ mapping = [m \in NodeIds |-> [l \in Keys |-> NoMap]]
      /\ open = {} /\ blind = {} /\ turns = 0
  BY DEF PartitionUnderway
<1>3. PICK written \in SUBSET Origins \ {{}} :
          /\ origin = [s \in Origins |-> IF s \in written THEN About(k, n) ELSE Absent]
          /\ \E shows \in written \union {Null} :
                place = [m \in NodeIds |-> IF m = n THEN Placed(k, shows) ELSE Absent]
  BY DEF PartitionUnderway
<1>4. PICK shows \in written \union {Null} :
          place = [m \in NodeIds |-> IF m = n THEN Placed(k, shows) ELSE Absent]
  BY <1>3
<1> HIDE DEF k, n
<1>5. /\ About(k, n) \in Rows /\ About(k, n).part = k /\ About(k, n).node = n
      /\ Placed(k, shows) \in Spots /\ Placed(k, shows).there /\ Placed(k, shows).part = k
      /\ Absent \in Rows /\ Absent \in Spots /\ ~Absent.there
  BY <1>1, RowShapes, SpotShapes
<1>6. /\ \A s \in Origins : origin[s].there => origin[s].part = k /\ origin[s].node = n
      /\ origin \in [Origins -> Rows] /\ place \in [NodeIds -> Spots]
      /\ place[n].there /\ place[n].part = k
      /\ \A m \in NodeIds : place[m].there => m = n
  BY <1>1, <1>3, <1>4, <1>5
<1>7. mapping \in [NodeIds -> [Keys -> Maps]] /\ \A m \in NodeIds, l \in Keys : mapping[m][l] = NoMap
  BY <1>2, MapShapes
<1>8. MigrationTypes
  <2>1. turns \in 0 .. MaxTurns /\ open \subseteq Transactions /\ blind \subseteq Origins
    BY <1>2, PartitionAssumption DEF PartitionAssumption
  <2>. QED BY <1>2, <1>6, <1>7, <2>1 DEF MigrationTypes
<1>9. Grounded /\ OneEach /\ Unheard /\ NothingCrosses
  BY <1>1, <1>2, <1>6 DEF Grounded, OneEach, Unheard, NothingCrosses
<1>10. Leftover
  BY <1>1, <1>2, <1>6 DEF Leftover, LiveNodes
<1>11. Mapped /\ SplitsLeadHome
  BY <1>7, MapShapes DEF Mapped, SplitsLeadHome
<1>. QED BY <1>2, <1>8, <1>9, <1>10, <1>11 DEF PartitionInv

\* Nodes, partitions and sweeps side by side are nodes, and are sweeps; and of
\* the partitions, which begin anywhere in a migration, the invariant holds.
THEOREM GraphIsEach == GraphSpec => NodeSpec /\ PruneSpec /\ []PartitionInv
<1>1. GraphInit => NodeInit /\ PruneInit /\ PartitionInv
  BY InitSafe, UnderwayIsSafe DEF GraphInit, PruneFrom
<1>2. [GraphNext]_graphVars =>
          /\ [NodeNext]_nodeVars /\ [PruneNext]_pruneVars
          /\ [PartitionNext]_partitionVars
  BY DEF GraphNext, graphVars, nodeVars, partitionVars, pruneVars
<1>3. PartitionInv /\ [PartitionNext]_partitionVars => PartitionInv'
  BY NextSafe
<1>. QED BY <1>1, <1>2, <1>3, PTL DEF GraphSpec, NodeSpec, PruneSpec

\* Evidence and what it is about are in one partition, nothing is left outside
\* after the migration, and splits lead home, wherever in a migration one begins
\* (drizzle/0028_dizzy_norrin_radd.sql, partition-migration.ts).
THEOREM PartitionsHoldFromAnywhere == GraphSpec => [](PartitionsHold /\ SplitsLeadHome)
<1>1. PartitionInv => PartitionsHold /\ SplitsLeadHome
  BY HoldingPartitions DEF PartitionInv
<1>. QED BY <1>1, GraphIsEach, PTL

\* Each row of the tables behind the graph is one the code can write
\* (db/schema.ts, drizzle/0028_dizzy_norrin_radd.sql).
THEOREM GraphIsTyped == GraphSpec => []GraphTypeOK
<1> DEFINE Focused == focus \in {"nodes", "partitions", "pruning"}
<1>1. GraphInit => Focused
  BY DEF GraphInit
<1>2. Focused /\ [GraphNext]_graphVars => Focused'
  BY DEF GraphNext, graphVars
<1>3. GraphSpec => []Focused
  BY <1>1, <1>2, PTL DEF GraphSpec
<1>4. Focused /\ NodeTypeOK /\ PartitionTypeOK /\ PruneTypeOK => GraphTypeOK
  BY DEF GraphTypeOK
<1>5. PartitionInv => PartitionTypeOK
  BY PartitionTypes
<1> HIDE DEF Focused
<1>. QED BY <1>3, <1>4, <1>5, GraphIsEach, NodesAreTyped, PruningIsTyped, PTL

=============================================================================
