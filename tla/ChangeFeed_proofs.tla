------------------------- MODULE ChangeFeed_proofs -------------------------
(***************************************************************************)
(* Proofs about ChangeFeed, for any rows, partitions, writers and pages.   *)
(***************************************************************************)
EXTENDS ChangeFeed, FunctionTheorems, FiniteSetTheorems, WellFoundedInduction, TLAPS

-----------------------------------------------------------------------------
(* The inductive invariant.                                                *)

Events == [seq : Nat, epoch : {1, 2}, item : Items, gone : BOOLEAN, body : Nat]

Transactions ==
    [kind : {"create", "update", "delete", "erase", "move"}, item : Items, to : Partitions,
     statements : 0 .. 2, locked : SUBSET Items, heads : SUBSET Partitions,
     rows : [Items -> Rows \union {Untouched}], out : [Partitions -> SUBSET Events]]

Requests == [at : {"head", "rows"}, epoch : {1, 2}, after : Nat, through : Nat,
             rows : SUBSET Events]

Cursors == [epoch : {1, 2}, through : Nat, seq : Nat]

TypeInv ==
    /\ row \in [Items -> Rows]
    /\ log \in [Partitions -> SUBSET Events]
    /\ head \in [Partitions -> [epoch : {1, 2}, next : Nat \ {0}]]
    /\ tx \subseteq Transactions /\ IsFiniteSet(tx) /\ Cardinality(tx) <= MaxOpen
    /\ begun \in 0 .. MaxBegun /\ redacted \in BOOLEAN
    /\ ask = NoRequest \/ ask \in Requests
    /\ cursor = NoCursor \/ cursor \in Cursors
    /\ from \in Nat /\ held \in [Items -> Nat] /\ kept \in BOOLEAN /\ lost \in 0 .. MaxLost

\* A claim lives where its source does.
Beside == \A i \in Items : SourceOf[i] # NoSource /\ row[i].state = "live" =>
             /\ row[SourceOf[i]].state = "live"
             /\ row[SourceOf[i]].partition = row[i].partition

Disjoint == \A t, u \in tx : t # u => /\ t.locked \cap u.locked = {}
                                   /\ t.heads \cap u.heads = {}

\* The rows that the statements of t have changed so far.
LiveClaims(t) == {i \in ClaimsOf(t.item) : row[i].state = "live"}

Finished(t) ==
    IF t.statements = 0 THEN {}
    ELSE IF t.kind = "erase" /\ t.statements = 1 THEN LiveClaims(t)
    ELSE IF t.kind \in {"erase", "move"} /\ t.statements = 2 THEN LiveClaims(t) \union {t.item}
    ELSE {t.item}

\* A transaction is about rows that it has locked, and they are what it found.
Standing(t) ==
    /\ t.item \in t.locked /\ t.statements <= Statements(t)
    /\ t.kind = "create" => /\ row[t.item].state = "none"
                            /\ \A s \in {SourceOf[t.item]} \ {t.item, NoSource} :
                                  s \in t.locked /\ Shown(s, t.to)
    /\ t.kind # "create" => row[t.item].state = "live"
    /\ t.kind \in {"erase", "move"} => IsSource(t.item)
    /\ t.kind = "delete" => ~IsSource(t.item)
    /\ t.kind = "move" => row[t.item].partition # t.to

\* What it has changed is what its statements say, and nobody else's.
Changing(t) ==
    /\ Finished(t) \subseteq t.locked
    /\ \A i \in Items : t.rows[i] = IF i \in Finished(t) THEN Changed(t, i) ELSE Untouched

\* The events of t in a partition are those of the rows it has changed, one for
\* each, numbered from the next number of the head, which it holds.
Says(e, n) == e.item = n.item /\ e.gone = n.gone /\ e.body = n.body

Telling(t, p) ==
    /\ t.out[p] # {} => p \in t.heads
    /\ IsFiniteSet(t.out[p])
    /\ \A e \in t.out[p] : e.item \in Finished(t) /\ e.epoch = head[p].epoch
    /\ \A e \in t.out[p] : \E n \in Emit(t, e.item) : n[1] = p /\ Says(e, n[2])
    /\ \A i \in Finished(t) : \A n \in Emit(t, i) : n[1] = p => \E e \in t.out[p] : Says(e, n[2])
    /\ \A e, f \in t.out[p] : e.item = f.item \/ e.seq = f.seq => e = f
    /\ {e.seq : e \in t.out[p]} = head[p].next .. head[p].next + Cardinality(t.out[p]) - 1

\* The committed events of a partition.
Numbered(p) ==
    /\ IsFiniteSet(log[p]) /\ Cardinality(log[p]) = LastNumber(p)
    /\ {e.seq : e \in log[p]} = 1 .. LastNumber(p)
    /\ \A e, f \in log[p] : e.seq = f.seq => e = f
    /\ \A e \in log[p] : e.epoch = head[p].epoch

\* An event and no later one of its row.
IsLast(e, es) == e \in es /\ \A f \in es : f.item = e.item => f.seq <= e.seq

\* The last event of a row that is to be seen says what it is, that of another
\* row that it is not.
Mirrored(p) ==
    /\ \A i \in Items : Shown(i, p) =>
          \E e \in log[p] : e.item = i /\ IsLast(e, log[p]) /\ ~e.gone /\ e.body = row[i].version
    /\ \A e \in log[p] : IsLast(e, log[p]) /\ ~e.gone => Shown(e.item, p)

\* Since 0036 there are no bodies of what is gone.
Blanked ==
    /\ \A p \in Partitions : ~redacted => head[p].epoch = 1
    /\ \A p \in Partitions : redacted => \A e \in log[p] : e.gone => e.body = 0

\* Where the consumer is.
Placed ==
    /\ cursor # NoCursor => /\ cursor.seq <= cursor.through /\ cursor.through <= LastNumber(Mine)
                            /\ from <= cursor.seq /\ cursor.epoch <= head[Mine].epoch
    /\ cursor = NoCursor => ~kept /\ \A i \in Items : held[i] = 0

\* The events a request is about.
Requested == {e \in log[Mine] : ask.after < e.seq /\ e.seq <= ask.through}

Asking ==
    ask # NoRequest =>
        /\ ask.after = IF cursor = NoCursor THEN from ELSE cursor.seq
        /\ cursor # NoCursor => ask.epoch = cursor.epoch
        /\ ask.epoch <= head[Mine].epoch
        /\ ask.after <= ask.through /\ ask.through <= LastNumber(Mine)
        /\ IsFiniteSet(ask.rows)
        /\ \A e \in ask.rows : ask.after < e.seq /\ e.seq <= ask.through
        /\ \A e, f \in ask.rows : e.seq = f.seq => e = f
        /\ ask.at = "rows" /\ ask.epoch = head[Mine].epoch =>
              /\ ask.rows \subseteq Requested
              /\ \A e \in ask.rows, f \in Requested : f.seq < e.seq => f \in ask.rows
              /\ Cardinality(ask.rows) < Limit => ask.rows = Requested

\* What the consumer has of a row is what it has read last; it has nothing
\* instead only if there is more to read about it.
Replayed == {e \in log[Mine] : from < e.seq /\ e.seq <= cursor.seq}

Told(i) ==
    \/ held[i] = 0 /\ \A e \in Replayed : e.item # i
    \/ held[i] = 0 /\ \E e \in log[Mine] : e.item = i /\ cursor.seq < e.seq
    \/ \E e \in Replayed : /\ e.item = i /\ IsLast(e, Replayed)
                           /\ held[i] = IF e.gone THEN 0 ELSE e.body

Abreast == cursor # NoCursor /\ cursor.epoch = head[Mine].epoch

Working(t) == Standing(t) /\ Changing(t) /\ \A p \in Partitions : Telling(t, p)

Database == Beside /\ Blanked /\ \A p \in Partitions : Numbered(p) /\ Mirrored(p)

Consumer ==
    /\ Placed /\ Asking
    /\ Abreast => \A i \in Items : Told(i)
    /\ Abreast /\ kept => ~redacted /\ Retracts(Mine)

FeedInv == /\ TypeInv /\ Disjoint /\ Database /\ Consumer
           /\ \A t \in tx : Working(t)

-----------------------------------------------------------------------------
(* Numbers.                                                                *)

\* Events that are numbered without gap or duplicate are as many as their numbers.
LEMMA CountOf ==
    ASSUME NEW S, NEW a \in Nat, NEW m \in Nat, {e.seq : e \in S} = a .. (a + m - 1),
           \A e, f \in S : e.seq = f.seq => e = f
    PROVE  IsFiniteSet(S) /\ Cardinality(S) = m
<1> DEFINE ks == a .. (a + m - 1)
           f == [e \in S |-> e.seq]
<1>1. f \in Bijection(S, ks)
  <2>1. f \in [S -> ks] /\ \A e \in S : f[e] = e.seq
    OBVIOUS
  <2>2. \A k \in ks : \E e \in S : f[e] = k
    BY <2>1
  <2>3. \A d, e \in S : f[d] = f[e] => d = e
    BY <2>1
  <2> HIDE DEF f, ks
  <2>4. f \in Injection(S, ks)
    BY <2>1, <2>3 DEF Injection, IsInjective
  <2>5. f \in Surjection(S, ks)
    BY <2>1, <2>2 DEF Surjection
  <2> QED
    BY <2>4, <2>5 DEF Bijection
<1>2. IsFiniteSet(ks) /\ Cardinality(ks) = m
  BY FS_Interval
<1> HIDE DEF f, ks
<1>3. ExistsBijection(ks, S)
  BY <1>1, Fun_ExistsBijSymmetric DEF ExistsBijection
<1> QED
  BY <1>2, <1>3, FS_Bijection

\* A set of events has a first one and, if their numbers end, a last one.
LEMMA FirstOf ==
    ASSUME NEW S, S # {}, \A e \in S : e.seq \in Nat
    PROVE  \E e \in S : \A f \in S : e.seq <= f.seq
<1> DEFINE T == {1 .. e.seq : e \in S}
<1>1. T \subseteq FiniteSubsetsOf(Nat) /\ T # {}
  <2>1. \A e \in S : 1 .. e.seq \subseteq Nat /\ IsFiniteSet(1 .. e.seq)
    BY FS_Interval
  <2> QED
    BY <2>1 DEF FiniteSubsetsOf
<1>2. PICK least \in T : \A other \in T : <<other, least>> \notin StrictSubsetOrdering(Nat)
  BY <1>1, FS_StrictSubsetOrderingWellFounded, WFMin
<1>3. PICK e \in S : least = 1 .. e.seq
  BY <1>2
<1>4. ASSUME NEW f \in S, ~(e.seq <= f.seq) PROVE FALSE
  <2>1. /\ 1 .. f.seq \subseteq 1 .. e.seq /\ e.seq \in 1 .. e.seq /\ e.seq \notin 1 .. f.seq
        /\ 1 .. f.seq \subseteq Nat /\ 1 .. e.seq \subseteq Nat
    BY <1>4
  <2>2. <<1 .. f.seq, 1 .. e.seq>> \in StrictSubsetOrdering(Nat)
    BY <2>1 DEF StrictSubsetOrdering
  <2> QED
    BY <1>2, <1>3, <2>2
<1> QED
  BY <1>4

\* The last of a set of events whose numbers end.
LEMMA LastOf ==
    ASSUME NEW S, S # {}, NEW n \in Nat, \A e \in S : e.seq \in Nat /\ e.seq <= n
    PROVE  \E e \in S : \A f \in S : f.seq <= e.seq
<1> DEFINE T == {e.seq .. n : e \in S}
<1>1. T \subseteq FiniteSubsetsOf(Nat) /\ T # {}
  <2>1. ASSUME NEW e \in S PROVE e.seq .. n \subseteq Nat /\ IsFiniteSet(e.seq .. n)
    <3>1. e.seq \in Int /\ n \in Int /\ e.seq \in Nat
      OBVIOUS
    <3>2. IsFiniteSet(e.seq .. n)
      BY <3>1, FS_Interval
    <3> QED
      BY <3>1, <3>2
  <2> QED
    BY <2>1 DEF FiniteSubsetsOf
<1>2. PICK least \in T : \A other \in T : <<other, least>> \notin StrictSubsetOrdering(Nat)
  BY <1>1, FS_StrictSubsetOrderingWellFounded, WFMin
<1>3. PICK e \in S : least = e.seq .. n
  BY <1>2
<1>4. ASSUME NEW f \in S, ~(f.seq <= e.seq) PROVE FALSE
  <2>1. /\ f.seq .. n \subseteq e.seq .. n /\ e.seq \in e.seq .. n /\ e.seq \notin f.seq .. n
        /\ f.seq .. n \subseteq Nat /\ e.seq .. n \subseteq Nat
    BY <1>4
  <2>2. <<f.seq .. n, e.seq .. n>> \in StrictSubsetOrdering(Nat)
    BY <2>1 DEF StrictSubsetOrdering
  <2> QED
    BY <1>2, <1>3, <2>2
<1> QED
  BY <1>4

\* The last of a set of events that is told by its number.
LEMMA LatestIs ==
    ASSUME NEW S, NEW e \in S, \A f \in S : f.seq \in Nat, \A f \in S : f.seq <= e.seq,
           \A d, f \in S : d.seq = f.seq => d = f
    PROVE  Latest(S) = e
<1>1. \A d \in S : (\A f \in S : f.seq <= d.seq) => d = e
  OBVIOUS
<1> QED
  BY <1>1 DEF Latest

-----------------------------------------------------------------------------
(* Rows and events.                                                        *)

\* What a head, a row of the log and a row of the tables consist of.
LEMMA Shapes ==
    ASSUME TypeInv
    PROVE  /\ \A p \in Partitions : /\ head[p].next \in Nat \ {0} /\ head[p].epoch \in {1, 2}
                                    /\ head[p] \in [epoch : {1, 2}, next : Nat \ {0}]
                                    /\ LastNumber(p) \in Nat /\ head[p].next = LastNumber(p) + 1
                                    /\ \A e \in log[p] : e \in Events
           /\ \A i \in Items : /\ row[i] \in Rows /\ row[i].version \in Nat
                               /\ row[i].partition \in Partitions
                               /\ row[i].state \in {"none", "live", "gone"}
<1>1. ASSUME NEW p \in Partitions
      PROVE  /\ head[p].next \in Nat \ {0} /\ head[p].epoch \in {1, 2}
             /\ head[p] \in [epoch : {1, 2}, next : Nat \ {0}]
             /\ LastNumber(p) \in Nat /\ head[p].next = LastNumber(p) + 1
             /\ \A e \in log[p] : e \in Events
  <2>1. /\ head[p] \in [epoch : {1, 2}, next : Nat \ {0}] /\ log[p] \subseteq Events
    BY DEF TypeInv
  <2>2. head[p].next \in Nat \ {0} /\ head[p].epoch \in {1, 2}
    BY <2>1
  <2>3. LastNumber(p) \in Nat /\ head[p].next = LastNumber(p) + 1
    BY <2>2 DEF LastNumber
  <2> QED
    BY <2>1, <2>2, <2>3
<1>2. \A i \in Items : row[i] \in Rows
  BY DEF TypeInv
<1> QED
  BY <1>1, <1>2 DEF Rows

\* What an event consists of.
LEMMA EventIs ==
    ASSUME NEW e \in Events
    PROVE  /\ e.seq \in Nat /\ e.epoch \in {1, 2} /\ e.item \in Items
           /\ e.gone \in BOOLEAN /\ e.body \in Nat
BY DEF Events

\* What a transaction consists of.
LEMMA TransactionIs ==
    ASSUME NEW t \in Transactions
    PROVE  /\ t.kind \in {"create", "update", "delete", "erase", "move"} /\ t.item \in Items
           /\ t.to \in Partitions /\ t.statements \in 0 .. 2 /\ t.locked \subseteq Items
           /\ t.heads \subseteq Partitions /\ t.rows \in [Items -> Rows \union {Untouched}]
           /\ t.out \in [Partitions -> SUBSET Events]
BY DEF Transactions

\* The rows a transaction may change.
Concerned(t) == {t.item} \union IF t.kind \in {"erase", "move"} THEN LiveClaims(t) ELSE {}

\* A transaction changes its row and, if that is a source, its claims.
LEMMA ConcernedAre ==
    ASSUME FeedAssumption, NEW t \in Transactions, Standing(t)
    PROVE  /\ Concerned(t) \subseteq Items /\ Finished(t) \subseteq Concerned(t)
           /\ Target(t) \subseteq Concerned(t)
           /\ t.item \notin LiveClaims(t)
           /\ \A i \in LiveClaims(t) : i \in Items /\ SourceOf[i] = t.item /\ row[i].state = "live"
BY TransactionIs DEF Concerned, Finished, Target, LiveClaims, ClaimsOf

\* What becomes of a row.
LEMMA ChangedIs ==
    ASSUME TypeInv, NEW t \in Transactions, NEW i \in Items
    PROVE  /\ Changed(t, i) \in Rows /\ Changed(t, i) # Untouched
           /\ t.kind = "create" => /\ Changed(t, i).state = "live" /\ Changed(t, i).partition = t.to
                                   /\ Changed(t, i).version = 1
           /\ t.kind = "update" => /\ Changed(t, i).state = row[i].state
                                   /\ Changed(t, i).partition = row[i].partition
                                   /\ Changed(t, i).version = row[i].version + 1
           /\ t.kind = "move" => /\ Changed(t, i).state = row[i].state
                                 /\ Changed(t, i).partition = t.to
                                 /\ Changed(t, i).version = row[i].version
           /\ t.kind \in {"delete", "erase"} => /\ Changed(t, i).state = "gone"
                                                /\ Changed(t, i).partition = row[i].partition
<1>1. /\ row[i] \in Rows /\ row[i].version \in Nat /\ row[i].partition \in Partitions
      /\ row[i].state \in {"none", "live", "gone"} /\ t.to \in Partitions
      /\ t.kind \in {"create", "update", "delete", "erase", "move"}
  BY Shapes, TransactionIs
<1>2. \A r \in Rows : r # Untouched
  BY DEF Rows, Untouched
<1>3. CASE t.kind = "create"
  BY <1>1, <1>2, <1>3 DEF Changed, Rows
<1>4. CASE t.kind = "update"
  BY <1>1, <1>2, <1>4 DEF Changed, Rows
<1>5. CASE t.kind = "move"
  BY <1>1, <1>2, <1>5 DEF Changed, Rows
<1>6. CASE t.kind \in {"delete", "erase"}
  BY <1>1, <1>2, <1>6 DEF Changed, Rows
<1> QED
  BY <1>1, <1>3, <1>4, <1>5, <1>6

\* A row that moves leaves the partition in which its source was.
LEMMA MovesAway ==
    ASSUME FeedAssumption, Beside, NEW t \in Transactions, Standing(t), t.kind = "move",
           NEW i \in Concerned(t)
    PROVE  row[i].partition = row[t.item].partition /\ row[i].partition # t.to /\ row[i].state = "live"
<1>1. t.item \in Items /\ row[t.item].state = "live" /\ row[t.item].partition # t.to
  BY TransactionIs DEF Standing
<1>2. CASE i = t.item
  BY <1>1, <1>2
<1>3. CASE i \in LiveClaims(t)
  <2>1. i \in Items /\ SourceOf[i] = t.item /\ row[i].state = "live"
    BY <1>3, ConcernedAre
  <2>2. row[t.item].partition = row[i].partition
    BY <1>1, <2>1 DEF Beside, FeedAssumption
  <2> QED
    BY <1>1, <2>1, <2>2
<1> QED
  BY <1>2, <1>3 DEF Concerned

\* The events of a row: each says to a partition what the row will be there.
Announces(t, i, p, e) ==
    /\ p \in Partitions /\ e.item = i /\ e.gone \in BOOLEAN /\ e.body \in Nat
    /\ e.gone /\ redacted => e.body = 0
    /\ e.gone <=> ~(Changed(t, i).state = "live" /\ Changed(t, i).partition = p)
    /\ ~e.gone => e.body = Changed(t, i).version

\* A changed row is fed to every partition in which it was or will be seen, once.
LEMMA EmitIs ==
    ASSUME FeedAssumption, TypeInv, Beside, NEW t \in Transactions, Standing(t),
           NEW i \in Concerned(t)
    PROVE  /\ \A n \in Emit(t, i) : Announces(t, i, n[1], n[2])
           /\ \A m, n \in Emit(t, i) : m[1] = n[1] => m[2] = n[2]
           /\ \A p \in Partitions : Shown(i, p) => \E n \in Emit(t, i) : n[1] = p
           /\ Changed(t, i).state = "live" => \E n \in Emit(t, i) : n[1] = Changed(t, i).partition
           /\ Emit(t, i) # {}
<1> DEFINE new == Changed(t, i)
<1>1. /\ i \in Items /\ row[i] \in Rows /\ row[i].version \in Nat /\ row[i].partition \in Partitions
      /\ new \in Rows /\ new.version \in Nat /\ new.partition \in Partitions
      /\ new.state \in {"none", "live", "gone"}
  BY ConcernedAre, ChangedIs, Shapes DEF Rows
<1>2. redacted \in BOOLEAN
  BY DEF TypeInv
<1>3. /\ Tombstone(i).item = i /\ Tombstone(i).gone = TRUE /\ Tombstone(i).body \in Nat
      /\ redacted => Tombstone(i).body = 0
  BY <1>1, <1>2 DEF Tombstone
<1>4. /\ Snapshot(i, new).item = i /\ Snapshot(i, new).gone = FALSE
      /\ Snapshot(i, new).body = new.version
  BY DEF Snapshot
<1>5. CASE t.kind \in {"delete", "erase"}
  <2>1. new.state = "gone" /\ new.partition = row[i].partition
    BY <1>1, <1>5, ChangedIs
  <2>2. Emit(t, i) = {<<new.partition, Tombstone(i)>>}
    BY <1>5, <2>1 DEF Emit
  <2>3. \A n \in Emit(t, i) : n[1] = new.partition /\ n[2] = Tombstone(i)
    BY <2>2
  <2>4. \A n \in Emit(t, i) : Announces(t, i, n[1], n[2])
    BY <1>1, <1>3, <2>1, <2>3 DEF Announces
  <2>5. <<new.partition, Tombstone(i)>> \in Emit(t, i)
    BY <2>2
  <2> QED
    BY <1>1, <2>1, <2>3, <2>4, <2>5 DEF Shown
<1>6. CASE t.kind = "move"
  <2>1. /\ new.state = "live" /\ new.partition = t.to /\ row[i].state = "live"
        /\ row[i].partition # t.to
    BY <1>1, <1>6, ChangedIs, MovesAway
  <2>2. Emit(t, i) = {<<row[i].partition, Tombstone(i)>>, <<new.partition, Snapshot(i, new)>>}
    BY <1>6, <2>1 DEF Emit
  <2>3. ASSUME NEW n \in Emit(t, i)
        PROVE  \/ n[1] = row[i].partition /\ n[2] = Tombstone(i)
               \/ n[1] = new.partition /\ n[2] = Snapshot(i, new)
    <3>1. CASE n = <<row[i].partition, Tombstone(i)>>
      BY <3>1
    <3>2. CASE n = <<new.partition, Snapshot(i, new)>>
      BY <3>2
    <3> QED
      BY <2>2, <3>1, <3>2
  <2>4. \A n \in Emit(t, i) : Announces(t, i, n[1], n[2])
    BY <1>1, <1>3, <1>4, <2>1, <2>3 DEF Announces
  <2>5. /\ <<row[i].partition, Tombstone(i)>> \in Emit(t, i)
        /\ <<new.partition, Snapshot(i, new)>> \in Emit(t, i)
    BY <2>2
  <2> QED
    BY <1>1, <2>1, <2>3, <2>4, <2>5 DEF Shown
<1>7. CASE t.kind \in {"create", "update"}
  <2>1. /\ i = t.item /\ new.state = "live"
        /\ row[i].state = "live" => new.partition = row[i].partition
    BY <1>1, <1>7, ChangedIs DEF Concerned, Standing
  <2>2. Emit(t, i) = {<<new.partition, Snapshot(i, new)>>}
    BY <1>7, <2>1 DEF Emit
  <2>3. \A n \in Emit(t, i) : n[1] = new.partition /\ n[2] = Snapshot(i, new)
    BY <2>2
  <2>4. \A n \in Emit(t, i) : Announces(t, i, n[1], n[2])
    BY <1>1, <1>4, <2>1, <2>3 DEF Announces
  <2>5. <<new.partition, Snapshot(i, new)>> \in Emit(t, i)
    BY <2>2
  <2> QED
    BY <1>1, <2>1, <2>3, <2>4, <2>5 DEF Shown
<1> QED
  BY <1>5, <1>6, <1>7, TransactionIs

-----------------------------------------------------------------------------
(* Steps that leave much alone.                                            *)

\* An empty database and a consumer that has not asked yet.
LEMMA InitInv == ASSUME FeedAssumption, FeedInit PROVE FeedInv
<1> USE DEF FeedInit
<1>1. TypeInv
  <2>1. IsFiniteSet(tx) /\ Cardinality(tx) = 0
    BY FS_EmptySet
  <2>2. row \in [Items -> Rows]
    BY DEF FeedAssumption, Blank, Rows
  <2>3. log \in [Partitions -> SUBSET Events]
    OBVIOUS
  <2>4. head \in [Partitions -> [epoch : {1, 2}, next : Nat \ {0}]]
    OBVIOUS
  <2>5. held \in [Items -> Nat]
    OBVIOUS
  <2>6. begun \in 0 .. MaxBegun /\ lost \in 0 .. MaxLost /\ Cardinality(tx) <= MaxOpen
    BY <2>1 DEF FeedAssumption
  <2> QED
    BY <2>1, <2>2, <2>3, <2>4, <2>5, <2>6 DEF TypeInv
<1>2. Database
  <2>1. \A p \in Partitions : log[p] = {} /\ head[p].next = 1 /\ LastNumber(p) = 0
    BY DEF LastNumber
  <2>2. \A p \in Partitions : Numbered(p)
    <3>1. 1 .. 0 = {}
      OBVIOUS
    <3> QED
      BY <2>1, <3>1, FS_EmptySet DEF Numbered
  <2>3. \A p \in Partitions : Mirrored(p)
    BY <2>1 DEF Mirrored, Shown, Blank
  <2> QED
    BY <2>2, <2>3 DEF Database, Beside, Blank, Blanked
<1>3. Consumer
  BY DEF Consumer, Placed, Asking, Abreast
<1> QED
  BY <1>1, <1>2, <1>3 DEF FeedInv, Disjoint

\* What a transaction writes is its own until it commits.
LEMMA UncommittedStands ==
    ASSUME FeedInv, UNCHANGED <<row, log, head, redacted, readVars>>
    PROVE  Database' /\ Consumer' /\ \A t \in tx : Working(t)'
<1> USE DEF readVars
<1>1. Database'
  BY DEF FeedInv, Database, Beside, Blanked, Numbered, Mirrored, Shown, LastNumber
<1>2. Consumer'
  BY DEF FeedInv, Consumer, Placed, Asking, Requested, Abreast, Told, Replayed, Retracts, LastNumber
<1>3. ASSUME NEW t \in tx PROVE Working(t)'
  <2>1. Standing(t)'
    BY DEF FeedInv, Working, Standing, Shown, Statements
  <2>2. Finished(t)' = Finished(t) /\ \A i : Changed(t, i)' = Changed(t, i) /\ Emit(t, i)' = Emit(t, i)
    BY DEF Finished, LiveClaims, Changed, Emit, Tombstone
  <2>3. Changing(t)'
    BY <2>2 DEF FeedInv, Working, Changing
  <2>4. \A p \in Partitions : Telling(t, p)'
    BY <2>2 DEF FeedInv, Working, Telling
  <2> QED
    BY <2>1, <2>3, <2>4 DEF Working
<1> QED
  BY <1>1, <1>2, <1>3

\* The consumer leaves what is written alone.
LEMMA ReadingStands ==
    ASSUME FeedInv, UNCHANGED writeVars
    PROVE  Database' /\ Disjoint' /\ \A t \in tx' : Working(t)'
<1> USE DEF writeVars
<1>1. Database' /\ Disjoint'
  BY DEF FeedInv, Database, Beside, Blanked, Numbered, Mirrored, Shown, LastNumber, Disjoint
<1>2. ASSUME NEW t \in tx PROVE Working(t)'
  <2>1. Standing(t)'
    BY DEF FeedInv, Working, Standing, Shown, Statements
  <2>2. Finished(t)' = Finished(t) /\ \A i : Changed(t, i)' = Changed(t, i) /\ Emit(t, i)' = Emit(t, i)
    BY DEF Finished, LiveClaims, Changed, Emit, Tombstone
  <2>3. Changing(t)'
    BY <2>2 DEF FeedInv, Working, Changing
  <2>4. \A p \in Partitions : Telling(t, p)'
    BY <2>2 DEF FeedInv, Working, Telling
  <2> QED
    BY <2>1, <2>3, <2>4 DEF Working
<1> QED
  BY <1>1, <1>2

-----------------------------------------------------------------------------
(* A transaction begins.                                                   *)

\* Whoever finds the row it needs unlocked may begin; it has written nothing yet.
LEMMA BeginInv ==
    ASSUME FeedAssumption, FeedInv, MayBegin,
           NEW kind \in {"create", "update", "delete", "erase", "move"},
           NEW i \in Items, NEW to \in Partitions, Begin(kind, i, to),
           kind = "create" => /\ row[i].state = "none"
                              /\ \A s \in {SourceOf[i]} \ {i, NoSource} : Shown(s, to),
           kind # "create" => row[i].state = "live",
           kind \in {"erase", "move"} => IsSource(i),
           kind = "delete" => ~IsSource(i),
           kind = "move" => row[i].partition # to
    PROVE  FeedInv'
<1> DEFINE is == IF kind = "create" THEN {i, SourceOf[i]} \ {NoSource} ELSE {i}
           t == [kind |-> kind, item |-> i, to |-> to, statements |-> 0,
                 locked |-> is, heads |-> {}, rows |-> [j \in Items |-> Untouched],
                 out |-> [p \in Partitions |-> {}]]
<1>1. /\ \A u \in tx : u.locked \cap is = {} /\ u \in Transactions
      /\ tx' = tx \union {t} /\ begun' = begun + 1
      /\ UNCHANGED <<row, log, head, redacted>> /\ UNCHANGED readVars
  BY DEF Begin, Free, FeedInv, TypeInv
<1>2. is \subseteq Items /\ i \in is
  BY DEF FeedAssumption
<1>3. t \in Transactions
  BY <1>2 DEF Transactions
<1>4. /\ t.kind = kind /\ t.item = i /\ t.to = to /\ t.statements = 0 /\ t.locked = is
      /\ t.heads = {} /\ \A j \in Items : t.rows[j] = Untouched
      /\ \A p \in Partitions : t.out[p] = {}
  OBVIOUS
<1>5. kind = "create" => \A s \in {SourceOf[i]} \ {i, NoSource} : s \in is
  OBVIOUS
<1> HIDE DEF is, t
<1>6. TypeInv'
  <2>1. IsFiniteSet(tx') /\ Cardinality(tx') <= MaxOpen
    <3>1. /\ IsFiniteSet(tx) /\ Cardinality(tx) \in Nat /\ Cardinality(tx) < MaxOpen
          /\ MaxOpen \in Nat
      BY FS_CardinalityType DEF FeedInv, TypeInv, MayBegin, FeedAssumption
    <3>2. /\ IsFiniteSet(tx')
          /\ Cardinality(tx') = Cardinality(tx) \/ Cardinality(tx') = Cardinality(tx) + 1
      BY <1>1, <3>1, FS_AddElement
    <3> QED
      BY <3>1, <3>2
  <2>2. begun' \in 0 .. MaxBegun
    BY <1>1 DEF FeedInv, TypeInv, MayBegin, FeedAssumption
  <2> QED
    BY <1>1, <1>3, <2>1, <2>2 DEF FeedInv, TypeInv, readVars
<1>7. Disjoint'
  BY <1>1, <1>4 DEF FeedInv, Disjoint
<1>8. Working(t)
  <2>1. Standing(t)
    BY <1>2, <1>4, <1>5 DEF Standing, Statements
  <2>2. Changing(t) /\ Finished(t) = {}
    BY <1>4 DEF Changing, Finished
  <2>3. ASSUME NEW p \in Partitions PROVE Telling(t, p)
    <3>1. IsFiniteSet({}) /\ Cardinality({}) = 0
      BY FS_EmptySet
    <3>2. head[p].next .. head[p].next + 0 - 1 = {} /\ {e.seq : e \in {}} = {}
      BY Shapes DEF FeedInv
    <3> QED
      BY <1>4, <2>2, <3>1, <3>2 DEF Telling
  <2> QED
    BY <2>1, <2>2, <2>3 DEF Working
<1>9. Database' /\ Consumer' /\ \A u \in tx : Working(u)'
  BY <1>1, UncommittedStands
<1>10. Working(t)'
  <2>1. UNCHANGED <<row, head, redacted>>
    BY <1>1
  <2>2. Standing(t)'
    BY <1>8, <2>1 DEF Working, Standing, Shown, Statements
  <2>3. Finished(t)' = Finished(t) /\ \A j : Changed(t, j)' = Changed(t, j) /\ Emit(t, j)' = Emit(t, j)
    BY <2>1 DEF Finished, LiveClaims, Changed, Emit, Tombstone
  <2>4. Changing(t)'
    BY <1>8, <2>3 DEF Working, Changing
  <2>5. \A p \in Partitions : Telling(t, p)'
    BY <1>8, <2>1, <2>3 DEF Working, Telling
  <2> QED
    BY <2>2, <2>4, <2>5 DEF Working
<1> QED
  BY <1>1, <1>6, <1>7, <1>9, <1>10 DEF FeedInv

\* A transaction that is not committed leaves nothing.
LEMMA RollbackInv == ASSUME FeedAssumption, FeedInv, NEW t \in tx, Rollback(t) PROVE FeedInv'
<1>1. tx' = tx \ {t} /\ begun' = begun /\ UNCHANGED <<row, log, head, redacted, readVars>>
  BY DEF Rollback
<1>2. IsFiniteSet(tx') /\ Cardinality(tx') <= Cardinality(tx) /\ Cardinality(tx') \in Nat
      /\ Cardinality(tx) \in Nat
  BY <1>1, FS_Subset, FS_CardinalityType DEF FeedInv, TypeInv
<1>3. TypeInv'
  BY <1>1, <1>2 DEF FeedInv, TypeInv, readVars, FeedAssumption
<1>4. Disjoint'
  BY <1>1 DEF FeedInv, Disjoint
<1> QED
  BY <1>1, <1>3, <1>4, UncommittedStands DEF FeedInv

-----------------------------------------------------------------------------
(* A transaction commits.                                                  *)

\* What a commit makes of the rows, the log and the heads.
LEMMA CommittedIs ==
    ASSUME FeedAssumption, FeedInv, NEW t \in tx, Commit(t)
    PROVE  /\ t \in Transactions /\ Working(t) /\ Finished(t) = Concerned(t) /\ Finished(t) \subseteq Items
           /\ row' \in [Items -> Rows]
           /\ \A i \in Items : row'[i] = IF i \in Finished(t) THEN Changed(t, i) ELSE row[i]
           /\ \A p \in Partitions : /\ log'[p] = log[p] \union t.out[p]
                                    /\ head'[p].epoch = head[p].epoch
                                    /\ Cardinality(t.out[p]) \in Nat
                                    /\ head'[p].next = head[p].next + Cardinality(t.out[p])
           /\ log' \in [Partitions -> SUBSET Events]
           /\ head' \in [Partitions -> [epoch : {1, 2}, next : Nat \ {0}]]
           /\ tx' = tx \ {t} /\ UNCHANGED <<begun, redacted>> /\ UNCHANGED readVars
<1>1. t \in Transactions /\ Working(t) /\ TypeInv
  BY DEF FeedInv, TypeInv
<1>2. /\ row' = [i \in Items |-> Mid(t, i)] /\ head' = Advanced(t)
      /\ log' = [p \in Partitions |-> log[p] \union t.out[p]]
      /\ tx' = tx \ {t} /\ UNCHANGED <<begun, redacted>> /\ UNCHANGED readVars
      /\ t.statements = Statements(t)
  BY DEF Commit
<1>3. Finished(t) = Concerned(t) /\ Finished(t) \subseteq Items
  <2>1. Standing(t)
    BY <1>1 DEF Working
  <2>2. Finished(t) = Concerned(t)
    BY <1>1, <1>2, TransactionIs DEF Finished, Concerned, Statements
  <2> QED
    BY <1>1, <2>1, <2>2, ConcernedAre
<1>4. \A i \in Items : row'[i] = IF i \in Finished(t) THEN Changed(t, i) ELSE row[i]
  <2> SUFFICES ASSUME NEW i \in Items
               PROVE  Mid(t, i) = IF i \in Finished(t) THEN Changed(t, i) ELSE row[i]
    BY <1>2
  <2>1. t.rows[i] = IF i \in Finished(t) THEN Changed(t, i) ELSE Untouched
    BY <1>1 DEF Working, Changing
  <2>2. Changed(t, i) # Untouched
    BY <1>1, ChangedIs
  <2> QED
    BY <2>1, <2>2 DEF Mid
<1>5. row' \in [Items -> Rows]
  <2>1. \A i \in Items : row'[i] \in Rows
    BY <1>1, <1>4, ChangedIs, Shapes
  <2> QED
    BY <1>2, <2>1
<1>6. ASSUME NEW p \in Partitions
      PROVE  /\ head'[p].epoch = head[p].epoch /\ Cardinality(t.out[p]) \in Nat
             /\ head'[p].next = head[p].next + Cardinality(t.out[p])
             /\ head'[p] \in [epoch : {1, 2}, next : Nat \ {0}]
  <2>1. Cardinality(t.out[p]) \in Nat
    BY <1>1, FS_CardinalityType DEF Working, Telling
  <2>2. head[p] \in [epoch : {1, 2}, next : Nat \ {0}] /\ head[p].next \in Nat \ {0}
    BY <1>1, Shapes
  <2>3. head'[p] = [head[p] EXCEPT !.next = @ + Cardinality(t.out[p])]
    BY <1>2 DEF Advanced
  <2> QED
    BY <2>1, <2>2, <2>3
<1>7. head' \in [Partitions -> [epoch : {1, 2}, next : Nat \ {0}]]
  BY <1>2, <1>6 DEF Advanced
<1>8. log' \in [Partitions -> SUBSET Events]
  BY <1>1, <1>2, TransactionIs DEF TypeInv
<1> QED
  BY <1>1, <1>2, <1>3, <1>4, <1>5, <1>6, <1>7, <1>8

\* What is seen of a row by the transaction that writes it.
LEMMA CommitBeside ==
    ASSUME FeedAssumption, FeedInv, NEW t \in tx, Commit(t)
    PROVE  Beside'
<1>1. /\ t \in Transactions /\ Standing(t) /\ Finished(t) = Concerned(t) /\ Beside /\ TypeInv
      /\ \A i \in Items : row'[i] = IF i \in Finished(t) THEN Changed(t, i) ELSE row[i]
  BY CommittedIs DEF FeedInv, Working, Database
<1>2. t.item \in Items /\ t.kind \in {"create", "update", "delete", "erase", "move"}
  BY <1>1, TransactionIs
<1> SUFFICES ASSUME NEW i \in Items, SourceOf[i] # NoSource, row'[i].state = "live"
             PROVE  /\ row'[SourceOf[i]].state = "live"
                    /\ row'[SourceOf[i]].partition = row'[i].partition
  BY DEF Beside
<1> DEFINE s == SourceOf[i]
<1>3. s \in Items /\ SourceOf[s] = s
  BY DEF FeedAssumption
<1>4. CASE s = i
  BY <1>4
<1>5. CASE s # i /\ i \in Finished(t)
  <2>1. row'[i] = Changed(t, i)
    BY <1>1, <1>5
  <2>2. t.kind \notin {"delete", "erase"}
    BY <1>1, <2>1, ChangedIs
  <2>3. CASE t.kind = "create"
    <3>1. i = t.item /\ s \notin Finished(t) /\ Shown(s, t.to)
      BY <1>1, <1>2, <1>3, <1>5, <2>3 DEF Concerned, Standing
    <3>2. row'[s] = row[s]
      BY <1>1, <1>3, <3>1
    <3> QED
      BY <1>1, <2>1, <2>3, <3>1, <3>2, ChangedIs DEF Shown
  <2>4. CASE t.kind = "update"
    <3>1. i = t.item /\ s \notin Finished(t) /\ row[i].state = "live"
      BY <1>1, <1>2, <1>3, <1>5, <2>4 DEF Concerned, Standing
    <3>2. row'[s] = row[s] /\ row'[i].partition = row[i].partition
      BY <1>1, <1>3, <2>1, <2>4, <3>1, ChangedIs
    <3> QED
      BY <1>1, <3>1, <3>2 DEF Beside
  <2>5. CASE t.kind = "move"
    <3>1. s = t.item /\ row[s].state = "live" /\ s \in Finished(t)
      BY <1>1, <1>2, <1>3, <1>5, <2>5, ConcernedAre DEF Concerned, Standing, IsSource
    <3>2. row'[s] = Changed(t, s)
      BY <1>1, <1>3, <3>1
    <3> QED
      BY <1>1, <1>3, <2>1, <2>5, <3>1, <3>2, ChangedIs
  <2> QED
    BY <1>2, <2>2, <2>3, <2>4, <2>5
<1>6. CASE s # i /\ i \notin Finished(t)
  <2>1. row'[i] = row[i] /\ row[s].state = "live" /\ row[s].partition = row[i].partition
    BY <1>1, <1>6 DEF Beside
  <2>2. CASE s \notin Finished(t)
    BY <1>1, <1>3, <2>1, <2>2
  <2>3. CASE s \in Finished(t)
    <3>1. s = t.item
      BY <1>1, <1>2, <1>3, <2>3, ConcernedAre DEF Concerned
    <3>2. t.kind \notin {"create", "delete"}
      BY <1>1, <1>3, <2>1, <3>1 DEF Standing, IsSource
    <3>3. t.kind \notin {"erase", "move"}
      <4>1. i \in LiveClaims(t)
        BY <1>6, <2>1, <3>1 DEF LiveClaims, ClaimsOf
      <4> QED
        BY <1>1, <1>6, <4>1 DEF Concerned
    <3>4. t.kind = "update" /\ row'[s] = Changed(t, s)
      BY <1>1, <1>2, <1>3, <2>3, <3>2, <3>3
    <3> QED
      BY <1>1, <1>3, <2>1, <3>4, ChangedIs
  <2> QED
    BY <2>2, <2>3
<1> QED
  BY <1>4, <1>5, <1>6

\* Its events follow those that were committed before.
LEMMA CommitFollows ==
    ASSUME FeedAssumption, FeedInv, NEW t \in tx, Commit(t), NEW p \in Partitions
    PROVE  /\ Telling(t, p) /\ Numbered(p)
           /\ \A e \in log[p] : e.seq \in Nat /\ e.seq <= LastNumber(p)
           /\ \A e \in t.out[p] : e \in Events /\ e.seq \in Nat /\ LastNumber(p) < e.seq
           /\ LastNumber(p) \in Nat /\ LastNumber(p)' \in Nat
           /\ LastNumber(p)' = LastNumber(p) + Cardinality(t.out[p])
<1>1. /\ t \in Transactions /\ Working(t) /\ Numbered(p) /\ TypeInv /\ t.out[p] \subseteq Events
      /\ Cardinality(t.out[p]) \in Nat /\ head'[p].next = head[p].next + Cardinality(t.out[p])
  BY CommittedIs, TransactionIs DEF FeedInv, Database
<1>2. Telling(t, p)
  BY <1>1 DEF Working
<1>3. LastNumber(p) \in Nat /\ head[p].next = LastNumber(p) + 1 /\ \A e \in log[p] : e \in Events
  BY <1>1, Shapes
<1>4. LastNumber(p)' = LastNumber(p) + Cardinality(t.out[p])
  <2>1. LastNumber(p)' = head'[p].next - 1
    BY DEF LastNumber
  <2> QED
    BY <1>1, <1>3, <2>1
<1>5. ASSUME NEW e \in log[p] PROVE e.seq \in Nat /\ e.seq <= LastNumber(p)
  <2>1. e.seq \in 1 .. LastNumber(p)
    BY <1>1 DEF Numbered
  <2> QED
    BY <1>3, <2>1
<1>6. ASSUME NEW e \in t.out[p] PROVE e \in Events /\ e.seq \in Nat /\ LastNumber(p) < e.seq
  <2>1. e \in Events /\ e.seq \in Nat
    BY <1>1, EventIs
  <2>2. e.seq \in head[p].next .. head[p].next + Cardinality(t.out[p]) - 1
    BY <1>2 DEF Telling
  <2> QED
    BY <1>1, <1>3, <2>1, <2>2
<1> QED
  BY <1>1, <1>2, <1>3, <1>4, <1>5, <1>6

\* So the numbers of the log stay without gap or duplicate.
LEMMA CommitNumbered ==
    ASSUME FeedAssumption, FeedInv, NEW t \in tx, Commit(t), NEW p \in Partitions
    PROVE  Numbered(p)'
<1> DEFINE L == LastNumber(p)
           m == Cardinality(t.out[p])
<1>1. /\ log'[p] = log[p] \union t.out[p] /\ head'[p].epoch = head[p].epoch /\ m \in Nat
      /\ head[p].next = L + 1
  BY CommittedIs, Shapes DEF FeedInv
<1>2. /\ Telling(t, p) /\ Numbered(p) /\ L \in Nat /\ LastNumber(p)' = L + m
      /\ \A e \in log[p] : e.seq \in Nat /\ e.seq <= L
      /\ \A e \in t.out[p] : e.seq \in Nat /\ L < e.seq
  BY CommitFollows
<1>3. /\ {e.seq : e \in log[p]} = 1 .. L /\ {e.seq : e \in t.out[p]} = L + 1 .. L + m
  <2>1. {e.seq : e \in t.out[p]} = head[p].next .. head[p].next + m - 1
    BY <1>2 DEF Telling
  <2> QED
    BY <1>1, <1>2, <2>1 DEF Numbered
<1> HIDE DEF L, m
<1>4. {e.seq : e \in log'[p]} = 1 .. (1 + (L + m) - 1)
  <2>1. {e.seq : e \in log'[p]} = (1 .. L) \union (L + 1 .. L + m)
    BY <1>1, <1>3
  <2>2. (1 .. L) \union (L + 1 .. L + m) = 1 .. (1 + (L + m) - 1)
    BY <1>1, <1>2
  <2> QED
    BY <2>1, <2>2
<1>5. \A e, f \in log'[p] : e.seq = f.seq => e = f
  <2>1. \A e, f \in log[p] : e.seq = f.seq => e = f
    BY <1>2 DEF Numbered
  <2>2. \A e, f \in t.out[p] : e.seq = f.seq => e = f
    BY <1>2 DEF Telling
  <2>3. \A e \in log[p], f \in t.out[p] : e.seq # f.seq
    BY <1>2
  <2> QED
    BY <1>1, <2>1, <2>2, <2>3
<1>6. IsFiniteSet(log'[p]) /\ Cardinality(log'[p]) = L + m
  <2> DEFINE S == log'[p]
             k == L + m
  <2>1. /\ 1 \in Nat /\ k \in Nat /\ {e.seq : e \in S} = 1 .. (1 + k - 1)
        /\ \A e, f \in S : e.seq = f.seq => e = f
    BY <1>1, <1>2, <1>4, <1>5
  <2> HIDE DEF S, k
  <2>2. IsFiniteSet(S) /\ Cardinality(S) = k
    BY <2>1, CountOf
  <2> QED
    BY <2>2 DEF S, k
<1>7. \A e \in log'[p] : e.epoch = head'[p].epoch
  BY <1>1, <1>2 DEF Numbered, Telling
<1>8. {e.seq : e \in log'[p]} = 1 .. LastNumber(p)'
  <2>1. 1 + (L + m) - 1 = L + m
    BY <1>1, <1>2
  <2> QED
    BY <1>2, <1>4, <2>1
<1> QED
  BY <1>2, <1>5, <1>6, <1>7, <1>8 DEF Numbered

\* The events of a transaction in a partition say what its rows will be there.
LEMMA OutIs ==
    ASSUME FeedAssumption, TypeInv, Beside, NEW t \in Transactions, Standing(t),
           NEW p \in Partitions, Telling(t, p)
    PROVE  /\ \A e \in t.out[p] : Announces(t, e.item, p, e)
           /\ \A i \in Finished(t) :
                 Shown(i, p) \/ (Changed(t, i).state = "live" /\ Changed(t, i).partition = p) =>
                    \E e \in t.out[p] : e.item = i
<1>1. Finished(t) \subseteq Concerned(t)
  BY ConcernedAre
<1>2. ASSUME NEW e \in t.out[p] PROVE Announces(t, e.item, p, e)
  <2>1. e.item \in Concerned(t) /\ e \in Events
    BY <1>1, TransactionIs DEF Telling
  <2>2. PICK n \in Emit(t, e.item) : n[1] = p /\ Says(e, n[2])
    BY DEF Telling
  <2>3. Announces(t, e.item, p, n[2])
    BY <2>1, <2>2, EmitIs
  <2> QED
    BY <2>2, <2>3 DEF Announces, Says
<1>3. ASSUME NEW i \in Finished(t),
             Shown(i, p) \/ (Changed(t, i).state = "live" /\ Changed(t, i).partition = p)
      PROVE  \E e \in t.out[p] : e.item = i
  <2>1. i \in Concerned(t)
    BY <1>1
  <2>2. PICK n \in Emit(t, i) : n[1] = p
    BY <1>3, <2>1, EmitIs
  <2>3. n[2].item = i
    BY <2>1, EmitIs DEF Announces
  <2>4. PICK e \in t.out[p] : Says(e, n[2])
    BY <2>2 DEF Telling
  <2> QED
    BY <2>3, <2>4 DEF Says
<1> QED
  BY <1>2, <1>3

\* A row that was changed is told last by its new event, another by the event
\* that told it before.
LEMMA CommitMirrored ==
    ASSUME FeedAssumption, FeedInv, NEW t \in tx, Commit(t), NEW p \in Partitions
    PROVE  Mirrored(p)'
<1>1. /\ t \in Transactions /\ Standing(t) /\ Beside /\ TypeInv /\ Mirrored(p) /\ Finished(t) \subseteq Items
      /\ log'[p] = log[p] \union t.out[p]
      /\ \A i \in Items : row'[i] = IF i \in Finished(t) THEN Changed(t, i) ELSE row[i]
  BY CommittedIs DEF FeedInv, Working, Database
<1>2. /\ Telling(t, p) /\ LastNumber(p) \in Nat
      /\ \A e \in log[p] : e.seq \in Nat /\ e.seq <= LastNumber(p)
      /\ \A e \in t.out[p] : e \in Events /\ e.seq \in Nat /\ LastNumber(p) < e.seq
  BY CommitFollows
<1>3. /\ \A e \in t.out[p] : Announces(t, e.item, p, e) /\ e.item \in Finished(t)
      /\ \A e, f \in t.out[p] : e.item = f.item => e = f
      /\ \A i \in Finished(t) :
            Shown(i, p) \/ (Changed(t, i).state = "live" /\ Changed(t, i).partition = p) =>
               \E e \in t.out[p] : e.item = i
  BY <1>1, <1>2, OutIs DEF Telling
<1>4. ASSUME NEW i \in Items, Shown(i, p)'
      PROVE  \E e \in log'[p] : e.item = i /\ IsLast(e, log'[p]) /\ ~e.gone /\ e.body = row'[i].version
  <2>1. CASE i \in Finished(t)
    <3>1. Changed(t, i).state = "live" /\ Changed(t, i).partition = p /\ row'[i] = Changed(t, i)
      BY <1>1, <1>4, <2>1 DEF Shown
    <3>2. PICK e \in t.out[p] : e.item = i
      BY <1>3, <2>1, <3>1
    <3>3. ~e.gone /\ e.body = row'[i].version
      BY <1>3, <3>1, <3>2 DEF Announces
    <3>4. IsLast(e, log'[p])
      <4>1. ASSUME NEW f \in log'[p], f.item = e.item PROVE f.seq <= e.seq
        <5>1. CASE f \in log[p]
          BY <1>2, <5>1
        <5>2. CASE f \in t.out[p]
          BY <1>2, <1>3, <4>1, <5>2
        <5> QED
          BY <1>1, <5>1, <5>2
      <4> QED
        BY <1>1, <4>1 DEF IsLast
    <3> QED
      BY <1>1, <3>2, <3>3, <3>4
  <2>2. CASE i \notin Finished(t)
    <3>1. row'[i] = row[i] /\ Shown(i, p)
      BY <1>1, <1>4, <2>2 DEF Shown
    <3>2. PICK e \in log[p] : e.item = i /\ IsLast(e, log[p]) /\ ~e.gone /\ e.body = row[i].version
      BY <1>1, <3>1 DEF Mirrored
    <3>3. IsLast(e, log'[p])
      BY <1>1, <1>3, <2>2, <3>2 DEF IsLast
    <3> QED
      BY <1>1, <3>1, <3>2, <3>3
  <2> QED
    BY <2>1, <2>2
<1>5. ASSUME NEW e \in log'[p], IsLast(e, log'[p]), ~e.gone
      PROVE  Shown(e.item, p)'
  <2>1. CASE e \in t.out[p]
    <3>1. Changed(t, e.item).state = "live" /\ Changed(t, e.item).partition = p
      BY <1>3, <1>5, <2>1 DEF Announces
    <3>2. row'[e.item] = Changed(t, e.item)
      BY <1>1, <1>3, <2>1
    <3> QED
      BY <3>1, <3>2 DEF Shown
  <2>2. CASE e \in log[p]
    <3>1. IsLast(e, log[p])
      BY <1>1, <1>5, <2>2 DEF IsLast
    <3>2. Shown(e.item, p) /\ e.item \in Items
      BY <1>1, <1>5, <2>2, <3>1, Shapes, EventIs DEF Mirrored
    <3>3. e.item \notin Finished(t)
      <4> SUFFICES ASSUME e.item \in Finished(t) PROVE FALSE
        OBVIOUS
      <4>1. PICK f \in t.out[p] : f.item = e.item
        BY <1>3, <3>2
      <4>2. f.seq <= e.seq
        BY <1>1, <1>5, <4>1 DEF IsLast
      <4> QED
        BY <1>2, <2>2, <4>1, <4>2
    <3>4. row'[e.item] = row[e.item]
      BY <1>1, <3>2, <3>3
    <3> QED
      BY <3>2, <3>4 DEF Shown
  <2> QED
    BY <1>1, <2>1, <2>2
<1> QED
  BY <1>4, <1>5 DEF Mirrored

\* What is committed after 0036 has no body of what is gone.
LEMMA CommitBlanked ==
    ASSUME FeedAssumption, FeedInv, NEW t \in tx, Commit(t)
    PROVE  Blanked'
<1>1. /\ t \in Transactions /\ Working(t) /\ Beside /\ TypeInv /\ Blanked /\ redacted' = redacted
      /\ \A p \in Partitions : /\ log'[p] = log[p] \union t.out[p]
                               /\ head'[p].epoch = head[p].epoch
  BY CommittedIs DEF FeedInv, Database
<1>2. \A p \in Partitions : ~redacted' => head'[p].epoch = 1
  BY <1>1 DEF Blanked
<1>3. ASSUME NEW p \in Partitions, redacted', NEW e \in log'[p], e.gone PROVE e.body = 0
  <2>1. CASE e \in log[p]
    BY <1>1, <1>3, <2>1 DEF Blanked
  <2>2. CASE e \in t.out[p]
    <3>1. Announces(t, e.item, p, e)
      BY <1>1, <2>2, OutIs DEF Working
    <3> QED
      BY <1>1, <1>3, <3>1 DEF Announces
  <2> QED
    BY <1>1, <1>3, <2>1, <2>2
<1> QED
  BY <1>2, <1>3 DEF Blanked

\* No other transaction had to do with the rows and heads of this one.
LEMMA CommitWorking ==
    ASSUME FeedAssumption, FeedInv, NEW t \in tx, Commit(t), NEW u \in tx \ {t}
    PROVE  Working(u)'
<1>1. /\ t \in Transactions /\ Working(t) /\ Finished(t) = Concerned(t) /\ Finished(t) \subseteq t.locked
      /\ TypeInv /\ redacted' = redacted /\ Finished(t) \subseteq Items
      /\ \A i \in Items : row'[i] = IF i \in Finished(t) THEN Changed(t, i) ELSE row[i]
      /\ \A p \in Partitions : /\ head'[p].epoch = head[p].epoch
                               /\ Cardinality(t.out[p]) \in Nat
                               /\ head'[p].next = head[p].next + Cardinality(t.out[p])
  BY CommittedIs DEF FeedInv, Working, Changing
<1>2. /\ u \in Transactions /\ Working(u) /\ u.locked \cap t.locked = {} /\ u.heads \cap t.heads = {}
  BY DEF FeedInv, TypeInv, Disjoint
<1>3. \A i \in Items : i \in u.locked => row'[i] = row[i]
  BY <1>1, <1>2
<1>4. u.item \in Items /\ u.item \in u.locked
  BY <1>2, TransactionIs DEF Working, Standing
<1>5. LiveClaims(u)' \subseteq LiveClaims(u)
  <2> SUFFICES ASSUME NEW i \in Items, SourceOf[i] = u.item, i # u.item, row'[i].state = "live"
               PROVE  row[i].state = "live"
    BY DEF LiveClaims, ClaimsOf
  <2>1. CASE i \in Finished(t) /\ t.kind = "create"
    <3>1. i = t.item
      BY <1>1, <2>1 DEF Concerned
    <3>2. u.item \in t.locked
      BY <1>1, <1>4, <2>1, <3>1 DEF Working, Standing, FeedAssumption
    <3> QED
      BY <1>2, <1>4, <3>2
  <2>2. CASE i \in Finished(t) /\ t.kind # "create"
    <3>1. t.kind \in {"update", "move", "delete", "erase"}
      BY <1>1, <2>2, TransactionIs
    <3> QED
      BY <1>1, <2>2, <3>1, ChangedIs
  <2>3. CASE i \notin Finished(t)
    BY <1>1, <2>3
  <2> QED
    BY <2>1, <2>2, <2>3
<1>6. LiveClaims(u) \subseteq u.locked => LiveClaims(u)' = LiveClaims(u)
  BY <1>3, <1>5 DEF LiveClaims, ClaimsOf
<1>7. Finished(u)' = Finished(u) /\ Finished(u) \subseteq u.locked
  <2>1. Finished(u) \subseteq u.locked
    BY <1>2 DEF Working, Changing
  <2>2. Finished(u)' = IF u.statements = 0 THEN {}
                   ELSE IF u.kind = "erase" /\ u.statements = 1 THEN LiveClaims(u)'
                   ELSE IF u.kind \in {"erase", "move"} /\ u.statements = 2
                        THEN LiveClaims(u)' \union {u.item}
                   ELSE {u.item}
    BY DEF Finished
  <2> QED
    BY <1>6, <2>1, <2>2 DEF Finished
<1>8. \A i \in Finished(u) : Changed(u, i)' = Changed(u, i) /\ Emit(u, i)' = Emit(u, i)
  <2> SUFFICES ASSUME NEW i \in Finished(u)
               PROVE  Changed(u, i)' = Changed(u, i) /\ Emit(u, i)' = Emit(u, i)
    OBVIOUS
  <2>1. row'[i] = row[i]
    BY <1>2, <1>3, <1>7, TransactionIs
  <2>2. Changed(u, i)' = Changed(u, i)
    BY <2>1 DEF Changed
  <2>3. Tombstone(i)' = Tombstone(i)
    BY <1>1, <2>1 DEF Tombstone
  <2> QED
    BY <2>1, <2>2, <2>3 DEF Emit, Snapshot
<1>9. Standing(u)'
  <2>1. row'[u.item] = row[u.item]
    BY <1>3, <1>4
  <2>2. \A s \in Items : s \in u.locked => (Shown(s, u.to) => Shown(s, u.to)')
    BY <1>3 DEF Shown
  <2>3. SourceOf[u.item] \in Items \union {NoSource}
    BY <1>4 DEF FeedAssumption
  <2>4. Standing(u)
    BY <1>2 DEF Working
  <2> QED
    BY <2>1, <2>2, <2>3, <2>4 DEF Standing, Statements
<1>10. Changing(u)'
  BY <1>2, <1>7, <1>8 DEF Working, Changing
<1>11. ASSUME NEW p \in Partitions PROVE Telling(u, p)'
  <2>1. /\ Telling(u, p) /\ Telling(t, p) /\ TypeInv /\ head[p].next \in Nat \ {0}
    BY <1>1, <1>2, Shapes DEF Working
  <2>2. CASE u.out[p] = {}
    <3>1. Cardinality({}) = 0 /\ IsFiniteSet({}) /\ head'[p].next \in Nat
      BY <1>1, <2>1, FS_EmptySet
    <3>2. head'[p].next .. head'[p].next + 0 - 1 = {} /\ {e.seq : e \in {}} = {}
      BY <3>1
    <3>3. \A i \in Finished(u) : \A n \in Emit(u, i) : n[1] # p
      BY <2>1, <2>2 DEF Telling
    <3> QED
      BY <1>7, <1>8, <2>2, <3>1, <3>2, <3>3 DEF Telling
  <2>3. CASE u.out[p] # {}
    <3>1. t.out[p] = {}
      BY <1>2, <2>1, <2>3 DEF Telling
    <3>2. head'[p].next = head[p].next /\ head'[p].epoch = head[p].epoch
      <4>1. Cardinality(t.out[p]) = 0
        BY <3>1, FS_EmptySet
      <4> QED
        BY <1>1, <2>1, <4>1
    <3> QED
      BY <1>7, <1>8, <2>1, <3>2 DEF Telling
  <2> QED
    BY <2>2, <2>3
<1> QED
  BY <1>9, <1>10, <1>11 DEF Working

\* What is committed behind the last event does not disturb the consumer.
LEMMA CommitConsumer ==
    ASSUME FeedAssumption, FeedInv, NEW t \in tx, Commit(t)
    PROVE  Consumer'
<1>1. /\ UNCHANGED <<ask, cursor, from, held, kept>> /\ redacted' = redacted
      /\ head'[Mine].epoch = head[Mine].epoch /\ log'[Mine] = log[Mine] \union t.out[Mine]
      /\ TypeInv /\ Consumer /\ Mine \in Partitions
  BY CommittedIs DEF readVars, FeedAssumption, FeedInv
<1>2. /\ LastNumber(Mine) \in Nat /\ LastNumber(Mine)' \in Nat /\ LastNumber(Mine) <= LastNumber(Mine)'
      /\ \A e \in t.out[Mine] : e.seq \in Nat /\ LastNumber(Mine) < e.seq
  <2>1. /\ LastNumber(Mine) \in Nat /\ LastNumber(Mine)' \in Nat
        /\ LastNumber(Mine)' = LastNumber(Mine) + Cardinality(t.out[Mine])
        /\ \A e \in t.out[Mine] : e.seq \in Nat /\ LastNumber(Mine) < e.seq
    BY <1>1, CommitFollows
  <2>2. Cardinality(t.out[Mine]) \in Nat
    BY <1>1, CommittedIs
  <2> QED
    BY <2>1, <2>2
<1>3. Placed'
  <2>1. cursor = NoCursor \/ (cursor.through \in Nat /\ cursor.seq \in Nat)
    BY <1>1 DEF TypeInv, Cursors
  <2> QED
    BY <1>1, <1>2, <2>1 DEF Consumer, Placed
<1>4. Asking'
  <2> SUFFICES ASSUME ask # NoRequest PROVE Asking'
    BY <1>1 DEF Asking
  <2>1. ask.through \in Nat /\ ask.after \in Nat
    BY <1>1 DEF TypeInv, Requests
  <2>2. ask.through <= LastNumber(Mine)
    BY <1>1 DEF Consumer, Asking
  <2>3. \A e \in t.out[Mine] : ~(e.seq <= ask.through)
    BY <1>2, <2>1, <2>2
  <2>4. Requested' = Requested
    BY <1>1, <2>3 DEF Requested
  <2>5. ask.through <= LastNumber(Mine)'
    BY <1>2, <2>1, <2>2
  <2> QED
    BY <1>1, <2>4, <2>5 DEF Consumer, Asking
<1>5. ASSUME Abreast', NEW i \in Items PROVE Told(i)'
  <2>1. Abreast /\ Told(i)
    BY <1>1, <1>5 DEF Abreast, Consumer
  <2>2. cursor.through \in Nat /\ cursor.seq \in Nat
    BY <1>1, <2>1 DEF TypeInv, Cursors, Abreast
  <2>3. cursor.seq <= cursor.through /\ cursor.through <= LastNumber(Mine)
    BY <1>1, <2>1 DEF Consumer, Placed, Abreast
  <2>4. \A e \in t.out[Mine] : ~(e.seq <= cursor.seq)
    BY <1>2, <2>2, <2>3
  <2>5. Replayed' = Replayed
    BY <1>1, <2>4 DEF Replayed
  <2> QED
    BY <1>1, <2>1, <2>5 DEF Told
<1>6. Abreast' /\ kept' => ~redacted' /\ Retracts(Mine)'
  BY <1>1 DEF Consumer, Abreast, Retracts
<1> QED
  BY <1>3, <1>4, <1>5, <1>6 DEF Consumer

\* A commit preserves the invariant.
LEMMA CommitInv == ASSUME FeedAssumption, FeedInv, NEW t \in tx, Commit(t) PROVE FeedInv'
<1>1. /\ row' \in [Items -> Rows] /\ log' \in [Partitions -> SUBSET Events]
      /\ head' \in [Partitions -> [epoch : {1, 2}, next : Nat \ {0}]]
      /\ tx' = tx \ {t} /\ UNCHANGED <<begun, redacted>> /\ UNCHANGED readVars
  BY CommittedIs
<1>2. IsFiniteSet(tx') /\ Cardinality(tx') <= MaxOpen
  <2>1. IsFiniteSet(tx') /\ Cardinality(tx') <= Cardinality(tx) /\ Cardinality(tx') \in Nat
        /\ Cardinality(tx) \in Nat
    BY <1>1, FS_Subset, FS_CardinalityType DEF FeedInv, TypeInv
  <2> QED
    BY <2>1 DEF FeedInv, TypeInv, FeedAssumption
<1>3. TypeInv'
  BY <1>1, <1>2 DEF FeedInv, TypeInv, readVars
<1>4. Disjoint'
  BY <1>1 DEF FeedInv, Disjoint
<1>5. Database'
  BY CommitBeside, CommitBlanked, CommitNumbered, CommitMirrored DEF Database
<1>6. Consumer'
  BY CommitConsumer
<1>7. \A u \in tx' : Working(u)'
  BY <1>1, CommitWorking
<1> QED
  BY <1>3, <1>4, <1>5, <1>6, <1>7 DEF FeedInv

-----------------------------------------------------------------------------
(* A statement.                                                            *)

\* What the next statement of t says, and to which partitions.
News(t) == UNION {Emit(t, i) : i \in Target(t)}

\* The numbers of its events: one for each row, after those t has given.
Base(t, p) == head[p].next + Cardinality(t.out[p])

Ranks(t) == {rank \in [Target(t) -> 1 .. Cardinality(Target(t))] :
                {rank[i] : i \in Target(t)} = 1 .. Cardinality(Target(t))}

NewEvents(t, rank, p) ==
    {[seq |-> Base(t, p) + rank[n.item] - 1, epoch |-> head[p].epoch,
      item |-> n.item, gone |-> n.gone, body |-> n.body] :
        n \in {m[2] : m \in {n \in News(t) : n[1] = p}}}

\* The rows of a statement are new to the transaction, and its own.
LEMMA TargetIs ==
    ASSUME FeedAssumption, NEW t \in Transactions, Standing(t), t.statements < Statements(t),
           NEW u, u.kind = t.kind, u.item = t.item, u.statements = t.statements + 1
    PROVE  /\ Target(t) \subseteq Concerned(t) /\ Target(t) \subseteq Items
           /\ Target(t) \cap Finished(t) = {} /\ Finished(u) = Finished(t) \union Target(t)
           /\ u.statements \in 0 .. 2 /\ u.statements <= Statements(u)
<1>1. /\ t.statements \in 0 .. 2 /\ t.kind \in {"create", "update", "delete", "erase", "move"}
      /\ t.item \notin LiveClaims(t) /\ Target(t) \subseteq Concerned(t) /\ Concerned(t) \subseteq Items
      /\ LiveClaims(u) = LiveClaims(t)
      /\ LiveClaims(t) = {i \in ClaimsOf(t.item) : row[i].state = "live"}
  BY TransactionIs, ConcernedAre DEF LiveClaims
<1>2. Statements(u) = Statements(t) /\ Statements(t) \in {1, 2}
  BY DEF Statements
<1>3. CASE t.kind = "erase" /\ t.statements = 0
  <2>1. Target(t) = LiveClaims(t) /\ Finished(t) = {} /\ Finished(u) = LiveClaims(t)
    BY <1>1, <1>3 DEF Target, Finished
  <2> QED
    BY <1>1, <1>2, <1>3, <2>1
<1>4. CASE t.kind = "erase" /\ t.statements # 0
  <2>1. t.statements = 1 /\ u.statements = 2
    BY <1>1, <1>2, <1>4
  <2>2. Target(t) = {t.item} /\ Finished(t) = LiveClaims(t) /\ Finished(u) = LiveClaims(t) \union {t.item}
    BY <1>1, <1>4, <2>1 DEF Target, Finished
  <2> QED
    BY <1>1, <1>2, <2>1, <2>2
<1>5. CASE t.kind = "move" /\ t.statements = 0
  <2>1. Target(t) = {t.item} /\ Finished(t) = {} /\ Finished(u) = {t.item}
    BY <1>1, <1>5 DEF Target, Finished
  <2> QED
    BY <1>1, <1>2, <1>5, <2>1
<1>6. CASE t.kind = "move" /\ t.statements # 0
  <2>1. t.statements = 1 /\ u.statements = 2
    BY <1>1, <1>2, <1>6
  <2>2. Target(t) = LiveClaims(t) /\ Finished(t) = {t.item} /\ Finished(u) = LiveClaims(t) \union {t.item}
    BY <1>1, <1>6, <2>1 DEF Target, Finished
  <2> QED
    BY <1>1, <1>2, <2>1, <2>2
<1>7. CASE t.kind \notin {"erase", "move"}
  <2>1. t.statements = 0 /\ u.statements = 1
    BY <1>1, <1>7 DEF Statements
  <2>2. Target(t) = {t.item} /\ Finished(t) = {} /\ Finished(u) = {t.item}
    BY <1>1, <1>7, <2>1 DEF Target, Finished
  <2> QED
    BY <1>1, <1>2, <2>1, <2>2
<1> QED
  BY <1>3, <1>4, <1>5, <1>6, <1>7

\* A statement feeds each of its rows to the same partitions.
LEMMA SamePartitions ==
    ASSUME FeedAssumption, TypeInv, Beside, NEW t \in Transactions, Standing(t),
           t.statements < Statements(t),
           NEW i \in Target(t), NEW j \in Target(t), NEW n \in Emit(t, i)
    PROVE  \E m \in Emit(t, j) : m[1] = n[1]
<1>1. i \in Concerned(t) /\ j \in Concerned(t) /\ i \in Items /\ j \in Items
  BY ConcernedAre
<1>2. t.kind \in {"create", "update", "delete", "erase", "move"} /\ t.item \in Items
  BY TransactionIs
<1>3. CASE i = j
  BY <1>3
<1>4. CASE i # j
  <2>1. t.kind \in {"erase", "move"} /\ i \in LiveClaims(t) /\ j \in LiveClaims(t)
    BY <1>4 DEF Target, LiveClaims
  <2>2. row[i].partition = row[t.item].partition /\ row[j].partition = row[t.item].partition
    <3>1. \A k \in LiveClaims(t) : k \in Items /\ SourceOf[k] = t.item /\ row[k].state = "live"
      BY ConcernedAre
    <3> QED
      BY <1>2, <2>1, <3>1 DEF Beside, FeedAssumption
  <2>3. CASE t.kind = "erase"
    <3>1. /\ Changed(t, i).state = "gone" /\ Changed(t, i).partition = row[i].partition
          /\ Changed(t, j).state = "gone" /\ Changed(t, j).partition = row[j].partition
      BY <1>1, <2>3, ChangedIs
    <3>2. /\ Emit(t, i) = {<<row[i].partition, Tombstone(i)>>}
          /\ Emit(t, j) = {<<row[j].partition, Tombstone(j)>>}
      BY <2>3, <3>1 DEF Emit
    <3>3. n = <<row[i].partition, Tombstone(i)>>
      BY <3>2
    <3>4. n[1] = row[j].partition /\ <<row[j].partition, Tombstone(j)>> \in Emit(t, j)
      BY <2>2, <3>2, <3>3
    <3> QED
      BY <3>4
  <2>4. CASE t.kind = "move"
    <3>1. /\ Changed(t, i).partition = t.to /\ Changed(t, j).partition = t.to
          /\ Changed(t, i).state # "gone" /\ Changed(t, j).state # "gone"
      <4>1. row[i].state = "live" /\ row[j].state = "live"
        BY <2>1, ConcernedAre
      <4> QED
        BY <1>1, <2>4, <4>1, ChangedIs
    <3>2. /\ Emit(t, i) = {<<row[i].partition, Tombstone(i)>>,
                           <<t.to, Snapshot(i, Changed(t, i))>>}
          /\ Emit(t, j) = {<<row[j].partition, Tombstone(j)>>,
                           <<t.to, Snapshot(j, Changed(t, j))>>}
      BY <2>4, <3>1 DEF Emit
    <3>3. CASE n = <<row[i].partition, Tombstone(i)>>
      <4>1. n[1] = row[j].partition /\ <<row[j].partition, Tombstone(j)>> \in Emit(t, j)
        BY <2>2, <3>2, <3>3
      <4> QED
        BY <4>1
    <3>4. CASE n = <<t.to, Snapshot(i, Changed(t, i))>>
      <4>1. n[1] = t.to /\ <<t.to, Snapshot(j, Changed(t, j))>> \in Emit(t, j)
        BY <3>2, <3>4
      <4> QED
        BY <4>1
    <3> QED
      BY <3>2, <3>3, <3>4
  <2> QED
    BY <2>1, <2>3, <2>4
<1> QED
  BY <1>3, <1>4

\* No two rows of a statement have the same number.
LEMMA RanksAre ==
    ASSUME FeedAssumption, NEW t, Target(t) \subseteq Items, NEW rank \in Ranks(t)
    PROVE  /\ IsFiniteSet(Target(t)) /\ Cardinality(Target(t)) \in Nat
           /\ \A i \in Target(t) : rank[i] \in 1 .. Cardinality(Target(t))
           /\ \A k \in 1 .. Cardinality(Target(t)) : \E i \in Target(t) : rank[i] = k
           /\ \A i, j \in Target(t) : rank[i] = rank[j] => i = j
<1> DEFINE S == Target(t)
           k == Cardinality(S)
<1>1. IsFiniteSet(S) /\ k \in Nat
  BY FS_Subset, FS_CardinalityType DEF FeedAssumption
<1>2. rank \in [S -> 1 .. k] /\ {rank[i] : i \in S} = 1 .. k
  BY DEF Ranks
<1> HIDE DEF S, k
<1>3. \A j \in 1 .. k : \E i \in S : rank[i] = j
  BY <1>2
<1>4. rank \in Surjection(S, 1 .. k)
  BY <1>2, <1>3 DEF Surjection
<1>5. Cardinality(1 .. k) = k
  BY <1>1, FS_Interval
<1>6. rank \in Injection(S, 1 .. k)
  <2> DEFINE T == 1 .. k
  <2>1. rank \in Surjection(S, T) /\ IsFiniteSet(S) /\ Cardinality(S) = Cardinality(T)
    BY <1>1, <1>4, <1>5 DEF k
  <2> HIDE DEF T
  <2>2. rank \in Injection(S, T)
    BY <2>1, FS_SurjSameCardinalityImpliesInj
  <2> QED
    BY <2>2 DEF T
<1>7. \A i, j \in S : rank[i] = rank[j] => i = j
  BY <1>6 DEF Injection, IsInjective
<1> QED
  BY <1>1, <1>2, <1>3, <1>7 DEF S, k

\* The events of a statement in a partition, one for each thing it says there.
LEMMA NewEventsAre ==
    ASSUME FeedAssumption, TypeInv, Beside, NEW t \in Transactions, Standing(t),
           NEW p \in Partitions, Telling(t, p), NEW rank \in Ranks(t)
    PROVE  /\ NewEvents(t, rank, p) \subseteq Events
           /\ \A e \in NewEvents(t, rank, p) :
                 /\ e.item \in Target(t) /\ e.epoch = head[p].epoch
                 /\ e.seq = Base(t, p) + rank[e.item] - 1
                 /\ \E n \in Emit(t, e.item) : n[1] = p /\ Says(e, n[2])
           /\ \A i \in Target(t) : \A n \in Emit(t, i) : n[1] = p =>
                 \E e \in NewEvents(t, rank, p) : Says(e, n[2])
           /\ Base(t, p) \in Nat \ {0}
<1>1. /\ Target(t) \subseteq Concerned(t) /\ Target(t) \subseteq Items
      /\ head[p].epoch \in {1, 2} /\ head[p].next \in Nat \ {0}
  BY ConcernedAre, Shapes
<1>2. Base(t, p) \in Nat \ {0}
  <2>1. Cardinality(t.out[p]) \in Nat
    BY FS_CardinalityType DEF Telling
  <2> QED
    BY <1>1, <2>1 DEF Base
<1> DEFINE event(n) == [seq |-> Base(t, p) + rank[n.item] - 1, epoch |-> head[p].epoch,
                        item |-> n.item, gone |-> n.gone, body |-> n.body]
           said == {m[2] : m \in {n \in News(t) : n[1] = p}}
<1>3. NewEvents(t, rank, p) = {event(n) : n \in said}
  BY DEF NewEvents
<1>4. ASSUME NEW i \in Target(t), NEW n \in Emit(t, i), n[1] = p
      PROVE  /\ event(n[2]) \in Events /\ event(n[2]).item = i /\ event(n[2]).epoch = head[p].epoch
             /\ event(n[2]).seq = Base(t, p) + rank[i] - 1 /\ Says(event(n[2]), n[2])
  <2>1. Announces(t, i, p, n[2])
    BY <1>1, <1>4, EmitIs
  <2>2. n[2].item = i /\ n[2].gone \in BOOLEAN /\ n[2].body \in Nat /\ i \in Items
    BY <1>1, <2>1 DEF Announces
  <2>3. rank[i] \in Nat \ {0}
    BY <1>1, RanksAre
  <2>4. Base(t, p) + rank[i] - 1 \in Nat
    BY <1>2, <2>3
  <2>5. Says(event(n[2]), n[2])
    BY DEF Says
  <2>6. event(n[2]) \in Events
    BY <1>1, <2>2, <2>4 DEF Events
  <2> QED
    BY <2>2, <2>5, <2>6
<1>5. ASSUME NEW e \in NewEvents(t, rank, p)
      PROVE  \E i \in Target(t) : \E n \in Emit(t, i) : n[1] = p /\ e = event(n[2])
  <2>1. PICK x \in said : e = event(x)
    BY <1>3
  <2>2. PICK m \in News(t) : m[1] = p /\ x = m[2]
    BY <2>1
  <2>3. PICK i \in Target(t) : m \in Emit(t, i)
    BY <2>2 DEF News
  <2> QED
    BY <2>1, <2>2, <2>3
<1>6. ASSUME NEW i \in Target(t), NEW n \in Emit(t, i), n[1] = p
      PROVE  event(n[2]) \in NewEvents(t, rank, p)
  <2>1. n \in News(t)
    BY DEF News
  <2>2. n[2] \in said
    BY <1>6, <2>1
  <2> QED
    BY <1>3, <2>2
<1> HIDE DEF event, said
<1>7. ASSUME NEW e \in NewEvents(t, rank, p)
      PROVE  /\ e \in Events /\ e.item \in Target(t) /\ e.epoch = head[p].epoch
             /\ e.seq = Base(t, p) + rank[e.item] - 1
             /\ \E n \in Emit(t, e.item) : n[1] = p /\ Says(e, n[2])
  <2>1. PICK i \in Target(t) : \E n \in Emit(t, i) : n[1] = p /\ e = event(n[2])
    BY <1>5
  <2>2. PICK n \in Emit(t, i) : n[1] = p /\ e = event(n[2])
    BY <2>1
  <2> QED
    BY <1>4, <2>2
<1>8. ASSUME NEW i \in Target(t), NEW n \in Emit(t, i), n[1] = p
      PROVE  \E e \in NewEvents(t, rank, p) : Says(e, n[2])
  BY <1>4, <1>6, <1>8
<1> QED
  BY <1>2, <1>7, <1>8

\* They are numbered on from what the transaction has said there before.
LEMMA NewNumbers ==
    ASSUME FeedAssumption, TypeInv, Beside, NEW t \in Transactions, Standing(t),
           t.statements < Statements(t),
           NEW p \in Partitions, Telling(t, p), NEW rank \in Ranks(t)
    PROVE  /\ \A e, f \in NewEvents(t, rank, p) : e.item = f.item \/ e.seq = f.seq => e = f
           /\ \A e \in NewEvents(t, rank, p) : e.seq >= Base(t, p)
           /\ \E k \in Nat : {e.seq : e \in NewEvents(t, rank, p)} = Base(t, p) .. (Base(t, p) + k - 1)
<1> DEFINE new == NewEvents(t, rank, p)
           b == Base(t, p)
           k == Cardinality(Target(t))
<1>1. /\ new \subseteq Events /\ b \in Nat \ {0}
      /\ \A e \in new : /\ e.item \in Target(t) /\ e.epoch = head[p].epoch
                        /\ e.seq = b + rank[e.item] - 1
                        /\ \E n \in Emit(t, e.item) : n[1] = p /\ Says(e, n[2])
      /\ \A i \in Target(t) : \A n \in Emit(t, i) : n[1] = p => \E e \in new : Says(e, n[2])
  BY NewEventsAre
<1>2. Target(t) \subseteq Items /\ Target(t) \subseteq Concerned(t)
  BY ConcernedAre
<1>3. /\ k \in Nat /\ \A i \in Target(t) : rank[i] \in 1 .. k
      /\ \A j \in 1 .. k : \E i \in Target(t) : rank[i] = j
      /\ \A i, j \in Target(t) : rank[i] = rank[j] => i = j
  BY <1>2, RanksAre
<1> HIDE DEF new, b, k
<1>4. \A e \in new : e.seq >= b /\ e.seq \in b .. (b + k - 1)
  <2> SUFFICES ASSUME NEW e \in new PROVE e.seq >= b /\ e.seq \in b .. (b + k - 1)
    OBVIOUS
  <2>1. e.seq = b + rank[e.item] - 1 /\ rank[e.item] \in 1 .. k
    BY <1>1, <1>3
  <2> QED
    BY <1>1, <1>3, <2>1
<1>5. ASSUME NEW e \in new, NEW f \in new, e.item = f.item PROVE e = f
  <2>1. e \in Events /\ f \in Events /\ e.epoch = f.epoch /\ e.seq = f.seq
    BY <1>1, <1>5
  <2>2. PICK n \in Emit(t, e.item) : n[1] = p /\ Says(e, n[2])
    BY <1>1
  <2>3. PICK m \in Emit(t, e.item) : m[1] = p /\ Says(f, m[2])
    BY <1>1, <1>5
  <2>4. e.item \in Concerned(t)
    BY <1>1, <1>2
  <2>5. n[2] = m[2]
    BY <2>2, <2>3, <2>4, EmitIs
  <2>6. e.gone = f.gone /\ e.body = f.body
    BY <2>2, <2>3, <2>5 DEF Says
  <2> QED
    BY <1>5, <2>1, <2>6 DEF Events
<1>6. ASSUME NEW e \in new, NEW f \in new, e.seq = f.seq PROVE e = f
  <2>1. /\ b \in Nat /\ rank[e.item] \in Nat /\ rank[f.item] \in Nat
        /\ b + rank[e.item] - 1 = b + rank[f.item] - 1
    BY <1>1, <1>3, <1>6
  <2>2. rank[e.item] = rank[f.item]
    BY <2>1
  <2>3. e.item = f.item
    BY <1>1, <1>3, <2>2
  <2> QED
    BY <1>5, <2>3
<1>7. CASE \E i \in Target(t) : \E n \in Emit(t, i) : n[1] = p
  <2>1. PICK i \in Target(t) : \E n \in Emit(t, i) : n[1] = p
    BY <1>7
  <2>2. PICK n \in Emit(t, i) : n[1] = p
    BY <2>1
  <2>3. ASSUME NEW x \in b .. (b + k - 1) PROVE \E e \in new : e.seq = x
    <3>1. x - b + 1 \in 1 .. k
      BY <1>1, <1>3
    <3>2. PICK j \in Target(t) : rank[j] = x - b + 1
      BY <1>3, <3>1
    <3>3. PICK m \in Emit(t, j) : m[1] = p
      BY <2>2, SamePartitions
    <3>4. m[2].item = j
      BY <1>2, EmitIs DEF Announces
    <3>5. PICK e \in new : Says(e, m[2])
      BY <1>1, <3>3
    <3>6. e.seq = b + (x - b + 1) - 1
      BY <1>1, <3>2, <3>4, <3>5 DEF Says
    <3>7. e.seq = x
      BY <1>1, <3>6
    <3> QED
      BY <3>7
  <2>4. {e.seq : e \in new} = b .. (b + k - 1)
    BY <1>4, <2>3
  <2> QED
    BY <1>3, <1>4, <1>5, <1>6, <2>4 DEF new, b
<1>8. CASE ~ \E i \in Target(t) : \E n \in Emit(t, i) : n[1] = p
  <2>1. new = {}
    BY <1>1, <1>8
  <2>2. {e.seq : e \in new} = b .. (b + 0 - 1)
    <3>1. b .. (b + 0 - 1) = {}
      BY <1>1
    <3> QED
      BY <2>1, <3>1
  <2>3. 0 \in Nat
    OBVIOUS
  <2> QED
    BY <2>1, <2>2, <2>3 DEF new, b
<1> QED
  BY <1>7, <1>8

\* After a statement, what the transaction says in a partition is about all the
\* rows it has changed by then.
LEMMA StatementTelling ==
    ASSUME FeedAssumption, TypeInv, Beside, NEW t \in Transactions, Standing(t),
           t.statements < Statements(t), NEW p \in Partitions, Telling(t, p), NEW rank \in Ranks(t),
           NEW u, u.kind = t.kind, u.item = t.item, u.to = t.to, u.statements = t.statements + 1,
           t.heads \subseteq u.heads, {n[1] : n \in News(t)} \subseteq u.heads,
           u.out[p] = t.out[p] \union NewEvents(t, rank, p)
    PROVE  Telling(u, p)
<1> DEFINE new == NewEvents(t, rank, p)
           old == t.out[p]
           b == Base(t, p)
           c == Cardinality(old)
           h == head[p].next
<1>1. Target(t) \cap Finished(t) = {} /\ Finished(u) = Finished(t) \union Target(t)
  BY TargetIs
<1>2. \A i : Emit(u, i) = Emit(t, i)
  BY DEF Emit, Changed
<1>3. /\ new \subseteq Events
      /\ \A e \in new : /\ e.item \in Target(t) /\ e.epoch = head[p].epoch
                        /\ \E n \in Emit(t, e.item) : n[1] = p /\ Says(e, n[2])
      /\ \A i \in Target(t) : \A n \in Emit(t, i) : n[1] = p => \E e \in new : Says(e, n[2])
  BY NewEventsAre
<1>4. /\ \A e, f \in new : e.item = f.item \/ e.seq = f.seq => e = f
      /\ \A e \in new : e.seq >= b
      /\ \E k \in Nat : {e.seq : e \in new} = b .. (b + k - 1)
  BY NewNumbers
<1>5. PICK k \in Nat : {e.seq : e \in new} = b .. (b + k - 1)
  BY <1>4
<1>6. /\ old # {} => p \in t.heads
      /\ IsFiniteSet(old)
      /\ \A e \in old : e.item \in Finished(t) /\ e.epoch = head[p].epoch
      /\ \A e \in old : \E n \in Emit(t, e.item) : n[1] = p /\ Says(e, n[2])
      /\ \A i \in Finished(t) : \A n \in Emit(t, i) : n[1] = p => \E e \in old : Says(e, n[2])
      /\ \A e, f \in old : e.item = f.item \/ e.seq = f.seq => e = f
      /\ {e.seq : e \in old} = h .. h + c - 1
      /\ old \subseteq Events
  BY TransactionIs DEF Telling
<1>7. h \in Nat \ {0} /\ c \in Nat /\ b = h + c
  BY <1>6, Shapes, FS_CardinalityType DEF Base
<1>8. u.out[p] # {} => p \in u.heads
  <2>1. ASSUME NEW e \in new PROVE p \in u.heads
    <3>1. PICK n \in Emit(t, e.item) : n[1] = p
      BY <1>3
    <3>2. n \in News(t)
      BY <1>3 DEF News
    <3> QED
      BY <3>1, <3>2
  <2> QED
    BY <1>6, <2>1
<1>9. u.out[p] = old \union new
  OBVIOUS
<1> HIDE DEF new, old, b, c, h
<1>10. \A e \in old : e.seq \in Nat /\ e.seq < b
  <2> SUFFICES ASSUME NEW e \in old PROVE e.seq \in Nat /\ e.seq < b
    OBVIOUS
  <2>1. e.seq \in h .. h + c - 1
    BY <1>6
  <2> QED
    BY <1>7, <2>1
<1>11. \A e \in old, f \in new : e.item # f.item /\ e.seq # f.seq
  <2> SUFFICES ASSUME NEW e \in old, NEW f \in new PROVE e.item # f.item /\ e.seq # f.seq
    OBVIOUS
  <2>1. e.item # f.item
    BY <1>1, <1>3, <1>6
  <2>2. e.seq \in Nat /\ f.seq \in Nat /\ e.seq < b /\ f.seq >= b /\ b \in Nat
    BY <1>3, <1>4, <1>7, <1>10, EventIs
  <2> QED
    BY <2>1, <2>2
<1>12. \A e, f \in u.out[p] : e.item = f.item \/ e.seq = f.seq => e = f
  BY <1>4, <1>6, <1>9, <1>11
<1>13. {e.seq : e \in u.out[p]} = h .. (h + (c + k) - 1)
  <2>1. {e.seq : e \in u.out[p]} = (h .. h + c - 1) \union (b .. (b + k - 1))
    BY <1>5, <1>6, <1>9
  <2>2. (h .. h + c - 1) \union (b .. (b + k - 1)) = h .. (h + (c + k) - 1)
    BY <1>7
  <2> QED
    BY <2>1, <2>2
<1>14. IsFiniteSet(u.out[p]) /\ Cardinality(u.out[p]) = c + k
  <2> DEFINE S == u.out[p]
             m == c + k
  <2>1. /\ h \in Nat /\ m \in Nat /\ {e.seq : e \in S} = h .. (h + m - 1)
        /\ \A e, f \in S : e.seq = f.seq => e = f
    BY <1>7, <1>12, <1>13
  <2> HIDE DEF S, m
  <2>2. IsFiniteSet(S) /\ Cardinality(S) = m
    BY <2>1, CountOf
  <2> QED
    BY <2>2 DEF S, m
<1>15. /\ \A e \in u.out[p] : e.item \in Finished(u) /\ e.epoch = head[p].epoch
       /\ \A e \in u.out[p] : \E n \in Emit(u, e.item) : n[1] = p /\ Says(e, n[2])
       /\ \A i \in Finished(u) : \A n \in Emit(u, i) : n[1] = p => \E e \in u.out[p] : Says(e, n[2])
  BY <1>1, <1>2, <1>3, <1>6, <1>9
<1>16. {e.seq : e \in u.out[p]} = head[p].next .. head[p].next + Cardinality(u.out[p]) - 1
  BY <1>13, <1>14 DEF h
<1> QED
  BY <1>8, <1>12, <1>14, <1>15, <1>16 DEF Telling

\* The fields that a statement sets leave a transaction what it is.
LEMMA Rewritten ==
    ASSUME NEW t \in Transactions, NEW a \in 0 .. 2, NEW l \in SUBSET Items,
           NEW h \in SUBSET Partitions, NEW r \in [Items -> Rows \union {Untouched}],
           NEW o \in [Partitions -> SUBSET Events]
    PROVE  [t EXCEPT !.statements = a, !.locked = l, !.heads = h, !.rows = r, !.out = o]
               \in Transactions
BY DEF Transactions

\* What a statement makes of the transaction, and that it leaves the rest alone.
LEMMA StatementIs ==
    ASSUME FeedAssumption, FeedInv, NEW t \in tx, Statement(t)
    PROVE  /\ t.statements < Statements(t) /\ Free(tx \ {t}, Target(t))
           /\ FreeHeads(tx \ {t}, {n[1] : n \in News(t)})
           /\ UNCHANGED <<row, log, head, begun, redacted>> /\ UNCHANGED readVars
           /\ \E rank \in Ranks(t) : \E u \in Transactions :
                 /\ tx' = (tx \ {t}) \union {u}
                 /\ u.kind = t.kind /\ u.item = t.item /\ u.to = t.to
                 /\ u.statements = t.statements + 1 /\ u.locked = t.locked \union Target(t)
                 /\ u.heads = t.heads \union {n[1] : n \in News(t)}
                 /\ \A i \in Items : u.rows[i] = IF i \in Target(t) THEN Changed(t, i) ELSE t.rows[i]
                 /\ \A p \in Partitions : u.out[p] = t.out[p] \union NewEvents(t, rank, p)
<1>1. t \in Transactions /\ Working(t) /\ Standing(t) /\ TypeInv /\ Beside
  BY DEF FeedInv, TypeInv, Database, Working
<1> DEFINE after(rank) ==
               [t EXCEPT
                  !.statements = @ + 1,
                  !.locked = @ \union Target(t),
                  !.heads = HeadsAfter(t, {n[1] : n \in News(t)}),
                  !.rows = [i \in Items |-> IF i \in Target(t) THEN Changed(t, i) ELSE @[i]],
                  !.out = [p \in Partitions |-> @[p] \union
                      {[seq |-> head[p].next + Cardinality(t.out[p]) + rank[n.item] - 1,
                        epoch |-> head[p].epoch,
                        item |-> n.item, gone |-> n.gone, body |-> n.body]
                         : n \in {m[2] : m \in {x \in News(t) : x[1] = p}}}]]
<1>2. /\ t.statements < Statements(t)
      /\ Free(tx \ {t}, Target(t)) /\ FreeHeads(tx \ {t}, {n[1] : n \in News(t)})
      /\ \E rank \in [Target(t) -> 1 .. Cardinality(Target(t))] :
            /\ {rank[i] : i \in Target(t)} = 1 .. Cardinality(Target(t))
            /\ tx' = (tx \ {t}) \union {after(rank)}
      /\ UNCHANGED <<row, log, head, begun, redacted>> /\ UNCHANGED readVars
  BY DEF Statement, News
<1> HIDE DEF after
<1>3. PICK rank \in Ranks(t) : tx' = (tx \ {t}) \union {after(rank)}
  BY <1>2 DEF Ranks
<1> DEFINE u == after(rank)
<1> USE DEF after
<1>4. /\ t.kind \in {"create", "update", "delete", "erase", "move"} /\ t.item \in Items
      /\ t.to \in Partitions /\ t.statements \in 0 .. 2 /\ t.locked \subseteq Items
      /\ t.heads \subseteq Partitions /\ t.rows \in [Items -> Rows \union {Untouched}]
      /\ t.out \in [Partitions -> SUBSET Events]
  BY <1>1, TransactionIs
<1>5. /\ u.kind = t.kind /\ u.item = t.item /\ u.to = t.to /\ u.statements = t.statements + 1
      /\ u.locked = t.locked \union Target(t)
      /\ u.heads = t.heads \union {n[1] : n \in News(t)}
  BY <1>1 DEF Transactions, HeadsAfter
<1>6. u.rows = [i \in Items |-> IF i \in Target(t) THEN Changed(t, i) ELSE t.rows[i]]
  BY <1>1 DEF Transactions
<1>7. u.out = [p \in Partitions |-> t.out[p] \union NewEvents(t, rank, p)]
  BY <1>1 DEF Transactions, NewEvents, Base
<1>8. u = [t EXCEPT !.statements = u.statements, !.locked = u.locked, !.heads = u.heads,
                    !.rows = u.rows, !.out = u.out]
  BY <1>1, <1>5, <1>6, <1>7 DEF Transactions, HeadsAfter, NewEvents, Base
<1>9. tx' = (tx \ {t}) \union {u}
  BY <1>3
<1> HIDE DEF u, after
<1>10. u \in Transactions
  <2>1. u.statements \in 0 .. 2
    BY <1>2, <1>4, <1>5 DEF Statements
  <2>2. Target(t) \subseteq Items /\ Target(t) \subseteq Concerned(t)
    BY <1>1, ConcernedAre
  <2>3. u.heads \subseteq Partitions
    <3>1. \A n \in News(t) : n[1] \in Partitions
      BY <1>1, <2>2, EmitIs DEF News, Announces
    <3> QED
      BY <1>4, <1>5, <3>1
  <2>4. u.rows \in [Items -> Rows \union {Untouched}]
    BY <1>1, <1>4, <1>6, ChangedIs
  <2>5. u.out \in [Partitions -> SUBSET Events]
    <3>1. \A p \in Partitions : NewEvents(t, rank, p) \subseteq Events
      BY <1>1, NewEventsAre DEF Working
    <3> QED
      BY <1>4, <1>7, <3>1
  <2>6. u.locked \subseteq Items
    BY <1>4, <1>5, <2>2
  <2> DEFINE a == u.statements
             l == u.locked
             h == u.heads
             r == u.rows
             o == u.out
  <2>7. u = [t EXCEPT !.statements = a, !.locked = l, !.heads = h, !.rows = r, !.out = o]
    BY <1>8
  <2>8. /\ a \in 0 .. 2 /\ l \in SUBSET Items /\ h \in SUBSET Partitions
        /\ r \in [Items -> Rows \union {Untouched}] /\ o \in [Partitions -> SUBSET Events]
    BY <2>1, <2>3, <2>4, <2>5, <2>6
  <2> HIDE DEF a, l, h, r, o
  <2>9. [t EXCEPT !.statements = a, !.locked = l, !.heads = h, !.rows = r, !.out = o] \in Transactions
    BY <1>1, <2>8, Rewritten
  <2> QED
    BY <2>7, <2>9
<1>11. /\ \A i \in Items : u.rows[i] = IF i \in Target(t) THEN Changed(t, i) ELSE t.rows[i]
       /\ \A p \in Partitions : u.out[p] = t.out[p] \union NewEvents(t, rank, p)
  BY <1>6, <1>7
<1> QED
  BY <1>2, <1>5, <1>9, <1>10, <1>11

\* A statement preserves the invariant.
LEMMA StatementInv == ASSUME FeedAssumption, FeedInv, NEW t \in tx, Statement(t) PROVE FeedInv'
<1>1. t \in Transactions /\ Working(t) /\ Standing(t) /\ TypeInv /\ Beside /\ Disjoint
  BY DEF FeedInv, TypeInv, Database, Working
<1>2. /\ t.statements < Statements(t) /\ Free(tx \ {t}, Target(t))
      /\ FreeHeads(tx \ {t}, {n[1] : n \in News(t)})
      /\ UNCHANGED <<row, log, head, begun, redacted>> /\ UNCHANGED readVars
  BY StatementIs
<1>3. PICK rank \in Ranks(t) : \E v \in Transactions :
                 /\ tx' = (tx \ {t}) \union {v}
                 /\ v.kind = t.kind /\ v.item = t.item /\ v.to = t.to
                 /\ v.statements = t.statements + 1 /\ v.locked = t.locked \union Target(t)
                 /\ v.heads = t.heads \union {n[1] : n \in News(t)}
                 /\ \A i \in Items : v.rows[i] = IF i \in Target(t) THEN Changed(t, i) ELSE t.rows[i]
                 /\ \A p \in Partitions : v.out[p] = t.out[p] \union NewEvents(t, rank, p)
  BY StatementIs
<1>4. PICK u \in Transactions :
                 /\ tx' = (tx \ {t}) \union {u}
                 /\ u.kind = t.kind /\ u.item = t.item /\ u.to = t.to
                 /\ u.statements = t.statements + 1 /\ u.locked = t.locked \union Target(t)
                 /\ u.heads = t.heads \union {n[1] : n \in News(t)}
                 /\ \A i \in Items : u.rows[i] = IF i \in Target(t) THEN Changed(t, i) ELSE t.rows[i]
                 /\ \A p \in Partitions : u.out[p] = t.out[p] \union NewEvents(t, rank, p)
  BY <1>3
<1>5. /\ Target(t) \subseteq Items /\ Finished(u) = Finished(t) \union Target(t)
      /\ u.statements \in 0 .. 2 /\ u.statements <= Statements(u)
  BY <1>1, <1>2, <1>4, TargetIs
<1>6. IsFiniteSet(tx') /\ Cardinality(tx') <= MaxOpen
  <2>1. /\ IsFiniteSet(tx \ {t}) /\ Cardinality(tx \ {t}) = Cardinality(tx) - 1
        /\ Cardinality(tx) \in Nat
    BY <1>1, FS_RemoveElement, FS_CardinalityType DEF TypeInv
  <2>2. IsFiniteSet(tx') /\ (\/ Cardinality(tx') = Cardinality(tx \ {t})
                             \/ Cardinality(tx') = Cardinality(tx \ {t}) + 1)
    BY <1>4, <2>1, FS_AddElement
  <2>3. Cardinality(tx) <= MaxOpen /\ MaxOpen \in Nat
    BY <1>1 DEF TypeInv, FeedAssumption
  <2> QED
    BY <2>1, <2>2, <2>3
<1>7. TypeInv'
  BY <1>1, <1>2, <1>4, <1>6 DEF TypeInv, readVars
<1>8. Disjoint'
  <2>1. ASSUME NEW v \in tx, v # t PROVE v.locked \cap u.locked = {} /\ v.heads \cap u.heads = {}
    <3>1. v.locked \cap t.locked = {} /\ v.heads \cap t.heads = {}
      BY <1>1, <2>1 DEF Disjoint
    <3>2. v.locked \cap Target(t) = {} /\ v.heads \cap {n[1] : n \in News(t)} = {}
      BY <1>2, <2>1 DEF Free, FreeHeads
    <3> QED
      BY <1>4, <3>1, <3>2
  <2>2. \A v, w \in tx' : \/ v = w
                          \/ v = u /\ w \in tx /\ w # t
                          \/ w = u /\ v \in tx /\ v # t
                          \/ v \in tx /\ w \in tx
    BY <1>4
  <2>3. \A v, w \in tx' : v # w => v.locked \cap w.locked = {} /\ v.heads \cap w.heads = {}
    BY <1>1, <2>1, <2>2 DEF Disjoint
  <2> QED
    BY <2>3 DEF Disjoint
<1>9. Database' /\ Consumer' /\ \A v \in tx : Working(v)'
  BY <1>2, UncommittedStands
<1>10. Working(u)
  <2>1. Standing(u)
    BY <1>1, <1>4, <1>5 DEF Standing
  <2>2. Changing(u)
    <3>1. \A i : Changed(u, i) = Changed(t, i)
      BY <1>4 DEF Changed
    <3>2. Finished(t) \subseteq t.locked /\
          \A i \in Items : t.rows[i] = IF i \in Finished(t) THEN Changed(t, i) ELSE Untouched
      BY <1>1 DEF Working, Changing
    <3> QED
      BY <1>4, <1>5, <3>1, <3>2 DEF Changing
  <2>3. ASSUME NEW p \in Partitions PROVE Telling(u, p)
    <3>1. Telling(t, p)
      BY <1>1 DEF Working
    <3>2. u.out[p] = t.out[p] \union NewEvents(t, rank, p)
      BY <1>4
    <3>3. t.heads \subseteq u.heads /\ {n[1] : n \in News(t)} \subseteq u.heads
      BY <1>4
    <3> QED
      BY <1>1, <1>2, <1>4, <3>1, <3>2, <3>3, StatementTelling
  <2> QED
    BY <2>1, <2>2, <2>3 DEF Working
<1>11. Working(u)'
  <2>1. UNCHANGED <<row, head, redacted>>
    BY <1>2
  <2>2. Standing(u)'
    BY <1>10, <2>1 DEF Working, Standing, Shown, Statements
  <2>3. Finished(u)' = Finished(u) /\ \A j : Changed(u, j)' = Changed(u, j) /\ Emit(u, j)' = Emit(u, j)
    BY <2>1 DEF Finished, LiveClaims, Changed, Emit, Tombstone
  <2>4. Changing(u)'
    BY <1>10, <2>3 DEF Working, Changing
  <2>5. \A p \in Partitions : Telling(u, p)'
    BY <1>10, <2>1, <2>3 DEF Working, Telling
  <2> QED
    BY <2>2, <2>4, <2>5 DEF Working
<1> QED
  BY <1>4, <1>7, <1>8, <1>9, <1>11 DEF FeedInv

-----------------------------------------------------------------------------
(* Migration 0036.                                                         *)

\* What 0036 makes of a head and of its events.
LEMMA RedactedIs ==
    ASSUME FeedAssumption, FeedInv, Redact, NEW p \in Partitions
    PROVE  /\ NewEpoch(p) \in {1, 2} /\ head[p].epoch = 1 /\ (Retracts(p) <=> NewEpoch(p) = 2)
           /\ head'[p] \in [epoch : {1, 2}, next : Nat \ {0}]
           /\ head'[p].epoch = NewEpoch(p) /\ head'[p].next = head[p].next
           /\ LastNumber(p)' = LastNumber(p)
           /\ log'[p] \subseteq Events
           /\ \A f \in log'[p] : \E e \in log[p] :
                 /\ f.seq = e.seq /\ f.item = e.item /\ f.gone = e.gone /\ f.epoch = NewEpoch(p)
                 /\ f.body = IF e.gone THEN 0 ELSE e.body
           /\ \A e \in log[p] : \E f \in log'[p] :
                 /\ f.seq = e.seq /\ f.item = e.item /\ f.gone = e.gone /\ f.epoch = NewEpoch(p)
                 /\ f.body = IF e.gone THEN 0 ELSE e.body
           /\ ~Retracts(p) => log'[p] = log[p]
<1>1. /\ TypeInv /\ ~redacted /\ head[p].epoch = 1 /\ Numbered(p)
  BY DEF FeedInv, Database, Blanked, Redact
<1>2. NewEpoch(p) = (IF Retracts(p) THEN 2 ELSE 1)
  BY <1>1 DEF NewEpoch
<1> DEFINE blank(e) == [e EXCEPT !.epoch = NewEpoch(p), !.body = IF e.gone THEN 0 ELSE @]
<1>3. log'[p] = {blank(e) : e \in log[p]} /\ head'[p] = [head[p] EXCEPT !.epoch = NewEpoch(p)]
  BY DEF Redact
<1>4. ASSUME NEW e \in log[p]
      PROVE  /\ blank(e).seq = e.seq /\ blank(e).item = e.item /\ blank(e).gone = e.gone
             /\ blank(e).epoch = NewEpoch(p) /\ blank(e).body = IF e.gone THEN 0 ELSE e.body
             /\ blank(e) \in Events /\ (~Retracts(p) => blank(e) = e)
  <2>1. e \in Events /\ e.epoch = 1
    BY <1>1, Shapes DEF Numbered
  <2>2. NewEpoch(p) \in {1, 2}
    BY <1>2
  <2>3. /\ blank(e).seq = e.seq /\ blank(e).item = e.item /\ blank(e).gone = e.gone
        /\ blank(e).epoch = NewEpoch(p) /\ blank(e).body = IF e.gone THEN 0 ELSE e.body
        /\ blank(e) \in Events
    BY <2>1, <2>2 DEF Events
  <2>4. ~Retracts(p) => blank(e) = e
    <3>1. ~Retracts(p) => ~e.gone /\ NewEpoch(p) = 1
      BY <1>2 DEF Retracts
    <3> QED
      BY <2>1, <3>1 DEF Events
  <2> QED
    BY <2>3, <2>4
<1> HIDE DEF blank
<1>5. /\ head[p] \in [epoch : {1, 2}, next : Nat \ {0}]
  BY <1>1, Shapes
<1>6. /\ head'[p] \in [epoch : {1, 2}, next : Nat \ {0}] /\ head'[p].epoch = NewEpoch(p)
      /\ head'[p].next = head[p].next
  BY <1>2, <1>3, <1>5
<1>7. LastNumber(p)' = LastNumber(p)
  BY <1>6 DEF LastNumber
<1>8. /\ log'[p] \subseteq Events
      /\ ~Retracts(p) => log'[p] = log[p]
  BY <1>3, <1>4
<1>9. /\ \A f \in log'[p] : \E e \in log[p] :
                 /\ f.seq = e.seq /\ f.item = e.item /\ f.gone = e.gone /\ f.epoch = NewEpoch(p)
                 /\ f.body = IF e.gone THEN 0 ELSE e.body
      /\ \A e \in log[p] : \E f \in log'[p] :
                 /\ f.seq = e.seq /\ f.item = e.item /\ f.gone = e.gone /\ f.epoch = NewEpoch(p)
                 /\ f.body = IF e.gone THEN 0 ELSE e.body
  BY <1>3, <1>4
<1> QED
  BY <1>1, <1>2, <1>6, <1>7, <1>8, <1>9

\* The events keep their numbers and what they say of rows that are there.
LEMMA RedactDatabase ==
    ASSUME FeedAssumption, FeedInv, Redact
    PROVE  Database'
<1>1. row' = row /\ redacted' = TRUE /\ TypeInv /\ Database
  BY DEF Redact, FeedInv
<1>2. Beside'
  BY <1>1 DEF Database, Beside
<1>3. Blanked'
  BY <1>1, RedactedIs DEF Blanked
<1>4. ASSUME NEW p \in Partitions PROVE Numbered(p)'
  <2>1. /\ Numbered(p) /\ LastNumber(p) \in Nat /\ LastNumber(p)' = LastNumber(p)
        /\ head'[p].epoch = NewEpoch(p)
    BY <1>1, Shapes, RedactedIs DEF Database
  <2>2. /\ \A f \in log'[p] : f.epoch = NewEpoch(p) /\ \E e \in log[p] : f.seq = e.seq
        /\ \A e \in log[p] : \E f \in log'[p] : f.seq = e.seq
    BY RedactedIs
  <2>3. {e.seq : e \in log'[p]} = 1 .. LastNumber(p)
    BY <2>1, <2>2 DEF Numbered
  <2>4. ASSUME NEW e \in log'[p], NEW f \in log'[p], e.seq = f.seq PROVE e = f
    <3>1. PICK d \in log[p] :
                 /\ e.seq = d.seq /\ e.item = d.item /\ e.gone = d.gone /\ e.epoch = NewEpoch(p)
                 /\ e.body = IF d.gone THEN 0 ELSE d.body
      BY RedactedIs
    <3>2. PICK g \in log[p] :
                 /\ f.seq = g.seq /\ f.item = g.item /\ f.gone = g.gone /\ f.epoch = NewEpoch(p)
                 /\ f.body = IF g.gone THEN 0 ELSE g.body
      BY RedactedIs
    <3>3. d = g
      BY <2>1, <2>4, <3>1, <3>2 DEF Numbered
    <3>4. e \in Events /\ f \in Events
      BY RedactedIs
    <3> QED
      BY <3>1, <3>2, <3>3, <3>4 DEF Events
  <2>5. IsFiniteSet(log'[p]) /\ Cardinality(log'[p]) = LastNumber(p)
    <3> DEFINE S == log'[p]
               m == LastNumber(p)
    <3>1. /\ 1 \in Nat /\ m \in Nat /\ {e.seq : e \in S} = 1 .. (1 + m - 1)
          /\ \A e, f \in S : e.seq = f.seq => e = f
      BY <2>1, <2>3, <2>4
    <3> HIDE DEF S, m
    <3>2. IsFiniteSet(S) /\ Cardinality(S) = m
      BY <3>1, CountOf
    <3> QED
      BY <3>2 DEF S, m
  <2> QED
    BY <2>1, <2>2, <2>3, <2>4, <2>5 DEF Numbered
<1>5. ASSUME NEW p \in Partitions PROVE Mirrored(p)'
  <2>1. Mirrored(p)
    BY <1>1 DEF Database
  <2>2. /\ \A f \in log'[p] : \E e \in log[p] :
                 /\ f.seq = e.seq /\ f.item = e.item /\ f.gone = e.gone
                 /\ f.body = IF e.gone THEN 0 ELSE e.body
        /\ \A e \in log[p] : \E f \in log'[p] :
                 /\ f.seq = e.seq /\ f.item = e.item /\ f.gone = e.gone
                 /\ f.body = IF e.gone THEN 0 ELSE e.body
    BY RedactedIs
  <2>3. ASSUME NEW e \in log[p], NEW f \in log'[p], f.seq = e.seq, f.item = e.item
        PROVE  IsLast(e, log[p]) <=> IsLast(f, log'[p])
    BY <2>2, <2>3 DEF IsLast
  <2>4. ASSUME NEW i \in Items, Shown(i, p)
        PROVE  \E f \in log'[p] : f.item = i /\ IsLast(f, log'[p]) /\ ~f.gone /\ f.body = row[i].version
    <3>1. PICK e \in log[p] : e.item = i /\ IsLast(e, log[p]) /\ ~e.gone /\ e.body = row[i].version
      BY <2>1, <2>4 DEF Mirrored
    <3>2. PICK f \in log'[p] : /\ f.seq = e.seq /\ f.item = e.item /\ f.gone = e.gone
                               /\ f.body = IF e.gone THEN 0 ELSE e.body
      BY <2>2
    <3> QED
      BY <2>3, <3>1, <3>2
  <2>5. ASSUME NEW f \in log'[p], IsLast(f, log'[p]), ~f.gone PROVE Shown(f.item, p)
    <3>1. PICK e \in log[p] : f.seq = e.seq /\ f.item = e.item /\ f.gone = e.gone
      BY <2>2
    <3> QED
      BY <2>1, <2>3, <2>5, <3>1 DEF Mirrored
  <2>6. \A i : Shown(i, p)' <=> Shown(i, p)
    BY <1>1 DEF Shown
  <2> QED
    BY <1>1, <2>4, <2>5, <2>6 DEF Mirrored
<1> QED
  BY <1>2, <1>3, <1>4, <1>5 DEF Database

\* The migration preserves the invariant: no transaction has said anything yet,
\* and a partition in which something was retracted has a new epoch.
LEMMA RedactInv == ASSUME FeedAssumption, FeedInv, Redact PROVE FeedInv'
<1>1. /\ TypeInv /\ Beside /\ Consumer /\ Disjoint /\ UNCHANGED <<row, tx, begun>> /\ UNCHANGED readVars
      /\ redacted' = TRUE /\ ~redacted /\ \A t \in tx : t.heads = {} /\ Working(t)
      /\ tx \subseteq Transactions
  BY DEF Redact, FeedInv, TypeInv, Database
<1>2. TypeInv'
  <2>1. /\ log' \in [Partitions -> SUBSET Events]
        /\ head' \in [Partitions -> [epoch : {1, 2}, next : Nat \ {0}]]
    <3>1. /\ log' = [p \in Partitions |-> log'[p]] /\ head' = [p \in Partitions |-> head'[p]]
      BY DEF Redact
    <3>2. \A p \in Partitions : /\ log'[p] \subseteq Events
                                /\ head'[p] \in [epoch : {1, 2}, next : Nat \ {0}]
      BY RedactedIs
    <3> QED
      BY <3>1, <3>2
  <2> QED
    BY <1>1, <2>1 DEF TypeInv, readVars
<1>3. ASSUME NEW t \in tx PROVE Working(t)'
  <2>1. t \in Transactions /\ Standing(t) /\ Changing(t) /\ \A p \in Partitions : Telling(t, p)
    BY <1>1 DEF Working
  <2>2. \A p \in Partitions : t.out[p] = {}
    BY <1>1, <2>1 DEF Telling
  <2>3. Finished(t) = {}
    <3> SUFFICES ASSUME NEW i \in Finished(t) PROVE FALSE
      OBVIOUS
    <3>1. i \in Concerned(t)
      BY <2>1, ConcernedAre
    <3>2. PICK n \in Emit(t, i) : TRUE
      BY <1>1, <2>1, <3>1, EmitIs
    <3>3. n[1] \in Partitions
      BY <1>1, <2>1, <3>1, EmitIs DEF Announces
    <3> QED
      BY <2>1, <2>2, <3>2, <3>3 DEF Telling
  <2>4. Finished(t)' = {}
    BY <1>1, <2>3 DEF Finished, LiveClaims
  <2>5. Standing(t)'
    BY <1>1, <2>1 DEF Standing, Shown, Statements
  <2>6. Changing(t)'
    BY <2>1, <2>3, <2>4 DEF Changing
  <2>7. ASSUME NEW p \in Partitions PROVE Telling(t, p)'
    <3>1. Cardinality({}) = 0 /\ IsFiniteSet({}) /\ head'[p].next \in Nat
      BY <1>1, Shapes, RedactedIs, FS_EmptySet
    <3>2. head'[p].next .. head'[p].next + 0 - 1 = {} /\ {e.seq : e \in {}} = {}
      BY <3>1
    <3> QED
      BY <2>2, <2>4, <3>1, <3>2 DEF Telling
  <2> QED
    BY <2>5, <2>6, <2>7 DEF Working
<1>4. /\ Mine \in Partitions /\ LastNumber(Mine)' = LastNumber(Mine) /\ head[Mine].epoch = 1
      /\ head'[Mine].epoch \in {1, 2} /\ (Retracts(Mine) <=> head'[Mine].epoch = 2)
      /\ ~Retracts(Mine) => log'[Mine] = log[Mine]
  BY RedactedIs DEF FeedAssumption
<1>5. UNCHANGED <<ask, cursor, from, held, kept>>
  BY <1>1 DEF readVars
<1>6. Placed'
  <2>1. cursor # NoCursor => cursor.epoch \in {1, 2} /\ cursor.epoch <= head[Mine].epoch
    BY <1>1 DEF TypeInv, Cursors, Consumer, Placed
  <2>2. cursor # NoCursor => cursor.epoch <= head'[Mine].epoch
    BY <1>4, <2>1
  <2> QED
    BY <1>1, <1>4, <1>5, <2>2 DEF Consumer, Placed
<1>7. Asking'
  <2> SUFFICES ASSUME ask # NoRequest PROVE Asking'
    BY <1>5 DEF Asking
  <2>1. ask.epoch \in {1, 2} /\ ask.epoch <= head[Mine].epoch
    BY <1>1 DEF TypeInv, Requests, Consumer, Asking
  <2>2. ask.epoch <= head'[Mine].epoch
    BY <1>4, <2>1
  <2>3. ask.epoch = head'[Mine].epoch => ask.epoch = head[Mine].epoch /\ Requested' = Requested
    BY <1>4, <1>5, <2>1 DEF Requested
  <2> QED
    BY <1>1, <1>4, <1>5, <2>2, <2>3 DEF Consumer, Asking
<1>8. Abreast' => Abreast /\ ~Retracts(Mine) /\ log'[Mine] = log[Mine]
  <2>1. cursor # NoCursor => cursor.epoch \in {1, 2} /\ cursor.epoch <= head[Mine].epoch
    BY <1>1 DEF TypeInv, Cursors, Consumer, Placed
  <2> QED
    BY <1>4, <1>5, <2>1 DEF Abreast
<1>9. Abreast' => \A i \in Items : Told(i)'
  BY <1>1, <1>5, <1>8 DEF Consumer, Told, Replayed
<1>10. ~(Abreast' /\ kept')
  BY <1>1, <1>5, <1>8 DEF Consumer
<1>11. Consumer'
  BY <1>6, <1>7, <1>9, <1>10 DEF Consumer
<1>12. Disjoint' /\ Database'
  BY <1>1, RedactDatabase DEF Disjoint
<1> QED
  BY <1>1, <1>2, <1>3, <1>11, <1>12 DEF FeedInv

-----------------------------------------------------------------------------
(* The reader.                                                             *)

\* A consumer that starts again has nothing and has been sent nothing.
LEMMA StartAgainInv == ASSUME FeedAssumption, FeedInv, StartAgain PROVE FeedInv'
<1>1. /\ UNCHANGED writeVars /\ ask = NoRequest /\ ask' = ask /\ lost' = lost
      /\ cursor' = NoCursor /\ from' = 0 /\ held' = [i \in Items |-> 0] /\ kept' = FALSE
  BY DEF StartAgain
<1>2. TypeInv'
  BY <1>1 DEF FeedInv, TypeInv, writeVars
<1>3. Consumer'
  BY <1>1 DEF Consumer, Placed, Asking, Abreast
<1> QED
  BY <1>1, <1>2, <1>3, ReadingStands DEF FeedInv

\* A page that is lost leaves no trace.
LEMMA LoseInv == ASSUME FeedAssumption, FeedInv, Lose PROVE FeedInv'
<1>1. /\ UNCHANGED writeVars /\ UNCHANGED <<cursor, from, held, kept>> /\ ask' = NoRequest
      /\ lost < MaxLost /\ lost' = lost + 1
  BY DEF Lose
<1>2. TypeInv'
  <2>1. lost' \in 0 .. MaxLost
    BY <1>1 DEF FeedInv, TypeInv, FeedAssumption
  <2> QED
    BY <1>1, <2>1 DEF FeedInv, TypeInv, writeVars
<1>3. Consumer'
  <2>1. UNCHANGED <<log, head, redacted>>
    BY <1>1 DEF writeVars
  <2>2. Placed'
    BY <1>1, <2>1 DEF FeedInv, Consumer, Placed, LastNumber
  <2>3. Asking'
    BY <1>1 DEF Asking
  <2>4. Abreast' => \A i \in Items : Told(i)'
    BY <1>1, <2>1 DEF FeedInv, Consumer, Abreast, Told, Replayed
  <2>5. Abreast' /\ kept' => ~redacted' /\ Retracts(Mine)'
    BY <1>1, <2>1 DEF FeedInv, Consumer, Abreast, Retracts
  <2> QED
    BY <2>2, <2>3, <2>4, <2>5 DEF Consumer
<1> QED
  BY <1>1, <1>2, <1>3, ReadingStands DEF FeedInv

\* What is asked for starts where the consumer is.
LEMMA ReadHeadInv == ASSUME FeedAssumption, FeedInv, ReadHead PROVE FeedInv'
<1>1. PICK after \in IF cursor = NoCursor THEN {0, LastNumber(Mine)} ELSE {cursor.seq} :
          /\ from' = IF cursor = NoCursor THEN after ELSE from
          /\ ask' = [at |-> "head", epoch |-> head[Mine].epoch, after |-> after,
                     through |-> Through, rows |-> {}]
  BY DEF ReadHead
<1>2. /\ UNCHANGED writeVars /\ UNCHANGED <<cursor, held, kept, lost>> /\ ~Refused
      /\ TypeInv /\ Consumer
  BY DEF ReadHead, FeedInv
<1>3. UNCHANGED <<log, head, redacted>> /\ Mine \in Partitions
  BY <1>2 DEF writeVars, FeedAssumption
<1>4. LastNumber(Mine) \in Nat /\ head[Mine].epoch \in {1, 2} /\ LastNumber(Mine)' = LastNumber(Mine)
  BY <1>2, <1>3, Shapes DEF LastNumber
<1>5. CASE cursor = NoCursor
  <2>1. Through = LastNumber(Mine) /\ after \in Nat /\ after <= LastNumber(Mine)
    BY <1>1, <1>4, <1>5 DEF Through
  <2>2. ask' \in Requests /\ from' \in Nat
    BY <1>1, <1>4, <1>5, <2>1 DEF Requests
  <2>3. TypeInv'
    BY <1>2, <2>2 DEF TypeInv, writeVars
  <2>4. Placed'
    BY <1>2, <1>5 DEF Consumer, Placed
  <2>5. Asking'
    <3>1. /\ ask'.at = "head" /\ ask'.epoch = head[Mine].epoch /\ ask'.after = after
          /\ ask'.through = LastNumber(Mine) /\ ask'.rows = {} /\ from' = after
      BY <1>1, <1>5, <2>1
    <3>2. LastNumber(Mine) <= LastNumber(Mine) /\ head[Mine].epoch <= head[Mine].epoch
      BY <1>4
    <3> QED
      BY <1>2, <1>3, <1>4, <1>5, <2>1, <3>1, <3>2, FS_EmptySet DEF Asking
  <2>6. ~Abreast'
    BY <1>2, <1>5 DEF Abreast
  <2> QED
    BY <1>2, <2>3, <2>4, <2>5, <2>6, ReadingStands DEF FeedInv, Consumer
<1>6. CASE cursor # NoCursor
  <2>1. /\ cursor.seq \in Nat /\ cursor.through \in Nat /\ cursor.epoch = head[Mine].epoch
        /\ cursor.seq <= cursor.through /\ cursor.through <= LastNumber(Mine)
    BY <1>2, <1>6 DEF TypeInv, Cursors, Refused, Consumer, Placed
  <2>2. /\ Through \in Nat /\ after = cursor.seq /\ after <= Through /\ Through <= LastNumber(Mine)
        /\ from' = from
    BY <1>1, <1>4, <1>6, <2>1 DEF Through
  <2>3. ask' \in Requests
    BY <1>1, <1>4, <2>1, <2>2 DEF Requests
  <2>4. TypeInv'
    BY <1>2, <2>2, <2>3 DEF TypeInv, writeVars
  <2>5. Placed'
    BY <1>2, <1>3, <1>4, <2>2 DEF Consumer, Placed
  <2>6. Asking'
    <3>1. /\ ask'.at = "head" /\ ask'.epoch = head[Mine].epoch /\ ask'.after = after
          /\ ask'.through = Through /\ ask'.rows = {}
      BY <1>1
    <3>2. head[Mine].epoch <= head[Mine].epoch
      BY <1>4
    <3> QED
      BY <1>2, <1>3, <1>4, <1>6, <2>1, <2>2, <3>1, <3>2, FS_EmptySet DEF Asking
  <2>7. Abreast' => \A i \in Items : Told(i)'
    BY <1>2, <1>3, <2>2 DEF Consumer, Abreast, Told, Replayed
  <2>8. Abreast' /\ kept' => ~redacted' /\ Retracts(Mine)'
    BY <1>2, <1>3 DEF Consumer, Abreast, Retracts
  <2> QED
    BY <1>2, <2>4, <2>5, <2>6, <2>7, <2>8, ReadingStands DEF FeedInv, Consumer
<1> QED
  BY <1>5, <1>6

\* A page is what comes first of what is wanted, and all of it unless it is full.
LEMMA PageIs ==
    ASSUME FeedAssumption, FeedInv, ask # NoRequest
    PROVE  /\ IsFiniteSet(Page) /\ Page \subseteq Requested /\ Page \subseteq Events
           /\ \A e, f \in Page : e.seq = f.seq => e = f
           /\ ask.epoch = head[Mine].epoch =>
                 /\ \A e \in Page, f \in Requested : f.seq < e.seq => f \in Page
                 /\ Cardinality(Page) < Limit => Page = Requested
<1> DEFINE all == {e \in log[Mine] : e.epoch = ask.epoch /\ ask.after < e.seq /\ e.seq <= ask.through}
           before(e) == {f \in all : f.seq < e.seq}
<1>1. /\ Mine \in Partitions /\ Numbered(Mine) /\ TypeInv /\ Limit \in Nat \ {0}
      /\ \A e \in log[Mine] : e \in Events
  BY Shapes DEF FeedAssumption, FeedInv, Database
<1>2. Page = {e \in all : Cardinality(before(e)) < Limit}
  BY DEF Page
<1>3. IsFiniteSet(all) /\ all \subseteq Requested /\ \A e \in all : e \in Events /\ e.seq \in Nat
  <2>1. IsFiniteSet(log[Mine])
    BY <1>1 DEF Numbered
  <2>2. all \subseteq log[Mine]
    OBVIOUS
  <2> HIDE DEF all
  <2>3. IsFiniteSet(all)
    BY <2>1, <2>2, FS_Subset
  <2>4. all \subseteq Requested
    BY DEF all, Requested
  <2> QED
    BY <1>1, <2>2, <2>3, <2>4, EventIs
<1>4. ask.epoch = head[Mine].epoch => all = Requested
  BY <1>1 DEF Numbered, Requested
<1>5. \A e, f \in Requested : e.seq = f.seq => e = f
  BY <1>1 DEF Numbered, Requested
<1> HIDE DEF all
<1>6. IsFiniteSet(Page) /\ Page \subseteq all
  BY <1>2, <1>3, FS_Subset
<1>7. \A e : IsFiniteSet(before(e)) /\ Cardinality(before(e)) \in Nat
  BY <1>3, FS_Subset, FS_CardinalityType
<1>8. ASSUME NEW e \in Page, NEW f \in all, f.seq < e.seq PROVE f \in Page
  <2>1. before(f) \subseteq before(e)
    BY <1>3, <1>6, <1>8
  <2>2. Cardinality(before(f)) <= Cardinality(before(e))
    BY <1>7, <2>1, FS_Subset
  <2>3. Cardinality(before(e)) < Limit
    BY <1>2
  <2>4. Cardinality(before(f)) < Limit
    <3> HIDE DEF before
    <3>1. Cardinality(before(f)) \in Nat /\ Cardinality(before(e)) \in Nat /\ Limit \in Nat
      BY <1>1, <1>7
    <3> QED
      BY <2>2, <2>3, <3>1
  <2> QED
    BY <1>2, <2>4
<1>9. ASSUME Cardinality(Page) < Limit, Page # all PROVE FALSE
  <2> DEFINE rest == all \ Page
  <2>1. rest # {} /\ \A e \in rest : e.seq \in Nat
    BY <1>3, <1>6, <1>9
  <2>2. PICK e \in rest : \A f \in rest : e.seq <= f.seq
    <3> HIDE DEF rest
    <3> QED
      BY <2>1, FirstOf
  <2>3. before(e) \subseteq Page
    <3> SUFFICES ASSUME NEW f \in all, f.seq < e.seq PROVE f \in Page
      OBVIOUS
    <3>1. f.seq \in Nat /\ e.seq \in Nat
      BY <1>3, <2>1
    <3> QED
      BY <2>2, <3>1
  <2>4. Cardinality(before(e)) <= Cardinality(Page) /\ Cardinality(Page) \in Nat
    BY <1>6, <2>3, FS_Subset, FS_CardinalityType
  <2>5. Cardinality(before(e)) < Limit
    <3> HIDE DEF before
    <3>1. Cardinality(before(e)) \in Nat /\ Limit \in Nat
      BY <1>1, <1>7
    <3> QED
      BY <1>9, <2>4, <3>1
  <2> QED
    BY <1>2, <2>5
<1> QED
  BY <1>3, <1>4, <1>5, <1>6, <1>8, <1>9

\* What is read is a page of what is asked for.
LEMMA ReadRowsInv == ASSUME FeedAssumption, FeedInv, ReadRows PROVE FeedInv'
<1>1. /\ UNCHANGED writeVars /\ UNCHANGED <<cursor, from, held, kept, lost>>
      /\ ask.at = "head" /\ ask' = [ask EXCEPT !.at = "rows", !.rows = Page]
      /\ TypeInv /\ Consumer
  BY DEF ReadRows, FeedInv
<1>2. ask # NoRequest /\ ask \in Requests /\ UNCHANGED <<log, head, redacted>>
  BY <1>1 DEF TypeInv, NoRequest, writeVars
<1>3. /\ IsFiniteSet(Page) /\ Page \subseteq Requested /\ Page \subseteq Events
      /\ \A e, f \in Page : e.seq = f.seq => e = f
      /\ ask.epoch = head[Mine].epoch =>
            /\ \A e \in Page, f \in Requested : f.seq < e.seq => f \in Page
            /\ Cardinality(Page) < Limit => Page = Requested
  BY <1>2, PageIs
<1>4. /\ ask' \in Requests /\ ask'.at = "rows" /\ ask'.rows = Page /\ ask'.epoch = ask.epoch
      /\ ask'.after = ask.after /\ ask'.through = ask.through
  BY <1>1, <1>2, <1>3 DEF Requests
<1>5. TypeInv'
  BY <1>1, <1>4 DEF TypeInv, writeVars
<1>6. LastNumber(Mine)' = LastNumber(Mine) /\ Requested' = Requested
  BY <1>2, <1>4 DEF LastNumber, Requested
<1>7. Asking'
  <2>1. \A e \in Page : ask.after < e.seq /\ e.seq <= ask.through
    BY <1>3 DEF Requested
  <2> QED
    BY <1>1, <1>2, <1>3, <1>4, <1>6, <2>1 DEF Consumer, Asking
<1>8. Placed'
  BY <1>1, <1>2, <1>6 DEF Consumer, Placed
<1>9. Abreast' => \A i \in Items : Told(i)'
  BY <1>1, <1>2 DEF Consumer, Abreast, Told, Replayed
<1>10. Abreast' /\ kept' => ~redacted' /\ Retracts(Mine)'
  BY <1>1, <1>2 DEF Consumer, Abreast, Retracts
<1> QED
  BY <1>1, <1>5, <1>7, <1>8, <1>9, <1>10, ReadingStands DEF FeedInv, Consumer

\* How far the consumer is after a page.
Reached == IF Complete(ask.rows, IF ask.rows = {} THEN ask.after ELSE Latest(ask.rows).seq)
           THEN ask.through
           ELSE IF ask.rows = {} THEN ask.after ELSE Latest(ask.rows).seq

\* A page, in the epoch in which it was asked for, is all there is between where
\* the consumer was and where it is then: completing a sweep skips nothing.
LEMMA ReachedIs ==
    ASSUME FeedAssumption, FeedInv, ask.at = "rows"
    PROVE  /\ Reached \in Nat /\ ask.after <= Reached /\ Reached <= ask.through
           /\ ask.epoch = head[Mine].epoch =>
                 ask.rows = {e \in log[Mine] : ask.after < e.seq /\ e.seq <= Reached}
<1> DEFINE rows == ask.rows
           last == IF rows = {} THEN ask.after ELSE Latest(rows).seq
<1>1. /\ ask # NoRequest /\ ask \in Requests /\ Mine \in Partitions /\ Numbered(Mine)
      /\ Limit \in Nat \ {0} /\ \A e \in log[Mine] : e.seq \in Nat
  BY Shapes, EventIs DEF FeedInv, TypeInv, NoRequest, FeedAssumption, Database
<1>2. /\ ask.after \in Nat /\ ask.through \in Nat /\ ask.after <= ask.through
      /\ IsFiniteSet(rows) /\ \A e \in rows : e.seq \in Nat
      /\ \A e \in rows : ask.after < e.seq /\ e.seq <= ask.through
      /\ \A e, f \in rows : e.seq = f.seq => e = f
      /\ ask.epoch = head[Mine].epoch =>
            /\ rows \subseteq Requested
            /\ \A e \in rows, f \in Requested : f.seq < e.seq => f \in rows
            /\ Cardinality(rows) < Limit => rows = Requested
  <2>1. ask.after \in Nat /\ ask.through \in Nat /\ rows \subseteq Events
    BY <1>1 DEF Requests
  <2> QED
    BY <1>1, <2>1, EventIs DEF FeedInv, Consumer, Asking
<1> HIDE DEF rows
<1>3. rows # {} => \E e \in rows : e.seq = last /\ \A f \in rows : f.seq <= last
  <2> SUFFICES ASSUME rows # {}
               PROVE  \E e \in rows : e.seq = last /\ \A f \in rows : f.seq <= last
    OBVIOUS
  <2>1. PICK e \in rows : \A f \in rows : f.seq <= e.seq
    BY <1>2, LastOf
  <2>2. Latest(rows) = e
    BY <1>2, <2>1, LatestIs
  <2> QED
    BY <2>1, <2>2
<1>4. rows = {} => last = ask.after
  OBVIOUS
<1> HIDE DEF last
<1>5. last \in Nat /\ ask.after <= last /\ last <= ask.through
  BY <1>2, <1>3, <1>4
<1>6. Reached = IF Complete(rows, last) THEN ask.through ELSE last
  BY DEF Reached, rows, last
<1>7. Reached \in Nat /\ ask.after <= Reached /\ Reached <= ask.through
  BY <1>2, <1>5, <1>6
<1>8. ASSUME ask.epoch = head[Mine].epoch
      PROVE  rows = {e \in log[Mine] : ask.after < e.seq /\ e.seq <= Reached}
  <2>1. rows \subseteq log[Mine]
    BY <1>2, <1>8 DEF Requested
  <2>2. CASE Cardinality(rows) < Limit
    <3>1. Reached = ask.through /\ rows = Requested
      BY <1>2, <1>6, <1>8, <2>2 DEF Complete
    <3> QED
      BY <3>1 DEF Requested
  <2>3. CASE ~(Cardinality(rows) < Limit)
    <3>1. Reached = last
      <4>1. last >= ask.through => last = ask.through
        BY <1>2, <1>5
      <4> QED
        BY <1>6, <2>3, <4>1 DEF Complete
    <3>2. rows # {}
      BY <1>1, <2>3, FS_EmptySet
    <3>3. PICK e \in rows : e.seq = last /\ \A f \in rows : f.seq <= last
      BY <1>3, <3>2
    <3>4. ASSUME NEW f \in log[Mine], ask.after < f.seq, f.seq <= last PROVE f \in rows
      <4>1. f.seq \in Nat /\ f.seq <= ask.through
        BY <1>1, <1>2, <1>5, <3>4
      <4>2. f \in Requested
        BY <3>4, <4>1 DEF Requested
      <4>3. CASE f.seq < e.seq
        BY <1>2, <1>8, <4>2, <4>3
      <4>4. CASE f.seq = e.seq
        BY <1>1, <2>1, <4>4 DEF Numbered
      <4> QED
        BY <1>5, <3>3, <3>4, <4>1, <4>3, <4>4
    <3>5. \A f \in rows : ask.after < f.seq /\ f.seq <= last
      BY <1>2, <3>3
    <3> QED
      BY <2>1, <3>1, <3>4, <3>5
  <2> QED
    BY <2>2, <2>3
<1> QED
  BY <1>7, <1>8 DEF rows

\* A row whose source is not to be seen is not, and its last event says so.
LEMMA MaskedIsGone ==
    ASSUME FeedAssumption, FeedInv, NEW e \in log[Mine], ~e.gone, Masked(e.item)
    PROVE  \E f \in log[Mine] : f.item = e.item /\ e.seq < f.seq
<1>1. /\ Mine \in Partitions /\ Mirrored(Mine) /\ Beside /\ e.item \in Items
      /\ \A f \in log[Mine] : f.seq \in Nat
  BY Shapes, EventIs DEF FeedAssumption, FeedInv, Database
<1>2. ~Shown(e.item, Mine)
  BY <1>1 DEF Masked, Shown, Beside
<1>3. ~IsLast(e, log[Mine])
  BY <1>1, <1>2 DEF Mirrored
<1>4. PICK f \in log[Mine] : f.item = e.item /\ ~(f.seq <= e.seq)
  BY <1>3 DEF IsLast
<1> QED
  BY <1>1, <1>4

\* A page that arrives preserves the invariant.
LEMMA RespondInv == ASSUME FeedAssumption, FeedInv, Respond PROVE FeedInv'
<1> DEFINE rows == ask.rows
<1>1. /\ UNCHANGED writeVars /\ UNCHANGED <<from, lost>> /\ ask' = NoRequest /\ ask.at = "rows"
      /\ cursor' = [epoch |-> ask.epoch, through |-> ask.through, seq |-> Reached]
      /\ held' = [i \in Items |->
                      IF Of(i, rows) = {} THEN held[i]
                      ELSE IF Latest(Of(i, rows)).gone THEN 0 ELSE Received(Latest(Of(i, rows)))]
      /\ kept' = (kept \/ \E e \in rows : e.gone /\ Received(e) # 0)
      /\ TypeInv /\ Consumer
  BY DEF Respond, Reached, FeedInv
<1>2. /\ ask # NoRequest /\ ask \in Requests /\ UNCHANGED <<log, head, redacted, row>>
      /\ ask.epoch \in {1, 2} /\ ask.after \in Nat /\ ask.through \in Nat /\ rows \subseteq Events
      /\ Mine \in Partitions /\ IsFiniteSet(rows)
      /\ \A e, f \in rows : e.seq = f.seq => e = f
      /\ \A e \in rows : e.seq \in Nat /\ e.seq <= ask.through
  <2>1. ask # NoRequest /\ ask \in Requests /\ UNCHANGED <<log, head, redacted, row>>
    BY <1>1 DEF TypeInv, NoRequest, writeVars
  <2>2. /\ ask.epoch \in {1, 2} /\ ask.after \in Nat /\ ask.through \in Nat /\ rows \subseteq Events
    BY <2>1 DEF Requests
  <2>3. /\ Mine \in Partitions /\ IsFiniteSet(rows)
        /\ \A e, f \in rows : e.seq = f.seq => e = f
        /\ \A e \in rows : e.seq <= ask.through
    BY <1>1, <2>1 DEF Consumer, Asking, FeedAssumption
  <2> QED
    BY <2>1, <2>2, <2>3, EventIs
<1>3. /\ Reached \in Nat /\ ask.after <= Reached /\ Reached <= ask.through
      /\ ask.epoch = head[Mine].epoch =>
            rows = {e \in log[Mine] : ask.after < e.seq /\ e.seq <= Reached}
  BY <1>1, ReachedIs
<1>4. cursor' \in Cursors /\ cursor' # NoCursor /\ cursor'.epoch = ask.epoch
      /\ cursor'.through = ask.through /\ cursor'.seq = Reached
  BY <1>1, <1>2, <1>3 DEF Cursors, NoCursor
<1> HIDE DEF rows
<1>5. ASSUME NEW i \in Items, Of(i, rows) # {}
      PROVE  \E e \in rows : /\ e.item = i /\ IsLast(e, rows) /\ e \in Events
                             /\ held'[i] = IF e.gone THEN 0 ELSE Received(e)
  <2>1. Of(i, rows) \subseteq rows /\ \A e \in Of(i, rows) : e.item = i
    BY DEF Of
  <2>2. PICK e \in Of(i, rows) : \A f \in Of(i, rows) : f.seq <= e.seq
    <3> DEFINE S == Of(i, rows)
    <3>1. S # {} /\ \A e \in S : e.seq \in Nat /\ e.seq <= ask.through
      BY <1>2, <1>5, <2>1
    <3> HIDE DEF S
    <3>2. \E e \in S : \A f \in S : f.seq <= e.seq
      BY <1>2, <3>1, LastOf
    <3> QED
      BY <3>2 DEF S
  <2>3. Latest(Of(i, rows)) = e
    <3> DEFINE S == Of(i, rows)
    <3>1. /\ e \in S /\ \A f \in S : f.seq \in Nat /\ f.seq <= e.seq
          /\ \A d, f \in S : d.seq = f.seq => d = f
      BY <1>2, <2>1, <2>2
    <3> HIDE DEF S
    <3>2. Latest(S) = e
      BY <3>1, LatestIs
    <3> QED
      BY <3>2 DEF S
  <2>4. IsLast(e, rows)
    BY <2>1, <2>2 DEF IsLast, Of
  <2>5. held'[i] = IF e.gone THEN 0 ELSE Received(e)
    BY <1>1, <1>5, <2>3
  <2> QED
    BY <1>2, <2>1, <2>4, <2>5
<1>6. ASSUME NEW i \in Items, Of(i, rows) = {} PROVE held'[i] = held[i]
  BY <1>1, <1>6
<1>7. TypeInv'
  <2>1. held' \in [Items -> Nat]
    <3>1. ASSUME NEW i \in Items PROVE held'[i] \in Nat
      <4>1. CASE Of(i, rows) = {}
        BY <1>1, <1>6, <4>1 DEF TypeInv
      <4>2. CASE Of(i, rows) # {}
        <5>1. PICK e \in rows : e \in Events /\ held'[i] = IF e.gone THEN 0 ELSE Received(e)
          BY <1>5, <4>2
        <5>2. Received(e) \in Nat
          BY <5>1, EventIs DEF Received
        <5> QED
          BY <5>1, <5>2
      <4> QED
        BY <4>1, <4>2
    <3>2. held' = [i \in Items |-> held'[i]]
      BY <1>1
    <3> QED
      BY <3>1, <3>2
  <2>2. kept' \in BOOLEAN
    BY <1>1 DEF TypeInv
  <2> QED
    BY <1>1, <1>4, <2>1, <2>2 DEF TypeInv, writeVars
<1>8. Placed'
  <2>1. from \in Nat /\ (cursor # NoCursor => cursor.seq \in Nat)
    BY <1>1 DEF TypeInv, Cursors
  <2>2. /\ ask.after = IF cursor = NoCursor THEN from ELSE cursor.seq
        /\ cursor # NoCursor => from <= cursor.seq
        /\ ask.epoch <= head[Mine].epoch /\ ask.through <= LastNumber(Mine)
    BY <1>1, <1>2 DEF Consumer, Asking, Placed
  <2>3. from <= Reached
    BY <1>2, <1>3, <2>1, <2>2
  <2>4. LastNumber(Mine)' = LastNumber(Mine)
    BY <1>2 DEF LastNumber
  <2> QED
    BY <1>1, <1>2, <1>3, <1>4, <2>2, <2>3, <2>4 DEF Placed
<1>9. Asking'
  BY <1>1 DEF Asking
<1>10. ASSUME Abreast'
       PROVE  /\ rows = {e \in log[Mine] : ask.after < e.seq /\ e.seq <= Reached}
              /\ Replayed' = {e \in log[Mine] : from < e.seq /\ e.seq <= Reached}
              /\ cursor = NoCursor => from = ask.after /\ Replayed' = rows /\ ~kept
                                      /\ \A i \in Items : held[i] = 0
              /\ cursor # NoCursor => Abreast /\ Replayed' = Replayed \union rows
                                      /\ cursor.seq = ask.after
  <2>1. ask.epoch = head[Mine].epoch
    BY <1>2, <1>4, <1>10 DEF Abreast
  <2>2. rows = {e \in log[Mine] : ask.after < e.seq /\ e.seq <= Reached}
    BY <1>3, <2>1
  <2>3. Replayed' = {e \in log[Mine] : from < e.seq /\ e.seq <= Reached}
    BY <1>1, <1>2, <1>4 DEF Replayed
  <2>4. CASE cursor = NoCursor
    BY <1>1, <1>2, <2>2, <2>3, <2>4 DEF Consumer, Asking, Placed
  <2>5. CASE cursor # NoCursor
    <3>1. cursor.seq = ask.after /\ ask.epoch = cursor.epoch /\ from <= cursor.seq
      BY <1>1, <1>2, <2>5 DEF Consumer, Asking, Placed
    <3>2. Abreast
      BY <2>1, <2>5, <3>1 DEF Abreast
    <3>3. from \in Nat /\ cursor.seq \in Nat /\ \A e \in log[Mine] : e.seq \in Nat
      BY <1>1, <1>2, <2>5, Shapes, EventIs DEF TypeInv, Cursors
    <3>4. Replayed' = Replayed \union rows
      <4>1. \A e \in log[Mine] : (from < e.seq /\ e.seq <= Reached) <=>
                                   \/ from < e.seq /\ e.seq <= cursor.seq
                                   \/ ask.after < e.seq /\ e.seq <= Reached
        BY <1>2, <1>3, <3>1, <3>3
      <4> QED
        BY <2>2, <2>3, <4>1 DEF Replayed
    <3> QED
      BY <2>2, <2>3, <2>5, <3>1, <3>2, <3>4
  <2> QED
    BY <2>2, <2>3, <2>4, <2>5
<1>11. ASSUME Abreast', NEW i \in Items PROVE Told(i)'
  <2>1. CASE Of(i, rows) = {} /\ cursor = NoCursor
    <3>1. held'[i] = 0 /\ \A e \in Replayed' : e.item # i
      BY <1>6, <1>10, <1>11, <2>1 DEF Of
    <3> QED
      BY <3>1 DEF Told
  <2>2. CASE Of(i, rows) = {} /\ cursor # NoCursor
    <3>1. held'[i] = held[i] /\ Told(i) /\ \A e \in rows : e.item # i
      BY <1>1, <1>6, <1>10, <1>11, <2>2 DEF Of, Consumer
    <3>2. Replayed' = Replayed \union rows
      BY <1>10, <1>11, <2>2
    <3>3. CASE held[i] = 0 /\ \A e \in Replayed : e.item # i
      BY <3>1, <3>2, <3>3 DEF Told
    <3>4. CASE held[i] = 0 /\ \E e \in log[Mine] : e.item = i /\ cursor.seq < e.seq
      <4>1. PICK e \in log[Mine] : e.item = i /\ cursor.seq < e.seq
        BY <3>4
      <4>2. e.seq \in Nat /\ Reached \in Nat
        BY <1>1, <1>2, <1>3, Shapes, EventIs
      <4>3. ~(e.seq <= Reached)
        BY <1>10, <1>11, <2>2, <3>1, <4>1
      <4>4. Reached < e.seq
        BY <4>2, <4>3
      <4> QED
        BY <1>2, <1>4, <3>1, <3>4, <4>1, <4>4 DEF Told
    <3>5. CASE \E e \in Replayed : /\ e.item = i /\ IsLast(e, Replayed)
                                   /\ held[i] = IF e.gone THEN 0 ELSE e.body
      <4>1. PICK e \in Replayed : /\ e.item = i /\ IsLast(e, Replayed)
                                  /\ held[i] = IF e.gone THEN 0 ELSE e.body
        BY <3>5
      <4>2. e \in Replayed' /\ IsLast(e, Replayed')
        BY <3>1, <3>2, <4>1 DEF IsLast
      <4> QED
        BY <3>1, <4>1, <4>2 DEF Told
    <3> QED
      BY <3>1, <3>3, <3>4, <3>5 DEF Told
  <2>3. CASE Of(i, rows) # {}
    <3>1. PICK e \in rows : /\ e.item = i /\ IsLast(e, rows) /\ e \in Events
                            /\ held'[i] = IF e.gone THEN 0 ELSE Received(e)
      BY <1>5, <2>3
    <3>2. e \in log[Mine] /\ ask.after < e.seq /\ e.seq <= Reached
      BY <1>10, <1>11
    <3>3. e \in Replayed' /\ IsLast(e, Replayed')
      <4>1. CASE cursor = NoCursor
        BY <1>10, <1>11, <3>1, <4>1
      <4>2. CASE cursor # NoCursor
        <5>1. Replayed' = Replayed \union rows /\ cursor.seq = ask.after
          BY <1>10, <1>11, <4>2
        <5>2. \A f \in Replayed : f.seq \in Nat /\ f.seq <= ask.after
          BY <1>1, <1>2, <5>1, Shapes, EventIs DEF Replayed
        <5>3. e.seq \in Nat
          BY <1>2
        <5>4. \A f \in Replayed : f.seq <= e.seq
          BY <1>2, <3>2, <5>2, <5>3
        <5> QED
          BY <3>1, <5>1, <5>4 DEF IsLast
      <4> QED
        BY <4>1, <4>2
    <3>4. CASE e.gone \/ ~Masked(i)
      <4>1. held'[i] = IF e.gone THEN 0 ELSE e.body
        BY <3>1, <3>4 DEF Received
      <4> QED
        BY <3>1, <3>3, <4>1 DEF Told
    <3>5. CASE ~e.gone /\ Masked(i)
      <4>1. held'[i] = 0
        BY <3>1, <3>5 DEF Received
      <4>2. PICK f \in log[Mine] : f.item = i /\ e.seq < f.seq
        BY <3>1, <3>2, <3>5, MaskedIsGone
      <4>3. f.seq \in Nat /\ e.seq \in Nat
        BY <1>1, <1>2, Shapes, EventIs
      <4>4. ~(f.seq <= Reached)
        <5> SUFFICES ASSUME f.seq <= Reached PROVE FALSE
          OBVIOUS
        <5>1. ask.after < f.seq
          BY <1>2, <3>2, <4>2, <4>3
        <5>2. f \in rows
          BY <1>10, <1>11, <5>1
        <5>3. f.seq <= e.seq
          BY <3>1, <4>2, <5>2 DEF IsLast
        <5> QED
          BY <4>2, <4>3, <5>3
      <4>5. Reached < f.seq
        BY <1>3, <4>3, <4>4
      <4> QED
        BY <1>2, <1>4, <4>1, <4>2, <4>5 DEF Told
    <3> QED
      BY <3>4, <3>5
  <2> QED
    BY <2>1, <2>2, <2>3
<1>12. ASSUME Abreast', kept' PROVE ~redacted' /\ Retracts(Mine)'
  <2>1. redacted' = redacted /\ (Retracts(Mine)' <=> Retracts(Mine))
    BY <1>2 DEF Retracts
  <2>2. CASE kept
    <3>1. Abreast
      BY <1>10, <1>12, <2>2
    <3> QED
      BY <1>1, <2>1, <2>2, <3>1 DEF Consumer
  <2>3. CASE \E e \in rows : e.gone /\ Received(e) # 0
    <3>1. PICK e \in rows : e.gone /\ Received(e) # 0
      BY <2>3
    <3>2. e \in log[Mine] /\ e.body # 0
      BY <1>10, <1>12, <3>1 DEF Received
    <3> QED
      BY <1>2, <2>1, <3>1, <3>2 DEF FeedInv, Database, Blanked, Retracts
  <2> QED
    BY <1>1, <1>12, <2>2, <2>3
<1>13. Consumer'
  BY <1>8, <1>9, <1>11, <1>12 DEF Consumer
<1> QED
  BY <1>1, <1>7, <1>13, ReadingStands DEF FeedInv

-----------------------------------------------------------------------------
(* The theorems.                                                           *)

\* Each kind of writer finds what its transaction builds on.
LEMMA WritersBegin ==
    ASSUME FeedAssumption, FeedInv, MayBegin, NEW i \in Items,
           \/ Create(i) \/ Update(i) \/ Delete(i) \/ Erase(i)
           \/ \E p \in Partitions : Move(i, p)
    PROVE  FeedInv'
<1>1. row[i].partition \in Partitions
  BY Shapes DEF FeedInv
<1>2. CASE Create(i)
  <2>1. PICK p \in Partitions :
          /\ \A s \in {SourceOf[i]} \ {i, NoSource} : Shown(s, p)
          /\ Begin("create", i, p)
    BY <1>2 DEF Create
  <2>2. row[i].state = "none"
    BY <1>2 DEF Create
  <2> QED
    BY <2>1, <2>2, BeginInv
<1>3. CASE Update(i)
  BY <1>1, <1>3, BeginInv DEF Update
<1>4. CASE Delete(i)
  BY <1>1, <1>4, BeginInv DEF Delete
<1>5. CASE Erase(i)
  BY <1>1, <1>5, BeginInv DEF Erase
<1>6. CASE \E p \in Partitions : Move(i, p)
  <2>1. PICK p \in Partitions : Move(i, p)
    BY <1>6
  <2> QED
    BY <2>1, BeginInv DEF Move
<1> QED
  BY <1>2, <1>3, <1>4, <1>5, <1>6

\* Every step preserves the invariant.
LEMMA NextInv == ASSUME FeedAssumption, FeedInv, [FeedNext]_feedVars PROVE FeedInv'
<1>1. CASE MayBegin /\ \E i \in Items : \/ Create(i) \/ Update(i) \/ Delete(i) \/ Erase(i)
                                        \/ \E p \in Partitions : Move(i, p)
  BY <1>1, WritersBegin
<1>2. CASE \E t \in tx : Statement(t) \/ Commit(t) \/ Rollback(t)
  BY <1>2, StatementInv, CommitInv, RollbackInv
<1>3. CASE Redact
  BY <1>3, RedactInv
<1>4. CASE StartAgain
  BY <1>4, StartAgainInv
<1>5. CASE ReadHead
  BY <1>5, ReadHeadInv
<1>6. CASE ReadRows
  BY <1>6, ReadRowsInv
<1>7. CASE Respond
  BY <1>7, RespondInv
<1>8. CASE Lose
  BY <1>8, LoseInv
<1>9. CASE UNCHANGED feedVars
  <2>1. /\ UNCHANGED <<row, log, head, redacted>> /\ UNCHANGED readVars
        /\ tx' = tx /\ begun' = begun
    BY <1>9 DEF feedVars, readVars
  <2>2. TypeInv' /\ Disjoint'
    BY <2>1 DEF FeedInv, TypeInv, Disjoint, readVars
  <2> QED
    BY <2>1, <2>2, UncommittedStands DEF FeedInv
<1> QED
  BY <1>1, <1>2, <1>3, <1>4, <1>5, <1>6, <1>7, <1>8, <1>9 DEF FeedNext

\* Whatever transactions write, in whatever order their statements interleave
\* and they commit or roll back, and whatever pages are read, lost or refused
\* (drizzle/0029, 0036, 0037, query/change-feed.ts): FeedInv holds.
THEOREM FeedInvariant == FeedSpec => []FeedInv
<1>1. FeedAssumption /\ FeedInit => FeedInv
  BY InitInv
<1>2. FeedAssumption /\ FeedInv /\ [FeedNext]_feedVars => FeedInv'
  BY NextInv
<1> QED
  BY <1>1, <1>2, FeedAssumption, PTL DEF FeedSpec

\* The committed events of every partition are numbered from 1 without gap or
\* duplicate in the epoch of their head, and no row and no head has two writers
\* (drizzle 0029:61, 0037:66).
THEOREM FeedIsTyped == FeedSpec => []FeedTypeOK
<1>1. ASSUME FeedInv PROVE FeedTypeOK
  <2>1. /\ TypeInv /\ Disjoint /\ Consumer /\ \A p \in Partitions : Numbered(p)
    BY <1>1 DEF FeedInv, Database
  <2>2. ASSUME NEW p \in Partitions
        PROVE  /\ head[p].epoch \in {1, 2} /\ head[p].next \in Nat \ {0}
               /\ {e.seq : e \in log[p]} = 1 .. LastNumber(p)
               /\ Cardinality(log[p]) = LastNumber(p)
               /\ \A e \in log[p] : e.item \in Items /\ e.epoch = head[p].epoch
    BY <2>1, Shapes, EventIs DEF Numbered
  <2>3. ask.at \in {"idle", "head", "rows"}
    BY <2>1 DEF TypeInv, Requests, NoRequest
  <2>4. cursor = NoCursor \/ (cursor.seq <= cursor.through /\ from <= cursor.seq)
    BY <2>1 DEF Consumer, Placed
  <2> QED
    BY <2>1, <2>2, <2>3, <2>4 DEF FeedTypeOK, TypeInv, Disjoint
<1> QED
  BY <1>1, FeedInvariant, PTL

\* What the consumer has read of a row last.
LEMMA LastRead ==
    ASSUME FeedInv, FeedAssumption, NEW i \in Items, NEW e \in Replayed, e.item = i, IsLast(e, Replayed)
    PROVE  Latest({f \in Of(i, log[Mine]) : from < f.seq /\ f.seq <= cursor.seq}) = e
<1> DEFINE S == {f \in Of(i, log[Mine]) : from < f.seq /\ f.seq <= cursor.seq}
<1>1. /\ Numbered(Mine) /\ \A f \in log[Mine] : f.seq \in Nat
  BY Shapes, EventIs DEF FeedInv, Database, FeedAssumption
<1>2. S \subseteq log[Mine] /\ S \subseteq Replayed /\ e \in S /\ \A f \in S : f.item = e.item
  BY DEF Of, Replayed
<1> HIDE DEF S
<1>3. /\ \A f \in S : f.seq \in Nat /\ f.seq <= e.seq
      /\ \A d, f \in S : d.seq = f.seq => d = f
  BY <1>1, <1>2 DEF IsLast, Numbered
<1>4. Latest(S) = e
  BY <1>2, <1>3, LatestIs
<1> QED
  BY <1>4 DEF S

\* No event is ever committed behind a cursor, and none that is masked is needed
\* again: of every row a consumer has what the last event it has read says, or
\* nothing and more to read (query/change-feed.ts, docs/sdk-consumer-migration.md:156).
THEOREM NothingIsMissed == FeedSpec => []NothingMissed
<1>1. ASSUME FeedInv, FeedAssumption PROVE NothingMissed
  <2> SUFFICES ASSUME cursor # NoCursor, cursor.epoch = head[Mine].epoch, NEW i \in Items
               PROVE  LET read  == {e \in Of(i, log[Mine]) : from < e.seq /\ e.seq <= cursor.seq}
                          later == {e \in Of(i, log[Mine]) : cursor.seq < e.seq}
                          told  == IF read = {} THEN 0
                                   ELSE IF Latest(read).gone THEN 0 ELSE Latest(read).body
                      IN  held[i] # told =>
                              held[i] = 0 /\ (later # {} \/ Masked(i))
    BY DEF NothingMissed
  <2> DEFINE read  == {e \in Of(i, log[Mine]) : from < e.seq /\ e.seq <= cursor.seq}
             later == {e \in Of(i, log[Mine]) : cursor.seq < e.seq}
             told  == IF read = {} THEN 0
                      ELSE IF Latest(read).gone THEN 0 ELSE Latest(read).body
  <2>1. Told(i)
    BY <1>1 DEF FeedInv, Consumer, Abreast
  <2>2. CASE held[i] = 0 /\ \A e \in Replayed : e.item # i
    <3>1. read = {}
      BY <2>2 DEF Replayed, Of
    <3> QED
      BY <2>2, <3>1
  <2>3. CASE held[i] = 0 /\ \E e \in log[Mine] : e.item = i /\ cursor.seq < e.seq
    <3>1. later # {}
      BY <2>3 DEF Of
    <3> QED
      BY <2>3, <3>1
  <2>4. CASE \E e \in Replayed : /\ e.item = i /\ IsLast(e, Replayed)
                                 /\ held[i] = IF e.gone THEN 0 ELSE e.body
    <3>1. PICK e \in Replayed : /\ e.item = i /\ IsLast(e, Replayed)
                                /\ held[i] = IF e.gone THEN 0 ELSE e.body
      BY <2>4
    <3>2. Latest(read) = e
      BY <1>1, <3>1, LastRead
    <3>3. e \in read
      BY <3>1 DEF Replayed, Of
    <3> HIDE DEF read, later
    <3>4. held[i] = told
      BY <3>1, <3>2, <3>3
    <3> QED
      BY <3>4 DEF read, later
  <2> QED
    BY <2>1, <2>2, <2>3, <2>4 DEF Told
<1> QED
  BY <1>1, FeedAssumption, FeedInvariant, PTL

\* A consumer that has read the feed from the beginning to its end has the rows
\* that are committed in its partition, at their version, and no other.
THEOREM CaughtUpConsumersAreCurrent == FeedSpec => []CaughtUpIsCurrent
<1>1. ASSUME FeedInv, FeedAssumption PROVE CaughtUpIsCurrent
  <2> SUFFICES ASSUME CaughtUp, from = 0, NEW i \in Items
               PROVE  held[i] = IF Shown(i, Mine) THEN row[i].version ELSE 0
    BY DEF CaughtUpIsCurrent
  <2>1. /\ Numbered(Mine) /\ Mirrored(Mine) /\ LastNumber(Mine) \in Nat
        /\ \A e \in log[Mine] : e.seq \in Nat /\ e.item \in Items
    BY <1>1, Shapes, EventIs DEF FeedInv, Database, FeedAssumption
  <2>2. Told(i) /\ cursor.seq = LastNumber(Mine)
    BY <1>1 DEF FeedInv, Consumer, Abreast, CaughtUp
  <2>3. Replayed = log[Mine]
    <3>1. \A e \in log[Mine] : e.seq \in 1 .. LastNumber(Mine)
      BY <2>1 DEF Numbered
    <3>2. \A e \in log[Mine] : 0 < e.seq /\ e.seq <= LastNumber(Mine)
      BY <2>1, <3>1
    <3> QED
      BY <2>2, <3>2 DEF Replayed
  <2>4. \A e, f \in log[Mine] :
           IsLast(e, log[Mine]) /\ IsLast(f, log[Mine]) /\ e.item = f.item => e = f
    <3> SUFFICES ASSUME NEW e \in log[Mine], NEW f \in log[Mine],
                        IsLast(e, log[Mine]), IsLast(f, log[Mine]), e.item = f.item
                 PROVE  e = f
      OBVIOUS
    <3>1. e.seq \in Nat /\ f.seq \in Nat /\ e.seq <= f.seq /\ f.seq <= e.seq
      BY <2>1 DEF IsLast
    <3>2. e.seq = f.seq
      BY <3>1
    <3> QED
      BY <2>1, <3>2 DEF Numbered
  <2>5. Shown(i, Mine) =>
          \E e \in log[Mine] : e.item = i /\ IsLast(e, log[Mine]) /\ ~e.gone /\ e.body = row[i].version
    BY <2>1 DEF Mirrored
  <2>6. CASE held[i] = 0 /\ \A e \in Replayed : e.item # i
    BY <2>3, <2>5, <2>6
  <2>7. CASE held[i] = 0 /\ \E e \in log[Mine] : e.item = i /\ cursor.seq < e.seq
    <3>1. PICK e \in log[Mine] : cursor.seq < e.seq
      BY <2>7
    <3>2. e.seq <= cursor.seq
      BY <2>3 DEF Replayed
    <3> QED
      BY <2>1, <2>2, <3>1, <3>2
  <2>8. CASE \E e \in Replayed : /\ e.item = i /\ IsLast(e, Replayed)
                                 /\ held[i] = IF e.gone THEN 0 ELSE e.body
    <3>1. PICK e \in log[Mine] : /\ e.item = i /\ IsLast(e, log[Mine])
                                 /\ held[i] = IF e.gone THEN 0 ELSE e.body
      BY <2>3, <2>8
    <3>2. CASE Shown(i, Mine)
      BY <2>4, <2>5, <3>1, <3>2
    <3>3. CASE ~Shown(i, Mine)
      <4>1. e.gone
        BY <2>1, <3>1, <3>3 DEF Mirrored
      <4> QED
        BY <3>1, <3>3, <4>1
    <3> QED
      BY <3>2, <3>3
  <2> QED
    BY <2>2, <2>6, <2>7, <2>8 DEF Told
<1> QED
  BY <1>1, FeedAssumption, FeedInvariant, PTL

\* Once 0036 has blanked the feed, the cursor of a consumer that was sent what a
\* retracted row said is refused (drizzle/0036).
THEOREM RetractedBodiesGo == FeedSpec => []RetractedBodiesAreDropped
<1>1. ASSUME FeedInv PROVE RetractedBodiesAreDropped
  BY <1>1 DEF FeedInv, Consumer, Abreast, RetractedBodiesAreDropped
<1> QED
  BY <1>1, FeedInvariant, PTL
=============================================================================
