----------------------------- MODULE ChangeFeed -----------------------------
(***************************************************************************)
(* The lifecycle feed: triggers turn every change of a source, claim or    *)
(* node into events of the partition it is in, numbered under the lock of  *)
(* the partition's head, and one consumer replays the feed of one          *)
(* partition page by page (drizzle/0029, 0036, 0037, query/change-feed.ts).*)
(*                                                                         *)
(* A writing transaction is a step per statement, with the heads and rows  *)
(* it has locked, and a commit or a rollback.  The reader runs outside any *)
(* transaction: head, events, and the sources that are still visible are   *)
(* three reads, each of what is committed at that moment.                  *)
(*                                                                         *)
(* The body of an event is the version of the row it describes, 0 when it  *)
(* has none.  A commitment event shadows its claim's, those of ingestion   *)
(* and freshness their source's; they are left out, as are redirects,      *)
(* source links and the restoring of an erased source.                     *)
(***************************************************************************)
EXTENDS Naturals, FiniteSets

CONSTANTS
    Items,       \* rows that are fed: sources, claims, nodes
    SourceOf,    \* a source is its own, a claim has one, a node NoSource
    NoSource,
    Partitions,
    Mine,        \* the partition the consumer replays
    Limit,       \* events on a page
    MaxOpen,     \* writing transactions at the same time
    MaxBegun,    \* and ever
    MaxLost      \* pages that never reach the consumer

\* What the constants are assumed to be.
ASSUME FeedAssumption ==
    /\ IsFiniteSet(Items) /\ Limit \in Nat \ {0} /\ Mine \in Partitions
    /\ MaxOpen \in Nat /\ MaxBegun \in Nat /\ MaxLost \in Nat
    /\ SourceOf \in [Items -> Items \union {NoSource}] /\ NoSource \notin Items
    /\ \A i \in Items : SourceOf[i] # NoSource => SourceOf[SourceOf[i]] = SourceOf[i]

VARIABLES
    row,       \* the committed rows
    log,       \* memory_change_feed_events, by partition
    head,      \* memory_change_feed_heads, by partition
    tx,        \* the writing transactions under way
    begun,     \* how many there ever were
    redacted,  \* whether migration 0036 has run
    ask,       \* the request being answered
    cursor,    \* the cursor the consumer will send
    from,      \* the sequence after which its projection starts
    held,      \* its projection
    kept,      \* whether it was ever sent the body of a retracted row
    lost       \* pages lost so far

writeVars == <<row, log, head, tx, begun, redacted>>
readVars == <<ask, cursor, from, held, kept, lost>>
feedVars == <<row, log, head, tx, begun, redacted, ask, cursor, from, held, kept, lost>>

-----------------------------------------------------------------------------
Rows == [state : {"none", "live", "gone"}, partition : Partitions, version : Nat]

IsSource(i) == SourceOf[i] = i
ClaimsOf(s) == {i \in Items : SourceOf[i] = s /\ i # s}

\* What a transaction's statements have left of a row they do not change.
Untouched == [state |-> "untouched"]

\* What is visible to a reader of partition p.
Shown(i, p) == row[i].state = "live" /\ row[i].partition = p

NoCursor == [epoch |-> 0]
NoRequest == [at |-> "idle"]

LastNumber(p) == head[p].next - 1

\* Committed events of a partition are numbered from 1 without gap or
\* duplicate, in the epoch of their head, and a row or a head is written by
\* one transaction at a time.  Drizzle 0029:61, 0037:66.
FeedTypeOK ==
    /\ row \in [Items -> Rows]
    /\ \A p \in Partitions :
          /\ head[p].epoch \in {1, 2} /\ head[p].next \in Nat \ {0}
          /\ {e.seq : e \in log[p]} = 1 .. LastNumber(p)
          /\ Cardinality(log[p]) = LastNumber(p)
          /\ \A e \in log[p] : e.item \in Items /\ e.epoch = head[p].epoch
    /\ \A t, u \in tx : t # u => /\ t.locked \cap u.locked = {}
                                 /\ t.heads \cap u.heads = {}
    /\ Cardinality(tx) <= MaxOpen /\ begun \in 0 .. MaxBegun
    /\ ask.at \in {"idle", "head", "rows"}
    /\ cursor = NoCursor \/ (cursor.seq <= cursor.through /\ from <= cursor.seq)
    /\ held \in [Items -> Nat]
    /\ redacted \in BOOLEAN /\ kept \in BOOLEAN /\ lost \in 0 .. MaxLost

Blank == [state |-> "none", partition |-> Mine, version |-> 0]

FeedInit ==
    /\ row = [i \in Items |-> Blank]
    /\ log = [p \in Partitions |-> {}]
    /\ head = [p \in Partitions |-> [epoch |-> 1, next |-> 1]]
    /\ tx = {}
    /\ begun = 0
    /\ redacted = FALSE
    /\ ask = NoRequest
    /\ cursor = NoCursor
    /\ from = 0
    /\ held = [i \in Items |-> 0]
    /\ kept = FALSE
    /\ lost = 0

-----------------------------------------------------------------------------
(* Writers.                                                                *)

\* What t's own statements have left of a row.
Mid(t, i) == IF t.rows[i] = Untouched THEN row[i] ELSE t.rows[i]

Free(others, is) == \A u \in others : u.locked \cap is = {}

\* A head is its holder's until the transaction ends.
FreeHeads(others, ps) == \A u \in others : u.heads \cap ps = {}

\* Row locks come with the statements; a source is locked before its claims
\* are looked at, and before a claim of it is inserted.
Begin(kind, i, to) ==
    LET is == IF kind = "create" THEN {i, SourceOf[i]} \ {NoSource} ELSE {i} IN
    /\ Free(tx, is)
    /\ tx' = tx \union {[kind |-> kind, item |-> i, to |-> to, statements |-> 0,
                         locked |-> is, heads |-> {},
                         rows |-> [j \in Items |-> Untouched],
                         out |-> [p \in Partitions |-> {}]]}
    /\ begun' = begun + 1
    /\ UNCHANGED <<row, log, head, redacted, readVars>>

MayBegin == begun < MaxBegun /\ Cardinality(tx) < MaxOpen

\* A claim is inserted where its source is.
Create(i) ==
    /\ row[i].state = "none"
    /\ \E p \in Partitions :
          /\ \A s \in {SourceOf[i]} \ {i, NoSource} : Shown(s, p)
          /\ Begin("create", i, p)

Update(i) == row[i].state = "live" /\ Begin("update", i, row[i].partition)

Delete(i) == ~IsSource(i) /\ row[i].state = "live" /\ Begin("delete", i, row[i].partition)

Erase(s) == IsSource(s) /\ row[s].state = "live" /\ Begin("erase", s, row[s].partition)

Move(s, p) == /\ IsSource(s) /\ row[s].state = "live" /\ row[s].partition # p
              /\ Begin("move", s, p)

\* The rows a transaction's next statement changes: an erasure deletes the
\* claims of a source and then blanks it, a move takes the source first.
Target(t) ==
    LET claims == {i \in ClaimsOf(t.item) : row[i].state = "live"}
    IN  CASE t.kind = "erase" -> IF t.statements = 0 THEN claims ELSE {t.item}
          [] t.kind = "move"  -> IF t.statements = 0 THEN {t.item} ELSE claims
          [] OTHER            -> {t.item}

Statements(t) == IF t.kind \in {"erase", "move"} THEN 2 ELSE 1

Changed(t, i) ==
    CASE t.kind = "create" -> [state |-> "live", partition |-> t.to, version |-> 1]
      [] t.kind = "update" -> [row[i] EXCEPT !.version = @ + 1]
      [] t.kind = "move"   -> [row[i] EXCEPT !.partition = t.to]
      [] OTHER             -> [row[i] EXCEPT !.state = "gone"]

\* A retraction carries the old row, until 0036 blanks it.
Tombstone(i) ==
    [item |-> i, gone |-> TRUE, body |-> IF redacted THEN 0 ELSE row[i].version]

Snapshot(i, new) == [item |-> i, gone |-> FALSE, body |-> new.version]

\* Slip: a row is fed to the partition it ends up in and to no other.
NewPartitionOnly(t, i) ==
    LET new == Changed(t, i)
    IN  {<<new.partition, IF new.state = "gone" THEN Tombstone(i) ELSE Snapshot(i, new)>>}

\* emit_memory_change_feed_event: a row that changes partition is retracted
\* from the old one and shown to the new one.
Emit(t, i) ==
    LET new == Changed(t, i) IN
    CASE new.state = "gone" -> {<<new.partition, Tombstone(i)>>}
      [] t.kind = "move"    -> {<<row[i].partition, Tombstone(i)>>,
                                <<new.partition, Snapshot(i, new)>>}
      [] OTHER              -> {<<new.partition, Snapshot(i, new)>>}

\* SELECT ... FOR UPDATE of the heads.
HeadsAfter(t, ps) == t.heads \union ps

\* One statement and the flush behind it: its events are numbered after the
\* head's next and what the transaction has numbered before, in the order in
\* which the rows were met.
Statement(t) ==
    LET is      == Target(t)
        news    == UNION {Emit(t, i) : i \in is}
        ps      == {n[1] : n \in news}
        mine(p) == {n[2] : n \in {m \in news : m[1] = p}}
        base(p) == head[p].next + Cardinality(t.out[p])
    IN  /\ t.statements < Statements(t)
        /\ Free(tx \ {t}, is) /\ FreeHeads(tx \ {t}, ps)
        /\ \E rank \in [is -> 1 .. Cardinality(is)] :
              /\ {rank[i] : i \in is} = 1 .. Cardinality(is)
              /\ tx' = (tx \ {t}) \union
                    {[t EXCEPT
                        !.statements = @ + 1,
                        !.locked = @ \union is,
                        !.heads = HeadsAfter(t, ps),
                        !.rows = [i \in Items |-> IF i \in is THEN Changed(t, i) ELSE @[i]],
                        !.out = [p \in Partitions |-> @[p] \union
                            {[seq |-> base(p) + rank[n.item] - 1, epoch |-> head[p].epoch,
                              item |-> n.item, gone |-> n.gone, body |-> n.body]
                               : n \in mine(p)}]]}
        /\ UNCHANGED <<row, log, head, begun, redacted, readVars>>

Advanced(t) == [p \in Partitions |-> [head[p] EXCEPT !.next = @ + Cardinality(t.out[p])]]

Commit(t) ==
    /\ t.statements = Statements(t)
    /\ row' = [i \in Items |-> Mid(t, i)]
    /\ log' = [p \in Partitions |-> log[p] \union t.out[p]]
    /\ head' = Advanced(t)
    /\ tx' = tx \ {t}
    /\ UNCHANGED <<begun, redacted, readVars>>

\* An error or a crash: the head's number rolls back with the rest.
Rollback(t) ==
    /\ tx' = tx \ {t}
    /\ UNCHANGED <<row, log, head, begun, redacted, readVars>>

Retracts(p) == \E e \in log[p] : e.gone

\* Slip: the bodies go, the epoch stays.
SameEpoch(p) == head[p].epoch

NewEpoch(p) == IF Retracts(p) THEN head[p].epoch + 1 ELSE head[p].epoch

\* Migration 0036, in one transaction that holds the events table alone.
Redact ==
    /\ ~redacted
    /\ \A t \in tx : t.heads = {}
    /\ redacted' = TRUE
    /\ log' = [p \in Partitions |->
                 {[e EXCEPT !.epoch = NewEpoch(p), !.body = IF e.gone THEN 0 ELSE @] :
                    e \in log[p]}]
    /\ head' = [p \in Partitions |-> [head[p] EXCEPT !.epoch = NewEpoch(p)]]
    /\ UNCHANGED <<row, tx, begun, readVars>>

-----------------------------------------------------------------------------
(* The reader and its consumer.                                            *)

\* Slip: a checkpoint at the very end is taken for one past it.
EndRefused == /\ cursor # NoCursor
              /\ \/ cursor.epoch # head[Mine].epoch
                 \/ cursor.through >= LastNumber(Mine)

Refused == /\ cursor # NoCursor
           /\ \/ cursor.epoch # head[Mine].epoch
              \/ cursor.through > LastNumber(Mine)
              \/ cursor.seq > cursor.through

\* A refused cursor is dropped and the projection rebuilt.
StartAgain ==
    /\ ask = NoRequest
    /\ Refused
    /\ cursor' = NoCursor
    /\ from' = 0
    /\ held' = [i \in Items |-> 0]
    /\ kept' = FALSE
    /\ UNCHANGED <<writeVars, ask, lost>>

\* A sweep keeps the watermark of its first page.
Through == IF cursor = NoCursor \/ cursor.seq = cursor.through
           THEN LastNumber(Mine) ELSE cursor.through

\* A first request replays everything, or asks for what comes from now on.
ReadHead ==
    /\ ask = NoRequest
    /\ ~Refused
    /\ \E after \in IF cursor = NoCursor THEN {0, LastNumber(Mine)} ELSE {cursor.seq} :
          /\ from' = IF cursor = NoCursor THEN after ELSE from
          /\ ask' = [at |-> "head", epoch |-> head[Mine].epoch, after |-> after,
                     through |-> Through, rows |-> {}]
    /\ UNCHANGED <<writeVars, cursor, held, kept, lost>>

\* The events asked for, at most a page of them.
Page ==
    LET all == {e \in log[Mine] : /\ e.epoch = ask.epoch
                                  /\ ask.after < e.seq /\ e.seq <= ask.through}
    IN  {e \in all : Cardinality({f \in all : f.seq < e.seq}) < Limit}

ReadRows ==
    /\ ask.at = "head"
    /\ ask' = [ask EXCEPT !.at = "rows", !.rows = Page]
    /\ UNCHANGED <<writeVars, cursor, from, held, kept, lost>>


Latest(rows) == CHOOSE e \in rows : \A f \in rows : f.seq <= e.seq

Of(i, rows) == {e \in rows : e.item = i}

\* Events of a source that is not, or no longer, visible here lose their body.
Masked(i) == SourceOf[i] # NoSource /\ ~Shown(SourceOf[i], Mine)

Received(e) == IF Masked(e.item) THEN 0 ELSE e.body

\* Slip: a full page is taken for the last.
AlwaysLast(rows, last) == TRUE

Complete(rows, last) == last >= ask.through \/ Cardinality(rows) < Limit

\* The third read, the answer, and the consumer's own transaction: projection
\* and cursor move together.  A completed sweep leaves its watermark behind.
Respond ==
    LET rows == ask.rows
        last == IF rows = {} THEN ask.after ELSE Latest(rows).seq
    IN  /\ ask.at = "rows"
        /\ cursor' = [epoch |-> ask.epoch, through |-> ask.through,
                      seq |-> IF Complete(rows, last) THEN ask.through ELSE last]
        /\ held' = [i \in Items |->
                      IF Of(i, rows) = {} THEN held[i]
                      ELSE LET e == Latest(Of(i, rows))
                           IN  IF e.gone THEN 0 ELSE Received(e)]
        /\ kept' = (kept \/ \E e \in rows : e.gone /\ Received(e) # 0)
        /\ ask' = NoRequest
        /\ UNCHANGED <<writeVars, from, lost>>

Lose ==
    /\ ask # NoRequest /\ lost < MaxLost
    /\ ask' = NoRequest
    /\ lost' = lost + 1
    /\ UNCHANGED <<writeVars, cursor, from, held, kept>>

FeedNext ==
    \/ /\ MayBegin
       /\ \E i \in Items : \/ Create(i)
                           \/ Update(i)
                           \/ Delete(i)
                           \/ Erase(i)
                           \/ \E p \in Partitions : Move(i, p)
    \/ \E t \in tx : Statement(t) \/ Commit(t) \/ Rollback(t)
    \/ Redact
    \/ StartAgain \/ ReadHead \/ ReadRows \/ Respond \/ Lose

FeedSpec == FeedInit /\ [][FeedNext]_feedVars

\* The consumer keeps asking and is answered; nothing makes writers write.
FeedFairSpec == /\ FeedSpec
            /\ WF_feedVars(StartAgain) /\ WF_feedVars(ReadHead)
            /\ WF_feedVars(ReadRows) /\ WF_feedVars(Respond)

-----------------------------------------------------------------------------
(* Properties.                                                             *)

\* A consumer that has replayed up to its cursor has, for every row, what the
\* last event up to there says.  It has nothing instead only where the row's
\* source is not to be seen here, or where a later event will tell: no event
\* is committed behind a cursor, and none that is masked is needed again.
\* docs/sdk-consumer-migration.md:156-167.
NothingMissed ==
    cursor # NoCursor /\ cursor.epoch = head[Mine].epoch =>
        \A i \in Items :
            LET read  == {e \in Of(i, log[Mine]) : from < e.seq /\ e.seq <= cursor.seq}
                later == {e \in Of(i, log[Mine]) : cursor.seq < e.seq}
                told  == IF read = {} THEN 0
                         ELSE IF Latest(read).gone THEN 0 ELSE Latest(read).body
            IN  held[i] # told =>
                    held[i] = 0 /\ (later # {} \/ Masked(i))

CaughtUp == /\ cursor # NoCursor
            /\ cursor.epoch = head[Mine].epoch
            /\ cursor.seq = LastNumber(Mine)

\* A consumer that started at the beginning and has reached the end holds the
\* rows of its partition, at their version, and no other: whatever moved in
\* or out, and in whatever order transactions wrote and ended.
CaughtUpIsCurrent ==
    CaughtUp /\ from = 0 =>
        \A i \in Items : held[i] = IF Shown(i, Mine) THEN row[i].version ELSE 0

\* A consumer that was sent what a retracted row said must rebuild once 0036
\* has blanked the feed: its cursor, and that of a page under way, is refused.
RetractedBodiesAreDropped ==
    redacted /\ kept => cursor = NoCursor \/ cursor.epoch # head[Mine].epoch
=============================================================================
