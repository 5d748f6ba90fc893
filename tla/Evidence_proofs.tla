--------------------------- MODULE Evidence_proofs ---------------------------
(***************************************************************************)
(* Proofs about ClaimLifecycle, for any tasks, callers and claims; and     *)
(* about SourceTree and ClaimLifecycle side by side, as MCEvidence has     *)
(* them.                                                                   *)
(***************************************************************************)
EXTENDS MCEvidence, SourceTree_proofs, FiniteSetTheorems, WellFoundedInduction, TLAPS

-----------------------------------------------------------------------------
(* The inductive invariant.                                                *)

Statuses == {"active", "superseded", "retracted", "contradicted", "deleted"}

ClaimRows == [subject : Subjects, said : Statements, stated : Times,
              by : 0 .. MaxClaims, dated : BOOLEAN, status : Statuses]

Calls == [at : {"idle", "pass", "write"}, topic : Topics \union {Nothing},
          plan : SUBSET Update, clean : BOOLEAN]

ClaimTypeInv ==
    /\ claim \in Seq(ClaimRows) /\ Len(claim) <= MaxClaims
    /\ call \in [Callers -> Calls] /\ calm \subseteq Topics
    /\ \A p \in Callers : call[p].at # "idle" => call[p].topic \in Topics

\* A pointer leads to a claim of the same subject: to one of the same topic, which
\* from a user's own statement is not an inferred one without progress; or from a
\* date that is not the user's to a status.
Leads(i, j) ==
    /\ j \in Claims
    /\ claim[j].subject = claim[i].subject
    /\ \/ /\ claim[j].said.about = claim[i].said.about
          /\ claim[i].said.kind = "user" /\ claim[j].said.kind = "inferred" => Progress(j)
       \/ /\ claim[i].said.about = "due" /\ claim[j].said.about = "status"
          /\ claim[i].said.kind # "user"

Linked ==
    \A i \in Claims : claim[i].by # 0 =>
        Leads(i, claim[i].by) /\ claim[claim[i].by].status # "deleted"

\* What a pass is about to write, however long ago it read: a claim of its
\* topic, and a pointer as good as those that are there.
PlanIsSound(p) ==
    call[p].at = "write" => \A u \in call[p].plan :
        /\ u.id \in Claims /\ Topic(u.id) = call[p].topic
        /\ u.by # 0 => Leads(u.id, u.by)

\* A pass that nothing disturbed since it read has left to write what differs
\* from a settlement that it could still come to.
CleanPlanIsComplete(p) ==
    call[p].at = "write" /\ call[p].clean => \A t \in Topics : call[p].topic = t =>
        \E settlement \in Settlements(t) :
            call[p].plan \subseteq settlement /\ Differing(settlement) \subseteq call[p].plan

\* After such a pass nothing differs.
CalmIsDone == \A t \in calm : \E settlement \in Settlements(t) : Differing(settlement) = {}

ClaimInv ==
    /\ ClaimTypeInv /\ Linked
    /\ \A p \in Callers : PlanIsSound(p) /\ CleanPlanIsComplete(p)
    /\ CalmIsDone

-----------------------------------------------------------------------------
(* Rows.                                                                   *)

\* What a row consists of.
LEMMA RowShape ==
    ASSUME claim \in Seq(ClaimRows), NEW i \in Claims
    PROVE  /\ claim[i] \in ClaimRows
           /\ claim[i].subject \in Subjects /\ claim[i].said \in Statements
           /\ claim[i].stated \in Times /\ claim[i].status \in Statuses
           /\ claim[i].by \in 0 .. MaxClaims /\ claim[i].dated \in BOOLEAN
<1>1. claim[i] \in ClaimRows
  <2> HIDE DEF ClaimRows
  <2> QED
    BY DEF Claims
<1> QED
  BY <1>1 DEF ClaimRows

\* What a statement consists of, and what replaces one that is given to another
\* subject.
LEMMA StatementShape ==
    ASSUME NEW w \in Statements
    PROVE  /\ w.about \in {"status", "due"} /\ w.kind \in {"user", "sourced", "inferred"}
           /\ w.mail \in Nat /\ w.sign \in {"none", "progress", "removal"}
           /\ w.sign # "none" => w.about = "status" /\ w.mail # 0
           /\ [w EXCEPT !.kind = "user"] \in Statements
           /\ [w EXCEPT !.kind = "user"].about = w.about /\ [w EXCEPT !.kind = "user"].kind = "user"
BY ClaimAssumption DEF Statements

\* A claim's topic is one.
LEMMA TopicShape ==
    ASSUME claim \in Seq(ClaimRows), NEW i \in Claims
    PROVE  Topic(i) \in Topics
BY RowShape, StatementShape DEF Topic, Topics

\* Claims are numbered from one, without gaps.
LEMMA ClaimNumbers ==
    ASSUME claim \in Seq(ClaimRows)
    PROVE  /\ Len(claim) \in Nat /\ Claims \subseteq Nat /\ 0 \notin Claims
           /\ DOMAIN claim = Claims /\ claim \in [Claims -> ClaimRows]
BY DEF Claims

\* A row that is replaced leaves the others and their numbers alone.
LEMMA RowReplaced ==
    ASSUME claim \in Seq(ClaimRows), NEW i \in Claims, NEW row \in ClaimRows,
           claim' = [claim EXCEPT ![i] = row]
    PROVE  /\ claim' \in Seq(ClaimRows) /\ Len(claim') = Len(claim) /\ Claims' = Claims
           /\ claim'[i] = row /\ \A j \in Claims \ {i} : claim'[j] = claim[j]
<1> HIDE DEF ClaimRows
<1> QED
  BY DEF Claims

\* A row that is added comes after the others.
LEMMA RowAdded ==
    ASSUME NEW rows \in Seq(ClaimRows), NEW row \in ClaimRows, claim' = Append(rows, row)
    PROVE  /\ claim' \in Seq(ClaimRows) /\ Len(claim') = Len(rows) + 1
           /\ Claims' = (1 .. Len(rows)) \union {Len(rows) + 1}
           /\ claim'[Len(rows) + 1] = row /\ \A j \in 1 .. Len(rows) : claim'[j] = rows[j]
<1> HIDE DEF ClaimRows
<1> QED
  BY DEF Claims

\* The claims a pass reads; there are finitely many.
LEMMA LiveClaimsAre ==
    ASSUME NEW t
    PROVE  /\ \A i : i \in LiveClaims(t) <=>
                  i \in Claims /\ Topic(i) = t /\ claim[i].status \in {"active", "superseded"}
           /\ LiveClaims(t) \subseteq Claims
           /\ ClaimTypeInv => IsFiniteSet(LiveClaims(t)) /\ Cardinality(LiveClaims(t)) \in Nat
<1>1. \A i : i \in LiveClaims(t) <=>
         i \in Claims /\ Topic(i) = t /\ claim[i].status \in {"active", "superseded"}
  BY DEF LiveClaims, Of
<1>2. ASSUME ClaimTypeInv PROVE IsFiniteSet(LiveClaims(t))
  <2>1. Len(claim) \in Nat
    BY <1>2, ClaimNumbers DEF ClaimTypeInv
  <2>2. IsFiniteSet(Claims)
    BY <2>1, FS_Interval DEF Claims
  <2> QED
    BY <1>1, <2>2, FS_Subset
<1> QED
  BY <1>1, <1>2, FS_CardinalityType

-----------------------------------------------------------------------------
(* The order of a topic's claims.                                          *)

\* A finite set that is ordered has a last element.
LEMMA OrderHasLast ==
    ASSUME NEW S, IsFiniteSet(S), S # {}, NEW R,
           \A x \in S : <<x, x>> \notin R,
           \A x, y, z \in S : <<x, y>> \in R /\ <<y, z>> \in R => <<x, z>> \in R
    PROVE  \E x \in S : \A y \in S : <<x, y>> \notin R
<1> DEFINE After(x) == {y \in S : <<x, y>> \in R}
           T == {After(x) : x \in S}
<1>1. T \subseteq FiniteSubsetsOf(S) /\ T # {}
  <2>1. \A x \in S : After(x) \in SUBSET S
    OBVIOUS
  <2>2. \A x \in S : IsFiniteSet(After(x))
    BY <2>1, FS_Subset
  <2>3. \A x \in S : After(x) \in FiniteSubsetsOf(S)
    BY <2>1, <2>2 DEF FiniteSubsetsOf
  <2> HIDE DEF After
  <2> QED
    BY <2>3
<1>2. PICK least \in T : \A other \in T : <<other, least>> \notin StrictSubsetOrdering(S)
  BY <1>1, FS_StrictSubsetOrderingWellFounded, WFMin
<1>3. PICK x \in S : least = After(x)
  OBVIOUS
<1>4. ASSUME NEW y \in S, <<x, y>> \in R PROVE FALSE
  <2>1. After(y) \subseteq After(x) /\ y \in After(x) /\ y \notin After(y)
    BY <1>4
  <2>2. After(y) \in T
    OBVIOUS
  <2>3. <<After(y), After(x)>> \in StrictSubsetOrdering(S)
    BY <2>1 DEF StrictSubsetOrdering
  <2> QED
    BY <1>2, <1>3, <2>2, <2>3
<1> QED
  BY <1>4

\* A place for each claim, from one, without gaps; neighbours are in order.
LEMMA OrdersAre ==
    ASSUME ClaimTypeInv, NEW t, NEW place \in Orders(t)
    PROVE  /\ \A i \in LiveClaims(t) : place[i] \in Nat \ {0}
           /\ \A i, j \in LiveClaims(t) : place[i] = place[j] => i = j
           /\ \A i \in LiveClaims(t), m \in Nat : 0 < m /\ m < place[i] =>
                 \E j \in LiveClaims(t) : place[j] = m
           /\ \A i, j \in LiveClaims(t) : place[j] = place[i] + 1 => Earlier(i, j)
<1> DEFINE n == Cardinality(LiveClaims(t))
<1>1. n \in Nat
  BY LiveClaimsAre
<1> HIDE DEF n
<1>2. /\ place \in [LiveClaims(t) -> 1 .. n]
      /\ \A i, j \in LiveClaims(t) : place[i] = place[j] => i = j
      /\ \A m \in 1 .. n : \E j \in LiveClaims(t) : place[j] = m
      /\ \A i, j \in LiveClaims(t) : place[j] = place[i] + 1 => Earlier(i, j)
  <2>1. place \in Bijection(LiveClaims(t), 1 .. n)
    BY DEF Orders, n
  <2>2. \A i, j \in LiveClaims(t) : place[j] = place[i] + 1 => Earlier(i, j)
    BY DEF Orders
  <2> QED
    BY <2>1, <2>2 DEF Bijection, Injection, Surjection, IsInjective
<1>3. \A i \in LiveClaims(t) : place[i] \in Nat /\ 0 < place[i] /\ place[i] <= n
  BY <1>1, <1>2
<1>4. ASSUME NEW i \in LiveClaims(t), NEW m \in Nat, 0 < m, m < place[i]
      PROVE  \E j \in LiveClaims(t) : place[j] = m
  <2>1. m \in 1 .. n
    BY <1>1, <1>3, <1>4
  <2> QED
    BY <1>2, <2>1
<1> QED
  BY <1>2, <1>3, <1>4

\* Of any live claims one has the last place, and one the first.
LEMMA PlacesHaveEnds ==
    ASSUME ClaimTypeInv, NEW t, NEW place \in Orders(t),
           NEW T, T \subseteq LiveClaims(t), T # {}
    PROVE  /\ \E x \in T : \A y \in T : place[y] <= place[x]
           /\ \E x \in T : \A y \in T : place[x] <= place[y]
<1>1. IsFiniteSet(T)
  BY LiveClaimsAre, FS_Subset
<1>2. \A x \in T : place[x] \in Nat
  BY OrdersAre
<1>3. \E x \in T : \A y \in T : place[y] <= place[x]
  <2> DEFINE R == {pair \in T \X T : place[pair[1]] < place[pair[2]]}
  <2>1. \A x, y \in T : <<x, y>> \in R <=> place[x] < place[y]
    OBVIOUS
  <2> HIDE DEF R
  <2>2. /\ \A x \in T : <<x, x>> \notin R
        /\ \A x, y, z \in T : <<x, y>> \in R /\ <<y, z>> \in R => <<x, z>> \in R
    BY <1>2, <2>1
  <2>3. PICK x \in T : \A y \in T : <<x, y>> \notin R
    BY <1>1, <2>2, OrderHasLast
  <2>4. ASSUME NEW y \in T PROVE place[y] <= place[x]
    <3>1. ~(place[x] < place[y])
      BY <2>1, <2>3
    <3>2. place[x] \in Nat /\ place[y] \in Nat
      BY <1>2
    <3> QED
      BY <3>1, <3>2
  <2> QED
    BY <2>4
<1>4. \E x \in T : \A y \in T : place[x] <= place[y]
  <2> DEFINE R == {pair \in T \X T : place[pair[2]] < place[pair[1]]}
  <2>1. \A x, y \in T : <<x, y>> \in R <=> place[y] < place[x]
    OBVIOUS
  <2> HIDE DEF R
  <2>2. /\ \A x \in T : <<x, x>> \notin R
        /\ \A x, y, z \in T : <<x, y>> \in R /\ <<y, z>> \in R => <<x, z>> \in R
    BY <1>2, <2>1
  <2>3. PICK x \in T : \A y \in T : <<x, y>> \notin R
    BY <1>1, <2>2, OrderHasLast
  <2>4. ASSUME NEW y \in T PROVE place[x] <= place[y]
    <3>1. ~(place[y] < place[x])
      BY <2>1, <2>3
    <3>2. place[x] \in Nat /\ place[y] \in Nat
      BY <1>2
    <3> QED
      BY <3>1, <3>2
  <2> QED
    BY <2>4
<1> QED
  BY <1>3, <1>4

\* What is not newer than one claim is not newer than the next.
LEMMA NeighboursKeepTime ==
    ASSUME ClaimTypeInv, NEW t, NEW i \in LiveClaims(t), NEW k \in LiveClaims(t),
           NEW j \in LiveClaims(t), ~Newer(t, i, k), Earlier(k, j)
    PROVE  ~Newer(t, i, j)
<1>1. \A x \in LiveClaims(t) : claim[x].stated \in Nat /\ x \in Nat /\ Evidence(x) \in Nat
  BY LiveClaimsAre, RowShape, StatementShape, ClaimNumbers, ClaimAssumption DEF ClaimTypeInv, Evidence
<1> DEFINE ties == {x \in LiveClaims(t) : claim[x].stated = claim[i].stated}
<1>2. \A x : Newer(t, i, x) <=>
         \/ claim[i].stated > claim[x].stated
         \/ /\ claim[i].stated = claim[x].stated
            /\ \/ i > x /\ \A y \in ties : Evidence(y) = Evidence(i)
               \/ Evidence(i) > Evidence(x) /\ \A y \in ties : Evidence(y) # 0
  BY DEF Newer
<1>3. \A x \in LiveClaims(t) : x \in ties <=> claim[x].stated = claim[i].stated
  OBVIOUS
<1> HIDE DEF ties
<1>4. CASE claim[i].stated < claim[j].stated
  BY <1>1, <1>2, <1>4
<1>5. CASE claim[i].stated >= claim[j].stated
  <2>1. claim[i].stated = claim[k].stated /\ claim[k].stated = claim[j].stated
    BY <1>1, <1>2, <1>5 DEF Earlier
  <2>2. i \in ties /\ j \in ties /\ k \in ties
    BY <1>3, <2>1
  <2>3. ASSUME \A y \in ties : Evidence(y) = Evidence(i) PROVE ~(i > j) /\ ~(Evidence(i) > Evidence(j))
    BY <1>1, <1>2, <2>1, <2>2, <2>3 DEF Earlier
  <2>4. ASSUME \A y \in ties : Evidence(y) # 0 PROVE ~(Evidence(i) > Evidence(j))
    BY <1>1, <1>2, <2>1, <2>2, <2>4 DEF Earlier
  <2> QED
    BY <1>1, <1>2, <2>1, <2>3, <2>4
<1> QED
  BY <1>1, <1>4, <1>5

\* However claims of one time are sorted, what is certainly newer comes later.
LEMMA OrdersKeepTime ==
    ASSUME ClaimTypeInv, NEW t, NEW place \in Orders(t),
           NEW i \in LiveClaims(t), NEW j \in LiveClaims(t), place[i] <= place[j]
    PROVE  ~Newer(t, i, j)
<1> DEFINE bad == {x \in LiveClaims(t) : place[i] <= place[x] /\ Newer(t, i, x)}
<1>1. SUFFICES ASSUME bad # {} PROVE FALSE
  OBVIOUS
<1>2. PICK x \in bad : \A y \in bad : place[x] <= place[y]
  BY <1>1, PlacesHaveEnds
<1>3. i # x
  <2>1. claim[i].stated \in Nat /\ i \in Nat /\ Evidence(i) \in Nat
    BY LiveClaimsAre, RowShape, StatementShape, ClaimNumbers, ClaimAssumption
    DEF ClaimTypeInv, Evidence
  <2> QED
    BY <1>2, <2>1 DEF Newer
<1>4. place[i] \in Nat \ {0} /\ place[x] \in Nat \ {0} /\ place[i] < place[x]
  BY <1>2, <1>3, OrdersAre
<1>5. PICK k \in LiveClaims(t) : place[k] = place[x] - 1
  <2>1. place[x] - 1 \in Nat /\ 0 < place[x] - 1 /\ place[x] - 1 < place[x]
    BY <1>4
  <2> QED
    BY <1>2, <2>1, OrdersAre
<1>6. Earlier(k, x) /\ place[i] <= place[k] /\ place[k] < place[x]
  BY <1>2, <1>4, <1>5, OrdersAre
<1>7. ~Newer(t, i, k)
  BY <1>2, <1>4, <1>5, <1>6
<1> QED
  BY <1>2, <1>6, <1>7, NeighboursKeepTime

-----------------------------------------------------------------------------
(* The chain of a topic and its settlements.                               *)

\* Any live claims have a last one, and after each of the others a next one.
LEMMA ChainsHaveEnds ==
    ASSUME ClaimTypeInv, NEW t, NEW place \in Orders(t),
           NEW chain, chain \subseteq LiveClaims(t), chain # {}
    PROVE  /\ LastOf(chain, place) \in chain
           /\ \A j \in chain : place[j] <= place[LastOf(chain, place)]
           /\ \A i \in chain : i # LastOf(chain, place) =>
                 /\ NextOf(chain, place, i) \in chain
                 /\ place[i] < place[NextOf(chain, place, i)]
<1>1. \E i \in chain : \A j \in chain : place[j] <= place[i]
  BY PlacesHaveEnds
<1>2. /\ LastOf(chain, place) \in chain
      /\ \A j \in chain : place[j] <= place[LastOf(chain, place)]
  BY <1>1 DEF LastOf
<1>3. ASSUME NEW i \in chain, i # LastOf(chain, place)
      PROVE  /\ NextOf(chain, place, i) \in chain
             /\ place[i] < place[NextOf(chain, place, i)]
  <2> DEFINE later == {j \in chain : place[i] < place[j]}
  <2>1. LastOf(chain, place) \in later
    <3>1. place[i] # place[LastOf(chain, place)] /\ place[i] \in Nat
          /\ place[LastOf(chain, place)] \in Nat
      BY <1>2, <1>3, OrdersAre
    <3> QED
      BY <1>2, <3>1
  <2>2. PICK x \in later : \A y \in later : place[x] <= place[y]
    BY <2>1, PlacesHaveEnds
  <2> QED
    BY <2>2 DEF NextOf
<1> QED
  BY <1>2, <1>3

\* A live claim is demoted or of the chain, in which a user's own is; and nothing
\* that may not follow a user's own follows one there.
LEMMA ChainsAre ==
    ASSUME ClaimTypeInv, NEW t, NEW place \in Orders(t),
           NEW chain, chain = LiveClaims(t) \ Demoted(t, place)
    PROVE  /\ chain \subseteq LiveClaims(t)
           /\ LiveClaims(t) # {} => chain # {}
           /\ \A i \in LiveClaims(t) : i \notin chain =>
                 /\ claim[i].said.kind = "inferred" /\ ~Progress(i)
                 /\ \E u \in chain : claim[u].said.kind = "user" /\ place[u] < place[i]
           /\ \A i, j \in chain : claim[i].said.kind = "user" /\ place[i] < place[j]
                 => (claim[j].said.kind = "inferred" => Progress(j))
BY DEF Demoted

\* What comes after the chain is nothing, or mail that took the last date away.
LEMMA EndsAre ==
    ASSUME ClaimTypeInv, NEW t, NEW place \in Orders(t), NEW end \in Ends(t, place),
           NEW chain, chain = LiveClaims(t) \ Demoted(t, place), LiveClaims(t) # {}
    PROVE  /\ end = 0 \/ end \in Removals(LastOf(chain, place))
           /\ end = 0 => Removals(LastOf(chain, place)) = {}
<1>1. end \in FirstRemoval(LastOf(chain, place))
  BY DEF Ends
<1>2. 0 \notin Removals(LastOf(chain, place))
  BY ClaimNumbers DEF Removals, ClaimTypeInv
<1> QED
  BY <1>1, <1>2 DEF FirstRemoval

\* A removal is a status of the date's subject that is there; the date is
\* inferred.
LEMMA RemovalsAre ==
    ASSUME NEW i, NEW r \in Removals(i)
    PROVE  /\ r \in Claims /\ claim[r].status # "deleted"
           /\ claim[r].subject = claim[i].subject /\ claim[r].said.about = "status"
           /\ claim[i].said.about = "due" /\ claim[i].said.kind = "inferred"
BY DEF Removals, Topic

\* What a settlement says of a claim.
Prescribes(chain, place, end, i, u) ==
    /\ u.id = i /\ u.by = Successor(chain, place, end, i)
    /\ u.status = IF u.by = 0 THEN "active" ELSE "superseded"
    /\ u = [id |-> u.id, by |-> u.by, status |-> u.status]

\* A settlement has one update for each live claim.
LEMMA SettlementHas ==
    ASSUME NEW live, NEW demoted, NEW place, NEW end, NEW chain, chain = live \ demoted
    PROVE  /\ \A u \in Settlement(live, demoted, place, end) :
                 u.id \in live /\ Prescribes(chain, place, end, u.id, u)
           /\ \A i \in live : \E u \in Settlement(live, demoted, place, end) : u.id = i
           /\ \A u, v \in Settlement(live, demoted, place, end) : u.id = v.id => u = v
<1> DEFINE by(i) == Successor(chain, place, end, i)
           own(i) == [id |-> i, by |-> by(i), status |-> IF by(i) = 0 THEN "active" ELSE "superseded"]
<1>1. Settlement(live, demoted, place, end) = {own(i) : i \in live}
  BY DEF Settlement
<1>2. \A i : own(i).id = i /\ Prescribes(chain, place, end, i, own(i))
  BY DEF Prescribes
<1> HIDE DEF own
<1>3. ASSUME NEW u \in Settlement(live, demoted, place, end)
      PROVE  u.id \in live /\ u = own(u.id) /\ Prescribes(chain, place, end, u.id, u)
  <2>1. PICK i \in live : u = own(i)
    BY <1>1
  <2> QED
    BY <1>2, <2>1
<1>4. \A i \in live : own(i) \in Settlement(live, demoted, place, end) /\ own(i).id = i
  BY <1>1, <1>2
<1> QED
  BY <1>3, <1>4

\* The updates of a settlement are about its live claims; each points to a claim
\* that it may lead to and that is there, or to none.
LEMMA SettlementIs ==
    ASSUME ClaimTypeInv, NEW t \in Topics, NEW settlement \in Settlements(t), NEW u \in settlement
    PROVE  /\ u.id \in LiveClaims(t)
           /\ u = [id |-> u.id, by |-> u.by, status |-> u.status]
           /\ u.status \in {"active", "superseded"}
           /\ u.by # 0 => Leads(u.id, u.by) /\ claim[u.by].status # "deleted"
           /\ \A v \in settlement : v.id = u.id => v = u
<1>1. PICK place \in Orders(t) : \E end \in Ends(t, place) :
         settlement = Settlement(LiveClaims(t), Demoted(t, place), place, end)
  BY DEF Settlements
<1>2. PICK end \in Ends(t, place) :
         settlement = Settlement(LiveClaims(t), Demoted(t, place), place, end)
  BY <1>1
<1>3. PICK chain : chain = LiveClaims(t) \ Demoted(t, place)
  OBVIOUS
<1>4. PICK i : i = u.id
  OBVIOUS
<1>5. i \in LiveClaims(t) /\ Prescribes(chain, place, end, i, u)
  BY <1>2, <1>3, <1>4, SettlementHas
<1>6. \A v \in settlement : v.id = u.id => v = u
  BY <1>2, <1>3, SettlementHas
<1>7. /\ chain \subseteq LiveClaims(t) /\ chain # {} /\ LiveClaims(t) \subseteq Claims
      /\ LastOf(chain, place) \in chain
      /\ \A j \in chain : place[j] <= place[LastOf(chain, place)]
      /\ \A j \in chain : j # LastOf(chain, place) =>
            NextOf(chain, place, j) \in chain /\ place[j] < place[NextOf(chain, place, j)]
  <2>1. chain \subseteq LiveClaims(t) /\ chain # {}
    BY <1>3, <1>5, ChainsAre
  <2>2. LiveClaims(t) \subseteq Claims
    BY LiveClaimsAre
  <2> QED
    BY <2>1, <2>2, ChainsHaveEnds
<1>8. \A j \in LiveClaims(t) : Topic(j) = t /\ claim[j].status # "deleted" /\ j \in Claims
  BY LiveClaimsAre
<1>9. \A j \in LiveClaims(t) : claim[j].subject = claim[i].subject
                               /\ claim[j].said.about = claim[i].said.about
  BY <1>5, <1>8 DEF Topic
<1>10. ASSUME u.by # 0 PROVE Leads(i, u.by) /\ claim[u.by].status # "deleted"
  <2>1. u.by = Successor(chain, place, end, i)
    BY <1>5 DEF Prescribes
  <2>2. CASE i \notin chain
    <3>1. u.by = LastOf(chain, place) /\ claim[i].said.kind = "inferred"
      BY <1>3, <1>5, <2>1, <2>2, ChainsAre DEF Successor
    <3> QED
      BY <1>7, <1>8, <1>9, <3>1 DEF Leads
  <2>3. CASE i \in chain /\ i = LastOf(chain, place)
    <3>1. u.by = end
      BY <2>1, <2>3 DEF Successor
    <3>2. end \in Removals(i)
      BY <1>3, <1>5, <1>10, <2>3, <3>1, EndsAre
    <3> QED
      BY <3>1, <3>2, RemovalsAre DEF Leads
  <2>4. CASE i \in chain /\ i # LastOf(chain, place)
    <3>1. u.by = NextOf(chain, place, i)
      BY <2>1, <2>4 DEF Successor
    <3>2. u.by \in chain /\ place[i] < place[u.by]
      BY <1>7, <2>4, <3>1
    <3>3. claim[i].said.kind = "user" /\ claim[u.by].said.kind = "inferred" => Progress(u.by)
      BY <1>3, <2>4, <3>2, ChainsAre
    <3> QED
      BY <1>7, <1>8, <1>9, <3>2, <3>3 DEF Leads
  <2> QED
    BY <2>2, <2>3, <2>4
<1>11. /\ u.status \in {"active", "superseded"}
       /\ u = [id |-> u.id, by |-> u.by, status |-> u.status]
  BY <1>5 DEF Prescribes
<1> QED
  BY <1>4, <1>5, <1>6, <1>10, <1>11

\* A settlement consists of updates.
LEMMA SettlementIsTyped ==
    ASSUME ClaimTypeInv, NEW t \in Topics, NEW settlement \in Settlements(t)
    PROVE  settlement \subseteq Update
<1> SUFFICES ASSUME NEW u \in settlement PROVE u \in Update
  OBVIOUS
<1>1. u.id \in Claims /\ (u.by = 0 \/ u.by \in Claims) /\ u.status \in {"active", "superseded"}
      /\ u = [id |-> u.id, by |-> u.by, status |-> u.status]
  BY SettlementIs, LiveClaimsAre DEF Leads
<1>2. Claims \subseteq 1 .. MaxClaims /\ MaxClaims \in Nat
  BY ClaimNumbers, ClaimAssumption DEF ClaimTypeInv, Claims
<1> QED
  BY <1>1, <1>2 DEF Update

-----------------------------------------------------------------------------
(* What a step leaves alone.                                               *)

\* No step changes what a claim says, of whom and when, or makes its number
\* another's.
Grown ==
    \A i \in Claims : /\ i \in Claims' /\ claim'[i].subject = claim[i].subject
                      /\ claim'[i].said = claim[i].said /\ claim'[i].stated = claim[i].stated

\* The step does not touch the claims of t, nor what takes its dates away.
Unaffected(t) ==
    /\ \A i \in Claims : Topic(i) = t => claim'[i] = claim[i] /\ Removals(i)' = Removals(i)
    /\ \A i \in Claims' : i \in Claims \/ Topic(i)' # t

\* What takes a date away stands, unless a removal comes, or is deleted.
LEMMA RemovalsStand ==
    ASSUME Grown, NEW d \in Claims,
           \A r \in Claims : Topic(r) = <<claim[d].subject, "status">> =>
                (claim'[r].status = "deleted" <=> claim[r].status = "deleted"),
           \A r \in Claims' : r \in Claims \/ Topic(r)' # <<claim[d].subject, "status">>
                              \/ claim'[r].said.kind # "inferred" \/ claim'[r].said.sign # "removal"
    PROVE  Removals(d)' = Removals(d)
<1>1. \A r : r \in Removals(d)' <=>
        /\ r \in Claims'
        /\ claim'[d].said.about = "due" /\ claim'[d].said.kind = "inferred"
        /\ claim'[d].said.mail # 0
        /\ Topic(r)' = <<claim'[d].subject, "status">> /\ claim'[r].status # "deleted"
        /\ claim'[r].said.kind = "inferred" /\ claim'[r].said.sign = "removal"
        /\ claim'[d].stated < claim'[r].stated
  BY DEF Removals
<1>2. \A r : r \in Removals(d) <=>
        /\ r \in Claims
        /\ claim[d].said.about = "due" /\ claim[d].said.kind = "inferred"
        /\ claim[d].said.mail # 0
        /\ Topic(r) = <<claim[d].subject, "status">> /\ claim[r].status # "deleted"
        /\ claim[r].said.kind = "inferred" /\ claim[r].said.sign = "removal"
        /\ claim[d].stated < claim[r].stated
  BY DEF Removals
<1>3. \A r \in Claims : r \in Claims' /\ Topic(r)' = Topic(r) /\ claim'[r].said = claim[r].said
                        /\ claim'[r].stated = claim[r].stated
  BY DEF Grown, Topic
<1>4. /\ claim'[d].said = claim[d].said /\ claim'[d].subject = claim[d].subject
      /\ claim'[d].stated = claim[d].stated
  BY DEF Grown
<1>5. \A r : r \in Removals(d)' <=> r \in Removals(d)
  BY <1>1, <1>2, <1>3, <1>4
<1> QED
  BY <1>5

\* The settlements of a topic depend on which claims are live, on what takes its
\* dates away, and on what no step changes.
LEMMA SettlementsStand ==
    ASSUME ClaimTypeInv, Grown, NEW t \in Topics, LiveClaims(t)' = LiveClaims(t),
           \A i \in LiveClaims(t) : Removals(i)' = Removals(i)
    PROVE  Settlements(t)' = Settlements(t)
<1>1. LiveClaims(t) \subseteq Claims
  BY LiveClaimsAre
<1>2. \A i, j \in LiveClaims(t) : Earlier(i, j)' <=> Earlier(i, j)
  BY <1>1 DEF Grown, Earlier, Evidence
<1>3. Orders(t)' = Orders(t)
  BY <1>2 DEF Orders
<1>4. ASSUME NEW place \in Orders(t)
      PROVE  /\ Demoted(t, place)' = Demoted(t, place) /\ Ends(t, place)' = Ends(t, place)
  <2>1. Demoted(t, place)' = Demoted(t, place)
    BY <1>1 DEF Demoted, Progress, Grown
  <2>2. PICK chain : chain = LiveClaims(t) \ Demoted(t, place)
    OBVIOUS
  <2>3. PICK last : last = LastOf(chain, place)
    OBVIOUS
  <2>4. CASE LiveClaims(t) = {}
    <3>1. Ends(t, place) = {0} /\ Ends(t, place)' = {0}
      BY <2>4 DEF Ends
    <3> QED
      BY <2>1, <3>1
  <2>5. CASE LiveClaims(t) # {}
    <3>1. last \in LiveClaims(t)
      <4>1. chain \subseteq LiveClaims(t) /\ chain # {}
        BY <2>2, <2>5, ChainsAre
      <4> QED
        BY <2>3, <4>1, ChainsHaveEnds
    <3>2. Ends(t, place) = FirstRemoval(last)
      BY <2>2, <2>3, <2>5 DEF Ends
    <3>3. Ends(t, place)' = FirstRemoval(last)'
      BY <2>1, <2>2, <2>3, <2>5 DEF Ends
    <3>4. FirstRemoval(last)' = FirstRemoval(last)
      <4>1. Removals(last)' = Removals(last) /\ Removals(last) \subseteq Claims
        BY <3>1 DEF Removals
      <4>2. \A r \in Removals(last) : claim'[r].stated = claim[r].stated
        BY <4>1 DEF Grown
      <4> QED
        BY <4>1, <4>2 DEF FirstRemoval
    <3> QED
      BY <2>1, <3>2, <3>3, <3>4
  <2> QED
    BY <2>1, <2>4, <2>5
<1>5. \A st : st \in Settlements(t)' <=> st \in Settlements(t)
  <2>1. \A st : st \in Settlements(t) <=> \E place \in Orders(t) : \E end \in Ends(t, place) :
                   st = Settlement(LiveClaims(t), Demoted(t, place), place, end)
    BY DEF Settlements
  <2>2. \A st : st \in Settlements(t)' <=> \E place \in Orders(t)' : \E end \in Ends(t, place)' :
                   st = Settlement(LiveClaims(t)', Demoted(t, place)', place, end)
    BY DEF Settlements
  <2>3. \A st : st \in Settlements(t)' <=> \E place \in Orders(t) : \E end \in Ends(t, place) :
                   st = Settlement(LiveClaims(t), Demoted(t, place), place, end)
    BY <1>3, <1>4, <2>2
  <2> QED
    BY <2>1, <2>3
<1> QED
  BY <1>5

\* What does not touch a topic leaves its settlements and what differs from them.
LEMMA UntouchedStands ==
    ASSUME ClaimTypeInv, Grown, NEW t \in Topics, Unaffected(t)
    PROVE  /\ Settlements(t)' = Settlements(t)
           /\ \A settlement \in Settlements(t) : Differing(settlement)' = Differing(settlement)
<1>1. \A i : i \in LiveClaims(t)' <=> i \in LiveClaims(t)
  <2>1. \A i : i \in LiveClaims(t)' <=>
          i \in Claims' /\ Topic(i)' = t /\ claim'[i].status \in {"active", "superseded"}
    BY DEF LiveClaims, Of
  <2>2. \A i : i \in LiveClaims(t) <=>
          i \in Claims /\ Topic(i) = t /\ claim[i].status \in {"active", "superseded"}
    BY LiveClaimsAre
  <2>3. \A i \in Claims : i \in Claims' /\ Topic(i)' = Topic(i)
    BY DEF Grown, Topic
  <2> QED
    BY <2>1, <2>2, <2>3 DEF Unaffected
<1>2. LiveClaims(t)' = LiveClaims(t)
  BY <1>1
<1>3. \A i \in LiveClaims(t) : claim'[i] = claim[i] /\ Removals(i)' = Removals(i)
  BY LiveClaimsAre DEF Unaffected
<1>4. Settlements(t)' = Settlements(t)
  BY <1>2, <1>3, SettlementsStand
<1>5. ASSUME NEW settlement \in Settlements(t)
      PROVE  Differing(settlement)' = Differing(settlement)
  <2>1. \A u \in settlement : claim'[u.id] = claim[u.id]
    BY <1>3, SettlementIs
  <2> QED
    BY <2>1 DEF Differing
<1> QED
  BY <1>4, <1>5

\* The calls of others go on as they were, or know that they were disturbed.
GoesOn(q) ==
    \/ call'[q] = call[q]
    \/ /\ call'[q].at = call[q].at /\ call'[q].topic = call[q].topic
       /\ call'[q].plan = call[q].plan /\ ~call'[q].clean

\* A call that goes on while its topic is left alone is as sound and as complete
\* as before.
LEMMA CallsGoOn ==
    ASSUME ClaimInv, Grown, NEW q \in Callers,
           \/ call'[q].at # "write"
           \/ GoesOn(q) /\ (call'[q].clean => Unaffected(call[q].topic))
    PROVE  PlanIsSound(q)' /\ CleanPlanIsComplete(q)'
<1>1. CASE call'[q].at # "write"
  BY <1>1 DEF PlanIsSound, CleanPlanIsComplete
<1>2. CASE call'[q].at = "write" /\ GoesOn(q) /\ (call'[q].clean => Unaffected(call[q].topic))
  <2>1. /\ call[q].at = "write" /\ call'[q].topic = call[q].topic
        /\ call'[q].plan = call[q].plan /\ (call'[q].clean => call[q].clean)
    BY <1>2 DEF GoesOn
  <2>2. PlanIsSound(q) /\ CleanPlanIsComplete(q) /\ ClaimTypeInv
    BY DEF ClaimInv
  <2>3. PlanIsSound(q)'
    BY <2>1, <2>2 DEF PlanIsSound, Leads, Grown, Topic, Progress
  <2>4. CleanPlanIsComplete(q)'
    <3> SUFFICES ASSUME NEW t \in Topics, call'[q].clean, call[q].topic = t
                 PROVE  \E st \in Settlements(t)' :
                           call'[q].plan \subseteq st /\ Differing(st)' \subseteq call'[q].plan
      BY <2>1 DEF CleanPlanIsComplete
    <3>1. PICK st \in Settlements(t) :
                 call[q].plan \subseteq st /\ Differing(st) \subseteq call[q].plan
      BY <2>1, <2>2 DEF CleanPlanIsComplete
    <3>2. Settlements(t)' = Settlements(t) /\ Differing(st)' = Differing(st)
      BY <1>2, <2>2, <3>1, UntouchedStands
    <3> QED
      BY <2>1, <3>1, <3>2
  <2> QED
    BY <2>3, <2>4
<1> QED
  BY <1>1, <1>2

\* A calm that is kept through a step was not touched by it.
LEMMA CalmStays ==
    ASSUME ClaimInv, Grown, \A t \in calm' : t \in calm /\ Unaffected(t)
    PROVE  CalmIsDone'
<1>1. ASSUME NEW t \in calm' PROVE \E st \in Settlements(t)' : Differing(st)' = {}
  <2>1. t \in calm /\ t \in Topics /\ ClaimTypeInv /\ Unaffected(t)
    BY <1>1 DEF ClaimInv, ClaimTypeInv
  <2>2. PICK st \in Settlements(t) : Differing(st) = {}
    BY <2>1 DEF ClaimInv, CalmIsDone
  <2>3. Settlements(t)' = Settlements(t) /\ Differing(st)' = Differing(st)
    BY <2>1, <2>2, UntouchedStands
  <2> QED
    BY <2>2, <2>3
<1> QED
  BY <1>1 DEF CalmIsDone

\* Pointers that are kept, or lead where they may, to a claim that is there.
LEMMA LinksStay ==
    ASSUME Grown,
           \A i \in Claims' : claim'[i].by # 0 =>
              /\ i \in Claims /\ Leads(i, claim'[i].by)
              /\ claim'[claim'[i].by].status # "deleted"
    PROVE  Linked'
BY DEF Linked, Leads, Grown, Progress

\* Disturbing passes leaves what they are, but not that they are clean.
LEMMA DisturbedCalls ==
    ASSUME ClaimTypeInv, NEW topics
    PROVE  /\ Disturbed(topics) \in [Callers -> Calls]
           /\ \A q \in Callers :
                 /\ Disturbed(topics)[q].at = call[q].at
                 /\ Disturbed(topics)[q].topic = call[q].topic
                 /\ Disturbed(topics)[q].plan = call[q].plan
                 /\ Disturbed(topics)[q].clean => call[q].clean
                 /\ call[q].at = "write" /\ call[q].topic \in topics => ~Disturbed(topics)[q].clean
                 /\ Disturbed(topics)[q] = call[q] \/ ~Disturbed(topics)[q].clean
<1> DEFINE Hit(q) == [call[q] EXCEPT !.clean = FALSE]
<1>1. ASSUME NEW q \in Callers
      PROVE  /\ Hit(q) \in Calls /\ Hit(q).at = call[q].at /\ Hit(q).topic = call[q].topic
             /\ Hit(q).plan = call[q].plan /\ ~Hit(q).clean /\ call[q] \in Calls
  BY DEF ClaimTypeInv, Calls
<1>2. Disturbed(topics) = [q \in Callers |-> IF call[q].at = "write" /\ call[q].topic \in topics
                                             THEN Hit(q) ELSE call[q]]
  BY DEF Disturbed
<1> HIDE DEF Hit
<1> QED
  BY <1>1, <1>2


-----------------------------------------------------------------------------
(* The operations.                                                         *)

\* An operation changes the claims of some topics, disturbs their passes and
\* takes their calm.
LEMMA OperationInv ==
    ASSUME ClaimInv, Grown, Linked', claim' \in Seq(ClaimRows), Len(claim') <= MaxClaims,
           NEW touched, \A t \in Topics \ touched : Unaffected(t),
           call' \in [Callers -> Calls],
           \A q \in Callers :
              \/ call'[q].at = "idle" \/ (call'[q].at = "pass" /\ call'[q].topic \in Topics)
              \/ GoesOn(q) /\ (call'[q].clean /\ call[q].at = "write" => call[q].topic \notin touched),
           calm' \subseteq calm \ touched
    PROVE  ClaimInv'
<1>1. ClaimTypeInv /\ calm' \subseteq Topics
  BY DEF ClaimInv, ClaimTypeInv
<1>2. ClaimTypeInv'
  <2>1. ASSUME NEW q \in Callers, call'[q].at # "idle" PROVE call'[q].topic \in Topics
    BY <1>1, <2>1 DEF ClaimTypeInv, GoesOn
  <2> QED
    BY <1>1, <2>1 DEF ClaimTypeInv
<1>3. ASSUME NEW q \in Callers PROVE PlanIsSound(q)' /\ CleanPlanIsComplete(q)'
  <2>1. CASE call'[q].at # "write"
    BY <2>1, CallsGoOn
  <2>2. CASE call'[q].at = "write"
    <3>1. GoesOn(q) /\ (call'[q].clean /\ call[q].at = "write" => call[q].topic \notin touched)
      BY <2>2
    <3>2. call[q].at = "write" /\ call[q].topic \in Topics
      BY <1>1, <2>2, <3>1 DEF GoesOn, ClaimTypeInv
    <3>3. call'[q].clean => Unaffected(call[q].topic)
      BY <3>1, <3>2
    <3> QED
      BY <3>1, <3>3, CallsGoOn
  <2> QED
    BY <2>1, <2>2
<1>4. CalmIsDone'
  <2>1. \A t \in calm' : t \in calm /\ Unaffected(t)
    BY <1>1
  <2> QED
    BY <2>1, CalmStays
<1> QED
  BY <1>2, <1>3, <1>4 DEF ClaimInv

\* A pass that a caller goes on to.
LEMMA PassIsACall ==
    ASSUME NEW t \in Topics
    PROVE  PassOn(t) \in Calls /\ PassOn(t).at = "pass" /\ PassOn(t).topic = t
BY DEF PassOn, IdleCall, Calls

\* The operation of a caller, followed by its pass.
LEMMA ThenPassInv ==
    ASSUME ClaimInv, Grown, Linked', claim' \in Seq(ClaimRows), Len(claim') <= MaxClaims,
           NEW p \in Callers, NEW t \in Topics, NEW also, ThenPass(p, t, also),
           \A r \in Topics \ (Concerned(t) \union also) : Unaffected(r)
    PROVE  ClaimInv'
<1> DEFINE touched == Concerned(t) \union also
<1>1. ClaimTypeInv
  BY DEF ClaimInv
<1>2. PassOn(t) \in Calls /\ PassOn(t).at = "pass" /\ PassOn(t).topic = t
  BY PassIsACall
<1>3. call' = [Disturbed(touched) EXCEPT ![p] = PassOn(t)] /\ calm' = calm \ touched
  BY DEF ThenPass
<1> HIDE DEF touched
<1>4. /\ call' \in [Callers -> Calls] /\ call'[p] = PassOn(t)
      /\ \A q \in Callers \ {p} : call'[q] = Disturbed(touched)[q]
  BY <1>1, <1>2, <1>3, DisturbedCalls
<1>5. ASSUME NEW q \in Callers
      PROVE  \/ call'[q].at = "idle" \/ (call'[q].at = "pass" /\ call'[q].topic \in Topics)
             \/ GoesOn(q) /\ (call'[q].clean /\ call[q].at = "write" => call[q].topic \notin touched)
  <2>1. CASE q = p
    BY <1>2, <1>4, <2>1
  <2>2. CASE q # p
    BY <1>1, <1>4, <2>2, DisturbedCalls DEF GoesOn
  <2> QED
    BY <2>1, <2>2
<1>6. \A r \in Topics \ touched : Unaffected(r)
  BY DEF touched
<1> QED
  BY <1>3, <1>4, <1>5, <1>6, OperationInv

\* A topic concerns the date of its subject, and itself.
LEMMA ConcernedAre ==
    ASSUME claim \in Seq(ClaimRows), NEW i \in Claims
    PROVE  /\ Concerned(Topic(i)) = {Topic(i), <<claim[i].subject, "due">>}
           /\ Topic(i) = <<claim[i].subject, claim[i].said.about>>
           /\ \A j \in Claims : Topic(j) = <<claim[i].subject, "due">> <=>
                claim[j].subject = claim[i].subject /\ claim[j].said.about = "due"
BY DEF Concerned, Topic

\* A new claim points nowhere, and its topic is disturbed; a removal disturbs the
\* date of its subject.
LEMMA AddedStands ==
    ASSUME ClaimInv, Grown, NEW n, n \notin Claims, Claims' = Claims \union {n},
           NEW s, NEW about, NEW t \in Topics, t # <<s, about>>,
           claim'[n].subject = s, claim'[n].said.about = about,
           \A j \in Claims : Topic(j) = t => claim'[j] = claim[j],
           \A j \in Claims : claim'[j].status = "deleted" <=> claim[j].status = "deleted",
           t = <<s, "due">> => claim'[n].said.kind # "inferred"
    PROVE  Unaffected(t)
<1>1. Topic(n)' = <<s, about>>
  BY DEF Topic
<1>2. ASSUME NEW d \in Claims, Topic(d) = t PROVE Removals(d)' = Removals(d)
  <2>1. CASE claim[d].said.about # "due"
    BY <2>1 DEF Removals, Grown
  <2>2. CASE claim[d].said.about = "due"
    <3>1. t = <<claim[d].subject, "due">>
      BY <1>2, <2>2 DEF Topic
    <3>2. Topic(n)' # <<claim[d].subject, "status">> \/ claim'[n].said.kind # "inferred"
      BY <1>1, <3>1
    <3> QED
      BY <3>2, RemovalsStand
  <2> QED
    BY <2>1, <2>2
<1> QED
  BY <1>1, <1>2 DEF Unaffected

LEMMA CreateClaimInv ==
    ASSUME ClaimInv, NEW p \in Callers, NEW s \in Subjects, NEW said \in Told,
           NEW stated \in Times, NEW dated \in BOOLEAN, CreateClaim(p, s, said, stated, dated)
    PROVE  ClaimInv'
<1> DEFINE t == <<s, said.about>>
<1>1. /\ ClaimTypeInv /\ claim \in Seq(ClaimRows) /\ Len(claim) < MaxClaims /\ MaxClaims \in Nat
      /\ Len(claim) \in Nat /\ ThenPass(p, t, {}) /\ said \in Statements
  BY ClaimAssumption, ClaimNumbers DEF ClaimInv, ClaimTypeInv, CreateClaim
<1>2. t \in Topics
  BY <1>1, StatementShape DEF Topics
<1>3. DEFINE row == NewClaim(s, said, stated, dated)
<1>4. row \in ClaimRows /\ row.subject = s /\ row.said = said /\ row.by = 0
  BY <1>1 DEF NewClaim, ClaimRows, Statuses
<1>5. claim' = Append(claim, row)
  BY DEF CreateClaim
<1> HIDE DEF row
<1>6. /\ claim' \in Seq(ClaimRows) /\ Len(claim') = Len(claim) + 1
      /\ Claims' = (1 .. Len(claim)) \union {Len(claim) + 1}
      /\ claim'[Len(claim) + 1] = row /\ \A j \in 1 .. Len(claim) : claim'[j] = claim[j]
  BY <1>1, <1>4, <1>5, RowAdded
<1>7. Claims = 1 .. Len(claim)
  BY DEF Claims
<1>8. Grown
  BY <1>6, <1>7 DEF Grown
<1>9. ASSUME NEW r \in Topics \ (Concerned(t) \union {}) PROVE Unaffected(r)
  <2>1. r # t /\ r # <<s, "due">>
    BY DEF Concerned
  <2>2. PICK n : n = Len(claim) + 1
    OBVIOUS
  <2>3. /\ n \notin Claims /\ Claims' = Claims \union {n}
        /\ claim'[n].subject = s /\ claim'[n].said.about = said.about
        /\ \A j \in Claims : claim'[j] = claim[j]
    BY <1>1, <1>4, <1>6, <1>7, <2>2
  <2> QED
    BY <1>8, <2>1, <2>3, AddedStands
<1>10. ASSUME NEW i \in Claims', claim'[i].by # 0
       PROVE  i \in Claims /\ Leads(i, claim'[i].by) /\ claim'[claim'[i].by].status # "deleted"
  <2>1. i \in Claims /\ claim'[i] = claim[i]
    BY <1>4, <1>6, <1>7, <1>10
  <2>2. Leads(i, claim[i].by) /\ claim[claim[i].by].status # "deleted"
    BY <1>10, <2>1 DEF ClaimInv, Linked
  <2> QED
    BY <1>6, <1>7, <2>1, <2>2 DEF Leads
<1>11. Linked'
  BY <1>8, <1>10, LinksStay
<1> QED
  BY <1>1, <1>2, <1>6, <1>8, <1>9, <1>11, ThenPassInv

\* A claim that is no longer live keeps what it points to, and what it takes away.
LEMMA StatusChanges ==
    ASSUME ClaimInv, NEW i \in Claims, NEW status \in Statuses, status # "deleted",
           claim[i].status # "deleted", claim' = [claim EXCEPT ![i].status = status]
    PROVE  /\ claim' \in Seq(ClaimRows) /\ Len(claim') <= MaxClaims /\ Claims' = Claims /\ Grown /\ Linked'
           /\ \A j \in Claims \ {i} : claim'[j] = claim[j]
           /\ \A t \in Topics \ {Topic(i)} : Unaffected(t)
<1>1. ClaimTypeInv /\ claim \in Seq(ClaimRows)
  BY DEF ClaimInv, ClaimTypeInv
<1>2. DEFINE row == [claim[i] EXCEPT !.status = status]
<1>3. /\ row \in ClaimRows /\ row.subject = claim[i].subject /\ row.said = claim[i].said
      /\ row.stated = claim[i].stated /\ row.by = claim[i].by /\ row.status = status
  BY <1>1, RowShape DEF ClaimRows
<1>4. claim' = [claim EXCEPT ![i] = row]
  OBVIOUS
<1> HIDE DEF row
<1>5. /\ claim' \in Seq(ClaimRows) /\ Len(claim') = Len(claim) /\ Claims' = Claims
      /\ claim'[i] = row /\ \A j \in Claims \ {i} : claim'[j] = claim[j]
  BY <1>1, <1>3, <1>4, RowReplaced
<1>6. Grown
  BY <1>3, <1>5 DEF Grown
<1>7. \A d \in Claims : Removals(d)' = Removals(d)
  BY <1>3, <1>5, <1>6, RemovalsStand
<1>8. \A t \in Topics \ {Topic(i)} : Unaffected(t)
  BY <1>5, <1>7 DEF Unaffected
<1>9. ASSUME NEW j \in Claims', claim'[j].by # 0
      PROVE  j \in Claims /\ Leads(j, claim'[j].by) /\ claim'[claim'[j].by].status # "deleted"
  <2>1. j \in Claims /\ claim'[j].by = claim[j].by
    BY <1>3, <1>5
  <2>2. Leads(j, claim[j].by) /\ claim[claim[j].by].status # "deleted"
    BY <1>9, <2>1 DEF ClaimInv, Linked
  <2>3. claim[j].by \in Claims
    BY <2>2 DEF Leads
  <2>4. claim'[claim[j].by].status # "deleted"
    BY <1>3, <1>5, <2>2, <2>3
  <2> QED
    BY <2>1, <2>2, <2>4
<1>10. Linked'
  BY <1>6, <1>9, LinksStay
<1> QED
  BY <1>1, <1>5, <1>6, <1>8, <1>10 DEF ClaimTypeInv

\* Retracting or contradicting changes a status, and a pass follows.
LEMMA RetractInv ==
    ASSUME ClaimInv, NEW p \in Callers, NEW i \in Claims, RetractClaim(p, i) \/ ContradictClaim(p, i)
    PROVE  ClaimInv'
<1>1. /\ claim[i].status # "deleted" /\ ThenPass(p, Topic(i), {})
      /\ \E status \in {"retracted", "contradicted"} : claim' = [claim EXCEPT ![i].status = status]
  BY DEF RetractClaim, ContradictClaim
<1>2. Topic(i) \in Topics /\ Topic(i) \in Concerned(Topic(i))
  BY TopicShape DEF ClaimInv, ClaimTypeInv, Concerned
<1>3. PICK status \in Statuses : status # "deleted" /\ claim' = [claim EXCEPT ![i].status = status]
  BY <1>1 DEF Statuses
<1>4. /\ claim' \in Seq(ClaimRows) /\ Len(claim') <= MaxClaims /\ Grown /\ Linked'
      /\ \A t \in Topics \ {Topic(i)} : Unaffected(t)
  BY <1>1, <1>3, StatusChanges
<1> QED
  BY <1>1, <1>2, <1>4, ThenPassInv

\* Nobody's pass follows; whoever was writing is disturbed.
LEMMA UpdateClaimInv == ASSUME ClaimInv, NEW i \in Claims, UpdateClaim(i) PROVE ClaimInv'
<1>1. ClaimTypeInv /\ claim[i].status # "deleted"
  BY DEF ClaimInv, UpdateClaim
<1>2. /\ claim' \in Seq(ClaimRows) /\ Len(claim') <= MaxClaims /\ Grown /\ Linked'
      /\ \A t \in Topics \ {Topic(i)} : Unaffected(t)
  BY <1>1, StatusChanges DEF UpdateClaim, Statuses
<1>3. call' = Disturbed({Topic(i)}) /\ calm' = calm \ {Topic(i)}
  BY DEF UpdateClaim
<1>4. call' \in [Callers -> Calls]
  BY <1>1, <1>3, DisturbedCalls
<1>5. \A q \in Callers :
        GoesOn(q) /\ (call'[q].clean /\ call[q].at = "write" => call[q].topic \notin {Topic(i)})
  BY <1>1, <1>3, DisturbedCalls DEF GoesOn
<1> QED
  BY <1>2, <1>3, <1>4, <1>5, OperationInv

\* Nothing points to a deleted claim; what pointed to it, or was taken away by
\* it, is of its topic or the date of its subject.
LEMMA DeleteClaimInv ==
    ASSUME ClaimInv, NEW p \in Callers, NEW i \in Claims, DeleteClaim(p, i)
    PROVE  ClaimInv'
<1>1. /\ ClaimTypeInv /\ claim \in Seq(ClaimRows) /\ Len(claim) \in Nat /\ Len(claim) <= MaxClaims
      /\ Topic(i) \in Topics /\ ThenPass(p, Topic(i), {}) /\ i # 0
  BY TopicShape, ClaimNumbers DEF ClaimInv, ClaimTypeInv, DeleteClaim
<1> DEFINE Gone == [claim[i] EXCEPT !.status = "deleted", !.by = 0]
           Cleared(j) == [claim[j] EXCEPT !.by = 0]
<1>2. /\ Gone \in ClaimRows /\ Gone.subject = claim[i].subject /\ Gone.said = claim[i].said
      /\ Gone.stated = claim[i].stated /\ Gone.by = 0
  <2>1. 0 \in 0 .. MaxClaims
    BY ClaimAssumption
  <2>2. claim[i] \in ClaimRows
    BY <1>1, RowShape
  <2> QED
    BY <2>1, <2>2 DEF ClaimRows, Statuses
<1>3. ASSUME NEW j \in Claims
      PROVE  /\ Cleared(j) \in ClaimRows /\ Cleared(j).subject = claim[j].subject
             /\ Cleared(j).said = claim[j].said /\ Cleared(j).stated = claim[j].stated
             /\ Cleared(j).by = 0 /\ Cleared(j).status = claim[j].status /\ claim[j] \in ClaimRows
  <2>1. 0 \in 0 .. MaxClaims
    BY ClaimAssumption
  <2>2. claim[j] \in ClaimRows
    BY <1>1, RowShape
  <2> QED
    BY <2>1, <2>2 DEF ClaimRows
<1>4. claim' = [j \in Claims |-> IF j = i THEN Gone ELSE IF claim[j].by = i THEN Cleared(j) ELSE claim[j]]
  BY DEF DeleteClaim, WithoutRow
<1> HIDE DEF Gone, Cleared
<1>5. ASSUME NEW j \in Claims
      PROVE  /\ claim'[j] \in ClaimRows /\ claim'[j].subject = claim[j].subject
             /\ claim'[j].said = claim[j].said /\ claim'[j].stated = claim[j].stated
             /\ claim'[j].by = 0 \/ (claim'[j].by = claim[j].by /\ claim[j].by # i)
             /\ j # i => claim'[j].status = claim[j].status
             /\ j # i /\ claim[j].by # i => claim'[j] = claim[j]
  BY <1>2, <1>3, <1>4
<1>6. claim' \in [1 .. Len(claim) -> ClaimRows]
  <2> HIDE DEF ClaimRows
  <2> QED
    BY <1>4, <1>5 DEF Claims
<1>7. claim' \in Seq(ClaimRows) /\ Len(claim') = Len(claim) /\ Claims' = Claims
  <2> HIDE DEF ClaimRows
  <2> QED
    BY <1>1, <1>6 DEF Claims
<1>8. Grown
  BY <1>5, <1>7 DEF Grown
<1>9. ASSUME NEW t \in Topics \ (Concerned(Topic(i)) \union {}) PROVE Unaffected(t)
  <2>1. t # Topic(i) /\ t # <<claim[i].subject, "due">>
    BY <1>1, ConcernedAre
  <2>2. ASSUME NEW j \in Claims, Topic(j) = t PROVE j # i /\ claim[j].by # i
    <3>1. ASSUME claim[j].by = i PROVE FALSE
      <4>1. Leads(j, i)
        BY <1>1, <3>1 DEF ClaimInv, Linked
      <4> QED
        BY <2>1, <2>2, <4>1 DEF Leads, Topic
    <3> QED
      BY <2>1, <2>2, <3>1
  <2>3. ASSUME NEW d \in Claims, Topic(d) = t PROVE Removals(d)' = Removals(d)
    <3>1. CASE claim[d].said.about # "due"
      BY <1>5, <3>1 DEF Removals
    <3>2. CASE claim[d].said.about = "due"
      <4>1. Topic(i) # <<claim[d].subject, "status">>
        BY <2>1, <2>3, <3>2 DEF Topic
      <4>2. /\ \A r \in Claims : Topic(r) = <<claim[d].subject, "status">> =>
                  (claim'[r].status = "deleted" <=> claim[r].status = "deleted")
            /\ \A r \in Claims' : r \in Claims
        BY <1>5, <1>7, <4>1
      <4> QED
        BY <1>8, <4>2, RemovalsStand
    <3> QED
      BY <3>1, <3>2
  <2> QED
    BY <1>5, <1>7, <2>2, <2>3 DEF Unaffected
<1>10. ASSUME NEW j \in Claims', claim'[j].by # 0
       PROVE  j \in Claims /\ Leads(j, claim'[j].by) /\ claim'[claim'[j].by].status # "deleted"
  <2>1. j \in Claims /\ claim'[j].by = claim[j].by /\ claim[j].by # i
    BY <1>5, <1>7, <1>10
  <2>2. Leads(j, claim[j].by) /\ claim[claim[j].by].status # "deleted" /\ claim[j].by \in Claims
    BY <1>10, <2>1 DEF ClaimInv, Linked, Leads
  <2> QED
    BY <1>5, <2>1, <2>2
<1>11. Linked'
  BY <1>8, <1>10, LinksStay
<1>12. Len(claim') <= MaxClaims /\ claim' \in Seq(ClaimRows)
  BY <1>1, <1>7
<1> QED
  BY <1>1, <1>8, <1>9, <1>11, <1>12, ThenPassInv

\* The original and its replacement are of two topics at most; the replacement,
\* being the user's, takes nothing away.
LEMMA ReattributeClaimInv ==
    ASSUME ClaimInv, NEW p \in Callers, NEW i \in Claims, NEW s \in Subjects, ReattributeClaim(p, i, s)
    PROVE  ClaimInv'
<1> DEFINE t == <<s, claim[i].said.about>>
           said == [claim[i].said EXCEPT !.kind = "user"]
<1>1. /\ ClaimTypeInv /\ claim \in Seq(ClaimRows) /\ Len(claim) < MaxClaims /\ MaxClaims \in Nat
      /\ Len(claim) \in Nat /\ claim[i].status = "active" /\ Claims = 1 .. Len(claim)
      /\ claim[i].stated \in Times /\ claim[i].dated \in BOOLEAN /\ claim[i].said \in Statements
  BY RowShape, ClaimAssumption, ClaimNumbers DEF ClaimInv, ClaimTypeInv, ReattributeClaim, Claims
<1>2. said \in Statements /\ said.about = claim[i].said.about /\ said.kind = "user" /\ t \in Topics
  BY <1>1, StatementShape DEF Topics
<1> HIDE DEF said
<1> DEFINE old == [claim[i] EXCEPT !.status = "retracted"]
           new == NewClaim(s, said, claim[i].stated, claim[i].dated)
           rows == [claim EXCEPT ![i] = old]
<1>3. /\ old \in ClaimRows /\ old.subject = claim[i].subject /\ old.said = claim[i].said
      /\ old.stated = claim[i].stated /\ old.by = claim[i].by /\ old.status = "retracted"
  BY <1>1, RowShape DEF ClaimRows, Statuses
<1>4. new \in ClaimRows /\ new.subject = s /\ new.by = 0 /\ new.said = said
  BY <1>1, <1>2 DEF NewClaim, ClaimRows, Statuses
<1>5. claim' = Append(rows, new) /\ ThenPass(p, t, {Topic(i)})
  BY DEF ReattributeClaim, said
<1> HIDE DEF old, new
<1>6. /\ rows \in Seq(ClaimRows) /\ Len(rows) = Len(claim) /\ rows[i] = old
      /\ \A j \in Claims \ {i} : rows[j] = claim[j]
  <2> HIDE DEF ClaimRows
  <2> QED
    BY <1>1, <1>3
<1> HIDE DEF rows
<1>7. /\ claim' \in Seq(ClaimRows) /\ Len(claim') = Len(claim) + 1
      /\ Claims' = (1 .. Len(claim)) \union {Len(claim) + 1}
      /\ claim'[Len(claim) + 1] = new /\ claim'[i] = old
      /\ \A j \in Claims \ {i} : claim'[j] = claim[j]
  <2>1. /\ claim' \in Seq(ClaimRows) /\ Len(claim') = Len(rows) + 1
        /\ Claims' = (1 .. Len(rows)) \union {Len(rows) + 1}
        /\ claim'[Len(rows) + 1] = new /\ \A j \in 1 .. Len(rows) : claim'[j] = rows[j]
    BY <1>4, <1>5, <1>6, RowAdded
  <2>2. Len(rows) = Len(claim) /\ \A j \in Claims : j \in 1 .. Len(rows)
    BY <1>1, <1>6
  <2> QED
    BY <1>6, <2>1, <2>2
<1>8. Grown
  BY <1>1, <1>3, <1>7 DEF Grown
<1>9. ASSUME NEW r \in Topics \ (Concerned(t) \union {Topic(i)}) PROVE Unaffected(r)
  <2>1. r # t /\ r # Topic(i)
    BY DEF Concerned
  <2>2. PICK n : n = Len(claim) + 1
    OBVIOUS
  <2>3. /\ n \notin Claims /\ Claims' = Claims \union {n}
        /\ claim'[n].subject = s /\ claim'[n].said.about = claim[i].said.about
        /\ claim'[n].said.kind = "user"
    BY <1>1, <1>2, <1>4, <1>7, <2>2
  <2>4. /\ \A j \in Claims : Topic(j) = r => claim'[j] = claim[j]
        /\ \A j \in Claims : claim'[j].status = "deleted" <=> claim[j].status = "deleted"
    BY <1>1, <1>3, <1>7, <2>1
  <2> QED
    BY <1>8, <2>1, <2>3, <2>4, AddedStands
<1>10. ASSUME NEW j \in Claims', claim'[j].by # 0
       PROVE  j \in Claims /\ Leads(j, claim'[j].by) /\ claim'[claim'[j].by].status # "deleted"
  <2>1. j \in Claims /\ claim'[j].by = claim[j].by
    BY <1>1, <1>3, <1>4, <1>7, <1>10
  <2>2. Leads(j, claim[j].by) /\ claim[claim[j].by].status # "deleted" /\ claim[j].by \in Claims
    BY <1>10, <2>1 DEF ClaimInv, Linked, Leads
  <2>3. claim'[claim[j].by].status # "deleted"
    BY <1>3, <1>7, <2>2
  <2> QED
    BY <2>1, <2>2, <2>3
<1>11. Linked'
  BY <1>8, <1>10, LinksStay
<1>12. Len(claim') <= MaxClaims
  BY <1>1, <1>7
<1> QED
  BY <1>2, <1>5, <1>7, <1>8, <1>9, <1>11, <1>12, ThenPassInv

-----------------------------------------------------------------------------
(* The pass.                                                               *)

\* If no claim changes, nothing is touched.
LEMMA NothingWritten ==
    ASSUME UNCHANGED claim
    PROVE  /\ Claims' = Claims /\ Grown /\ \A t : Unaffected(t)
           /\ ClaimTypeInv => \A t \in Topics : /\ Settlements(t)' = Settlements(t)
                                                /\ \A st \in Settlements(t) : Differing(st)' = Differing(st)
<1>1. Claims' = Claims /\ Grown
  BY DEF Claims, Grown
<1>2. \A i \in Claims : Topic(i)' = Topic(i) /\ Removals(i)' = Removals(i)
  BY <1>1 DEF Topic, Removals
<1>3. \A t : Unaffected(t)
  BY <1>1, <1>2 DEF Unaffected
<1> QED
  BY <1>1, <1>3, UntouchedStands

\* A step of a caller that changes no claim.
LEMMA OwnStep ==
    ASSUME ClaimInv, UNCHANGED claim, NEW p \in Callers, NEW next \in Calls,
           next.at # "idle" => next.topic \in Topics,
           call' = [call EXCEPT ![p] = next], calm' \subseteq Topics, CalmIsDone',
           PlanIsSound(p)', CleanPlanIsComplete(p)'
    PROVE  ClaimInv'
<1>1. Claims' = Claims /\ Grown /\ \A t : Unaffected(t)
  BY NothingWritten
<1>2. call \in [Callers -> Calls] /\ ClaimTypeInv
  BY DEF ClaimInv, ClaimTypeInv
<1>3. call' \in [Callers -> Calls] /\ call'[p] = next /\ \A q \in Callers \ {p} : call'[q] = call[q]
  BY <1>2
<1>4. ClaimTypeInv'
  BY <1>2, <1>3 DEF ClaimTypeInv
<1>5. \A q \in Callers \ {p} : PlanIsSound(q)' /\ CleanPlanIsComplete(q)'
  BY <1>1, <1>3, CallsGoOn DEF GoesOn
<1>6. Linked'
  BY <1>1 DEF ClaimInv, Linked, Leads, Progress
<1> QED
  BY <1>4, <1>5, <1>6 DEF ClaimInv

\* What a pass reads is sound, and complete.
LEMMA RecomputeInv == ASSUME ClaimInv, NEW p \in Callers, Recompute(p) PROVE ClaimInv'
<1>1. /\ ClaimTypeInv /\ call[p] \in Calls /\ call \in [Callers -> Calls]
      /\ call[p].topic \in Topics /\ UNCHANGED <<claim, calm>>
  BY DEF ClaimInv, ClaimTypeInv, Recompute
<1>2. PICK t \in Topics : t = call[p].topic
  BY <1>1
<1>3. PICK st \in Settlements(t) : \E carried \in SUBSET Carrying(st) :
         call' = [call EXCEPT ![p].at = "write", ![p].clean = TRUE,
                              ![p].plan = Differing(st) \union carried]
  BY <1>2 DEF Recompute
<1>4. PICK carried \in SUBSET Carrying(st) :
         call' = [call EXCEPT ![p].at = "write", ![p].clean = TRUE,
                              ![p].plan = Differing(st) \union carried]
  BY <1>3
<1>5. PICK plan : plan = Differing(st) \union carried
  OBVIOUS
<1>6. Differing(st) \subseteq plan /\ plan \subseteq st /\ st \subseteq Update
  <2>1. Differing(st) \subseteq st /\ Carrying(st) \subseteq st
    BY DEF Differing, Carrying
  <2> QED
    BY <1>1, <1>5, <2>1, SettlementIsTyped
<1> DEFINE next == [call[p] EXCEPT !.at = "write", !.clean = TRUE, !.plan = plan]
<1>7. /\ next \in Calls /\ next.at = "write" /\ next.topic = t /\ next.plan = plan /\ next.clean
  <2> HIDE DEF Update
  <2> QED
    BY <1>1, <1>2, <1>6 DEF Calls
<1>8. call' = [call EXCEPT ![p] = next]
  BY <1>4, <1>5
<1> HIDE DEF next
<1>9. call' \in [Callers -> Calls] /\ call'[p] = next
  BY <1>1, <1>7, <1>8
<1>10. /\ \A r \in Topics : /\ Settlements(r)' = Settlements(r)
                            /\ \A s \in Settlements(r) : Differing(s)' = Differing(s)
       /\ Claims' = Claims
  BY <1>1, NothingWritten
<1>11. CleanPlanIsComplete(p)'
  <2>1. st \in Settlements(t)' /\ plan \subseteq st /\ Differing(st)' \subseteq plan
    BY <1>6, <1>10
  <2> QED
    BY <1>7, <1>9, <2>1 DEF CleanPlanIsComplete
<1>12. PlanIsSound(p)'
  <2>1. ASSUME NEW u \in plan
        PROVE  u.id \in Claims /\ Topic(u.id) = t /\ (u.by # 0 => Leads(u.id, u.by))
    <3>1. u \in st
      BY <1>6
    <3> QED
      BY <1>1, <3>1, SettlementIs, LiveClaimsAre
  <2>2. \A i, j : /\ Topic(i)' = Topic(i)
                  /\ Leads(i, j)' <=> Leads(i, j)
    BY <1>1, <1>10 DEF Topic, Leads, Progress
  <2> QED
    BY <1>7, <1>9, <1>10, <2>1, <2>2 DEF PlanIsSound
<1>13. CalmIsDone'
  BY <1>1, <1>10 DEF ClaimInv, ClaimTypeInv, CalmIsDone
<1>14. calm' \subseteq Topics
  BY <1>1 DEF ClaimTypeInv
<1> QED
  BY <1>1, <1>7, <1>8, <1>11, <1>12, <1>13, <1>14, OwnStep

\* A caller that stops, dies, or goes on to another pass, writes nothing more.
LEMMA CallerStops ==
    ASSUME ClaimInv, NEW p \in Callers, UNCHANGED claim, NEW next \in Calls, next.at # "write",
           next.at # "idle" => next.topic \in Topics, call' = [call EXCEPT ![p] = next],
           calm' \subseteq Topics,
           \A t \in calm' : \E st \in Settlements(t) : Differing(st) = {}
    PROVE  ClaimInv'
<1>1. ClaimTypeInv /\ call'[p] = next
  BY DEF ClaimInv, ClaimTypeInv
<1>2. CalmIsDone'
  <2>1. ASSUME NEW t \in calm' PROVE \E st \in Settlements(t)' : Differing(st)' = {}
    <3>1. PICK st \in Settlements(t) : Differing(st) = {}
      OBVIOUS
    <3>2. t \in Topics
      OBVIOUS
    <3>3. Settlements(t)' = Settlements(t) /\ Differing(st)' = Differing(st)
      BY <1>1, <3>2, NothingWritten
    <3> QED
      BY <3>1, <3>3
  <2> QED
    BY <2>1 DEF CalmIsDone
<1>3. PlanIsSound(p)' /\ CleanPlanIsComplete(p)'
  BY <1>1 DEF PlanIsSound, CleanPlanIsComplete
<1> QED
  BY <1>2, <1>3, OwnStep

\* A clean pass that has written everything leaves its topic settled.
LEMMA ReturnInv == ASSUME ClaimInv, NEW p \in Callers, Return(p) \/ Crash(p) PROVE ClaimInv'
<1>1. /\ ClaimTypeInv /\ calm \subseteq Topics /\ IdleCall \in Calls /\ IdleCall.at = "idle"
      /\ \A t \in calm : \E st \in Settlements(t) : Differing(st) = {}
  BY DEF IdleCall, Calls, ClaimInv, ClaimTypeInv, CalmIsDone
<1>2. CASE Crash(p)
  <2>1. UNCHANGED claim /\ calm' = calm /\ call' = [call EXCEPT ![p] = IdleCall]
    BY <1>2 DEF Crash
  <2> QED
    BY <1>1, <2>1, CallerStops
<1>3. CASE Return(p)
  <2>1. PICK t \in Topics : t = call[p].topic
    BY <1>3 DEF Return, ClaimInv, ClaimTypeInv
  <2>2. <<t[1], "due">> \in Topics
    BY DEF Topics
  <2>3. PICK next : next = IF t[2] = "status" THEN PassOn(<<t[1], "due">>) ELSE IdleCall
    OBVIOUS
  <2>4. next \in Calls /\ next.at # "write" /\ (next.at # "idle" => next.topic \in Topics)
    BY <1>1, <2>2, <2>3, PassIsACall
  <2>5. /\ UNCHANGED claim /\ call[p].at = "write" /\ call[p].plan = {}
        /\ call' = [call EXCEPT ![p] = next] /\ CleanPlanIsComplete(p)
        /\ calm' = IF call[p].clean THEN calm \union {t} ELSE calm
    BY <1>3, <2>1, <2>3 DEF Return, ClaimInv
  <2>6. ASSUME call[p].clean PROVE \E st \in Settlements(t) : Differing(st) = {}
    BY <2>1, <2>5, <2>6 DEF CleanPlanIsComplete
  <2>7. \A r \in calm' : \E st \in Settlements(r) : Differing(st) = {}
    BY <1>1, <2>5, <2>6
  <2>8. calm' \subseteq Topics
    BY <1>1, <2>5
  <2> QED
    BY <2>4, <2>5, <2>7, <2>8, CallerStops
<1> QED
  BY <1>2, <1>3

\* What a pass has left to write after one update.
LEMMA PlanShrinks ==
    ASSUME ClaimTypeInv, NEW p \in Callers, NEW u, call[p].at = "write",
           NEW base \in [Callers -> Calls],
           call' = [base EXCEPT ![p] = [call[p] EXCEPT !.plan = @ \ {u}]]
    PROVE  /\ call' \in [Callers -> Calls]
           /\ call'[p].at = "write" /\ call'[p].topic = call[p].topic
           /\ call'[p].clean = call[p].clean /\ call'[p].plan = call[p].plan \ {u}
           /\ \A q \in Callers \ {p} : call'[q] = base[q]
<1>1. call[p] \in Calls
  BY DEF ClaimTypeInv
<1> DEFINE next == [call[p] EXCEPT !.plan = call[p].plan \ {u}]
<1>2. /\ next \in Calls /\ next.at = "write" /\ next.topic = call[p].topic
      /\ next.clean = call[p].clean /\ next.plan = call[p].plan \ {u}
  BY <1>1 DEF Calls
<1>3. call' = [base EXCEPT ![p] = next]
  OBVIOUS
<1> HIDE DEF next
<1> QED
  BY <1>2, <1>3

\* An update that reaches its row gives it what the settlement says, if the pass
\* is clean, and a pointer that may be there, if it is not.
LEMMA UpdateReaches ==
    ASSUME ClaimInv, NEW p \in Callers, NEW u \in call[p].plan, NEW t \in Topics,
           call[p].at = "write", call[p].topic = t,
           claim[u.id].status # "deleted", u.by = 0 \/ claim[u.by].status # "deleted",
           claim' = [claim EXCEPT ![u.id] = Written(@, u)],
           call' = [Disturbed({t}) EXCEPT ![p] = [call[p] EXCEPT !.plan = @ \ {u}]],
           calm' = calm \ {t}
    PROVE  ClaimInv'
<1>1. /\ ClaimTypeInv /\ claim \in Seq(ClaimRows) /\ u \in Update /\ u.id \in Claims
      /\ Topic(u.id) = t /\ (u.by # 0 => Leads(u.id, u.by))
      /\ PlanIsSound(p) /\ CleanPlanIsComplete(p)
  BY DEF ClaimInv, ClaimTypeInv, Calls, PlanIsSound
<1> DEFINE row == Written(claim[u.id], u)
<1>2. /\ row \in ClaimRows /\ row.subject = claim[u.id].subject /\ row.said = claim[u.id].said
      /\ row.stated = claim[u.id].stated /\ row.by = u.by /\ row.status = u.status
      /\ row.dated = TRUE /\ u.status \in {"active", "superseded"}
  BY <1>1, RowShape DEF Written, ClaimRows, Update, Statuses
<1>3. claim' = [claim EXCEPT ![u.id] = row]
  OBVIOUS
<1> HIDE DEF row
<1>4. /\ claim' \in Seq(ClaimRows) /\ Len(claim') = Len(claim) /\ Claims' = Claims
      /\ claim'[u.id] = row /\ \A j \in Claims \ {u.id} : claim'[j] = claim[j]
  BY <1>1, <1>2, <1>3, RowReplaced
<1>5. Grown
  BY <1>2, <1>4 DEF Grown
<1>6. \A d \in Claims : Removals(d)' = Removals(d)
  BY <1>2, <1>4, <1>5, RemovalsStand
<1>7. \A r \in Topics \ {t} : Unaffected(r)
  BY <1>1, <1>4, <1>6 DEF Unaffected
<1>8. ASSUME NEW j \in Claims', claim'[j].by # 0
      PROVE  j \in Claims /\ Leads(j, claim'[j].by) /\ claim'[claim'[j].by].status # "deleted"
  <2>1. CASE j = u.id
    <3>1. Leads(j, u.by) /\ claim'[j].by = u.by /\ claim[u.by].status # "deleted" /\ u.by \in Claims
      BY <1>1, <1>2, <1>4, <1>8, <2>1 DEF Leads
    <3> QED
      BY <1>2, <1>4, <3>1
  <2>2. CASE j # u.id
    <3>1. j \in Claims /\ claim'[j] = claim[j]
      BY <1>4, <2>2
    <3>2. Leads(j, claim[j].by) /\ claim[claim[j].by].status # "deleted" /\ claim[j].by \in Claims
      BY <1>8, <3>1 DEF ClaimInv, Linked, Leads
    <3> QED
      BY <1>2, <1>4, <3>1, <3>2
  <2> QED
    BY <2>1, <2>2
<1>9. Linked'
  BY <1>5, <1>8, LinksStay
<1>10. /\ call' \in [Callers -> Calls]
       /\ call'[p].at = "write" /\ call'[p].topic = t
       /\ call'[p].clean = call[p].clean /\ call'[p].plan = call[p].plan \ {u}
       /\ \A q \in Callers \ {p} : call'[q] = Disturbed({t})[q]
  <2>1. Disturbed({t}) \in [Callers -> Calls]
    BY <1>1, DisturbedCalls
  <2> QED
    BY <1>1, <2>1, PlanShrinks
<1>11. ClaimTypeInv'
  <2>1. ASSUME NEW q \in Callers, call'[q].at # "idle" PROVE call'[q].topic \in Topics
    BY <1>1, <1>10, <2>1, DisturbedCalls DEF ClaimTypeInv
  <2> QED
    BY <1>1, <1>4, <1>10, <2>1 DEF ClaimTypeInv
<1>12. ASSUME NEW q \in Callers \ {p} PROVE PlanIsSound(q)' /\ CleanPlanIsComplete(q)'
  <2>1. CASE call[q].at # "write"
    <3>1. call'[q].at # "write"
      BY <1>1, <1>10, <2>1, DisturbedCalls
    <3> QED
      BY <1>5, <3>1, CallsGoOn
  <2>2. CASE call[q].at = "write"
    <3>1. call[q].topic \in Topics
      BY <1>1, <2>2 DEF ClaimTypeInv
    <3>2. GoesOn(q) /\ (call'[q].clean => call[q].topic # t)
      BY <1>1, <1>10, <2>2, DisturbedCalls DEF GoesOn
    <3>3. call'[q].clean => Unaffected(call[q].topic)
      BY <1>7, <3>1, <3>2
    <3> QED
      BY <1>5, <3>2, <3>3, CallsGoOn
  <2> QED
    BY <2>1, <2>2
<1>13. PlanIsSound(p)'
  <2>1. \A v \in call[p].plan : /\ v.id \in Claims /\ Topic(v.id) = t
                                /\ v.by # 0 => Leads(v.id, v.by)
    BY <1>1 DEF PlanIsSound
  <2>2. /\ \A i \in Claims : i \in Claims' /\ Topic(i)' = Topic(i)
        /\ \A i \in Claims : \A j : Leads(i, j) => Leads(i, j)'
    BY <1>5 DEF Grown, Topic, Leads, Progress
  <2> QED
    BY <1>10, <2>1, <2>2 DEF PlanIsSound
<1>14. CleanPlanIsComplete(p)'
  <2> SUFFICES ASSUME call[p].clean
               PROVE  \E st \in Settlements(t)' :
                         call'[p].plan \subseteq st /\ Differing(st)' \subseteq call'[p].plan
    BY <1>10 DEF CleanPlanIsComplete
  <2>1. PICK st \in Settlements(t) : call[p].plan \subseteq st /\ Differing(st) \subseteq call[p].plan
    BY <1>1 DEF CleanPlanIsComplete
  <2>2. u.id \in LiveClaims(t) /\ u \in st
    BY <1>1, <2>1, SettlementIs
  <2>3. LiveClaims(t)' = LiveClaims(t)
    <3>1. \A i \in Claims : Topic(i)' = Topic(i)
      BY <1>5 DEF Grown, Topic
    <3>2. \A i : i \in LiveClaims(t)' <=>
            i \in Claims' /\ Topic(i)' = t /\ claim'[i].status \in {"active", "superseded"}
      BY DEF LiveClaims, Of
    <3>3. \A i : i \in LiveClaims(t) <=>
            i \in Claims /\ Topic(i) = t /\ claim[i].status \in {"active", "superseded"}
      BY LiveClaimsAre
    <3>4. \A i : i \in LiveClaims(t)' <=> i \in LiveClaims(t)
      BY <1>2, <1>4, <2>2, <3>1, <3>2, <3>3
    <3> QED
      BY <3>4
  <2>4. Settlements(t)' = Settlements(t)
    <3>1. \A i \in LiveClaims(t) : Removals(i)' = Removals(i)
      BY <1>6, LiveClaimsAre
    <3> QED
      BY <1>1, <1>5, <2>3, <3>1, SettlementsStand
  <2>5. ASSUME NEW v \in Differing(st)' PROVE v \in call'[p].plan
    <3>1. /\ v \in st
          /\ claim'[v.id].status # v.status \/ claim'[v.id].by # v.by \/ ~claim'[v.id].dated
      BY <2>5 DEF Differing
    <3>2. v.id # u.id
      <4>1. CASE v.id = u.id
        <5>1. v.by = u.by /\ v.status = u.status
          BY <1>1, <2>2, <3>1, <4>1, SettlementIs
        <5> QED
          BY <1>2, <1>4, <3>1, <4>1, <5>1
      <4> QED
        BY <4>1
    <3>3. claim'[v.id] = claim[v.id]
      <4>1. v.id \in Claims
        BY <1>1, <3>1, SettlementIs, LiveClaimsAre
      <4> QED
        BY <1>4, <3>2, <4>1
    <3>4. v \in Differing(st)
      BY <3>1, <3>3 DEF Differing
    <3> QED
      BY <1>10, <2>1, <3>2, <3>4
  <2>6. call'[p].plan \subseteq st
    BY <1>10, <2>1
  <2> QED
    BY <2>4, <2>5, <2>6
<1>15. CalmIsDone'
  <2>1. \A r \in calm' : r \in calm /\ Unaffected(r)
    BY <1>1, <1>7 DEF ClaimTypeInv
  <2> QED
    BY <1>5, <2>1, CalmStays
<1> QED
  BY <1>9, <1>11, <1>12, <1>13, <1>14, <1>15 DEF ClaimInv

\* An update that finds its row deleted, or its pointer refused, changes
\* nothing; it is not of a clean pass.
LEMMA WriteUpdateInv ==
    ASSUME ClaimInv, NEW p \in Callers, NEW u \in call[p].plan, WriteUpdate(p, u)
    PROVE  ClaimInv'
<1>1. /\ ClaimTypeInv /\ call[p].at = "write" /\ call[p].topic \in Topics
      /\ PlanIsSound(p) /\ CleanPlanIsComplete(p) /\ call \in [Callers -> Calls]
  BY DEF ClaimInv, ClaimTypeInv, WriteUpdate
<1>2. PICK t \in Topics : t = call[p].topic
  BY <1>1
<1>3. CASE claim[u.id].status # "deleted" /\ (u.by = 0 \/ claim[u.by].status # "deleted")
  <2>1. /\ claim' = [claim EXCEPT ![u.id] = Written(@, u)] /\ calm' = calm \ {t}
        /\ call' = [Disturbed({t}) EXCEPT ![p] = [call[p] EXCEPT !.plan = @ \ {u}]]
    BY <1>2, <1>3 DEF WriteUpdate
  <2> QED
    BY <1>1, <1>2, <1>3, <2>1, UpdateReaches
<1>4. CASE ~(claim[u.id].status # "deleted" /\ (u.by = 0 \/ claim[u.by].status # "deleted"))
  <2>1. /\ claim' = claim /\ calm' = calm
        /\ call' = [call EXCEPT ![p] = [call[p] EXCEPT !.plan = @ \ {u}]]
    BY <1>4 DEF WriteUpdate
  <2>2. /\ call' \in [Callers -> Calls]
        /\ call'[p].at = "write" /\ call'[p].topic = t
        /\ call'[p].clean = call[p].clean /\ call'[p].plan = call[p].plan \ {u}
    BY <1>1, <1>2, <2>1, PlanShrinks
  <2>3. ~call[p].clean
    <3>1. ASSUME call[p].clean PROVE FALSE
      <4>1. PICK st \in Settlements(t) : call[p].plan \subseteq st
        BY <1>1, <1>2, <3>1 DEF CleanPlanIsComplete
      <4>2. /\ u.id \in LiveClaims(t)
            /\ u.by # 0 => claim[u.by].status # "deleted"
        BY <1>1, <4>1, SettlementIs
      <4> QED
        BY <1>4, <4>2, LiveClaimsAre
    <3> QED
      BY <3>1
  <2>4. CleanPlanIsComplete(p)'
    BY <2>2, <2>3 DEF CleanPlanIsComplete
  <2>5. PlanIsSound(p)'
    <3>1. /\ Claims' = Claims
          /\ \A i, j : Topic(i)' = Topic(i) /\ (Leads(i, j)' <=> Leads(i, j))
      BY <2>1 DEF Claims, Topic, Leads, Progress
    <3>2. \A v \in call[p].plan : v.id \in Claims /\ Topic(v.id) = t /\ (v.by # 0 => Leads(v.id, v.by))
      BY <1>1, <1>2 DEF PlanIsSound
    <3> QED
      BY <2>2, <3>1, <3>2 DEF PlanIsSound
  <2>6. CalmIsDone'
    <3>1. Grown /\ \A r \in calm' : r \in calm /\ Unaffected(r)
      BY <2>1, NothingWritten
    <3> QED
      BY <3>1, CalmStays
  <2>7. PICK next \in Calls : next = call'[p] /\ call' = [call EXCEPT ![p] = next]
    <3>1. call' = [call EXCEPT ![p] = call'[p]]
      BY <1>1, <2>1
    <3> QED
      BY <2>2, <3>1
  <2>8. calm' \subseteq Topics
    BY <1>1, <2>1 DEF ClaimTypeInv
  <2> QED
    BY <1>1, <1>2, <2>1, <2>2, <2>4, <2>5, <2>6, <2>7, <2>8, OwnStep
<1> QED
  BY <1>3, <1>4

-----------------------------------------------------------------------------
(* The theorems.                                                           *)

\* The invariant holds where a behaviour begins.
LEMMA InitInv == ClaimInit => ClaimInv
<1> SUFFICES ASSUME ClaimInit PROVE ClaimInv
  OBVIOUS
<1>1. claim = <<>> /\ calm = {} /\ call = [p \in Callers |-> IdleCall]
  BY DEF ClaimInit
<1>2. claim \in Seq(ClaimRows) /\ Len(claim) = 0 /\ Claims = {}
  <2> HIDE DEF ClaimRows
  <2> QED
    BY <1>1 DEF Claims
<1>3. IdleCall \in Calls /\ IdleCall.at = "idle"
  BY DEF IdleCall, Calls
<1>4. ClaimTypeInv
  BY <1>1, <1>2, <1>3, ClaimAssumption DEF ClaimTypeInv
<1>5. Linked /\ CalmIsDone /\ \A p \in Callers : PlanIsSound(p) /\ CleanPlanIsComplete(p)
  BY <1>1, <1>2, <1>3 DEF Linked, CalmIsDone, PlanIsSound, CleanPlanIsComplete
<1> QED
  BY <1>4, <1>5 DEF ClaimInv

\* A step that writes nothing at all.
LEMMA StutterInv == ASSUME ClaimInv, UNCHANGED claimVars PROVE ClaimInv'
<1>1. UNCHANGED <<claim, call, calm>> /\ ClaimTypeInv
  BY DEF claimVars, ClaimInv
<1>2. Grown /\ Claims' = Claims /\ \A t : Unaffected(t)
  BY <1>1, NothingWritten
<1>3. ClaimTypeInv'
  BY <1>1, <1>2 DEF ClaimTypeInv
<1>4. \A q \in Callers : PlanIsSound(q)' /\ CleanPlanIsComplete(q)'
  BY <1>1, <1>2, CallsGoOn DEF GoesOn
<1>5. CalmIsDone'
  BY <1>1, <1>2, CalmStays
<1>6. Linked'
  BY <1>1, <1>2 DEF ClaimInv, Linked, Leads, Progress
<1> QED
  BY <1>3, <1>4, <1>5, <1>6 DEF ClaimInv

\* Every step keeps the invariant.
LEMMA StepInv == ClaimInv /\ [ClaimNext]_claimVars => ClaimInv'
<1> SUFFICES ASSUME ClaimInv, [ClaimNext]_claimVars PROVE ClaimInv'
  OBVIOUS
<1>1. ASSUME NEW p \in Callers, NEW s \in Subjects, NEW said \in Told, NEW stated \in Times,
             NEW dated \in BOOLEAN, CreateClaim(p, s, said, stated, dated)
      PROVE  ClaimInv'
  BY <1>1, CreateClaimInv
<1>2. ASSUME NEW p \in Callers, NEW s \in Subjects, NEW i \in Claims, ReattributeClaim(p, i, s)
      PROVE  ClaimInv'
  BY <1>2, ReattributeClaimInv
<1>3. ASSUME NEW p \in Callers, NEW i \in Claims, DeleteClaim(p, i) PROVE ClaimInv'
  BY <1>3, DeleteClaimInv
<1>4. ASSUME NEW p \in Callers, NEW i \in Claims, RetractClaim(p, i) \/ ContradictClaim(p, i)
      PROVE  ClaimInv'
  BY <1>4, RetractInv
<1>5. ASSUME NEW p \in Callers, Recompute(p) PROVE ClaimInv'
  BY <1>5, RecomputeInv
<1>6. ASSUME NEW p \in Callers, NEW u \in call[p].plan, WriteUpdate(p, u) PROVE ClaimInv'
  BY <1>6, WriteUpdateInv
<1>7. ASSUME NEW p \in Callers, Return(p) \/ Crash(p) PROVE ClaimInv'
  BY <1>7, ReturnInv
<1>8. ASSUME NEW i \in Claims, UpdateClaim(i) \/ DismissCommitment(i) PROVE ClaimInv'
  BY <1>8, UpdateClaimInv DEF DismissCommitment
<1>9. CASE UNCHANGED claimVars
  BY <1>9, StutterInv
<1> QED
  BY <1>1, <1>2, <1>3, <1>4, <1>5, <1>6, <1>7, <1>8, <1>9 DEF ClaimNext

\* However operations and passes overlap: a pass writes pointers that may be
\* there, and a clean one has left what still differs from a settlement.
THEOREM ClaimInvariant == ClaimSpec => []ClaimInv
<1>1. ClaimInit => ClaimInv
  BY InitInv
<1>2. ClaimInv /\ [ClaimNext]_claimVars => ClaimInv'
  BY StepInv
<1> QED
  BY <1>1, <1>2, PTL DEF ClaimSpec

\* Every row is one the code can write, and no pointer is to a deleted claim.
THEOREM ClaimsAreTyped == ClaimSpec => []ClaimTypeOK
<1>1. ClaimInv => ClaimTypeOK
  <2> SUFFICES ASSUME ClaimInv PROVE ClaimTypeOK
    OBVIOUS
  <2>1. ASSUME NEW i \in Claims
        PROVE  /\ claim[i].by \in Claims \union {0}
               /\ claim[i].by # 0 => claim[claim[i].by].status # "deleted"
    BY DEF ClaimInv, Linked, Leads
  <2>2. ClaimTypeInv
    BY DEF ClaimInv
  <2> QED
    BY <2>1, <2>2 DEF ClaimTypeInv, ClaimRows, Statuses, Calls, ClaimTypeOK
<1> QED
  BY <1>1, ClaimInvariant, PTL

\* A user's own claim is superseded only by a claim of its topic, and by an
\* inferred one only if that is explicit progress from mail, however passes
\* overlap with each other and with every other write.
THEOREM UserClaimsStand == ClaimSpec => []UserNeverOverwritten
<1>1. ClaimInv => UserNeverOverwritten
  BY DEF ClaimInv, Linked, Leads, UserNeverOverwritten, Topic
<1> QED
  BY <1>1, ClaimInvariant, PTL

\* What a settlement without differences says of the live claims.
LEMMA SettledRows ==
    ASSUME ClaimInv, NEW t \in calm, LiveClaims(t) # {}
    PROVE  \E place \in Orders(t) : \E end \in Ends(t, place) :
              \A chain : chain = LiveClaims(t) \ Demoted(t, place) =>
                 \A i \in LiveClaims(t) :
                    /\ claim[i].by = Successor(chain, place, end, i)
                    /\ claim[i].status = IF claim[i].by = 0 THEN "active" ELSE "superseded"
<1>1. PICK st \in Settlements(t) : Differing(st) = {}
  BY DEF ClaimInv, CalmIsDone
<1>2. PICK place \in Orders(t) : \E end \in Ends(t, place) :
         st = Settlement(LiveClaims(t), Demoted(t, place), place, end)
  BY <1>1 DEF Settlements
<1>3. PICK end \in Ends(t, place) :
         st = Settlement(LiveClaims(t), Demoted(t, place), place, end)
  BY <1>2
<1>4. ASSUME NEW chain, chain = LiveClaims(t) \ Demoted(t, place), NEW i \in LiveClaims(t)
      PROVE  /\ claim[i].by = Successor(chain, place, end, i)
             /\ claim[i].status = IF claim[i].by = 0 THEN "active" ELSE "superseded"
  <2>1. \A u \in st : Prescribes(chain, place, end, u.id, u)
    BY <1>3, <1>4, SettlementHas
  <2>2. PICK u \in st : u.id = i
    <3>1. \A j \in LiveClaims(t) :
             \E u \in Settlement(LiveClaims(t), Demoted(t, place), place, end) : u.id = j
      BY SettlementHas
    <3> QED
      BY <1>3, <3>1
  <2>3. claim[i].status = u.status /\ claim[i].by = u.by
    BY <1>1, <2>2 DEF Differing
  <2>4. Prescribes(chain, place, end, i, u)
    BY <2>1, <2>2
  <2> QED
    BY <2>3, <2>4 DEF Prescribes
<1> QED
  BY <1>4

\* A topic whose latest pass was disturbed by nobody is settled: at most one
\* claim of it is active, and it is the one that counts.
THEOREM CalmSubjectsAreSettled == ClaimSpec => []CalmIsSettled
<1>1. ClaimInv => CalmIsSettled
  <2> SUFFICES ASSUME ClaimInv, NEW t \in calm
               PROVE  /\ \A a, b \in Of(t, {"active"}) : a = b
                      /\ Of(t, {"active"}) = {} /\ LiveClaims(t) # {} =>
                            \E d \in LiveClaims(t) : claim[d].by \in Removals(d)
                      /\ \A a \in Of(t, {"active"}) :
                            /\ ~Overruled(t, a) /\ Removals(a) = {}
                            /\ \A i \in LiveClaims(t) : Newer(t, i, a) => MayBeOverruled(t, i)
                      /\ \A i \in Of(t, {"superseded"}) :
                            \/ /\ claim[i].by \in LiveClaims(t)
                               /\ ~Newer(t, i, claim[i].by) \/ MayBeOverruled(t, i)
                            \/ claim[i].by \in Removals(i)
    BY DEF CalmIsSettled
  <2>1. /\ \A i : i \in Of(t, {"active"}) <=> i \in LiveClaims(t) /\ claim[i].status = "active"
        /\ \A i : i \in Of(t, {"superseded"}) <=> i \in LiveClaims(t) /\ claim[i].status = "superseded"
    BY DEF Of, LiveClaims
  <2>2. CASE LiveClaims(t) = {}
    BY <2>1, <2>2
  <2>3. CASE LiveClaims(t) # {}
    <3>1. ClaimTypeInv /\ t \in Topics /\ LiveClaims(t) \subseteq Claims /\ 0 \notin Claims
      BY LiveClaimsAre, ClaimNumbers DEF ClaimInv, ClaimTypeInv
    <3>2. PICK place \in Orders(t) : \E end \in Ends(t, place) :
             \A chain : chain = LiveClaims(t) \ Demoted(t, place) =>
                \A i \in LiveClaims(t) :
                   /\ claim[i].by = Successor(chain, place, end, i)
                   /\ claim[i].status = IF claim[i].by = 0 THEN "active" ELSE "superseded"
      BY <2>3, SettledRows
    <3>3. PICK chain : chain = LiveClaims(t) \ Demoted(t, place)
      OBVIOUS
    <3>4. PICK end \in Ends(t, place) : \A i \in LiveClaims(t) :
             /\ claim[i].by = Successor(chain, place, end, i)
             /\ claim[i].status = IF claim[i].by = 0 THEN "active" ELSE "superseded"
      BY <3>2, <3>3
    <3>5. PICK last : last = LastOf(chain, place)
      OBVIOUS
    <3>6. chain \subseteq LiveClaims(t) /\ chain # {}
      BY <2>3, <3>1, <3>3, ChainsAre
    <3>7. /\ last \in chain /\ \A j \in chain : place[j] <= place[last]
          /\ \A i \in chain : i # last =>
                NextOf(chain, place, i) \in chain /\ place[i] < place[NextOf(chain, place, i)]
      BY <3>1, <3>5, <3>6, ChainsHaveEnds
    <3>8. /\ end = 0 \/ end \in Removals(last)
          /\ end = 0 => Removals(last) = {}
      BY <2>3, <3>1, <3>3, <3>5, EndsAre
    <3>9. /\ \A i \in LiveClaims(t) : i \notin chain => claim[i].by = last
          /\ claim[last].by = end
          /\ \A i \in chain : i # last => claim[i].by \in chain /\ place[i] < place[claim[i].by]
      BY <3>4, <3>5, <3>6, <3>7 DEF Successor
    <3>10. /\ \A i \in LiveClaims(t) : place[i] \in Nat
           /\ \A i, j \in LiveClaims(t) : Newer(t, i, j) => place[j] < place[i]
      <4>1. \A i \in LiveClaims(t) : place[i] \in Nat
        BY <3>1, OrdersAre
      <4>2. \A i, j \in LiveClaims(t) : Newer(t, i, j) => ~(place[i] <= place[j])
        BY <3>1, OrdersKeepTime
      <4> QED
        BY <4>1, <4>2
    <3>11. ASSUME NEW i \in LiveClaims(t), i \notin chain PROVE MayBeOverruled(t, i)
      <4>1. PICK u \in chain : claim[u].said.kind = "user" /\ place[u] < place[i]
        BY <3>1, <3>3, <3>11, ChainsAre
      <4>2. claim[i].said.kind = "inferred" /\ ~Progress(i)
        BY <3>1, <3>3, <3>11, ChainsAre
      <4>3. u \in LiveClaims(t) \ {i} /\ ~Newer(t, u, i)
        BY <3>6, <3>10, <3>11, <4>1
      <4> QED
        BY <4>1, <4>2, <4>3 DEF MayBeOverruled, Yields
    <3>12. ASSUME NEW a \in Of(t, {"active"}) PROVE a = last /\ end = 0
      <4>1. a \in LiveClaims(t) /\ claim[a].by = 0
        BY <2>1, <3>4
      <4>2. \A j \in chain : j # 0
        BY <3>1, <3>6
      <4> QED
        BY <3>7, <3>9, <4>1, <4>2
    <3>13. ASSUME Of(t, {"active"}) = {} PROVE claim[last].by \in Removals(last)
      <4>1. claim[last].status # "active"
        BY <2>1, <3>6, <3>7, <3>13
      <4>2. claim[last].by # 0
        BY <3>4, <3>6, <3>7, <4>1
      <4> QED
        BY <3>8, <3>9, <4>2
    <3>14. ASSUME NEW a \in Of(t, {"active"})
           PROVE  /\ ~Overruled(t, a) /\ Removals(a) = {}
                  /\ \A i \in LiveClaims(t) : Newer(t, i, a) => MayBeOverruled(t, i)
      <4>1. a = last /\ Removals(a) = {} /\ a \in chain /\ a \in LiveClaims(t)
        BY <3>6, <3>7, <3>8, <3>12
      <4>2. ASSUME Overruled(t, a) PROVE FALSE
        <5>1. PICK u \in LiveClaims(t) : claim[u].said.kind = "user" /\ Newer(t, a, u)
          BY <4>2 DEF Overruled
        <5>2. place[u] < place[a] /\ claim[a].said.kind = "inferred" /\ ~Progress(a)
          BY <3>10, <4>1, <4>2, <5>1 DEF Overruled, Yields
        <5>3. a \in Demoted(t, place)
          BY <4>1, <5>1, <5>2 DEF Demoted
        <5> QED
          BY <3>3, <4>1, <5>3
      <4>3. ASSUME NEW i \in LiveClaims(t), Newer(t, i, a) PROVE MayBeOverruled(t, i)
        <5>1. place[a] < place[i]
          BY <3>10, <4>1, <4>3
        <5>2. i \notin chain
          BY <3>7, <3>10, <4>1, <5>1
        <5> QED
          BY <3>11, <5>2
      <4> QED
        BY <4>1, <4>2, <4>3
    <3>15. ASSUME NEW i \in Of(t, {"superseded"})
           PROVE  \/ /\ claim[i].by \in LiveClaims(t)
                     /\ ~Newer(t, i, claim[i].by) \/ MayBeOverruled(t, i)
                  \/ claim[i].by \in Removals(i)
      <4>1. i \in LiveClaims(t) /\ claim[i].by # 0
        BY <2>1, <3>4
      <4>2. CASE i \notin chain
        BY <3>6, <3>7, <3>9, <3>11, <4>1, <4>2
      <4>3. CASE i = last
        BY <3>8, <3>9, <4>1, <4>3
      <4>4. CASE i \in chain /\ i # last
        <5>1. claim[i].by \in LiveClaims(t) /\ place[i] < place[claim[i].by]
          BY <3>6, <3>9, <4>4
        <5>2. ~Newer(t, i, claim[i].by)
          BY <3>10, <4>1, <5>1
        <5> QED
          BY <5>1, <5>2
      <4> QED
        BY <4>2, <4>3, <4>4
    <3> QED
      BY <3>6, <3>7, <3>12, <3>13, <3>14, <3>15
  <2> QED
    BY <2>2, <2>3
<1> QED
  BY <1>1, ClaimInvariant, PTL

\* Only the update of a pass that was disturbed after it read makes a retracted
\* or contradicted claim speak again.
THEOREM RetractedStaysSilent == ClaimSpec => OnlyStalePassesRevive
<1>1. ClaimInv /\ [ClaimNext]_claimVars => [RevivedByStalePass]_claimVars
  <2> SUFFICES ASSUME ClaimInv, ClaimNext, NEW i \in Claims,
                      claim[i].status \in {"retracted", "contradicted"},
                      claim'[i].status \in {"active", "superseded"}
               PROVE  \E p \in Callers : call[p].at = "write" /\ ~call[p].clean
    BY DEF RevivedByStalePass
  <2>1. ClaimTypeInv /\ claim \in Seq(ClaimRows) /\ Claims = 1 .. Len(claim)
    BY DEF ClaimInv, ClaimTypeInv, Claims
  <2>2. ASSUME NEW p \in Callers, NEW u \in call[p].plan, WriteUpdate(p, u)
        PROVE  call[p].at = "write" /\ ~call[p].clean
    <3>1. call[p].at = "write" /\ PlanIsSound(p) /\ CleanPlanIsComplete(p) /\ call[p].topic \in Topics
      BY <2>2 DEF WriteUpdate, ClaimInv, ClaimTypeInv
    <3>2. u.id = i
      <4>1. u.id \in Claims
        BY <3>1 DEF PlanIsSound
      <4> QED
        BY <2>1, <2>2, <4>1 DEF WriteUpdate
    <3>3. ASSUME call[p].clean PROVE FALSE
      <4>1. PICK st \in Settlements(call[p].topic) : u \in st
        BY <3>1, <3>3 DEF CleanPlanIsComplete
      <4> QED
        BY <2>1, <3>1, <3>2, <4>1, SettlementIs, LiveClaimsAre
    <3> QED
      BY <3>1, <3>3
  <2>3. ASSUME NEW k \in Claims, NEW status \in {"retracted", "contradicted"},
               claim' = [claim EXCEPT ![k].status = status]
        PROVE  FALSE
    <3>1. claim[k] \in ClaimRows /\ claim[i] \in ClaimRows
      BY <2>1, RowShape
    <3> QED
      BY <2>1, <2>3, <3>1 DEF ClaimRows
  <2>4. ASSUME NEW p \in Callers, NEW s \in Subjects, NEW said, NEW stated, NEW dated,
               CreateClaim(p, s, said, stated, dated)
        PROVE  FALSE
    BY <2>1, <2>4 DEF CreateClaim
  <2>5. ASSUME NEW p \in Callers, NEW s \in Subjects, NEW k \in Claims, ReattributeClaim(p, k, s)
        PROVE  FALSE
    BY <2>1, <2>5 DEF ReattributeClaim
  <2>6. ASSUME NEW p \in Callers, NEW k \in Claims, DeleteClaim(p, k) PROVE FALSE
    BY <2>1, <2>6 DEF DeleteClaim, WithoutRow
  <2>7. ASSUME claim' = claim PROVE FALSE
    BY <2>7
  <2> QED
    BY <2>2, <2>3, <2>4, <2>5, <2>6, <2>7
    DEF ClaimNext, RetractClaim, ContradictClaim, UpdateClaim, DismissCommitment, Recompute, Return, Crash
<1> QED
  BY <1>1, ClaimInvariant, PTL DEF ClaimSpec, OnlyStalePassesRevive

-----------------------------------------------------------------------------
(* Both components.                                                        *)

\* Trees and claims side by side are trees, and are claims: what is proved of
\* either holds of the evidence as a whole.
THEOREM EvidenceIsBoth == EvidenceSpec => TreeSpec /\ ClaimSpec
<1>1. EvidenceInit => TreeInit /\ ClaimInit
  BY DEF EvidenceInit
<1>2. [EvidenceNext]_evidenceVars => [TreeNext]_treeVars /\ [ClaimNext]_claimVars
  BY DEF EvidenceNext, evidenceVars, treeVars, claimVars
<1>. QED BY <1>1, <1>2, PTL DEF EvidenceSpec, TreeSpec, ClaimSpec

\* Each row of the tables behind the evidence is one the code can write
\* (db/schema.ts, drizzle/0028_dizzy_norrin_radd.sql).
THEOREM EvidenceIsTyped == EvidenceSpec => []EvidenceTypeOK
<1>1. TreeTypeOK /\ ClaimTypeOK => EvidenceTypeOK
  BY DEF EvidenceTypeOK
<1>. QED BY <1>1, EvidenceIsBoth, TreeIsTyped, ClaimsAreTyped, PTL

=============================================================================
