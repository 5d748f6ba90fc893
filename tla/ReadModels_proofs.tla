-------------------------- MODULE ReadModels_proofs --------------------------
(***************************************************************************)
(* Proofs about two of the components that derive something from the       *)
(* claims: Rollup, for any calendar, claims, budget and failures, and      *)
(* AtlasRefresh, for any inputs, workers and readers; and about both and   *)
(* ChangeFeed side by side, as MCReadModels has them.                      *)
(***************************************************************************)
EXTENDS MCReadModels, ChangeFeed_proofs, FiniteSetTheorems, WellFoundedInduction, TLAPS

-----------------------------------------------------------------------------
(* The calendar.                                                           *)

\* What integer division says.
LEMMA Division ==
    ASSUME NEW i \in Nat, NEW n \in Nat \ {0}
    PROVE  /\ i \div n \in Nat
           /\ n * (i \div n) <= i
           /\ i <= n * (i \div n) + n - 1
OBVIOUS

\* Only one number divides so.
LEMMA DivisionIs ==
    ASSUME NEW i \in Nat, NEW n \in Nat \ {0}, NEW k \in Nat,
           n * k <= i, i <= n * k + n - 1
    PROVE  i \div n = k
<1>1. PICK j \in Nat : j = i \div n /\ n * j <= i /\ i <= n * j + n - 1
  BY Division
<1>2. ASSUME j < k PROVE FALSE
  <2>1. PICK d \in Nat : k = j + 1 + d
    <3>1. k - j - 1 \in Nat /\ k = j + 1 + (k - j - 1)
      BY <1>2
    <3> QED
      BY <3>1
  <2>2. n * k = n * j + n + n * d /\ n * d \in Nat
    BY <2>1
  <2>3. n * k \in Nat /\ n * j \in Nat
    OBVIOUS
  <2> QED
    BY <1>1, <2>2, <2>3
<1>3. ASSUME k < j PROVE FALSE
  <2>1. PICK d \in Nat : j = k + 1 + d
    <3>1. j - k - 1 \in Nat /\ j = k + 1 + (j - k - 1)
      BY <1>3
    <3> QED
      BY <3>1
  <2>2. n * j = n * k + n + n * d /\ n * d \in Nat
    BY <2>1
  <2>3. n * k \in Nat /\ n * j \in Nat
    OBVIOUS
  <2> QED
    BY <1>1, <2>2, <2>3
<1> QED
  BY <1>1, <1>2, <1>3

\* Months of a day and years of a month make years of a day.
LEMMA DivisionTwice ==
    ASSUME NEW i \in Nat, NEW m \in Nat \ {0}, NEW n \in Nat \ {0}
    PROVE  (i \div m) \div n = i \div (m * n)
<1>1. PICK j \in Nat : j = i \div m /\ m * j <= i /\ i <= m * j + m - 1
  BY Division
<1>2. PICK k \in Nat : k = j \div n /\ n * k <= j /\ j <= n * k + n - 1
  BY Division
<1>3. m * n \in Nat \ {0}
  OBVIOUS
<1>4. PICK a \in Nat : j = n * k + a /\ a <= n - 1
  <2>1. n * k \in Nat
    OBVIOUS
  <2>2. j - n * k \in Nat /\ j = n * k + (j - n * k) /\ j - n * k <= n - 1
    BY <1>2, <2>1
  <2> QED
    BY <2>2
<1>5. m * j = m * n * k + m * a
  BY <1>4
<1>6. PICK b \in Nat : n = a + 1 + b
  <2>1. n - 1 - a \in Nat /\ n = a + 1 + (n - 1 - a)
    BY <1>4
  <2> QED
    BY <2>1
<1>7. m * n = m * a + m + m * b
  BY <1>6
<1>8. m * a \in Nat /\ m * b \in Nat /\ m * n * k \in Nat
  OBVIOUS
<1>9. m * n * k <= i /\ i <= m * n * k + m * n - 1
  BY <1>1, <1>3, <1>5, <1>7, <1>8
<1> QED
  BY <1>1, <1>2, <1>3, <1>9, DivisionIs

YearDays == MonthDays * YearMonths
Levels == {"day", "week", "month", "year"}
Last == (LastToday - 1) \div YearDays

\* A year has days.
LEMMA YearDaysType == ASSUME RollupAssumption PROVE YearDays \in Nat \ {0}
BY DEF RollupAssumption, YearDays

\* The calendar is made of whole years.
LEMMA AllDaysAre ==
    ASSUME RollupAssumption
    PROVE  /\ AllDays = {i \in Nat : i \div YearDays \in 0 .. Last}
           /\ Years = {Year(k) : k \in 0 .. Last}
           /\ Last \in Nat
<1>1. YearDays \in Nat \ {0} /\ Length("year") = YearDays /\ LastToday - 1 \in Nat
  BY YearDaysType DEF Length, YearDays, RollupAssumption
<1>2. Years = {Year(k) : k \in 0 .. Last}
  BY <1>1 DEF Years, Last
<1>3. Last \in Nat
  <2> DEFINE n == LastToday - 1
  <2>1. n \in Nat
    BY <1>1
  <2>2. n \div YearDays \in Nat
    <3> HIDE DEF n
    <3> QED
      BY <1>1, <2>1, Division
  <2> QED
    BY <2>2 DEF Last
<1>4. ASSUME NEW k \in 0 .. Last
      PROVE  Span(Year(k)) = YearDays * k .. YearDays * k + YearDays - 1
  BY <1>1 DEF Span, Year
<1>5. AllDays = UNION {YearDays * k .. YearDays * k + YearDays - 1 : k \in 0 .. Last}
  BY <1>2, <1>4 DEF AllDays
<1>6. ASSUME NEW i \in AllDays PROVE i \in Nat /\ i \div YearDays \in 0 .. Last
  <2>1. PICK k \in 0 .. Last : i \in YearDays * k .. YearDays * k + YearDays - 1
    BY <1>5
  <2>2. YearDays * k \in Nat /\ k \in Nat
    BY <1>1, <1>3
  <2>3. i \in Nat /\ YearDays * k <= i /\ i <= YearDays * k + YearDays - 1
    BY <2>1, <2>2, <1>1
  <2> QED
    BY <2>2, <2>3, <1>1, DivisionIs
<1>7. ASSUME NEW i \in Nat, i \div YearDays \in 0 .. Last PROVE i \in AllDays
  <2>1. i \in YearDays * (i \div YearDays) .. YearDays * (i \div YearDays) + YearDays - 1
    <3>1. PICK k \in Nat : k = i \div YearDays
      BY <1>1, Division
    <3>2. YearDays * (i \div YearDays) \in Nat
      BY <1>1, <3>1
    <3> QED
      BY <1>1, <3>2, Division
  <2> QED
    BY <1>5, <1>7, <2>1
<1> QED
  BY <1>2, <1>3, <1>6, <1>7

\* Days are numbers, and every day up to the last one is in the calendar.
LEMMA DaysAre ==
    ASSUME RollupAssumption
    PROVE  /\ AllDays \subseteq Nat /\ 0 .. LastToday - 1 \subseteq AllDays
           /\ 0 \in AllDays
<1>1. AllDays \subseteq Nat
  BY AllDaysAre
<1>2. ASSUME NEW i \in 0 .. LastToday - 1 PROVE i \in AllDays
  <2>1. /\ i \in Nat /\ LastToday - 1 \in Nat /\ YearDays \in Nat \ {0}
        /\ i <= LastToday - 1
    BY YearDaysType DEF RollupAssumption
  <2>2. PICK k \in Nat : k = i \div YearDays /\ YearDays * k <= i
    BY <2>1, Division
  <2>3. /\ Last \in Nat /\ LastToday - 1 <= YearDays * Last + YearDays - 1
    BY <2>1, Division DEF Last
  <2>4. ASSUME Last < k PROVE FALSE
    <3>1. PICK d \in Nat : k = Last + 1 + d
      <4>1. k - Last - 1 \in Nat /\ k = Last + 1 + (k - Last - 1)
        BY <2>3, <2>4
      <4> QED
        BY <4>1
    <3>2. YearDays * k = YearDays * Last + YearDays + YearDays * d
      BY <3>1, <2>1, <2>3
    <3>3. YearDays * d \in Nat /\ YearDays * Last \in Nat
      BY <2>1, <2>3
    <3> QED
      BY <2>1, <2>2, <2>3, <3>2, <3>3
  <2> QED
    BY <2>1, <2>2, <2>3, <2>4, AllDaysAre
<1>3. 0 \in 0 .. LastToday - 1
  BY DEF RollupAssumption
<1> QED
  BY <1>1, <1>2, <1>3

\* A period is known by its level and its number.
LEMMA PeriodsAre ==
    ASSUME RollupAssumption
    PROVE  /\ Days \subseteq {Day(i) : i \in Nat} /\ Weeks \subseteq {Week(i) : i \in Nat}
           /\ Months \subseteq {Month(i) : i \in Nat}
           /\ Years \subseteq {Year(i) : i \in Nat}
<1>1. AllDays \subseteq Nat /\ WeekDays \in Nat \ {0} /\ MonthDays \in Nat \ {0}
  BY DaysAre DEF RollupAssumption
<1>2. \A i \in AllDays : i \div WeekDays \in Nat /\ i \div MonthDays \in Nat
  BY <1>1, Division
<1>3. Days \subseteq {Day(i) : i \in Nat}
  BY <1>1 DEF Days
<1>4. Weeks \subseteq {Week(i) : i \in Nat}
  BY <1>2 DEF Weeks
<1>5. Months \subseteq {Month(i) : i \in Nat}
  BY <1>2 DEF Months
<1>6. Years \subseteq {Year(i) : i \in Nat}
  BY AllDaysAre
<1> QED
  BY <1>3, <1>4, <1>5, <1>6

\* A period's level says which it is.
LEMMA Apart ==
    ASSUME RollupAssumption, NEW p \in Periods
    PROVE  /\ p[2] \in Nat
           /\ p[1] = "day" <=> p \in Days
           /\ p[1] = "week" <=> p \in Weeks
           /\ p[1] = "month" <=> p \in Months
           /\ p[1] = "year" <=> p \in Years
<1>1. PICK i \in Nat : p \in {Day(i), Week(i), Month(i), Year(i)}
  <2>1. p \in Days \/ p \in Weeks \/ p \in Months \/ p \in Years
    BY DEF Periods
  <2>2. CASE p \in Days
    BY <2>2, PeriodsAre
  <2>3. CASE p \in Weeks
    BY <2>3, PeriodsAre
  <2>4. CASE p \in Months
    BY <2>4, PeriodsAre
  <2>5. CASE p \in Years
    BY <2>5, PeriodsAre
  <2> QED
    BY <2>1, <2>2, <2>3, <2>4, <2>5
<1>2. p[2] \in Nat
  BY <1>1 DEF Day, Week, Month, Year
<1>3. /\ p \in Days => p[1] = "day"
      /\ p \in Weeks => p[1] = "week"
      /\ p \in Months => p[1] = "month"
      /\ p \in Years => p[1] = "year"
  <2>1. /\ \A j : Day(j)[1] = "day" /\ Week(j)[1] = "week"
                  /\ Month(j)[1] = "month" /\ Year(j)[1] = "year"
    BY DEF Day, Week, Month, Year
  <2> QED
    BY <2>1, PeriodsAre
<1> QED
  BY <1>2, <1>3 DEF Periods

\* A month belongs to a year of the calendar, a day to a week.
LEMMA Upwards ==
    ASSUME RollupAssumption
    PROVE  /\ \A m \in Months : YearOfMonth(m) \in Years
           /\ \A d \in Days : WeekOfDay(d) \in Weeks
           /\ \A w : MonthsOfWeek(w) \subseteq Months
<1>1. ASSUME NEW m \in Months PROVE YearOfMonth(m) \in Years
  <2>1. PICK i \in AllDays : m = Month(i \div MonthDays)
    BY DEF Months
  <2>2. i \in Nat /\ MonthDays \in Nat \ {0} /\ YearMonths \in Nat \ {0}
    BY DaysAre DEF RollupAssumption
  <2>3. (i \div MonthDays) \div YearMonths = i \div YearDays
    <3>1. (i \div MonthDays) \div YearMonths = i \div (MonthDays * YearMonths)
      <4> HIDE <2>1
      <4> QED
        BY <2>2, DivisionTwice, ZenonT(30)
    <3> QED
      BY <3>1, Zenon DEF YearDays
  <2>4. YearOfMonth(m) = Year(i \div YearDays)
    BY <2>1, <2>3 DEF YearOfMonth, Month
  <2> QED
    BY <2>4, AllDaysAre
<1>2. ASSUME NEW d \in Days PROVE WeekOfDay(d) \in Weeks
  <2>1. PICK i \in AllDays : d = Day(i)
    BY DEF Days
  <2> QED
    BY <2>1 DEF WeekOfDay, Day, Weeks
<1> QED
  BY <1>1, <1>2 DEF MonthsOfWeek

\* What changes with a period: periods of a higher level.
LEMMA AncestorsAre ==
    ASSUME RollupAssumption, NEW p \in Periods
    PROVE  /\ AncestorsOf[p] =
                IF p \in Days THEN AncestorsOfDay(p)
                ELSE IF p \in Weeks
                THEN MonthsOfWeek(p) \union {YearOfMonth(m) : m \in MonthsOfWeek(p)}
                ELSE IF p \in Months THEN {YearOfMonth(p)} ELSE {}
           /\ Children[p] =
                IF p \in Days THEN {}
                ELSE IF p \in Weeks THEN {d \in Days : d[2] \in Span(p)}
                ELSE IF p \in Months THEN {w \in Weeks : p \in MonthsOfWeek(w)}
                ELSE {m \in Months : YearOfMonth(m) = p}
<1>1. \/ p[1] = "day" /\ p \in Days /\ p \notin Weeks /\ p \notin Months /\ p \notin Years
      \/ p[1] = "week" /\ p \in Weeks /\ p \notin Days /\ p \notin Months /\ p \notin Years
      \/ p[1] = "month" /\ p \in Months /\ p \notin Days /\ p \notin Weeks /\ p \notin Years
      \/ p[1] = "year" /\ p \in Years /\ p \notin Days /\ p \notin Weeks /\ p \notin Months
  BY Apart DEF Periods
<1> QED
  BY <1>1 DEF AncestorsOf, Children

\* The calendar as the sweep needs it: what changes with a period is of a
\* higher level, includes what changes with that in turn, and is written from
\* it.
LEMMA Ancestry ==
    ASSUME RollupAssumption, NEW p \in Periods
    PROVE  /\ AncestorsOf[p] \subseteq Periods
           /\ Children[p] \subseteq Periods
           /\ \A a \in AncestorsOf[p] : Rank(p) < Rank(a) /\ a \notin Days
           /\ \A a \in AncestorsOf[p] : AncestorsOf[a] \subseteq AncestorsOf[p]
           /\ \A q \in Children[p] : p \in AncestorsOf[q]
           /\ Rank(p) \in 0 .. 3
<1>1. \A q \in Periods :
        /\ q \in Days => Rank(q) = 0 /\ q \notin Weeks /\ q \notin Months /\ q \notin Years
        /\ q \in Weeks => Rank(q) = 1 /\ q \notin Days /\ q \notin Months /\ q \notin Years
        /\ q \in Months => Rank(q) = 2 /\ q \notin Days /\ q \notin Weeks /\ q \notin Years
        /\ q \in Years => Rank(q) = 3 /\ q \notin Days /\ q \notin Weeks /\ q \notin Months
  BY Apart DEF Rank
<1>2. Days \subseteq Periods /\ Weeks \subseteq Periods /\ Months \subseteq Periods
      /\ Years \subseteq Periods
  BY DEF Periods
<1>3. \A m \in Months : AncestorsOf[m] = {YearOfMonth(m)} /\ YearOfMonth(m) \in Years
  BY <1>1, <1>2, AncestorsAre, Upwards
<1>4. \A w \in Weeks : /\ AncestorsOf[w] = MonthsOfWeek(w) \union
                                           {YearOfMonth(m) : m \in MonthsOfWeek(w)}
                       /\ MonthsOfWeek(w) \subseteq Months
  BY <1>1, <1>2, AncestorsAre, Upwards
<1>5. \A d \in Days : /\ AncestorsOf[d] = {WeekOfDay(d)} \union AncestorsOf[WeekOfDay(d)]
                      /\ WeekOfDay(d) \in Weeks
  <2>1. \A d \in Days : AncestorsOf[d] = AncestorsOfDay(d)
    BY <1>1, <1>2, AncestorsAre
  <2> QED
    BY <2>1, <1>4, Upwards DEF AncestorsOfDay
<1>6. \A y \in Years : AncestorsOf[y] = {}
  BY <1>1, <1>2, AncestorsAre
<1>7. p \in Days \union Weeks \union Months \union Years
  BY DEF Periods
<1>8. AncestorsOf[p] \subseteq Periods
  BY <1>2, <1>3, <1>4, <1>5, <1>6, <1>7
<1>9. \A a \in AncestorsOf[p] : Rank(p) < Rank(a) /\ a \notin Days
  <2>1. CASE p \in Months
    BY <2>1, <1>1, <1>2, <1>3
  <2>2. CASE p \in Weeks
    BY <2>2, <1>1, <1>2, <1>3, <1>4
  <2>3. CASE p \in Days
    BY <2>3, <1>1, <1>2, <1>3, <1>4, <1>5
  <2> QED
    BY <2>1, <2>2, <2>3, <1>6, <1>7
<1>10. \A a \in AncestorsOf[p] : AncestorsOf[a] \subseteq AncestorsOf[p]
  BY <1>3, <1>4, <1>5, <1>6, <1>7
<1>11. Children[p] \subseteq Periods /\ \A q \in Children[p] : p \in AncestorsOf[q]
  <2>1. CASE p \in Days
    BY <2>1, AncestorsAre
  <2>2. CASE p \in Weeks
    <3>1. Children[p] = {d \in Days : d[2] \in Span(p)}
      BY <2>2, <1>1, AncestorsAre
    <3>2. ASSUME NEW d \in Days, d[2] \in Span(p) PROVE WeekOfDay(d) = p
      <4>1. PICK k \in Nat : p = Week(k)
        BY <2>2, PeriodsAre
      <4>2. d[2] \in Nat /\ WeekDays \in Nat \ {0} /\ WeekDays * k \in Nat
        BY Apart, <1>2 DEF RollupAssumption
      <4>3. Span(p) = WeekDays * k .. WeekDays * k + WeekDays - 1
        BY <4>1 DEF Span, Week, Length
      <4>4. d[2] \div WeekDays = k
        BY <3>2, <4>2, <4>3, DivisionIs
      <4> QED
        BY <4>1, <4>4 DEF WeekOfDay
    <3> QED
      BY <3>1, <3>2, <1>2, <1>5
  <2>3. CASE p \in Months
    <3>1. Children[p] = {w \in Weeks : p \in MonthsOfWeek(w)}
      BY <2>3, <1>1, <1>2, AncestorsAre
    <3> QED
      BY <3>1, <1>2, <1>4
  <2>4. CASE p \in Years
    <3>1. Children[p] = {m \in Months : YearOfMonth(m) = p}
      BY <2>4, <1>1, <1>2, AncestorsAre
    <3> QED
      BY <3>1, <1>2, <1>3
  <2> QED
    BY <2>1, <2>2, <2>3, <2>4, <1>7
<1>12. Rank(p) \in 0 .. 3
  BY <1>1, <1>7
<1> QED
  BY <1>8, <1>9, <1>10, <1>11, <1>12

\* A set of numbers has a least one.
LEMMA LeastOf ==
    ASSUME NEW S, S # {}, S \subseteq Nat
    PROVE  \E n \in S : \A m \in S : n <= m
<1> DEFINE T == {1 .. n : n \in S}
<1>1. T \subseteq FiniteSubsetsOf(Nat) /\ T # {}
  <2>1. \A n \in S : 1 .. n \subseteq Nat /\ IsFiniteSet(1 .. n)
    BY FS_Interval
  <2> QED
    BY <2>1 DEF FiniteSubsetsOf
<1>2. PICK least \in T : \A other \in T : <<other, least>> \notin StrictSubsetOrdering(Nat)
  BY <1>1, FS_StrictSubsetOrderingWellFounded, WFMin
<1>3. PICK n \in S : least = 1 .. n
  BY <1>2
<1>4. ASSUME NEW m \in S, ~(n <= m) PROVE FALSE
  <2>1. 1 .. m \subseteq 1 .. n /\ n \in 1 .. n /\ n \notin 1 .. m
        /\ 1 .. m \subseteq Nat /\ 1 .. n \subseteq Nat
    BY <1>4
  <2>2. <<1 .. m, 1 .. n>> \in StrictSubsetOrdering(Nat)
    BY <2>1 DEF StrictSubsetOrdering
  <2> QED
    BY <1>2, <1>3, <2>2
<1> QED
  BY <1>4

\* The greatest of a set of numbers that ends.
LEMMA GreatestOf ==
    ASSUME NEW S, S # {}, NEW n \in Nat, S \subseteq 0 .. n
    PROVE  \E k \in S : \A m \in S : m <= k
<1> DEFINE T == {n - k : k \in S}
<1>1. T # {} /\ T \subseteq Nat
  <2>1. \A k \in S : k \in Nat /\ k <= n
    OBVIOUS
  <2>2. \A k \in S : n - k \in Nat
    BY <2>1
  <2> QED
    BY <2>2
<1>2. PICK t \in T : \A u \in T : t <= u
  <2> HIDE DEF T
  <2> QED
    BY <1>1, LeastOf
<1>3. PICK k \in S : t = n - k
  BY <1>2
<1>4. ASSUME NEW m \in S PROVE m <= k
  <2>1. n - k <= n - m
    BY <1>2, <1>3
  <2> QED
    BY <2>1
<1> QED
  BY <1>4

\* The period visited first is of the lowest level there is.
LEMMA FirstIs ==
    ASSUME RollupAssumption, NEW ready, ready # {}, ready \subseteq Periods
    PROVE  First(ready) \in ready /\ \A q \in ready : Rank(First(ready)) <= Rank(q)
<1>1. \A q \in ready : Rank(q) \in 0 .. 3 /\ q[2] \in Nat
  BY Ancestry, Apart
<1>2. PICK r \in {Rank(q) : q \in ready} : \A t \in {Rank(q) : q \in ready} : r <= t
  BY <1>1, LeastOf
<1> DEFINE Low == {q \in ready : Rank(q) = r}
<1>3. PICK n \in {q[2] : q \in Low} : \A m \in {q[2] : q \in Low} : n <= m
  <2>1. {q[2] : q \in Low} # {} /\ {q[2] : q \in Low} \subseteq Nat
    BY <1>1, <1>2
  <2> QED
    BY <2>1, LeastOf
<1>4. PICK p \in ready : Rank(p) = r /\ p[2] = n
  BY <1>3
<1>5. ASSUME NEW q \in ready
      PROVE  Rank(p) < Rank(q) \/ (Rank(p) = Rank(q) /\ p[2] <= q[2])
  <2>1. r <= Rank(q)
    BY <1>2
  <2>2. ASSUME Rank(q) = r PROVE n <= q[2]
    BY <1>3, <2>2
  <2> QED
    BY <1>1, <1>4, <2>1, <2>2
<1>6. /\ First(ready) \in ready
      /\ \A q \in ready : \/ Rank(First(ready)) < Rank(q)
                          \/ Rank(First(ready)) = Rank(q) /\ First(ready)[2] <= q[2]
  BY <1>5 DEF First
<1> QED
  BY <1>1, <1>6

-----------------------------------------------------------------------------
(* What is remembered of a summary that is out of date.                    *)

\* Complete or not: a period may become complete at any time.
Unsynced(p) == EndOf[p] >= Floor /\ Input(p) # {} /\ summary[p] # Input(p)

\* What the next sweep will find out from its row, and nobody will find out.
RowMemory == rollupState.pending \union TouchedDays(rollupState.watermark)
             \union unannounced

\* The periods the sweep is still to visit, and the one it is at.
Visits == sweep.ready \union {q \in {sweep.period} : sweep.at = "write"}

\* What the sweep will have written into its row when it is done.
SweepMemory == Visits \union sweep.pending \union TouchedDays(sweep.watermark)
               \union unannounced

RowRemembers == \A p \in Periods : Unsynced(p) => Below[p] \cap RowMemory # {}

SweepRemembers == \A p \in Periods : Unsynced(p) => Below[p] \cap SweepMemory # {}

\* A sweep that does not end has visited nothing its row does not remember.
WorkIsKnown == \A q \in Visits : Below[q] \cap RowMemory # {}

\* What changes with a period is visited after it, or put off.
UpwardsIsAhead ==
    \A q \in Visits : \A a \in AncestorsOf[q] :
        EndOf[a] >= Floor => a \in sweep.ready \union sweep.pending

\* The input of the period the sweep is at only changes by what it will notice.
InputIsCurrent ==
    sweep.at = "write" =>
        \/ sweep.input = Input(sweep.period)
        \/ sweep.period \in TouchedDays(sweep.watermark) \union unannounced

MemoryInv ==
    /\ RowRemembers
    /\ sweep.at # "idle" =>
         SweepRemembers /\ WorkIsKnown /\ UpwardsIsAhead /\ InputIsCurrent

-----------------------------------------------------------------------------
(* Type correctness.                                                       *)

PeriodInputs == UNION {SummaryOf(p) : p \in Periods}

Inserted == {e \in Entries : entry[e].status # "none"}

RollupTypes ==
    /\ RollupTypeOK
    /\ sweep \in [at : {"idle", "next", "write"}, watermark : Nat,
                  ready : SUBSET Periods, pending : SUBSET Periods,
                  budget : Nat, period : Periods, input : PeriodInputs]
    /\ clock = Cardinality(Inserted)
    /\ \A e \in Entries : entry[e].at <= clock
    /\ job.state = "waiting" => job.tries < MaxAttempts

\* No period has no input.
LEMMA NoInput ==
    ASSUME RollupAssumption, NEW p \in Periods
    PROVE  {} \in SummaryOf(p) /\ SummaryOf(p) \subseteq PeriodInputs
<1>1. p[1] \in {"day", "week", "month", "year"}
  BY Apart DEF Periods
<1> QED
  BY <1>1 DEF SummaryOf, DaySummary, WeekSummary, MonthSummary, YearSummary, PeriodInputs

\* The calendar begins with a day.
LEMMA FirstDay == ASSUME RollupAssumption PROVE Day(0) \in Days /\ Days \subseteq Periods
BY DaysAre DEF Days, Periods

\* What a period's summary is written from is a set of summaries of the level
\* below.
LEMMA InputType ==
    ASSUME RollupAssumption, NEW p \in Periods,
           \A q \in Periods : summary[q] \in SummaryOf(q)
    PROVE  Input(p) \in SummaryOf(p)
<1>1. CASE p \in Days
  <2>1. p[1] = "day"
    BY <1>1, Apart
  <2> QED
    BY <2>1 DEF Input, SummaryOf, DaySummary
<1>2. CASE p \notin Days
  <2>1. p[1] # "day" /\ Children[p] \subseteq Periods
    BY <1>2, Apart, Ancestry
  <2>2. Input(p) = {<<q, summary[q]>> : q \in {c \in Children[p] : summary[c] # {}}}
    BY <2>1 DEF Input
  <2>3. CASE p \in Weeks
    <3>1. Children[p] \subseteq Days
      BY <1>2, <2>3, AncestorsAre
    <3>2. p[1] = "week"
      BY <2>3, Apart
    <3>3. \A q \in Days : q \in Periods /\ q[1] = "day"
      BY Apart DEF Periods
    <3>4. \A q \in Days : summary[q] \in DaySummary
      BY <3>3 DEF SummaryOf
    <3> QED
      BY <2>2, <3>1, <3>2, <3>4 DEF SummaryOf, WeekSummary
  <2>4. CASE p \in Months
    <3>1. p[1] = "month" /\ p \notin Weeks
      BY <2>4, Apart
    <3>2. Children[p] \subseteq Weeks
      BY <1>2, <2>4, <3>1, AncestorsAre
    <3>3. \A q \in Weeks : q \in Periods /\ q[1] = "week"
      BY Apart DEF Periods
    <3>4. \A q \in Weeks : summary[q] \in WeekSummary
      BY <3>3 DEF SummaryOf
    <3> QED
      BY <2>2, <3>1, <3>2, <3>4 DEF SummaryOf, MonthSummary
  <2>5. CASE p \in Years
    <3>1. p[1] = "year" /\ p \notin Weeks /\ p \notin Months
      BY <2>5, Apart
    <3>2. Children[p] \subseteq Months
      BY <1>2, <2>5, <3>1, AncestorsAre
    <3>3. \A q \in Months : q \in Periods /\ q[1] = "month"
      BY Apart DEF Periods
    <3>4. \A q \in Months : summary[q] \in MonthSummary
      BY <3>3 DEF SummaryOf
    <3> QED
      BY <2>2, <3>1, <3>2, <3>4 DEF SummaryOf, YearSummary
  <2> QED
    BY <1>2, <2>3, <2>4, <2>5 DEF Periods
<1> QED
  BY <1>1, <1>2

\* No more claims are inserted than there are.
LEMMA InsertedCounts ==
    ASSUME RollupAssumption
    PROVE  /\ Cardinality(Entries) \in Nat /\ Cardinality(Inserted) \in Nat
           /\ Cardinality(Inserted) <= Cardinality(Entries)
<1>1. IsFiniteSet(Entries) /\ Inserted \subseteq Entries
  BY DEF RollupAssumption, Inserted
<1> QED
  BY <1>1, FS_Subset, FS_CardinalityType

\* The types at the beginning.
LEMMA TypeInit == ASSUME RollupAssumption, RollupInit PROVE RollupTypes
<1>1. RollupTypeOK
  <2>1. \A p \in Periods : {} \in SummaryOf(p)
    BY NoInput
  <2>2. Cardinality(Entries) \in Nat
    BY InsertedCounts
  <2>3. Day(0) \in Periods
    BY FirstDay
  <2> QED
    BY <2>1, <2>2, <2>3 DEF RollupInit, RollupTypeOK, Idle, RollupAssumption
<1>2. sweep \in [at : {"idle", "next", "write"}, watermark : Nat,
                 ready : SUBSET Periods, pending : SUBSET Periods,
                 budget : Nat, period : Periods, input : PeriodInputs]
  <2>1. Day(0) \in Periods /\ {} \in PeriodInputs
    BY FirstDay, NoInput
  <2> QED
    BY <2>1 DEF RollupInit, Idle
<1>3. clock = Cardinality(Inserted)
  <2>1. Inserted = {}
    BY DEF RollupInit, Inserted
  <2> QED
    BY <2>1, FS_EmptySet DEF RollupInit
<1>4. \A e \in Entries : entry[e].at <= clock
  BY DEF RollupInit
<1>5. job.state # "waiting"
  BY DEF RollupInit
<1> QED
  BY <1>1, <1>2, <1>3, <1>4, <1>5 DEF RollupTypes

EntryType == [day : EntryDays, at : 0 .. Cardinality(Entries),
              status : {"none", "open", "active", "retracted"}]

\* The writers of claims and the calendar.
LEMMA WritersType ==
    ASSUME RollupAssumption, RollupTypes, NEW e \in Entries,
           InsertEntry(e) \/ CommitEntry(e) \/ RetractEntry(e)
    PROVE  RollupTypes'
<1> USE DEF RollupTypeOK, RollupTypes
<1>1. entry \in [Entries -> EntryType] /\ entry[e] \in EntryType
  BY DEF EntryType
<1>2. entry[e].day \in EntryDays /\ Day(entry[e].day) \in Days
  BY <1>1, DaysAre DEF EntryType, Days, RollupAssumption
<1>3. CASE InsertEntry(e)
  <2>1. Inserted' = Inserted \union {e} /\ e \notin Inserted
    BY <1>3, <1>1 DEF InsertEntry, Inserted, EntryType
  <2>2. IsFiniteSet(Inserted) /\ IsFiniteSet(Entries)
    BY FS_Subset DEF Inserted, RollupAssumption
  <2>3. clock' = Cardinality(Inserted') /\ clock' = clock + 1
    BY <1>3, <2>1, <2>2, FS_AddElement DEF InsertEntry
  <2>4. clock' \in 0 .. Cardinality(Entries)
    <3>1. Inserted' \subseteq Entries
      BY <2>1 DEF Inserted
    <3>2. IsFiniteSet(Inserted') /\ Cardinality(Inserted') <= Cardinality(Entries)
      BY <2>2, <3>1, FS_Subset
    <3>3. Cardinality(Inserted') \in Nat /\ Cardinality(Entries) \in Nat
      BY <2>2, <3>2, FS_CardinalityType
    <3> QED
      BY <2>3, <3>2, <3>3
  <2>5. entry' \in [Entries -> EntryType]
    BY <1>3, <1>1, <2>3, <2>4 DEF InsertEntry, EntryType
  <2>6. \A f \in Entries : entry'[f].at <= clock'
    <3>1. \A f \in Entries : entry[f].at \in Nat /\ clock \in Nat
      BY <1>1, InsertedCounts DEF EntryType
    <3> QED
      BY <1>3, <1>1, <2>3, <3>1 DEF InsertEntry, EntryType
  <2>7. /\ rollupState' \in [watermark : 0 .. clock', pending : SUBSET Periods]
        /\ sweep'.watermark \in 0 .. clock'
    BY <1>3, <2>3 DEF InsertEntry
  <2> QED
    BY <1>3, <2>3, <2>4, <2>5, <2>6, <2>7 DEF InsertEntry, EntryType
<1>4. CASE CommitEntry(e) \/ RetractEntry(e)
  <2>1. /\ entry' \in [Entries -> EntryType]
        /\ \A f \in Entries : entry'[f].at = entry[f].at
        /\ Inserted' = Inserted
    BY <1>4, <1>1 DEF CommitEntry, RetractEntry, EntryType, Inserted
  <2>2. unannounced' \subseteq Days
    BY <1>4, <1>2 DEF CommitEntry, RetractEntry
  <2>3. UNCHANGED <<clock, today, summary, rollupState, job, sweep, failures>>
    BY <1>4 DEF CommitEntry, RetractEntry
  <2> QED
    BY <2>1, <2>2, <2>3 DEF EntryType
<1> QED
  BY <1>3, <1>4

\* The periods a sweep visits are periods of the calendar.
LEMMA WorkSetType ==
    ASSUME RollupAssumption, RollupTypes
    PROVE  /\ TouchedDays(rollupState.watermark) \subseteq Days
           /\ TouchedDays(sweep.watermark) \subseteq Days
           /\ WorkSet \subseteq Periods
           /\ Seen \in 0 .. clock
<1>1. \A e \in Entries : Day(entry[e].day) \in Days
  BY DaysAre DEF RollupTypes, RollupTypeOK, RollupAssumption, Days
<1>2. \A w : TouchedDays(w) \subseteq Days
  BY <1>1 DEF TouchedDays, Touching
<1>3. rollupState.pending \subseteq Periods
  BY DEF RollupTypes, RollupTypeOK
<1>4. WorkSet \subseteq Periods
  BY <1>2, <1>3, FirstDay, Ancestry DEF WorkSet
<1>5. Seen \in 0 .. clock
  <2> DEFINE ats == {entry[e].at : e \in Touching(rollupState.watermark)}
  <2>1. ats \subseteq 0 .. clock /\ clock \in Nat
    BY InsertedCounts DEF RollupTypes, RollupTypeOK, Touching
  <2>2. CASE ats = {}
    BY <2>2 DEF Seen, RollupTypes, RollupTypeOK
  <2>3. CASE ats # {}
    <3>1. PICK t \in ats : \A u \in ats : u <= t
      <4> HIDE DEF ats
      <4> QED
        BY <2>1, <2>3, GreatestOf
    <3>2. Seen = CHOOSE x \in ats : \A u \in ats : u <= x
      BY <2>3 DEF Seen
    <3>3. Seen \in ats
      <4> HIDE DEF ats
      <4> QED
        BY <3>1, <3>2
    <3> QED
      BY <2>1, <3>3
  <2> QED
    BY <2>2, <2>3
<1> QED
  BY <1>2, <1>4, <1>5

\* The calendar, the route and the job.
LEMMA JobType ==
    ASSUME RollupAssumption, RollupTypes, NextDay \/ Trigger \/ AttemptFails
    PROVE  RollupTypes'
<1> USE DEF RollupTypeOK, RollupTypes, RollupAssumption
<1>1. CASE NextDay
  <2>1. today' \in FirstToday .. LastToday
    BY <1>1 DEF NextDay
  <2> QED
    BY <1>1, <2>1 DEF NextDay, Inserted
<1>2. CASE Trigger
  BY <1>2 DEF Trigger, Inserted
<1>3. CASE AttemptFails
  <2>1. /\ Idle.at = "idle" /\ Idle.watermark = 0 /\ Idle.ready = {} /\ Idle.pending = {}
        /\ Idle.budget = 0 /\ Idle.period = Day(0) /\ Idle.input = {}
        /\ Day(0) \in Periods /\ {} \in SummaryOf(Day(0)) /\ {} \in PeriodInputs
    BY FirstDay, NoInput DEF Idle
  <2>2. Idle \in [at : {"idle", "next", "write"}, watermark : Nat,
                  ready : SUBSET Periods, pending : SUBSET Periods,
                  budget : Nat, period : Periods, input : PeriodInputs]
    BY <2>1 DEF Idle
  <2>3. /\ job' \in [state : {"none", "waiting", "active", "failed"}, tries : 0 .. MaxAttempts]
        /\ job'.state = "waiting" => job'.tries < MaxAttempts
        /\ failures' \in 0 .. MaxFailures
    BY <1>3 DEF AttemptFails
  <2>4. sweep' = Idle /\ UNCHANGED <<entry, clock, today, summary, rollupState, unannounced>>
    BY <1>3 DEF AttemptFails
  <2>5. 0 \in 0 .. clock /\ 0 \in 0 .. Budget
    BY InsertedCounts
  <2> QED
    BY <2>1, <2>2, <2>3, <2>4, <2>5 DEF Inserted
<1> QED
  BY <1>1, <1>2, <1>3

\* The sweep.
LEMMA SweepType ==
    ASSUME RollupAssumption, RollupTypes, SweepStep PROVE RollupTypes'
<1> DEFINE Sweeps == [at : {"idle", "next", "write"}, watermark : Nat,
                      ready : SUBSET Periods, pending : SUBSET Periods,
                      budget : Nat, period : Periods, input : PeriodInputs]
<1>1. /\ Day(0) \in Periods /\ {} \in SummaryOf(Day(0)) /\ {} \in PeriodInputs
      /\ sweep \in Sweeps /\ clock \in Nat /\ Budget \in Nat
  BY FirstDay, NoInput, InsertedCounts DEF RollupTypes, RollupAssumption
<1>2. Idle \in Sweeps
  BY <1>1 DEF Idle
<1>3. CASE Discover
  <2>1. WorkSet \subseteq Periods /\ Seen \in 0 .. clock
    BY WorkSetType
  <2>2. PICK ready \in SUBSET Periods, pending \in SUBSET Periods :
          sweep' = [Idle EXCEPT !.at = "next", !.watermark = Seen, !.budget = Budget,
                                !.ready = ready, !.pending = pending]
    BY <1>3, <2>1 DEF Discover
  <2>3. /\ sweep' \in Sweeps /\ sweep'.at = "next" /\ sweep'.watermark = Seen
        /\ sweep'.budget = Budget /\ sweep'.ready = ready /\ sweep'.pending = pending
        /\ sweep'.period = Day(0) /\ sweep'.input = {}
    <3>1. sweep' = [at |-> "next", watermark |-> Seen, ready |-> ready,
                    pending |-> pending, budget |-> Budget, period |-> Day(0),
                    input |-> {}]
      BY <2>2 DEF Idle
    <3>2. Seen \in Nat
      BY <1>1, <2>1
    <3> QED
      BY <1>1, <3>1, <3>2
  <2>4. /\ job' \in [state : {"none", "waiting", "active", "failed"}, tries : 0 .. MaxAttempts]
        /\ job'.state # "waiting"
    <3>1. /\ job \in [state : {"none", "waiting", "active", "failed"}, tries : 0 .. MaxAttempts]
          /\ job.tries < MaxAttempts /\ MaxAttempts \in Nat
          /\ job' = [job EXCEPT !.state = "active", !.tries = @ + 1]
      BY <1>3 DEF Discover, RollupTypes, RollupTypeOK, RollupAssumption
    <3>2. job.tries + 1 \in 0 .. MaxAttempts
      BY <3>1
    <3> QED
      BY <3>1, <3>2
  <2>5. UNCHANGED <<entry, clock, today, summary, rollupState, failures>>
        /\ unannounced' \subseteq unannounced
    BY <1>3 DEF Discover
  <2> QED
    BY <1>1, <2>1, <2>3, <2>4, <2>5 DEF RollupTypes, RollupTypeOK, Inserted
<1>4. CASE Defer \/ Skip \/ Collect
  <2>1. /\ sweep.ready # {} /\ sweep.ready \subseteq Periods
        /\ UNCHANGED <<entry, clock, today, summary, rollupState, job, unannounced, failures>>
    BY <1>4, <1>1 DEF Defer, Skip, Collect, NextPeriod
  <2>2. Current \in Periods
    BY <2>1, FirstIs DEF Current
  <2>3. Input(Current) \in SummaryOf(Current) /\ Input(Current) \in PeriodInputs
    BY <2>2, InputType, NoInput DEF RollupTypes, RollupTypeOK
  <2>4. /\ sweep' \in Sweeps
        /\ sweep'.watermark = sweep.watermark
        /\ sweep'.budget \in 0 .. Budget
        /\ sweep'.input \in SummaryOf(sweep'.period)
    <3>1. sweep.budget \in 0 .. Budget /\ sweep.input \in SummaryOf(sweep.period)
      BY DEF RollupTypes, RollupTypeOK
    <3>2. CASE Defer
      BY <3>1, <3>2, <1>1, <2>2 DEF Defer
    <3>3. CASE Skip
      BY <3>1, <3>3, <1>1, <2>2 DEF Skip
    <3>4. CASE Collect
      <4>1. sweep' = [sweep EXCEPT !.at = "write", !.budget = @ - 1,
                                   !.ready = @ \ {Current},
                                   !.period = Current, !.input = Input(Current)]
            /\ sweep.budget > 0
        BY <3>4 DEF Collect
      <4>2. sweep.budget - 1 \in 0 .. Budget /\ sweep.budget - 1 \in Nat
        BY <3>1, <4>1, <1>1
      <4>3. sweep' \in Sweeps
        BY <1>1, <2>2, <2>3, <4>1, <4>2
      <4>4. /\ sweep'.watermark = sweep.watermark /\ sweep'.budget = sweep.budget - 1
            /\ sweep'.period = Current /\ sweep'.input = Input(Current)
        BY <1>1, <4>1
      <4> QED
        BY <2>3, <4>2, <4>3, <4>4
    <3> QED
      BY <1>4, <3>2, <3>3, <3>4
  <2> QED
    BY <2>1, <2>4 DEF RollupTypes, RollupTypeOK, Inserted
<1>5. CASE Summarize \/ SummarizeFails
  <2>1. /\ sweep' \in Sweeps /\ sweep'.watermark = sweep.watermark
        /\ sweep'.budget = sweep.budget
        /\ sweep'.period = Day(0) /\ sweep'.input = {}
    <3>1. PICK more \in SUBSET Periods :
            sweep' = [sweep EXCEPT !.at = "next", !.pending = more,
                                   !.period = Day(0), !.input = {}]
      <4>1. CASE Summarize
        <5>1. sweep' = [sweep EXCEPT !.at = "next", !.pending = sweep.pending,
                                     !.period = Day(0), !.input = {}]
          BY <4>1, <1>1 DEF Summarize
        <5>2. sweep.pending \in SUBSET Periods
          BY <1>1
        <5> QED
          BY <5>1, <5>2
      <4>2. CASE SummarizeFails
        <5>1. sweep' = [sweep EXCEPT !.at = "next",
                                     !.pending = sweep.pending \union {sweep.period},
                                     !.period = Day(0), !.input = {}]
          BY <4>2 DEF SummarizeFails, KeepPending
        <5>2. sweep.pending \union {sweep.period} \in SUBSET Periods
          BY <1>1
        <5> QED
          BY <5>1, <5>2
      <4> QED
        BY <1>5, <4>1, <4>2
    <3> QED
      BY <1>1, <3>1
  <2>2. failures' \in 0 .. MaxFailures
    BY <1>5 DEF Summarize, SummarizeFails, RollupTypes, RollupTypeOK, RollupAssumption
  <2>3. DOMAIN summary' = Periods /\ \A p \in Periods : summary'[p] \in SummaryOf(p)
    BY <1>5, <1>1 DEF Summarize, SummarizeFails, RollupTypes, RollupTypeOK
  <2>4. UNCHANGED <<entry, clock, today, rollupState, job, unannounced>>
    BY <1>5 DEF Summarize, SummarizeFails
  <2> QED
    BY <1>1, <2>1, <2>2, <2>3, <2>4 DEF RollupTypes, RollupTypeOK, Inserted
<1>6. CASE CommitState
  <2>1. /\ sweep' = Idle /\ sweep'.watermark = 0 /\ sweep'.budget = 0 /\ sweep'.at = "idle"
        /\ sweep'.period = Day(0) /\ sweep'.input = {} /\ sweep'.ready = {}
        /\ sweep'.pending = {}
    BY <1>6 DEF CommitState, Idle
  <2>2. rollupState' \in [watermark : 0 .. clock, pending : SUBSET Periods]
    BY <1>6, <1>1 DEF CommitState, RollupTypes, RollupTypeOK
  <2>3. /\ job' \in [state : {"none", "waiting", "active", "failed"}, tries : 0 .. MaxAttempts]
        /\ job'.state # "waiting"
    BY <1>6 DEF CommitState, RollupAssumption
  <2>4. UNCHANGED <<entry, clock, today, summary, unannounced, failures>>
    BY <1>6 DEF CommitState
  <2>5. 0 \in 0 .. clock /\ 0 \in 0 .. Budget
    BY <1>1
  <2> QED
    BY <1>1, <1>2, <2>1, <2>2, <2>3, <2>4, <2>5 DEF RollupTypes, RollupTypeOK, Inserted
<1> QED
  BY <1>3, <1>4, <1>5, <1>6 DEF SweepStep

\* Every step keeps the types.
LEMMA TypeStep ==
    ASSUME RollupAssumption, RollupTypes, [RollupNext]_rollupVars PROVE RollupTypes'
<1>1. CASE UNCHANGED rollupVars
  BY <1>1 DEF rollupVars, RollupTypes, RollupTypeOK, Inserted
<1> QED
  BY <1>1, WritersType, JobType, SweepType DEF RollupNext

\* Every variable of the rollup keeps its type, and no claim is newer than the
\* clock: what runRollup reads and writes is a row, a period or a summary of
\* this calendar.
THEOREM RollupIsTyped == RollupSpec => []RollupTypeOK
<1>1. RollupInit => RollupTypes
  BY TypeInit, RollupAssumption
<1>2. RollupTypes /\ [RollupNext]_rollupVars => RollupTypes'
  BY TypeStep, RollupAssumption
<1>3. RollupTypes => RollupTypeOK
  BY DEF RollupTypes
<1> QED
  BY <1>1, <1>2, <1>3, PTL DEF RollupSpec

-----------------------------------------------------------------------------
(* Stale summaries are remembered.                                         *)

\* What is below a period is below everything that changes with it.
LEMMA BelowIs ==
    ASSUME RollupAssumption, NEW p \in Periods
    PROVE  /\ p \in Below[p] /\ Below[p] \subseteq Periods
           /\ \A a \in AncestorsOf[p] : Below[p] \subseteq Below[a] /\ a \in Periods
           /\ \A q \in Below[p] : q = p \/ p \in AncestorsOf[q]
<1>1. \A q \in Periods : Below[q] = {r \in Periods : r = q \/ q \in AncestorsOf[r]}
  BY DEF Below
<1>2. ASSUME NEW a \in AncestorsOf[p] PROVE Below[p] \subseteq Below[a] /\ a \in Periods
  <2>1. a \in Periods
    BY Ancestry
  <2>2. \A r \in Periods : p \in AncestorsOf[r] => a \in AncestorsOf[r]
    BY Ancestry
  <2> QED
    BY <1>1, <2>1, <2>2
<1> QED
  BY <1>1, <1>2

\* A step that neither writes claims nor summaries leaves what is out of date.
LEMMA SyncFrame ==
    ASSUME UNCHANGED <<entry, summary>>
    PROVE  /\ \A p \in Periods : Unsynced(p)' <=> Unsynced(p)
           /\ \A p \in Periods : Input(p)' = Input(p)
           /\ \A w : TouchedDays(w)' = TouchedDays(w)
BY DEF Unsynced, Input, TouchedDays, Touching

\* At the beginning there is nothing to summarize.
LEMMA MemoryInit == ASSUME RollupAssumption, RollupInit PROVE MemoryInv
<1>1. ASSUME NEW p \in Periods PROVE Input(p) = {}
  <2>1. \A e \in Entries : entry[e].status = "none"
    BY DEF RollupInit
  <2>2. \A c \in Children[p] : summary[c] = {}
    BY Ancestry DEF RollupInit
  <2> QED
    BY <2>1, <2>2 DEF Input
<1> QED
  BY <1>1 DEF RollupInit, MemoryInv, RowRemembers, Unsynced, Idle

\* A writer of claims leaves the day it changes in both memories.
LEMMA WritersMemory ==
    ASSUME RollupAssumption, RollupTypes, MemoryInv, NEW e \in Entries,
           InsertEntry(e) \/ CommitEntry(e) \/ RetractEntry(e)
    PROVE  MemoryInv'
<1> DEFINE d == Day(entry[e].day)
           Quiet == entry[e].status # "active" /\ entry'[e].status # "active"
<1>1. /\ entry \in [Entries -> EntryType] /\ entry[e] \in EntryType
      /\ rollupState.watermark \in Nat /\ sweep.watermark \in Nat /\ clock \in Nat
  BY InsertedCounts DEF RollupTypes, RollupTypeOK, EntryType
<1>2. /\ UNCHANGED <<summary, rollupState, sweep>>
      /\ unannounced \subseteq unannounced'
      /\ \A f \in Entries : f # e => entry'[f] = entry[f]
      /\ entry'[e].day = entry[e].day
  BY <1>1 DEF InsertEntry, CommitEntry, RetractEntry, EntryType
<1>3. \/ /\ entry[e].status # "active" /\ entry'[e].status # "active"
      \/ /\ entry[e].status # "active" /\ entry'[e].status = "active"
         /\ entry'[e].at = entry[e].at
         /\ \/ d \in unannounced'
            \/ entry[e].at > rollupState.watermark /\ entry[e].at > sweep.watermark
      \/ d \in unannounced'
  BY <1>1 DEF InsertEntry, CommitEntry, RetractEntry, EntryType
<1>4. ASSUME NEW w \in {rollupState.watermark, sweep.watermark}
      PROVE  /\ TouchedDays(w) \subseteq TouchedDays(w)' \union unannounced'
             /\ Quiet \/ d \in TouchedDays(w)' \union unannounced'
  <2>1. ASSUME NEW f \in Touching(w) PROVE Day(entry[f].day) \in TouchedDays(w)' \union unannounced'
    <3>1. CASE f # e
      <4>1. f \in Touching(w)' /\ entry'[f].day = entry[f].day
        BY <1>2, <3>1 DEF Touching
      <4> QED
        BY <4>1 DEF TouchedDays
    <3>2. CASE f = e
      BY <1>3, <2>1, <3>2 DEF Touching
    <3> QED
      BY <3>1, <3>2
  <2>2. TouchedDays(w) \subseteq TouchedDays(w)' \union unannounced'
    BY <2>1 DEF TouchedDays
  <2>3. ASSUME entry'[e].status = "active", entry[e].at > w, entry'[e].at = entry[e].at
        PROVE  d \in TouchedDays(w)'
    <3>1. e \in Touching(w)' /\ d = Day(entry'[e].day)
      BY <1>2, <2>3 DEF Touching
    <3>2. TouchedDays(w)' = {Day(entry'[f].day) : f \in Touching(w)'}
      BY DEF TouchedDays
    <3> QED
      BY <3>1, <3>2
  <2>4. Quiet \/ d \in TouchedDays(w)' \union unannounced'
    BY <1>3, <2>3
  <2> QED
    BY <2>2, <2>4
<1>5. ASSUME NEW p \in Periods
      PROVE  \/ Input(p)' = Input(p)
             \/ p = d /\ ~Quiet
  <2>1. CASE p[1] # "day"
    BY <1>2, <2>1 DEF Input
  <2>2. CASE p[1] = "day"
    <3>1. /\ Input(p) = {f \in Entries : entry[f].status = "active" /\ Day(entry[f].day) = p}
          /\ Input(p)' = {f \in Entries : entry'[f].status = "active" /\ Day(entry'[f].day) = p}
      BY <2>2 DEF Input
    <3> QED
      BY <1>2, <3>1
  <2> QED
    BY <2>1, <2>2
<1>6. /\ RowMemory \subseteq RowMemory'
      /\ SweepMemory \subseteq SweepMemory'
      /\ \/ /\ d \in RowMemory' /\ d \in SweepMemory'
            /\ d \in TouchedDays(sweep.watermark)' \union unannounced'
         \/ Quiet
      /\ Visits' = Visits
  BY <1>2, <1>4 DEF RowMemory, SweepMemory, Visits
<1>7. ASSUME NEW p \in Periods, Unsynced(p)'
      PROVE  Unsynced(p) \/ (p \in RowMemory' /\ p \in SweepMemory')
  <2>1. Input(p)' = Input(p) \/ (p \in RowMemory' /\ p \in SweepMemory')
    BY <1>5, <1>6, Zenon
  <2> QED
    BY <1>2, <1>7, <2>1 DEF Unsynced
<1>8. RowRemembers'
  BY <1>6, <1>7, BelowIs DEF MemoryInv, RowRemembers
<1>9. CASE sweep.at # "idle"
  <2>1. SweepRemembers'
    BY <1>6, <1>7, <1>9, BelowIs DEF MemoryInv, SweepRemembers
  <2>2. WorkIsKnown'
    BY <1>6, <1>9 DEF MemoryInv, WorkIsKnown
  <2>3. UpwardsIsAhead'
    BY <1>2, <1>6, <1>9 DEF MemoryInv, UpwardsIsAhead
  <2>4. InputIsCurrent'
    <3> SUFFICES ASSUME sweep.at = "write"
                 PROVE  \/ sweep.input = Input(sweep.period)'
                        \/ sweep.period \in TouchedDays(sweep.watermark)' \union unannounced'
      BY <1>2 DEF InputIsCurrent
    <3>1. sweep.period \in Periods
      BY DEF RollupTypes
    <3> QED
      BY <1>2, <1>4, <1>5, <1>6, <1>9, <3>1 DEF MemoryInv, InputIsCurrent
  <2> QED
    BY <1>8, <2>1, <2>2, <2>3, <2>4 DEF MemoryInv
<1> QED
  BY <1>2, <1>8, <1>9 DEF MemoryInv

\* A step that leaves claims, summaries, row and sweep leaves the memories.
LEMMA SweepFrame ==
    ASSUME RollupTypes, MemoryInv,
           UNCHANGED <<entry, summary, rollupState, unannounced, sweep>>
    PROVE  MemoryInv'
<1>1. /\ RowMemory' = RowMemory /\ SweepMemory' = SweepMemory /\ Visits' = Visits
  BY SyncFrame DEF RowMemory, SweepMemory, Visits
<1>2. RowRemembers' /\ (sweep.at # "idle" => SweepRemembers' /\ WorkIsKnown')
  BY <1>1, SyncFrame DEF MemoryInv, RowRemembers, SweepRemembers, WorkIsKnown
<1>3. sweep.at # "idle" => UpwardsIsAhead'
  BY <1>1 DEF MemoryInv, UpwardsIsAhead
<1>4. sweep.at # "idle" => InputIsCurrent'
  <2>1. Input(sweep.period)' = Input(sweep.period)
    BY DEF Input
  <2> QED
    BY <2>1, SyncFrame DEF MemoryInv, InputIsCurrent
<1> QED
  BY <1>2, <1>3, <1>4 DEF MemoryInv

\* The calendar, the route and a crash leave what the row remembers.
LEMMA JobMemory ==
    ASSUME RollupAssumption, RollupTypes, MemoryInv, NextDay \/ Trigger \/ AttemptFails
    PROVE  MemoryInv'
<1>1. /\ UNCHANGED <<entry, summary, rollupState, unannounced>>
      /\ sweep' = sweep \/ sweep' = Idle
  BY DEF NextDay, Trigger, AttemptFails
<1>2. RowRemembers'
  BY <1>1, SyncFrame DEF MemoryInv, RowRemembers, RowMemory
<1>3. CASE sweep' = sweep
  BY <1>1, <1>2, <1>3, SweepFrame
<1>4. CASE sweep' = Idle
  BY <1>2, <1>4 DEF MemoryInv, Idle
<1> QED
  BY <1>1, <1>3, <1>4

\* A sweep begins with all that the row remembers, and what is above it.
LEMMA DiscoverMemory ==
    ASSUME RollupAssumption, RollupTypes, MemoryInv, Discover PROVE MemoryInv'
<1> DEFINE keys == rollupState.pending \union TouchedDays(rollupState.watermark)
           reached == {p \in WorkSet : EndOf[p] >= Floor}
<1>1. /\ UNCHANGED <<entry, summary, rollupState>> /\ unannounced' = unannounced \ WorkSet
      /\ sweep'.at = "next" /\ sweep'.ready \union sweep'.pending = reached
  BY DEF Discover, Idle
<1>2. /\ WorkSet = keys \union UNION {AncestorsOf[p] : p \in keys}
      /\ keys \subseteq Periods /\ WorkSet \subseteq Periods
      /\ unannounced \subseteq Days /\ Days \subseteq Periods
  BY WorkSetType, FirstDay DEF WorkSet, RollupTypes, RollupTypeOK
<1>3. RowMemory' = RowMemory /\ keys \subseteq RowMemory
  <2>1. unannounced \cap WorkSet \subseteq keys
    BY <1>2, Ancestry
  <2>2. RowMemory' = keys \union (unannounced \ WorkSet)
    BY <1>1, SyncFrame DEF RowMemory
  <2> QED
    BY <1>2, <2>1, <2>2 DEF RowMemory
<1>4. RowRemembers'
  BY <1>1, <1>3, SyncFrame DEF MemoryInv, RowRemembers
<1>5. Visits' \subseteq reached /\ reached \subseteq SweepMemory' /\ unannounced \ WorkSet \subseteq SweepMemory'
  BY <1>1 DEF Visits, SweepMemory
<1>6. SweepRemembers'
  <2> SUFFICES ASSUME NEW p \in Periods, Unsynced(p) PROVE Below[p] \cap SweepMemory' # {}
    BY <1>1, SyncFrame DEF SweepRemembers
  <2>1. PICK k \in Below[p] : k \in RowMemory
    BY DEF MemoryInv, RowRemembers
  <2>2. CASE k \in WorkSet
    <3>1. k \in keys
      BY <1>2, <2>1, <2>2, Ancestry DEF RowMemory
    <3>2. p \in WorkSet
      BY <1>2, <2>1, <3>1, BelowIs
    <3>3. EndOf[p] >= Floor
      BY DEF Unsynced
    <3> QED
      BY <1>5, <3>2, <3>3, BelowIs
  <2>3. CASE k \notin WorkSet
    BY <1>2, <1>5, <2>1, <2>3 DEF RowMemory
  <2> QED
    BY <2>2, <2>3
<1>7. WorkIsKnown'
  <2>1. ASSUME NEW q \in WorkSet PROVE Below[q] \cap RowMemory # {}
    <3>1. PICK k \in keys : q = k \/ q \in AncestorsOf[k]
      BY <1>2
    <3> QED
      BY <1>2, <1>3, <3>1, BelowIs
  <2> QED
    BY <1>3, <1>5, <2>1 DEF WorkIsKnown
<1>8. UpwardsIsAhead'
  <2>1. ASSUME NEW q \in WorkSet PROVE AncestorsOf[q] \subseteq WorkSet
    <3>1. PICK k \in keys : q = k \/ q \in AncestorsOf[k]
      BY <1>2
    <3> QED
      BY <1>2, <3>1, Ancestry
  <2> QED
    BY <1>1, <1>5, <2>1 DEF UpwardsIsAhead
<1>9. InputIsCurrent'
  BY <1>1 DEF InputIsCurrent
<1> QED
  BY <1>4, <1>6, <1>7, <1>8, <1>9 DEF MemoryInv

\* The period visited first has nothing left to visit below it.
LEMMA CurrentIs ==
    ASSUME RollupAssumption, RollupTypes, MemoryInv, NextPeriod
    PROVE  /\ Current \in sweep.ready /\ Current \in Periods /\ Visits = sweep.ready
           /\ \A q \in sweep.ready : Current \notin AncestorsOf[q] /\ q \in Periods
<1>1. sweep.ready \subseteq Periods /\ sweep.ready # {} /\ sweep.at = "next"
  BY DEF RollupTypes, NextPeriod
<1>2. Current \in sweep.ready /\ \A q \in sweep.ready : Rank(Current) <= Rank(q)
  BY <1>1, FirstIs DEF Current
<1>3. \A q \in sweep.ready : Rank(q) \in 0 .. 3
  BY <1>1, Ancestry
<1> QED
  BY <1>1, <1>2, <1>3, Ancestry DEF Visits

\* A period is put off, skipped or begun.
LEMMA VisitMemory ==
    ASSUME RollupAssumption, RollupTypes, MemoryInv, Defer \/ Skip \/ Collect
    PROVE  MemoryInv'
<1>1. NextPeriod /\ sweep.at # "idle" /\ UNCHANGED <<entry, summary, rollupState, unannounced>>
  BY DEF Defer, Skip, Collect, NextPeriod
<1>2. /\ Current \in sweep.ready /\ Current \in Periods /\ Visits = sweep.ready
      /\ \A q \in sweep.ready : Current \notin AncestorsOf[q] /\ q \in Periods
  BY <1>1, CurrentIs
<1>3. /\ sweep'.watermark = sweep.watermark /\ sweep'.ready = sweep.ready \ {Current}
      /\ sweep'.at # "idle" /\ sweep.pending \subseteq sweep'.pending
      /\ sweep'.at = "write" => sweep'.period = Current /\ sweep'.input = Input(Current)
      /\ \/ Current \in sweep'.pending
         \/ sweep'.at = "write" /\ sweep'.period = Current
         \/ Unchanged(Current)
  BY <1>1 DEF Defer, Skip, Collect, NextPeriod, RollupTypes
<1>4. RowMemory' = RowMemory /\ RowRemembers'
  BY <1>1, SyncFrame DEF MemoryInv, RowRemembers, RowMemory
<1>5. Visits' \subseteq Visits
  BY <1>2, <1>3 DEF Visits
<1>6. WorkIsKnown'
  BY <1>1, <1>4, <1>5 DEF MemoryInv, WorkIsKnown
<1>7. ASSUME NEW q \in Visits, NEW a \in AncestorsOf[q], EndOf[a] >= Floor
      PROVE  a \in sweep'.ready \union sweep'.pending
  BY <1>1, <1>2, <1>3, <1>7 DEF MemoryInv, UpwardsIsAhead
<1>8. UpwardsIsAhead'
  BY <1>5, <1>7 DEF UpwardsIsAhead
<1>9. InputIsCurrent'
  BY <1>1, <1>2, <1>3, SyncFrame DEF InputIsCurrent
<1>10. SweepRemembers'
  <2> SUFFICES ASSUME NEW p \in Periods, Unsynced(p) PROVE Below[p] \cap SweepMemory' # {}
    BY <1>1, SyncFrame DEF SweepRemembers
  <2>1. PICK k \in Below[p] : k \in SweepMemory
    BY <1>1 DEF MemoryInv, SweepRemembers
  <2>2. k \in SweepMemory' \/ k = Current
    BY <1>1, <1>2, <1>3, <2>1, SyncFrame DEF SweepMemory, Visits
  <2>3. CASE k = Current
    <3>1. CASE p = Current
      <4>1. ~Unchanged(Current)
        BY <3>1 DEF Unchanged, Unsynced
      <4>2. Current \in SweepMemory'
        BY <1>3, <4>1 DEF SweepMemory, Visits
      <4> QED
        BY <2>1, <2>3, <4>2
    <3>2. CASE p # Current
      <4>1. p \in AncestorsOf[Current]
        BY <2>1, <2>3, <3>2, BelowIs
      <4>2. p \in SweepMemory'
        BY <1>2, <1>7, <4>1 DEF SweepMemory, Visits, Unsynced
      <4> QED
        BY <4>2, BelowIs
    <3> QED
      BY <3>1, <3>2
  <2> QED
    BY <2>1, <2>2, <2>3
<1> QED
  BY <1>4, <1>6, <1>8, <1>9, <1>10 DEF MemoryInv

\* A summary that is written changes only the input of what is above it.
LEMMA SummarizeMemory ==
    ASSUME RollupAssumption, RollupTypes, MemoryInv, Summarize PROVE MemoryInv'
<1>0. PICK q \in Periods : q = sweep.period
  BY DEF RollupTypes
<1>1. /\ sweep.at = "write" /\ q \in Visits
      /\ UNCHANGED <<entry, rollupState, unannounced>>
      /\ summary' = [summary EXCEPT ![q] = sweep.input] /\ DOMAIN summary = Periods
  BY <1>0 DEF Summarize, RollupTypes, RollupTypeOK, Visits
<1>2. /\ sweep'.at = "next" /\ sweep'.ready = sweep.ready /\ sweep'.pending = sweep.pending
      /\ sweep'.watermark = sweep.watermark
  BY DEF Summarize, RollupTypes
<1>3. /\ \A w : TouchedDays(w)' = TouchedDays(w)
      /\ RowMemory' = RowMemory /\ Visits' \subseteq Visits
      /\ \A k \in SweepMemory : k = q \/ k \in SweepMemory'
  BY <1>0, <1>1, <1>2 DEF TouchedDays, Touching, RowMemory, Visits, SweepMemory
<1>4. ASSUME NEW p \in Periods, p \notin AncestorsOf[q] PROVE Input(p)' = Input(p)
  <2>1. q \notin Children[p] /\ Children[p] \subseteq Periods
    BY <1>1, <1>4, Ancestry
  <2>2. \A c \in Children[p] : summary'[c] = summary[c]
    BY <1>1, <2>1
  <2>3. p[1] # "day" =>
          /\ Input(p) = {<<r, summary[r]>> : r \in {c \in Children[p] : summary[c] # {}}}
          /\ Input(p)' = {<<r, summary'[r]>> : r \in {c \in Children[p] : summary'[c] # {}}}
    BY DEF Input
  <2>4. p[1] = "day" => Input(p)' = Input(p)
    BY <1>1 DEF Input
  <2>5. ASSUME p[1] # "day" PROVE Input(p)' = Input(p)
    <3>1. \A x : x \in Input(p)' <=> x \in Input(p)
      BY <2>2, <2>3, <2>5
    <3> QED
      BY <2>3, <2>5, <3>1
  <2> QED
    BY <2>4, <2>5
<1>5. q \notin AncestorsOf[q]
  BY <1>1, Ancestry
<1>6. ASSUME NEW p \in Periods, Unsynced(p)'
      PROVE  \/ p # q /\ Unsynced(p) /\ p \notin AncestorsOf[q]
             \/ p \in AncestorsOf[q]
             \/ p = q /\ q \in TouchedDays(sweep.watermark) \union unannounced
  <2>1. CASE p = q
    <3>1. Input(q)' = Input(q) /\ summary'[q] = sweep.input
      BY <1>1, <1>4, <1>5
    <3> QED
      BY <1>0, <1>1, <1>6, <2>1, <3>1 DEF Unsynced, MemoryInv, InputIsCurrent
  <2>2. CASE p # q /\ p \notin AncestorsOf[q]
    <3>1. Input(p)' = Input(p) /\ summary'[p] = summary[p]
      BY <1>1, <1>4, <2>2
    <3> QED
      BY <1>6, <2>2, <3>1 DEF Unsynced
  <2> QED
    BY <2>1, <2>2
<1>7. Below[q] \cap RowMemory # {} /\ Below[q] \subseteq Periods
  BY <1>1, BelowIs DEF MemoryInv, WorkIsKnown
<1>8. RowRemembers'
  <2> SUFFICES ASSUME NEW p \in Periods, Unsynced(p)' PROVE Below[p] \cap RowMemory # {}
    BY <1>3 DEF RowRemembers
  <2>1. CASE p \in AncestorsOf[q] \/ p = q
    BY <1>1, <1>7, <2>1, BelowIs
  <2>2. CASE Unsynced(p)
    BY <2>2 DEF MemoryInv, RowRemembers
  <2> QED
    BY <1>6, <2>1, <2>2
<1>9. SweepRemembers'
  <2> SUFFICES ASSUME NEW p \in Periods, Unsynced(p)' PROVE Below[p] \cap SweepMemory' # {}
    BY DEF SweepRemembers
  <2>1. CASE p \in AncestorsOf[q]
    <3>1. EndOf[p] >= Floor
      BY DEF Unsynced
    <3>2. p \in sweep.ready \union sweep.pending
      BY <1>1, <2>1, <3>1 DEF MemoryInv, UpwardsIsAhead
    <3>3. p \in SweepMemory'
      BY <1>2, <3>2 DEF SweepMemory, Visits
    <3> QED
      BY <3>3, BelowIs
  <2>2. CASE p # q /\ Unsynced(p) /\ p \notin AncestorsOf[q]
    <3>1. PICK k \in Below[p] : k \in SweepMemory
      BY <1>1, <2>2 DEF MemoryInv, SweepRemembers
    <3>2. k # q
      BY <2>2, BelowIs
    <3> QED
      BY <1>3, <3>1, <3>2
  <2>3. CASE p = q /\ q \in TouchedDays(sweep.watermark) \union unannounced
    <3>1. q \in SweepMemory'
      BY <1>1, <1>2, <1>3, <2>3 DEF SweepMemory
    <3> QED
      BY <2>3, <3>1, BelowIs
  <2> QED
    BY <1>6, <2>1, <2>2, <2>3
<1>10. WorkIsKnown'
  BY <1>1, <1>3 DEF MemoryInv, WorkIsKnown
<1>11. UpwardsIsAhead'
  BY <1>1, <1>2, <1>3 DEF MemoryInv, UpwardsIsAhead
<1>12. InputIsCurrent'
  BY <1>2 DEF InputIsCurrent
<1> QED
  BY <1>8, <1>9, <1>10, <1>11, <1>12 DEF MemoryInv

\* A failure leaves the period pending.
LEMMA FailureMemory ==
    ASSUME RollupAssumption, RollupTypes, MemoryInv, SummarizeFails PROVE MemoryInv'
<1>1. /\ sweep.at = "write" /\ sweep.period \in Visits
      /\ UNCHANGED <<entry, summary, rollupState, unannounced>>
      /\ sweep'.at = "next" /\ sweep'.ready = sweep.ready
      /\ sweep'.pending = sweep.pending \union {sweep.period}
      /\ sweep'.watermark = sweep.watermark
  BY DEF SummarizeFails, KeepPending, RollupTypes, Visits
<1>2. /\ RowMemory' = RowMemory /\ SweepMemory' = SweepMemory /\ Visits' \subseteq Visits
  BY <1>1, SyncFrame DEF RowMemory, SweepMemory, Visits
<1>3. RowRemembers' /\ SweepRemembers'
  BY <1>1, <1>2, SyncFrame DEF MemoryInv, RowRemembers, SweepRemembers
<1>4. WorkIsKnown'
  BY <1>1, <1>2 DEF MemoryInv, WorkIsKnown
<1>5. UpwardsIsAhead'
  BY <1>1, <1>2 DEF MemoryInv, UpwardsIsAhead
<1> QED
  BY <1>1, <1>3, <1>4, <1>5 DEF MemoryInv, InputIsCurrent

\* The row takes over what the sweep remembers.
LEMMA CommitMemory ==
    ASSUME RollupAssumption, RollupTypes, MemoryInv, CommitState PROVE MemoryInv'
<1>1. /\ UNCHANGED <<entry, summary, unannounced>>
      /\ rollupState'.watermark = sweep.watermark /\ rollupState'.pending = sweep.pending
      /\ sweep.at = "next" /\ sweep.ready = {} /\ sweep'.at = "idle"
  BY DEF CommitState, Idle
<1>2. RowMemory' = SweepMemory
  BY <1>1, SyncFrame DEF RowMemory, SweepMemory, Visits
<1> QED
  BY <1>1, <1>2, SyncFrame DEF MemoryInv, RowRemembers, SweepRemembers

\* Every step keeps what is remembered.
LEMMA MemoryStep ==
    ASSUME RollupAssumption, RollupTypes, MemoryInv, [RollupNext]_rollupVars
    PROVE  MemoryInv'
<1>1. CASE UNCHANGED rollupVars
  BY <1>1, SweepFrame DEF rollupVars
<1>2. CASE SweepStep
  BY <1>2, DiscoverMemory, VisitMemory, SummarizeMemory, FailureMemory, CommitMemory
     DEF SweepStep
<1> QED
  BY <1>1, <1>2, WritersMemory, JobMemory DEF RollupNext

\* A complete period whose summary is not what its input says is remembered by
\* the row the next sweep reads, unless the only change is one no claim
\* announces: for any calendar and any claims, over sweeps that fail, are
\* deferred or die, and days that pass in between (runRollup).
THEOREM StaleIsAlwaysRemembered == RollupSpec => []StaleIsRemembered
<1>1. RollupInit => RollupTypes /\ MemoryInv
  BY TypeInit, MemoryInit, RollupAssumption
<1>2. RollupTypes /\ MemoryInv /\ [RollupNext]_rollupVars => RollupTypes' /\ MemoryInv'
  BY TypeStep, MemoryStep, RollupAssumption
<1>3. MemoryInv => StaleIsRemembered
  BY DEF MemoryInv, RowRemembers, RowMemory, StaleIsRemembered, Stale, InScope, Unsynced
<1> QED
  BY <1>1, <1>2, <1>3, PTL DEF RollupSpec

-----------------------------------------------------------------------------
(* The atlas.                                                              *)

Runs == [at : {"ensure", "create", "compare", "write"},
         kind : {"dream", "supersede", "query"}, got : Said, row : RowIds \union {0}]

Creators == {w \in Workers : run[w].at = "create"}

Superseders == {w \in Workers : run[w] # Resting /\ run[w].kind = "supersede"}

\* Rows are made one after the other, by workers that saw none.
RowsAreCounted ==
    /\ There = 1 .. Cardinality(There)
    /\ There # {} => Cardinality(There) + Cardinality(Creators) <= Cardinality(Workers)

AtlasInv ==
    /\ AtlasTypeOK /\ RowsAreCounted
    /\ run \in [Workers -> {Resting} \union Runs]
    /\ asking \in [Readers -> [facts : Said \union {Unread}, text : Said \union {Unread}]]
    /\ \A v, w \in Superseders : v = w

\* The sets that are counted are finite.
LEMMA CreatorsCount ==
    ASSUME AtlasAssumption
    PROVE  /\ Cardinality(Workers) \in Nat /\ Cardinality(Creators) \in Nat
           /\ Cardinality(Creators) <= Cardinality(Workers)
           /\ IsFiniteSet(Creators) /\ IsFiniteSet(Workers) /\ IsFiniteSet(RowIds)
           /\ IsFiniteSet(There) /\ Cardinality(There) \in Nat
<1>1. IsFiniteSet(Workers) /\ Creators \subseteq Workers /\ There \subseteq RowIds
  BY DEF AtlasAssumption, Creators, There
<1>2. Cardinality(Workers) \in Nat /\ IsFiniteSet(Creators)
      /\ Cardinality(Creators) <= Cardinality(Workers)
  BY <1>1, FS_Subset, FS_CardinalityType
<1>3. IsFiniteSet(RowIds)
  BY <1>2, FS_Interval DEF RowIds
<1>4. IsFiniteSet(There)
  BY <1>1, <1>3, FS_Subset
<1> QED
  BY <1>1, <1>2, <1>3, <1>4, FS_CardinalityType

\* The invariant at the beginning.
LEMMA AtlasBegins == ASSUME AtlasAssumption, AtlasInit PROVE AtlasInv
<1>1. There = {} /\ Creators = {} /\ Superseders = {}
  BY DEF AtlasInit, There, NoRow, Creators, Resting, Superseders
<1>2. Cardinality({}) = 0
  BY FS_EmptySet
<1> QED
  BY <1>1, <1>2 DEF AtlasInit, AtlasInv, AtlasTypeOK, RowsAreCounted, AtlasAssumption, NoBundle

\* A row that is there has a text and a hash; the bundle shows one of them.
LEMMA ShownIsSaid ==
    ASSUME AtlasInv PROVE OnShow \subseteq Said
<1>1. \A r \in There : atlas[r].text \in Said
  BY DEF AtlasInv, AtlasTypeOK, There, NoRow, Row
<1> QED
  BY <1>1 DEF OnShow, Said

\* The claims, what is noticed of them, and the readers.
LEMMA AroundInv ==
    ASSUME AtlasAssumption, AtlasInv,
           \/ \E s \in Said : ChangeNoticed(s) \/ ChangeUnnoticed(s)
           \/ Notice \/ NoticeLost \/ Expire
           \/ \E r \in Readers : Ask(r) \/ Gather(r) \/ Keep(r)
    PROVE  AtlasInv'
<1>1. UNCHANGED <<run, atlas>>
  BY DEF ChangeNoticed, ChangeUnnoticed, Notice, Enqueue, Invalidate, NoticeLost, Expire,
     Ask, Gather, Keep
<1>2. There' = There /\ Creators' = Creators /\ Superseders' = Superseders
  BY <1>1 DEF There, Creators, Superseders
<1>3. /\ refresh' \in {"none", "waiting", "active", "failed"}
      /\ refresh' = "active" <=> refresh = "active"
  BY DEF ChangeNoticed, ChangeUnnoticed, Notice, Enqueue, Invalidate, NoticeLost, Expire,
     Ask, Gather, Keep, AtlasInv, AtlasTypeOK
<1>4. /\ facts' \in Said /\ notice' \in {"none", "enqueue", "invalidate"}
      /\ changes' \in 0 .. MaxChanges /\ faults' \in 0 .. MaxFaults
  BY DEF ChangeNoticed, ChangeUnnoticed, Notice, Enqueue, Invalidate, NoticeLost, Expire,
     Ask, Gather, Keep, AtlasInv, AtlasTypeOK, AtlasAssumption
<1>5. asking' \in [Readers -> [facts : Said \union {Unread}, text : Said \union {Unread}]]
  <2>1. CASE \E r \in Readers : Ask(r) \/ Gather(r) \/ Keep(r)
    BY <2>1, ShownIsSaid DEF Ask, Gather, Keep, AtlasInv, AtlasTypeOK, NoBundle
  <2>2. CASE UNCHANGED asking
    BY <2>2 DEF AtlasInv
  <2> QED
    BY <2>1, <2>2 DEF ChangeNoticed, ChangeUnnoticed, Notice, Enqueue, Invalidate, NoticeLost,
       Expire
<1>6. bundle' = NoBundle \/ bundle' \in [facts : Said, text : Said]
  <2>1. bundle' \in {bundle, NoBundle}
          \/ \E r \in Readers : bundle' = asking[r] /\ Unread \notin {asking[r].facts, asking[r].text}
    BY DEF ChangeNoticed, ChangeUnnoticed, Notice, Enqueue, Invalidate, NoticeLost, Expire,
       Ask, Gather, Keep
  <2> QED
    BY <2>1 DEF AtlasInv, AtlasTypeOK
<1> QED
  BY <1>1, <1>2, <1>3, <1>4, <1>5, <1>6 DEF AtlasInv, AtlasTypeOK, RowsAreCounted, Superseders

\* What a run becomes when its worker goes on or stops.
LEMMA WorkerInv ==
    ASSUME AtlasAssumption, AtlasInv, NEW w \in Workers, run[w] # Resting,
           NEW next \in {Resting} \union Runs, run' = [run EXCEPT ![w] = next],
           next # Resting =>
             /\ next.kind = run[w].kind /\ refresh' = refresh
             /\ next.at \in {"compare", "write"} => next.row \in There',
           next = Resting =>
             IF run[w].kind = "supersede" THEN refresh' \in {"none", "failed", "waiting"}
             ELSE refresh' = refresh,
           atlas' \in [RowIds -> {NoRow} \union {Row(s) : s \in Said}],
           There \subseteq There', RowsAreCounted', faults' \in 0 .. MaxFaults,
           UNCHANGED <<facts, notice, bundle, asking, changes>>
    PROVE  AtlasInv'
<1>1. run \in [Workers -> {Resting} \union Runs]
  BY DEF AtlasInv
<1>2. /\ run' \in [Workers -> {Resting} \union Runs] /\ run'[w] = next
      /\ \A v \in Workers : v # w => run'[v] = run[v]
  BY <1>1
<1>3. Superseders' = IF next = Resting THEN Superseders \ {w} ELSE Superseders
  BY <1>1, <1>2 DEF Superseders
<1>4. refresh = "active" <=> Superseders # {}
  BY DEF AtlasInv, AtlasTypeOK, Superseders
<1>5. \A u, v \in Superseders : u = v
  BY DEF AtlasInv
<1>6. /\ \A u, v \in Superseders' : u = v
      /\ refresh' = "active" <=> Superseders' # {}
      /\ refresh' \in {"none", "waiting", "active", "failed"}
  <2>1. run[w].kind = "supersede" <=> w \in Superseders
    BY DEF Superseders
  <2> QED
    BY <1>3, <1>4, <1>5, <2>1 DEF AtlasInv, AtlasTypeOK
<1>7. refresh' = "active" <=> \E v \in Workers : run'[v] # Resting /\ run'[v].kind = "supersede"
  BY <1>6 DEF Superseders
<1>8. ASSUME NEW v \in Workers, run'[v] # Resting
      PROVE  /\ run'[v].at \in {"ensure", "create", "compare", "write"}
             /\ run'[v].kind \in {"dream", "supersede", "query"} /\ run'[v].got \in Said
             /\ run'[v].at \in {"compare", "write"} => run'[v].row \in There'
  <2>1. CASE v = w
    BY <1>2, <1>8, <2>1 DEF Runs
  <2>2. CASE v # w
    BY <1>2, <1>8, <2>2 DEF AtlasInv, AtlasTypeOK
  <2> QED
    BY <2>1, <2>2
<1>9. AtlasTypeOK'
  BY <1>6, <1>7, <1>8 DEF AtlasInv, AtlasTypeOK
<1> QED
  BY <1>2, <1>6, <1>9 DEF AtlasInv

\* A worker that makes no row and does not set out to leaves the rows counted.
LEMMA CountFrame ==
    ASSUME AtlasAssumption, AtlasInv, NEW w \in Workers, NEW next,
           run' = [run EXCEPT ![w] = next], There' = There,
           next.at = "create" => There = {}
    PROVE  RowsAreCounted'
<1>1. CASE There = {}
  BY <1>1 DEF AtlasInv, RowsAreCounted
<1>2. CASE There # {}
  <2>1. Creators' \subseteq Creators
    BY <1>2 DEF Creators, AtlasInv
  <2>2. /\ Cardinality(Creators') <= Cardinality(Creators)
        /\ Cardinality(Creators') \in Nat
    BY <2>1, CreatorsCount, FS_Subset, FS_CardinalityType
  <2> QED
    BY <1>2, <2>2, CreatorsCount DEF AtlasInv, RowsAreCounted
<1> QED
  BY <1>1, <1>2

\* A worker finds a row, compares, writes or fails.
LEMMA GoesOnInv ==
    ASSUME AtlasAssumption, AtlasInv, NEW w \in Workers,
           Ensure(w) \/ Compare(w) \/ Write(w) \/ Fail(w)
    PROVE  AtlasInv'
<1>1. run \in [Workers -> {Resting} \union Runs] /\ run[w] # Resting /\ run[w] \in Runs
  BY DEF AtlasInv, Ensure, Compare, Write, Fail, Resting
<1>2. /\ UNCHANGED <<facts, notice, bundle, asking, changes>>
      /\ faults' \in 0 .. MaxFaults
  BY DEF Ensure, Compare, Write, Fail, AtlasInv, AtlasTypeOK, AtlasAssumption
<1>3. /\ atlas' \in [RowIds -> {NoRow} \union {Row(s) : s \in Said}]
      /\ There' = There
  <2>1. CASE Write(w)
    <3>1. /\ atlas' = [atlas EXCEPT ![run[w].row] = Row(run[w].got)]
          /\ run[w].row \in There /\ run[w].got \in Said
      BY <1>1, <2>1 DEF Write, AtlasInv, AtlasTypeOK
    <3>2. atlas \in [RowIds -> {NoRow} \union {Row(s) : s \in Said}]
      BY DEF AtlasInv, AtlasTypeOK
    <3> QED
      BY <3>1, <3>2 DEF There, Row
  <2>2. CASE UNCHANGED atlas
    BY <2>2 DEF There, AtlasInv, AtlasTypeOK
  <2> QED
    BY <2>1, <2>2 DEF Ensure, Compare, Fail
<1>4. ASSUME run' = [run EXCEPT ![w] = Resting],
             IF run[w].kind = "supersede" THEN refresh' \in {"none", "failed", "waiting"}
             ELSE refresh' = refresh
      PROVE  AtlasInv'
  <2>1. RowsAreCounted'
    BY <1>3, <1>4, CountFrame DEF Resting
  <2> QED
    BY <1>1, <1>2, <1>3, <1>4, <2>1, WorkerInv
<1>5. ASSUME NEW at \in {"create", "compare", "write"}, NEW onto \in RowIds \union {0},
             run' = [run EXCEPT ![w] = [run[w] EXCEPT !.at = at, !.row = onto]],
             refresh' = refresh, at = "create" => There = {},
             at # "create" => onto \in There
      PROVE  AtlasInv'
  <2> DEFINE next == [run[w] EXCEPT !.at = at, !.row = onto]
  <2>1. /\ next \in Runs /\ next.at = at /\ next.row = onto /\ next.kind = run[w].kind
        /\ next # Resting
    BY <1>1, <1>5 DEF Runs, Resting
  <2>2. run' = [run EXCEPT ![w] = next]
    BY <1>5
  <2> HIDE DEF next
  <2>3. RowsAreCounted'
    BY <1>3, <1>5, <2>1, <2>2, CountFrame
  <2> QED
    BY <1>1, <1>2, <1>3, <1>5, <2>1, <2>2, <2>3, WorkerInv
<1>6. ASSUME Done(w) PROVE AtlasInv'
  BY <1>4, <1>6 DEF Done
<1>7. CASE Ensure(w)
  <2>1. ASSUME NEW r \in There, Holds(w, r) PROVE AtlasInv'
    <3>1. CASE run[w].kind = "query"
      BY <1>6, <2>1, <3>1 DEF Holds
    <3>2. CASE run[w].kind # "query"
      <4>1. /\ run' = [run EXCEPT ![w] = [run[w] EXCEPT !.at = "compare", !.row = r]]
            /\ refresh' = refresh /\ r \in RowIds
        BY <1>1, <2>1, <3>2 DEF Holds, There
      <4> QED
        BY <1>5, <2>1, <4>1
    <3> QED
      BY <3>1, <3>2
  <2>2. ASSUME There = {}, run' = [run EXCEPT ![w].at = "create"], UNCHANGED refresh
        PROVE  AtlasInv'
    <3>1. /\ run' = [run EXCEPT ![w] = [run[w] EXCEPT !.at = "create", !.row = run[w].row]]
          /\ run[w].row \in RowIds \union {0}
      BY <1>1, <2>2 DEF Runs
    <3> QED
      BY <1>5, <2>2, <3>1
  <2> QED
    BY <1>7, <2>1, <2>2 DEF Ensure
<1>8. CASE Compare(w)
  <2>1. CASE Done(w)
    BY <1>6, <2>1
  <2>2. CASE run' = [run EXCEPT ![w].at = "write"] /\ UNCHANGED refresh
    <3>1. /\ run' = [run EXCEPT ![w] = [run[w] EXCEPT !.at = "write", !.row = run[w].row]]
          /\ run[w].row \in RowIds \union {0} /\ run[w].row \in There
      BY <1>1, <1>8, <2>2 DEF Runs, Compare, AtlasInv, AtlasTypeOK
    <3> QED
      BY <1>5, <2>2, <3>1
  <2> QED
    BY <1>8, <2>1, <2>2 DEF Compare
<1>9. CASE Write(w)
  BY <1>6, <1>9 DEF Write
<1>10. CASE Fail(w)
  BY <1>4, <1>10 DEF Fail
<1> QED
  BY <1>7, <1>8, <1>9, <1>10

\* A row is made by one of the workers that saw none, so that there are never
\* more rows than workers.
LEMMA CreateInv ==
    ASSUME AtlasAssumption, AtlasInv, NEW w \in Workers, CreateRow(w)
    PROVE  AtlasInv'
<1> DEFINE new == Cardinality(There) + 1
<1>1. run \in [Workers -> {Resting} \union Runs] /\ run[w] \in Runs /\ run[w] # Resting
      /\ run[w].at = "create" /\ w \in Creators
  BY DEF AtlasInv, CreateRow, Resting, Creators
<1>2. /\ UNCHANGED <<facts, notice, bundle, asking, changes>>
      /\ faults' \in 0 .. MaxFaults
      /\ atlas' = [atlas EXCEPT ![new] = Row(Nothing)] /\ Holds(w, new)
  BY DEF CreateRow, AtlasInv, AtlasTypeOK
<1>3. Cardinality(Creators) >= 1
  <2>1. Cardinality({w}) <= Cardinality(Creators) /\ Cardinality({w}) = 1
    <3>1. {w} \subseteq Creators /\ IsFiniteSet(Creators)
      BY <1>1, CreatorsCount
    <3> QED
      BY <3>1, FS_Subset, FS_Singleton
  <2> QED
    BY <2>1, CreatorsCount
<1>4. /\ new \in RowIds /\ new \in Nat
      /\ Cardinality(There) + Cardinality(Creators) <= Cardinality(Workers)
  <2>1. There = {} => Cardinality(There) = 0
    BY FS_EmptySet
  <2>2. Cardinality(There) + Cardinality(Creators) <= Cardinality(Workers)
    BY <2>1, CreatorsCount DEF AtlasInv, RowsAreCounted
  <2> QED
    BY <1>3, <2>2, CreatorsCount DEF RowIds
<1>5. /\ atlas' \in [RowIds -> {NoRow} \union {Row(s) : s \in Said}]
      /\ There' = There \union {new} /\ new \notin There
  <2>1. atlas \in [RowIds -> {NoRow} \union {Row(s) : s \in Said}]
    BY DEF AtlasInv, AtlasTypeOK
  <2>2. Row(Nothing) \in {Row(s) : s \in Said} /\ Row(Nothing).there
    BY DEF Said, Row
  <2>3. new \notin There
    BY <1>4, CreatorsCount DEF AtlasInv, RowsAreCounted
  <2> HIDE DEF new
  <2> QED
    BY <1>2, <1>4, <2>1, <2>2, <2>3 DEF There
<1>6. /\ There' = 1 .. Cardinality(There') /\ Cardinality(There') = Cardinality(There) + 1
  <2>1. Cardinality(There') = Cardinality(There) + 1
    BY <1>5, CreatorsCount, FS_AddElement
  <2>2. There = 1 .. Cardinality(There)
    BY DEF AtlasInv, RowsAreCounted
  <2> QED
    BY <1>5, <2>1, <2>2, CreatorsCount
<1>7. ASSUME run'[w].at # "create", \A v \in Workers : v # w => run'[v] = run[v]
      PROVE  RowsAreCounted'
  <2>1. Creators' = Creators \ {w}
    BY <1>7 DEF Creators
  <2>2. Cardinality(Creators') = Cardinality(Creators) - 1
    BY <1>1, <2>1, CreatorsCount, FS_RemoveElement
  <2> QED
    BY <1>4, <1>6, <2>2, CreatorsCount DEF RowsAreCounted
<1>8. CASE run[w].kind = "query"
  <2>1. /\ run' = [run EXCEPT ![w] = Resting] /\ refresh' = refresh
        /\ run[w].kind # "supersede"
    BY <1>2, <1>8 DEF Holds, Done
  <2>2. RowsAreCounted'
    BY <1>1, <1>7, <2>1 DEF Resting
  <2> QED
    BY <1>1, <1>2, <1>5, <2>1, <2>2, WorkerInv
<1>9. CASE run[w].kind # "query"
  <2> DEFINE next == [run[w] EXCEPT !.at = "compare", !.row = new]
  <2>1. /\ next \in Runs /\ next.at = "compare" /\ next.row = new
        /\ next.kind = run[w].kind /\ next # Resting
    BY <1>1, <1>4 DEF Runs, Resting
  <2>2. run' = [run EXCEPT ![w] = next] /\ refresh' = refresh
    BY <1>1, <1>2, <1>9 DEF Holds
  <2> HIDE DEF next
  <2>3. RowsAreCounted'
    BY <1>1, <1>7, <2>1, <2>2
  <2>4. next.row \in There'
    BY <1>5, <2>1
  <2> QED
    BY <1>1, <1>2, <1>5, <2>1, <2>2, <2>3, <2>4, WorkerInv
<1> QED
  BY <1>8, <1>9

\* A worker that begins or gives up.
LEMMA RunsInv ==
    ASSUME AtlasAssumption, AtlasInv, NEW w \in Workers,
           (\E kind \in {"dream", "supersede", "query"} : BeginRun(w, kind)) \/ Fail(w)
    PROVE  AtlasInv'
<1>1. /\ UNCHANGED <<facts, notice, atlas, bundle, asking, changes>> /\ There' = There
      /\ faults' \in 0 .. MaxFaults
  BY DEF BeginRun, Fail, There, AtlasInv, AtlasTypeOK, AtlasAssumption
<1>2. CASE \E kind \in {"dream", "supersede", "query"} : BeginRun(w, kind)
  <2>1. PICK kind \in {"dream", "supersede", "query"} : BeginRun(w, kind)
    BY <1>2
  <2>2. CASE kind # "query" /\ facts = Nothing
    <3>1. run' = run /\ refresh' \in {"none", refresh} /\ (kind = "supersede" => refresh = "waiting")
          /\ (kind # "supersede" => refresh' = refresh)
      BY <2>1, <2>2 DEF BeginRun, Wanted
    <3>2. Creators' = Creators /\ Superseders' = Superseders
      BY <3>1 DEF Creators, Superseders
    <3>3. refresh' = "active" <=> refresh = "active"
      BY <2>1, <2>2, <3>1 DEF BeginRun
    <3> QED
      BY <1>1, <3>1, <3>2, <3>3 DEF AtlasInv, AtlasTypeOK, RowsAreCounted, Superseders
  <2>3. CASE ~(kind # "query" /\ facts = Nothing)
    <3> DEFINE new == [at |-> "ensure", kind |-> kind, got |-> facts, row |-> 0]
    <3>1. /\ run[w] = Resting /\ run' = [run EXCEPT ![w] = new]
          /\ kind = "supersede" => refresh = "waiting" /\ refresh' = "active"
          /\ kind # "supersede" => refresh' = refresh
      BY <2>1, <2>3 DEF BeginRun, Wanted
    <3>2. new \in Runs /\ run \in [Workers -> {Resting} \union Runs] /\ new # Resting
      BY <2>1 DEF Runs, AtlasInv, AtlasTypeOK, Resting
    <3>3. run' \in [Workers -> {Resting} \union Runs] /\ run'[w] = new
          /\ \A v \in Workers : v # w => run'[v] = run[v]
      BY <3>1, <3>2
    <3>4. Creators' = Creators
      BY <3>1, <3>2, <3>3 DEF Creators, Resting
    <3>5. Superseders' = IF kind = "supersede" THEN Superseders \union {w} ELSE Superseders
      BY <3>1, <3>2, <3>3 DEF Superseders
    <3>6. refresh = "active" <=> Superseders # {}
      BY DEF AtlasInv, AtlasTypeOK, Superseders
    <3>7. /\ \A u, v \in Superseders' : u = v
          /\ refresh' = "active" <=> Superseders' # {}
          /\ refresh' \in {"none", "waiting", "active", "failed"}
      BY <3>1, <3>5, <3>6 DEF AtlasInv, AtlasTypeOK
    <3>8. \A v \in Workers : run'[v] = Resting \/
            /\ run'[v].at \in {"ensure", "create", "compare", "write"}
            /\ run'[v].kind \in {"dream", "supersede", "query"} /\ run'[v].got \in Said
            /\ run'[v].at \in {"compare", "write"} => run'[v].row \in There
      <4>1. new.at = "ensure" /\ new.kind = kind /\ new.got \in Said
        BY <3>2 DEF Runs
      <4> QED
        BY <3>3, <4>1 DEF AtlasInv, AtlasTypeOK
    <3>9. refresh' = "active" <=> \E v \in Workers : run'[v] # Resting /\ run'[v].kind = "supersede"
      BY <3>7 DEF Superseders
    <3> HIDE DEF new
    <3> QED
      BY <1>1, <3>3, <3>4, <3>7, <3>8, <3>9 DEF AtlasInv, AtlasTypeOK, RowsAreCounted
  <2> QED
    BY <2>2, <2>3
<1>3. CASE Fail(w)
  BY <1>3, GoesOnInv
<1> QED
  BY <1>2, <1>3

\* The atlas and the bundle keep their types: a worker works on a row that is
\* there, and the job with its id is at work if and only if one worker has it.
THEOREM AtlasIsTyped == AtlasSpec => []AtlasTypeOK
<1>1. AtlasInit => AtlasInv
  BY AtlasBegins, AtlasAssumption
<1>2. AtlasInv /\ [AtlasNext]_atlasVars => AtlasInv'
  <2> SUFFICES ASSUME AtlasInv, [AtlasNext]_atlasVars PROVE AtlasInv'
    OBVIOUS
  <2>1. CASE UNCHANGED atlasVars
    BY <2>1 DEF atlasVars, AtlasInv, AtlasTypeOK, RowsAreCounted, There, Creators, Superseders
  <2>2. CASE AtlasNext
    BY <2>2, AroundInv, RunsInv, GoesOnInv, CreateInv, AtlasAssumption DEF AtlasNext, Dream, Work
  <2> QED
    BY <2>1, <2>2
<1>3. AtlasInv => AtlasTypeOK
  BY DEF AtlasInv
<1> QED
  BY <1>1, <1>2, <1>3, PTL DEF AtlasSpec

-----------------------------------------------------------------------------
(* All three components.                                                   *)

\* Rollup, feed and atlas side by side are each what it is alone: what is proved
\* of one of them holds of the read models as a whole.
THEOREM ReadModelsAreEach == ReadSpec => RollupSpec /\ FeedSpec /\ AtlasSpec
<1>1. ReadInit => RollupInit /\ FeedInit /\ AtlasInit
  BY DEF ReadInit
<1>2. [ReadNext]_modelVars =>
          [RollupNext]_rollupVars /\ [FeedNext]_feedVars /\ [AtlasNext]_atlasVars
  BY DEF ReadNext, OfRollup, OfFeed, OfAtlas, modelVars, rollupVars, feedVars, atlasVars
<1>. QED BY <1>1, <1>2, PTL DEF ReadSpec, RollupSpec, FeedSpec, AtlasSpec

\* Each row of the tables behind the read models is one the code can write
\* (db/schema.ts, drizzle/0029_calm_lifecycle_feed.sql).
THEOREM ReadModelsAreTyped == ReadSpec => []ReadTypeOK
<1>1. RollupTypeOK /\ FeedTypeOK /\ AtlasTypeOK => ReadTypeOK
  BY DEF ReadTypeOK
<1>. QED BY <1>1, ReadModelsAreEach, RollupIsTyped, FeedIsTyped, AtlasIsTyped, PTL

=============================================================================
