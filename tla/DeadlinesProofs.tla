--------------------------- MODULE DeadlinesProofs ---------------------------
(***************************************************************************)
(* Proofs about Deadlines: days are days of the calendar whatever the      *)
(* clocks do at midnight, a state only becomes more urgent, a dashboard    *)
(* that midnight cuts in two loses no deadline whose state did not turn,   *)
(* and one that is rendered within a day agrees with itself and with the   *)
(* cards.                                                                  *)
(*                                                                         *)
(* The dashboards rest on what each pass of the filter saw: the whole      *)
(* list, on some day between the first and the last of the rendering       *)
(* (Filled), and on the order that the sort made of it (Listed, Sorted).   *)
(***************************************************************************)
EXTENDS Deadlines, FiniteSetTheorems, SequenceTheorems, TLAPS

\* A pass that is over saw the list as it stood on a day of the rendering.
Filled(k) ==
    \E day \in Days :
        /\ dashboard.began <= day /\ day <= dashboard.ended
        /\ dashboard.sections[k] = Section(k, day)

IInv ==
    /\ today \in Days
    /\ vehicles \in Seq(Seq(Deadline))
    /\ dashboard.pass \in 0..5
    /\ dashboard.began \in Days /\ dashboard.ended \in Days
    /\ DOMAIN dashboard.sections = 1..4
    /\ dashboard.began <= dashboard.ended /\ dashboard.ended <= today
    /\ \A k \in 1..4 : k < dashboard.pass => Filled(k)

-----------------------------------------------------------------------------
(* The rules.                                                              *)

\* daysUntil is the number of midnights between two days, however long they
\* are (daysUntil, Math.round).
LEMMA Distance ==
    ASSUME NEW due \in Days, NEW day \in Days
    PROVE  daysUntil(due, day) = due - day
<1> DEFINE n == due - day
           e == Offset[due] - Offset[day]
<1>1. n \in Int /\ due \in Int /\ day \in Int
  BY DaysAssumption
<1>2. Offset[due] \in Int /\ Offset[day] \in Int /\ e \in -11..11
  BY OffsetAssumption
<1>3. Midnight(due) - Midnight(day) = 24 * n - e
  BY <1>1, <1>2 DEF Midnight
<1>4. daysUntil(due, day) = (2 * (24 * n - e) + 24) \div 48
  BY <1>3 DEF daysUntil, Rounded
<1> HIDE DEF n, e
<1>5. (2 * (24 * n - e) + 24) \div 48 = n
  BY <1>1, <1>2
<1>6. QED
  BY <1>4, <1>5 DEF n

\* Of the days a deadline is read on, a later one never finds it less urgent,
\* and finds it paused if and only if the earlier did (getDeadlineStatus).
LEMMA Urgency ==
    ASSUME NEW d \in Deadline, NEW a \in Days, NEW b \in Days, a <= b
    PROVE  /\ getDeadlineStatus(d, a) \in Statuses
           /\ Rank[getDeadlineStatus(d, a)] <= Rank[getDeadlineStatus(d, b)]
           /\ getDeadlineStatus(d, a) = "paused" <=> getDeadlineStatus(d, b) = "paused"
<1>1. /\ d.dueDate \in Days /\ d.dueDate \in Int /\ a \in Int /\ b \in Int
      /\ d.paused \in BOOLEAN
  BY DaysAssumption DEF Deadline
<1>2. /\ daysUntil(d.dueDate, a) = d.dueDate - a
      /\ daysUntil(d.dueDate, b) = d.dueDate - b
  BY <1>1, Distance
<1>3. URGENT_DAYS \in Nat /\ UPCOMING_DAYS \in Nat /\ URGENT_DAYS < UPCOMING_DAYS
  BY ThresholdsAssumption
<1>4. QED
  BY <1>1, <1>2, <1>3 DEF getDeadlineStatus, Statuses, Rank

\* What the sections are read from is a deadline.
LEMMA Items ==
    ASSUME NEW g \in Seq(Seq(Deadline)), NEW item \in flattenDeadlines(g)
    PROVE  TheDeadline(g, item) \in Deadline
<1>1. PICK v \in DOMAIN g : item \in {v} \X DOMAIN g[v]
  BY DEF flattenDeadlines
<1>2. g[v] \in Seq(Deadline) /\ item[1] = v /\ item[2] \in DOMAIN g[v]
  BY <1>1
<1>3. g[v][item[2]] \in Deadline
  BY <1>2
<1>4. QED
  BY <1>2, <1>3 DEF TheDeadline

\* A state that is the same on two days is the same on those between.
LEMMA Between ==
    ASSUME NEW d \in Deadline, NEW a \in Days, NEW b \in Days, NEW c \in Days,
           a <= b, b <= c, getDeadlineStatus(d, a) = getDeadlineStatus(d, c)
    PROVE  getDeadlineStatus(d, b) = getDeadlineStatus(d, a)
<1> DEFINE s == getDeadlineStatus(d, a)
           t == getDeadlineStatus(d, b)
<1>1. s \in Statuses /\ t \in Statuses
  BY Urgency
<1>2. Rank[s] <= Rank[t] /\ Rank[t] <= Rank[s]
  BY Urgency
<1> HIDE DEF s, t
<1>3. s = t
  BY <1>1, <1>2 DEF Statuses, Rank
<1>4. QED
  BY <1>3 DEF s, t

-----------------------------------------------------------------------------
(* The invariant.                                                          *)

LEMMA Initially == Init => IInv
<1> SUFFICES ASSUME Init PROVE IInv
  OBVIOUS
<1>1. today \in Int
  BY DaysAssumption DEF Init
<1>2. vehicles = <<>> /\ dashboard = Blank(today) /\ today \in Days
  BY DEF Init
<1>3. flattenDeadlines(vehicles) = {}
  BY <1>2 DEF flattenDeadlines
<1>4. ASSUME NEW k \in 1..4 PROVE Filled(k)
  <2>1. Section(k, today) = {}
    BY <1>3 DEF Section
  <2>2. dashboard.sections[k] = {}
    BY <1>2 DEF Blank
  <2>3. dashboard.began = today /\ dashboard.ended = today
    BY <1>2 DEF Blank
  <2>4. QED
    BY <1>1, <1>2, <2>1, <2>2, <2>3 DEF Filled
<1>5. QED
  BY <1>1, <1>2, <1>4 DEF IInv, Blank

\* Whatever a step changes but the list leaves the sections that are filled so.
LEMMA StillFilled ==
    ASSUME IInv, vehicles' = vehicles, NEW k \in 1..4, Filled(k),
           dashboard'.sections[k] = dashboard.sections[k],
           dashboard'.began = dashboard.began,
           dashboard'.ended \in Int, dashboard.ended <= dashboard'.ended
    PROVE  Filled(k)'
<1>1. PICK day \in Days :
          /\ dashboard.began <= day /\ day <= dashboard.ended
          /\ dashboard.sections[k] = Section(k, day)
  BY DEF Filled
<1>2. dashboard.began \in Int /\ dashboard.ended \in Int /\ day \in Int
  BY DaysAssumption DEF IInv
<1>3. Section(k, day)' = Section(k, day)
  BY DEF Section
<1>4. dashboard'.began <= day /\ day <= dashboard'.ended
  BY <1>1, <1>2
<1>5. dashboard'.sections[k] = Section(k, day)'
  BY <1>1, <1>3
<1>6. QED
  BY <1>4, <1>5 DEF Filled

LEMMA Kept == IInv /\ [Next]_vars => IInv'
<1> SUFFICES ASSUME IInv, [Next]_vars PROVE IInv'
  OBVIOUS
<1>1. today \in Int /\ dashboard.began \in Int /\ dashboard.ended \in Int
  BY DaysAssumption DEF IInv
<1>2. CASE NextDay
  <2>1. /\ today' \in Days /\ today <= today'
        /\ vehicles' = vehicles /\ dashboard' = dashboard
    BY <1>1, <1>2 DEF NextDay
  <2>2. ASSUME NEW k \in 1..4, k < dashboard'.pass PROVE Filled(k)'
    BY <1>1, <2>1, <2>2, StillFilled DEF IInv
  <2>3. today' \in Int
    BY <2>1, DaysAssumption
  <2>4. QED
    BY <1>1, <2>1, <2>2, <2>3 DEF IInv
<1>3. CASE Load
  <2>1. today' = today
    BY <1>3 DEF Load
  <2>2. PICK g \in Garages :
          /\ vehicles' = g
          /\ dashboard' = [Blank(today) EXCEPT
                !.pass = 0,
                !.order = sortByUrgency(g, flattenDeadlines(g), today)]
    BY <1>3 DEF Load
  <2>3. vehicles' \in Seq(Seq(Deadline))
    BY <2>2, GaragesAssumption
  <2>4. /\ dashboard'.pass = 0
        /\ dashboard'.began = today /\ dashboard'.ended = today
        /\ DOMAIN dashboard'.sections = 1..4
    BY <2>2 DEF Blank
  <2>5. QED
    BY <1>1, <2>1, <2>3, <2>4 DEF IInv
<1>4. CASE Count
  <2>1. /\ dashboard.pass = 0 /\ today' = today /\ vehicles' = vehicles
        /\ dashboard' = [dashboard EXCEPT
              !.pass = 1, !.ended = today,
              !.count = countNeedingAttention(vehicles, today)]
    BY <1>4 DEF Count
  <2> DEFINE n == countNeedingAttention(vehicles, today)
  <2> HIDE DEF n
  <2>2. /\ dashboard'.pass = 1
        /\ dashboard'.began = dashboard.began /\ dashboard'.ended = today
        /\ dashboard'.sections = dashboard.sections
    BY <2>1
  <2>3. QED
    BY <1>1, <2>1, <2>2 DEF IInv
<1>5. CASE Group
  <2> DEFINE p == dashboard.pass
             S == Section(p, today)
  <2>1. /\ p \in 1..4 /\ today' = today /\ vehicles' = vehicles
        /\ dashboard' = [dashboard EXCEPT
              !.pass = @ + 1, !.ended = today, !.sections[p] = S]
    BY <1>5 DEF Group
  <2> HIDE DEF S
  <2>2. /\ dashboard'.pass = p + 1
        /\ dashboard'.began = dashboard.began /\ dashboard'.ended = today
        /\ dashboard'.sections = [dashboard.sections EXCEPT ![p] = S]
    BY <2>1
  <2>3. /\ DOMAIN dashboard'.sections = 1..4 /\ dashboard'.sections[p] = S
        /\ \A k \in 1..4 \ {p} : dashboard'.sections[k] = dashboard.sections[k]
    BY <2>1, <2>2 DEF IInv
  <2>4. ASSUME NEW k \in 1..4, k < dashboard'.pass PROVE Filled(k)'
    <3>1. CASE k = p
      <4>1. dashboard'.sections[k] = Section(k, today)
        BY <2>3, <3>1 DEF S
      <4>2. Section(k, today)' = Section(k, today)
        BY <2>1 DEF Section
      <4>3. dashboard'.began <= today /\ today <= dashboard'.ended /\ today \in Days
        BY <1>1, <2>2 DEF IInv
      <4>4. QED
        BY <2>1, <4>1, <4>2, <4>3 DEF Filled
    <3>2. CASE k # p
      <4>1. k < p
        BY <2>1, <2>2, <2>4, <3>2
      <4>2. Filled(k)
        BY <4>1 DEF IInv
      <4>3. dashboard'.ended \in Int /\ dashboard.ended <= dashboard'.ended
        BY <1>1, <2>2 DEF IInv
      <4>4. QED
        BY <2>1, <2>2, <2>3, <3>2, <4>2, <4>3, StillFilled
    <3>3. QED
      BY <3>1, <3>2
  <2>5. QED
    BY <1>1, <2>1, <2>2, <2>3, <2>4 DEF IInv
<1>6. CASE UNCHANGED vars
  <2>1. today' = today /\ vehicles' = vehicles /\ dashboard' = dashboard
    BY <1>6 DEF vars
  <2>2. ASSUME NEW k \in 1..4, k < dashboard'.pass PROVE Filled(k)'
    BY <1>1, <2>1, <2>2, StillFilled DEF IInv
  <2>3. QED
    BY <2>1, <2>2 DEF IInv
<1>7. QED
  BY <1>2, <1>3, <1>4, <1>5, <1>6 DEF Next

\* The inductive invariant of the rendering: each section that has been filled
\* is the whole list as it stood on a day of the rendering (Dashboard).
THEOREM Inductive == Spec => []IInv
<1>1. Init => IInv
  BY Initially
<1>2. IInv /\ [Next]_vars => IInv'
  BY Kept
<1>3. QED
  BY <1>1, <1>2, PTL DEF Spec

-----------------------------------------------------------------------------
(* The properties.                                                         *)

\* On every day, the days left are the days of the calendar, summer time or not
\* (daysUntil).
THEOREM Calendar == Spec => []DaysAreCalendarDays
<1>1. IInv => DaysAreCalendarDays
  BY Distance DEF IInv, DaysAreCalendarDays
<1>2. QED
  BY <1>1, Inductive, PTL

\* No day that passes makes a deadline less urgent, pauses it or ends its pause
\* (getDeadlineStatus).
THEOREM OnlyAdvances == Spec => StatusOnlyAdvances
<1> DEFINE Advance ==
        vehicles' = vehicles =>
            \A item \in flattenDeadlines(vehicles) :
                LET before == StatusOf(vehicles, item, today)
                    after == StatusOf(vehicles, item, today') IN
                /\ Rank[before] <= Rank[after]
                /\ before = "paused" <=> after = "paused"
<1>1. IInv /\ IInv' /\ [Next]_vars => [Advance]_vars
  <2> SUFFICES ASSUME IInv, IInv', [Next]_vars, vehicles' = vehicles,
                      NEW item \in flattenDeadlines(vehicles)
               PROVE  LET before == StatusOf(vehicles, item, today)
                          after == StatusOf(vehicles, item, today') IN
                      /\ Rank[before] <= Rank[after]
                      /\ before = "paused" <=> after = "paused"
    OBVIOUS
  <2>1. TheDeadline(vehicles, item) \in Deadline
    BY Items DEF IInv
  <2>2. today \in Days /\ today' \in Days
    BY DEF IInv
  <2>3. today' = today \/ today' = today + 1
    BY DEF Next, NextDay, Load, Count, Group, vars
  <2>4. today \in Int
    BY <2>2, DaysAssumption
  <2>5. today <= today'
    BY <2>3, <2>4
  <2>6. QED
    BY <2>1, <2>2, <2>5, Urgency DEF StatusOf
<1>2. QED
  BY <1>1, Inductive, PTL DEF Spec, StatusOnlyAdvances

\* Every state is in one section and no other.
LEMMA OneSection ==
    ASSUME NEW s \in Statuses
    PROVE  \E k \in 1..4 : /\ s \in SECTIONS[k]
                           /\ \A j \in 1..4 \ {k} : s \notin SECTIONS[j]
<1>1. /\ SECTIONS[1] = {"expired", "urgent"} /\ SECTIONS[2] = {"upcoming"}
      /\ SECTIONS[3] = {"ok"} /\ SECTIONS[4] = {"paused"}
  BY DEF SECTIONS
<1>2. \A j \in 1..4 : j = 1 \/ j = 2 \/ j = 3 \/ j = 4
  OBVIOUS
<1>3. QED
  BY <1>1, <1>2 DEF Statuses

\* A rendering that midnight cuts in two shows each deadline whose state stayed
\* the same in one section and no other (Dashboard).
THEOREM NothingLost == Spec => []NoneLost
<1>1. IInv => NoneLost
  <2> SUFFICES ASSUME IInv, Complete, NEW item \in flattenDeadlines(vehicles),
                      StatusOf(vehicles, item, dashboard.began) =
                          StatusOf(vehicles, item, dashboard.ended)
               PROVE  \E k \in 1..4 :
                        /\ item \in dashboard.sections[k]
                        /\ \A j \in 1..4 \ {k} : item \notin dashboard.sections[j]
    BY DEF NoneLost
  <2> DEFINE s == StatusOf(vehicles, item, dashboard.began)
  <2>1. TheDeadline(vehicles, item) \in Deadline
    BY Items DEF IInv
  <2>2. dashboard.began \in Days /\ dashboard.ended \in Days
    BY DEF IInv
  <2>3. s \in Statuses
    <3>1. dashboard.began <= dashboard.ended
      BY DEF IInv
    <3>2. QED
      BY <2>1, <2>2, <3>1, Urgency DEF StatusOf
  <2>4. ASSUME NEW k \in 1..4
        PROVE  item \in dashboard.sections[k] <=> s \in SECTIONS[k]
    <3>1. Filled(k)
      BY DEF IInv, Complete
    <3>2. PICK day \in Days :
              /\ dashboard.began <= day /\ day <= dashboard.ended
              /\ dashboard.sections[k] = Section(k, day)
      BY <3>1 DEF Filled
    <3>3. StatusOf(vehicles, item, day) = s
      BY <2>1, <2>2, <3>2, Between DEF StatusOf
    <3>4. QED
      BY <3>2, <3>3 DEF Section
  <2>5. PICK k \in 1..4 : /\ s \in SECTIONS[k]
                          /\ \A j \in 1..4 \ {k} : s \notin SECTIONS[j]
    BY <2>3, OneSection
  <2> HIDE DEF s
  <2>6. QED
    BY <2>4, <2>5
<1>2. QED
  BY <1>1, Inductive, PTL

-----------------------------------------------------------------------------
(* Orders.                                                                 *)

\* In a finite set in strict order, each has a place of its own: one more than
\* those before it.
LEMMA Ranked ==
    ASSUME NEW S, IsFiniteSet(S), NEW R,
           \A a \in S : <<a, a>> \notin R,
           \A a, b \in S : a # b => <<a, b>> \in R \/ <<b, a>> \in R,
           \A a, b, c \in S : <<a, b>> \in R /\ <<b, c>> \in R => <<a, c>> \in R
    PROVE  \E f \in [1..Cardinality(S) -> S] :
             /\ \A a \in S : \E k \in 1..Cardinality(S) : f[k] = a
             /\ \A k \in 1..Cardinality(S) :
                   Cardinality({b \in S : <<b, f[k]>> \in R}) = k - 1
             /\ \A j, k \in 1..Cardinality(S) : j < k <=> <<f[j], f[k]>> \in R
<1> DEFINE n == Cardinality(S)
           before(a) == {b \in S : <<b, a>> \in R}
           rank == [a \in S |-> Cardinality(before(a)) + 1]
<1>1. n \in Nat
  BY FS_CardinalityType
<1>2. ASSUME NEW a \in S
      PROVE  IsFiniteSet(before(a)) /\ Cardinality(before(a)) \in 0..(n - 1)
  <2>1. before(a) \in SUBSET S /\ before(a) # S
    OBVIOUS
  <2>2. /\ IsFiniteSet(before(a)) /\ Cardinality(before(a)) <= n
        /\ Cardinality(before(a)) # n
    BY <2>1, FS_Subset
  <2>3. Cardinality(before(a)) \in Nat
    BY <2>2, FS_CardinalityType
  <2> HIDE DEF n, before
  <2>4. QED
    BY <1>1, <2>2, <2>3
<1>3. ASSUME NEW a \in S, NEW b \in S, <<a, b>> \in R
      PROVE  Cardinality(before(a)) < Cardinality(before(b))
  <2>1. before(a) \in SUBSET before(b) /\ before(a) # before(b)
    BY <1>3
  <2>2. IsFiniteSet(before(b))
    BY <1>2
  <2>3. /\ Cardinality(before(a)) <= Cardinality(before(b))
        /\ Cardinality(before(a)) # Cardinality(before(b))
    BY <2>1, <2>2, FS_Subset
  <2>4. /\ Cardinality(before(a)) \in 0..(n - 1)
        /\ Cardinality(before(b)) \in 0..(n - 1)
    BY <1>2
  <2> HIDE DEF before, n
  <2>5. QED
    BY <1>1, <2>3, <2>4
<1>4. \A a \in S : rank[a] = Cardinality(before(a)) + 1
  OBVIOUS
<1> HIDE DEF before, n
<1>5. rank \in [S -> 1..n]
  BY <1>1, <1>2
<1> HIDE DEF rank
<1>6. \A a, b \in S : <<a, b>> \in R => rank[a] < rank[b]
  BY <1>1, <1>2, <1>3, <1>4
<1>7. rank \in Injection(S, 1..n)
  <2>1. ASSUME NEW a \in S, NEW b \in S, rank[a] = rank[b] PROVE a = b
    <3>1. rank[a] \in Int /\ rank[b] \in Int
      BY <1>5
    <3>2. <<a, b>> \notin R /\ <<b, a>> \notin R
      BY <1>6, <2>1, <3>1
    <3>3. QED
      BY <3>2
  <2>2. \A a, b \in S : rank[a] = rank[b] => a = b
    BY <2>1
  <2>3. QED
    BY <1>5, <2>2 DEF Injection, IsInjective
<1>8. rank \in Surjection(S, 1..n)
  <2>1. IsFiniteSet(1..n) /\ Cardinality(1..n) = n
    BY <1>1, FS_Interval
  <2>2. QED
    BY <1>7, <2>1, FS_Injection DEF n
<1>9. \A k \in 1..n : \E a \in S : rank[a] = k
  BY <1>8 DEF Surjection
<1> DEFINE f == [k \in 1..n |-> CHOOSE a \in S : rank[a] = k]
<1>10. \A k \in 1..n : f[k] \in S /\ rank[f[k]] = k
  BY <1>9
<1>11. f \in [1..n -> S]
  BY <1>10
<1> HIDE DEF f
<1>12. \A a \in S : rank[a] \in 1..n /\ f[rank[a]] = a
  BY <1>5, <1>7, <1>10 DEF Injection, IsInjective
<1>13. \A k \in 1..n : Cardinality(before(f[k])) = k - 1
  <2> SUFFICES ASSUME NEW k \in 1..n PROVE Cardinality(before(f[k])) = k - 1
    OBVIOUS
  <2>1. f[k] \in S /\ Cardinality(before(f[k])) \in Int
    BY <1>1, <1>2, <1>10
  <2>2. Cardinality(before(f[k])) + 1 = k
    BY <1>4, <1>10
  <2>3. QED
    BY <2>1, <2>2
<1>14. ASSUME NEW j \in 1..n, NEW k \in 1..n
       PROVE  j < k <=> <<f[j], f[k]>> \in R
  <2>1. f[j] \in S /\ f[k] \in S /\ rank[f[j]] = j /\ rank[f[k]] = k
    BY <1>10
  <2>2. <<f[j], f[k]>> \in R => j < k
    BY <1>6, <2>1
  <2>3. <<f[k], f[j]>> \in R => k < j
    BY <1>6, <2>1
  <2>4. j < k => f[j] # f[k]
    BY <2>1
  <2>5. QED
    BY <2>1, <2>2, <2>3, <2>4
<1>15. QED
  BY <1>11, <1>12, <1>13, <1>14 DEF n, before

\* There are finitely many items in an answer.
LEMMA FinitelyMany ==
    ASSUME NEW g \in Seq(Seq(Deadline))
    PROVE  /\ IsFiniteSet(flattenDeadlines(g))
           /\ \A v \in DOMAIN g : {v} \X DOMAIN g[v] \subseteq flattenDeadlines(g)
<1> DEFINE rows(v) == {v} \X DOMAIN g[v]
           h == [v \in DOMAIN g |-> rows(v)]
           T == {rows(v) : v \in DOMAIN g}
<1>1. IsFiniteSet(DOMAIN g)
  <2>1. DOMAIN g = 1..Len(g) /\ Len(g) \in Int
    OBVIOUS
  <2>2. QED
    BY <2>1, FS_Interval
<1>2. h \in Surjection(DOMAIN g, T)
  BY DEF Surjection
<1>3. IsFiniteSet(T)
  BY <1>1, <1>2, FS_Surjection
<1>4. ASSUME NEW v \in DOMAIN g PROVE IsFiniteSet(rows(v))
  <2>1. g[v] \in Seq(Deadline)
    OBVIOUS
  <2>2. DOMAIN g[v] = 1..Len(g[v]) /\ Len(g[v]) \in Int
    BY <2>1
  <2>3. IsFiniteSet(DOMAIN g[v])
    BY <2>2, FS_Interval
  <2>4. IsFiniteSet({v})
    BY FS_Singleton
  <2>5. QED
    BY <2>3, <2>4, FS_Product
<1>5. \A U \in T : IsFiniteSet(U)
  BY <1>4
<1>6. IsFiniteSet(UNION T)
  BY <1>3, <1>5, FS_UNION
<1>7. QED
  BY <1>6 DEF flattenDeadlines

\* An item is a pair of places.
LEMMA Places ==
    ASSUME NEW g \in Seq(Seq(Deadline)), NEW item \in flattenDeadlines(g)
    PROVE  item[1] \in Nat /\ item[2] \in Nat /\ item = <<item[1], item[2]>>
<1>1. PICK v \in DOMAIN g : item \in {v} \X DOMAIN g[v]
  BY DEF flattenDeadlines
<1>2. g[v] \in Seq(Deadline)
  OBVIOUS
<1>3. QED
  BY <1>1, <1>2

\* Urgency is a strict order of the items: no two of them weigh the same.
LEMMA StrictOrder ==
    ASSUME NEW g \in Seq(Seq(Deadline)), NEW day \in Days
    PROVE  /\ \A a \in flattenDeadlines(g) : ~Precedes(g, day, a, a)
           /\ \A a, b \in flattenDeadlines(g) :
                 a # b => Precedes(g, day, a, b) \/ Precedes(g, day, b, a)
           /\ \A a, b, c \in flattenDeadlines(g) :
                 Precedes(g, day, a, b) /\ Precedes(g, day, b, c)
                 => Precedes(g, day, a, c)
<1> DEFINE m(a) == daysUntil(TheDeadline(g, a).dueDate, day)
           p(a) == StatusOf(g, a, day) = "paused"
<1>1. ASSUME NEW a \in flattenDeadlines(g)
      PROVE  m(a) \in Int /\ a[1] \in Int /\ a[2] \in Int /\ a = <<a[1], a[2]>>
  <2>1. TheDeadline(g, a).dueDate \in Days
    BY Items DEF Deadline
  <2>2. m(a) = TheDeadline(g, a).dueDate - day
    BY <2>1, Distance
  <2>3. QED
    BY <2>1, <2>2, Places, DaysAssumption
<1> DEFINE tie(a, b) == a[1] < b[1] \/ (a[1] = b[1] /\ a[2] < b[2])
           soon(a, b) == m(a) < m(b) \/ (m(a) = m(b) /\ tie(a, b))
<1>2. \A a, b : Precedes(g, day, a, b) <=>
               \/ ~p(a) /\ p(b)
               \/ ~p(a) /\ ~p(b) /\ soon(a, b)
               \/ p(a) /\ p(b) /\ tie(a, b)
  BY DEF Precedes
<1> HIDE DEF m, p
<1>3. ASSUME NEW a \in flattenDeadlines(g) PROVE ~Precedes(g, day, a, a)
  BY <1>1, <1>2
<1>4. ASSUME NEW a \in flattenDeadlines(g), NEW b \in flattenDeadlines(g), a # b
      PROVE  Precedes(g, day, a, b) \/ Precedes(g, day, b, a)
  <2>1. a[1] # b[1] \/ a[2] # b[2]
    BY <1>1, <1>4
  <2>2. tie(a, b) \/ tie(b, a)
    BY <1>1, <2>1
  <2>3. soon(a, b) \/ soon(b, a)
    BY <1>1, <2>2
  <2> HIDE DEF tie, soon
  <2>4. QED
    BY <1>2, <2>2, <2>3
<1>5. ASSUME NEW a \in flattenDeadlines(g), NEW b \in flattenDeadlines(g),
             NEW c \in flattenDeadlines(g),
             Precedes(g, day, a, b), Precedes(g, day, b, c)
      PROVE  Precedes(g, day, a, c)
  <2>1. tie(a, b) /\ tie(b, c) => tie(a, c)
    BY <1>1
  <2>2. soon(a, b) /\ soon(b, c) => soon(a, c)
    BY <1>1, <2>1
  <2> HIDE DEF tie, soon
  <2>3. QED
    BY <1>2, <1>5, <2>1, <2>2
<1>6. QED
  BY <1>3, <1>4, <1>5

\* sortByUrgency lists each item once, in the order of urgency.
LEMMA Sorted ==
    ASSUME NEW g \in Seq(Seq(Deadline)), NEW day \in Days,
           NEW items \in SUBSET flattenDeadlines(g)
    PROVE  LET f == sortByUrgency(g, items, day)
               n == Cardinality(items) IN
           /\ IsFiniteSet(items) /\ n \in Nat
           /\ f \in [1..n -> items]
           /\ \A a \in items : \E k \in 1..n : f[k] = a
           /\ \A j, k \in 1..n : j < k <=> Precedes(g, day, f[j], f[k])
<1> DEFINE R == {e \in items \X items : Precedes(g, day, e[1], e[2])}
           n == Cardinality(items)
           f == sortByUrgency(g, items, day)
<1>1. IsFiniteSet(items) /\ n \in Nat
  BY FinitelyMany, FS_Subset, FS_CardinalityType
<1>2. \A a, b \in items : <<a, b>> \in R <=> Precedes(g, day, a, b)
  OBVIOUS
<1> HIDE DEF R, n
<1>3. /\ \A a \in items : <<a, a>> \notin R
      /\ \A a, b \in items : a # b => <<a, b>> \in R \/ <<b, a>> \in R
      /\ \A a, b, c \in items : <<a, b>> \in R /\ <<b, c>> \in R => <<a, c>> \in R
  BY <1>2, StrictOrder
<1>4. PICK h \in [1..n -> items] :
        /\ \A a \in items : \E k \in 1..n : h[k] = a
        /\ \A k \in 1..n : Cardinality({b \in items : <<b, h[k]>> \in R}) = k - 1
        /\ \A j, k \in 1..n : j < k <=> <<h[j], h[k]>> \in R
  <2>1. \E h \in [1..Cardinality(items) -> items] :
          /\ \A a \in items : \E k \in 1..Cardinality(items) : h[k] = a
          /\ \A k \in 1..Cardinality(items) :
                Cardinality({b \in items : <<b, h[k]>> \in R}) = k - 1
          /\ \A j, k \in 1..Cardinality(items) : j < k <=> <<h[j], h[k]>> \in R
    BY <1>1, <1>3, Ranked
  <2>2. QED
    BY <2>1 DEF n
<1>5. \A a \in items :
        {b \in items : Precedes(g, day, b, a)} = {b \in items : <<b, a>> \in R}
  BY <1>2
<1> DEFINE before(a) == Cardinality({b \in items : Precedes(g, day, b, a)})
<1>6. \A k \in 1..n : before(h[k]) = k - 1
  BY <1>4, <1>5
<1>7. f = [k \in 1..n |-> CHOOSE a \in items : before(a) = k - 1]
  BY DEF sortByUrgency, n
<1> HIDE DEF before, f
<1>8. ASSUME NEW k \in 1..n PROVE f[k] = h[k]
  <2>1. h[k] \in items /\ before(h[k]) = k - 1
    BY <1>4, <1>6
  <2>2. \A a \in items : before(a) = k - 1 => a = h[k]
    <3> SUFFICES ASSUME NEW a \in items, before(a) = k - 1 PROVE a = h[k]
      OBVIOUS
    <3>1. PICK j \in 1..n : h[j] = a
      BY <1>4
    <3>2. before(a) = j - 1
      BY <1>6, <3>1
    <3>3. j = k
      BY <3>2
    <3>4. QED
      BY <3>1, <3>3
  <2>3. f[k] = CHOOSE a \in items : before(a) = k - 1
    BY <1>7
  <2>4. QED
    BY <2>1, <2>2, <2>3
<1>9. f = h
  BY <1>4, <1>7, <1>8
<1>10. \A j, k \in 1..n : j < k <=> Precedes(g, day, f[j], f[k])
  BY <1>2, <1>4, <1>9
<1>11. QED
  BY <1>1, <1>4, <1>9, <1>10 DEF f, n

-----------------------------------------------------------------------------
(* What the dashboard and the cards make of the order.                     *)

\* The list was sorted on the day the rendering began, and the tile was counted
\* on a day of it.
Listed ==
    /\ {"order", "count"} \subseteq DOMAIN dashboard
    /\ dashboard.order =
          sortByUrgency(vehicles, flattenDeadlines(vehicles), dashboard.began)
    /\ dashboard.pass > 0 =>
          \E day \in Days :
             /\ dashboard.began <= day /\ day <= dashboard.ended
             /\ dashboard.count = countNeedingAttention(vehicles, day)

LEMMA ListedAtFirst == Init => Listed
<1> SUFFICES ASSUME Init PROVE Listed
  OBVIOUS
<1>1. /\ vehicles = <<>> /\ today \in Days /\ dashboard = Blank(today)
      /\ today \in Int
  BY DaysAssumption DEF Init
<1>2. flattenDeadlines(vehicles) = {}
  BY <1>1 DEF flattenDeadlines
<1>3. /\ dashboard.order = <<>> /\ dashboard.count = 0
      /\ dashboard.began = today /\ dashboard.ended = today
      /\ {"order", "count"} \subseteq DOMAIN dashboard
  BY <1>1 DEF Blank
<1>4. sortByUrgency(vehicles, {}, today) = <<>>
  BY FS_EmptySet DEF sortByUrgency
<1>5. countNeedingAttention(vehicles, today) = 0
  BY <1>2, FS_EmptySet DEF countNeedingAttention
<1>6. dashboard.order =
        sortByUrgency(vehicles, flattenDeadlines(vehicles), dashboard.began)
  BY <1>2, <1>3, <1>4, Zenon
<1>7. /\ dashboard.began <= today /\ today <= dashboard.ended
      /\ dashboard.count = countNeedingAttention(vehicles, today)
  BY <1>1, <1>3, <1>5
<1>8. QED
  BY <1>1, <1>3, <1>6, <1>7 DEF Listed

LEMMA ListedStill ==
    ASSUME IInv, Listed, vehicles' = vehicles,
           DOMAIN dashboard' = DOMAIN dashboard,
           dashboard'.order = dashboard.order, dashboard'.count = dashboard.count,
           dashboard'.began = dashboard.began, dashboard'.ended \in Int,
           dashboard.ended <= dashboard'.ended,
           dashboard'.pass > 0 => dashboard.pass > 0
    PROVE  Listed'
<1>1. dashboard'.order = sortByUrgency(vehicles, flattenDeadlines(vehicles),
                                       dashboard.began)'
  BY DEF Listed, sortByUrgency, flattenDeadlines
<1>2. ASSUME dashboard'.pass > 0
      PROVE  \E day \in Days :
                /\ dashboard'.began <= day /\ day <= dashboard'.ended
                /\ dashboard'.count = countNeedingAttention(vehicles', day)
  <2>1. PICK day \in Days :
            /\ dashboard.began <= day /\ day <= dashboard.ended
            /\ dashboard.count = countNeedingAttention(vehicles, day)
    BY <1>2 DEF Listed
  <2>2. dashboard.ended \in Int /\ day \in Int
    BY DaysAssumption DEF IInv
  <2>3. day <= dashboard'.ended
    BY <2>1, <2>2
  <2>4. countNeedingAttention(vehicles', day) = countNeedingAttention(vehicles, day)
    OBVIOUS
  <2>5. QED
    BY <2>1, <2>3, <2>4
<1>3. QED
  BY <1>1, <1>2 DEF Listed

LEMMA ListedAfter == IInv /\ Listed /\ [Next]_vars => Listed'
<1> SUFFICES ASSUME IInv, Listed, [Next]_vars PROVE Listed'
  OBVIOUS
<1>1. today \in Int /\ dashboard.began \in Int /\ dashboard.ended \in Int
  BY DaysAssumption DEF IInv
<1>2. CASE Load
  <2>1. PICK g \in Garages :
          /\ vehicles' = g
          /\ dashboard' = [Blank(today) EXCEPT
                !.pass = 0,
                !.order = sortByUrgency(g, flattenDeadlines(g), today)]
    BY <1>2 DEF Load
  <2> DEFINE order == sortByUrgency(g, flattenDeadlines(g), today)
  <2>2. dashboard' = [Blank(today) EXCEPT !.pass = 0, !.order = order]
    BY <2>1
  <2> HIDE DEF order
  <2>3. /\ dashboard'.pass = 0 /\ dashboard'.began = today
        /\ dashboard'.order = order
        /\ {"order", "count"} \subseteq DOMAIN dashboard'
    BY <2>2 DEF Blank
  <2>4. order = sortByUrgency(vehicles', flattenDeadlines(vehicles'), dashboard'.began)
    BY <2>1, <2>3 DEF order
  <2>5. QED
    BY <2>3, <2>4 DEF Listed
<1>3. CASE Count
  <2> DEFINE n == countNeedingAttention(vehicles, today)
  <2>1. /\ vehicles' = vehicles
        /\ dashboard' = [dashboard EXCEPT !.pass = 1, !.ended = today, !.count = n]
    BY <1>3 DEF Count
  <2> HIDE DEF n
  <2>2. /\ dashboard'.order = dashboard.order
        /\ dashboard'.began = dashboard.began /\ dashboard'.ended = today
    BY <2>1
  <2>3. dashboard.pass = 0
    BY <1>3 DEF Count
  <2>4. /\ dashboard'.count = n
        /\ {"order", "count"} \subseteq DOMAIN dashboard'
    BY <2>1 DEF Listed
  <2>5. n = countNeedingAttention(vehicles', today)
    BY <2>1 DEF n
  <2>6. dashboard'.order = sortByUrgency(vehicles', flattenDeadlines(vehicles'),
                                         dashboard'.began)
    BY <2>1, <2>2 DEF Listed
  <2>7. dashboard'.began <= today /\ today <= dashboard'.ended /\ today \in Days
    BY <1>1, <2>2 DEF IInv
  <2>8. QED
    BY <2>4, <2>5, <2>6, <2>7 DEF Listed
<1>4. CASE Group
  <2> DEFINE p == dashboard.pass
             S == Section(p, today)
  <2>1. /\ p \in 1..4 /\ vehicles' = vehicles
        /\ dashboard' = [dashboard EXCEPT
              !.pass = @ + 1, !.ended = today, !.sections[p] = S]
    BY <1>4 DEF Group
  <2> HIDE DEF S
  <2>2. /\ dashboard'.order = dashboard.order /\ dashboard'.count = dashboard.count
        /\ dashboard'.began = dashboard.began /\ dashboard'.ended = today
        /\ DOMAIN dashboard' = DOMAIN dashboard
    BY <2>1
  <2>3. dashboard.ended <= today
    BY DEF IInv
  <2>4. QED
    BY <1>1, <2>1, <2>2, <2>3, ListedStill
<1>5. CASE vehicles' = vehicles /\ dashboard' = dashboard
  BY <1>1, <1>5, ListedStill
<1>6. QED
  BY <1>2, <1>3, <1>4, <1>5 DEF Next, NextDay, vars

\* What was sorted and counted is an invariant of the rendering too (Dashboard,
\* sortByUrgency, countNeedingAttention).
THEOREM ListInductive == Spec => []Listed
BY ListedAtFirst, ListedAfter, Inductive, PTL DEF Spec

\* A section holds deadlines more urgent than those of the sections after it.
LEMMA SectionsInOrder ==
    ASSUME NEW g \in Seq(Seq(Deadline)), NEW day \in Days,
           NEW a \in flattenDeadlines(g), NEW b \in flattenDeadlines(g),
           NEW k \in 1..4, NEW l \in 1..4, k < l,
           StatusOf(g, a, day) \in SECTIONS[k], StatusOf(g, b, day) \in SECTIONS[l]
    PROVE  Precedes(g, day, a, b)
<1> DEFINE d == TheDeadline(g, a)
           e == TheDeadline(g, b)
           m == daysUntil(d.dueDate, day)
           n == daysUntil(e.dueDate, day)
           s == StatusOf(g, a, day)
           t == StatusOf(g, b, day)
<1>1. /\ d.dueDate \in Days /\ e.dueDate \in Days
      /\ d.paused \in BOOLEAN /\ e.paused \in BOOLEAN
  BY Items DEF Deadline
<1>2. m \in Int /\ n \in Int
  <2>1. m = d.dueDate - day
    BY <1>1, Distance
  <2>2. n = e.dueDate - day
    BY <1>1, Distance
  <2>3. d.dueDate \in Int /\ e.dueDate \in Int /\ day \in Int
    BY <1>1, DaysAssumption
  <2> HIDE DEF d, e, m, n
  <2>4. QED
    BY <2>1, <2>2, <2>3
<1>3. /\ s = IF d.paused THEN "paused"
             ELSE IF m < 0 THEN "expired"
             ELSE IF m <= URGENT_DAYS THEN "urgent"
             ELSE IF m <= UPCOMING_DAYS THEN "upcoming"
             ELSE "ok"
      /\ t = IF e.paused THEN "paused"
             ELSE IF n < 0 THEN "expired"
             ELSE IF n <= URGENT_DAYS THEN "urgent"
             ELSE IF n <= UPCOMING_DAYS THEN "upcoming"
             ELSE "ok"
  BY DEF StatusOf, getDeadlineStatus
<1>4. \/ s # "paused" /\ t = "paused"
      \/ s # "paused" /\ t # "paused" /\ m < n
      => Precedes(g, day, a, b)
  BY DEF Precedes
<1>5. /\ k = 1 => s \in {"expired", "urgent"}
      /\ k = 2 => s \in {"upcoming"}
      /\ k = 3 => s \in {"ok"}
      /\ k = 4 => s \in {"paused"}
      /\ l = 1 => t \in {"expired", "urgent"}
      /\ l = 2 => t \in {"upcoming"}
      /\ l = 3 => t \in {"ok"}
      /\ l = 4 => t \in {"paused"}
      /\ k \in {1, 2, 3, 4} /\ l \in {1, 2, 3, 4}
  BY DEF SECTIONS
<1> HIDE DEF d, e, m, n, s, t
<1>6. URGENT_DAYS \in Nat /\ UPCOMING_DAYS \in Nat /\ URGENT_DAYS < UPCOMING_DAYS
  BY ThresholdsAssumption
<1>7. CASE s = "paused"
  <2>1. k = 4
    BY <1>5, <1>7
  <2>2. QED
    BY <2>1
<1>8. CASE s # "paused" /\ t = "paused"
  BY <1>4, <1>8
<1>9. CASE s # "paused" /\ t # "paused"
  <2>1. k \in {1, 2, 3} /\ l \in {1, 2, 3}
    BY <1>5, <1>9
  <2>2. m < n
    BY <1>2, <1>3, <1>5, <1>6, <1>9, <2>1
  <2>3. QED
    BY <1>4, <1>9, <2>2
<1>10. QED
  BY <1>7, <1>8, <1>9

\* A dashboard rendered within a day agrees with itself: its tile with its first
\* section, its sections with the list in order of urgency (Dashboard, groups,
\* attentionCount).
THEOREM DashboardsAgree == Spec => []DashboardAgrees
<1>1. IInv /\ Listed => DashboardAgrees
  <2> SUFFICES ASSUME IInv, Listed, Complete, dashboard.began = dashboard.ended
               PROVE  /\ dashboard.count = Cardinality(dashboard.sections[1])
                      /\ \A i, j \in DOMAIN dashboard.order, k, l \in 1..4 :
                            dashboard.order[i] \in dashboard.sections[k] /\
                            dashboard.order[j] \in dashboard.sections[l] /\ k < l
                            => i < j
                      /\ {dashboard.order[i] : i \in DOMAIN dashboard.order} =
                            UNION {dashboard.sections[k] : k \in 1..4}
    BY DEF DashboardAgrees
  <2> DEFINE day == dashboard.began
             all == flattenDeadlines(vehicles)
             f == dashboard.order
             n == Cardinality(all)
  <2>1. day \in Days /\ day \in Int /\ vehicles \in Seq(Seq(Deadline))
    BY DaysAssumption DEF IInv
  <2>2. \A x \in Days : day <= x /\ x <= dashboard.ended => x = day
    BY <2>1, DaysAssumption
  <2>3. \A k \in 1..4 : dashboard.sections[k] = Section(k, day)
    BY <2>2 DEF IInv, Filled, Complete
  <2>4. dashboard.count = countNeedingAttention(vehicles, day)
    BY <2>2 DEF Listed, Complete
  <2>5. /\ n \in Nat /\ f \in [1..n -> all]
        /\ \A a \in all : \E k \in 1..n : f[k] = a
        /\ \A j, k \in 1..n : j < k <=> Precedes(vehicles, day, f[j], f[k])
    <3>1. f = sortByUrgency(vehicles, all, day) /\ all \in SUBSET all
      BY DEF Listed
    <3>2. QED
      BY <2>1, <3>1, Sorted
  <2>6. Section(1, day) = {item \in all : NeedsAttention(vehicles, item, day)}
    BY DEF Section, NeedsAttention, SECTIONS
  <2>7. dashboard.count = Cardinality(dashboard.sections[1])
    BY <2>3, <2>4, <2>6 DEF countNeedingAttention
  <2>8. ASSUME NEW i \in DOMAIN f, NEW j \in DOMAIN f, NEW k \in 1..4, NEW l \in 1..4,
               f[i] \in dashboard.sections[k], f[j] \in dashboard.sections[l], k < l
        PROVE  i < j
    <3>1. i \in 1..n /\ j \in 1..n /\ f[i] \in all /\ f[j] \in all
      BY <2>5
    <3>2. /\ StatusOf(vehicles, f[i], day) \in SECTIONS[k]
          /\ StatusOf(vehicles, f[j], day) \in SECTIONS[l]
      BY <2>3, <2>8 DEF Section
    <3>3. Precedes(vehicles, day, f[i], f[j])
      BY <2>1, <2>8, <3>1, <3>2, SectionsInOrder
    <3>4. QED
      BY <2>5, <3>1, <3>3
  <2>9. {f[i] : i \in DOMAIN f} = all
    BY <2>5
  <2>10. UNION {dashboard.sections[k] : k \in 1..4} = all
    <3>1. ASSUME NEW item \in all PROVE \E k \in 1..4 : item \in Section(k, day)
      <4>1. TheDeadline(vehicles, item) \in Deadline
        BY <2>1, Items
      <4>2. StatusOf(vehicles, item, day) \in Statuses
        BY <2>1, <4>1, Urgency DEF StatusOf
      <4>3. \E k \in 1..4 : StatusOf(vehicles, item, day) \in SECTIONS[k]
        BY <4>2, OneSection
      <4>4. QED
        BY <4>3 DEF Section
    <3>2. \A k \in 1..4 : Section(k, day) \subseteq all
      BY DEF Section
    <3>3. QED
      BY <2>3, <3>1, <3>2
  <2>11. QED
    BY <2>7, <2>8, <2>9, <2>10
<1>2. QED
  BY <1>1, Inductive, ListInductive, PTL

\* A sequence cut after its first element.
LEMMA FirstAlone ==
    ASSUME NEW S, NEW s \in Seq(S), Len(s) >= 1
    PROVE  SubSeq(s, 1, 1) = <<s[1]>>
<1> DEFINE t == SubSeq(s, 1, 1)
<1>1. s[1] \in S
  BY LenProperties, ElementOfSeq
<1>2. \A i \in 1..1 : s[i] \in S
  BY <1>1
<1>3. t \in Seq(S) /\ Len(t) = 1 /\ t[1] = s[1]
  BY <1>2, SubSeqProperties
<1> HIDE DEF t
<1>4. t = <<s[1]>>
  BY <1>1, <1>3
<1>5. QED
  BY <1>4 DEF t

\* The card of a vehicle announces a deadline that is not paused and that none
\* of the others precedes, and none if all are paused (getNextDeadline).
THEOREM NextIsTheMostUrgent == Spec => []NextIsMostUrgent
<1>1. IInv => NextIsMostUrgent
  <2> SUFFICES ASSUME IInv, NEW v \in DOMAIN vehicles
               PROVE  LET next == VehicleCard(v)
                          live == {i \in DOMAIN vehicles[v] : ~vehicles[v][i].paused} IN
                      /\ next = <<>> <=> live = {}
                      /\ live # {} =>
                           /\ next[1][2] \in live
                           /\ \A i \in live :
                                 vehicles[v][next[1][2]].dueDate <= vehicles[v][i].dueDate
                           /\ (\E i \in live : NeedsAttention(vehicles, <<v, i>>, today))
                                 => NeedsAttention(vehicles, next[1], today)
    BY DEF NextIsMostUrgent
  <2> DEFINE rows == vehicles[v]
             live == {i \in DOMAIN rows : ~rows[i].paused}
             items == Actionable(vehicles, v, today)
             n == Cardinality(items)
             f == sortByUrgency(vehicles, items, today)
             next == VehicleCard(v)
  <2>1. /\ today \in Days /\ today \in Int /\ vehicles \in Seq(Seq(Deadline))
        /\ rows \in Seq(Deadline)
    BY DaysAssumption DEF IInv
  <2>2. ASSUME NEW i \in DOMAIN rows
        PROVE  /\ rows[i] \in Deadline /\ rows[i].dueDate \in Days
               /\ rows[i].dueDate \in Int /\ rows[i].paused \in BOOLEAN
               /\ TheDeadline(vehicles, <<v, i>>) = rows[i]
               /\ StatusOf(vehicles, <<v, i>>, today) = "paused" <=> rows[i].paused
               /\ daysUntil(rows[i].dueDate, today) = rows[i].dueDate - today
    <3>1. rows[i] \in Deadline
      BY <2>1
    <3>2. /\ rows[i].dueDate \in Days /\ rows[i].dueDate \in Int
          /\ rows[i].paused \in BOOLEAN
      BY <3>1, DaysAssumption DEF Deadline
    <3>3. TheDeadline(vehicles, <<v, i>>) = rows[i]
      BY DEF TheDeadline
    <3>4. StatusOf(vehicles, <<v, i>>, today) = "paused" <=> rows[i].paused
      BY <3>2, <3>3 DEF StatusOf, getDeadlineStatus
    <3>5. QED
      BY <2>1, <3>1, <3>2, <3>3, <3>4, Distance
  <2>3. items = {<<v, i>> : i \in live}
    <3>1. \A i \in DOMAIN rows : <<v, i>> \in items <=> i \in live
      BY <2>2 DEF Actionable
    <3>2. \A a \in items : \E i \in DOMAIN rows : a = <<v, i>>
      BY DEF Actionable
    <3>3. QED
      BY <3>1, <3>2
  <2>4. items \subseteq flattenDeadlines(vehicles)
    BY <2>1, FinitelyMany DEF Actionable
  <2>5. /\ IsFiniteSet(items) /\ n \in Nat /\ f \in [1..n -> items]
        /\ \A a \in items : \E k \in 1..n : f[k] = a
        /\ \A j, k \in 1..n : j < k <=> Precedes(vehicles, today, f[j], f[k])
    BY <2>1, <2>4, Sorted
  <2>6. next = SubSeq(f, 1, IF f = <<>> THEN 0 ELSE 1)
    BY DEF VehicleCard, getNextDeadline
  <2> HIDE DEF f, next, items
  <2>7. CASE live = {}
    <3>1. n = 0
      BY <2>3, <2>7, FS_EmptySet
    <3>2. f = <<>>
      BY <2>5, <3>1
    <3>3. next = <<>>
      BY <2>6, <3>2
    <3>4. QED
      BY <2>7, <3>3 DEF next
  <2>8. CASE live # {}
    <3>1. n >= 1
      <4>1. items # {}
        BY <2>3, <2>8
      <4>2. n # 0
        BY <2>5, <4>1, FS_EmptySet
      <4>3. QED
        BY <2>5, <4>2
    <3>2. f # <<>> /\ f[1] \in items
      BY <2>5, <3>1
    <3>3. next = <<f[1]>>
      <4>1. f \in Seq(items) /\ Len(f) = n
        BY <2>5
      <4>2. next = SubSeq(f, 1, 1)
        BY <2>6, <3>2
      <4>3. QED
        BY <2>5, <3>1, <4>1, <4>2, FirstAlone
    <3>4. PICK i \in live : f[1] = <<v, i>>
      BY <2>3, <3>2
    <3>5. next[1] = <<v, i>> /\ next[1][2] = i /\ next # <<>>
      BY <3>3, <3>4
    <3>6. ASSUME NEW j \in live
          PROVE  /\ rows[i].dueDate <= rows[j].dueDate
                 /\ NeedsAttention(vehicles, <<v, j>>, today)
                       => NeedsAttention(vehicles, <<v, i>>, today)
      <4>1. PICK k \in 1..n : f[k] = <<v, j>>
        BY <2>3, <2>5
      <4>2. k = 1 \/ Precedes(vehicles, today, <<v, i>>, <<v, j>>)
        <5>1. 1 \in 1..n /\ (k = 1 \/ 1 < k)
          BY <2>5, <3>1
        <5>2. 1 < k => Precedes(vehicles, today, f[1], f[k])
          BY <2>5, <5>1
        <5>3. QED
          BY <3>4, <4>1, <5>1, <5>2
      <4>3. CASE k = 1
        BY <2>2, <3>4, <4>1, <4>3
      <4>4. CASE Precedes(vehicles, today, <<v, i>>, <<v, j>>)
        <5>1. rows[i].dueDate <= rows[j].dueDate
          BY <2>1, <2>2, <4>4 DEF Precedes
        <5>2. NeedsAttention(vehicles, <<v, j>>, today)
                 => NeedsAttention(vehicles, <<v, i>>, today)
          <6> DEFINE m == rows[i].dueDate - today
                     o == rows[j].dueDate - today
          <6>1. m \in Int /\ o \in Int /\ m <= o
            <7>1. i \in DOMAIN rows /\ j \in DOMAIN rows
              OBVIOUS
            <7>2. rows[i].dueDate \in Int /\ rows[j].dueDate \in Int
              BY <2>2, <7>1
            <7>3. QED
              BY <2>1, <5>1, <7>2
          <6>2. /\ NeedsAttention(vehicles, <<v, i>>, today) <=> m <= URGENT_DAYS
                /\ NeedsAttention(vehicles, <<v, j>>, today) <=> o <= URGENT_DAYS
            <7> HIDE DEF m, o
            <7>1. /\ ~rows[i].paused /\ ~rows[j].paused
                  /\ daysUntil(rows[i].dueDate, today) = m
                  /\ daysUntil(rows[j].dueDate, today) = o
              BY <2>2 DEF m, o
            <7>2. /\ TheDeadline(vehicles, <<v, i>>) = rows[i]
                  /\ TheDeadline(vehicles, <<v, j>>) = rows[j]
              BY <2>2
            <7>3. QED
              BY <6>1, <7>1, <7>2, ThresholdsAssumption
              DEF NeedsAttention, StatusOf, getDeadlineStatus
          <6> HIDE DEF m, o
          <6>3. QED
            BY <6>1, <6>2, ThresholdsAssumption
        <5>3. QED
          BY <5>1, <5>2
      <4>5. QED
        BY <4>2, <4>3, <4>4
    <3>7. QED
      BY <2>8, <3>5, <3>6 DEF next
  <2>9. QED
    BY <2>7, <2>8
<1>2. QED
  BY <1>1, Inductive, PTL
=============================================================================
