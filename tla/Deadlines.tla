------------------------------ MODULE Deadlines ------------------------------
(***************************************************************************)
(* The rules of lib/deadlines.ts and the two places that show what they    *)
(* say: the Dashboard, which sorts, counts and groups every deadline, and  *)
(* VehicleCard, which shows the next one of a vehicle.                     *)
(*                                                                         *)
(* Every call of daysUntil reads the clock again, so midnight may fall     *)
(* between two steps of one rendering; nothing renders again because it    *)
(* did. One sort, or one pass of a filter, is taken to read one day.       *)
(*                                                                         *)
(* Time is counted in hours, where the code counts milliseconds.           *)
(***************************************************************************)
EXTENDS Integers, Sequences, FiniteSets

CONSTANTS
    URGENT_DAYS, UPCOMING_DAYS,
    Days,      \* the days of the instance, due dates included
    Offset,    \* hours that local time is ahead of UTC at midnight of each day
    Garages    \* what GET /vehicles may answer

Deadline == [dueDate: Days, paused: BOOLEAN]

ASSUME ThresholdsAssumption ==
    URGENT_DAYS \in Nat /\ UPCOMING_DAYS \in Nat /\ URGENT_DAYS < UPCOMING_DAYS
ASSUME DaysAssumption == Days \subseteq Int
\* Daylight saving moves a midnight by far less than half a day.
ASSUME OffsetAssumption ==
    /\ Offset \in [Days -> Int]
    /\ \A a, b \in Days : Offset[a] - Offset[b] \in -11..11
ASSUME GaragesAssumption ==
    \A g \in Garages : g \in Seq(Seq(Deadline))

VARIABLES
    today,      \* the day on the device's calendar
    vehicles,   \* the last answer, in the order of the answer
    dashboard   \* what the dashboard shows or is about to show

vars == <<today, vehicles, dashboard>>

-----------------------------------------------------------------------------
(* lib/deadlines.ts.                                                       *)

Statuses == {"expired", "urgent", "upcoming", "ok", "paused"}

\* Local midnight, in hours since the epoch.
Midnight(day) == 24 * day - Offset[day]

\* Mutant: Math.floor.
Floored(n, d) == n \div d

\* Math.round(n / d): the nearest integer, halves upwards.
Rounded(n, d) == (2 * n + d) \div (2 * d)

daysUntil(dueDate, day) == Rounded(Midnight(dueDate) - Midnight(day), 24)

\* Mutant: a deadline counts as expired without its sign.
StatusOfDistance(d, day) ==
    LET days == daysUntil(d.dueDate, day)
        away == IF days < 0 THEN -days ELSE days IN
    IF d.paused THEN "paused"
    ELSE IF away <= URGENT_DAYS THEN "urgent"
    ELSE IF away <= UPCOMING_DAYS THEN "upcoming"
    ELSE "ok"

getDeadlineStatus(d, day) ==
    LET days == daysUntil(d.dueDate, day) IN
    IF d.paused THEN "paused"
    ELSE IF days < 0 THEN "expired"
    ELSE IF days <= URGENT_DAYS THEN "urgent"
    ELSE IF days <= UPCOMING_DAYS THEN "upcoming"
    ELSE "ok"

\* An item is a vehicle's place in the answer and a deadline's in the vehicle.
flattenDeadlines(g) == UNION {{v} \X DOMAIN g[v] : v \in DOMAIN g}

TheDeadline(g, item) == g[item[1]][item[2]]

StatusOf(g, item, day) == getDeadlineStatus(TheDeadline(g, item), day)

\* Mutant: paused deadlines sorted by date like the others.
PrecedesByDate(g, day, a, b) ==
    LET m == daysUntil(TheDeadline(g, a).dueDate, day)
        n == daysUntil(TheDeadline(g, b).dueDate, day) IN
    m < n \/ (m = n /\ (a[1] < b[1] \/ (a[1] = b[1] /\ a[2] < b[2])))

\* Paused ones weigh alike and last; the sort is stable.
Precedes(g, day, a, b) ==
    LET p == StatusOf(g, a, day) = "paused"
        q == StatusOf(g, b, day) = "paused"
        m == daysUntil(TheDeadline(g, a).dueDate, day)
        n == daysUntil(TheDeadline(g, b).dueDate, day)
        tie == a[1] < b[1] \/ (a[1] = b[1] /\ a[2] < b[2]) IN
    \/ ~p /\ q
    \/ ~p /\ ~q /\ (m < n \/ (m = n /\ tie))
    \/ p /\ q /\ tie

sortByUrgency(g, items, day) ==
    [k \in 1..Cardinality(items) |->
        CHOOSE a \in items :
            Cardinality({b \in items : Precedes(g, day, b, a)}) = k - 1]

\* Mutant: the paused ones kept.
WithPaused(g, v, day) == {v} \X DOMAIN g[v]

Actionable(g, v, day) ==
    {item \in {v} \X DOMAIN g[v] : StatusOf(g, item, day) # "paused"}

\* The items of the sequence are none or one: undefined has no deadline.
getNextDeadline(g, v, day) ==
    LET sorted == sortByUrgency(g, Actionable(g, v, day), day) IN
    SubSeq(sorted, 1, IF sorted = <<>> THEN 0 ELSE 1)

NeedsAttention(g, item, day) == StatusOf(g, item, day) \in {"expired", "urgent"}

countNeedingAttention(g, day) ==
    Cardinality({item \in flattenDeadlines(g) : NeedsAttention(g, item, day)})

-----------------------------------------------------------------------------
(* Dashboard.tsx.                                                          *)

\* Mutant: what has expired is left to no section.
UrgentSections == <<{"urgent"}, {"upcoming"}, {"ok"}, {"paused"}>>

SECTIONS == <<{"expired", "urgent"}, {"upcoming"}, {"ok"}, {"paused"}>>

\* What one pass of the filter keeps.
Section(k, day) ==
    {item \in flattenDeadlines(vehicles) :
        StatusOf(vehicles, item, day) \in SECTIONS[k]}

\* "pass" is the section to fill next, 0 before the count, 5 when all is shown;
\* "began" is the day it was sorted, "ended" the day of the latest pass.
Blank(day) ==
    [pass |-> 5, began |-> day, ended |-> day, order |-> <<>>, count |-> 0,
     sections |-> [k \in 1..4 |-> {}]]

Init ==
    /\ today \in Days
    /\ vehicles = <<>>
    /\ dashboard = Blank(today)

\* The day goes by, whatever is being rendered.
NextDay ==
    /\ today + 1 \in Days
    /\ today' = today + 1
    /\ UNCHANGED <<vehicles, dashboard>>

\* useVehicles has an answer, and the page renders: it sorts.
Load ==
    /\ dashboard.pass = 5
    /\ \E g \in Garages :
        /\ vehicles' = g
        /\ dashboard' = [Blank(today) EXCEPT
              !.pass = 0,
              !.order = sortByUrgency(g, flattenDeadlines(g), today)]
    /\ UNCHANGED today

Count ==
    /\ dashboard.pass = 0
    /\ dashboard' = [dashboard EXCEPT
          !.pass = 1, !.ended = today,
          !.count = countNeedingAttention(vehicles, today)]
    /\ UNCHANGED <<today, vehicles>>

Group ==
    /\ dashboard.pass \in 1..4
    /\ dashboard' = [dashboard EXCEPT
          !.pass = @ + 1, !.ended = today,
          !.sections[dashboard.pass] = Section(dashboard.pass, today)]
    /\ UNCHANGED <<today, vehicles>>

Next == NextDay \/ Load \/ Count \/ Group

Spec == Init /\ [][Next]_vars

\* What the card of a vehicle in the list announces, whenever it is rendered.
VehicleCard(v) == getNextDeadline(vehicles, v, today)

-----------------------------------------------------------------------------
(* Properties.                                                             *)

\* daysUntil is the number of midnights from today to the date, also where the
\* days between are 23 or 25 hours long (daysUntil, Math.round).
DaysAreCalendarDays == \A d \in Days : daysUntil(d, today) = d - today

Complete == dashboard.pass = 5

\* A deadline whose state the rendering did not see change is in one section
\* and no other: only those that turn at a midnight in the middle of it may be
\* missing, or shown twice (Dashboard, the passes over SECTIONS).
NoneLost ==
    Complete =>
        \A item \in flattenDeadlines(vehicles) :
            StatusOf(vehicles, item, dashboard.began) =
                StatusOf(vehicles, item, dashboard.ended)
            => \E k \in 1..4 :
                 /\ item \in dashboard.sections[k]
                 /\ \A j \in 1..4 \ {k} : item \notin dashboard.sections[j]

\* A dashboard rendered within a day agrees with itself: the tile counts what
\* the first section lists, and reading the sections in turn is reading the
\* whole list by urgency (Dashboard, groups and attentionCount).
DashboardAgrees ==
    Complete /\ dashboard.began = dashboard.ended =>
        /\ dashboard.count = Cardinality(dashboard.sections[1])
        /\ \A i, j \in DOMAIN dashboard.order, k, l \in 1..4 :
              dashboard.order[i] \in dashboard.sections[k] /\
              dashboard.order[j] \in dashboard.sections[l] /\ k < l => i < j
        /\ {dashboard.order[i] : i \in DOMAIN dashboard.order} =
              UNION {dashboard.sections[k] : k \in 1..4}

\* The next deadline of a vehicle is the first in its order that is not paused;
\* there is none when all are, and a vehicle that counts as needing attention
\* shows a deadline that does (getNextDeadline, countNeedingAttention).
NextIsMostUrgent ==
    \A v \in DOMAIN vehicles :
        LET next == VehicleCard(v)
            live == {i \in DOMAIN vehicles[v] : ~vehicles[v][i].paused} IN
        /\ next = <<>> <=> live = {}
        /\ live # {} =>
             /\ next[1][2] \in live
             /\ \A i \in live :
                   vehicles[v][next[1][2]].dueDate <= vehicles[v][i].dueDate
             /\ (\E i \in live : NeedsAttention(vehicles, <<v, i>>, today))
                   => NeedsAttention(vehicles, next[1], today)

Rank == [ok |-> 0, upcoming |-> 1, urgent |-> 2, expired |-> 3, paused |-> 4]

\* As days go by a deadline only gets more urgent, and a pause neither starts
\* nor ends by itself (getDeadlineStatus).
StatusOnlyAdvances ==
    [][vehicles' = vehicles =>
         \A item \in flattenDeadlines(vehicles) :
            LET before == StatusOf(vehicles, item, today)
                after == StatusOf(vehicles, item, today') IN
            /\ Rank[before] <= Rank[after]
            /\ before = "paused" <=> after = "paused"]_vars
=============================================================================
