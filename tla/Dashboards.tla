---------------------------- MODULE Dashboards -----------------------------
(***************************************************************************)
(* The renter's and the owner's dashboard.  Their lists are constants of   *)
(* the catalogue plus the bookings made on this page; what can change is   *)
(* the status of the owner's vehicles and the stars given to past trips.   *)
(***************************************************************************)
EXTENDS Catalogue, Pricing

CONSTANT Stars    \* bound: the stars given, out of 1 .. 5

ASSUME DashAssumption == Stars \subseteq 1 .. 5

VARIABLES
    statuses,    \* of the owner's vehicles
    ratings      \* of the renter's trips; 0 is not rated yet

dashVars == <<statuses, ratings>>

Statuses == {"available", "rented", "maintenance"}
TripIds == {RENTER_BOOKINGS[i].id : i \in DOMAIN RENTER_BOOKINGS}

-----------------------------------------------------------------------------
(* The renter's screen, over the bookings made and the day it was opened.  *)

HydrateMade(b) ==
    [id |-> "made", vehicle |-> b.draft.vehicle, nights |-> b.draft.nights,
     amount |-> b.amount, status |-> "upcoming",
     start |-> b.draft.start, end |-> b.draft.end, fresh |-> TRUE]

HydrateSeed(row, day) ==
    [id |-> row.id, vehicle |-> row.vehicle, nights |-> row.nights,
     amount |-> row.amount, status |-> row.status,
     start |-> day + row.start, end |-> day + row.start + row.nights, fresh |-> FALSE]

\* The history table: the bookings of this page, newest first, then the catalogue's.
AllTrips(bookings, day) ==
    [i \in DOMAIN bookings |-> HydrateMade(bookings[i])]
        \o [i \in DOMAIN RENTER_BOOKINGS |-> HydrateSeed(RENTER_BOOKINGS[i], day)]

OfStatus(trips, status) == {i \in DOMAIN trips : trips[i].status = status}

WithStatus(trips, status) == Filtered(trips, OfStatus(trips, status))

\* The next one first.
Upcoming(trips) ==
    LET all == OfStatus(trips, "upcoming")
    IN  Arranged(trips, all, [i \in all |-> trips[i].start])

Spent(trips) == SumPaise([i \in DOMAIN trips |-> trips[i].amount])

Unrated(trips) ==
    LET past == WithStatus(trips, "past")
    IN  Cardinality({i \in DOMAIN past : ratings[past[i].id] = 0})

\* The heading and the tiles over the lists.
RenterStats(trips) ==
    LET past == Len(WithStatus(trips, "past"))
        live == Len(WithStatus(trips, "ongoing"))
    IN  [running |-> live > 0, upcoming |-> Len(Upcoming(trips)), completed |-> past,
         taken |-> past + live, spent |-> Spent(trips), unrated |-> Unrated(trips)]

\* relativeDay: the words stand for the number of days one to one.
RelativeDay(day, today) == day - today

\* The rows of the four lists; every row asks the catalogue for its vehicle.
LiveRow(t) == [vehicle |-> ById(t.vehicle).id, dueBack |-> t.end]

UpcomingRow(t, day) ==
    [vehicle |-> ById(t.vehicle).id, from |-> t.start, to |-> t.end, justBooked |-> t.fresh,
     pickup |-> RelativeDay(t.start, day), paid |-> t.amount]

PastRow(t) ==
    [vehicle |-> ById(t.vehicle).id, from |-> t.start, to |-> t.end, days |-> t.nights,
     stars |-> ratings[t.id], badge |-> ratings[t.id] > 0, paid |-> t.amount]

HistoryRow(t) ==
    [vehicle |-> ById(t.vehicle).id, from |-> t.start, to |-> t.end, days |-> t.nights,
     paid |-> t.amount, status |-> t.status,
     stars |-> IF t.id \in TripIds THEN ratings[t.id] ELSE 0]

-----------------------------------------------------------------------------
(* The owner's screen.                                                     *)

ActiveListings == Cardinality({v \in OWNER_VEHICLE_IDS : statuses[v] # "maintenance"})

\* A vehicle's row: its rate, and of its three segments the one that is lit.
ListingRow(v) == [daily |-> ById(v).daily, lit |-> {s \in Statuses : statuses[v] = s}]

\* A row of "Recent bookings": its dates and the payout.
OwnerTrip(row, day) ==
    [id |-> row.id, start |-> day + row.days, end |-> day + row.days + row.nights,
     payout |-> OwnerPayout(row.amount)]

UTIL_DAYS == <<2,2,2,0,0,1,2,2,0,2,2,2,2,0,0,0,1,2,2,2,0,2,2,0,0,1,2,2,2,0>>

\* The statistics: rupees of the year and of this month, growth in tenths of a percent,
\* days booked out of 30 and their share, a part of a day counting as half.
Totals ==
    LET months == Len(EARNINGS)
        this == EARNINGS[months]
        last == EARNINGS[months - 1]
        DaysOf(how) == Cardinality({i \in DOMAIN UTIL_DAYS : UTIL_DAYS[i] = how})
    IN  [year |-> SumPaise(EARNINGS), month |-> this,
         growth |-> IF last = 0 THEN 0 ELSE RoundHalfUp(1000 * (this - last), last),
         booked |-> DaysOf(2),
         util |-> RoundHalfUp(100 * (2 * DaysOf(2) + DaysOf(1)), 2 * Len(UTIL_DAYS))]

\* The heading and the tiles.
OwnerStats == [earning |-> ActiveListings, listings |-> Cardinality(OWNER_VEHICLE_IDS),
               totals |-> Totals]

\* The highest bar of the chart, and the height of each in percent of it.
Peak == Max(ToSet(EARNINGS))
BarHeight(i) == (100 * EARNINGS[i]) \div Peak

\* Of the figures that nothing changes: "August is your best month so far", no bar is higher
\* than the chart, no more than all days are booked, the payout and the commission of a
\* rental come to what was paid, and a rental that is on ends after today.
ASSUME FiguresAreSound ==
    /\ Totals.month = Peak /\ Totals.util <= 100
    /\ \A i \in DOMAIN EARNINGS : BarHeight(i) \in 0 .. 100
    /\ \A row \in ToSet(OWNER_BOOKINGS) :
          LET t == OwnerTrip(row, 0)
          IN  /\ t.end - t.start = row.nights
              /\ t.payout + MulPaise(row.amount, OwnerCommissionBps, 10000) = row.amount
    /\ \A t \in ToSet(WithStatus(AllTrips(<<>>, 0), "ongoing")) : LiveRow(t).dueBack > 0

-----------------------------------------------------------------------------
\* A click on a segment.  No other screen reads the status.
SetStatus(v, status) ==
    /\ statuses' = [statuses EXCEPT ![v] = status]
    /\ UNCHANGED ratings

\* A click on a star of a past trip.
Rate(trip, stars) ==
    /\ \E i \in DOMAIN RENTER_BOOKINGS :
          RENTER_BOOKINGS[i].id = trip /\ RENTER_BOOKINGS[i].status = "past"
    /\ ratings' = [ratings EXCEPT ![trip] = stars]
    /\ UNCHANGED statuses

DashInit ==
    /\ statuses = INITIAL_STATUS
    /\ ratings = [id \in TripIds |->
                    LET i == CHOOSE i \in DOMAIN RENTER_BOOKINGS : RENTER_BOOKINGS[i].id = id
                    IN  RENTER_BOOKINGS[i].rated]

DashNext ==
    \/ \E v \in OWNER_VEHICLE_IDS, s \in Statuses : SetStatus(v, s)
    \/ \E trip \in TripIds, stars \in Stars : Rate(trip, stars)

DashTypeOK ==
    /\ statuses \in [OWNER_VEHICLE_IDS -> Statuses]
    /\ ratings \in [TripIds -> 0 .. 5]

-----------------------------------------------------------------------------
\* The tiles over the renter's lists and the lists: what was spent is what the table's rows
\* come to, the three lists have together as many trips as the table, the upcoming ones are
\* in order, those just booked are the bookings made, a row's window has as many days as the
\* row says, and the trips awaiting a rating are the past rows without a badge
\* (RenterDashboard.tsx; numbers and rows are computed apart).
RenterCounts(bookings, asOf, day) ==
    LET trips == AllTrips(bookings, asOf)
        stats == RenterStats(trips)
        next == Upcoming(trips)
        past == WithStatus(trips, "past")
        table == [i \in DOMAIN trips |-> HistoryRow(trips[i])]
    IN  /\ Len(table) = stats.upcoming + stats.taken
        /\ stats.spent = SumPaise([i \in DOMAIN table |-> table[i].paid])
        /\ stats.unrated = Cardinality({i \in DOMAIN past : ~PastRow(past[i]).badge})
        /\ \A i, j \in DOMAIN next :
              i < j => UpcomingRow(next[i], day).pickup <= UpcomingRow(next[j], day).pickup
        /\ Cardinality({i \in DOMAIN next : UpcomingRow(next[i], day).justBooked})
              = Len(bookings)
        /\ \A row \in ToSet(table) : row.days = Max({1, row.to - row.from})

\* The owner's heading: a listing is earning, or its row shows that it is in service
\* (OwnerDashboard.tsx).
OwnerCounts ==
    OwnerStats.earning
       + Cardinality({v \in OWNER_VEHICLE_IDS : ListingRow(v).lit = {"maintenance"}})
       = OwnerStats.listings
=============================================================================
