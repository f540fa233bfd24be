------------------------------ MODULE MCWebApp ------------------------------
(***************************************************************************)
(* The web app on a small instance: the booking screens, the search and    *)
(* the dashboards side by side.  They share the bookings made and nothing  *)
(* else that changes: no screen of the one reads a status, a rating or a   *)
(* filter of another.  Their interleavings are therefore not explored; a   *)
(* session is of one kind, chosen at the start, and the kind is a bound.   *)
(***************************************************************************)
EXTENDS BookingFlow, Browsing, Dashboards, TLC

CONSTANTS
    Kinds,         \* bound: the kinds of session that are run
    OnlyLooked     \* bound: the days that are clicked in sessions of kind "looks" only

\* The shares of an amount come to the amount (money.ts, splitPaise), over a bounded range.
ASSUME SplitIsExact ==
    \A p \in -20 .. 20, parts \in 1 .. 6 :
       SumPaise(SplitPaise(p, parts)) = p

\* Announcements of the app that are not true of what it shows, so that no invariant below
\* covers them: the landing page says "Vehicles live" of 11 vehicles and has 12 (Landing.tsx,
\* lines 71 and 93); the number beside "Electric only" is not how many one finds in a city
\* (Search.tsx, line 194); and after midnight a list made the day before says other words of
\* a trip of the catalogue than a new one, though its offsets are stored "so the demo never
\* goes stale" (RenterDashboard.tsx, lines 16 and 49).
ASSUME AnnouncedAmiss ==
    /\ VehiclesLive # Len(VEHICLES)
    /\ \E c \in ToSet(CITIES) :
          Len(Results([NoFilters(c) EXCEPT !.evOnly = TRUE], "recommended")) # ElectricCount
    /\ \E t, u \in {HydrateSeed(row, day) : row \in ToSet(RENTER_BOOKINGS), day \in 0 .. 1} :
          /\ t.id = u.id /\ t.status = "upcoming"
          /\ UpcomingRow(t, 1).pickup # UpcomingRow(u, 1).pickup

VARIABLE kind     \* "looks", "pays twice", "chooses", "browses" or "manages"

webVars == <<vars, browseVars, dashVars, kind>>

\* Two vehicles of the catalogue.
BookedVehicles == {"v1", "v5"}
BookedDaily == [v \in BookedVehicles |-> ById(v).daily]
BookedRanges == [v \in BookedVehicles |-> ById(v).booked]

\* Any way through all screens, with one payment, at the default time and by the default
\* method.
Looks ==
    /\ kind = "looks"
    /\ Next
    /\ Len(clicks') <= 1
    /\ page'.slot = DefaultSlot /\ page'.method = DefaultMethod
    /\ UNCHANGED <<browseVars, dashVars, kind>>

\* Two payments, but without the vehicles' own pages.
PaysTwice ==
    /\ kind = "pays twice"
    /\ Next
    /\ page'.at # "detail" /\ {page'.start, page'.end} \cap OnlyLooked = {}
    /\ page'.slot = DefaultSlot /\ page'.method = DefaultMethod
    /\ UNCHANGED <<browseVars, dashVars, kind>>

\* One payment, but any time and any method; without the vehicles' own pages.
Chooses ==
    /\ kind = "chooses"
    /\ Next
    /\ page'.at # "detail" /\ {page'.start, page'.end} \cap OnlyLooked = {}
    /\ Len(clicks') <= 1
    /\ UNCHANGED <<browseVars, dashVars, kind>>

Browses == kind = "browses" /\ BrowseNext /\ UNCHANGED <<vars, dashVars, kind>>

Manages == kind = "manages" /\ DashNext /\ UNCHANGED <<vars, browseVars, kind>>

WebInit == Init /\ BrowseInit /\ DashInit /\ kind \in Kinds

WebNext == Looks \/ PaysTwice \/ Chooses \/ Browses \/ Manages

WebSpec ==
    /\ WebInit /\ [][WebNext]_webVars
    /\ WF_webVars(Land /\ UNCHANGED <<browseVars, dashVars, kind>>)

\* Some numbers are computed apart from the list they stand for, and these agree with it
\* whatever was chosen, booked or rated before: on the search screen those of SearchCounts;
\* on the landing page the number on a tab; in the booking panel the total and its lines; on
\* the pass the amount, which is in the renter's table; on the renter's dashboard the tiles
\* (RenterCounts); on the owner's the listings that earn (Search.tsx, Landing.tsx,
\* PriceBreakdown.tsx, BookingConfirm.tsx, RenterDashboard.tsx, OwnerDashboard.tsx).  Of the
\* other numbers nothing is said, and three are wrong (AnnouncedAmiss).
CountsMatchLists ==
    /\ screen.at = "search" => SearchCounts
    /\ screen.at = "landing" => LandingCounts
    /\ page.at \in {"detail", "dates"} => SumPaise(Panel.lines) = Panel.total
    /\ page.at = "confirm" /\ HasPass =>
          \E i \in 1 .. Len(AllTrips(made, now)) :
             HistoryRow(AllTrips(made, now)[i]).paid = Pass.paid
    /\ page.at = "trips" => RenterCounts(made, page.asOf, now)
    /\ kind = "manages" => RenterCounts(<<>>, now, now) /\ OwnerCounts
=============================================================================
