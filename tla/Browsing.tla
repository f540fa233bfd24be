----------------------------- MODULE Browsing ------------------------------
(***************************************************************************)
(* The landing page's search console and the search screen.  The store     *)
(* keeps the city; a screen reads the address only when it is mounted, and *)
(* keeps its filters from then on.                                         *)
(***************************************************************************)
EXTENDS Catalogue, Pricing

CONSTANTS
    NoDay,         \* the address names no day; a date field that was emptied
    Today,         \* the day of the visit
    Prices,        \* bound: where the price slider is dragged to, in paise
    Distances,     \* bound: where the distance slider is dragged to, in tenths
    Days           \* bound: the days looked for, Today + 3 and Today + 5 among them

VARIABLES
    city,          \* the store's city
    screen         \* the landing page, the search screen or any other

browseVars == <<city, screen>>

AllCities == "All NCR"
CityFilters == ToSet(CITIES) \cup {AllCities}
Sorts == {"recommended", "price-asc", "price-desc", "distance", "rating"}

PriceMin == 24900
PriceMax == 450000
PriceStep == 5000
DistMax == 60

\* The slider's own value: from PriceMin in whole steps, so it never reaches PriceMax,
\* which is only its first value.
TopStep == PriceMin + PriceStep * ((PriceMax - PriceMin) \div PriceStep)

ASSUME BrowseAssumption ==
    /\ Prices \subseteq {PriceMin + PriceStep * k : k \in 0 .. 85}
    /\ Distances \subseteq 5 .. DistMax
    /\ Today \in Nat /\ Days \subseteq {d \in Nat : d >= Today}
    /\ {Today + 3, Today + 5} \subseteq Days
    /\ NoDay \notin Days

Filters == [types : SUBSET TYPES, cityFilter : CityFilters,
            maxPrice : Prices \cup {PriceMax}, maxDist : Distances \cup {DistMax},
            evOnly : BOOLEAN]

SearchScreens == [at : {"search"}, filters : Filters, sort : Sorts,
                  from : Days \cup {NoDay}]
LandingScreens == [at : {"landing"}, tab : TYPES, from : Days \cup {NoDay},
                   to : Days \cup {NoDay}]

-----------------------------------------------------------------------------
(* What the search screen shows.                                           *)

InCity(v, filter) == filter = AllCities \/ v.city = filter

Matches(v, f) ==
    /\ f.types = {} \/ v.type \in f.types
    /\ InCity(v, f.cityFilter)
    /\ v.daily <= f.maxPrice
    /\ v.distance <= f.maxDist
    /\ f.evOnly => v.ev

\* Lower comes first.
SortKey(v, sort) ==
    CASE sort = "price-asc" -> v.daily
      [] sort = "price-desc" -> -v.daily
      [] sort = "distance" -> v.distance
      [] sort = "rating" -> -v.rating
      [] sort = "recommended" -> v.distance - 20 * v.rating

\* The vehicles that match; the sort is stable.
Results(f, sort) ==
    Arranged(VEHICLES, {i \in DOMAIN VEHICLES : Matches(VEHICLES[i], f)},
             [i \in DOMAIN VEHICLES |-> SortKey(VEHICLES[i], sort)])

\* Mutated form: counted over all cities, as ElectricCount is.
CountsEverywhere(f) ==
    [t \in TYPES |-> Cardinality({i \in DOMAIN VEHICLES : VEHICLES[i].type = t})]

\* The number beside each type.
TypeCounts(f) ==
    [t \in TYPES |-> Cardinality({i \in DOMAIN VEHICLES :
                        VEHICLES[i].type = t /\ InCity(VEHICLES[i], f.cityFilter)})]

\* The number beside "Electric only", whatever the city.
ElectricCount == Cardinality({i \in DOMAIN VEHICLES : VEHICLES[i].ev})

\* The number on the "Clear" button, which is there when it is not 0.
ActiveCount(f) ==
    Cardinality(f.types) + (IF f.maxPrice < PriceMax THEN 1 ELSE 0)
        + (IF f.maxDist < DistMax THEN 1 ELSE 0) + (IF f.evOnly THEN 1 ELSE 0)

\* reset leaves the city and the sort as they are.
Cleared(f) == [f EXCEPT !.types = {}, !.maxPrice = PriceMax, !.maxDist = DistMax,
                        !.evOnly = FALSE]

\* The badge over the results: the demand of the day the address names.
DemandBadge == screen.from # NoDay /\ DemandForRange(screen.from, 1) > 10

\* A vehicle's card; an electric one never shows the demand.
Card(v) == [id |-> v.id, type |-> v.type, ev |-> v.ev, demand |-> DemandBadge /\ ~v.ev,
            distance |-> v.distance, daily |-> v.daily, rating |-> v.rating]

Cards(found) == [i \in DOMAIN found |-> Card(found[i])]

\* The map's pins and the number in its legend.
Pins(found) == [vehicles |-> {found[i].id : i \in DOMAIN found}, nearby |-> Len(found)]

\* The landing page: at most four vehicles of the chosen type.
Shown(tab) ==
    LET all == Filtered(VEHICLES, {i \in DOMAIN VEHICLES : VEHICLES[i].type = tab})
    IN  SubSeq(all, 1, IF Len(all) < 4 THEN Len(all) ELSE 4)

TabCount(tab) == Cardinality({i \in DOMAIN VEHICLES : VEHICLES[i].type = tab})

\* The first number of the landing page's statistics, a literal: "Vehicles live".
VehiclesLive == 11

-----------------------------------------------------------------------------
(* Getting there.                                                          *)

NoFilters(cityFilter) ==
    [types |-> {}, cityFilter |-> cityFilter, maxPrice |-> PriceMax,
     maxDist |-> DistMax, evOnly |-> FALSE]

\* The search screen as it is mounted: the address first, then the store's city.
\* Its effect then makes the filter's city the store's.
MountSearch(types, cityFilter, from) ==
    /\ screen' = [at |-> "search", filters |-> [NoFilters(cityFilter) EXCEPT !.types = types],
                  sort |-> "recommended", from |-> from]
    /\ city' = IF cityFilter = AllCities THEN city ELSE cityFilter

\* A search screen that is there already keeps its filters: it has read the address
\* once.  Only the day follows the address.
GoToSearch(types, cityFilter, from) ==
    IF screen.at = "search"
    THEN screen' = [screen EXCEPT !.from = from] /\ UNCHANGED city
    ELSE MountSearch(types, cityFilter, from)

\* The footer's links name a type.
FooterLink(type) == GoToSearch({type}, city, NoDay)

\* "Browse vehicles", in the navigation and elsewhere.
BrowseLink == GoToSearch({}, city, NoDay)

OpenLanding ==
    /\ screen.at # "landing"
    /\ screen' = [at |-> "landing", tab |-> "car", from |-> Today + 3, to |-> Today + 5]
    /\ UNCHANGED city

OpenVehicle ==
    /\ screen.at # "other"
    /\ screen' = [at |-> "other"]
    /\ UNCHANGED city

\* Back or forward to a search the landing page made, by the browser's history.
Return(c, from) == GoToSearch({}, c, from)

\* The navigation's menu of cities and the landing page's; the search screen's filter does not follow.
SetCity(c) == city' = c /\ UNCHANGED screen

-----------------------------------------------------------------------------
(* Doing something there.                                                  *)

ChooseTab(tab) ==
    /\ screen.at = "landing"
    /\ screen' = [screen EXCEPT !.tab = tab]
    /\ UNCHANGED city

ChooseDays(from, to) ==
    /\ screen.at = "landing"
    /\ screen' = [screen EXCEPT !.from = from, !.to = to]
    /\ UNCHANGED city

\* The browser does not submit a form whose return date is before its `min`; a field
\* left empty is no bound and meets every bound.
RunSearch ==
    /\ screen.at = "landing"
    /\ NoDay \notin {screen.from, screen.to} => screen.from <= screen.to
    /\ MountSearch({}, city, screen.from)

\* The effect makes it the store's city, and runs only when the filter's city changes.
ChooseCity(c) ==
    /\ screen.at = "search" /\ c # screen.filters.cityFilter
    /\ screen' = [screen EXCEPT !.filters.cityFilter = c]
    /\ city' = IF c = AllCities THEN city ELSE c

ToggleType(type) ==
    /\ screen.at = "search"
    /\ LET types == screen.filters.types
       IN  screen' = [screen EXCEPT !.filters.types =
                         IF type \in types THEN types \ {type} ELSE types \cup {type}]
    /\ UNCHANGED city

\* A slider tells of a value other than the one it stands on.
SlidePrice(price) ==
    /\ screen.at = "search"
    /\ price # (IF screen.filters.maxPrice = PriceMax THEN TopStep
                                                      ELSE screen.filters.maxPrice)
    /\ screen' = [screen EXCEPT !.filters.maxPrice = price]
    /\ UNCHANGED city

SlideDistance(dist) ==
    /\ screen.at = "search" /\ dist # screen.filters.maxDist
    /\ screen' = [screen EXCEPT !.filters.maxDist = dist]
    /\ UNCHANGED city

ToggleElectric ==
    /\ screen.at = "search"
    /\ screen' = [screen EXCEPT !.filters.evOnly = ~screen.filters.evOnly]
    /\ UNCHANGED city

SortBy(sort) ==
    /\ screen.at = "search" /\ sort # screen.sort
    /\ screen' = [screen EXCEPT !.sort = sort]
    /\ UNCHANGED city

Reset ==
    /\ screen.at = "search"
    /\ ActiveCount(screen.filters) > 0 \/ Results(screen.filters, screen.sort) = <<>>
    /\ screen' = [screen EXCEPT !.filters = Cleared(screen.filters)]
    /\ UNCHANGED city

-----------------------------------------------------------------------------
BrowseInit == city = "Delhi" /\ screen = [at |-> "other"]

BrowseNext ==
    \/ \E t \in TYPES : FooterLink(t) \/ ChooseTab(t) \/ ToggleType(t)
    \/ BrowseLink \/ OpenLanding \/ OpenVehicle
    \/ \E c \in ToSet(CITIES) : SetCity(c)
    \/ \E c \in ToSet(CITIES), from \in Days \cup {NoDay} : Return(c, from)
    \/ \E from, to \in Days \cup {NoDay} : ChooseDays(from, to)
    \/ RunSearch
    \/ \E c \in CityFilters : ChooseCity(c)
    \/ \E p \in Prices : SlidePrice(p)
    \/ \E d \in Distances : SlideDistance(d)
    \/ ToggleElectric
    \/ \E sort \in Sorts : SortBy(sort)
    \/ Reset

BrowseTypeOK ==
    /\ city \in ToSet(CITIES)
    /\ screen \in SearchScreens \cup LandingScreens \cup {[at |-> "other"]}

-----------------------------------------------------------------------------
\* The search screen.  While only types are chosen, the number beside each is how many
\* results are of it; while "Electric only" alone is chosen, no more are found than its
\* number says, and as many in all cities together; the button that clears the filters is
\* there exactly when there is something to clear; clearing them always finds a vehicle, as
\* every city has one; the map has as many pins as its legend says (Search.tsx, results,
\* typeCounts and activeCount; MapPanel.tsx).
SearchCounts ==
    LET f == screen.filters
        found == Results(f, screen.sort)
        chosen == IF f.types = {} THEN TYPES ELSE f.types
    IN  /\ f = [NoFilters(f.cityFilter) EXCEPT !.types = f.types]
              => \A t \in TYPES :
                    Cardinality({i \in DOMAIN found : found[i].type = t})
                       = IF t \in chosen THEN TypeCounts(f)[t] ELSE 0
        /\ f = [NoFilters(f.cityFilter) EXCEPT !.evOnly = TRUE]
              => /\ Len(found) <= ElectricCount
                 /\ f.cityFilter = AllCities => Len(found) = ElectricCount
        /\ ActiveCount(f) = 0 <=> f = Cleared(f)
        /\ Results(Cleared(f), screen.sort) # <<>>
        /\ \A i, j \in DOMAIN found :
              i < j => SortKey(found[i], screen.sort) <= SortKey(found[j], screen.sort)
        /\ ToSet(found) \subseteq ToSet(Results(Cleared(f), screen.sort))
        /\ Pins(found).vehicles = {Cards(found)[i].id : i \in DOMAIN found}
        /\ Pins(found).nearby = Cardinality(Pins(found).vehicles)

\* The landing page shows as many vehicles of a type as its tab says, or four of them.
LandingCounts ==
    \/ Len(Shown(screen.tab)) = TabCount(screen.tab)
    \/ Len(Shown(screen.tab)) = 4 /\ TabCount(screen.tab) > 4
=============================================================================
