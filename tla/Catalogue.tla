----------------------------- MODULE Catalogue -----------------------------
(***************************************************************************)
(* frontend/src/data/seed.ts: everything the web app's screens show.       *)
(* Distances and ratings are in tenths, rates and amounts in whole rupees  *)
(* as in the file; names, plates, colours and texts are left out.          *)
(***************************************************************************)
EXTENDS Integers, Sequences, FiniteSets, SequencesExt

CITIES == <<"Delhi", "Noida", "Gurgaon">>

TYPES == {"car", "bike", "scooter", "bicycle"}

OWNERS == {"o1", "o2", "o3", "o4", "o5", "o6", "o7", "o8", "o9", "o10", "o11", "o12"}

Listing(id, type, ev, place, distance, daily, deposit, rating, owner, booked) ==
    [id |-> id, type |-> type, ev |-> ev, city |-> place, distance |-> distance,
     daily |-> 100 * daily, deposit |-> 100 * deposit, rating |-> rating,
     owner |-> owner, booked |-> booked]

\* The order of the file is the order of equals in every list.
VEHICLES == <<
    Listing("v12", "car", FALSE, "Delhi", 24, 3999, 7000, 47, "o12",
            {<<5, 7>>, <<15, 17>>, <<25, 26>>}),
    Listing("v1", "car", FALSE, "Delhi", 12, 1899, 2000, 48, "o1",
            {<<2, 4>>, <<11, 13>>, <<19, 21>>}),
    Listing("v2", "car", FALSE, "Gurgaon", 34, 3499, 5000, 49, "o2",
            {<<1, 1>>, <<6, 9>>, <<16, 17>>, <<24, 26>>}),
    Listing("v3", "car", TRUE, "Noida", 28, 2999, 5000, 47, "o3",
            {<<3, 3>>, <<8, 12>>, <<22, 23>>}),
    Listing("v4", "car", FALSE, "Gurgaon", 51, 4499, 8000, 46, "o4",
            {<<0, 2>>, <<14, 18>>, <<27, 29>>}),
    Listing("v5", "bike", FALSE, "Delhi", 8, 1199, 3000, 49, "o5",
            {<<1, 3>>, <<7, 8>>, <<15, 16>>, <<25, 28>>}),
    Listing("v6", "bike", FALSE, "Noida", 21, 999, 2500, 45, "o6",
            {<<4, 6>>, <<13, 14>>, <<20, 22>>}),
    Listing("v7", "bike", FALSE, "Gurgaon", 46, 1699, 5000, 48, "o7",
            {<<2, 2>>, <<9, 11>>, <<18, 19>>}),
    Listing("v8", "scooter", FALSE, "Delhi", 15, 599, 1500, 47, "o8",
            {<<0, 1>>, <<10, 12>>, <<23, 24>>}),
    Listing("v9", "scooter", TRUE, "Noida", 39, 799, 2500, 49, "o9",
            {<<5, 7>>, <<17, 18>>, <<26, 27>>}),
    Listing("v10", "bicycle", FALSE, "Delhi", 6, 299, 1000, 44, "o10",
            {<<3, 5>>, <<12, 13>>, <<21, 22>>}),
    Listing("v11", "bicycle", FALSE, "Gurgaon", 32, 249, 800, 46, "o11",
            {<<1, 2>>, <<8, 10>>, <<20, 21>>})
    >>

Ids == {VEHICLES[i].id : i \in DOMAIN VEHICLES}

\* byId, requireById and ownerOf.
ById(id) == CHOOSE v \in ToSet(VEHICLES) : v.id = id

OWNER_VEHICLE_IDS == {"v1", "v5", "v8", "v10"}

INITIAL_STATUS ==
    [v \in OWNER_VEHICLE_IDS |-> CASE v = "v1" -> "rented"
                                   [] v = "v10" -> "maintenance"
                                   [] OTHER -> "available"]

EARNINGS == <<18400, 24900, 21300, 33800, 27600, 25100,
              31200, 29700, 38400, 34500, 41200, 46800>>

OwnerRow(id, vehicle, days, nights, amount, status) ==
    [id |-> id, vehicle |-> vehicle, days |-> days, nights |-> nights,
     amount |-> 100 * amount, status |-> status]

OWNER_BOOKINGS == <<
    OwnerRow("RA-8F42K9", "v1", 0, 3, 6297, "ongoing"),
    OwnerRow("RA-3M17Q2", "v5", 2, 2, 2518, "upcoming"),
    OwnerRow("RA-9K55D1", "v8", 5, 1, 707, "upcoming"),
    OwnerRow("RA-2P88X7", "v1", -4, 4, 8964, "completed"),
    OwnerRow("RA-6T31L4", "v10", -9, 2, 706, "completed"),
    OwnerRow("RA-1C09W8", "v5", -14, 5, 7075, "completed")
    >>

RenterRow(id, vehicle, start, nights, amount, status, rated) ==
    [id |-> id, vehicle |-> vehicle, start |-> start, nights |-> nights,
     amount |-> 100 * amount, status |-> status, rated |-> rated]

RENTER_BOOKINGS == <<
    RenterRow("RA-7Y21B5", "v2", 3, 3, 12386, "upcoming", 0),
    RenterRow("RA-4Q66N3", "v9", 9, 2, 1886, "upcoming", 0),
    RenterRow("RA-5J13V0", "v7", 0, 1, 2005, "ongoing", 0),
    RenterRow("RA-8B47R6", "v3", -7, 4, 14156, "past", 5),
    RenterRow("RA-2D90S9", "v6", -16, 2, 2358, "past", 4),
    RenterRow("RA-6H72F1", "v11", -23, 3, 882, "past", 0),
    RenterRow("RA-3N58G4", "v5", -34, 5, 7075, "past", 5)
    >>

\* filter and sort of a list: its members at the positions in `kept`, lower keys first,
\* those with equal keys in the order of the list.
Arranged(list, kept, key) ==
    LET Before(j, i) == \/ key[j] < key[i]
                        \/ key[j] = key[i] /\ j < i
    IN  [k \in 1 .. Cardinality(kept) |->
            list[CHOOSE i \in kept : Cardinality({j \in kept : Before(j, i)}) = k - 1]]

\* filter alone.
Filtered(list, kept) == Arranged(list, kept, [i \in kept |-> 0])

\* requireById throws on an id that is not in the file, and ids are keys everywhere: no
\* row may refer to a vehicle or an owner that is not there, and no id may occur twice.
ASSUME SeedIsClosed ==
    /\ \A i, j \in DOMAIN VEHICLES : VEHICLES[i].id = VEHICLES[j].id => i = j
    /\ \A v \in ToSet(VEHICLES) : v.owner \in OWNERS /\ v.type \in TYPES
                                  /\ v.city \in ToSet(CITIES)
    /\ OWNER_VEHICLE_IDS \subseteq Ids
    /\ \A row \in ToSet(OWNER_BOOKINGS) : row.vehicle \in OWNER_VEHICLE_IDS
    /\ \A row \in ToSet(RENTER_BOOKINGS) : row.vehicle \in Ids
    /\ \A i, j \in DOMAIN RENTER_BOOKINGS :
          RENTER_BOOKINGS[i].id = RENTER_BOOKINGS[j].id => i = j
=============================================================================
