---------------------------- MODULE WebAppProofs ----------------------------
(***************************************************************************)
(* The counts and sums that CountsMatchLists names agree with the lists    *)
(* they stand for, whatever is chosen, booked or rated.  Three numbers of  *)
(* the app that do not are not among them (AnnouncedAmiss, in MCWebApp).   *)
(*                                                                         *)
(* The argument.  A list on a screen is its source filtered and sorted:    *)
(* the positions that are kept, each once, by their keys (ArrangedLists).  *)
(* Whatever is looked for, the list therefore has it as often as its       *)
(* source (CountOnTheList), and the counts, computed apart, agree with it. *)
(* WebIInv is what the lists need to know of a state: the bookings made    *)
(* are sound (IInv, of the booking screens), the filters and the order are *)
(* ones the search screen has, the statuses and ratings are in range.      *)
(***************************************************************************)
EXTENDS MCWebApp, BookingFlowProofs, FiniteSetTheorems

-----------------------------------------------------------------------------
(* Lists: what is kept of a list, in what order, and how often.            *)

\* Position j goes before position i: its key is lower, or equal and j is the earlier.
Before(key, j, i) ==
    \/ key[j] < key[i]
    \/ key[j] = key[i] /\ j < i

Ahead(I, key, i) == {j \in I : Before(key, j, i)}

\* p lists the positions in I by key, each once.
Lists(p, I, key) ==
    /\ p \in [1 .. Cardinality(I) -> I]
    /\ \A i \in I : \E k \in 1 .. Cardinality(I) : p[k] = i
    /\ \A k, l \in 1 .. Cardinality(I) : k < l => Before(key, p[k], p[l])
    /\ \A k, l \in 1 .. Cardinality(I) : p[k] = p[l] => k = l

\* A position that goes before another has fewer before it.
LEMMA AheadIsLess ==
    ASSUME NEW I, IsFiniteSet(I), I \subseteq Int, NEW key, \A i \in I : key[i] \in Int,
           NEW i \in I
    PROVE  /\ Cardinality(Ahead(I, key, i)) \in 0 .. Cardinality(I) - 1
           /\ \A j \in I : Before(key, j, i) =>
                 Cardinality(Ahead(I, key, j)) < Cardinality(Ahead(I, key, i))
<1>1. \A x \in I : key[x] \in Int /\ x \in Int
  OBVIOUS
<1>2. ASSUME NEW S \in SUBSET I, NEW T \in SUBSET S, NEW j \in S, j \notin T
      PROVE  /\ Cardinality(T) \in Nat /\ Cardinality(S) \in Nat
             /\ Cardinality(T) <= Cardinality(S) - 1
  <2>1. IsFiniteSet(S)
    BY FS_Subset
  <2>2. IsFiniteSet(S \ {j}) /\ Cardinality(S \ {j}) = Cardinality(S) - 1
    BY <1>2, <2>1, FS_RemoveElement
  <2>3. T \in SUBSET (S \ {j})
    BY <1>2
  <2>4. IsFiniteSet(T) /\ Cardinality(T) <= Cardinality(S \ {j})
    BY <2>2, <2>3, FS_Subset
  <2> QED BY <2>1, <2>2, <2>4, FS_CardinalityType
<1>3. i \notin Ahead(I, key, i) /\ Ahead(I, key, i) \in SUBSET I
  BY <1>1 DEF Ahead, Before
<1>4. ASSUME NEW j \in I, Before(key, j, i)
      PROVE  /\ Ahead(I, key, j) \in SUBSET Ahead(I, key, i)
             /\ j \in Ahead(I, key, i) /\ j \notin Ahead(I, key, j)
  <2>1. /\ key[i] \in Int /\ key[j] \in Int /\ i \in Int /\ j \in Int
        /\ Before(key, j, i) /\ ~Before(key, j, j)
    BY <1>1, <1>4 DEF Before
  <2>2. ASSUME NEW x \in I, Before(key, x, j) PROVE Before(key, x, i)
    <3>1. key[x] \in Int /\ x \in Int
      BY <1>1
    <3> QED BY <2>1, <2>2, <3>1 DEF Before
  <2> QED BY <2>1, <2>2 DEF Ahead
<1>5. /\ Cardinality(Ahead(I, key, i)) \in Nat /\ Cardinality(I) \in Nat
      /\ Cardinality(Ahead(I, key, i)) <= Cardinality(I) - 1
  BY <1>2, <1>3
<1>6. ASSUME NEW j \in I, Before(key, j, i)
      PROVE  Cardinality(Ahead(I, key, j)) < Cardinality(Ahead(I, key, i))
  <2>1. /\ Cardinality(Ahead(I, key, j)) \in Nat /\ Cardinality(Ahead(I, key, i)) \in Nat
        /\ Cardinality(Ahead(I, key, j)) <= Cardinality(Ahead(I, key, i)) - 1
    BY <1>2, <1>3, <1>4, <1>6
  <2> QED BY <2>1
<1> QED BY <1>5, <1>6

\* A filtered and sorted list is its source at positions listed by key: each position has
\* a rank of its own, and every rank up to their number is taken.
LEMMA ArrangedLists ==
    ASSUME NEW I, IsFiniteSet(I), I \subseteq Int, NEW key, \A i \in I : key[i] \in Int
    PROVE  \E p : /\ Lists(p, I, key)
                  /\ \A list : Arranged(list, I, key)
                                  = [k \in 1 .. Cardinality(I) |-> list[p[k]]]
<1> DEFINE n == Cardinality(I)
           rank == [i \in I |-> Cardinality(Ahead(I, key, i)) + 1]
           At(k) == CHOOSE i \in I : Cardinality({j \in I : Before(key, j, i)}) = k - 1
           p == [k \in 1 .. n |-> At(k)]
<1>1. n \in Nat
  BY FS_CardinalityType
<1>2. rank \in [I -> 1 .. n]
  <2>1. \A i \in I : Cardinality(Ahead(I, key, i)) \in 0 .. n - 1
    BY AheadIsLess
  <2> QED BY <1>1, <2>1
<1>3. \A i, j \in I : Before(key, j, i) => rank[j] < rank[i]
  <2> SUFFICES ASSUME NEW i \in I, NEW j \in I, Before(key, j, i) PROVE rank[j] < rank[i]
    OBVIOUS
  <2>1. Cardinality(Ahead(I, key, j)) < Cardinality(Ahead(I, key, i))
    BY AheadIsLess
  <2>2. \A x \in I : Cardinality(Ahead(I, key, x)) \in 0 .. n - 1
    BY AheadIsLess
  <2> HIDE DEF n
  <2> QED BY <1>1, <2>1, <2>2
<1>4. \A i, j \in I : i # j => Before(key, i, j) \/ Before(key, j, i)
  <2>1. \A x \in I : key[x] \in Int /\ x \in Int
    OBVIOUS
  <2> QED BY <2>1 DEF Before
<1>5. \A k \in 1 .. n : At(k) = CHOOSE i \in I : rank[i] = k
  <2>1. \A i \in I : Cardinality(Ahead(I, key, i)) \in 0 .. n - 1
    BY AheadIsLess
  <2>2. ASSUME NEW k \in 1 .. n, NEW i \in I
        PROVE  Cardinality({j \in I : Before(key, j, i)}) = k - 1 <=> rank[i] = k
    BY <1>1, <2>1 DEF Ahead
  <2> HIDE DEF rank
  <2> QED BY <2>2
<1> HIDE DEF rank
<1>6. \A i, j \in I : rank[i] = rank[j] => i = j
  <2>1. \A i \in I : rank[i] \in Int
    BY <1>1, <1>2
  <2> QED BY <1>3, <1>4, <2>1
<1>7. \A k \in 1 .. n : \E i \in I : rank[i] = k
  <2>1. rank \in Injection(I, 1 .. n)
    BY <1>2, <1>6 DEF Injection, IsInjective
  <2>2. IsFiniteSet(1 .. n) /\ Cardinality(1 .. n) = n
    BY <1>1, FS_Interval
  <2>3. rank \in Surjection(I, 1 .. n)
    BY <2>1, <2>2, FS_Injection
  <2> QED BY <2>3 DEF Surjection
<1>8. \A k \in 1 .. n : At(k) \in I /\ rank[At(k)] = k
  BY <1>5, <1>7
<1>8a. \A list : Arranged(list, I, key) = [k \in 1 .. n |-> list[p[k]]]
  <2>1. \A list : Arranged(list, I, key) = [k \in 1 .. n |-> list[At(k)]]
    BY DEF Arranged, Before
  <2> HIDE DEF At
  <2> QED BY <2>1
<1> HIDE DEF At
<1>9. p \in [1 .. n -> I] /\ \A k \in 1 .. n : rank[p[k]] = k
  BY <1>8
<1> HIDE DEF p
<1>10. Lists(p, I, key)
  <2>1. \A i \in I : \E k \in 1 .. n : p[k] = i
    BY <1>2, <1>6, <1>9
  <2>2. ASSUME NEW k \in 1 .. n, NEW l \in 1 .. n, k < l
        PROVE  Before(key, p[k], p[l])
    <3>1. /\ p[k] \in I /\ p[l] \in I /\ rank[p[k]] = k /\ rank[p[l]] = l
          /\ k \in Int /\ l \in Int
      BY <1>9
    <3>2. ~(l < k) /\ k # l
      BY <2>2, <3>1
    <3> QED BY <1>3, <1>4, <3>1, <3>2
  <2>3. \A k, l \in 1 .. n : p[k] = p[l] => k = l
    BY <1>9
  <2> QED BY <1>9, <2>1, <2>2, <2>3 DEF Lists
<1> QED BY <1>10, <1>8a

\* A list of positions has as many members of a set as the set has.
LEMMA Counted ==
    ASSUME NEW I, IsFiniteSet(I), NEW key, NEW p, Lists(p, I, key), NEW G \in SUBSET I
    PROVE  Cardinality({k \in 1 .. Cardinality(I) : p[k] \in G}) = Cardinality(G)
<1> DEFINE n == Cardinality(I)
           H == {k \in 1 .. n : p[k] \in G}
           f == [k \in H |-> p[k]]
<1>1. IsFiniteSet(H)
  <2>1. n \in Nat
    BY FS_CardinalityType
  <2>2. IsFiniteSet(1 .. n)
    BY <2>1, FS_Interval
  <2> QED BY <2>2, FS_Subset
<1>2. f \in Bijection(H, G)
  <2>1. f \in [H -> G]
    OBVIOUS
  <2>2. \A k, l \in H : f[k] = f[l] => k = l
    BY DEF Lists
  <2>3. \A i \in G : \E k \in H : f[k] = i
    BY DEF Lists
  <2> HIDE DEF f, H
  <2> QED BY <2>1, <2>2, <2>3 DEF Bijection, Injection, Surjection, IsInjective
<1>3. ExistsBijection(H, G)
  BY <1>2 DEF ExistsBijection
<1> HIDE DEF H
<1> QED BY <1>1, <1>3, FS_Bijection DEF H

\* The length of what is a function on 1 .. n.
LEMMA LengthOf ==
    ASSUME NEW n \in Nat, NEW r, DOMAIN r = 1 .. n, r = [k \in 1 .. n |-> r[k]]
    PROVE  Len(r) = n
OBVIOUS

\* What is on such a list, in what order, and how often.
IsListOf(r, list, I, key) ==
    LET n == Cardinality(I)
    IN  /\ n \in Nat /\ DOMAIN r = 1 .. n /\ Len(r) = n
        /\ \E p \in [1 .. n -> I] :
              /\ \A k \in 1 .. n : r[k] = list[p[k]]
              /\ \A i \in I : \E k \in 1 .. n : p[k] = i
              /\ \A k, l \in 1 .. n : k < l => key[p[k]] <= key[p[l]]
              /\ \A G \in SUBSET I :
                    Cardinality({k \in 1 .. n : p[k] \in G}) = Cardinality(G)

\* A filtered and sorted list is one.
LEMMA ListedIs ==
    ASSUME NEW I, IsFiniteSet(I), I \subseteq Int, NEW key, \A i \in I : key[i] \in Int,
           NEW list
    PROVE  IsListOf(Arranged(list, I, key), list, I, key)
<1> DEFINE r == Arranged(list, I, key)
           n == Cardinality(I)
<1>1. PICK p : Lists(p, I, key) /\ r = [k \in 1 .. n |-> list[p[k]]]
  BY ArrangedLists
<1>2. n \in Nat
  BY FS_CardinalityType
<1>3. ASSUME NEW G \in SUBSET I
      PROVE  Cardinality({k \in 1 .. n : p[k] \in G}) = Cardinality(G)
  <2>1. Lists(p, I, key)
    BY <1>1
  <2> HIDE DEF r
  <2> QED BY ONLY <2>1, IsFiniteSet(I), Counted DEF n
<1> HIDE DEF r, n
<1>4. DOMAIN r = 1 .. n /\ r = [k \in 1 .. n |-> r[k]]
  BY <1>1
<1>5. Len(r) = n
  BY <1>2, <1>4, LengthOf
<1>6. /\ p \in [1 .. n -> I]
      /\ \A i \in I : \E k \in 1 .. n : p[k] = i
      /\ \A k, l \in 1 .. n : k < l => Before(key, p[k], p[l])
  BY <1>1 DEF Lists, n
<1>7. \A k, l \in 1 .. n : k < l => key[p[k]] <= key[p[l]]
  <2>1. \A k \in 1 .. n : key[p[k]] \in Int
    BY <1>6
  <2> QED BY <1>6, <2>1 DEF Before
<1>8. \A k \in 1 .. n : r[k] = list[p[k]]
  BY <1>1
<1> QED BY <1>2, <1>3, <1>4, <1>5, <1>6, <1>7, <1>8 DEF r, n, IsListOf

\* Nothing is on the list that is not kept, and all that is kept is on it.
LEMMA OnTheList ==
    ASSUME NEW r, NEW list, NEW I, NEW key, IsListOf(r, list, I, key)
    PROVE  /\ Cardinality(I) \in Nat /\ DOMAIN r = 1 .. Cardinality(I)
           /\ Len(r) = Cardinality(I)
           /\ \A k \in DOMAIN r : \E i \in I : r[k] = list[i]
           /\ \A i \in I : \E k \in DOMAIN r : r[k] = list[i]
BY DEF IsListOf

\* Of two on the list the first has no higher key.
LEMMA InOrder ==
    ASSUME NEW r, NEW list, NEW I, NEW key, IsListOf(r, list, I, key),
           NEW k \in DOMAIN r, NEW l \in DOMAIN r, k < l
    PROVE  \E i, j \in I : r[k] = list[i] /\ r[l] = list[j] /\ key[i] <= key[j]
BY DEF IsListOf

\* Whatever is looked for, a list has it as often as what it was made from.
HowMany(list, I, S) == Cardinality({i \in I : list[i] \in S})

LEMMA CountOnTheList ==
    ASSUME NEW r, NEW list, NEW I, NEW key, IsListOf(r, list, I, key), NEW S
    PROVE  HowMany(r, DOMAIN r, S) = HowMany(list, I, S)
<1> DEFINE n == Cardinality(I)
           G == {i \in I : list[i] \in S}
<1>1. PICK p \in [1 .. n -> I] :
         /\ \A k \in 1 .. n : r[k] = list[p[k]]
         /\ \A T \in SUBSET I : Cardinality({k \in 1 .. n : p[k] \in T}) = Cardinality(T)
  BY DEF IsListOf
<1>2. DOMAIN r = 1 .. n
  BY DEF IsListOf
<1>3. \A k \in 1 .. n : r[k] \in S <=> p[k] \in G
  BY <1>1
<1>4. {k \in DOMAIN r : r[k] \in S} = {k \in 1 .. n : p[k] \in G}
  BY <1>2, <1>3
<1>5. Cardinality({k \in 1 .. n : p[k] \in G}) = Cardinality(G)
  <2>1. G \in SUBSET I
    OBVIOUS
  <2> HIDE DEF G
  <2> QED BY <1>1, <2>1
<1> QED BY <1>4, <1>5 DEF HowMany
-----------------------------------------------------------------------------
(* The search screen and the landing page.                                 *)

\* The catalogue (data/seed.ts): every price and distance is within the sliders, three
\* cities have a vehicle, and no two vehicles have one id.
LEMMA TheCities == ToSet(CITIES) = {"Delhi", "Noida", "Gurgaon"}
<1>1. DOMAIN CITIES = 1 .. 3
  BY DEF CITIES
<1>2. CITIES[1] = "Delhi" /\ CITIES[2] = "Noida" /\ CITIES[3] = "Gurgaon"
  BY DEF CITIES
<1> QED BY <1>1, <1>2 DEF ToSet

LEMMA TheVehicles ==
    /\ DOMAIN VEHICLES = 1 .. 12
    /\ \A i \in 1 .. 12 :
          /\ VEHICLES[i].type \in TYPES
          /\ VEHICLES[i].daily \in Int /\ VEHICLES[i].daily <= 450000
          /\ VEHICLES[i].distance \in Int /\ VEHICLES[i].distance <= 60
          /\ VEHICLES[i].rating \in Int
<1>1. DOMAIN VEHICLES = 1 .. 12
  BY DEF VEHICLES
<1>2. ASSUME NEW i \in 1 .. 12
      PROVE
          /\ VEHICLES[i].type \in TYPES
          /\ VEHICLES[i].daily \in Int /\ VEHICLES[i].daily <= 450000
          /\ VEHICLES[i].distance \in Int /\ VEHICLES[i].distance <= 60
          /\ VEHICLES[i].rating \in Int
  BY DEF VEHICLES, Listing, TYPES
<1> QED BY <1>1, <1>2

LEMMA TheirCities ==
   VEHICLES[1].city = "Delhi" /\ VEHICLES[3].city = "Gurgaon" /\ VEHICLES[4].city = "Noida"
BY DEF VEHICLES, Listing

LEMMA TheirIds ==
   \A i, j \in 1 .. 12 : VEHICLES[i].id = VEHICLES[j].id => i = j
BY DEF VEHICLES, Listing

\* The vehicles that match a filter, and what they are sorted by.
Hits(f) == {i \in DOMAIN VEHICLES : Matches(VEHICLES[i], f)}
SortKeys(sort) == [i \in DOMAIN VEHICLES |-> SortKey(VEHICLES[i], sort)]

\* Positions of the catalogue are finitely many numbers, and every key is a number.
LEMMA PositionsAreFinite ==
    ASSUME NEW I \in SUBSET (DOMAIN VEHICLES)
    PROVE  IsFiniteSet(I) /\ I \subseteq Int
<1>1. 1 \in Int /\ 12 \in Int
  OBVIOUS
<1>2. IsFiniteSet(1 .. 12)
  BY <1>1, FS_Interval, Zenon
<1>3. IsFiniteSet(DOMAIN VEHICLES) /\ DOMAIN VEHICLES \subseteq Int
  BY <1>2, TheVehicles
<1> QED BY <1>3, FS_Subset

LEMMA SortKeysAreInts ==
    ASSUME NEW sort \in Sorts, NEW i \in DOMAIN VEHICLES
    PROVE  SortKeys(sort)[i] \in Int
<1>1. /\ VEHICLES[i].daily \in Int /\ VEHICLES[i].distance \in Int
      /\ VEHICLES[i].rating \in Int
  BY TheVehicles
<1> QED BY <1>1 DEF SortKeys, SortKey, Sorts

\* What the search screen lists: each vehicle that matches, once, by the key.
LEMMA ResultsAre ==
    ASSUME NEW f, NEW sort \in Sorts
    PROVE  IsListOf(Results(f, sort), VEHICLES, Hits(f), SortKeys(sort))
<1> DEFINE I == Hits(f)
           key == SortKeys(sort)
<1>1. IsFiniteSet(I) /\ I \subseteq Int
  BY PositionsAreFinite DEF Hits
<1>2. \A i \in I : key[i] \in Int
  BY SortKeysAreInts DEF Hits
<1>3. Results(f, sort) = Arranged(VEHICLES, I, key)
  BY DEF Results, Hits, SortKeys
<1> HIDE DEF I, key
<1>4. IsListOf(Arranged(VEHICLES, I, key), VEHICLES, I, key)
  BY ONLY <1>1, <1>2, ListedIs
<1> QED BY <1>3, <1>4 DEF I, key

\* Every city has a vehicle, and clearing the filters leaves only the city's.
LEMMA ClearedFinds ==
    ASSUME NEW f \in Filters
    PROVE  /\ \E i \in DOMAIN VEHICLES : i \in Hits(Cleared(f))
           /\ Hits(f) \subseteq Hits(Cleared(f))
<1>1. /\ Cleared(f).types = {} /\ Cleared(f).cityFilter = f.cityFilter
      /\ Cleared(f).maxPrice = PriceMax /\ Cleared(f).maxDist = DistMax
      /\ Cleared(f).evOnly = FALSE
      /\ f.cityFilter \in CityFilters
  BY DEF Cleared, Filters
<1>2. \A i \in DOMAIN VEHICLES :
         Matches(VEHICLES[i], Cleared(f)) <=> InCity(VEHICLES[i], f.cityFilter)
  BY <1>1, TheVehicles DEF Matches, PriceMax, DistMax
<1>3. \E i \in DOMAIN VEHICLES : InCity(VEHICLES[i], f.cityFilter)
  <2>1. 1 \in DOMAIN VEHICLES /\ 3 \in DOMAIN VEHICLES /\ 4 \in DOMAIN VEHICLES
    BY TheVehicles
  <2>2. f.cityFilter \in {"Delhi", "Noida", "Gurgaon", AllCities}
    BY <1>1, TheCities DEF CityFilters
  <2> DEFINE c == f.cityFilter
  <2> HIDE DEF c
  <2>3. \E i \in DOMAIN VEHICLES : InCity(VEHICLES[i], c)
    BY ONLY <2>1, <2>2, TheirCities DEF InCity, c
  <2> QED BY <2>3 DEF c
<1>4. \A i \in DOMAIN VEHICLES :
         Matches(VEHICLES[i], f) => InCity(VEHICLES[i], f.cityFilter)
  BY DEF Matches
<1> QED BY <1>2, <1>3, <1>4 DEF Hits

\* The "Clear" button counts what is not as it was.
LEMMA ActiveCountIs ==
    ASSUME NEW f \in Filters
    PROVE  ActiveCount(f) = 0 <=> f = Cleared(f)
<1>0. ASSUME NEW x \in Prices PROVE x \in Int /\ x < PriceMax
  <2>1. PICK k \in 0 .. 85 : x = PriceMin + PriceStep * k
    BY BrowseAssumption, Zenon
  <2>2. k \in Int /\ k <= 85
    OBVIOUS
  <2> QED BY ONLY <2>1, <2>2 DEF PriceMin, PriceStep, PriceMax
<1>0a. ASSUME NEW x \in Distances PROVE x \in Int /\ x <= DistMax
  BY BrowseAssumption DEF DistMax
<1>1. /\ f.types \in SUBSET TYPES
      /\ f.maxPrice \in Int /\ (f.maxPrice = PriceMax \/ f.maxPrice < PriceMax)
      /\ f.maxDist \in Int /\ (f.maxDist = DistMax \/ f.maxDist < DistMax)
      /\ f.evOnly \in BOOLEAN
  BY <1>0, <1>0a DEF Filters, PriceMax, DistMax
<1>2. IsFiniteSet(TYPES)
  <2>1. TYPES = ((({} \cup {"car"}) \cup {"bike"}) \cup {"scooter"}) \cup {"bicycle"}
    BY DEF TYPES
  <2> QED BY <2>1, FS_EmptySet, FS_AddElement
<1>3. /\ Cardinality(f.types) \in Nat /\ (Cardinality(f.types) = 0 <=> f.types = {})
  BY <1>1, <1>2, FS_Subset, FS_EmptySet, FS_CardinalityType
<1>4. ActiveCount(f) = 0 <=> /\ f.types = {} /\ f.maxPrice = PriceMax
                             /\ f.maxDist = DistMax /\ f.evOnly = FALSE
  BY <1>1, <1>3 DEF ActiveCount
<1>5. f = Cleared(f) <=> /\ f.types = {} /\ f.maxPrice = PriceMax
                         /\ f.maxDist = DistMax /\ f.evOnly = FALSE
  BY DEF Cleared, Filters
<1> QED BY <1>4, <1>5

\* With "Electric only" alone, what is found are the electric ones of the city.
LEMMA ElectricOnes ==
    ASSUME NEW f, NEW sort \in Sorts,
           f = [NoFilters(f.cityFilter) EXCEPT !.evOnly = TRUE]
    PROVE  /\ Len(Results(f, sort)) <= ElectricCount
           /\ f.cityFilter = AllCities => Len(Results(f, sort)) = ElectricCount
<1> DEFINE E == {i \in DOMAIN VEHICLES : VEHICLES[i].ev}
           hits == Hits(f)
<1>1. /\ f.types = {} /\ f.maxPrice = PriceMax /\ f.maxDist = DistMax /\ f.evOnly = TRUE
  <2> DEFINE g == [NoFilters(f.cityFilter) EXCEPT !.evOnly = TRUE]
  <2>1. /\ g.types = {} /\ g.maxPrice = PriceMax /\ g.maxDist = DistMax
        /\ g.evOnly = TRUE
    BY DEF NoFilters
  <2>2. f = g
    OBVIOUS
  <2> HIDE DEF g
  <2> QED BY <2>1, <2>2
<1>2. \A i \in DOMAIN VEHICLES :
         Matches(VEHICLES[i], f) <=> InCity(VEHICLES[i], f.cityFilter) /\ VEHICLES[i].ev
  <2>1. \A i \in DOMAIN VEHICLES :
           VEHICLES[i].daily <= PriceMax /\ VEHICLES[i].distance <= DistMax
    BY TheVehicles DEF PriceMax, DistMax
  <2> QED BY <1>1, <2>1 DEF Matches
<1>3. hits \subseteq E /\ (f.cityFilter = AllCities => hits = E)
  BY <1>2 DEF Hits, InCity
<1>4. IsFiniteSet(E)
  BY PositionsAreFinite
<1>5. ElectricCount = Cardinality(E)
  BY DEF ElectricCount
<1>6. Len(Results(f, sort)) = Cardinality(hits)
  <2>1. IsListOf(Results(f, sort), VEHICLES, hits, SortKeys(sort))
    BY ResultsAre
  <2> HIDE DEF hits
  <2> QED BY ONLY <2>1, OnTheList
<1> HIDE DEF E, hits
<1>7. Cardinality(hits) <= Cardinality(E)
  BY <1>3, <1>4, FS_Subset
<1> QED BY <1>3, <1>5, <1>6, <1>7

\* The numbers of the search screen, for every choice of filters and of the order.
LEMMA SearchCountsHold ==
    ASSUME screen \in SearchScreens
    PROVE  SearchCounts
<1> DEFINE f == screen.filters
           sort == screen.sort
           found == Results(f, sort)
           chosen == IF f.types = {} THEN TYPES ELSE f.types
           hits == Hits(f)
<1>1. f \in Filters /\ sort \in Sorts
  BY DEF SearchScreens
<1>2. IsListOf(found, VEHICLES, hits, SortKeys(sort))
  <2> HIDE DEF f, sort
  <2> QED BY <1>1, ResultsAre
<1>3. ASSUME f = [NoFilters(f.cityFilter) EXCEPT !.types = f.types], NEW t \in TYPES
      PROVE  Cardinality({i \in DOMAIN found : found[i].type = t})
                = IF t \in chosen THEN TypeCounts(f)[t] ELSE 0
  <2> DEFINE S == {v \in {VEHICLES[i] : i \in hits} : v.type = t}
             G == {i \in hits : VEHICLES[i].type = t}
             H == {i \in DOMAIN VEHICLES :
                      VEHICLES[i].type = t /\ InCity(VEHICLES[i], f.cityFilter)}
  <2>1. {i \in DOMAIN found : found[i].type = t} = {i \in DOMAIN found : found[i] \in S}
    <3>1. \A k \in DOMAIN found : \E i \in hits : found[k] = VEHICLES[i]
      BY <1>2, OnTheList
    <3>2. \A k \in DOMAIN found : found[k].type = t <=> found[k] \in S
      <4> HIDE DEF found, hits
      <4> QED BY <3>1
    <3> HIDE DEF S, found
    <3> QED BY <3>2
  <2>2. {i \in hits : VEHICLES[i] \in S} = G
    <3> HIDE DEF hits
    <3>1. \A i \in hits : VEHICLES[i] \in S <=> VEHICLES[i].type = t
      OBVIOUS
    <3> HIDE DEF S
    <3> QED BY ONLY <3>1
  <2>3. Cardinality({i \in DOMAIN found : found[i] \in S})
           = Cardinality({i \in hits : VEHICLES[i] \in S})
    <3> HIDE DEF S, found, hits
    <3>1. IsListOf(found, VEHICLES, hits, SortKeys(sort))
      BY <1>2
    <3>2. HowMany(found, DOMAIN found, S) = HowMany(VEHICLES, hits, S)
      BY ONLY <3>1, CountOnTheList
    <3> QED BY ONLY <3>2 DEF HowMany
  <2>4. Cardinality({i \in DOMAIN found : found[i].type = t}) = Cardinality(G)
    BY ONLY <2>1, <2>2, <2>3
  <2>5. f.maxPrice = PriceMax /\ f.maxDist = DistMax /\ f.evOnly = FALSE
    <3> HIDE DEF f
    <3>1. f.maxPrice = [NoFilters(f.cityFilter) EXCEPT !.types = f.types].maxPrice
      BY <1>3
    <3>2. f.maxDist = [NoFilters(f.cityFilter) EXCEPT !.types = f.types].maxDist
      BY <1>3
    <3>3. f.evOnly = [NoFilters(f.cityFilter) EXCEPT !.types = f.types].evOnly
      BY <1>3
    <3> QED BY <3>1, <3>2, <3>3 DEF NoFilters
  <2>6. \A i \in DOMAIN VEHICLES :
           Matches(VEHICLES[i], f) <=> /\ f.types = {} \/ VEHICLES[i].type \in f.types
                                       /\ InCity(VEHICLES[i], f.cityFilter)
    <3> HIDE DEF f
    <3>1. \A i \in DOMAIN VEHICLES :
             VEHICLES[i].daily <= PriceMax /\ VEHICLES[i].distance <= DistMax
      BY TheVehicles DEF PriceMax, DistMax
    <3> QED BY <2>5, <3>1 DEF Matches
  <2>7. G = IF t \in chosen THEN H ELSE {}
    <3> HIDE DEF f
    <3>1. \A i \in DOMAIN VEHICLES : VEHICLES[i].type \in TYPES
      BY TheVehicles
    <3> QED BY <2>6, <3>1 DEF Hits
  <2>8. TypeCounts(f)[t] = Cardinality(H)
    <3> HIDE DEF f
    <3> QED BY DEF TypeCounts
  <2> HIDE DEF G, H, found, chosen
  <2> QED BY <2>4, <2>7, <2>8, FS_EmptySet
<1>4. ActiveCount(f) = 0 <=> f = Cleared(f)
  <2> HIDE DEF f
  <2> QED BY <1>1, ActiveCountIs
<1>5. IsListOf(Results(Cleared(f), sort), VEHICLES, Hits(Cleared(f)), SortKeys(sort))
  <2> HIDE DEF f, sort
  <2> QED BY <1>1, ResultsAre
<1>6. Results(Cleared(f), sort) # <<>>
  <2>1. PICK i \in Hits(Cleared(f)) : TRUE
    <3> HIDE DEF f
    <3> QED BY <1>1, ClearedFinds
  <2>2. \E k \in DOMAIN Results(Cleared(f), sort) : TRUE
    BY <1>5, <2>1, OnTheList
  <2>3. DOMAIN <<>> = {}
    OBVIOUS
  <2> HIDE DEF f, sort
  <2> QED BY <2>2, <2>3
<1>7. ASSUME NEW i \in DOMAIN found, NEW j \in DOMAIN found, i < j
      PROVE  SortKey(found[i], sort) <= SortKey(found[j], sort)
  <2> HIDE DEF found, sort
  <2>1. PICK a \in hits, b \in hits :
           /\ found[i] = VEHICLES[a] /\ found[j] = VEHICLES[b]
           /\ SortKeys(sort)[a] <= SortKeys(sort)[b]
    BY <1>2, <1>7, InOrder
  <2>2. a \in DOMAIN VEHICLES /\ b \in DOMAIN VEHICLES
    BY DEF Hits
  <2> QED BY <2>1, <2>2 DEF SortKeys
<1>8. ToSet(found) \subseteq ToSet(Results(Cleared(f), sort))
  <2>1. hits \subseteq Hits(Cleared(f))
    <3> HIDE DEF f
    <3> QED BY <1>1, ClearedFinds
  <2> HIDE DEF found, f, sort, hits
  <2>2. \A k \in DOMAIN found : \E i \in hits : found[k] = VEHICLES[i]
    BY <1>2, OnTheList
  <2>3. \A i \in Hits(Cleared(f)) : \E k \in DOMAIN Results(Cleared(f), sort) :
           Results(Cleared(f), sort)[k] = VEHICLES[i]
    BY <1>5, OnTheList
  <2> QED BY <2>1, <2>2, <2>3 DEF ToSet
<1>9. Pins(found).vehicles = {Cards(found)[i].id : i \in DOMAIN found}
  <2> HIDE DEF found
  <2>1. \A i \in DOMAIN found : Cards(found)[i].id = found[i].id
    BY DEF Cards, Card
  <2> QED BY <2>1 DEF Pins
<1>10. Pins(found).nearby = Cardinality(Pins(found).vehicles)
  <2> DEFINE ids == {found[i].id : i \in DOMAIN found}
             g == [i \in hits |-> VEHICLES[i].id]
  <2>1. /\ \A k \in DOMAIN found : \E i \in hits : found[k] = VEHICLES[i]
        /\ \A i \in hits : \E k \in DOMAIN found : found[k] = VEHICLES[i]
        /\ Len(found) = Cardinality(hits)
    BY <1>2, OnTheList
  <2>2. ids = {VEHICLES[i].id : i \in hits}
    <3> HIDE DEF found, hits
    <3> QED BY <2>1
  <2>3. \A i, j \in hits : g[i] = g[j] => i = j
    BY TheVehicles, TheirIds DEF Hits
  <2>4. g \in Bijection(hits, ids)
    <3>1. g \in [hits -> ids] /\ \A x \in ids : \E i \in hits : g[i] = x
      <4> HIDE DEF hits, ids
      <4> QED BY <2>2
    <3> HIDE DEF g, ids, hits
    <3> QED BY <2>3, <3>1 DEF Bijection, Injection, Surjection, IsInjective
  <2>5. IsFiniteSet(hits)
    BY PositionsAreFinite DEF Hits
  <2>6. Cardinality(ids) = Cardinality(hits)
    <3> HIDE DEF g, ids, hits
    <3> QED BY <2>4, <2>5, FS_Bijection DEF ExistsBijection
  <2>7. Pins(found).nearby = Len(found) /\ Pins(found).vehicles = ids
    BY DEF Pins
  <2> HIDE DEF found, ids, hits
  <2> QED BY <2>1, <2>6, <2>7
<1>11. f = [NoFilters(f.cityFilter) EXCEPT !.evOnly = TRUE]
          => /\ Len(found) <= ElectricCount
             /\ f.cityFilter = AllCities => Len(found) = ElectricCount
  <2> HIDE DEF f, sort
  <2> QED BY <1>1, ElectricOnes
<1> HIDE DEF f, sort, found, chosen
<1> QED BY <1>3, <1>4, <1>6, <1>7, <1>8, <1>9, <1>10, <1>11
        DEF SearchCounts, f, sort, found, chosen

\* A list that is filtered alone keeps its order.
LEMMA FilteredIs ==
    ASSUME NEW I, IsFiniteSet(I), I \subseteq Int, NEW list
    PROVE  IsListOf(Filtered(list, I), list, I, [i \in I |-> 0])
<1> DEFINE key == [i \in I |-> 0]
<1>1. \A i \in I : key[i] \in Int
  OBVIOUS
<1> HIDE DEF key
<1>2. IsListOf(Arranged(list, I, key), list, I, key)
  BY <1>1, ListedIs
<1> QED BY <1>2 DEF Filtered, key

\* The number of vehicles on the landing page.
LEMMA LandingCountsHold == LandingCounts
<1> DEFINE I == {i \in DOMAIN VEHICLES : VEHICLES[i].type = screen.tab}
           all == Filtered(VEHICLES, I)
           n == Cardinality(I)
           shown == IF Len(all) < 4 THEN Len(all) ELSE 4
<1>1. IsFiniteSet(I) /\ I \subseteq Int
  BY PositionsAreFinite
<1>2. n \in Nat /\ DOMAIN all = 1 .. n /\ Len(all) = n
  <2> HIDE DEF I
  <2>1. IsListOf(all, VEHICLES, I, [i \in I |-> 0])
    BY <1>1, FilteredIs
  <2> HIDE DEF all
  <2> QED BY <2>1, OnTheList
<1>3. TabCount(screen.tab) = n /\ Shown(screen.tab) = SubSeq(all, 1, shown)
  BY DEF TabCount, Shown
<1>4. Len(SubSeq(all, 1, shown)) = shown
  <2> HIDE DEF all, n
  <2>1. shown \in Nat
    BY <1>2
  <2> HIDE DEF shown
  <2>2. SubSeq(all, 1, shown) = [i \in 1 .. shown |-> all[i]]
    BY <2>1
  <2> QED BY <2>1, <2>2
<1> HIDE DEF all, n
<1> QED BY <1>2, <1>3, <1>4 DEF LandingCounts
-----------------------------------------------------------------------------
(* The filters, the order and the days stay ones that can be chosen.       *)

LEMMA BrowseInitTyped == BrowseInit => BrowseTypeOK
BY TheCities DEF BrowseInit, BrowseTypeOK

\* The screen a search is mounted on.
LEMMA MountTyped ==
    ASSUME BrowseTypeOK, NEW types \in SUBSET TYPES, NEW c \in CityFilters,
           NEW from \in Days \cup {NoDay}, MountSearch(types, c, from)
    PROVE  BrowseTypeOK'
<1> DEFINE f == [NoFilters(c) EXCEPT !.types = types]
           s == [at |-> "search", filters |-> f, sort |-> "recommended", from |-> from]
<1>1. f \in Filters
  BY DEF NoFilters, Filters
<1>2. s \in SearchScreens
  <2> HIDE DEF f
  <2> QED BY <1>1 DEF SearchScreens, Sorts
<1>3. screen' = s
  BY DEF MountSearch
<1>4. city' \in ToSet(CITIES)
  BY DEF MountSearch, BrowseTypeOK, CityFilters
<1> HIDE DEF s
<1> QED BY <1>2, <1>3, <1>4 DEF BrowseTypeOK

\* Changing one thing of a search screen, or of the landing page, leaves one.
LEMMA SearchTyped ==
    ASSUME NEW s \in SearchScreens
    PROVE  /\ \A f \in Filters : [s EXCEPT !.filters = f] \in SearchScreens
           /\ \A sort \in Sorts : [s EXCEPT !.sort = sort] \in SearchScreens
           /\ \A from \in Days \cup {NoDay} : [s EXCEPT !.from = from] \in SearchScreens
           /\ \A types \in SUBSET TYPES : [s EXCEPT !.filters.types = types] \in SearchScreens
           /\ \A c \in CityFilters : [s EXCEPT !.filters.cityFilter = c] \in SearchScreens
           /\ \A p \in Prices : [s EXCEPT !.filters.maxPrice = p] \in SearchScreens
           /\ \A d \in Distances : [s EXCEPT !.filters.maxDist = d] \in SearchScreens
           /\ \A e \in BOOLEAN : [s EXCEPT !.filters.evOnly = e] \in SearchScreens
<1>1. \A f \in Filters : [s EXCEPT !.filters = f] \in SearchScreens
  BY DEF SearchScreens
<1>2. \A sort \in Sorts : [s EXCEPT !.sort = sort] \in SearchScreens
  BY DEF SearchScreens
<1>3. \A from \in Days \cup {NoDay} : [s EXCEPT !.from = from] \in SearchScreens
  BY DEF SearchScreens
<1>4. s.filters \in Filters
  BY DEF SearchScreens
<1>5. \A types \in SUBSET TYPES : [s EXCEPT !.filters.types = types] \in SearchScreens
  <2> SUFFICES ASSUME NEW types \in SUBSET TYPES
               PROVE  [s EXCEPT !.filters.types = types] \in SearchScreens
    OBVIOUS
  <2>1. [s.filters EXCEPT !.types = types] \in Filters
    BY <1>4 DEF Filters
  <2> QED BY <1>1, <2>1
<1>6. \A c \in CityFilters : [s EXCEPT !.filters.cityFilter = c] \in SearchScreens
  <2> SUFFICES ASSUME NEW c \in CityFilters
               PROVE  [s EXCEPT !.filters.cityFilter = c] \in SearchScreens
    OBVIOUS
  <2>1. [s.filters EXCEPT !.cityFilter = c] \in Filters
    BY <1>4 DEF Filters
  <2> QED BY <1>1, <2>1
<1>7. \A p \in Prices : [s EXCEPT !.filters.maxPrice = p] \in SearchScreens
  <2> SUFFICES ASSUME NEW p \in Prices
               PROVE  [s EXCEPT !.filters.maxPrice = p] \in SearchScreens
    OBVIOUS
  <2>1. [s.filters EXCEPT !.maxPrice = p] \in Filters
    BY <1>4 DEF Filters
  <2> QED BY <1>1, <2>1
<1>8. \A d \in Distances : [s EXCEPT !.filters.maxDist = d] \in SearchScreens
  <2> SUFFICES ASSUME NEW d \in Distances
               PROVE  [s EXCEPT !.filters.maxDist = d] \in SearchScreens
    OBVIOUS
  <2>1. [s.filters EXCEPT !.maxDist = d] \in Filters
    BY <1>4 DEF Filters
  <2> QED BY <1>1, <2>1
<1>9. \A e \in BOOLEAN : [s EXCEPT !.filters.evOnly = e] \in SearchScreens
  <2> SUFFICES ASSUME NEW e \in BOOLEAN
               PROVE  [s EXCEPT !.filters.evOnly = e] \in SearchScreens
    OBVIOUS
  <2>1. [s.filters EXCEPT !.evOnly = e] \in Filters
    BY <1>4 DEF Filters
  <2> QED BY <1>1, <2>1
<1> QED BY <1>1, <1>2, <1>3, <1>5, <1>6, <1>7, <1>8, <1>9

\* A screen is known by its name.
LEMMA WhichScreen ==
    ASSUME BrowseTypeOK
    PROVE  /\ screen.at = "search" => screen \in SearchScreens
           /\ screen.at = "landing" => screen \in LandingScreens
<1>1. /\ \A s \in SearchScreens : s.at = "search"
      /\ \A s \in LandingScreens : s.at = "landing"
      /\ [at |-> "other"].at = "other"
  BY DEF SearchScreens, LandingScreens
<1> QED BY <1>1 DEF BrowseTypeOK

\* A link to the search, from the search and from elsewhere.
LEMMA GoTyped ==
    ASSUME BrowseTypeOK, NEW types \in SUBSET TYPES, NEW c \in CityFilters,
           NEW from \in Days \cup {NoDay}, GoToSearch(types, c, from)
    PROVE  BrowseTypeOK'
<1>1. CASE screen.at = "search"
  BY <1>1, WhichScreen, SearchTyped DEF GoToSearch, BrowseTypeOK
<1>2. CASE screen.at # "search"
  BY <1>2, MountTyped DEF GoToSearch
<1> QED BY <1>1, <1>2

LEMMA BrowseStep == BrowseTypeOK /\ BrowseNext => BrowseTypeOK'
<1> SUFFICES ASSUME BrowseTypeOK, BrowseNext PROVE BrowseTypeOK'
  OBVIOUS
<1>1. /\ city \in ToSet(CITIES) /\ city \in CityFilters /\ ToSet(CITIES) \subseteq CityFilters
      /\ NoDay \in Days \cup {NoDay}
      /\ Today + 3 \in Days /\ Today + 5 \in Days
  BY BrowseAssumption DEF BrowseTypeOK, CityFilters
<1>2. ASSUME NEW s, screen' = s,
             s \in SearchScreens \cup LandingScreens \cup {[at |-> "other"]},
             city' \in ToSet(CITIES)
      PROVE  BrowseTypeOK'
  BY <1>2 DEF BrowseTypeOK
<1>3. ASSUME NEW t \in TYPES, FooterLink(t) PROVE BrowseTypeOK'
  BY <1>1, <1>3, GoTyped DEF FooterLink
<1>4. ASSUME NEW t \in TYPES, ChooseTab(t) PROVE BrowseTypeOK'
  <2>1. screen \in LandingScreens
    BY <1>4, WhichScreen DEF ChooseTab
  <2>2. [screen EXCEPT !.tab = t] \in LandingScreens
    BY <2>1 DEF LandingScreens
  <2> QED BY <1>1, <1>4, <2>2 DEF ChooseTab, BrowseTypeOK
<1>5. ASSUME NEW t \in TYPES, ToggleType(t) PROVE BrowseTypeOK'
  <2> DEFINE types == IF t \in screen.filters.types THEN screen.filters.types \ {t}
                                                    ELSE screen.filters.types \cup {t}
  <2>1. screen \in SearchScreens
    BY <1>5, WhichScreen DEF ToggleType
  <2>2. types \in SUBSET TYPES
    BY <2>1 DEF SearchScreens, Filters
  <2>3. screen' = [screen EXCEPT !.filters.types = types] /\ city' = city
    BY <1>5 DEF ToggleType
  <2> HIDE DEF types
  <2> QED BY <1>1, <2>1, <2>2, <2>3, SearchTyped DEF BrowseTypeOK
<1>6. ASSUME BrowseLink PROVE BrowseTypeOK'
  BY <1>1, <1>6, GoTyped DEF BrowseLink
<1>7. ASSUME OpenLanding PROVE BrowseTypeOK'
  <2>1. [at |-> "landing", tab |-> "car", from |-> Today + 3, to |-> Today + 5]
           \in LandingScreens
    BY <1>1 DEF LandingScreens, TYPES
  <2> QED BY <1>1, <1>7, <2>1 DEF OpenLanding, BrowseTypeOK
<1>8. ASSUME OpenVehicle PROVE BrowseTypeOK'
  BY <1>1, <1>8 DEF OpenVehicle, BrowseTypeOK
<1>9. ASSUME NEW c \in ToSet(CITIES), SetCity(c) PROVE BrowseTypeOK'
  BY <1>9 DEF SetCity, BrowseTypeOK
<1>10. ASSUME NEW c \in ToSet(CITIES), NEW from \in Days \cup {NoDay}, Return(c, from)
       PROVE  BrowseTypeOK'
  BY <1>1, <1>10, GoTyped DEF Return
<1>11. ASSUME NEW from \in Days \cup {NoDay}, NEW to \in Days \cup {NoDay},
              ChooseDays(from, to)
       PROVE  BrowseTypeOK'
  <2>1. screen \in LandingScreens
    BY <1>11, WhichScreen DEF ChooseDays
  <2>2. [screen EXCEPT !.from = from, !.to = to] \in LandingScreens
    BY <2>1 DEF LandingScreens
  <2> QED BY <1>1, <1>11, <2>2 DEF ChooseDays, BrowseTypeOK
<1>12. ASSUME RunSearch PROVE BrowseTypeOK'
  <2>1. screen.from \in Days \cup {NoDay}
    BY <1>12, WhichScreen DEF RunSearch, LandingScreens
  <2> QED BY <1>1, <1>12, <2>1, MountTyped DEF RunSearch
<1>13. ASSUME NEW c \in CityFilters, ChooseCity(c) PROVE BrowseTypeOK'
  BY <1>1, <1>13, WhichScreen, SearchTyped DEF ChooseCity, BrowseTypeOK, CityFilters
<1>14. ASSUME NEW p \in Prices, SlidePrice(p) PROVE BrowseTypeOK'
  BY <1>1, <1>14, WhichScreen, SearchTyped DEF SlidePrice, BrowseTypeOK
<1>15. ASSUME NEW d \in Distances, SlideDistance(d) PROVE BrowseTypeOK'
  BY <1>1, <1>15, WhichScreen, SearchTyped DEF SlideDistance, BrowseTypeOK
<1>16. ASSUME ToggleElectric PROVE BrowseTypeOK'
  <2>1. screen \in SearchScreens
    BY <1>16, WhichScreen DEF ToggleElectric
  <2>2. (~screen.filters.evOnly) \in BOOLEAN
    OBVIOUS
  <2>3. screen' = [screen EXCEPT !.filters.evOnly = ~screen.filters.evOnly] /\ city' = city
    BY <1>16 DEF ToggleElectric
  <2> QED BY <1>1, <2>1, <2>2, <2>3, SearchTyped DEF BrowseTypeOK
<1>17. ASSUME NEW sort \in Sorts, SortBy(sort) PROVE BrowseTypeOK'
  BY <1>1, <1>17, WhichScreen, SearchTyped DEF SortBy, BrowseTypeOK
<1>18. ASSUME Reset PROVE BrowseTypeOK'
  <2>1. screen \in SearchScreens
    BY <1>18, WhichScreen DEF Reset
  <2>2. Cleared(screen.filters) \in Filters
    BY <2>1 DEF SearchScreens, Filters, Cleared
  <2> QED BY <1>1, <1>18, <2>1, <2>2, SearchTyped DEF Reset, BrowseTypeOK
<1> QED BY <1>3, <1>4, <1>5, <1>6, <1>7, <1>8, <1>9, <1>10, <1>11, <1>12, <1>13, <1>14,
           <1>15, <1>16, <1>17, <1>18 DEF BrowseNext
-----------------------------------------------------------------------------
(* The owner's dashboard, and the trips on the renter's.                   *)

\* The renter's rows of the catalogue.
LEMMA TheTrips ==
    /\ DOMAIN RENTER_BOOKINGS = 1 .. 7
    /\ \A i \in 1 .. 7 :
          LET row == RENTER_BOOKINGS[i]
          IN  /\ row.status \in {"upcoming", "ongoing", "past"}
              /\ row.start \in Int /\ row.nights \in Nat /\ row.nights >= 1
              /\ row.rated \in Int /\ 0 <= row.rated /\ row.rated <= 5
<1>1. DOMAIN RENTER_BOOKINGS = 1 .. 7
  BY DEF RENTER_BOOKINGS
<1>2. ASSUME NEW i \in 1 .. 7
      PROVE  /\ RENTER_BOOKINGS[i].status \in {"upcoming", "ongoing", "past"}
             /\ RENTER_BOOKINGS[i].start \in Int /\ RENTER_BOOKINGS[i].nights \in Nat
             /\ RENTER_BOOKINGS[i].nights >= 1
             /\ RENTER_BOOKINGS[i].rated \in Int
             /\ 0 <= RENTER_BOOKINGS[i].rated /\ RENTER_BOOKINGS[i].rated <= 5
  BY DEF RENTER_BOOKINGS, RenterRow
<1> QED BY <1>1, <1>2

LEMMA DashInitTyped == DashInit => DashTypeOK
<1> SUFFICES ASSUME DashInit PROVE DashTypeOK
  OBVIOUS
<1>1. statuses \in [OWNER_VEHICLE_IDS -> Statuses]
  BY DEF DashInit, INITIAL_STATUS, Statuses
<1>2. ASSUME NEW id \in TripIds
      PROVE  RENTER_BOOKINGS[CHOOSE i \in DOMAIN RENTER_BOOKINGS :
                                RENTER_BOOKINGS[i].id = id].rated \in 0 .. 5
  <2> DEFINE k == CHOOSE i \in DOMAIN RENTER_BOOKINGS : RENTER_BOOKINGS[i].id = id
  <2>1. k \in DOMAIN RENTER_BOOKINGS
    <3>1. \E i \in DOMAIN RENTER_BOOKINGS : RENTER_BOOKINGS[i].id = id
      BY DEF TripIds
    <3> QED BY <3>1
  <2> HIDE DEF k
  <2>2. RENTER_BOOKINGS[k].rated \in Int /\ 0 <= RENTER_BOOKINGS[k].rated
        /\ RENTER_BOOKINGS[k].rated <= 5
    BY <2>1, TheTrips
  <2>3. RENTER_BOOKINGS[k].rated \in 0 .. 5
    BY <2>2
  <2> QED BY <2>3 DEF k
<1>3. ratings \in [TripIds -> 0 .. 5]
  BY <1>2 DEF DashInit
<1> QED BY <1>1, <1>3 DEF DashTypeOK

LEMMA DashStep == DashTypeOK /\ DashNext => DashTypeOK'
<1> SUFFICES ASSUME DashTypeOK, DashNext PROVE DashTypeOK'
  OBVIOUS
<1>1. ASSUME NEW v \in OWNER_VEHICLE_IDS, NEW s \in Statuses, SetStatus(v, s)
      PROVE  DashTypeOK'
  BY <1>1 DEF SetStatus, DashTypeOK
<1>2. ASSUME NEW trip \in TripIds, NEW stars \in Stars, Rate(trip, stars)
      PROVE  DashTypeOK'
  <2>1. stars \in 0 .. 5
    BY DashAssumption
  <2> QED BY <1>2, <2>1 DEF Rate, DashTypeOK
<1> QED BY <1>1, <1>2 DEF DashNext

\* Two kinds without a common member.
LEMMA DisjointCounts ==
    ASSUME NEW S, IsFiniteSet(S), NEW A \in SUBSET S, NEW B \in SUBSET S, A \cap B = {}
    PROVE  /\ Cardinality(A) \in Nat /\ Cardinality(B) \in Nat /\ Cardinality(S) \in Nat
           /\ Cardinality(A \cup B) = Cardinality(A) + Cardinality(B)
<1>1. IsFiniteSet(A) /\ IsFiniteSet(B)
  BY FS_Subset
<1>2. /\ Cardinality(A) \in Nat /\ Cardinality(B) \in Nat /\ Cardinality(S) \in Nat
  BY <1>1, FS_CardinalityType
<1>3. Cardinality(A \cup B) = Cardinality(A) + Cardinality(B) - 0
  BY <1>1, FS_Union, FS_EmptySet
<1> QED BY <1>2, <1>3

\* The listings that earn, whatever the status of the vehicles.
LEMMA OwnerCountsHold ==
    ASSUME DashTypeOK
    PROVE  OwnerCounts
<1> DEFINE S == OWNER_VEHICLE_IDS
           A == {v \in S : statuses[v] # "maintenance"}
           B == {v \in S : statuses[v] = "maintenance"}
           C == {v \in S : ListingRow(v).lit = {"maintenance"}}
<1>1. IsFiniteSet(S)
  <2>1. S = ((({} \cup {"v1"}) \cup {"v5"}) \cup {"v8"}) \cup {"v10"}
    BY DEF OWNER_VEHICLE_IDS
  <2> QED BY <2>1, FS_EmptySet, FS_AddElement
<1>2. ASSUME NEW v \in S
      PROVE  ListingRow(v).lit = {"maintenance"} <=> statuses[v] = "maintenance"
  <2>1. statuses[v] \in Statuses
    BY DEF DashTypeOK
  <2>2. ListingRow(v).lit = {s \in Statuses : statuses[v] = s}
    BY DEF ListingRow
  <2> QED BY <2>1, <2>2
<1>3. C = B
  <2> HIDE DEF S
  <2> QED BY <1>2
<1>4. A \in SUBSET S /\ B \in SUBSET S /\ A \cap B = {} /\ A \cup B = S
  OBVIOUS
<1>5. OwnerStats.earning = Cardinality(A) /\ OwnerStats.listings = Cardinality(S)
  BY DEF OwnerStats, ActiveListings
<1> HIDE DEF S, A, B, C
<1>6. Cardinality(A \cup B) = Cardinality(A) + Cardinality(B)
  BY <1>1, <1>4, DisjointCounts
<1>7. OwnerStats.earning + Cardinality(C) = OwnerStats.listings
  BY <1>3, <1>4, <1>5, <1>6
<1> QED BY <1>7 DEF OwnerCounts, C, S

\* One list after the other.
LEMMA Joined ==
    ASSUME NEW W, NEW F \in Seq(W), NEW G \in Seq(W)
    PROVE  /\ DOMAIN (F \o G) = 1 .. Len(F) + Len(G) /\ Len(F \o G) = Len(F) + Len(G)
           /\ \A i \in 1 .. Len(F) : (F \o G)[i] = F[i]
           /\ \A i \in Len(F) + 1 .. Len(F) + Len(G) :
                 i - Len(F) \in 1 .. Len(G) /\ (F \o G)[i] = G[i - Len(F)]
<1>1. F \o G \in Seq(W) /\ Len(F \o G) = Len(F) + Len(G)
  OBVIOUS
<1>2. DOMAIN (F \o G) = 1 .. Len(F) + Len(G)
  BY <1>1
<1>3. ASSUME NEW i \in 1 .. Len(F) PROVE (F \o G)[i] = F[i]
  OBVIOUS
<1>4. ASSUME NEW i \in Len(F) + 1 .. Len(F) + Len(G)
      PROVE  i - Len(F) \in 1 .. Len(G) /\ (F \o G)[i] = G[i - Len(F)]
  <2>1. i - Len(F) \in 1 .. Len(G)
    OBVIOUS
  <2> QED BY <2>1
<1> QED BY <1>1, <1>2, <1>3, <1>4

\* The trips on the renter's screen: the bookings of this page, then the catalogue's.
LEMMA TripsAre ==
    ASSUME NEW bookings, NEW n \in Nat, DOMAIN bookings = 1 .. n, NEW day \in Int
    PROVE  LET trips == AllTrips(bookings, day)
           IN  /\ DOMAIN trips = 1 .. n + 7 /\ Len(trips) = n + 7
               /\ \A i \in 1 .. n : trips[i] = HydrateMade(bookings[i])
               /\ \A i \in n + 1 .. n + 7 :
                     /\ i - n \in 1 .. 7
                     /\ trips[i] = HydrateSeed(RENTER_BOOKINGS[i - n], day)
<1> DEFINE F == [i \in 1 .. n |-> HydrateMade(bookings[i])]
           G == [i \in 1 .. 7 |-> HydrateSeed(RENTER_BOOKINGS[i], day)]
           W == {F[i] : i \in 1 .. n} \cup {G[i] : i \in 1 .. 7}
           trips == F \o G
<1>1. AllTrips(bookings, day) = trips
  BY TheTrips DEF AllTrips
<1>2. F \in Seq(W) /\ Len(F) = n
  OBVIOUS
<1>3. G \in Seq(W) /\ Len(G) = 7
  OBVIOUS
<1>4. /\ \A i \in 1 .. n : F[i] = HydrateMade(bookings[i])
      /\ \A i \in 1 .. 7 : G[i] = HydrateSeed(RENTER_BOOKINGS[i], day)
  OBVIOUS
<1> HIDE DEF F, G, W
<1>5. /\ DOMAIN trips = 1 .. n + 7 /\ Len(trips) = n + 7
      /\ \A i \in 1 .. n : trips[i] = F[i]
      /\ \A i \in n + 1 .. n + 7 : i - n \in 1 .. 7 /\ trips[i] = G[i - n]
  <2> HIDE DEF trips
  <2>1. /\ DOMAIN (F \o G) = 1 .. Len(F) + Len(G) /\ Len(F \o G) = Len(F) + Len(G)
        /\ \A i \in 1 .. Len(F) : (F \o G)[i] = F[i]
        /\ \A i \in Len(F) + 1 .. Len(F) + Len(G) :
              i - Len(F) \in 1 .. Len(G) /\ (F \o G)[i] = G[i - Len(F)]
    BY ONLY <1>2, <1>3, Joined
  <2> QED BY <1>2, <1>3, <2>1, Zenon DEF trips
<1> QED BY <1>1, <1>4, <1>5

\* What a row of the renter's lists keeps to.
TripSound(t) ==
    /\ t.status \in {"upcoming", "ongoing", "past"}
    /\ t.start \in Int /\ t.end \in Int /\ t.end - t.start \in Int
    /\ t.nights = IF t.end - t.start < 1 THEN 1 ELSE t.end - t.start
    /\ t.status = "past" => t.id \in TripIds

\* A booking made on this page becomes a row that is sound, and so does a row of the file.
LEMMA MadeSound ==
    ASSUME NEW b \in MadeBooking, SoundDraft(b.draft)
    PROVE  /\ TripSound(HydrateMade(b))
           /\ HydrateMade(b).fresh = TRUE /\ HydrateMade(b).status = "upcoming"
<1> DEFINE d == b.draft
           t == HydrateMade(b)
<1>1. d.start \in Nat /\ d.end \in Nat /\ d.end # NoDate
      /\ d.nights = Nights(d.start, d.end)
  BY FlowAssumption DEF MadeBooking, Draft, SoundDraft
<1>2. /\ t.start = d.start /\ t.end = d.end /\ t.nights = d.nights
      /\ t.status = "upcoming" /\ t.fresh = TRUE
  BY DEF HydrateMade
<1> HIDE DEF d, t
<1>3. TripSound(t)
  <2>1. t.nights = IF t.end - t.start < 1 THEN 1 ELSE t.end - t.start
    BY <1>1, <1>2 DEF Nights
  <2>2. t.start \in Int /\ t.end \in Int /\ t.end - t.start \in Int
    BY <1>1, <1>2
  <2> QED BY <1>2, <2>1, <2>2 DEF TripSound
<1> QED BY <1>2, <1>3 DEF t

LEMMA SeedSound ==
    ASSUME NEW i \in 1 .. 7, NEW asOf \in Int
    PROVE  /\ TripSound(HydrateSeed(RENTER_BOOKINGS[i], asOf))
           /\ HydrateSeed(RENTER_BOOKINGS[i], asOf).fresh = FALSE
<1> DEFINE row == RENTER_BOOKINGS[i]
           t == HydrateSeed(row, asOf)
<1>1. /\ row.status \in {"upcoming", "ongoing", "past"}
      /\ row.start \in Int /\ row.nights \in Nat /\ row.nights >= 1
      /\ row.id \in TripIds
  BY TheTrips DEF TripIds
<1>2. /\ t.start = asOf + row.start /\ t.end = asOf + row.start + row.nights
      /\ t.nights = row.nights /\ t.status = row.status /\ t.id = row.id /\ t.fresh = FALSE
  BY DEF HydrateSeed
<1> HIDE DEF row, t
<1>3. t.end - t.start = row.nights /\ ~(row.nights < 1)
      /\ t.start \in Int /\ t.end \in Int
  BY <1>1, <1>2
<1>4. TripSound(t)
  <2>1. t.nights = IF t.end - t.start < 1 THEN 1 ELSE t.end - t.start
    BY <1>1, <1>2, <1>3
  <2> QED BY <1>1, <1>2, <1>3, <2>1 DEF TripSound
<1> QED BY <1>2, <1>4 DEF t, row

\* The renter's trips: the bookings made, marked as fresh, and the seven of the file.
LEMMA TripsAreSound ==
    ASSUME NEW bookings \in Seq(MadeBooking),
           \A i \in 1 .. Len(bookings) : SoundDraft(bookings[i].draft), NEW asOf \in Int
    PROVE  LET trips == AllTrips(bookings, asOf)
               n == Len(bookings)
           IN  /\ n \in Nat /\ DOMAIN trips = 1 .. n + 7 /\ Len(trips) = n + 7
               /\ \A i \in 1 .. n + 7 : TripSound(trips[i])
               /\ \A i \in 1 .. n : trips[i].fresh = TRUE /\ trips[i].status = "upcoming"
               /\ \A i \in (1 .. n + 7) \ (1 .. n) : trips[i].fresh = FALSE
<1> DEFINE trips == AllTrips(bookings, asOf)
           n == Len(bookings)
<1>1. n \in Nat /\ DOMAIN bookings = 1 .. n
  OBVIOUS
<1>2. /\ DOMAIN trips = 1 .. n + 7 /\ Len(trips) = n + 7
      /\ \A i \in 1 .. n : trips[i] = HydrateMade(bookings[i])
      /\ \A i \in n + 1 .. n + 7 : /\ i - n \in 1 .. 7
                                   /\ trips[i] = HydrateSeed(RENTER_BOOKINGS[i - n], asOf)
  BY <1>1, TripsAre
<1>3. ASSUME NEW i \in 1 .. n
      PROVE  /\ TripSound(trips[i])
             /\ trips[i].fresh = TRUE /\ trips[i].status = "upcoming"
  <2>1. bookings[i] \in MadeBooking /\ SoundDraft(bookings[i].draft)
    BY <1>1
  <2>2. trips[i] = HydrateMade(bookings[i])
    BY <1>2
  <2> HIDE DEF trips
  <2> QED BY <2>1, <2>2, MadeSound
<1>4. ASSUME NEW i \in (1 .. n + 7) \ (1 .. n)
      PROVE  TripSound(trips[i]) /\ trips[i].fresh = FALSE
  <2>1. i \in n + 1 .. n + 7
    BY <1>1
  <2>2. i - n \in 1 .. 7 /\ trips[i] = HydrateSeed(RENTER_BOOKINGS[i - n], asOf)
    BY <1>2, <2>1
  <2> HIDE DEF trips
  <2>3. /\ TripSound(HydrateSeed(RENTER_BOOKINGS[i - n], asOf))
        /\ HydrateSeed(RENTER_BOOKINGS[i - n], asOf).fresh = FALSE
    BY <2>2, SeedSound
  <2> QED BY <2>2, <2>3
<1> HIDE DEF trips
<1>5. \A i \in 1 .. n + 7 : TripSound(trips[i])
  BY <1>3, <1>4
<1> QED BY <1>1, <1>2, <1>3, <1>4, <1>5 DEF trips

\* The three lists share out the trips.
LEMMA EveryTripIsOnOneList ==
    ASSUME NEW trips, NEW m \in Nat, DOMAIN trips = 1 .. m,
           \A i \in 1 .. m : TripSound(trips[i])
    PROVE  /\ \A s : IsFiniteSet(OfStatus(trips, s)) /\ OfStatus(trips, s) \subseteq Int
           /\ \A s : Cardinality(OfStatus(trips, s)) \in Nat
           /\ Cardinality(OfStatus(trips, "upcoming")) + Cardinality(OfStatus(trips, "past"))
                 + Cardinality(OfStatus(trips, "ongoing")) = m
<1> DEFINE S == 1 .. m
           U == OfStatus(trips, "upcoming")
           P == OfStatus(trips, "past")
           O == OfStatus(trips, "ongoing")
<1>1. IsFiniteSet(S) /\ Cardinality(S) = m /\ S \subseteq Int
  BY FS_Interval
<1>2. ASSUME NEW s
      PROVE  /\ IsFiniteSet(OfStatus(trips, s)) /\ OfStatus(trips, s) \subseteq Int
             /\ Cardinality(OfStatus(trips, s)) \in Nat
             /\ OfStatus(trips, s) \in SUBSET S
  <2>1. OfStatus(trips, s) \in SUBSET S
    BY DEF OfStatus
  <2> HIDE DEF S
  <2> QED BY <1>1, <2>1, FS_Subset, FS_CardinalityType
<1>3. /\ U \in SUBSET S /\ P \in SUBSET S /\ O \in SUBSET S
  BY <1>2
<1>4. U \cap P = {} /\ (U \cup P) \cap O = {} /\ (U \cup P) \cup O = S
  BY DEF OfStatus, TripSound
<1>5. /\ IsFiniteSet(U) /\ IsFiniteSet(P) /\ IsFiniteSet(O)
      /\ Cardinality(U) \in Nat /\ Cardinality(P) \in Nat /\ Cardinality(O) \in Nat
  BY <1>2
<1> HIDE DEF S, U, P, O
<1>6. /\ IsFiniteSet(U \cup P)
      /\ Cardinality(U \cup P) = Cardinality(U) + Cardinality(P) - Cardinality(U \cap P)
  BY ONLY <1>5, FS_Union
<1>7. Cardinality((U \cup P) \cup O)
         = Cardinality(U \cup P) + Cardinality(O) - Cardinality((U \cup P) \cap O)
  BY ONLY <1>5, <1>6, FS_Union
<1>8. Cardinality(U \cap P) = 0
  <2>1. U \cap P = {}
    BY <1>4
  <2> QED BY ONLY <2>1, FS_EmptySet
<1>9. Cardinality((U \cup P) \cap O) = 0
  <2>1. (U \cup P) \cap O = {}
    BY <1>4
  <2> QED BY ONLY <2>1, FS_EmptySet
<1>10. Cardinality((U \cup P) \cup O) = m
  <2>1. (U \cup P) \cup O = S
    BY <1>4
  <2> QED BY ONLY <1>1, <2>1
<1>11. Cardinality(U) + Cardinality(P) + Cardinality(O) = m
  BY ONLY <1>5, <1>6, <1>7, <1>8, <1>9, <1>10
<1> QED BY <1>2, <1>11 DEF U, P, O

\* The lists of the renter's screen, over trips that are sound.
LEMMA TripListsAre ==
    ASSUME NEW trips, NEW m \in Nat, DOMAIN trips = 1 .. m,
           \A i \in 1 .. m : TripSound(trips[i])
    PROVE  /\ \A s : IsListOf(WithStatus(trips, s), trips, OfStatus(trips, s),
                              [i \in OfStatus(trips, s) |-> 0])
           /\ IsListOf(Upcoming(trips), trips, OfStatus(trips, "upcoming"),
                       [i \in OfStatus(trips, "upcoming") |-> trips[i].start])
<1>1. ASSUME NEW s
      PROVE  IsListOf(WithStatus(trips, s), trips, OfStatus(trips, s),
                      [i \in OfStatus(trips, s) |-> 0])
  <2>1. IsFiniteSet(OfStatus(trips, s)) /\ OfStatus(trips, s) \subseteq Int
    BY EveryTripIsOnOneList
  <2> QED BY <2>1, FilteredIs DEF WithStatus
<1>2. IsListOf(Upcoming(trips), trips, OfStatus(trips, "upcoming"),
               [i \in OfStatus(trips, "upcoming") |-> trips[i].start])
  <2> DEFINE U == OfStatus(trips, "upcoming")
             key == [i \in U |-> trips[i].start]
  <2>1. IsFiniteSet(U) /\ U \subseteq Int
    BY EveryTripIsOnOneList
  <2>2. \A i \in U : key[i] \in Int
    BY DEF OfStatus, TripSound
  <2>3. Upcoming(trips) = Arranged(trips, U, key)
    BY DEF Upcoming
  <2> HIDE DEF U, key
  <2>4. IsListOf(Arranged(trips, U, key), trips, U, key)
    BY ONLY <2>1, <2>2, ListedIs
  <2> QED BY <2>3, <2>4 DEF U, key
<1> QED BY <1>1, <1>2

\* The tiles over the renter's lists.
LEMMA RenterCountsHold ==
    ASSUME DashTypeOK, NEW bookings \in Seq(MadeBooking),
           \A i \in 1 .. Len(bookings) : SoundDraft(bookings[i].draft),
           NEW asOf \in Int, NEW day \in Int
    PROVE  RenterCounts(bookings, asOf, day)
<1> DEFINE trips == AllTrips(bookings, asOf)
           n == Len(bookings)
           m == n + 7
           stats == RenterStats(trips)
           next == Upcoming(trips)
           past == WithStatus(trips, "past")
           table == [i \in DOMAIN trips |-> HistoryRow(trips[i])]
           ongoing == WithStatus(trips, "ongoing")
           U == OfStatus(trips, "upcoming")
           P == OfStatus(trips, "past")
           O == OfStatus(trips, "ongoing")
           start == [i \in U |-> trips[i].start]
<1>1. n \in Nat /\ m \in Nat
  OBVIOUS
<1>2. /\ DOMAIN trips = 1 .. m /\ Len(trips) = m
      /\ \A i \in 1 .. m : TripSound(trips[i])
      /\ \A i \in 1 .. n : trips[i].fresh = TRUE /\ trips[i].status = "upcoming"
      /\ \A i \in (1 .. m) \ (1 .. n) : trips[i].fresh = FALSE
  <2> HIDE DEF trips
  <2> QED BY TripsAreSound DEF trips
<1> HIDE DEF trips, m
<1>3. /\ IsListOf(next, trips, U, start)
      /\ IsListOf(past, trips, P, [i \in P |-> 0])
      /\ IsListOf(ongoing, trips, O, [i \in O |-> 0])
  BY <1>1, <1>2, TripListsAre
<1>4. /\ Cardinality(U) \in Nat /\ Cardinality(P) \in Nat /\ Cardinality(O) \in Nat
      /\ Cardinality(U) + Cardinality(P) + Cardinality(O) = m
  BY <1>1, <1>2, EveryTripIsOnOneList
<1>5. Len(table) = stats.upcoming + stats.taken
  <2>1. stats.upcoming = Len(next) /\ stats.taken = Len(past) + Len(ongoing)
    BY DEF RenterStats
  <2> HIDE DEF next, past, ongoing, U, P, O, stats, start
  <2>2. Len(next) = Cardinality(U) /\ Len(past) = Cardinality(P)
        /\ Len(ongoing) = Cardinality(O)
    BY <1>3, OnTheList
  <2>3. Len(table) = m
    <3>1. table = [i \in 1 .. m |-> HistoryRow(trips[i])]
      BY <1>2
    <3> QED BY <1>1, <3>1
  <2> HIDE DEF table
  <2> QED BY <1>4, <2>1, <2>2, <2>3
<1>6. stats.spent = SumPaise([i \in DOMAIN table |-> table[i].paid])
  <2>1. stats.spent = SumPaise([i \in DOMAIN trips |-> trips[i].amount])
    BY DEF RenterStats, Spent
  <2>2. [i \in DOMAIN table |-> table[i].paid] = [i \in DOMAIN trips |-> trips[i].amount]
    BY DEF HistoryRow
  <2> HIDE DEF stats, table
  <2> QED BY <2>1, <2>2
<1>7. stats.unrated = Cardinality({i \in DOMAIN past : ~PastRow(past[i]).badge})
  <2>1. stats.unrated = Cardinality({i \in DOMAIN past : ratings[past[i].id] = 0})
    BY DEF RenterStats, Unrated
  <2>2. ASSUME NEW i \in DOMAIN past
        PROVE  ratings[past[i].id] = 0 <=> ~PastRow(past[i]).badge
    <3>1. PICK j \in P : past[i] = trips[j]
      <4> HIDE DEF past, P
      <4> QED BY <1>3, OnTheList
    <3>2. TripSound(trips[j]) /\ trips[j].status = "past"
      BY <1>2 DEF OfStatus
    <3>3. ratings[past[i].id] \in 0 .. 5
      BY <3>1, <3>2 DEF TripSound, DashTypeOK
    <3>4. ratings[past[i].id] = 0 <=> ~(ratings[past[i].id] > 0)
      <4> HIDE DEF past
      <4> QED BY <3>3
    <3> HIDE DEF past
    <3> QED BY <3>4 DEF PastRow
  <2> HIDE DEF past, stats
  <2> QED BY <2>1, <2>2
<1>8. ASSUME NEW i \in DOMAIN next, NEW j \in DOMAIN next, i < j
      PROVE  UpcomingRow(next[i], day).pickup <= UpcomingRow(next[j], day).pickup
  <2>1. PICK a \in U, b \in U :
           next[i] = trips[a] /\ next[j] = trips[b] /\ start[a] <= start[b]
    <3> HIDE DEF next, U, start
    <3> QED BY <1>3, <1>8, InOrder
  <2>2. a \in 1 .. m /\ b \in 1 .. m
    BY <1>2 DEF OfStatus
  <2>3. trips[a].start \in Int /\ trips[b].start \in Int
    BY <1>2, <2>2 DEF TripSound
  <2>4. trips[a].start <= trips[b].start
    BY <2>1
  <2>5. \A t : UpcomingRow(t, day).pickup = t.start - day
    BY DEF UpcomingRow, RelativeDay
  <2> HIDE DEF next
  <2> QED BY <2>1, <2>3, <2>4, <2>5
<1>9. Cardinality({i \in DOMAIN next : UpcomingRow(next[i], day).justBooked}) = Len(bookings)
  <2> DEFINE S == {t \in {trips[j] : j \in U} : t.fresh = TRUE}
  <2>1. \A i \in DOMAIN next : \E j \in U : next[i] = trips[j]
    <3> HIDE DEF next, U
    <3> QED BY <1>3, OnTheList
  <2>2. ASSUME NEW i \in DOMAIN next
        PROVE  UpcomingRow(next[i], day).justBooked <=> next[i] \in S
    <3>1. PICK j \in U : next[i] = trips[j]
      BY <2>1
    <3>2. j \in 1 .. m
      BY <1>2 DEF OfStatus
    <3>3. trips[j].fresh = TRUE \/ trips[j].fresh = FALSE
      BY <1>2, <3>2
    <3>4. UpcomingRow(next[i], day).justBooked = next[i].fresh
      BY DEF UpcomingRow
    <3> HIDE DEF next, U
    <3>5. next[i] \in S <=> trips[j].fresh = TRUE
      BY <3>1
    <3> HIDE DEF S
    <3>6. CASE trips[j].fresh = TRUE  BY <3>1, <3>4, <3>5, <3>6
    <3>7. CASE trips[j].fresh = FALSE  BY <3>1, <3>4, <3>5, <3>7
    <3> QED BY <3>3, <3>6, <3>7
  <2>3. {i \in DOMAIN next : UpcomingRow(next[i], day).justBooked}
           = {i \in DOMAIN next : next[i] \in S}
    <3> HIDE DEF next, S
    <3> QED BY <2>2
  <2>4. {i \in U : trips[i] \in S} = 1 .. n
    <3>1. \A j \in U : trips[j] \in S <=> trips[j].fresh = TRUE
      <4> HIDE DEF U
      <4> QED OBVIOUS
    <3>2. \A j \in U : j \in 1 .. m
      BY <1>2 DEF OfStatus
    <3>3. \A j \in U : trips[j].fresh = TRUE => j \in 1 .. n
      BY <1>2, <3>2
    <3>4. \A j \in 1 .. n : j \in U /\ trips[j].fresh = TRUE
      <4>1. \A j \in 1 .. n : j \in 1 .. m
        BY <1>1 DEF m
      <4>2. U = {j \in 1 .. m : trips[j].status = "upcoming"}
        BY <1>2 DEF OfStatus
      <4>3. \A j \in 1 .. n : trips[j].fresh = TRUE /\ trips[j].status = "upcoming"
        BY <1>2
      <4> HIDE DEF U, n
      <4> QED BY ONLY <4>1, <4>2, <4>3
    <3> HIDE DEF U, S, n
    <3> QED BY <3>1, <3>3, <3>4
  <2>5. Cardinality({i \in DOMAIN next : next[i] \in S})
           = Cardinality({i \in U : trips[i] \in S})
    <3> HIDE DEF next, S, U, start
    <3>1. IsListOf(next, trips, U, start)
      BY <1>3
    <3>2. HowMany(next, DOMAIN next, S) = HowMany(trips, U, S)
      BY ONLY <3>1, CountOnTheList
    <3> QED BY ONLY <3>2 DEF HowMany
  <2>6. Cardinality(1 .. n) = n
    <3> HIDE DEF n
    <3> QED BY <1>1, FS_Interval
  <2> HIDE DEF next, U, S
  <2> QED BY <2>3, <2>4, <2>5, <2>6
<1>10. \A row \in ToSet(table) : row.days = Max({1, row.to - row.from})
  <2> SUFFICES ASSUME NEW i \in DOMAIN table
               PROVE  table[i].days = Max({1, table[i].to - table[i].from})
    <3> HIDE DEF table
    <3> QED BY DEF ToSet
  <2> DEFINE t == trips[i]
             x == t.end - t.start
  <2>1. i \in 1 .. m
    BY <1>2
  <2>2. x \in Int /\ t.nights = IF x < 1 THEN 1 ELSE x
    BY <1>2, <2>1 DEF TripSound
  <2>3. table[i].days = t.nights /\ table[i].to = t.end /\ table[i].from = t.start
    BY DEF HistoryRow
  <2> HIDE DEF t, x, table
  <2>4. Max({1, x}) = IF x < 1 THEN 1 ELSE x
    <3> DEFINE M == IF x < 1 THEN 1 ELSE x
    <3>1. M \in {1, x} /\ \A y \in {1, x} : M >= y
      BY <2>2
    <3>2. \A z \in {1, x} : (\A y \in {1, x} : z >= y) => z = M
      BY <2>2
    <3> HIDE DEF M
    <3>3. Max({1, x}) = M
      BY <3>1, <3>2 DEF Max
    <3> QED BY <3>3 DEF M
  <2> QED BY <2>2, <2>3, <2>4 DEF x
<1> HIDE DEF table, stats, next, past
<1> QED BY <1>5, <1>6, <1>7, <1>8, <1>9, <1>10
        DEF RenterCounts, table, stats, next, past, trips
-----------------------------------------------------------------------------
(* All screens of a session.                                               *)

\* The lines of the booking panel.
LEMMA PanelAddsUp ==
    ASSUME ScreenInv, page.at \in {"detail", "dates"}
    PROVE  SumPaise(Panel.lines) = Panel.total
<1> DEFINE rate == daily[page.vehicle]
           nights == Nights(page.start, page.end)
           n == IF nights < 1 THEN 1 ELSE nights
           ahead == IF page.start < page.asOf THEN 0 ELSE page.start - page.asOf
           mult == DemandForRange(page.start, n)
           percent == AdvanceDiscount(ahead)
<1>1. rate \in Nat /\ page.start \in Nat /\ page.end \in Nat \cup {NoDate}
  BY FlowAssumption DEF ScreenInv, ScreenSound, Page
<1>2. nights \in Nat
  BY <1>1, NightsType
<1>3. n \in Nat
  <2> HIDE DEF nights
  <2> QED BY <1>2
<1>4. mult \in Multipliers
  <2> HIDE DEF n
  <2>1. page.start \in Int /\ n \in Int
    BY <1>1, <1>3
  <2> QED BY <2>1, DemandType DEF Multipliers
<1>5. percent \in Percents
  BY DEF AdvanceDiscount, Percents
<1>6. PanelQuote = Charge(rate, n, mult, percent)
  BY DEF PanelQuote, Quote
<1>7. Panel.lines = Breakdown(PanelQuote) /\ Panel.total = PanelQuote.total
  BY DEF Panel
<1> HIDE DEF rate, n, mult, percent
<1>8. SumPaise(Breakdown(Charge(rate, n, mult, percent)))
         = Charge(rate, n, mult, percent).total
  BY <1>1, <1>3, <1>4, <1>5, LinesAddUp
<1> QED BY <1>6, <1>7, <1>8

\* The amount of the pass is that of the first row of the renter's table.
LEMMA PassIsOnTheTable ==
    ASSUME ScreenInv, LedgerInv, HasPass
    PROVE  \E i \in 1 .. Len(AllTrips(made, now)) :
              HistoryRow(AllTrips(made, now)[i]).paid = Pass.paid
<1>1. /\ Len(made) \in Nat /\ DOMAIN made = 1 .. Len(made) /\ 1 \in 1 .. Len(made)
      /\ Head(made) = made[1] /\ now \in Int
  BY FlowAssumption DEF LedgerInv, HasPass, ScreenInv
<1> DEFINE trips == AllTrips(made, now)
<1>2. /\ Len(trips) = Len(made) + 7
      /\ \A i \in 1 .. Len(made) : trips[i] = HydrateMade(made[i])
  BY <1>1, TripsAre
<1>3. HistoryRow(HydrateMade(made[1])).paid = Pass.paid
  BY <1>1 DEF HistoryRow, HydrateMade, Pass
<1> HIDE DEF trips
<1>4. 1 \in 1 .. Len(trips) /\ trips[1] = HydrateMade(made[1])
  BY <1>1, <1>2
<1>5. \E i \in 1 .. Len(trips) : HistoryRow(trips[i]).paid = Pass.paid
  BY <1>3, <1>4
<1> QED BY <1>5 DEF trips
-----------------------------------------------------------------------------
\* The inductive invariant of a session: that of the booking screens, and that the search
\* and the dashboards are in states they can be in.
WebIInv == IInv /\ BrowseTypeOK /\ DashTypeOK

\* Whatever kind a session is of, its booking screens take steps of BookingFlow only.
LEMMA WebStepIs ==
    ASSUME [WebNext]_webVars
    PROVE  /\ [Next]_vars
           /\ BrowseNext \/ UNCHANGED browseVars
           /\ DashNext \/ UNCHANGED dashVars
BY DEF WebNext, Looks, PaysTwice, Chooses, Browses, Manages, webVars

\* The invariant is inductive.
LEMMA WebStep == WebIInv /\ [WebNext]_webVars => WebIInv'
<1> SUFFICES ASSUME WebIInv, [WebNext]_webVars PROVE WebIInv'
  OBVIOUS
<1>1. /\ [Next]_vars
      /\ BrowseNext \/ UNCHANGED browseVars
      /\ DashNext \/ UNCHANGED dashVars
  BY WebStepIs
<1>2. IInv'
  BY <1>1, StepIInv DEF WebIInv
<1>3. BrowseTypeOK'
  <2>1. CASE BrowseNext
    BY <2>1, BrowseStep DEF WebIInv
  <2>2. CASE UNCHANGED browseVars
    BY <2>2 DEF WebIInv, browseVars, BrowseTypeOK
  <2> QED BY <1>1, <2>1, <2>2
<1>4. DashTypeOK'
  <2>1. CASE DashNext
    BY <2>1, DashStep DEF WebIInv
  <2>2. CASE UNCHANGED dashVars
    BY <2>2 DEF WebIInv, dashVars, DashTypeOK
  <2> QED BY <1>1, <2>1, <2>2
<1> QED BY <1>2, <1>3, <1>4 DEF WebIInv

\* What follows from it.
LEMMA CountsFollow == WebIInv => CountsMatchLists
<1> SUFFICES ASSUME WebIInv PROVE CountsMatchLists
  OBVIOUS
<1>1. /\ ScreenInv /\ LedgerInv /\ BrowseTypeOK /\ DashTypeOK
      /\ now \in Int /\ page.asOf \in Int
  BY FlowAssumption DEF WebIInv, IInv, ScreenInv, ScreenSound, Page
<1>2. screen.at = "search" => SearchCounts
  BY <1>1, WhichScreen, SearchCountsHold
<1>3. screen.at = "landing" => LandingCounts
  BY LandingCountsHold
<1>4. page.at \in {"detail", "dates"} => SumPaise(Panel.lines) = Panel.total
  BY <1>1, PanelAddsUp
<1>5. page.at = "confirm" /\ HasPass =>
         \E i \in 1 .. Len(AllTrips(made, now)) :
            HistoryRow(AllTrips(made, now)[i]).paid = Pass.paid
  BY <1>1, PassIsOnTheTable
<1>6. RenterCounts(made, page.asOf, now)
  <2>1. made \in Seq(MadeBooking) /\ \A i \in 1 .. Len(made) : SoundDraft(made[i].draft)
    BY <1>1 DEF LedgerInv
  <2> QED BY <1>1, <2>1, RenterCountsHold
<1>7. RenterCounts(<<>>, now, now)
  <2>1. <<>> \in Seq(MadeBooking) /\ 1 .. Len(<<>>) = {}
    OBVIOUS
  <2>2. \A i \in 1 .. Len(<<>>) : SoundDraft(<<>>[i].draft)
    BY <2>1
  <2> QED BY <1>1, <2>1, <2>2, RenterCountsHold
<1>8. OwnerCounts
  BY <1>1, OwnerCountsHold
<1> QED BY <1>1, <1>2, <1>3, <1>4, <1>5, <1>6, <1>7, <1>8 DEF CountsMatchLists

LEMMA WebSpecIInv == WebSpec => []WebIInv
<1>1. WebInit => WebIInv
  BY InitIInv, BrowseInitTyped, DashInitTyped DEF WebInit, WebIInv
<1> QED BY <1>1, WebStep, PTL DEF WebSpec

\* In every session, with any number of bookings, these numbers agree with their lists: on
\* the search screen the types', the one to clear and the map's, and as an upper bound
\* "Electric only" (Search.tsx, MapPanel.tsx); a tab's (Landing.tsx); the panel's total and
\* the amount of the pass (PriceBreakdown.tsx, BookingConfirm.tsx); the tiles of the renter
\* and the owner's earning listings (RenterDashboard.tsx, OwnerDashboard.tsx).  It says
\* nothing of the landing page's "Vehicles live" and of the words for a trip's day, which
\* are wrong, the latter after midnight (AnnouncedAmiss).
THEOREM CountsMatchListsHold == WebSpec => []CountsMatchLists
BY WebSpecIInv, CountsFollow, PTL

\* In a session of any kind, with any number of payments, a booking is what was shown at
\* its click on Pay, no window runs backwards, nobody pays more than the price of the day,
\* and no click in the calendar completes a window that crosses a day it shows as booked
\* (BookingPay.tsx, BookingDates.tsx, Calendar.tsx).  It does not say that no booked window
\* crosses such a day: the one a screen begins with and the one taken over by another
\* vehicle's screen are booked unchecked.
THEOREM SessionsAreSafe ==
    WebSpec => /\ [](TypeOK /\ PaidAsShown /\ WindowsAreSound /\ StaleQuoteIsNeverDearer)
               /\ PickedWindowsAreFree
<1> DEFINE A == CompletesPick => \A day \in page'.start .. page'.end :
                                   ~IsBooked(page.vehicle, day, page.seen)
<1>1. WebIInv => TypeOK /\ PaidAsShown /\ WindowsAreSound /\ StaleQuoteIsNeverDearer
  BY WhatFollows DEF WebIInv
<1>2. WebIInv /\ [WebNext]_webVars => [A]_vars
  <2> SUFFICES ASSUME WebIInv, [WebNext]_webVars PROVE [A]_vars
    OBVIOUS
  <2>1. IInv /\ [Next]_vars
    BY WebStepIs DEF WebIInv
  <2> QED BY <2>1, PickedWindowIsFree DEF CompletesPick
<1> QED BY <1>1, <1>2, WebSpecIInv, PTL DEF WebSpec, PickedWindowsAreFree, A

\* The sessions that are run are behaviours of the booking screens: each of their steps is
\* one of BookingFlow or leaves its state alone.
THEOREM SessionsAreOfTheScreens == WebSpec => Init /\ [][Next]_vars
<1>1. WebInit => Init
  BY DEF WebInit
<1>2. [WebNext]_webVars => [Next]_vars
  BY WebStepIs
<1> QED BY <1>1, <1>2, PTL DEF WebSpec
=============================================================================
