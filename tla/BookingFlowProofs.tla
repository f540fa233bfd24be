------------------------- MODULE BookingFlowProofs -------------------------
(***************************************************************************)
(* Prices, and what the booking screens show, pay and book, for any        *)
(* vehicles, rates, booked days and number of payments.                    *)
(*                                                                         *)
(* Prices.  The lines of the breakdown come to the total, no line that is  *)
(* left out has an amount, and who books earlier pays no more; the shares  *)
(* of an amount come to the amount.  Each rounding moves an amount by half *)
(* a paisa at most (RoundedBy10, RoundedBy100), so it keeps the order of   *)
(* two amounts; the total is then monotone in the discount, step by step.  *)
(* A sum is a fold: it is what the running sums end on (SumIs).            *)
(*                                                                         *)
(* Screens.  ScreenInv: what a screen was computed from is no later than   *)
(* the clock, and its window never runs backwards.  LedgerInv: the         *)
(* bookings and the payments under way are the clicks on "Pay", in order.  *)
(* That no quote is dearer than the day's then follows from prices alone:  *)
(* EarlierIsNotDearer, at every click and again at every midnight.         *)
(***************************************************************************)
EXTENDS BookingFlow, WellFoundedInduction, TLAPS

\* What rounding does to a tenth, and to a percentage.
LEMMA RoundedBy10 ==
    ASSUME NEW n \in Nat
    PROVE  /\ RoundHalfUp(n, 10) \in Nat
           /\ 10 * RoundHalfUp(n, 10) - 5 <= n
           /\ n <= 10 * RoundHalfUp(n, 10) + 4
<1>1. /\ n % 10 \in 0 .. 9 /\ n \div 10 \in Nat
      /\ n = 10 * (n \div 10) + (n % 10)
  OBVIOUS
<1> QED BY <1>1 DEF RoundHalfUp

LEMMA RoundedBy100 ==
    ASSUME NEW n \in Nat
    PROVE  /\ RoundHalfUp(n, 100) \in Nat
           /\ 100 * RoundHalfUp(n, 100) - 50 <= n
           /\ n <= 100 * RoundHalfUp(n, 100) + 49
<1>1. /\ n % 100 \in 0 .. 99 /\ n \div 100 \in Nat
      /\ n = 100 * (n \div 100) + (n % 100)
  OBVIOUS
<1> QED BY <1>1 DEF RoundHalfUp

LEMMA RoundedBy10000 ==
    ASSUME NEW n \in Nat
    PROVE  /\ RoundHalfUp(n, 10000) \in Nat
           /\ 10000 * RoundHalfUp(n, 10000) - 5000 <= n
<1>1. /\ n % 10000 \in 0 .. 9999 /\ n \div 10000 \in Nat
      /\ n = 10000 * (n \div 10000) + (n % 10000)
  OBVIOUS
<1> QED BY <1>1 DEF RoundHalfUp

\* Rounding to whole amounts is no rounding.
LEMMA BaseIsExact ==
    ASSUME NEW rate \in Nat, NEW n \in Nat
    PROVE  MulPaise(rate, n, 1) = rate * n /\ rate * n \in Nat
<1> DEFINE p == rate * n
<1>1. p \in Nat
  OBVIOUS
<1> HIDE DEF p
<1>2. p \div 1 = p /\ p % 1 = 0 /\ ~(p < 0)
  BY <1>1
<1>3. RoundHalfUp(p, 1) = p
  BY <1>1, <1>2 DEF RoundHalfUp
<1> QED BY <1>1, <1>3 DEF MulPaise, p

\* The multiplier is one of the four, whatever days the rental covers.
LEMMA DemandType ==
    ASSUME NEW start \in Int, NEW nights \in Int
    PROVE  DemandForRange(start, nights) \in 10 .. 13
<1> DEFINE last == IF nights < 1 THEN 0 ELSE nights - 1
           S == {DemandFor(start + i) : i \in 0 .. last}
<1>1. S \subseteq 10 .. 13
  BY DEF DemandFor
<1>2. S # {}
  <2>1. 0 \in 0 .. last
    OBVIOUS
  <2> QED BY <2>1
<1>3. \E x \in S : \A y \in S : x >= y
  <2> HIDE DEF S
  <2>1. CASE 13 \in S  BY <1>1, <2>1
  <2>2. CASE 13 \notin S /\ 12 \in S  BY <1>1, <2>2
  <2>3. CASE 13 \notin S /\ 12 \notin S /\ 11 \in S  BY <1>1, <2>3
  <2>4. CASE 13 \notin S /\ 12 \notin S /\ 11 \notin S
    <3>1. \A y \in S : y = 10
      BY <1>1, <2>4
    <3> QED BY <1>2, <3>1
  <2> QED BY <2>1, <2>2, <2>3, <2>4
<1>4. Max(S) \in S
  <2> HIDE DEF S
  <2> QED BY <1>3 DEF Max
<1>5. Max(S) \in 10 .. 13
  <2> HIDE DEF S
  <2> QED BY <1>1, <1>4
<1> QED BY <1>5 DEF DemandForRange
-----------------------------------------------------------------------------
(* What sumPaise, a fold, comes to.                                        *)

\* The total of a sequence, without a fold: the running sums, each the one before it
\* and one amount more, end at it.
ComesTo(amounts, total) ==
    \E sum \in [0 .. Len(amounts) -> Int] :
        /\ sum[0] = 0
        /\ \A i \in 1 .. Len(amounts) : sum[i] = sum[i - 1] + amounts[i]
        /\ sum[Len(amounts)] = total

\* Induction over the naturals, for a set.
LEMMA SetInduction ==
    ASSUME NEW S, 0 \in S, \A n \in Nat : n \in S => n + 1 \in S
    PROVE  Nat \subseteq S
<1> DEFINE T == Nat \ S
<1> SUFFICES ASSUME T # {} PROVE FALSE
  OBVIOUS
<1>1. PICK n \in T : \A m \in T : ~(<<m, n>> \in OpToRel(<, Nat))
  <2> HIDE DEF T
  <2>1. T \subseteq Nat
    BY DEF T
  <2> QED BY <2>1, NatLessThanWellFounded, WFMin
<1>2. n \in Nat /\ n # 0 /\ n - 1 \in Nat /\ n - 1 < n
  OBVIOUS
<1>3. n - 1 \notin T
  BY <1>1, <1>2 DEF OpToRel
<1> QED BY <1>2, <1>3

\* What the fold is defined by: the total of the amounts at a set of positions.
Table(h, a, n) ==
    h = [s \in SUBSET (1 .. n) |->
            IF s = {} THEN 0 ELSE h[s \ {Max(s)}] + a[Max(s)]]

LEMMA MaxOfSet ==
    ASSUME NEW n \in Nat, NEW s \in SUBSET (1 .. n), n \in s
    PROVE  Max(s) = n
<1>1. \A x \in s : n >= x /\ x \in Int
  OBVIOUS
<1>2. \A x \in s : (\A y \in s : x >= y) => x = n
  BY <1>1
<1> QED BY <1>1, <1>2 DEF Max

LEMMA TableExists ==
    ASSUME NEW n \in Nat, NEW a
    PROVE  \E h : Table(h, a, n)
<1> DEFINE P == {m \in Nat : \E h : Table(h, a, m)}
<1>1. 0 \in P
  <2> DEFINE h == [s \in SUBSET (1 .. 0) |-> 0]
  <2>1. SUBSET (1 .. 0) = {{}}
    OBVIOUS
  <2>2. Table(h, a, 0)
    BY <2>1 DEF Table
  <2> QED BY <2>2
<1>2. ASSUME NEW m \in Nat, m \in P PROVE m + 1 \in P
  <2>1. PICK h : Table(h, a, m)
    BY <1>2
  <2> DEFINE g == [s \in SUBSET (1 .. m + 1) |->
                      IF m + 1 \in s THEN h[s \ {m + 1}] + a[m + 1] ELSE h[s]]
  <2>2. ASSUME NEW s \in SUBSET (1 .. m + 1)
        PROVE  g[s] = IF s = {} THEN 0 ELSE g[s \ {Max(s)}] + a[Max(s)]
    <3>1. CASE m + 1 \in s
      <4>1. Max(s) = m + 1
        BY <3>1, MaxOfSet
      <4>2. g[s \ {m + 1}] = h[s \ {m + 1}]
        OBVIOUS
      <4> QED BY <3>1, <4>1, <4>2
    <3>2. CASE m + 1 \notin s
      <4>1. s \in SUBSET (1 .. m)
        BY <3>2
      <4>2. h[s] = IF s = {} THEN 0 ELSE h[s \ {Max(s)}] + a[Max(s)]
        BY <2>1, <4>1 DEF Table
      <4>3. m + 1 \notin s \ {Max(s)} /\ s \ {Max(s)} \in SUBSET (1 .. m + 1)
        BY <3>2
      <4>4. g[s] = h[s] /\ g[s \ {Max(s)}] = h[s \ {Max(s)}]
        BY <3>2, <4>3
      <4> HIDE DEF g
      <4> QED BY <4>2, <4>4
    <3> QED BY <3>1, <3>2
  <2>3. Table(g, a, m + 1)
    <3> DEFINE E(s) == IF s = {} THEN 0 ELSE g[s \ {Max(s)}] + a[Max(s)]
    <3>1. \A s \in SUBSET (1 .. m + 1) : g[s] = E(s)
      BY <2>2
    <3>2. g = [s \in SUBSET (1 .. m + 1) |-> g[s]]
      OBVIOUS
    <3> HIDE DEF g
    <3>3. g = [s \in SUBSET (1 .. m + 1) |-> E(s)]
      <4> HIDE DEF E
      <4> QED BY <3>1, <3>2
    <3> QED BY <3>3 DEF Table
  <2> QED BY <2>3
<1>3. Nat \subseteq P
  <2> HIDE DEF P
  <2> QED BY <1>1, <1>2, SetInduction
<1> QED BY <1>3

\* The fold of sumPaise is the last of the running sums.
LEMMA SumIs ==
    ASSUME NEW amounts, NEW total, NEW n \in Nat, DOMAIN amounts = 1 .. n, Len(amounts) = n,
           ComesTo(amounts, total)
    PROVE  SumPaise(amounts) = total
<1> DEFINE h == CHOOSE h : Table(h, amounts, n)
<1>1. SumPaise(amounts) = h[1 .. n]
  BY DEF SumPaise, FoldLeft, MapThenFoldSet, Table
<1>2. Table(h, amounts, n)
  BY TableExists
<1> HIDE DEF h
<1>3. PICK sum \in [0 .. n -> Int] :
         /\ sum[0] = 0
         /\ \A i \in 1 .. n : sum[i] = sum[i - 1] + amounts[i]
         /\ sum[n] = total
  BY DEF ComesTo
<1> DEFINE P == {k \in Nat : k <= n => h[1 .. k] = sum[k]}
<1>4. 0 \in P
  <2>1. 1 .. 0 = {} /\ {} \in SUBSET (1 .. n)
    OBVIOUS
  <2>2. h[{}] = 0
    BY <1>2, <2>1 DEF Table
  <2> QED BY <1>3, <2>1, <2>2
<1>5. ASSUME NEW k \in Nat, k \in P PROVE k + 1 \in P
  <2> SUFFICES ASSUME k + 1 <= n PROVE h[1 .. k + 1] = sum[k + 1]
    OBVIOUS
  <2> DEFINE s == 1 .. k + 1
  <2>1. s \in SUBSET (1 .. n) /\ s # {} /\ s \ {k + 1} = 1 .. k
    <3>1. k \in Nat /\ n \in Nat /\ k + 1 <= n
      OBVIOUS
    <3>2. k + 1 \in s /\ s \in SUBSET (1 .. n)
      BY ONLY <3>1 DEF s
    <3>3. s \ {k + 1} = 1 .. k
      BY ONLY <3>1 DEF s
    <3> QED BY <3>2, <3>3
  <2>2. Max(s) = k + 1
    BY MaxOfSet
  <2>3. h[s] = h[s \ {Max(s)}] + amounts[Max(s)]
    <3> HIDE DEF s
    <3> QED BY <1>2, <2>1 DEF Table
  <2>4. sum[k + 1] = sum[k] + amounts[k + 1] /\ h[1 .. k] = sum[k]
    <3>1. k + 1 \in 1 .. n /\ (k + 1) - 1 = k
      OBVIOUS
    <3> QED BY <1>3, <1>5, <3>1
  <2> HIDE DEF s
  <2> QED BY <2>1, <2>2, <2>3, <2>4 DEF s
<1>6. Nat \subseteq P
  <2> HIDE DEF P
  <2> QED BY <1>4, <1>5, SetInduction
<1> QED BY <1>1, <1>3, <1>6

LEMMA NothingComesToZero == ComesTo(<<>>, 0)
<1> DEFINE sum == [i \in 0 .. 0 |-> 0]
<1>1. Len(<<>>) = 0
  OBVIOUS
<1>2. sum \in [0 .. 0 -> Int] /\ sum[0] = 0
  OBVIOUS
<1> HIDE DEF sum
<1> QED BY <1>1, <1>2 DEF ComesTo

LEMMA OneMore ==
    ASSUME NEW amounts \in Seq(Int), NEW total \in Int, ComesTo(amounts, total),
           NEW x \in Int, NEW new \in Int, new = total + x
    PROVE  Append(amounts, x) \in Seq(Int) /\ ComesTo(Append(amounts, x), new)
<1> DEFINE n == Len(amounts)
           more == Append(amounts, x)
<1>1. PICK sum \in [0 .. n -> Int] :
         /\ sum[0] = 0
         /\ \A i \in 1 .. n : sum[i] = sum[i - 1] + amounts[i]
         /\ sum[n] = total
  BY DEF ComesTo
<1>2. /\ n \in Nat /\ more \in Seq(Int) /\ Len(more) = n + 1 /\ more[n + 1] = x
      /\ \A i \in 1 .. n : more[i] = amounts[i]
  OBVIOUS
<1> HIDE DEF n, more
<1> DEFINE longer == [i \in 0 .. n + 1 |-> IF i = n + 1 THEN new ELSE sum[i]]
<1>3. longer \in [0 .. n + 1 -> Int] /\ longer[0] = 0 /\ longer[n + 1] = new
  BY <1>1, <1>2
<1>4. ASSUME NEW i \in 1 .. n + 1 PROVE longer[i] = longer[i - 1] + more[i]
  <2>1. CASE i = n + 1
    BY <1>1, <1>2, <2>1
  <2>2. CASE i # n + 1
    <3>1. i \in 1 .. n /\ i - 1 \in 0 .. n /\ i \in 0 .. n
      BY <1>2, <2>2
    <3>2. longer[i] = sum[i] /\ longer[i - 1] = sum[i - 1]
      BY <1>2, <3>1
    <3> QED BY <1>1, <1>2, <3>1, <3>2
  <2> QED BY <2>1, <2>2
<1> HIDE DEF longer
<1> QED BY <1>2, <1>3, <1>4 DEF ComesTo, more
-----------------------------------------------------------------------------
(* One charge, its base already multiplied out.                            *)

Surge(base, mult) == MulPaise(base, mult - 10, 10)
Fare(base, mult) == base + Surge(base, mult)
Discount(fare, percent) == MulPaise(fare, percent, 100)
Fee(net) == LET share == MulPaise(net, PlatformFeePercent, 100)
            IN  IF share > PlatformFeeFloor THEN share ELSE PlatformFeeFloor
Gst(amount) == MulPaise(amount, GstPercent, 100)
Total(net) == net + Fee(net) + Gst(net + Fee(net))

Multipliers == 10 .. 13
Percents == {0, 5, 10, 15}

LEMMA FareType ==
    ASSUME NEW base \in Nat, NEW mult \in Multipliers
    PROVE  /\ Surge(base, mult) \in Nat /\ Fare(base, mult) \in Nat
           /\ 10 * Surge(base, mult) <= 3 * base + 5
<1>1. base * (mult - 10) \in Nat /\ base * (mult - 10) <= 3 * base
  <2>1. CASE mult = 10  BY <2>1
  <2>2. CASE mult = 11  BY <2>2
  <2>3. CASE mult = 12  BY <2>3
  <2>4. CASE mult = 13  BY <2>4
  <2> QED BY <2>1, <2>2, <2>3, <2>4 DEF Multipliers
<1> DEFINE m == base * (mult - 10)
<1>2. /\ RoundHalfUp(m, 10) \in Nat
      /\ 10 * RoundHalfUp(m, 10) - 5 <= m
  BY <1>1, RoundedBy10
<1> QED BY <1>1, <1>2 DEF Surge, Fare, MulPaise

LEMMA DiscountType ==
    ASSUME NEW fare \in Nat, NEW percent \in Percents
    PROVE  Discount(fare, percent) \in 0 .. fare
<1>1. fare * percent \in Nat /\ fare * percent <= 15 * fare
  <2>1. CASE percent = 0  BY <2>1
  <2>2. CASE percent = 5  BY <2>2
  <2>3. CASE percent = 10  BY <2>3
  <2>4. CASE percent = 15  BY <2>4
  <2> QED BY <2>1, <2>2, <2>3, <2>4 DEF Percents
<1> DEFINE m == fare * percent
           d == RoundHalfUp(m, 100)
<1>2. d \in Nat /\ 100 * d - 50 <= m
  BY <1>1, RoundedBy100
<1>3. d <= fare
  <2> HIDE DEF d
  <2> QED BY <1>1, <1>2
<1> QED BY <1>2, <1>3 DEF Discount, MulPaise

\* A larger percentage takes off no less.
LEMMA DiscountIsMonotone ==
    ASSUME NEW fare \in Nat, NEW p \in Percents, NEW q \in Percents, q <= p
    PROVE  Discount(fare, q) <= Discount(fare, p)
<1>1. fare * p \in Nat /\ fare * q \in Nat /\ fare * q <= fare * p
  <2>1. CASE p = 0  BY <2>1 DEF Percents
  <2>2. CASE p = 5  BY <2>2 DEF Percents
  <2>3. CASE p = 10  BY <2>3 DEF Percents
  <2>4. CASE p = 15  BY <2>4 DEF Percents
  <2> QED BY <2>1, <2>2, <2>3, <2>4 DEF Percents
<1> DEFINE m(x) == fare * x
           d(x) == RoundHalfUp(fare * x, 100)
<1>2. /\ d(p) \in Nat /\ m(p) <= 100 * d(p) + 49
      /\ d(q) \in Nat /\ 100 * d(q) - 50 <= m(q)
  BY <1>1, RoundedBy100
<1>3. m(q) \in Nat /\ m(p) \in Nat /\ m(q) <= m(p)
  BY <1>1
<1>4. d(q) <= d(p)
  <2> HIDE DEF m, d
  <2> QED BY <1>2, <1>3
<1> QED BY <1>4 DEF Discount, MulPaise

LEMMA FeeType ==
    ASSUME NEW net \in Nat
    PROVE  /\ Fee(net) \in Nat
           /\ 100 * Fee(net) <= 5 * net + 290000
<1>1. 5 * net \in Nat
  OBVIOUS
<1>2. /\ RoundHalfUp(net * 5, 100) \in Nat
      /\ 100 * RoundHalfUp(net * 5, 100) - 50 <= net * 5
  BY <1>1, RoundedBy100
<1> QED BY <1>2 DEF Fee, MulPaise, PlatformFeePercent, PlatformFeeFloor, ToPaise

LEMMA FeeIsMonotone ==
    ASSUME NEW a \in Nat, NEW b \in Nat, a <= b
    PROVE  Fee(a) <= Fee(b)
<1>1. a * 5 \in Nat /\ b * 5 \in Nat /\ a * 5 <= b * 5
  OBVIOUS
<1>2. /\ RoundHalfUp(a * 5, 100) \in Nat /\ 100 * RoundHalfUp(a * 5, 100) - 50 <= a * 5
      /\ RoundHalfUp(b * 5, 100) \in Nat /\ b * 5 <= 100 * RoundHalfUp(b * 5, 100) + 49
  BY <1>1, RoundedBy100
<1>3. RoundHalfUp(a * 5, 100) <= RoundHalfUp(b * 5, 100)
  BY <1>1, <1>2
<1> QED BY <1>2, <1>3 DEF Fee, MulPaise, PlatformFeePercent, PlatformFeeFloor, ToPaise

LEMMA GstType ==
    ASSUME NEW amount \in Nat
    PROVE  /\ Gst(amount) \in Nat
           /\ 100 * Gst(amount) - 50 <= 18 * amount
           /\ 18 * amount <= 100 * Gst(amount) + 49
<1>1. amount * 18 \in Nat /\ amount * 18 = 18 * amount
  OBVIOUS
<1>2. /\ RoundHalfUp(amount * 18, 100) \in Nat
      /\ 100 * RoundHalfUp(amount * 18, 100) - 50 <= amount * 18
      /\ amount * 18 <= 100 * RoundHalfUp(amount * 18, 100) + 49
  BY <1>1, RoundedBy100
<1> QED BY <1>1, <1>2 DEF Gst, MulPaise, GstPercent

\* The more is left after the discount, the more there is to pay.
LEMMA TotalIsMonotone ==
    ASSUME NEW a \in Nat, NEW b \in Nat, a <= b
    PROVE  Total(a) \in Nat /\ Total(a) <= Total(b)
<1>1. Fee(a) \in Nat /\ Fee(b) \in Nat /\ Fee(a) <= Fee(b)
  BY FeeType, FeeIsMonotone
<1> DEFINE x == a + Fee(a)
           y == b + Fee(b)
<1>2. x \in Nat /\ y \in Nat /\ x <= y
  BY <1>1
<1>3. /\ Gst(x) \in Nat /\ 100 * Gst(x) - 50 <= 18 * x
      /\ Gst(y) \in Nat /\ 18 * y <= 100 * Gst(y) + 49
  <2> HIDE DEF x, y
  <2> QED BY <1>2, GstType
<1>4. Gst(x) <= Gst(y)
  <2> HIDE DEF x, y
  <2> QED BY <1>2, <1>3
<1> QED BY <1>1, <1>2, <1>3, <1>4 DEF Total
-----------------------------------------------------------------------------
(* The charge in these terms.                                              *)

Net(base, mult, percent) == Fare(base, mult) - Discount(Fare(base, mult), percent)

LEMMA NetType ==
    ASSUME NEW base \in Nat, NEW mult \in Multipliers, NEW percent \in Percents
    PROVE  Net(base, mult, percent) \in Nat /\ Net(base, mult, percent) <= Fare(base, mult)
<1> DEFINE fare == Fare(base, mult)
<1>1. fare \in Nat
  BY FareType
<1>2. Discount(fare, percent) \in 0 .. fare
  <2> HIDE DEF fare
  <2> QED BY <1>1, DiscountType
<1>3. fare - Discount(fare, percent) \in Nat /\ fare - Discount(fare, percent) <= fare
  <2> HIDE DEF fare
  <2> QED BY <1>1, <1>2
<1> QED BY <1>3 DEF Net

LEMMA ChargeIs ==
    ASSUME NEW rate \in Nat, NEW n \in Nat, NEW mult, NEW percent
    PROVE  LET q == Charge(rate, n, mult, percent)
               base == rate * n
               net == Net(base, mult, percent)
           IN  /\ q.base = base
               /\ q.surge = Surge(base, mult)
               /\ q.discount = Discount(Fare(base, mult), percent)
               /\ q.fee = Fee(net)
               /\ q.gst = Gst(net + Fee(net))
               /\ q.total = Total(net)
<1> DEFINE base == MulPaise(rate, n, 1)
           c == Charge(rate, n, mult, percent)
           net == Net(base, mult, percent)
<1>1. base = rate * n
  BY BaseIsExact
<1>2. /\ c.base = base /\ c.surge = Surge(base, mult)
      /\ c.discount = Discount(Fare(base, mult), percent)
  BY Zenon DEF Charge, Surge, Fare, Discount
<1>3. c.fee = Fee(net) /\ c.gst = Gst(net + Fee(net)) /\ c.total = Total(net)
  BY Zenon DEF Charge, Net, Surge, Fare, Discount, Fee, Gst, Total
<1> HIDE DEF base, c
<1>4. /\ c.base = rate * n /\ c.surge = Surge(rate * n, mult)
      /\ c.discount = Discount(Fare(rate * n, mult), percent)
  BY ONLY <1>1, <1>2
<1>5. net = Net(rate * n, mult, percent)
  BY ONLY <1>1
<1> QED BY <1>3, <1>4, <1>5 DEF c

\* The lines that are shown, summed as sumPaise does it: those left out are 0.
LEMMA ShownLinesSum ==
    ASSUME NEW q, q.base \in Nat, q.surge \in Nat, q.discount \in Nat, q.fee \in Nat,
           q.gst \in Nat
    PROVE  SumPaise(Breakdown(q)) = q.base + q.surge - q.discount + q.fee + q.gst
<1> DEFINE s1 == Append(<<>>, q.base)
           s2 == IF q.surge > 0 THEN Append(s1, q.surge) ELSE s1
           s3 == IF q.discount > 0 THEN Append(s2, -q.discount) ELSE s2
           s4 == Append(s3, q.fee)
           s5 == Append(s4, q.gst)
<1>1. s1 \in Seq(Int) /\ ComesTo(s1, q.base)
  <2>1. <<>> \in Seq(Int) /\ 0 \in Int /\ q.base \in Int /\ q.base = 0 + q.base
    OBVIOUS
  <2> QED BY <2>1, NothingComesToZero, OneMore
<1> HIDE DEF s1
<1>2. s2 \in Seq(Int) /\ ComesTo(s2, q.base + q.surge)
  <2>1. q.base \in Int /\ q.surge \in Int /\ q.base + q.surge \in Int
    OBVIOUS
  <2>2. Append(s1, q.surge) \in Seq(Int) /\ ComesTo(Append(s1, q.surge), q.base + q.surge)
    BY <1>1, <2>1, OneMore
  <2>3. CASE q.surge > 0  BY <2>2, <2>3
  <2>4. CASE ~(q.surge > 0)
    <3>1. q.base = q.base + q.surge
      BY <2>4
    <3> QED BY <1>1, <2>4, <3>1
  <2> QED BY <2>3, <2>4
<1> HIDE DEF s2
<1>3. s3 \in Seq(Int) /\ ComesTo(s3, q.base + q.surge - q.discount)
  <2>1. /\ q.base + q.surge \in Int /\ -q.discount \in Int
        /\ q.base + q.surge - q.discount \in Int
        /\ q.base + q.surge - q.discount = (q.base + q.surge) + -q.discount
    OBVIOUS
  <2>2. CASE q.discount > 0
    BY <1>2, <2>1, <2>2, OneMore
  <2>3. CASE ~(q.discount > 0)
    <3>1. s3 = s2 /\ q.base + q.surge = q.base + q.surge - q.discount
      BY <2>3
    <3> HIDE DEF s3
    <3> QED BY <1>2, <3>1
  <2> QED BY <2>2, <2>3
<1> HIDE DEF s3
<1>4. s4 \in Seq(Int) /\ ComesTo(s4, q.base + q.surge - q.discount + q.fee)
  <2>1. /\ q.base + q.surge - q.discount \in Int /\ q.fee \in Int
        /\ q.base + q.surge - q.discount + q.fee \in Int
    OBVIOUS
  <2> QED BY <1>3, <2>1, OneMore
<1> HIDE DEF s4
<1>5. s5 \in Seq(Int) /\ ComesTo(s5, q.base + q.surge - q.discount + q.fee + q.gst)
  <2>1. /\ q.base + q.surge - q.discount + q.fee \in Int /\ q.gst \in Int
        /\ q.base + q.surge - q.discount + q.fee + q.gst \in Int
    OBVIOUS
  <2> QED BY <1>4, <2>1, OneMore
<1>6. Breakdown(q) = s5
  <2> USE DEF s1, s2, s3, s4
  <2>1. CASE q.surge > 0 /\ q.discount > 0  BY <2>1 DEF Breakdown
  <2>2. CASE q.surge > 0 /\ ~(q.discount > 0)  BY <2>2 DEF Breakdown
  <2>3. CASE ~(q.surge > 0) /\ q.discount > 0  BY <2>3 DEF Breakdown
  <2>4. CASE ~(q.surge > 0) /\ ~(q.discount > 0)  BY <2>4 DEF Breakdown
  <2> QED BY <2>1, <2>2, <2>3, <2>4
<1> HIDE DEF s5
<1>7. DOMAIN s5 = 1 .. Len(s5) /\ Len(s5) \in Nat
  BY <1>5
<1>8. SumPaise(s5) = q.base + q.surge - q.discount + q.fee + q.gst
  BY <1>5, <1>7, SumIs
<1> QED BY <1>6, <1>8

\* For every charge the lines of the breakdown come to the total.  A line is left out only
\* when its amount is 0, no amount is negative, and the discount is never more than the
\* fare (pricing.ts, quote; PriceBreakdown.tsx).
THEOREM LinesAddUp ==
    ASSUME NEW rate \in Nat, NEW n \in Nat, NEW mult \in Multipliers,
           NEW percent \in Percents
    PROVE  LET q == Charge(rate, n, mult, percent)
           IN  /\ SumPaise(Breakdown(q)) = q.total
               /\ q.base + q.surge - q.discount + q.fee + q.gst = q.total
               /\ q.base \in Nat /\ q.surge \in Nat /\ q.fee \in Nat /\ q.gst \in Nat
               /\ q.discount \in 0 .. q.base + q.surge
<1> DEFINE base == rate * n
           fare == Fare(base, mult)
           net == Net(base, mult, percent)
           surge == Surge(base, mult)
           discount == Discount(fare, percent)
           fee == Fee(net)
           gst == Gst(net + fee)
           total == Total(net)
<1>1. base \in Nat
  BY BaseIsExact
<1>2. surge \in Nat /\ fare = base + surge /\ fare \in Nat
  <2> HIDE DEF base
  <2> QED BY <1>1, FareType DEF Fare
<1>3. discount \in 0 .. fare /\ net = fare - discount
  <2> HIDE DEF base, fare
  <2>1. discount \in 0 .. fare
    BY <1>2, DiscountType
  <2>2. net = fare - discount
    BY DEF Net, fare
  <2> QED BY <2>1, <2>2
<1>4. net \in Nat
  <2> HIDE DEF base, net
  <2>1. Net(base, mult, percent) \in Nat
    BY <1>1, NetType
  <2> QED BY <2>1 DEF net
<1>5. fee \in Nat
  <2> HIDE DEF net
  <2> QED BY <1>4, FeeType
<1>6. gst \in Nat
  <2> HIDE DEF net, fee
  <2> QED BY <1>4, <1>5, GstType
<1>7. total = net + fee + gst
  <2> HIDE DEF net
  <2> QED BY DEF Total
<1> HIDE DEF base, fare, net, surge, discount, fee, gst, total
<1>8. base + surge - discount + fee + gst = total
  BY <1>1, <1>2, <1>3, <1>4, <1>5, <1>6, <1>7
<1>9. base + surge = fare
  BY <1>2
<1> DEFINE q == Charge(rate, n, mult, percent)
<1>10. /\ q.base = base /\ q.surge = surge /\ q.discount = discount
       /\ q.fee = fee /\ q.gst = gst /\ q.total = total
  <2> USE DEF base, fare, net, surge, discount, fee, gst, total
  <2> HIDE DEF q
  <2>1. /\ q.base = rate * n /\ q.surge = Surge(rate * n, mult)
        /\ q.discount = Discount(Fare(rate * n, mult), percent)
        /\ q.fee = Fee(Net(rate * n, mult, percent))
        /\ q.gst = Gst(Net(rate * n, mult, percent) + Fee(Net(rate * n, mult, percent)))
        /\ q.total = Total(Net(rate * n, mult, percent))
    BY ChargeIs DEF q
  <2> QED BY ONLY <2>1
<1> HIDE DEF q
<1>11. /\ q.base + q.surge - q.discount + q.fee + q.gst = q.total
       /\ q.base \in Nat /\ q.surge \in Nat /\ q.fee \in Nat /\ q.gst \in Nat
       /\ q.discount \in 0 .. q.base + q.surge
  BY <1>1, <1>2, <1>3, <1>5, <1>6, <1>8, <1>9, <1>10
<1>12. SumPaise(Breakdown(q)) = q.total
  <2>1. q.discount \in Nat
    BY <1>11
  <2> QED BY <1>11, <2>1, ShownLinesSum
<1> QED BY <1>11, <1>12 DEF q

LEMMA AmountsFit ==
    ASSUME NEW base \in Nat, NEW mult \in Multipliers, NEW percent \in Percents,
           2 * base + 10000 <= MaxPaise
    PROVE  LET net == Net(base, mult, percent)
           IN  /\ base \in Paise /\ Surge(base, mult) \in Paise
               /\ Discount(Fare(base, mult), percent) \in Paise
               /\ Fee(net) \in Paise /\ Gst(net + Fee(net)) \in Paise /\ Total(net) \in Paise
<1> DEFINE surge == Surge(base, mult)
           fare == Fare(base, mult)
           discount == Discount(fare, percent)
           net == Net(base, mult, percent)
           fee == Fee(net)
           gst == Gst(net + fee)
<1>1. /\ surge \in Nat /\ 10 * surge <= 3 * base + 5
      /\ fare \in Nat /\ fare = base + surge
  BY FareType DEF Fare
<1>2. net \in Nat /\ net <= fare
  BY NetType
<1>3. discount \in 0 .. fare
  <2> HIDE DEF fare
  <2> QED BY <1>1, DiscountType
<1>4. fee \in Nat /\ 100 * fee <= 5 * net + 290000
  <2> HIDE DEF net
  <2> QED BY <1>2, FeeType
<1> DEFINE amount == net + fee
<1>5. gst \in Nat /\ 100 * gst - 50 <= 18 * amount
  <2>1. amount \in Nat
    <3> HIDE DEF net, fee
    <3> QED BY <1>2, <1>4
  <2> HIDE DEF amount
  <2>2. Gst(amount) \in Nat /\ 100 * Gst(amount) - 50 <= 18 * amount
    BY ONLY <2>1, GstType
  <2> QED BY ONLY <2>2 DEF amount
<1>6. Total(net) = net + fee + gst
  <2> HIDE DEF net
  <2> QED BY DEF Total
<1> HIDE DEF surge, fare, discount, net, fee, gst
<1>7. MaxPaise \in Nat
  BY MoneyAssumption
<1>8. base \in Paise /\ surge \in Paise /\ discount \in Paise
  BY <1>1, <1>3, <1>7 DEF Paise
<1>9. fee \in Paise /\ gst \in Paise /\ net + fee + gst \in Paise
  <2>1. amount = net + fee /\ amount \in Nat
    BY <1>2, <1>4
  <2> HIDE DEF amount
  <2> QED BY <2>1, <1>1, <1>2, <1>4, <1>5, <1>7 DEF Paise
<1> QED BY <1>6, <1>8, <1>9 DEF surge, fare, discount, net, fee, gst

\* Nothing a quote consists of reaches the cap at which paise() throws, as long as the
\* base is less than half of it (money.ts, paise; pricing.ts, quote).
THEOREM ChargeFits ==
    ASSUME NEW rate \in Nat, NEW n \in Nat, NEW mult \in Multipliers,
           NEW percent \in Percents, 2 * (rate * n) + 10000 <= MaxPaise
    PROVE  LET q == Charge(rate, n, mult, percent)
           IN  /\ q.base \in Paise /\ q.surge \in Paise /\ q.discount \in Paise
               /\ q.fee \in Paise /\ q.gst \in Paise /\ q.total \in Paise
<1> DEFINE base == rate * n
           net == Net(base, mult, percent)
<1>1. base \in Nat
  BY BaseIsExact
<1>2. /\ base \in Paise /\ Surge(base, mult) \in Paise
      /\ Discount(Fare(base, mult), percent) \in Paise
      /\ Fee(net) \in Paise /\ Gst(net + Fee(net)) \in Paise /\ Total(net) \in Paise
  <2>1. 2 * base + 10000 <= MaxPaise
    OBVIOUS
  <2> HIDE DEF base
  <2> QED BY ONLY <1>1, <2>1, AmountsFit, mult \in Multipliers, percent \in Percents
<1> DEFINE q == Charge(rate, n, mult, percent)
<1>3. /\ q.base = base /\ q.surge = Surge(base, mult)
      /\ q.discount = Discount(Fare(base, mult), percent)
      /\ q.fee = Fee(net) /\ q.gst = Gst(net + Fee(net)) /\ q.total = Total(net)
  <2> HIDE DEF q
  <2> QED BY ChargeIs DEF q
<1> HIDE DEF base, net, q
<1>4. /\ q.base \in Paise /\ q.surge \in Paise /\ q.discount \in Paise
      /\ q.fee \in Paise /\ q.gst \in Paise /\ q.total \in Paise
  BY ONLY <1>2, <1>3
<1> QED BY <1>4 DEF q

\* Whatever the vehicle, the window and the two days, who asks earlier is quoted no more
\* (pricing.ts, advanceDiscount and every rounding after it).
THEOREM EarlierIsNotDearer ==
    ASSUME NEW rate \in Nat, NEW start \in Int, NEW nights \in Int,
           NEW early \in Int, NEW late \in Int, early <= late
    PROVE  /\ Quote(rate, start, nights, early).total \in Nat
           /\ Quote(rate, start, nights, early).total
                 <= Quote(rate, start, nights, late).total
<1> DEFINE n == IF nights < 1 THEN 1 ELSE nights
           Ahead(day) == IF start < day THEN 0 ELSE start - day
           base == rate * n
           mult == DemandForRange(start, n)
           p == AdvanceDiscount(Ahead(early))
           q == AdvanceDiscount(Ahead(late))
<1>1. n \in Nat
  OBVIOUS
<1>2. base \in Nat
  BY <1>1, BaseIsExact
<1>3. mult \in Multipliers
  BY <1>1, DemandType DEF Multipliers
<1>4. p \in Percents /\ q \in Percents /\ q <= p
  BY DEF AdvanceDiscount, Percents
<1>5. /\ Quote(rate, start, nights, early).total = Total(Net(base, mult, p))
      /\ Quote(rate, start, nights, late).total = Total(Net(base, mult, q))
  <2>1. /\ Quote(rate, start, nights, early) = Charge(rate, n, mult, p)
        /\ Quote(rate, start, nights, late) = Charge(rate, n, mult, q)
    BY DEF Quote
  <2> HIDE DEF n, mult, p, q
  <2> QED BY <1>1, <2>1, ChargeIs
<1> HIDE DEF n, base, mult, p, q
<1>6. Fare(base, mult) \in Nat
  BY <1>2, <1>3, FareType
<1>7. /\ Discount(Fare(base, mult), q) <= Discount(Fare(base, mult), p)
      /\ Discount(Fare(base, mult), p) \in 0 .. Fare(base, mult)
      /\ Discount(Fare(base, mult), q) \in 0 .. Fare(base, mult)
  BY <1>4, <1>6, DiscountIsMonotone, DiscountType
<1>8. /\ Net(base, mult, p) \in Nat /\ Net(base, mult, q) \in Nat
      /\ Net(base, mult, p) <= Net(base, mult, q)
  BY <1>6, <1>7 DEF Net
<1> QED BY <1>5, <1>8, TotalIsMonotone

\* The owner's payout is between nothing and what was paid (pricing.ts, ownerPayout).
THEOREM PayoutIsWithinGross ==
    ASSUME NEW gross \in Nat
    PROVE  OwnerPayout(gross) \in 0 .. gross
<1>1. gross * 1500 \in Nat
  OBVIOUS
<1>2. /\ RoundHalfUp(gross * 1500, 10000) \in Nat
      /\ 10000 * RoundHalfUp(gross * 1500, 10000) - 5000 <= gross * 1500
  BY <1>1, RoundedBy10000
<1> QED BY <1>2 DEF OwnerPayout, OwnerCommissionBps, MulPaise
-----------------------------------------------------------------------------
(* Splitting an amount.                                                    *)

\* What integer division leaves over is less than one paisa per share, and of p's sign.
LEMMA RemainderIsSmall ==
    ASSUME NEW p \in Int, NEW parts \in Nat \ {0}
    PROVE  /\ Trunc(p, parts) \in Int
           /\ p - Trunc(p, parts) * parts \in Int
           /\ p < 0 => p - Trunc(p, parts) * parts \in -(parts - 1) .. 0
           /\ p >= 0 => p - Trunc(p, parts) * parts \in 0 .. parts - 1
<1>1. ASSUME NEW n \in Nat
      PROVE  /\ n \div parts \in Nat /\ n % parts \in 0 .. parts - 1
             /\ n = (n \div parts) * parts + (n % parts)
  OBVIOUS
<1>2. CASE p >= 0
  <2>1. p \in Nat
    BY <1>2
  <2>2. /\ p \div parts \in Nat /\ p % parts \in 0 .. parts - 1
        /\ p = (p \div parts) * parts + (p % parts)
    BY <2>1, <1>1
  <2>3. Trunc(p, parts) = p \div parts
    BY <1>2 DEF Trunc
  <2> QED BY <1>2, <2>2, <2>3
<1>3. CASE p < 0
  <2> DEFINE n == -p
  <2>1. n \in Nat /\ p = -n
    BY <1>3
  <2>2. Trunc(p, parts) = -(n \div parts)
    BY <1>3 DEF Trunc
  <2> HIDE DEF n
  <2> DEFINE d == n \div parts
             r == n % parts
  <2>3. d \in Nat /\ r \in 0 .. parts - 1 /\ n = d * parts + r
    BY <2>1, <1>1
  <2>4. Trunc(p, parts) = -d
    BY <2>2
  <2> HIDE DEF d, r
  <2>5. (-d) * parts = -(d * parts) /\ d * parts \in Int
    BY <2>3
  <2>6. p - Trunc(p, parts) * parts = -r
    BY <2>1, <2>3, <2>4, <2>5
  <2> QED BY <1>3, <2>3, <2>4, <2>6
<1> QED BY <1>2, <1>3

\* Splitting loses and invents nothing, whatever the amount, its sign and the number of
\* shares: they come to the amount, and no two differ by more than a paisa (money.ts,
\* splitPaise).
THEOREM SharesComeToTheAmount ==
    ASSUME NEW p \in Int, NEW parts \in Nat \ {0}
    PROVE  LET shares == SplitPaise(p, parts)
           IN  /\ shares \in Seq(Int) /\ Len(shares) = parts
               /\ SumPaise(shares) = p
               /\ \A i, j \in 1 .. parts : shares[i] - shares[j] \in -1 .. 1
<1> DEFINE shares == SplitPaise(p, parts)
           base == Trunc(p, parts)
           left == p - base * parts
           sign == IF left < 0 THEN -1 ELSE 1
           size == sign * left
           Given(i) == IF i <= size THEN i ELSE size
           sum == [i \in 0 .. parts |-> base * i + sign * Given(i)]
<1>1. /\ base \in Int /\ left \in Int
      /\ sign \in {-1, 1} /\ size \in 0 .. parts - 1 /\ left = sign * size
  <2>1. base \in Int /\ left \in Int /\ left \in -(parts - 1) .. parts - 1
    BY RemainderIsSmall
  <2> HIDE DEF base, left
  <2>2. CASE left < 0  BY <2>1, <2>2
  <2>3. CASE left >= 0  BY <2>1, <2>3
  <2> QED BY <2>1, <2>2, <2>3
<1>2. shares = [i \in 1 .. parts |-> base + (IF i <= size THEN sign ELSE 0)]
  <2>1. shares = [i \in 1 .. parts |->
                    base + (IF left < 0 THEN (IF i <= -left THEN -1 ELSE 0)
                                        ELSE (IF i <= left THEN 1 ELSE 0))]
    BY DEF SplitPaise
  <2>2. ASSUME NEW i \in 1 .. parts
        PROVE  (IF left < 0 THEN (IF i <= -left THEN -1 ELSE 0)
                            ELSE (IF i <= left THEN 1 ELSE 0))
                 = (IF i <= size THEN sign ELSE 0)
    <3>1. left \in Int
      BY <1>1
    <3> HIDE DEF left
    <3> QED BY <3>1
  <2> HIDE DEF shares, base, size, sign, left
  <2> QED BY <2>1, <2>2
<1>3. p = base * parts + left
  <2> DEFINE m == base * parts
  <2>1. m \in Int
    BY <1>1
  <2>2. left = p - m
    OBVIOUS
  <2> HIDE DEF m, left
  <2>3. p = m + left
    BY <2>1, <2>2
  <2> QED BY <2>3 DEF m
<1> HIDE DEF shares, base, left, sign, size
<1>4. /\ \A i \in 1 .. parts : base + (IF i <= size THEN sign ELSE 0) \in Int
      /\ \A i, j \in 1 .. parts : shares[i] - shares[j] \in -1 .. 1
  BY <1>1, <1>2
<1>5. shares \in Seq(Int) /\ Len(shares) = parts
  <2>1. shares \in [1 .. parts -> Int] /\ parts \in Nat
    BY <1>2, <1>4
  <2> QED BY <2>1
<1>6. sum \in [0 .. parts -> Int] /\ sum[0] = 0 /\ sum[parts] = p
  <2>1. ASSUME NEW i \in 0 .. parts
        PROVE  base * i \in Int /\ sign * Given(i) \in Int
    BY <1>1
  <2>2. sum[0] = 0
    BY <1>1
  <2>3. sum[parts] = base * parts + sign * size
    BY <1>1
  <2> QED BY <1>1, <1>3, <2>1, <2>2, <2>3
<1>7. ASSUME NEW i \in 1 .. parts
      PROVE  sum[i] = sum[i - 1] + shares[i]
  <2>1. i \in 0 .. parts /\ i - 1 \in 0 .. parts /\ i \in Int
    OBVIOUS
  <2>2. base * i = base * (i - 1) + base /\ base * (i - 1) \in Int
    BY <1>1
  <2>3. sign * Given(i) = sign * Given(i - 1) + (IF i <= size THEN sign ELSE 0)
    <3>1. CASE sign = 1  BY <1>1, <3>1
    <3>2. CASE sign = -1  BY <1>1, <3>2
    <3> QED BY <1>1, <3>1, <3>2
  <2>4. /\ sum[i] = base * i + sign * Given(i)
        /\ sum[i - 1] = base * (i - 1) + sign * Given(i - 1)
    BY <2>1
  <2>5. sign * Given(i - 1) \in Int /\ (IF i <= size THEN sign ELSE 0) \in Int
    BY <1>1
  <2> HIDE DEF Given, sum
  <2> QED BY <1>1, <1>2, <2>2, <2>3, <2>4, <2>5
<1>8. ComesTo(shares, p)
  <2> HIDE DEF sum
  <2> QED BY <1>5, <1>6, <1>7 DEF ComesTo
<1>9. SumPaise(shares) = p
  <2>1. DOMAIN shares = 1 .. parts /\ parts \in Nat
    BY <1>5
  <2> QED BY <1>5, <1>8, <2>1, SumIs
<1> QED BY <1>4, <1>5, <1>9 DEF shares
-----------------------------------------------------------------------------
\* What a mounted screen, with the draft beside it, keeps to on day `day`.
ScreenSound(p, d, day) ==
    /\ p \in Page
    /\ p.at \in {"detail", "dates"} => p.vehicle \in Vehicles
    /\ p.at = "pay" => d # NoDraft
    /\ d \in Draft \cup {NoDraft}
    /\ d # NoDraft => SoundDraft(d)
    /\ p.asOf <= day
    /\ p.end # NoDate => p.start <= p.end

ScreenInv == now \in FirstDay .. LastDay /\ ScreenSound(page, draft, now)

LedgerInv ==
    /\ pending \in Seq(Closure)
    /\ made \in Seq(MadeBooking)
    /\ clicks \in Seq(Closure)
    /\ \A i \in 1 .. Len(pending) : SoundDraft(pending[i].draft)
    /\ \A i \in 1 .. Len(made) : SoundDraft(made[i].draft)
    /\ \A i \in 1 .. Len(pending) : NotDearer(pending[i].amount, pending[i].draft, now)
    /\ \A i \in 1 .. Len(made) : NotDearer(made[i].amount, made[i].draft, made[i].madeAt)
    /\ PaidAsShown

IInv == ScreenInv /\ LedgerInv
-----------------------------------------------------------------------------
\* The quote of a draft only goes up as days pass.
LEMMA QuoteGrows ==
    ASSUME NEW d \in Draft, NEW early \in Nat, NEW late \in Nat, early <= late
    PROVE  /\ Quote(daily[d.vehicle], d.start, d.nights, early).total \in Int
           /\ NotDearer(Quote(daily[d.vehicle], d.start, d.nights, early).total, d, late)
           /\ \A amount \in Int : NotDearer(amount, d, early) => NotDearer(amount, d, late)
<1> DEFINE rate == daily[d.vehicle]
           start == d.start
           nights == d.nights
           Q(day) == Quote(rate, start, nights, day).total
<1>1. rate \in Nat /\ start \in Int /\ nights \in Int
  BY FlowAssumption DEF Draft
<1>2. Q(early) \in Nat /\ Q(late) \in Nat /\ Q(early) <= Q(late)
  <2> HIDE DEF rate, start, nights
  <2>1. early \in Int /\ late \in Int
    OBVIOUS
  <2>2. Q(early) \in Nat /\ Q(early) <= Q(late)
    BY <1>1, <2>1, EarlierIsNotDearer
  <2>3. Q(late) \in Nat
    BY <1>1, <2>1, EarlierIsNotDearer
  <2> QED BY <2>2, <2>3
<1>3. Q(early) \in Int /\ Q(early) <= Q(late)
      /\ \A amount \in Int : amount <= Q(early) => amount <= Q(late)
  <2> HIDE DEF Q
  <2> QED BY <1>2
<1> QED BY <1>3 DEF NotDearer

\* Days that are counted are one at least.
LEMMA NightsType ==
    ASSUME NEW start \in Nat, NEW end \in Nat \cup {NoDate}
    PROVE  Nights(start, end) \in Nat
BY FlowAssumption DEF Nights

\* A screen whose fields are of their types, whose window does not run backwards and
\* that was made no later than today is sound.
LEMMA ScreenIsSound ==
    ASSUME ScreenInv,
           NEW d, d \in Draft \cup {NoDraft}, d # NoDraft => SoundDraft(d),
           NEW at \in Screens, NEW v \in Vehicles \cup {NoVehicle},
           NEW start \in Nat, NEW end \in Nat \cup {NoDate}, NEW slot \in Slots,
           NEW day \in Nat, day <= now,
           at \in {"detail", "dates"} => v \in Vehicles,
           at = "pay" => d # NoDraft,
           end # NoDate => start <= end
    PROVE  /\ ScreenSound(Screen(at, v, start, end, slot, day), d, now)
           /\ Screen(at, v, start, end, slot, day).at = at
           /\ Screen(at, v, start, end, slot, day).vehicle = v
<1> DEFINE p == Screen(at, v, start, end, slot, day)
<1>1. p \in Page
  BY FlowAssumption DEF Screen, Page
<1>2. p.at = at /\ p.vehicle = v /\ p.asOf = day /\ p.start = start /\ p.end = end
  BY DEF Screen
<1> HIDE DEF p
<1>3. ScreenSound(p, d, now)
  BY <1>1, <1>2 DEF ScreenSound
<1> QED BY <1>2, <1>3 DEF p

\* The screens a user comes to are sound.
LEMMA WindowlessSound ==
    ASSUME ScreenInv, NEW d, d \in Draft \cup {NoDraft}, d # NoDraft => SoundDraft(d),
           NEW at \in Screens, at \notin {"detail", "dates"}, at = "pay" => d # NoDraft,
           NEW day \in Nat, day <= now
    PROVE  /\ ScreenSound(Windowless(at, day), d, now)
           /\ Windowless(at, day).at = at
<1> DEFINE p == Screen(at, NoVehicle, FirstDay, NoDate, DefaultSlot, day)
<1>1. p \in Page
  BY FlowAssumption DEF Screen, Page
<1>2. p.at = at /\ p.asOf = day /\ p.end = NoDate
  BY DEF Screen
<1>3. ScreenSound(p, d, now)
  <2> HIDE DEF p
  <2> QED BY <1>1, <1>2 DEF ScreenSound
<1> QED BY <1>2, <1>3 DEF Windowless

LEMMA DetailSound ==
    ASSUME ScreenInv, NEW v \in Vehicles
    PROVE  /\ ScreenSound(DetailScreen(v), draft, now)
           /\ DetailScreen(v).at = "detail"
<1>1. now \in Nat /\ now + 3 \in Nat /\ now + 5 \in Nat /\ "detail" \in Screens
      /\ now + 3 <= now + 5
  BY FlowAssumption DEF ScreenInv, Screens
<1>2. draft \in Draft \cup {NoDraft} /\ (draft # NoDraft => SoundDraft(draft))
  BY DEF ScreenInv, ScreenSound
<1> QED BY <1>1, <1>2, ScreenIsSound, FlowAssumption DEF DetailScreen

LEMMA DatesSound ==
    ASSUME ScreenInv, NEW v \in Vehicles, NEW d,
           d \in Draft \cup {NoDraft}, d # NoDraft => SoundDraft(d)
    PROVE  /\ ScreenSound(DatesScreen(v, d), d, now)
           /\ DatesScreen(v, d).at = "dates" /\ DatesScreen(v, d).vehicle = v
<1>1. now \in Nat /\ now + 3 \in Nat /\ now + 5 \in Nat /\ "dates" \in Screens
      /\ now + 3 <= now + 5
  BY FlowAssumption DEF ScreenInv, Screens
<1>2. CASE d = NoDraft
  BY <1>1, <1>2, ScreenIsSound, FlowAssumption DEF DatesScreen
<1>3. CASE d # NoDraft
  <2>1. d.start \in Nat /\ d.end \in Nat /\ d.slot \in Slots /\ d.start <= d.end
    BY <1>3 DEF Draft, SoundDraft
  <2> QED BY <1>1, <1>3, <2>1, ScreenIsSound DEF DatesScreen
<1> QED BY <1>2, <1>3

\* Changing the vehicle of a screen keeps its window.
LEMMA RetargetSound ==
    ASSUME ScreenInv, NEW v \in Vehicles, page.at \in {"detail", "dates"}
    PROVE  /\ ScreenSound(Retarget(v), draft, now)
           /\ Retarget(v).vehicle = v /\ Retarget(v).at = page.at
           /\ Retarget(v).end = page.end
<1> DEFINE p == Retarget(v)
<1>1. now \in Nat /\ page \in Page
  BY FlowAssumption DEF ScreenInv, ScreenSound
<1>2. p \in Page
  BY <1>1 DEF Retarget, Page
<1>3. /\ p.vehicle = v /\ p.at = page.at /\ p.start = page.start /\ p.end = page.end
      /\ p.asOf = IF v = page.vehicle THEN page.asOf ELSE now
  BY <1>1 DEF Retarget, Page
<1> HIDE DEF p
<1>4. ScreenSound(p, draft, now)
  BY <1>1, <1>2, <1>3 DEF ScreenInv, ScreenSound
<1> QED BY <1>3, <1>4 DEF p

\* A complete window makes a sound draft; an incomplete one leaves the old one.
LEMMA DraftOfSound ==
    ASSUME NEW p \in Page, p.vehicle \in Vehicles, p.end # NoDate => p.start <= p.end,
           draft \in Draft \cup {NoDraft}, draft # NoDraft => SoundDraft(draft)
    PROVE  /\ DraftOf(p) \in Draft \cup {NoDraft}
           /\ DraftOf(p) # NoDraft => SoundDraft(DraftOf(p))
           /\ p.end # NoDate => DraftOf(p) \in Draft
           /\ draft # NoDraft => DraftOf(p) # NoDraft
<1>1. CASE p.end = NoDate
  BY <1>1 DEF DraftOf
<1>2. CASE p.end # NoDate
  <2>1. p.start \in Nat /\ p.end \in Nat /\ p.slot \in Slots
    BY <1>2 DEF Page
  <2>2. Nights(p.start, p.end) \in Nat
    BY <2>1, NightsType
  <2>3. DraftOf(p) \in Draft
    BY <1>2, <2>1, <2>2 DEF DraftOf, Draft
  <2>4. SoundDraft(DraftOf(p))
    BY <1>2 DEF DraftOf, SoundDraft
  <2> QED BY <2>3, <2>4, FlowAssumption
<1> QED BY <1>1, <1>2

\* A click in the calendar leaves no window that runs backwards, and completes none that
\* crosses a booked day.
LEMMA PickedRangeSound ==
    ASSUME NEW v, NEW start \in Nat, NEW end, NEW day \in Nat, NEW seen
    PROVE  LET range == PickedRange(v, start, end, day, seen)
           IN  /\ range.start \in Nat /\ range.end \in Nat \cup {NoDate}
               /\ range.end # NoDate =>
                     /\ range.start <= range.end
                     /\ ~RangeHasConflict(v, range.start, range.end, seen)
BY DEF PickedRange
-----------------------------------------------------------------------------
(* The screens stay sound.                                                 *)

LEMMA ScreenStep == ScreenInv /\ [Next]_vars => ScreenInv'
<1> SUFFICES ASSUME ScreenInv, [Next]_vars PROVE ScreenInv'
  OBVIOUS
<1>1. /\ now \in Nat /\ FirstDay \in Nat /\ FirstDay <= now /\ now <= LastDay
      /\ page \in Page /\ draft \in Draft \cup {NoDraft}
      /\ draft # NoDraft => SoundDraft(draft)
      /\ {"pay", "confirm", "trips", "elsewhere"} \subseteq Screens
  BY FlowAssumption DEF ScreenInv, ScreenSound, Screens
<1>2. now' = now /\ ScreenSound(page', draft', now) => ScreenInv'
  BY DEF ScreenInv
<1>3. ASSUME NEW v \in Vehicles, OpenDetail(v) PROVE ScreenInv'
  <2>1. ScreenSound(page', draft, now)
    BY <1>3, RetargetSound, DetailSound DEF OpenDetail
  <2> QED BY <1>2, <1>3, <2>1 DEF OpenDetail, Store
<1>4. ASSUME NEW v \in Vehicles, OpenDates(v) PROVE ScreenInv'
  <2>1. ScreenSound(page', draft, now) /\ page'.vehicle = v
    BY <1>1, <1>4, RetargetSound, DatesSound DEF OpenDates
  <2>2. ScreenSound(page', draft', now)
    BY <1>1, <1>4, <2>1, DraftOfSound DEF OpenDates, ScreenSound
  <2> QED BY <1>2, <1>4, <2>2 DEF OpenDates, Store
<1>5. ASSUME OpenPay PROVE ScreenInv'
  <2>1. ScreenSound(page', draft, now)
    BY <1>1, <1>5, WindowlessSound DEF OpenPay, PayScreen, Elsewhere
  <2> QED BY <1>2, <1>5, <2>1 DEF OpenPay, Store
<1>6. ASSUME OpenOther PROVE ScreenInv'
  <2>1. ScreenSound(page', draft, now)
    BY <1>1, <1>6, WindowlessSound DEF OpenOther
  <2> QED BY <1>2, <1>6, <2>1 DEF OpenOther, Store
<1>7. ASSUME OpenTrips PROVE ScreenInv'
  <2>1. ScreenSound(page', draft, now)
    BY <1>1, <1>7, WindowlessSound DEF OpenTrips
  <2> QED BY <1>2, <1>7, <2>1 DEF OpenTrips, Store
<1>8. ASSUME Reload PROVE ScreenInv'
  <2>1. ScreenSound(page', NoDraft, now)
    BY <1>1, <1>8, WindowlessSound DEF Reload, Elsewhere
  <2> QED BY <1>2, <1>8, <2>1 DEF Reload
<1>9. ASSUME NEW day \in Clickable, Pick(day) PROVE ScreenInv'
  <2> DEFINE range == PickedRange(page.vehicle, page.start, page.end, day, page.seen)
  <2>1. /\ range.start \in Nat /\ range.end \in Nat \cup {NoDate}
        /\ range.end # NoDate => range.start <= range.end
    BY <1>1, PickedRangeSound, FlowAssumption DEF Page
  <2> DEFINE asOf == IF range.end # NoDate /\ Nights(page.start, page.end)
                                              = Nights(range.start, range.end)
                     THEN page.asOf ELSE now
             p == [page EXCEPT !.start = range.start, !.end = range.end, !.seen = now,
                               !.asOf = asOf]
  <2>2. page' = p
    BY <1>9 DEF Pick
  <2>3. page.asOf <= now /\ page.at \in {"detail", "dates"} /\ page.vehicle \in Vehicles
    BY <1>9 DEF Pick, ScreenInv, ScreenSound
  <2>4. asOf \in Nat /\ asOf <= now
    BY <1>1, <2>3 DEF Page
  <2> HIDE DEF range, asOf
  <2>5. p \in Page
    BY <1>1, <2>1, <2>4 DEF Page
  <2>6. /\ p.at = page.at /\ p.vehicle = page.vehicle /\ p.asOf = asOf
        /\ p.start = range.start /\ p.end = range.end
    BY <1>1 DEF Page
  <2> HIDE DEF p
  <2>7. ScreenSound(p, draft, now)
    BY <1>1, <2>1, <2>3, <2>4, <2>5, <2>6 DEF ScreenSound
  <2>8. ScreenSound(p, DraftOf(p), now)
    BY <1>1, <2>3, <2>6, <2>7, DraftOfSound DEF ScreenSound
  <2>9. draft' = IF page.at = "dates" THEN DraftOf(p) ELSE draft
    BY <1>9, <2>2 DEF Pick
  <2> QED BY <1>2, <1>9, <2>2, <2>7, <2>8, <2>9 DEF Pick, Store
<1>10. ASSUME NEW slot \in Slots, ChooseSlot(slot) PROVE ScreenInv'
  <2> DEFINE p == [page EXCEPT !.slot = slot, !.seen = now]
  <2>1. p \in Page
    BY <1>1 DEF Page
  <2>2. /\ p.at = "dates" /\ p.vehicle = page.vehicle /\ p.asOf = page.asOf
        /\ p.start = page.start /\ p.end = page.end
    BY <1>1, <1>10 DEF Page, ChooseSlot
  <2>3. page' = p /\ draft' = DraftOf(p) /\ page.at = "dates"
    BY <1>10 DEF ChooseSlot
  <2> HIDE DEF p
  <2>4. ScreenSound(p, draft, now) /\ p.vehicle \in Vehicles
    BY <1>1, <2>1, <2>2, <2>3 DEF ScreenInv, ScreenSound
  <2>5. ScreenSound(p, DraftOf(p), now)
    BY <1>1, <2>2, <2>4, DraftOfSound DEF ScreenSound
  <2> QED BY <1>2, <1>10, <2>3, <2>5 DEF ChooseSlot, Store
<1>11. ASSUME Rerender PROVE ScreenInv'
  <2> DEFINE p == [page EXCEPT !.seen = now]
  <2>1. /\ p \in Page /\ p.at = page.at /\ p.vehicle = page.vehicle
        /\ p.asOf = page.asOf /\ p.start = page.start /\ p.end = page.end
    BY <1>1 DEF Page
  <2>2. page' = p
    BY <1>11 DEF Rerender
  <2> HIDE DEF p
  <2>3. ScreenSound(p, draft, now)
    BY <2>1 DEF ScreenInv, ScreenSound
  <2> QED BY <1>2, <1>11, <2>2, <2>3 DEF Rerender, Store
<1>12. ASSUME Book PROVE ScreenInv'
  <2>1. page.at = "detail" /\ page.end # NoDate /\ page.vehicle \in Vehicles
    BY <1>12 DEF Book, ScreenInv, ScreenSound
  <2>2. DraftOf(page) \in Draft /\ SoundDraft(DraftOf(page))
    BY <1>1, <2>1, DraftOfSound, FlowAssumption DEF ScreenInv, ScreenSound
  <2>3. ScreenSound(DatesScreen(page.vehicle, DraftOf(page)), DraftOf(page), now)
    BY <2>1, <2>2, DatesSound
  <2> QED BY <1>2, <1>12, <2>3 DEF Book, Store
<1>13. ASSUME Proceed PROVE ScreenInv'
  <2>1. page.at = "dates" /\ page.end # NoDate /\ page.vehicle \in Vehicles
    BY <1>13 DEF Proceed, ScreenInv, ScreenSound
  <2>2. DraftOf(page) \in Draft /\ SoundDraft(DraftOf(page)) /\ DraftOf(page) # NoDraft
    BY <1>1, <2>1, DraftOfSound, FlowAssumption DEF ScreenInv, ScreenSound
  <2>3. ScreenSound(PayScreen, DraftOf(page), now)
    BY <1>1, <2>2, WindowlessSound DEF PayScreen
  <2> QED BY <1>2, <1>13, <2>3 DEF Proceed, Store
<1>14. ASSUME NEW method \in Methods, ChooseMethod(method) PROVE ScreenInv'
  <2> DEFINE p == [page EXCEPT !.method = method]
  <2>1. /\ p \in Page /\ p.at = page.at /\ p.vehicle = page.vehicle
        /\ p.asOf = page.asOf /\ p.start = page.start /\ p.end = page.end
    BY <1>1 DEF Page
  <2>2. page' = p
    BY <1>14 DEF ChooseMethod
  <2> HIDE DEF p
  <2>3. ScreenSound(p, draft, now)
    BY <2>1 DEF ScreenInv, ScreenSound
  <2> QED BY <1>2, <1>14, <2>2, <2>3 DEF ChooseMethod, Store
<1>15. ASSUME Pay PROVE ScreenInv'
  <2> DEFINE p == [page EXCEPT !.busy = TRUE]
  <2>1. /\ p \in Page /\ p.at = page.at /\ p.vehicle = page.vehicle
        /\ p.asOf = page.asOf /\ p.start = page.start /\ p.end = page.end
    BY <1>1 DEF Page
  <2>2. page' = p
    BY <1>15 DEF Pay
  <2> HIDE DEF p
  <2>3. ScreenSound(p, draft, now)
    BY <2>1 DEF ScreenInv, ScreenSound
  <2> QED BY <1>2, <1>15, <2>2, <2>3 DEF Pay
<1>16. ASSUME Land PROVE ScreenInv'
  <2>1. ScreenSound(page', draft, now)
    BY <1>1, <1>16, WindowlessSound DEF Land, LandWith
  <2> QED BY <1>2, <1>16, <2>1 DEF Land, LandWith
<1>17. ASSUME Midnight PROVE ScreenInv'
  BY <1>1, <1>17, FlowAssumption DEF Midnight, ScreenInv, ScreenSound, Page
<1>18. CASE UNCHANGED vars
  BY <1>18 DEF vars, ScreenInv
<1> QED BY <1>3, <1>4, <1>5, <1>6, <1>7, <1>8, <1>9, <1>10, <1>11, <1>12, <1>13, <1>14,
           <1>15, <1>16, <1>17, <1>18 DEF Next
-----------------------------------------------------------------------------
(* The bookings are the clicks.                                            *)

\* The click on "Pay" closes over a draft, an amount and a method that fit the day.
LEMMA ShownIsSound ==
    ASSUME ScreenInv, page.at = "pay"
    PROVE  /\ ShownToPay \in Closure
           /\ SoundDraft(ShownToPay.draft)
           /\ NotDearer(ShownToPay.amount, ShownToPay.draft, now)
<1>1. /\ draft \in Draft /\ SoundDraft(draft)
      /\ page.asOf \in Nat /\ now \in Nat /\ page.asOf <= now /\ page.method \in Methods
  BY FlowAssumption DEF ScreenInv, ScreenSound, Page
<1>2. PayQuote.total \in Int /\ NotDearer(PayQuote.total, draft, now)
  BY <1>1, QuoteGrows DEF PayQuote
<1> QED BY <1>1, <1>2 DEF ShownToPay, Closure

LEMMA ClickStep == ScreenInv /\ LedgerInv /\ Pay => LedgerInv'
<1> SUFFICES ASSUME ScreenInv, LedgerInv, Pay PROVE LedgerInv'
  OBVIOUS
<1> DEFINE c == ShownToPay
<1>1. c \in Closure /\ SoundDraft(c.draft) /\ NotDearer(c.amount, c.draft, now)
  BY ShownIsSound DEF Pay
<1>2. /\ pending' = Append(pending, c) /\ clicks' = Append(clicks, c)
      /\ made' = made /\ now' = now
  BY DEF Pay
<1> HIDE DEF c
<1>3. pending' \in Seq(Closure) /\ clicks' \in Seq(Closure) /\ made' \in Seq(MadeBooking)
  BY <1>1, <1>2 DEF LedgerInv
<1>4. /\ Len(pending) \in Nat /\ Len(pending') = Len(pending) + 1
      /\ pending'[Len(pending) + 1] = c
      /\ \A i \in 1 .. Len(pending) : pending'[i] = pending[i]
  BY <1>1, <1>2 DEF LedgerInv
<1>5. /\ Len(clicks) \in Nat /\ Len(clicks') = Len(clicks) + 1
      /\ clicks'[Len(clicks) + 1] = c
      /\ \A i \in 1 .. Len(clicks) : clicks'[i] = clicks[i]
      /\ Len(made) \in Nat
  BY <1>1, <1>2 DEF LedgerInv
<1>6. \A i \in 1 .. Len(pending') : SoundDraft(pending'[i].draft)
  BY <1>1, <1>4 DEF LedgerInv
<1>7. \A i \in 1 .. Len(pending') : NotDearer(pending'[i].amount, pending'[i].draft, now)
  BY <1>1, <1>4 DEF LedgerInv
<1>8. PaidAsShown'
  <2>1. Len(clicks') = Len(made) + Len(pending')
    BY <1>4, <1>5 DEF LedgerInv, PaidAsShown
  <2>2. ASSUME NEW i \in 1 .. Len(made)
        PROVE  clicks'[Len(made) + 1 - i] = clicks[Len(made) + 1 - i]
    BY <1>4, <1>5 DEF LedgerInv, PaidAsShown
  <2>3. ASSUME NEW i \in 1 .. Len(pending')
        PROVE  pending'[i] = clicks'[Len(made) + i]
    <3>1. Len(clicks) = Len(made) + Len(pending)
      BY DEF LedgerInv, PaidAsShown
    <3>2. CASE i = Len(pending) + 1
      BY <1>4, <1>5, <3>1, <3>2
    <3>3. CASE i # Len(pending) + 1
      <4>1. i \in 1 .. Len(pending) /\ Len(made) + i \in 1 .. Len(clicks)
        BY <1>4, <1>5, <3>1, <3>3
      <4>2. pending[i] = clicks[Len(made) + i]
        BY <4>1 DEF LedgerInv, PaidAsShown
      <4> QED BY <1>4, <1>5, <4>1, <4>2
    <3> QED BY <3>2, <3>3
  <2> QED BY <1>2, <2>1, <2>2, <2>3 DEF LedgerInv, PaidAsShown
<1> QED BY <1>2, <1>3, <1>6, <1>7, <1>8 DEF LedgerInv

LEMMA LandStep == ScreenInv /\ LedgerInv /\ Land => LedgerInv'
<1> SUFFICES ASSUME ScreenInv, LedgerInv, Land PROVE LedgerInv'
  OBVIOUS
<1> DEFINE c == Head(pending)
           b == [draft |-> c.draft, amount |-> c.amount, method |-> c.method,
                 madeAt |-> now]
<1>1. /\ pending # <<>> /\ made' = <<b>> \o made /\ pending' = Tail(pending)
      /\ now' = now /\ clicks' = clicks
  BY DEF Land, LandWith
<1>2. c = pending[1] /\ c \in Closure /\ Len(pending) \in Nat /\ 1 <= Len(pending)
  BY <1>1 DEF LedgerInv
<1>3. b \in MadeBooking
  BY <1>2, FlowAssumption DEF Closure, MadeBooking, ScreenInv
<1>4. b.draft = c.draft /\ b.amount = c.amount /\ b.method = c.method /\ b.madeAt = now
  OBVIOUS
<1>5. SoundDraft(c.draft) /\ NotDearer(c.amount, c.draft, now)
  BY <1>2 DEF LedgerInv
<1> HIDE DEF b, c
<1>6. made' \in Seq(MadeBooking) /\ pending' \in Seq(Closure)
  BY <1>1, <1>3 DEF LedgerInv
<1>7. /\ Len(pending') = Len(pending) - 1
      /\ \A i \in 1 .. Len(pending') : pending'[i] = pending[i + 1]
  BY <1>1, <1>2 DEF LedgerInv
<1>8. /\ Len(made) \in Nat /\ Len(made') = Len(made) + 1 /\ made'[1] = b
      /\ \A i \in 1 .. Len(made) : made'[i + 1] = made[i]
  BY <1>1, <1>3 DEF LedgerInv
<1>9. \A i \in 1 .. Len(made') : i = 1 \/ (i - 1 \in 1 .. Len(made) /\ made'[i] = made[i - 1])
  <2> SUFFICES ASSUME NEW i \in 1 .. Len(made'), i # 1
               PROVE  i - 1 \in 1 .. Len(made) /\ made'[i] = made[i - 1]
    OBVIOUS
  <2>1. i - 1 \in 1 .. Len(made) /\ (i - 1) + 1 = i
    BY <1>8
  <2> QED BY <1>8, <2>1
<1>10. \A i \in 1 .. Len(pending') :
          /\ SoundDraft(pending'[i].draft)
          /\ NotDearer(pending'[i].amount, pending'[i].draft, now)
  <2> SUFFICES ASSUME NEW i \in 1 .. Len(pending')
               PROVE  /\ SoundDraft(pending'[i].draft)
                      /\ NotDearer(pending'[i].amount, pending'[i].draft, now)
    OBVIOUS
  <2>1. i + 1 \in 1 .. Len(pending) /\ pending'[i] = pending[i + 1]
    BY <1>2, <1>7
  <2> QED BY <2>1 DEF LedgerInv
<1>11. \A i \in 1 .. Len(made') :
          /\ SoundDraft(made'[i].draft)
          /\ NotDearer(made'[i].amount, made'[i].draft, made'[i].madeAt)
  BY <1>4, <1>5, <1>8, <1>9 DEF LedgerInv
<1>12. PaidAsShown'
  <2>1. Len(clicks) = Len(made') + Len(pending')
    BY <1>2, <1>7, <1>8 DEF LedgerInv, PaidAsShown
  <2>2. ASSUME NEW i \in 1 .. Len(made')
        PROVE  /\ made'[i].draft = clicks[Len(made') + 1 - i].draft
               /\ made'[i].amount = clicks[Len(made') + 1 - i].amount
               /\ made'[i].method = clicks[Len(made') + 1 - i].method
    <3>1. CASE i = 1
      <4>1. Len(made') + 1 - i = Len(made) + 1
        BY <1>8, <3>1
      <4>2. clicks[Len(made) + 1] = c
        BY <1>2 DEF LedgerInv, PaidAsShown
      <4> QED BY <1>4, <1>8, <3>1, <4>1, <4>2
    <3>2. CASE i # 1
      <4>1. /\ i - 1 \in 1 .. Len(made) /\ made'[i] = made[i - 1]
            /\ Len(made') + 1 - i = Len(made) + 1 - (i - 1)
        BY <1>8, <1>9, <3>2
      <4> QED BY <4>1 DEF LedgerInv, PaidAsShown
    <3> QED BY <3>1, <3>2
  <2>3. ASSUME NEW i \in 1 .. Len(pending')
        PROVE  pending'[i] = clicks[Len(made') + i]
    <3>1. /\ i + 1 \in 1 .. Len(pending) /\ pending'[i] = pending[i + 1]
          /\ Len(made') + i = Len(made) + (i + 1)
      BY <1>2, <1>7, <1>8
    <3> QED BY <3>1 DEF LedgerInv, PaidAsShown
  <2> QED BY <1>1, <2>1, <2>2, <2>3 DEF PaidAsShown
<1> QED BY <1>1, <1>6, <1>10, <1>11, <1>12 DEF LedgerInv

\* At midnight every price stays or goes up.
LEMMA MidnightStep == ScreenInv /\ LedgerInv /\ Midnight => LedgerInv'
<1> SUFFICES ASSUME ScreenInv, LedgerInv, Midnight PROVE LedgerInv'
  OBVIOUS
<1>1. /\ now \in Nat /\ now' = now + 1 /\ pending' = pending /\ made' = made
      /\ clicks' = clicks
  BY FlowAssumption DEF ScreenInv, Midnight
<1>2. ASSUME NEW i \in 1 .. Len(pending)
      PROVE  NotDearer(pending[i].amount, pending[i].draft, now')
  <2>1. pending[i] \in Closure /\ NotDearer(pending[i].amount, pending[i].draft, now)
    BY DEF LedgerInv
  <2>2. pending[i].draft \in Draft /\ pending[i].amount \in Int
    BY <2>1 DEF Closure
  <2>3. now' \in Nat /\ now <= now'
    BY <1>1
  <2> QED BY <1>1, <2>1, <2>2, <2>3, QuoteGrows
<1>3. PaidAsShown'
  BY <1>1 DEF LedgerInv, PaidAsShown
<1> QED BY <1>1, <1>2, <1>3 DEF LedgerInv
-----------------------------------------------------------------------------
LEMMA InitIInv == Init => IInv
<1> SUFFICES ASSUME Init PROVE IInv
  OBVIOUS
<1>1. ScreenInv
  <2> DEFINE p == Screen("elsewhere", NoVehicle, FirstDay, NoDate, DefaultSlot, FirstDay)
  <2>1. p \in Page
    BY FlowAssumption DEF Screen, Page, Screens
  <2>2. p.at = "elsewhere" /\ p.asOf = FirstDay /\ p.end = NoDate
    BY DEF Screen
  <2>3. page = p /\ draft = NoDraft /\ now = FirstDay
    BY DEF Init, Elsewhere, Windowless
  <2> HIDE DEF p
  <2> QED BY <2>1, <2>2, <2>3, FlowAssumption DEF ScreenInv, ScreenSound
<1>2. LedgerInv
  BY DEF Init, LedgerInv, PaidAsShown
<1> QED BY <1>1, <1>2 DEF IInv

LEMMA StepIInv == IInv /\ [Next]_vars => IInv'
<1> SUFFICES ASSUME IInv, [Next]_vars PROVE IInv'
  OBVIOUS
<1>1. ScreenInv /\ LedgerInv /\ ScreenInv'
  BY ScreenStep DEF IInv
<1>2. UNCHANGED Store => LedgerInv'
  BY <1>1 DEF Store, LedgerInv, PaidAsShown, NotDearer
<1>3. CASE Pay
  BY <1>1, <1>3, ClickStep DEF IInv
<1>4. CASE Land
  BY <1>1, <1>4, LandStep DEF IInv
<1>5. CASE Midnight
  BY <1>1, <1>5, MidnightStep DEF IInv
<1>6. CASE Reload
  <2>1. pending' = <<>> /\ made' = <<>> /\ clicks' = <<>>
    BY <1>6 DEF Reload
  <2>2. LedgerInv'
    BY <2>1 DEF LedgerInv, PaidAsShown
  <2> QED BY <1>1, <2>2 DEF IInv
<1>7. CASE UNCHANGED vars
  BY <1>1, <1>2, <1>7 DEF vars, Store, IInv
<1>8. ASSUME NEW v \in Vehicles, OpenDetail(v) \/ OpenDates(v) PROVE UNCHANGED Store
  BY <1>8 DEF OpenDetail, OpenDates
<1>9. CASE OpenPay \/ OpenTrips \/ OpenOther \/ Rerender \/ Book \/ Proceed
  <2>1. UNCHANGED Store
    BY <1>9 DEF OpenPay, OpenTrips, OpenOther, Rerender, Book, Proceed
  <2> QED BY <1>1, <1>2, <2>1 DEF IInv
<1>10. ASSUME NEW day \in Clickable, Pick(day) PROVE UNCHANGED Store
  BY <1>10 DEF Pick
<1>11. ASSUME NEW slot \in Slots, ChooseSlot(slot) PROVE UNCHANGED Store
  BY <1>11 DEF ChooseSlot
<1>12. ASSUME NEW method \in Methods, ChooseMethod(method) PROVE UNCHANGED Store
  BY <1>12 DEF ChooseMethod
<1> QED BY <1>1, <1>2, <1>3, <1>4, <1>5, <1>6, <1>7, <1>8, <1>9, <1>10, <1>11, <1>12
        DEF Next, IInv

LEMMA SpecIInv == Spec => []IInv
BY InitIInv, StepIInv, PTL DEF Spec
-----------------------------------------------------------------------------
\* What the invariant implies.
LEMMA WhatFollows ==
    IInv => TypeOK /\ PaidAsShown /\ WindowsAreSound /\ StaleQuoteIsNeverDearer
<1> SUFFICES ASSUME IInv
             PROVE  TypeOK /\ PaidAsShown /\ WindowsAreSound /\ StaleQuoteIsNeverDearer
  OBVIOUS
<1>1. TypeOK
  BY DEF IInv, ScreenInv, ScreenSound, LedgerInv, TypeOK
<1>2. PaidAsShown
  BY DEF IInv, LedgerInv
<1>3. WindowsAreSound
  BY DEF IInv, ScreenInv, ScreenSound, LedgerInv, WindowsAreSound
<1>4. StaleQuoteIsNeverDearer
  <2>1. page.at = "pay" => NotDearer(PayQuote.total, draft, now)
    <3>1. ScreenInv
      BY DEF IInv
    <3>2. ShownToPay.amount = PayQuote.total /\ ShownToPay.draft = draft
      BY DEF ShownToPay
    <3> QED BY <3>1, <3>2, ShownIsSound
  <2> QED BY <2>1 DEF IInv, LedgerInv, StaleQuoteIsNeverDearer
<1> QED BY <1>1, <1>2, <1>3, <1>4

\* Only a click in the calendar completes a window, and it looks at the booked days that
\* the calendar shows.
LEMMA PickedWindowIsFree ==
    ASSUME IInv, Next, CompletesPick
    PROVE  \A day \in page'.start .. page'.end : ~IsBooked(page.vehicle, day, page.seen)
<1>1. page \in Page /\ page.at \in {"detail", "dates"} /\ page'.at = page.at
      /\ page.end = NoDate /\ page'.end # NoDate
  BY DEF CompletesPick, IInv, ScreenInv, ScreenSound
<1>2. PICK clicked \in Clickable : Pick(clicked)
  <2>1. ASSUME NEW v \in Vehicles PROVE ~OpenDetail(v) /\ ~OpenDates(v)
    <3>1. ScreenInv
      BY DEF IInv
    <3>2. /\ Retarget(v).end = page.end /\ DetailScreen(v).at = "detail"
          /\ draft \in Draft \cup {NoDraft} /\ (draft # NoDraft => SoundDraft(draft))
      BY <1>1, <3>1, RetargetSound, DetailSound DEF ScreenInv, ScreenSound
    <3>3. DatesScreen(v, draft).at = "dates"
      BY <3>1, <3>2, DatesSound
    <3> QED BY <1>1, <3>2, <3>3 DEF OpenDetail, OpenDates
  <2>2. \A at, day : Windowless(at, day).end = NoDate
    BY DEF Windowless, Screen
  <2>3. ~OpenPay /\ ~OpenTrips /\ ~OpenOther /\ ~Reload /\ ~Land /\ ~Proceed
    BY <1>1, <2>2 DEF OpenPay, OpenTrips, OpenOther, Reload, Land, LandWith, Proceed,
                      PayScreen, Elsewhere
  <2>4. ~Book /\ ~Pay /\ ~Midnight /\ ~Rerender
    BY <1>1 DEF Book, Pay, Midnight, Rerender, Page
  <2>5. /\ \A slot \in Slots : ~ChooseSlot(slot)
        /\ \A method \in Methods : ~ChooseMethod(method)
    BY <1>1 DEF ChooseSlot, ChooseMethod, Page
  <2> QED BY <2>1, <2>3, <2>4, <2>5 DEF Next
<1> DEFINE range == PickedRange(page.vehicle, page.start, page.end, clicked, page.seen)
<1>3. page'.start = range.start /\ page'.end = range.end
  <2> HIDE DEF range
  <2>1. \A x : [page EXCEPT !.start = range.start, !.end = range.end, !.seen = now,
                            !.asOf = x].start = range.start
    BY <1>1 DEF Page
  <2>2. \A x : [page EXCEPT !.start = range.start, !.end = range.end, !.seen = now,
                            !.asOf = x].end = range.end
    BY <1>1 DEF Page
  <2> QED BY <1>2, <2>1, <2>2 DEF Pick, range
<1>4. range.end # NoDate =>
         ~RangeHasConflict(page.vehicle, range.start, range.end, page.seen)
  BY <1>1, <1>2, PickedRangeSound, FlowAssumption DEF Page
<1> HIDE DEF range
<1> QED BY <1>1, <1>3, <1>4 DEF RangeHasConflict
-----------------------------------------------------------------------------
\* The screens, the draft and the payments stay in the states TypeOK describes: a payment
\* screen always has a draft to pay for (BookingPay.tsx, the early return).
THEOREM TypeCorrect == Spec => []TypeOK
BY WhatFollows, SpecIInv, PTL

\* Every booking is what was shown when "Pay" was clicked, in the order of the clicks,
\* whatever the user does before its timer fires (BookingPay.tsx, pay).
THEOREM PaidAsShownHolds == Spec => []PaidAsShown
BY WhatFollows, SpecIInv, PTL

\* No window runs backwards, in the draft, under way or booked (BookingDates.tsx).
THEOREM WindowsAreSoundHolds == Spec => []WindowsAreSound
BY WhatFollows, SpecIInv, PTL

\* A memoised quote that has grown old is never dearer than the day's (pricing.ts, quote;
\* BookingPay.tsx, the memo).
THEOREM StaleQuoteIsNeverDearerHolds == Spec => []StaleQuoteIsNeverDearer
BY WhatFollows, SpecIInv, PTL

\* No window that a click completes crosses a day the calendar shows as booked, its first
\* day included (Calendar.tsx, pick).
THEOREM PickedWindowsAreFreeHolds == Spec => PickedWindowsAreFree
<1> DEFINE A == CompletesPick => \A day \in page'.start .. page'.end :
                                   ~IsBooked(page.vehicle, day, page.seen)
<1>1. IInv /\ [Next]_vars => [A]_vars
  BY PickedWindowIsFree DEF CompletesPick
<1> QED BY <1>1, SpecIInv, PTL DEF Spec, PickedWindowsAreFree, A
=============================================================================
