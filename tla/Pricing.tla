------------------------------ MODULE Pricing ------------------------------
(***************************************************************************)
(* frontend/src/lib/pricing.ts over days that are integers: day d falls on *)
(* weekday d % 7, 0 being Sunday.  Multipliers are tenths, rates percent.  *)
(***************************************************************************)
EXTENDS Money, FiniteSetsExt

OwnerCommissionBps == 1500
PlatformFeePercent == 5
PlatformFeeFloor == ToPaise(29)
GstPercent == 18

\* The demand of one day: Friday and Saturday, Sunday, Thursday, the others.
DemandFor(day) ==
    IF day % 7 \in {5, 6} THEN 13
    ELSE IF day % 7 = 0 THEN 12
    ELSE IF day % 7 = 4 THEN 11
    ELSE 10

\* The dearest day of the range sets the multiplier of the whole booking.
DemandForRange(start, nights) ==
    Max({DemandFor(start + i) : i \in 0 .. (IF nights < 1 THEN 0 ELSE nights - 1)})

\* Mutated form: the discount of the last days is the largest.
LastMinuteDiscount(daysAhead) == IF daysAhead < 3 THEN 15 ELSE 0

AdvanceDiscount(daysAhead) ==
    IF daysAhead >= 14 THEN 15
    ELSE IF daysAhead >= 7 THEN 10
    ELSE IF daysAhead >= 3 THEN 5
    ELSE 0

\* The fare of n days at a daily rate: surge, discount, platform fee and GST, each
\* rounded as soon as it is made.  The deposit is no part of it.
Charge(daily, n, mult, percent) ==
    LET base == MulPaise(daily, n, 1)
        surge == MulPaise(base, mult - 10, 10)
        fare == base + surge
        discount == MulPaise(fare, percent, 100)
        net == fare - discount
        share == MulPaise(net, PlatformFeePercent, 100)
        fee == IF share > PlatformFeeFloor THEN share ELSE PlatformFeeFloor
        gst == MulPaise(net + fee, GstPercent, 100)
    IN  [nights |-> n, base |-> base, mult |-> mult, surge |-> surge,
         percent |-> percent, discount |-> discount, fee |-> fee, gst |-> gst,
         total |-> net + fee + gst]

\* quote(), asked on day `now` for a rental that starts on day `start`.
Quote(daily, start, nights, now) ==
    LET n == IF nights < 1 THEN 1 ELSE nights
        ahead == IF start < now THEN 0 ELSE start - now
    IN  Charge(daily, n, DemandForRange(start, n), AdvanceDiscount(ahead))

\* PriceBreakdown: the lines a reader adds up.  Surge and discount have a line only
\* when there is one, and the discount's amount is subtracted.
Breakdown(q) ==
    <<q.base>> \o (IF q.surge > 0 THEN <<q.surge>> ELSE <<>>)
               \o (IF q.discount > 0 THEN <<-q.discount>> ELSE <<>>)
               \o <<q.fee, q.gst>>

\* What the owner receives of a gross amount.
OwnerPayout(gross) == gross - MulPaise(gross, OwnerCommissionBps, 10000)
=============================================================================
