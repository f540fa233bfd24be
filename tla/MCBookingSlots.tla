--------------------------- MODULE MCBookingSlots ---------------------------
(***************************************************************************)
(* Small instances of BookingSlots for TLC.                                *)
(***************************************************************************)
EXTENDS BookingSlots

CONSTANTS v1, v2, alice, bob, k1    \* model values

Booking(vehicle, renter, start, end, status, key) ==
    [table |-> "bookings", vehicle |-> vehicle, renter |-> renter,
     start |-> start, end |-> end, status |-> status, key |-> key]

Blackout(vehicle, start, end) ==
    [table |-> "blackouts", vehicle |-> vehicle, renter |-> alice,
     start |-> start, end |-> end, status |-> "QUOTED", key |-> NoKey]

\* Any of these can be asked for twice, and then clashes with itself.  The first two
\* are back to back; the third is of another vehicle, under an idempotency key used
\* before; then a blackout, and the two periods the table refuses.
SlotRequests ==
    {Booking(v1, alice, 0, 1, "CONFIRMED", NoKey),
     Booking(v1, bob, 1, 3, "CONFIRMED", k1),
     Booking(v2, bob, 0, 1, "CONFIRMED", k1),
     Blackout(v1, 2, 3),
     Booking(v1, alice, 1, 1, "CONFIRMED", NoKey),
     Booking(v1, alice, 1, 0, "CONFIRMED", NoKey)}

\* Cancel a booking, or bring a cancelled one back.
SlotWanted == {"CANCELLED", "CONFIRMED"}

\* The race of the e2e test: two renters, overlapping periods, one INSERT each.
RaceRequests ==
    {Booking(v1, alice, 0, 2, "CONFIRMED", NoKey),
     Booking(v1, bob, 1, 3, "CONFIRMED", NoKey)}
=============================================================================
