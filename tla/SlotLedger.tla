----------------------------- MODULE SlotLedger -----------------------------
(***************************************************************************)
(* What the booking store promises to everyone outside it, with no         *)
(* transactions, locks or indexes in sight: a ledger of rows that changes  *)
(* in one indivisible step per committed transaction, and that is never,   *)
(* not even between two steps, a ledger in which two live holds on a       *)
(* vehicle share an hour or in which a renter used one idempotency key     *)
(* twice.  BookingSlots is shown to implement it.                          *)
(***************************************************************************)
EXTENDS Integers

CONSTANTS Rows,      \* row ids of bookings and blackouts
          NoRow,     \* an id with no row
          HoldingStatus,
          NoKey

VARIABLE ledger      \* [Rows -> a row or NoRow]

\* The whole hours a row covers: start inclusive, end exclusive.
HoursOf(v) == v.start .. (v.end - 1)

\* A blackout always holds its hours; a booking only while its status does.
IsLive(v) == v.table = "blackouts" \/ v.status \in HoldingStatus

\* No two live holds in the same table meet on the same vehicle.
HoldsAreApart(l) ==
    \A r, s \in Rows :
        (/\ r # s /\ l[r] # NoRow /\ l[s] # NoRow
         /\ l[r].table = l[s].table
         /\ l[r].vehicle = l[s].vehicle
         /\ IsLive(l[r]) /\ IsLive(l[s]))
        => HoursOf(l[r]) \cap HoursOf(l[s]) = {}

\* A renter's idempotency key names at most one booking.
KeysAreSpentOnce(l) ==
    \A r, s \in Rows :
        (/\ l[r] # NoRow /\ l[s] # NoRow
         /\ l[r].table = "bookings" /\ l[s].table = "bookings"
         /\ l[r].renter = l[s].renter
         /\ l[r].key = l[s].key /\ l[r].key # NoKey)
        => r = s

Bookable(l) == HoldsAreApart(l) /\ KeysAreSpentOnce(l)

\* A row is opened once, closed, or keeps its terms while its status moves:
\* a booking never silently becomes a booking of other dates or another renter.
KeepsTerms(old, new) ==
    \/ old = NoRow
    \/ new = NoRow
    \/ new = [old EXCEPT !.status = new.status]

Init == ledger = [r \in Rows |-> NoRow]

Commit ==
    /\ DOMAIN ledger' = Rows
    /\ Bookable(ledger')
    /\ \A r \in Rows : KeepsTerms(ledger[r], ledger'[r])

Spec == Init /\ [][Commit]_ledger
=============================================================================
