\* Two sessions, two rows, transactions of up to two statements; no symmetry, as one of
\* the properties is a liveness property.
CONSTANTS
    Rows = {r1, r2}
    Tx = {t1, t2}
    Vehicles = {v1, v2}
    Renters = {alice, bob}
    Keys = {k1}
    Requests <- SlotRequests
    Wanted <- SlotWanted
    MaxStatements = 2
    Deleted = Deleted
    NoRow = NoRow
    Untouched = Untouched
    NoKey = NoKey
    v1 = v1
    v2 = v2
    alice = alice
    bob = bob
    k1 = k1
SPECIFICATION FairSpec
INVARIANTS
    TypeOK
    NoDoubleBooking
    OneBookingPerKey
PROPERTIES
    OnlyTrueClashIsRefused
    ImplementsLedger
    EveryTransactionEnds
