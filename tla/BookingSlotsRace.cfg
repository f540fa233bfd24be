\* Two sessions with one INSERT each, as in the concurrent e2e test.
CONSTANTS
    Rows = {r1, r2}
    Tx = {t1, t2}
    Vehicles = {v1, v2}
    Renters = {alice, bob}
    Keys = {k1}
    Requests <- RaceRequests
    Wanted = {}
    MaxStatements = 1
    Deleted = Deleted
    NoRow = NoRow
    Untouched = Untouched
    NoKey = NoKey
    v1 = v1
    v2 = v2
    alice = alice
    bob = bob
    k1 = k1
SPECIFICATION Spec
INVARIANTS
    RaceLoserIsNotAServerError
