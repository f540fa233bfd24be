\* Two calls at once, two sign-ins.
CONSTANTS
    Calls = {c1, c2}
    Sessions = {s1, s2}
    NoToken = NoToken
SPECIFICATION FairSpec
INVARIANTS
    TypeOK
    RefusedOnlyWhenOver
    WaitersHaveARefresh
PROPERTIES
    EveryCallSettles
