\* Two requests at once, and what one fault at the wrong moment does.
CONSTANTS
    Requests = {q1, q2}
    Spellings = {plain, spaced, short}
    Numbers = {plain}
    NoNumber = NoNumber
    Normalised <- SmallNormalised
    MaxPerHour = 2
    Window = 3
    MaxFaults = 1
    plain = plain
    spaced = spaced
    short = short
SPECIFICATION FairSpec
PROPERTY NotBlockedForever
