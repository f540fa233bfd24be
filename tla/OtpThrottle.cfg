\* Two requests at once, a limit of two codes, a window of three ticks, two faults.
CONSTANTS
    Requests = {q1, q2}
    Spellings = {plain, spaced, short}
    Numbers = {plain}
    NoNumber = NoNumber
    Normalised <- SmallNormalised
    MaxPerHour = 2
    Window = 3
    MaxFaults = 2
    plain = plain
    spaced = spaced
    short = short
SPECIFICATION FairSpec
INVARIANTS
    TypeOK
    BurstIsTwoBudgets
PROPERTIES
    RefusalTellsHowLong
    BudgetComesBack
