\* Two vehicles, three days to click on, one midnight; the catalogue as it is.
CONSTANTS
    MaxPaise = 1000000000
    Vehicles <- BookedVehicles
    daily <- BookedDaily
    booked <- BookedRanges
    Slots = {s09, s11}
    Methods = {upi, card}
    DefaultSlot = s09
    DefaultMethod = upi
    NoDate = NoDate
    NoVehicle = NoVehicle
    NoDraft = NoDraft
    FirstDay = 4
    LastDay = 5
    Clickable = {11, 12, 14}
    MaxClicks = 2
    NoDay = NoDay
    Today = 4
    Prices = {119900, 449900}
    Distances = {5, 60}
    Days = {5, 7, 9}
    Stars = {1, 5}
    OnlyLooked = {11}
    Kinds = {"looks", "pays twice", "chooses", "browses", "manages"}
SPECIFICATION WebSpec
INVARIANTS
    TypeOK
    PaidAsShown
    WindowsAreSound
    StaleQuoteIsNeverDearer
    CountsMatchLists
PROPERTIES
    PickedWindowsAreFree
    EveryPaymentLands
