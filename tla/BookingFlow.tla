---------------------------- MODULE BookingFlow ----------------------------
(***************************************************************************)
(* The booking screens of the web app: a vehicle's page, the dates, the    *)
(* payment, the pass and the list of trips, over the store of state/       *)
(* store.tsx.  All of it lives in the memory of one page and runs on one   *)
(* thread; what interleaves is the user (who may go anywhere by links and  *)
(* by the browser's history), the payment's timer, and midnight.           *)
(*                                                                         *)
(* Two things on a screen may be older than the clock: its calendar was    *)
(* rendered on day `seen`, and its memoised quote was made on day `asOf`.  *)
(***************************************************************************)
EXTENDS Pricing

CONSTANTS
    Vehicles,      \* the vehicles on offer
    daily,         \* the daily rate of each, in paise
    booked,        \* of each, the booked ranges as offsets <<from, to>> from today
    Slots,         \* pickup times
    Methods,       \* ways to pay
    DefaultSlot,
    DefaultMethod,
    NoDate,        \* null: the return date is not picked yet
    NoVehicle,     \* the vehicle of a screen that shows none
    NoDraft,       \* null: nothing is being booked
    FirstDay,      \* the day the app was opened
    LastDay,       \* bound: the last midnight modelled
    Clickable,     \* bound: the days users click, whatever month they lie in
    MaxClicks      \* bound: how often "Pay" is clicked before a reload

Draft == [vehicle : Vehicles, start : Nat, end : Nat, nights : Nat, slot : Slots]

ASSUME FlowAssumption ==
    /\ daily \in [Vehicles -> Nat]
    /\ booked \in [Vehicles -> SUBSET (Int \X Int)]
    /\ DefaultSlot \in Slots
    /\ DefaultMethod \in Methods
    /\ NoVehicle \notin Vehicles
    /\ FirstDay \in Nat /\ LastDay \in Nat /\ FirstDay <= LastDay
    /\ Clickable \subseteq Nat
    /\ NoDate \notin Nat
    /\ NoDraft \notin Draft
    /\ MaxClicks \in Nat

VARIABLES
    now,        \* today()
    page,       \* the screen that is mounted and its local state
    draft,      \* the store's draft
    pending,    \* the payments under way, oldest first: what each timer closed over
    made,       \* the store's madeBookings, newest first
    clicks      \* history: what the screen showed at every click on "Pay"

vars == <<now, page, draft, pending, made, clicks>>

Closure == [draft : Draft, amount : Int, method : Methods]
MadeBooking == [draft : Draft, amount : Int, method : Methods, madeAt : Nat]

Screens == {"detail", "dates", "pay", "confirm", "trips", "elsewhere"}
Page == [at : Screens, vehicle : Vehicles \cup {NoVehicle}, start : Nat,
         end : Nat \cup {NoDate}, slot : Slots, asOf : Nat, seen : Nat,
         method : Methods, busy : BOOLEAN]

TypeOK ==
    /\ now \in FirstDay .. LastDay
    /\ page \in Page
    /\ page.at \in {"detail", "dates"} => page.vehicle \in Vehicles
    /\ page.at = "pay" => draft # NoDraft
    /\ draft \in Draft \cup {NoDraft}
    /\ pending \in Seq(Closure)
    /\ made \in Seq(MadeBooking)
    /\ clicks \in Seq(Closure)

-----------------------------------------------------------------------------
(* Days.                                                                   *)

\* rangeHasConflict and bookedKeys: a range is booked from..to days from today, both
\* included, and moves on with today.
IsBooked(v, day, today) ==
    \E range \in booked[v] : range[1] <= day - today /\ day - today <= range[2]

\* Mutated form: the first day was free when it was clicked.
ConflictAfterFirst(v, start, end, today) ==
    \E day \in start + 1 .. end : IsBooked(v, day, today)

RangeHasConflict(v, start, end, today) ==
    \E day \in start .. end : IsBooked(v, day, today)

Nights(start, end) ==
    IF end = NoDate THEN 1 ELSE IF end - start < 1 THEN 1 ELSE end - start

\* Mutated form: a range may be picked backwards.
PickedInAnyOrder(v, start, end, day, today) ==
    IF end # NoDate \/ RangeHasConflict(v, start, day, today)
    THEN [start |-> day, end |-> NoDate]
    ELSE [start |-> start, end |-> day]

\* Calendar.pick: a click starts a new range when one is complete, when it lies before
\* the start, and when the range would cross a booked day; else it completes the range.
PickedRange(v, start, end, day, today) ==
    IF end # NoDate \/ day < start \/ RangeHasConflict(v, start, day, today)
    THEN [start |-> day, end |-> NoDate]
    ELSE [start |-> start, end |-> day]

\* The day is in the grid and its button is not disabled: not past, not booked.
CanClick(day) == day >= page.seen /\ ~IsBooked(page.vehicle, day, page.seen)

-----------------------------------------------------------------------------
(* Screens.  Each has every field; those it does not use keep their first  *)
(* value, so that a screen left and entered again is a new one.            *)

Screen(at, v, start, end, slot, day) ==
    [at |-> at, vehicle |-> v, start |-> start, end |-> end, slot |-> slot,
     asOf |-> day, seen |-> day, method |-> DefaultMethod, busy |-> FALSE]

DetailScreen(v) == Screen("detail", v, now + 3, now + 5, DefaultSlot, now)

\* The dates come from the draft, whatever vehicle it is of.
DatesScreen(v, d) ==
    IF d = NoDraft THEN Screen("dates", v, now + 3, now + 5, DefaultSlot, now)
                   ELSE Screen("dates", v, d.start, d.end, d.slot, now)

\* A screen without a window of its own.
Windowless(at, day) == Screen(at, NoVehicle, FirstDay, NoDate, DefaultSlot, day)

PayScreen == Windowless("pay", now)
Elsewhere == Windowless("elsewhere", FirstDay)

\* The same component for another vehicle: React keeps its state, and what is computed
\* from the vehicle is computed again.
Retarget(v) ==
    [page EXCEPT !.vehicle = v, !.seen = now,
                 !.asOf = IF v = page.vehicle THEN page.asOf ELSE now]

\* The draft of a dates or detail screen; while the end is missing it stays as it was.
DraftOf(p) ==
    IF p.end = NoDate THEN draft
    ELSE [vehicle |-> p.vehicle, start |-> p.start, end |-> p.end,
          nights |-> Nights(p.start, p.end), slot |-> p.slot]

\* The booking panel's and the summary's quote, and the amount on the "Pay" button.
PanelQuote ==
    Quote(daily[page.vehicle], page.start, Nights(page.start, page.end), page.asOf)

\* What the panel and the summary show: the window, the demand and the breakdown.
Panel ==
    [from |-> page.start, until |-> page.end, demand |-> PanelQuote.mult > 10,
     lines |-> Breakdown(PanelQuote), total |-> PanelQuote.total]

PayQuote == Quote(daily[draft.vehicle], draft.start, draft.nights, page.asOf)

\* The pass of the confirmation screen: the newest booking, or a notice.
HasPass == made # <<>>
Pass == [draft |-> Head(made).draft, paid |-> Head(made).amount,
         method |-> Head(made).method, pickup |-> Head(made).draft.start - now]

\* What the payment screen shows: the trip, the amount, the method that is marked.
ShownToPay == [draft |-> draft, amount |-> PayQuote.total, method |-> page.method]

-----------------------------------------------------------------------------
(* Going somewhere.                                                        *)

Store == <<now, pending, made, clicks>>

OpenDetail(v) ==
    /\ page' = IF page.at = "detail" THEN Retarget(v) ELSE DetailScreen(v)
    /\ UNCHANGED <<Store, draft>>

\* Mounting saves the dates in the draft, and so does a change of the vehicle.
OpenDates(v) ==
    /\ page' = IF page.at = "dates" THEN Retarget(v) ELSE DatesScreen(v, draft)
    /\ draft' = DraftOf(page')
    /\ UNCHANGED Store

\* Mutated form: the screen takes it for granted that there is a draft.
OpenPayUnguarded ==
    /\ page.at # "pay"
    /\ page' = PayScreen
    /\ UNCHANGED <<Store, draft>>

\* Without a draft there is a notice and no screen.
OpenPay ==
    /\ page.at # "pay"
    /\ page' = IF draft = NoDraft THEN Elsewhere ELSE PayScreen
    /\ UNCHANGED <<Store, draft>>

\* Screens without a choice of their own; "elsewhere" is any other route.
OpenOther ==
    /\ \E at \in {"confirm", "elsewhere"} : page' = Windowless(at, FirstDay)
    /\ UNCHANGED <<Store, draft>>

\* The renter's trips; their list is made once and keeps the days of its making.
OpenTrips ==
    /\ page.at # "trips"
    /\ page' = Windowless("trips", now)
    /\ UNCHANGED <<Store, draft>>

\* The browser loads the page anew: nothing of the store is kept, no timer runs on.
Reload ==
    /\ page' = Elsewhere
    /\ draft' = NoDraft
    /\ pending' = <<>> /\ made' = <<>> /\ clicks' = <<>>
    /\ UNCHANGED now

-----------------------------------------------------------------------------
(* Doing something there.                                                  *)

\* A click in the calendar.  The quote is made anew when the start is another Date
\* object or the number of nights changes; the dates screen saves a complete range.
Pick(day) ==
    LET range == PickedRange(page.vehicle, page.start, page.end, day, page.seen)
        same == /\ range.end # NoDate
                /\ Nights(page.start, page.end) = Nights(range.start, range.end)
    IN  /\ page.at \in {"detail", "dates"}
        /\ CanClick(day)
        /\ page' = [page EXCEPT !.start = range.start, !.end = range.end, !.seen = now,
                                !.asOf = IF same THEN page.asOf ELSE now]
        /\ draft' = IF page.at = "dates" THEN DraftOf(page') ELSE draft
        /\ UNCHANGED Store

ChooseSlot(slot) ==
    /\ page.at = "dates" /\ slot # page.slot
    /\ page' = [page EXCEPT !.slot = slot, !.seen = now]
    /\ draft' = DraftOf(page')
    /\ UNCHANGED Store

\* Anything else that renders the screen again: a toast that comes or goes, a picture
\* of the gallery, a letter typed in the driver's details.
Rerender ==
    /\ page.at \in {"detail", "dates"} /\ page.seen # now
    /\ page' = [page EXCEPT !.seen = now]
    /\ UNCHANGED <<Store, draft>>

\* "Book now": the draft of this window, and the dates screen with it.
Book ==
    /\ page.at = "detail" /\ page.end # NoDate
    /\ draft' = DraftOf(page)
    /\ page' = DatesScreen(page.vehicle, draft')
    /\ UNCHANGED Store

\* "Continue to payment"; the button is disabled without a return date.
Proceed ==
    /\ page.at = "dates" /\ page.end # NoDate
    /\ draft' = DraftOf(page)
    /\ page' = PayScreen
    /\ UNCHANGED Store

ChooseMethod(method) ==
    /\ page.at = "pay" /\ method # page.method
    /\ page' = [page EXCEPT !.method = method]
    /\ UNCHANGED <<Store, draft>>

\* The click on "Pay": the timer closes over what the screen shows.
Pay ==
    /\ page.at = "pay" /\ ~page.busy /\ Len(clicks) < MaxClicks
    /\ page' = [page EXCEPT !.busy = TRUE]
    /\ pending' = Append(pending, ShownToPay)
    /\ clicks' = Append(clicks, ShownToPay)
    /\ UNCHANGED <<now, draft, made>>

\* A booking of draft d, and the confirmation screen, wherever the user is by now.  All
\* timers run equally long, so the oldest one is next.
LandWith(d) ==
    /\ pending # <<>>
    /\ made' = <<[draft |-> d, amount |-> Head(pending).amount,
                  method |-> Head(pending).method, madeAt |-> now]>> \o made
    /\ pending' = Tail(pending)
    /\ page' = Windowless("confirm", FirstDay)
    /\ UNCHANGED <<now, draft, clicks>>

\* Mutated form: the booking is made of the draft as it is when the timer fires.
LandCurrentDraft == LandWith(draft)

\* Mutated form: the timer belongs to the screen and dies with it.
LandOnPayScreen == page.at = "pay" /\ page.busy /\ LandWith(Head(pending).draft)

\* The timer fires.
Land == LandWith(Head(pending).draft)

Midnight ==
    /\ now < LastDay
    /\ now' = now + 1
    /\ UNCHANGED <<page, draft, pending, made, clicks>>

-----------------------------------------------------------------------------
Init ==
    /\ now = FirstDay
    /\ page = Elsewhere
    /\ draft = NoDraft
    /\ pending = <<>> /\ made = <<>> /\ clicks = <<>>

Next ==
    \/ \E v \in Vehicles : OpenDetail(v) \/ OpenDates(v)
    \/ OpenPay \/ OpenTrips \/ OpenOther \/ Reload
    \/ \E day \in Clickable : Pick(day)
    \/ \E slot \in Slots : ChooseSlot(slot)
    \/ Rerender \/ Book \/ Proceed
    \/ \E method \in Methods : ChooseMethod(method)
    \/ Pay \/ Land \/ Midnight

\* A timer that was set fires; nobody has to do anything, and no day has to end.
Fairness == WF_vars(Land)

Spec == Init /\ [][Next]_vars /\ Fairness

-----------------------------------------------------------------------------
(* Properties.                                                             *)

\* Every payment makes one booking, of the vehicle, the window, the amount and the
\* method that the screen showed when "Pay" was clicked, in the order of the clicks,
\* whatever the user does before the timer fires (BookingPay.tsx, pay).
PaidAsShown ==
    /\ Len(clicks) = Len(made) + Len(pending)
    /\ \A i \in 1 .. Len(made) :
          LET b == made[i]
              click == clicks[Len(made) + 1 - i]
          IN  /\ b.draft = click.draft
              /\ b.amount = click.amount
              /\ b.method = click.method
    /\ \A i \in 1 .. Len(pending) : pending[i] = clicks[Len(made) + i]

\* A window never runs backwards, and its number of days is the one between its dates,
\* or one when they are the same: in the draft, under way, and booked, though the three
\* numbers are kept apart (BookingDates.tsx, the range and its effect).
SoundDraft(d) == d.start <= d.end /\ d.nights = Nights(d.start, d.end)

WindowsAreSound ==
    /\ draft # NoDraft => SoundDraft(draft)
    /\ \A i \in 1 .. Len(pending) : SoundDraft(pending[i].draft)
    /\ \A i \in 1 .. Len(made) : SoundDraft(made[i].draft)

\* A window completed in the calendar crosses no day that the calendar shows as booked,
\* its first day included: that day was free when it was clicked, but the booked days
\* move at midnight and the screen may have changed its vehicle (Calendar.tsx, pick).
CompletesPick ==
    /\ page.at \in {"detail", "dates"} /\ page'.at = page.at
    /\ page'.vehicle = page.vehicle
    /\ page.end = NoDate /\ page'.end # NoDate

PickedWindowsAreFree ==
    [][CompletesPick => \A day \in page'.start .. page'.end :
                            ~IsBooked(page.vehicle, day, page.seen)]_vars

\* Nobody pays more than the price of the day the booking is made: a quote that is older
\* than that can only be cheaper (pricing.ts, quote; the memo in BookingPay.tsx).
NotDearer(amount, d, day) ==
    amount <= Quote(daily[d.vehicle], d.start, d.nights, day).total

StaleQuoteIsNeverDearer ==
    /\ page.at = "pay" => NotDearer(PayQuote.total, draft, now)
    /\ \A i \in 1 .. Len(pending) : NotDearer(pending[i].amount, pending[i].draft, now)
    /\ \A i \in 1 .. Len(made) : NotDearer(made[i].amount, made[i].draft, made[i].madeAt)

\* A payment that was started makes its booking, wherever the user goes, unless the page
\* is loaded anew (BookingPay.tsx: nothing clears the timer).
EveryPaymentLands ==
    \A k \in 1 .. MaxClicks : Len(clicks) >= k ~> (Len(made) >= k \/ clicks = <<>>)
=============================================================================
