# Rent-o-Ride: a TLA+ model of the booking store, the API's guards and the web app

Rent-o-Ride is a peer-to-peer vehicle rental: a NestJS API on Postgres, Redis and
Supabase Auth, a React web app, and a small shared package. The repository holds phases
0 to 2 of its build guide: the database with its guarantees, authentication, KYC uploads
and owner applications, and a web app whose booking screens still run on local data.

Two things make it hard. In the API several requests run at once, and what keeps them
apart is a constraint, an index, a row lock, a counter in Redis, a transaction-local
setting or a shared promise. In the web app one user does things in an order nobody
wrote down, while a timer runs, midnight passes, and values that were computed once stay
on the screen. Both are modelled here.

## The system

| Component | State it keeps | Operations | What makes it correct |
|---|---|---|---|
| Bookings and blackouts store (init migration) | two tables, two EXCLUDE constraints, one partial unique index | INSERT, UPDATE of the status, DELETE, in concurrent transactions | no vehicle is held twice, no key is spent twice, no free slot is refused, no transaction hangs |
| Exception filter | none | SQLSTATE to error code | the loser of a race gets a code it can act on |
| Authentication and bootstrap (`JwtAuthGuard`, `TokenVerifier`, `AuthRepository`) | `users` with three unique indexes | verify, find or insert, read again | one account per identity, nobody served as somebody else, no false conflict |
| Privileged writes (`PrivilegedWritesService`, `KycService`, `OwnersController`) | `owner_profiles`, `kyc_documents`, `users.kyc_status`, `audit_log` | apply, open a document | evidence matches acts, a verification is never taken back, no bytes without a row |
| OTP throttle (`OtpThrottleGuard`, `OtpService.sendOtp`) | a Redis counter per number | INCR, EXPIRE, TTL, send | at most two budgets around a boundary, the budget comes back |
| Session endpoints (`OtpService.refresh`, `signOut`, `verifyOtp`) | Supabase's sessions | rotate, revoke, begin | a rotated token is spent once |
| Web session client (`session.ts`, `api-client.ts`, `auth.tsx`) | access token, stored refresh token, `inFlightRefresh`, actor | restore, sign in, sign out, call with one retry | every call settles, one refresh for all |
| Scoped client and RLS (`ScopedPrismaClient`, policies, grants) | session variables of pooled connections | `runScoped`, `runAnonymous` | a query never runs as the previous borrower |
| Role and KYC guards | none (the request's actor) | `canActivate` | decisions and rows go by one and the same actor |
| Booking screens (`VehicleDetail`, `BookingDates`, `BookingPay`, `BookingConfirm`, `state/store.tsx`, `Calendar`) | draft, bookings made, payments under way, the mounted screen | pick dates, book, pay, come back | the booking is the one that was shown and paid |
| Browsing (`Landing`, `Search`, `MapPanel`, `VehicleCard`) | the city, the filters | filter, sort, search, clear | the counts beside the types, on the tabs and on the map agree with the lists |
| Dashboards (`RenterDashboard`, `OwnerDashboard`) | status of vehicles, stars | rate, switch on and off | the tiles agree with the rows |
| Money and prices (`shared/money.ts`, `lib/pricing.ts`) | none | rounding, splitting, quoting | no paisa lost or invented, who asks earlier pays no more |
| Configuration, health, logging, seed script | none | start-up, probes | not modelled |

How they interact: every request of the web app passes `JwtAuthGuard`, which verifies its
token and finds or creates the user's row; the controllers then call a service, which
reads through the scoped client (RLS applies) or writes through `PrivilegedWritesService`
(table owner, RLS does not apply). Whatever Postgres refuses ends in the exception filter.
Sending a code passes the throttle first. A 401 makes the web client refresh, once for all
calls that met it, through the API and Supabase. The booking screens, the search and the
dashboards do not call the API yet: they work on the catalogue of `data/seed.ts` and on
the store, in the memory of one page.

The hazards, each at its line and with the property that watches it, are in
`PROJECT.json`; those without a property say why.

## The modules

| Module | Models | Shares |
|---|---|---|
| `ExceptionFilter` | `fromSqlState` and the fall-through to 500 | extended by every module that writes to Postgres |
| `SlotLedger` | the abstract promise of the booking store: a ledger that changes in one legal step per commit | refined by `BookingSlots` |
| `BookingSlots` | the two tables and their constraints under concurrent READ COMMITTED transactions | extends `ExceptionFilter`, instantiates `SlotLedger` |
| `FindOrCreate` | the abstract promise of the bootstrap: a request is resolved in one step | refined by `UserBootstrap` |
| `UserBootstrap` | from bearer token to actor, against `users` | extends `ExceptionFilter`, instantiates `FindOrCreate` |
| `ActsOnRecord` | the abstract promise of the privileged writes: an act and its evidence are one step | refined by `PrivilegedWrites` |
| `PrivilegedWrites` | both transitions of `PrivilegedWritesService`, the upload ticket before and the bytes after | extends `ExceptionFilter`, instantiates `ActsOnRecord` |
| `OtpThrottle` | the guard's three awaits on Redis, expiry, faults | |
| `SessionClient` | one page of the web app against the API and Supabase | |
| `AdmittedReads` | the abstract promise of the reading routes: admitted once, answered in one step | refined by `ScopedPool` |
| `ScopedPool` | the three guards, `runScoped` on pooled connections, the read policies, the three routes that read | instantiates `AdmittedReads` |
| `Money` | `shared/src/money.ts`: rounding, products, sums, splits | |
| `Pricing` | `lib/pricing.ts`: demand, discounts, quotes, the breakdown's lines, the payout | extends `Money` |
| `Catalogue` | `data/seed.ts` | |
| `BookingFlow` | the screens from a vehicle's page to the pass, the store, the timer, midnight | extends `Pricing` |
| `Browsing` | the landing page and the search screen | extends `Catalogue`, `Pricing` |
| `Dashboards` | the renter's and the owner's screen | extends `Catalogue`, `Pricing` |
| `MCBookingSlots`, `MCUserBootstrap`, `MCOtpThrottle`, `MCScopedPool` | small instances for TLC | extend the module they instantiate |
| `MCWebApp` | the web app's three modules on one instance | extends `BookingFlow`, `Browsing`, `Dashboards` |
| `*Proofs` | theorems, checked by TLAPS | extend the module they are about |

Grain: one action is what happens between two awaits (JavaScript) or one statement
(Postgres) or one command (Redis); where a statement can be overtaken inside itself, it is
several actions. A definition whose comment begins "Mutated form" is not part of the
specification: it stands before the definition it corrupts and shows that the properties
notice.

### BookingSlots

`committed` is what a new snapshot reads; `draft[t]` is what transaction `t` has written
and nobody else reads. An INSERT (or an UPDATE of the status, which makes a new row
version and hence new index entries) is written first and checked afterwards, against one
index after the other: `phase` `"exclusion"`, then `"uniqueness"`. `WaitsFor` is whom the
check waits for: the other transactions that hold a clashing draft, or are changing a
clashing committed row. `Accept`, `Refuse` (23P01 or 23505) and `BreakDeadlock` (40P01)
end a check; `Change` first waits for the row lock and re-reads the row. The asymmetry in
`Entered` is Postgres's: a GiST entry is there from the moment the tuple is written, a
unique index takes its entry only when the check lets it in, so only exclusion checks can
deadlock over a single statement. Periods are whole hours; `tstzrange` refuses a backwards
one (22000) before the CHECK refuses an empty one (23514).

No service of the repository writes bookings yet (Phase 6); what is modelled is the
guarantee the migration makes to any writer, with the statements the e2e tests send.

### UserBootstrap

A request goes through `verify`, `lookup`, `insert` (one step per unique index, so that it
can lose in any of them and wait in any of them) and, after 23505, `reread`. `RowFor` is
the row `findOrBootstrap` builds, with one spelling per phone number and NULL for the
empty strings Supabase sends. `Conclude` is the rest of the guard: on a public route every
failure degrades to an anonymous request. What makes a token valid is one flag.

Outside, `users`, `call`, `reply` and `actor` are seen, and `FindOrCreate` is what they
promise: `Find`, `Create`, `Conflict`, `Uncontactable` or `Fail`, each whole. `Create` asks
that nobody has the contact details and `Conflict` that somebody has them, both in the
state the step is taken in, which the concrete request last looked at some awaits before.

### PrivilegedWrites

A call is an owner application or an upload. Each statement of the transaction is a step
(`Step`); its writes are collected in `draft` and reach the tables at `Commit`, whose
acknowledgement may be lost. A drafted profile occupies its key of the primary-key index,
a drafted `kyc_status` locks the user's row, and `MoveToPending` evaluates its WHERE on
what the previous holder of the lock left behind, as READ COMMITTED does. `Verdict` is the
administrator of Phase 11, an outside actor that commits in one step. `PutBytes` is the
browser's upload with the signed URL, at any time after the answer or never.

`ActsOnRecord` knows the tables, the bucket and what clients are being told
(`promised`, mapped to `Promised`). Its `OpenDocument` may leave the status alone whenever
it is not NONE, where a serializable store would move REJECTED to PENDING: between
`MoveToPending` and the commit a verdict on an earlier document may make a user REJECTED
who was PENDING when the upload looked, and who then has a new document and stays
REJECTED. That is READ COMMITTED, and what the code's comments promise does not exclude
it.

### OtpThrottle

`count` and `ttl` are Redis's view of the keys (`-2` no key, `-1` no expiry). Between the
guard's INCR, EXPIRE and TTL other requests and the clock interleave. A fault is a reply
that is lost although Redis ran the command (ioredis resends it) or a request that is cut
short. `passed` is a history variable: the requests a number was let through with in the
last `Window` ticks, each with its age, its key and the count it was answered. A counter
counts up and starts again only when it is gone, so no two of them are the same record
(`EveryOneCounts`, proved), and the size of the set is how many they were.

### SessionClient

`access` and `stored` are the two tokens of `session.ts`; `inflight` is
`inFlightRefresh`: `"running"`, or `"settled"` when the promise of an attempt without a
token was never reset. A token is named by its session and by how many rotations it is
behind. `Sharing` is everybody who awaits the same refresh. `Serve`, `ServeRefresh` and
`Verify` are the API and Supabase. A page reload drops everything in memory and every
answer under way.

### ScopedPool

A request is authenticated once: `Authenticate` reads the user's row, keeps the actor in
`actor[q]` and runs `RolesGuard` and `KycGuard` on it. What follows uses this snapshot,
while `Administer` may change role and KYC status at any time. `Begin`, `SetUser`,
`SetRole`, `Query`, `Commit` are `runScoped`, await by await: it borrows a connection,
sets `app.user_id` and `app.user_role` on it, reads, and gives it back with the settings
reverted, because they are transaction-local. `Visible` is the policy, which knows only
the settings; `Named` is the WHERE clause, which knows the actor. `Fail` is a database
error or a timeout anywhere in between.

Both settings are always set before a query, so a setting that outlived its transaction
would be overwritten by the next borrower: it could only be seen by a query outside
`runScoped`, and the only one is `HealthRepository`'s `SELECT 1`. `AnsweredAsOneself`
therefore also says of free connections that nothing is set on them. `runAnonymous` has
no caller. No shipped route has `@Roles` or `@RequiresKyc`; the two routes of the guards'
own test stand for them.

Outside, `role`, `kyc`, `call`, `actor`, `reply` and the rows of an answer (`Shown`) are
seen. `AdmittedReads` promises that a request is admitted at one moment, with role and
verdict looked at together, and answered in one step with what that actor is entitled to.
Its `Entitled` is written from what the routes are for, without policies or settings; that
an administrator lists only his own documents follows there from the rule itself, in
`ScopedPool` from the WHERE clause that cuts the policy's answer down.

### Money and Pricing

Amounts are whole paise. The factors of the code are doubles (`0.05`, `0.18`,
`mult - 1`), modelled as the fractions they stand for; multipliers are integers in
tenths, discounts in percent. `paise()` throws beyond a cap; the operators do not throw,
and `ChargeFits` (below) shows that a quote stays under the cap. Day `d` falls on weekday
`d % 7`.

### BookingFlow

`page` is the mounted screen with its local state, `draft`, `made` the store, `pending`
what each running payment timer closed over, `now` the day. Two ages matter: `seen` is
the day the calendar was last rendered on, `asOf` the day the memoised quote was made on;
`Midnight` moves `now` and neither of them. `Pick` is `Calendar.pick` with the screen's
`useMemo` and effect behind it. React keeps a component's state when only its vehicle
changes: `Retarget`. A user goes anywhere at any time (links, the browser's history), and
`Land` is the timer, which nothing clears. `Reload` forgets it all. `clicks` is a history
variable: what the payment screen showed at each click on Pay.

### Browsing, Dashboards, Catalogue

`Catalogue` is the data itself, with the assumption (`SeedIsClosed`) that ids are unique
and every reference has its target, which TLC evaluates. `Browsing` has the store's city
and the screen's filters apart, as the code does: the address is read when the search
screen is mounted and never again. The numbers a screen announces are operators of their
own (`TypeCounts`, `ActiveCount`, `RenterStats`, `OwnerStats`), translated from the
expressions that compute them; the lists are others (`Results`, `HistoryRow`,
`ListingRow`). `CountsMatchLists` relates the two for the numbers it names, and only for
those. `ElectricCount` and `VehiclesLive` are numbers that are wrong: `AnnouncedAmiss`.

`filter` and `sort` are `Filtered` and `Arranged` of `Catalogue`, by positions: at place
`k` of the result is the one kept position that `k - 1` others go before, by a lower key
or, the sort being stable, by an equal one and an earlier place. The community modules'
`SelectSeq` and `SortSeq` would say the same, but no prover sees into them.

`MCWebApp` puts the three side by side. They share the bookings made and nothing else
that changes, so their interleavings are not explored: a session is of one `kind`, chosen
at the start.

## What the runs check

Every property of a passing run has a mutant in `PROJECT.json` that breaks it.

**slots** (two sessions, two rows, two statements per transaction, no symmetry because of
the liveness property; 240 039 states): `NoDoubleBooking`, `OneBookingPerKey`,
`OnlyTrueClashIsRefused`, `ImplementsLedger`, `EveryTransactionEnds`. Two sessions are
enough for each wait and each cycle of two, two rows for a committed row and a draft that
clashes with it, for two drafts that wait for each other, and for a slot that is
cancelled and reopened; the requests contain back-to-back periods, a second vehicle, a
reused key, a blackout and both bad periods. The theorems below lift the bounds of the
safety properties.

**slots_race**, a disagreement: `RaceLoserIsNotAServerError` fails. See the findings.

**user_bootstrap** (two requests, each slot used again and again; two identities that
claim the same phone number in two spellings and the same email address; eight calls,
among them one with no contact, one invalid and one without a token; 69 508 states): the
properties of the bootstrap and `ImplementsFindOrCreate`. Three row ids leave one spare,
so that a second account of an identity would have room.

**auth_keys**, a disagreement: `FaultIsNotUnauthenticated` fails.

**privileged_writes** (two calls at once, two users, two documents; 154 380 states):
`EvidenceMatchesActs`, `OpenedIsUnderReview`, `UploadHasARow`, `NeverUnverifiedByUpload`,
`ImplementsActs`, `EveryWriteEnds`. Two calls of one user are the double tap and the
double upload; the second user shows that nothing leaks between users.

**owner_double_tap**, a disagreement: `DoubleTapIsNotAnError` fails.

**otp_throttle** (two requests, a limit of two, a window of three ticks, two faults; one
number in two spellings and a text that is no number; 144 564 states): `BurstIsTwoBudgets`,
`RefusalTellsHowLong`, `BudgetComesBack`. Above the limit every count is treated alike, so
the counter saturates at one more.

**otp_lockout** (one fault), a disagreement: `NotBlockedForever` fails.

**session_client** (two calls, two sign-ins): `RefusedOnlyWhenOver`,
`WaitersHaveARefresh`, `EveryCallSettles`. Two calls are the caller of a refresh and one
who joins it; two sign-ins let an old session's answers arrive in a new one.

**session_stuck**, a disagreement: `StoredSessionIsTried` fails.

**scoped_pool** (two requests over two connections, two users with a document each, one of
them with an owner profile; ten calls; the administrator works on one user; 448 548 states
up to the symmetry of requests and of connections, which only safety properties are
checked under): `AnsweredAsOneself`, `ImplementsReads`. Two requests can hold connections
side by side or one after the other on the same connection, and a change of role or a
verdict can fall between any two awaits. The theorems lift the bounds.

**web_app** (219 908 states): `PaidAsShown`, `WindowsAreSound`, `StaleQuoteIsNeverDearer`,
`CountsMatchLists`, `PickedWindowsAreFree`, `EveryPaymentLands`, and with them every
action of the three modules. Two vehicles of the catalogue, three days to click on, one
midnight (from a Thursday to a Friday, day 4 to day 5: discounts and booked days both
move over it). Sessions of kind "looks" go through all screens with one payment; "pays
twice" and "chooses" leave out the vehicles' own pages and have two payments, or one at
any time and by any method; "browses" and "manages" are the other two modules. The
catalogue is the real one.

`CountsMatchLists` is about these numbers: beside each type, while only types are chosen;
beside "Electric only", as an upper bound; on the button that clears the filters; on the
map; on a landing tab; the total of the booking panel; the amount of the pass; the renter's
tiles; the owner's earning listings. It says nothing of texts and literals, and three
announcements it leaves out are false. They are stated as such by `AnnouncedAmiss`, an
assumption over the catalogue that TLC evaluates; see the findings.
`PickedWindowsAreFree` is about windows that a click completes, and about no others.

### The findings

- A race for a slot can end in a deadlock (40P01), which the filter does not know: 500
  instead of the promised 409 SLOT_TAKEN. The slot itself is safe.
- An outage of the key endpoint is answered 401, against the guard's own comment.
- Two overlapping taps on "apply": the second is told 409, against "idempotent".
- A fault between INCR and EXPIRE, or a resent INCR, blocks a number for ever.
- `refreshOnce` without a stored token never resets its promise; after the next sign-in no
  401 is refreshed until the page is reloaded.

Smaller disagreements were met while modelling the web app. They are modelled as the code
has them, and no run is spent on them:

- `Calendar.tsx:11` says that a vehicle "can never be double-booked", and
  `VehicleDetail.tsx:172` "one vehicle, one renter, one window". The window a screen
  starts with (today + 3 to today + 5) is not checked against the booked days, a draft
  keeps its dates when the vehicle changes, and bookings made on the page block nothing.
  Only windows completed by clicks are free (`PickedWindowsAreFree`).
- The store keeps the draft after a payment, and a payment screen that is mounted again
  is not busy: one draft can be paid twice. `PaidAsShown` holds of each payment.
- `OwnerDashboard.tsx:139`: "Switch a vehicle off and it stops taking new bookings". No
  other screen reads the status.
- `Landing.tsx:93` announces 11 "Vehicles live"; `VEHICLES` has 12, as line 71 of the same
  page says. The number beside "Electric only" (`Search.tsx:194`) ignores the chosen city,
  unlike those beside the types (`Search.tsx:72`). Both are in `AnnouncedAmiss`. The price
  slider starts on a value it cannot come back to (`TopStep`). A change of city in
  the navigation does not reach the filter of a search screen that is open.
- The renter's list is memoised on the bookings alone (`RenterDashboard.tsx:49-52`): after
  midnight the catalogue's trips keep the days of the day before, while "in 3 days" is
  counted from the new one. Lines 16-17 say "Seed bookings store day offsets so the demo
  never goes stale". Also in `AnnouncedAmiss`.
- `prisma/seed.ts:286` looks for 23P01 in `error.code`, where Prisma has a code of its
  own; the filter's `sqlStateOf` digs for it.

## Bounds

`MaxStatements` (statements of one transaction), `MaxFaults` (lost replies and cut
requests), `MaxPerHour` and `Window` (in ticks), and the sizes of the sets above. Slots of
requests, calls and sessions are reused for ever, so histories are unbounded. A token is
at most two rotations behind: older ones behave alike. `UserIds`, `Rows` and `Docs` bound
how many rows exist at once.

In the web app: `Clickable` and `OnlyLooked` (days users click), `LastDay` (midnights),
`MaxClicks` (payments before a reload), `Kinds`, `Prices` and `Distances` (where sliders
are dragged to), `Days` (days searched for), `Stars`. `MaxPaise` is 10^9 in the cfg, as
TLC's integers have 32 bits; in the code the cap is 10^10.

## Fairness

- `BookingSlots`: `SF` of `Settle` - Postgres's lock queue is first come first served and
  the deadlock detector runs, so a statement that can go on again and again does; `WF` of
  `Finish` - the caller ends its transaction or the timeout of `$transaction` does.
  Nobody has to begin a transaction or issue a statement.
- `UserBootstrap`, `PrivilegedWrites`: `SF` of a request's own `Progress`, for the same
  reason and because the event loop goes on. Failures, verdicts, uploads, the storage
  service and the clients are not fair.
- `OtpThrottle`: `WF` of the clock and of each request's guard.
- `SessionClient`: `WF` of `Progress` - a fetch is answered or fails. Expiry, the end of
  the reuse window, revocation and reloads need not come.

- `BookingFlow`: `WF` of `Land` - a timer that was set fires. No user has to do anything
  and no day has to end.
- `ScopedPool`: none is needed, only safety is checked.

All runs check for deadlock; in every module somebody can always start over.

## What is proved

TLAPS checks these for every value of the constants that meets the ASSUMEs of the module;
TLC evaluates the ASSUMEs on each run.

**BookingSlotsProofs**: `TypeCorrect`, `DoubleBookingIsImpossible`, `KeyIsSpentOnce`,
`RefusalsAreTrue`, `TablesImplementTheLedger`, `WaitsHaveAWayOut`. `NoDoubleBooking` is
not inductive: it says nothing about drafts, and a commit publishes drafts. `IInv` adds
that a row has one writer (`OneWriter`), that what a transaction would commit, apart from
the row it is still checking, is free of clashes (`OwnApart`), and that checked drafts of
different transactions do not clash with each other (`DraftsApart`). The last one is the
heart: a check is passed only with `WaitsFor` empty, so the later of two clashing
statements cannot have passed while the earlier one's draft was there. `PeriodsForward`
makes the half-open overlap test equal to sharing an hour (`OverlapIsSharedHour`), which
is what ties the constraint to the ledger. `WaitsHaveAWayOut` is the safety half of
`EveryTransactionEnds`: who waits, waits in the end for somebody who can go on or for a
cycle that the deadlock detector breaks. Among the sets that are closed under waiting and
in which nobody can go on there is a smallest one, and that is a cycle. It is the one
theorem that assumes the sessions finite, and it needs that an idle session has no draft
(`IdleHasNoDraft`): otherwise somebody could wait for a transaction that has ended.

**UserBootstrapProofs**: `TypeCorrect`, `OneAccountForEach`, `NobodyIsServedAsAnother`,
`ConflictsAreReal`, `HoldersAreNotRefused`, `BootstrapIsAtomic`, `WaitsAreAcyclic`. `IInv`
follows the index entries of running INSERTs: an entry collides with no committed row
(`EntriesFree`) and with no other entry (`EntriesApart`), so a commit adds a row that
collides with nothing; a request that reads again lost to a row that is still there
(`LostToSomebody`), as rows are never removed. The refinement, `BootstrapIsAtomic`, needs
these facts at the steps that show (the last index of an INSERT, the second read), and
that a phase tells what a client can see (`VisibleInv`). `WaitsAreAcyclic`: a request
waits only for one that has entered more indexes (`WaitsGoForward`), as all take the
indexes in the same order; of any running INSERTs the one furthest on waits for none of
the others.

**PrivilegedWritesProofs**: `TypeCorrect`, `EvidenceIsKept`, `VerificationIsKept`,
`DocumentsAreReviewed`, `BytesHaveAnOwner`, `WritesImplementTheActs`, `WaitsAreOneDeep`.
None of the invariants is inductive: each speaks of tables, and a commit publishes what
was drafted steps ago. `IInv` says why that is still right at the commit. What is drafted
follows from the phase (`CallInv`: a row never goes without its audit row); a profile is
drafted under its key (`ProfilesApart`), a document under its fresh id (`DocumentsApart`),
a status under the row's lock, which verdicts wait for (`StatusLocked`); and an upload
that moved nothing found its user out of NONE, where nobody returns (`ReviewInv`). For the
refinement, `ServedInv` adds that a profile somebody has been told of is there.
`WaitsAreOneDeep`: who holds a key or a row's lock has taken all it will take, although an
application and an upload take different ones.

**ScopedPoolProofs**: `TypeCorrect`, `AnsweredAsOneselfHolds`, `PoolImplementsReads`.
`AnsweredAsOneself` speaks of the rows a query found, and these depend on the settings of
a connection. `IInv` says that a connection is held exactly while a transaction is open
(`HeldInTransaction`), by one request (`HeldByOne`), and that what is set on it is the
holder's own actor, setting by setting as far as the transaction has come
(`ScopedToActor`); `RepliesAtTheEnd` keeps an outcome from appearing before the handler is
through. For the refinement, policy and WHERE clause together are shown to leave what
`Entitled` says (`ViewIsEntitlement`), and `OutsideInv` ties a request's phase to what is
seen of it.

**BookingFlowProofs**, first about prices: `LinesAddUp`, `ChargeFits`,
`EarlierIsNotDearer`, `PayoutIsWithinGross`, `SharesComeToTheAmount`, for every rate,
length, day and amount. A rounding moves an amount by half a paisa at the most
(`RoundedBy10`, `RoundedBy100`), so it keeps the order of two amounts; four roundings in a
row then keep the order of two discounts, with the fee's floor in between. The maximum over
the days of a rental (`DemandForRange`) needs no induction: it is one of four numbers.
`SumPaise` is a fold: a function chosen to satisfy a recursion over sets of positions. Such
a function exists for every sequence (`TableExists`), and at all positions it has the last
of the running sums (`SumIs`). Both go by `SetInduction`, an induction over the naturals
that is stated for a set, from the well-foundedness of `<`, as the library's induction
theorems cannot be instantiated. With that `LinesAddUp` and `SharesComeToTheAmount` speak
of `SumPaise` itself: the breakdown's lines come to the total, and after `i` shares of a
split the running sum is `i` bases and as many extra paise as have been given out.

Then about the screens: `TypeCorrect`, `PaidAsShownHolds`, `WindowsAreSoundHolds`,
`StaleQuoteIsNeverDearerHolds`, `PickedWindowsAreFreeHolds`, for any vehicles, rates,
booked days, bounds and number of payments. `ScreenInv`: what a screen was computed from
is no later than the clock and its window does not run backwards. `LedgerInv`: payments
under way and bookings made are the clicks, in order. That no quote is dearer than the
day's follows from `EarlierIsNotDearer`, at each click and again at each midnight.

**WebAppProofs**: `CountsMatchListsHold`, `SessionsAreSafe`, `SessionsAreOfTheScreens`, for
the specification that the run checks, with any vehicles to book, any bounds and any number
of bookings; the catalogue is the real one. The counts and the lists of a screen are
computed apart, so the proof says what a list is: its source at the kept positions, each
once, by their keys (`ArrangedLists`). A position's rank is the number of those before it;
ranks are different and there are as many as positions, so every place of the list has one.
Then whatever is looked for is on the list as often as in its source (`CountOnTheList`,
through a bijection), and the numbers of `CountsMatchLists` follow. For the renter's screen
every trip is on one of the three lists (`EveryTripIsOnOneList`), the fresh ones being the
bookings made (`TripsAreSound`); that needs to know that a booking has the days of its
window, which is `WindowsAreSound` at the moment it was made. Hence the inductive
invariant, `WebIInv`: `IInv` of the booking screens, and that filters, order, statuses and
ratings are such as can be chosen. `SessionsAreOfTheScreens` says that bounding a session
by its kind adds no step, so the theorems about `BookingFlow` speak of what the run
explores (`SessionsAreSafe`). Of booked days that theorem says what `PickedWindowsAreFree`
does: a click completes no window that crosses one. The window a screen begins with, and
one taken over from another vehicle, are booked unchecked.

**SessionClientProofs**: `TypeCorrect`, `WaitersHaveARefreshHolds`,
`RefusedOnlyWhenOverHolds`, for any number of calls and sign-ins. The promise is held
exactly while one call refreshes (`OneRefresh`, `PromiseIsHeld`, `WaitersShareIt`).
`RefusedOnlyWhenOver` speaks of a request that was sent steps ago, so `IInv` follows its
token: with no refresh under way the stored token is live (`StoredIsLive`), hence so is
the one a refresh is begun with (`CarriedIsLive`); only a grant makes it older, and the
only call that can be granted anything is that refresh itself. A page that was reloaded
while a refresh was under way is the exception, in the property and in the invariant.

**OtpThrottleProofs**: `TypeCorrect`, `RefusalTellsHowLongHolds`,
`BurstIsTwoBudgetsHolds`, `EveryOneCounts`, for any requests, limit, window and number of
faults. A request that awaits Redis has a usable number (`KeyIsANumber`) and no answer yet
(`AnsweredOnce`), so the time it is told comes from a key whose expiry EXPIRE has set to
the window and the clock has only made shorter. `BurstIsTwoBudgets` rests on something no
variable holds: the age of the counter. It is quantified over (`CounterAges`): there is an
age such that what was let through since then carries different counts of the counter that
stands, and what is older carries different counts of one counter before it
(`TwoCounters`), because a counter that expires has stood for a whole window. Each part is
a set of at most `MaxPerHour` counts.

## What is only model-checked

- Every liveness property: TLAPS does not reason about fairness through ENABLED. Of the
  three that depend on somebody else's lock the safety half, that the waits have no cycle
  or one that is broken, is proved: `WaitsHaveAWayOut`, `WaitsAreAcyclic`,
  `WaitsAreOneDeep`.
- Nothing else: each invariant, action property and refinement of the passing runs is
  stated by a theorem. A few assumptions are evaluated by TLC and not proved, where
  a fact is about the data or a bounded range alone: `SeedIsClosed`, `FiguresAreSound` (the
  owner's figures, which nothing changes), `AnnouncedAmiss`, `SplitIsExact` (which
  `SharesComeToTheAmount` proves for every amount). No proof uses them.

## What is not modelled, and why

- The column grants: no code of the repository updates a table as `app_user`. The
  policies of tables that no code reads yet. `kyc_documents` and `owner_profiles` stand
  still in `ScopedPool`: what writes them is `PrivilegedWrites`, and the property is about
  whose rows are read.
- `ParseUUIDPipe` and the Zod pipes, which answer 400 before any handler; health probes,
  configuration, logging, start-up: no protocol to get wrong.
- `sqlStateOf`'s walk through wrapped errors: a property of Prisma's error objects.
- Columns and foreign keys that no constraint or branch reads; wording, logging, layout,
  the formatting of amounts and dates. The search screen parses the address's date as UTC;
  days are numbers here.
- What makes a token valid; the sending of an SMS; the contents of an upload.
- Two tabs on one `localStorage`: each has a promise of its own, and the comments promise
  one refresh per page only. A refresh that answers after a sign-out is modelled and
  brings tokens back; nothing in the repository says that it must not. A storage that
  throws; StrictMode's double mount.
- The backend's seed script, run once by a developer on an empty database.
- Toasts, the gallery, the driver's details, icons and drawings: they render a screen
  again, which is `Rerender`, and change nothing else.
- Phases 3 to 12 of the build guide: there is no code.

## The order of the work, and what could follow

Done, most important first: booking store, bootstrap, privileged writes, throttle,
session; then the scoped client with the guards, money and prices, the booking screens,
browsing and the dashboards; with each its theorems. The three abstract specifications of
the API's requests came last, when the invariants they need were there.

What could follow: two tabs over one storage (a second page in `SessionClient`, sharing
`stored` and nothing else); the check of blackouts against bookings, when Phase 6 books;
the booking screens against the API instead of the store, which would join `BookingFlow`
to `BookingSlots`.
