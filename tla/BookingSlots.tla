---------------------------- MODULE BookingSlots ----------------------------
(***************************************************************************)
(* The bookings and blackouts tables of the init migration, with the two   *)
(* EXCLUDE constraints, the idempotency index and the period checks,       *)
(* written by concurrent READ COMMITTED transactions.                      *)
(*                                                                         *)
(* A row version becomes visible to everyone when its transaction commits. *)
(* Until then it is a draft: other transactions do not read it, but their  *)
(* constraint checks meet it in the index and wait for its transaction to  *)
(* end.  A statement first writes its index entry and then looks for       *)
(* conflicts, so two statements can meet each other's entries and wait for *)
(* one another; the deadlock detector then aborts one of the two.          *)
(***************************************************************************)
EXTENDS Integers, ExceptionFilter

CONSTANTS Rows,          \* row ids (gen_random_uuid() never repeats one in use)
          Tx,            \* database sessions, each running one transaction at a time
          Vehicles, Renters, Keys,
          Requests,      \* the rows callers try to insert
          Wanted,        \* what callers UPDATE a booking's status to
          Deleted,       \* or: the caller DELETEs the row
          NoRow,         \* there is no row under this id
          Untouched,     \* this transaction has no draft of the row
          NoKey,         \* idempotency_key IS NULL
          MaxStatements  \* bound: statements one transaction runs

HoldingStatus == {"PENDING_PAYMENT", "CONFIRMED", "ONGOING"}
BookingStatus == HoldingStatus
                 \cup {"QUOTED", "COMPLETED", "CANCELLED", "EXPIRED", "DISPUTED"}

\* A row of either table, with the columns the constraints read.
Version == [table : {"bookings", "blackouts"}, vehicle : Vehicles,
            renter : Renters, start : Nat, end : Nat,
            status : BookingStatus, key : Keys \cup {NoKey}]

ASSUME RequestsAssumption == Requests \subseteq Version
ASSUME WantedAssumption == Wanted \subseteq BookingStatus /\ Deleted \notin BookingStatus
ASSUME MarkersAssumption ==
    NoRow \notin Version /\ Untouched \notin Version /\ NoRow # Untouched
ASSUME MaxStatementsAssumption == MaxStatements \in Nat

VARIABLES committed,  \* [Rows -> the row every new snapshot sees, or NoRow]
          draft,      \* [Tx -> [Rows -> the version it wrote, NoRow, or Untouched]]
          phase,      \* [Tx -> where its current statement is]
          target,     \* [Tx -> the row its current statement writes, or NoRow]
          want,       \* [Tx -> the status an UPDATE is waiting to write]
          issued,     \* [Tx -> statements this transaction has begun]
          reply       \* [Tx -> the error its caller was told, until it rolls back]

vars == <<committed, draft, phase, target, want, issued, reply>>

\* "locking": waiting for the row lock.  "exclusion", "uniqueness": waiting for
\* the verdict of the EXCLUDE constraint, then of the unique index, in the order
\* their indexes were created.  "failed": only ROLLBACK is accepted.
Phases == {"idle", "open", "locking", "exclusion", "uniqueness", "failed"}
Replies == {"none"} \cup RefusalCodes

TypeOK ==
    /\ committed \in [Rows -> Version \cup {NoRow}]
    /\ draft \in [Tx -> [Rows -> Version \cup {NoRow, Untouched}]]
    /\ phase \in [Tx -> Phases]
    /\ target \in [Tx -> Rows \cup {NoRow}]
    /\ want \in [Tx -> BookingStatus \cup {Deleted}]
    /\ issued \in [Tx -> 0 .. MaxStatements]
    /\ reply \in [Tx -> Replies]

Init ==
    /\ committed = [r \in Rows |-> NoRow]
    /\ draft = [t \in Tx |-> [r \in Rows |-> Untouched]]
    /\ phase = [t \in Tx |-> "idle"]
    /\ target = [t \in Tx |-> NoRow]
    /\ want = [t \in Tx |-> Deleted]
    /\ issued = [t \in Tx |-> 0]
    /\ reply = [t \in Tx |-> "none"]
-----------------------------------------------------------------------------
(* What the constraints compare.                                           *)

\* Mutated form: tstzrange(start_at, end_at, '[]'), ends inclusive.
ClosedOverlap(v, w) == v.start <= w.end /\ w.start <= v.end

\* period && period, of the generated ranges tstzrange(start_at, end_at, '[)').
Overlaps(v, w) == v.start < w.end /\ w.start < v.end

\* The partial index: a booking is in it only while its status holds a slot; a
\* blackout always is.
Holds(v) == v.table = "blackouts" \/ v.status \in HoldingStatus

\* bookings_no_overlap and blackouts_no_overlap: one constraint per table.
Excludes(v, w) ==
    /\ v # NoRow /\ w # NoRow
    /\ v.table = w.table
    /\ v.vehicle = w.vehicle
    /\ Holds(v) /\ Holds(w)
    /\ Overlaps(v, w)

\* Mutated form: the index made per vehicle as well.
SameKeySameVehicle(v, w) ==
    /\ v # NoRow /\ w # NoRow
    /\ v.table = "bookings" /\ w.table = "bookings"
    /\ v.renter = w.renter /\ v.vehicle = w.vehicle
    /\ v.key # NoKey /\ v.key = w.key

\* bookings_idem_idx on (renter_id, idempotency_key), partial on a non-null key.
SameKey(v, w) ==
    /\ v # NoRow /\ w # NoRow
    /\ v.table = "bookings" /\ w.table = "bookings"
    /\ v.renter = w.renter
    /\ v.key # NoKey /\ v.key = w.key
-----------------------------------------------------------------------------
(* What a transaction sees, and whom it waits for.                         *)

Touches(t, r) == draft[t][r] # Untouched

\* The row as transaction t sees it: its own draft, else the committed row.
Own(t, r) == IF Touches(t, r) THEN draft[t][r] ELSE committed[r]

Checking(t) == phase[t] \in {"exclusion", "uniqueness"}
Unchecked(t, r) == Checking(t) /\ r = target[t]

\* The conflict t's current index is looking for, between its draft and w.
Clash(t, w) ==
    IF phase[t] = "exclusion" THEN Excludes(draft[t][target[t]], w)
                              ELSE SameKey(draft[t][target[t]], w)

\* A GiST entry is there from the moment the tuple is written; the unique index
\* gets its entry only when the uniqueness check lets it in.
Entered(t, u, r) == phase[t] = "exclusion" \/ ~Unchecked(u, r)

\* Some other row that certainly stays clashes: it is committed, or t's own,
\* and no running transaction is changing it.
Refused(t) ==
    \E r \in Rows \ {target[t]} :
        /\ Clash(t, Own(t, r))
        /\ \A u \in Tx \ {t} : ~Touches(u, r)

\* Mutated form: the check reads committed rows only, as a SELECT before the
\* INSERT would.
WaitsForRowLocksOnly(t) ==
    IF phase[t] = "locking" THEN {u \in Tx \ {t} : Touches(u, target[t])} ELSE {}

\* The running transactions whose end decides t's statement: the holder of the
\* row lock, or a writer of a row that clashes before or after its change.
WaitsFor(t) ==
    IF phase[t] = "locking" THEN {u \in Tx \ {t} : Touches(u, target[t])}
    ELSE IF Checking(t) THEN
        {u \in Tx \ {t} :
            \E r \in Rows \ {target[t]} :
                /\ Touches(u, r)
                /\ \/ Clash(t, committed[r])
                   \/ Clash(t, draft[u][r]) /\ Entered(t, u, r)}
    ELSE {}

\* t waits, directly or through others, for itself: t is in every set that holds
\* what t waits for and is closed under waiting.
Deadlocked(t) ==
    \A S \in SUBSET Tx :
        (WaitsFor(t) \subseteq S /\ \A u \in S : WaitsFor(u) \subseteq S) => t \in S
-----------------------------------------------------------------------------
(* Transactions.                                                           *)

NoDraft == [r \in Rows |-> Untouched]

Begin(t) ==
    /\ phase[t] = "idle"
    /\ phase' = [phase EXCEPT ![t] = "open"]
    /\ UNCHANGED <<committed, draft, target, want, issued, reply>>

\* A statement failed with SQLSTATE state: the backend aborts the transaction at
\* once, its drafts and locks are gone, and it waits for ROLLBACK.
Fail(t, state) ==
    /\ draft' = [draft EXCEPT ![t] = NoDraft]
    /\ phase' = [phase EXCEPT ![t] = "failed"]
    /\ reply' = [reply EXCEPT ![t] = FromSqlState(state)]
    /\ target' = [target EXCEPT ![t] = NoRow]
    /\ want' = [want EXCEPT ![t] = Deleted]
    /\ UNCHANGED committed

CanIssue(t) == phase[t] = "open" /\ issued[t] < MaxStatements
Issue(t) == issued' = [issued EXCEPT ![t] = @ + 1]

\* INSERT of a row whose period is a range: the tuple and its GiST entry are
\* written, then the exclusion constraint is checked.
Insert(t, r, v) ==
    /\ CanIssue(t) /\ Issue(t)
    /\ v.start < v.end
    /\ committed[r] = NoRow /\ \A u \in Tx : ~Touches(u, r)
    /\ draft' = [draft EXCEPT ![t][r] = v]
    /\ phase' = [phase EXCEPT ![t] = "exclusion"]
    /\ target' = [target EXCEPT ![t] = r]
    /\ UNCHANGED <<committed, want, reply>>

\* The generated column is computed before the CHECK: tstzrange() itself refuses
\* a period that runs backwards (22000); an empty one reaches the CHECK (23514).
InsertBadPeriod(t, v) ==
    /\ CanIssue(t) /\ Issue(t)
    /\ v.start >= v.end
    /\ Fail(t, IF v.start > v.end THEN "22000" ELSE "23514")

\* UPDATE bookings SET status, or DELETE: the statement has found the row and
\* asks for its lock.  A transaction changes a row at most once.
Change(t, r, s) ==
    /\ CanIssue(t) /\ Issue(t)
    /\ committed[r] # NoRow /\ ~Touches(t, r)
    /\ s = Deleted \/ committed[r].table = "bookings"
    /\ phase' = [phase EXCEPT ![t] = "locking"]
    /\ target' = [target EXCEPT ![t] = r]
    /\ want' = [want EXCEPT ![t] = s]
    /\ UNCHANGED <<committed, draft, reply>>

\* The statement is over and the transaction can take the next one.
Settled(t) ==
    /\ phase' = [phase EXCEPT ![t] = "open"]
    /\ target' = [target EXCEPT ![t] = NoRow]
    /\ want' = [want EXCEPT ![t] = Deleted]

\* The lock is t's.  READ COMMITTED re-reads the row: gone means zero rows
\* changed, otherwise the change applies to the newest version.
Locked(t) == phase[t] = "locking" /\ WaitsFor(t) = {}

ChangeNothing(t) ==
    /\ Locked(t)
    /\ committed[target[t]] = NoRow
    /\ Settled(t)
    /\ UNCHANGED <<committed, draft, issued, reply>>

DeleteRow(t) ==
    /\ Locked(t)
    /\ committed[target[t]] # NoRow
    /\ want[t] = Deleted
    /\ draft' = [draft EXCEPT ![t][target[t]] = NoRow]
    /\ Settled(t)
    /\ UNCHANGED <<committed, issued, reply>>

\* Mutated form: an UPDATE that brings a row back into the partial index is not
\* checked against it.
SetStatusUnchecked(t) ==
    /\ Locked(t)
    /\ committed[target[t]] # NoRow
    /\ want[t] # Deleted
    /\ draft' = [draft EXCEPT ![t][target[t]] =
                    [committed[target[t]] EXCEPT !.status = want[t]]]
    /\ phase' = [phase EXCEPT ![t] = "uniqueness"]
    /\ UNCHANGED <<committed, target, want, issued, reply>>

\* status is in the index predicate, so the new version gets new index entries
\* and both constraints are checked again.
SetStatus(t) ==
    /\ Locked(t)
    /\ committed[target[t]] # NoRow
    /\ want[t] # Deleted
    /\ draft' = [draft EXCEPT ![t][target[t]] =
                    [committed[target[t]] EXCEPT !.status = want[t]]]
    /\ phase' = [phase EXCEPT ![t] = "exclusion"]
    /\ UNCHANGED <<committed, target, want, issued, reply>>

\* No clash, committed or running: on to the next index, then to the caller.
Accept(t) ==
    /\ Checking(t)
    /\ ~Refused(t) /\ WaitsFor(t) = {}
    /\ \/ /\ phase[t] = "exclusion"
          /\ phase' = [phase EXCEPT ![t] = "uniqueness"]
          /\ UNCHANGED <<target, want>>
       \/ /\ phase[t] = "uniqueness"
          /\ Settled(t)
    /\ UNCHANGED <<committed, draft, issued, reply>>

Refuse(t) ==
    /\ Checking(t)
    /\ Refused(t)
    /\ Fail(t, IF phase[t] = "exclusion" THEN "23P01" ELSE "23505")
    /\ UNCHANGED issued

\* Mutated form: nobody breaks a cycle of waiting transactions.
NeverBreak(t) == FALSE /\ UNCHANGED vars

\* deadlock_timeout expired and t's wait is part of a cycle: 40P01.
BreakDeadlock(t) ==
    /\ Deadlocked(t)
    /\ Fail(t, "40P01")
    /\ UNCHANGED issued

\* The session is free for its next transaction.
Ended(t) ==
    /\ draft' = [draft EXCEPT ![t] = NoDraft]
    /\ phase' = [phase EXCEPT ![t] = "idle"]
    /\ target' = [target EXCEPT ![t] = NoRow]
    /\ want' = [want EXCEPT ![t] = Deleted]
    /\ issued' = [issued EXCEPT ![t] = 0]
    /\ reply' = [reply EXCEPT ![t] = "none"]

Commit(t) ==
    /\ phase[t] = "open"
    /\ committed' = [r \in Rows |-> Own(t, r)]
    /\ Ended(t)

\* ROLLBACK, the transaction timeout, or the loss of the connection: possible at
\* any point of a transaction.
Rollback(t) ==
    /\ phase[t] # "idle"
    /\ Ended(t)
    /\ UNCHANGED committed

Next ==
    \E t \in Tx :
        \/ Begin(t)
        \/ \E r \in Rows, v \in Requests : Insert(t, r, v)
        \/ \E v \in Requests : InsertBadPeriod(t, v)
        \/ \E r \in Rows, s \in Wanted \cup {Deleted} : Change(t, r, s)
        \/ ChangeNothing(t)
        \/ DeleteRow(t)
        \/ SetStatus(t)
        \/ Accept(t)
        \/ Refuse(t)
        \/ BreakDeadlock(t)
        \/ Commit(t)
        \/ Rollback(t)

\* The server resolves a statement: wakeups are not lost and the lock queue is
\* first come first served, so a statement that can go on again and again does.
Settle(t) == \/ ChangeNothing(t) \/ DeleteRow(t) \/ SetStatus(t)
             \/ Accept(t) \/ Refuse(t) \/ BreakDeadlock(t)

\* The caller (or its 10 s transaction timeout) ends a transaction that has no
\* statement running.
Finish(t) == phase[t] \in {"open", "failed"} /\ (Commit(t) \/ Rollback(t))

Spec == Init /\ [][Next]_vars

Fairness == \A t \in Tx : WF_vars(Finish(t)) /\ SF_vars(Settle(t))

FairSpec == Spec /\ Fairness
-----------------------------------------------------------------------------
(* Properties.                                                             *)

Ledger == INSTANCE SlotLedger WITH ledger <- committed

\* The no-double-booking guarantee of the migration: whatever transactions
\* interleave, commit, abort or wait, no hour of a vehicle is held by two
\* committed live bookings, nor by two committed blackouts.
NoDoubleBooking == Ledger!HoldsAreApart(committed)

\* Two retries of a booking under one idempotency key cannot both commit, in
\* whatever order their inserts and commits interleave.
OneBookingPerKey == Ledger!KeysAreSpentOnce(committed)

\* Nobody is refused a free slot: a caller is told SLOT_TAKEN only if, in the
\* state the verdict is given in, another live row of the same table shares an
\* hour of the same vehicle with the row written.  Back-to-back periods and
\* cancelled bookings never refuse anybody.
OnlyTrueClashIsRefused ==
    [][\A t \in Tx :
          (reply[t] # "SLOT_TAKEN" /\ reply'[t] = "SLOT_TAKEN") =>
              LET mine == draft[t][target[t]]
              IN  \E r \in Rows \ {target[t]} :
                      LET other == Own(t, r)
                      IN  /\ other # NoRow
                          /\ other.table = mine.table
                          /\ other.vehicle = mine.vehicle
                          /\ Ledger!IsLive(other) /\ Ledger!IsLive(mine)
                          /\ Ledger!HoursOf(other) \cap Ledger!HoursOf(mine) # {}]_vars

\* The store is the ledger: every committed transaction is one indivisible,
\* legal change of it, and nothing else changes it.
ImplementsLedger == Ledger!Spec

\* Every transaction ends: statements that wait for one another are broken up by
\* the deadlock detector and never block each other for good.
EveryTransactionEnds == \A t \in Tx : phase[t] # "idle" ~> phase[t] = "idle"

\* The loser of a race for a slot is told 409 SLOT_TAKEN, never a server error.
\* This is what the migration and the exception filter say of it.
RaceLoserIsNotAServerError == \A t \in Tx : reply[t] # "INTERNAL"
=============================================================================
