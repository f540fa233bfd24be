------------------------- MODULE BookingSlotsProofs -------------------------
(***************************************************************************)
(* For any number of sessions, rows, requests and statements per           *)
(* transaction: the tables never hold a double booking, and every commit   *)
(* is a legal step of the ledger.                                          *)
(*                                                                         *)
(* The argument.  Once a statement's check has passed, its draft clashes   *)
(* with nothing its own transaction would commit and with no draft of any  *)
(* other running transaction that has passed its check too.  A later       *)
(* statement cannot pass while it clashes with the draft: it waits.  So    *)
(* when the transaction commits, what it adds is apart from every          *)
(* committed row and from what the others are about to commit.             *)
(*                                                                         *)
(* That waits come to an end is shown as far as safety goes: of any set    *)
(* that nobody waits out of, a smallest one is a cycle.                    *)
(***************************************************************************)
EXTENDS BookingSlots, FiniteSetTheorems, WellFoundedInduction, TLAPS

\* The target of a statement that has not passed its check yet, for each index.
PendingExclusion(t, r) == phase[t] = "exclusion" /\ r = target[t]
PendingKey(t, r) == Unchecked(t, r)

\* A statement that holds or awaits a verdict has a target, and a check a draft.
StatementInv ==
    \A t \in Tx :
        /\ phase[t] = "locking" => target[t] \in Rows
        /\ Checking(t) => target[t] \in Rows /\ draft[t][target[t]] \in Version

\* The row lock: two transactions never have drafts of one row.
OneWriter ==
    \A t, u \in Tx : \A r \in Rows : Touches(t, r) /\ Touches(u, r) => t = u

\* Every row, committed or drafted, has a period that is not empty.
PeriodsForward ==
    \A r \in Rows :
        /\ committed[r] # NoRow => committed[r].start < committed[r].end
        /\ \A t \in Tx : draft[t][r] \in Version => draft[t][r].start < draft[t][r].end

\* A draft opens a row, closes it, or moves the status of the committed version.
DraftsKeepTerms ==
    \A t \in Tx : \A r \in Rows :
        Touches(t, r) => Ledger!KeepsTerms(committed[r], draft[t][r])

CommittedApart ==
    \A r, s \in Rows : r # s => /\ ~Excludes(committed[r], committed[s])
                                /\ ~SameKey(committed[r], committed[s])

\* What a transaction would commit now, apart from rows still being checked.
OwnApart ==
    \A t \in Tx : \A r, s \in Rows :
        r # s =>
          /\ ~PendingExclusion(t, r) /\ ~PendingExclusion(t, s)
                => ~Excludes(Own(t, r), Own(t, s))
          /\ ~PendingKey(t, r) /\ ~PendingKey(t, s)
                => ~SameKey(Own(t, r), Own(t, s))

\* Drafts of two transactions, again apart from rows still being checked.
DraftsApart ==
    \A t, u \in Tx : \A r, s \in Rows :
        t # u /\ r # s /\ Touches(t, r) /\ Touches(u, s) =>
          /\ ~PendingExclusion(t, r) /\ ~PendingExclusion(u, s)
                => ~Excludes(draft[t][r], draft[u][s])
          /\ ~PendingKey(t, r) /\ ~PendingKey(u, s)
                => ~SameKey(draft[t][r], draft[u][s])

IInv == /\ TypeOK
        /\ StatementInv
        /\ OneWriter
        /\ PeriodsForward
        /\ DraftsKeepTerms
        /\ CommittedApart
        /\ OwnApart
        /\ DraftsApart
-----------------------------------------------------------------------------
(* Lemmas about the comparisons.                                           *)

\* The exclusion operators are symmetric: it does not matter which row came first.
LEMMA ExcludesSymmetric ==
    ASSUME NEW v, NEW w PROVE Excludes(v, w) <=> Excludes(w, v)
BY DEF Excludes, Overlaps

\* So is the comparison of idempotency keys.
LEMMA SameKeySymmetric ==
    ASSUME NEW v, NEW w PROVE SameKey(v, w) <=> SameKey(w, v)
BY DEF SameKey

\* The half-open overlap test of the ranges, on periods that are not empty, is
\* exactly having an hour in common.
LEMMA OverlapIsSharedHour ==
    ASSUME NEW v \in Version, NEW w \in Version,
           v.start < v.end, w.start < w.end
    PROVE  Overlaps(v, w) <=> Ledger!HoursOf(v) \cap Ledger!HoursOf(w) # {}
<1>1. /\ v.start \in Nat /\ v.end \in Nat
      /\ w.start \in Nat /\ w.end \in Nat
  BY DEF Version
<1>2. ASSUME Overlaps(v, w)
      PROVE  Ledger!HoursOf(v) \cap Ledger!HoursOf(w) # {}
  <2> DEFINE h == IF v.start < w.start THEN w.start ELSE v.start
  <2>1. h \in v.start .. (v.end - 1) /\ h \in w.start .. (w.end - 1)
    BY <1>1, <1>2 DEF Overlaps
  <2>2. QED
    BY <2>1 DEF Ledger!HoursOf
<1>3. ASSUME Ledger!HoursOf(v) \cap Ledger!HoursOf(w) # {}
      PROVE  Overlaps(v, w)
  <2>1. PICK h : h \in v.start .. (v.end - 1) /\ h \in w.start .. (w.end - 1)
    BY <1>3 DEF Ledger!HoursOf
  <2>2. QED
    BY <1>1, <2>1 DEF Overlaps
<1>4. QED
  BY <1>2, <1>3

\* Moving the status of a version leaves a version.
LEMMA StatusMoveIsVersion ==
    ASSUME NEW v \in Version, NEW st \in BookingStatus
    PROVE  /\ [v EXCEPT !.status = st] \in Version
           /\ [v EXCEPT !.status = st].start = v.start
           /\ [v EXCEPT !.status = st].end = v.end
           /\ [v EXCEPT !.status = st].status = st
BY DEF Version
-----------------------------------------------------------------------------
(* Type correctness.                                                       *)

\* A failed statement leaves the variables well typed.
LEMMA FailTypeOK ==
    ASSUME TypeOK, NEW t \in Tx, NEW state, Fail(t, state),
           issued' \in [Tx -> 0 .. MaxStatements]
    PROVE  TypeOK'
<1>1. FromSqlState(state) \in Replies
  BY DEF FromSqlState, Replies, RefusalCodes
<1>2. draft' \in [Tx -> [Rows -> Version \cup {NoRow, Untouched}]]
  BY DEF TypeOK, Fail, NoDraft
<1>3. QED
  BY <1>1, <1>2 DEF TypeOK, Fail, Phases

\* A session that may issue a statement stays within its bound.
LEMMA IssueType ==
    ASSUME TypeOK, NEW t \in Tx, CanIssue(t), Issue(t)
    PROVE  issued' \in [Tx -> 0 .. MaxStatements]
BY MaxStatementsAssumption DEF TypeOK, CanIssue, Issue

\* TypeOK is inductive.
LEMMA TypeStep == TypeOK /\ StatementInv /\ [Next]_vars => TypeOK'
<1> SUFFICES ASSUME TypeOK, StatementInv, [Next]_vars PROVE TypeOK'
  OBVIOUS
<1>1. ASSUME NEW t \in Tx, Begin(t) PROVE TypeOK'
  BY <1>1 DEF TypeOK, Begin, Phases
<1>2. ASSUME NEW t \in Tx, NEW r \in Rows, NEW v \in Requests, Insert(t, r, v)
      PROVE  TypeOK'
  <2>1. issued' \in [Tx -> 0 .. MaxStatements]
    BY <1>2, IssueType DEF Insert
  <2>2. v \in Version
    BY RequestsAssumption
  <2>3. draft' \in [Tx -> [Rows -> Version \cup {NoRow, Untouched}]]
    BY <1>2, <2>2 DEF Insert, TypeOK
  <2>4. QED
    BY <1>2, <2>1, <2>3 DEF TypeOK, Insert, Phases
<1>3. ASSUME NEW t \in Tx, NEW v \in Requests, InsertBadPeriod(t, v)
      PROVE  TypeOK'
  BY <1>3, IssueType, FailTypeOK DEF InsertBadPeriod
<1>4. ASSUME NEW t \in Tx, NEW r \in Rows, NEW s \in Wanted \cup {Deleted},
             Change(t, r, s)
      PROVE  TypeOK'
  <2>1. issued' \in [Tx -> 0 .. MaxStatements]
    BY <1>4, IssueType DEF Change
  <2>2. QED
    BY <1>4, <2>1, WantedAssumption DEF TypeOK, Change, Phases
<1>5. ASSUME NEW t \in Tx, ChangeNothing(t) PROVE TypeOK'
  BY <1>5 DEF TypeOK, ChangeNothing, Settled, Phases
<1>6. ASSUME NEW t \in Tx, DeleteRow(t) PROVE TypeOK'
  <2>1. draft' \in [Tx -> [Rows -> Version \cup {NoRow, Untouched}]]
    BY <1>6 DEF DeleteRow, TypeOK
  <2>2. QED
    BY <1>6, <2>1 DEF TypeOK, DeleteRow, Settled, Phases
<1>7. ASSUME NEW t \in Tx, SetStatus(t) PROVE TypeOK'
  <2>1. target[t] \in Rows
    BY <1>7 DEF SetStatus, Locked, StatementInv
  <2>2. committed[target[t]] \in Version /\ want[t] \in BookingStatus
    BY <1>7, <2>1 DEF SetStatus, TypeOK
  <2>3. [committed[target[t]] EXCEPT !.status = want[t]] \in Version
    BY <2>2, StatusMoveIsVersion
  <2>4. draft' \in [Tx -> [Rows -> Version \cup {NoRow, Untouched}]]
    BY <1>7, <2>1, <2>3 DEF SetStatus, TypeOK
  <2>5. QED
    BY <1>7, <2>4 DEF TypeOK, SetStatus, Phases
<1>8. ASSUME NEW t \in Tx, Accept(t) PROVE TypeOK'
  BY <1>8 DEF TypeOK, Accept, Settled, Phases
<1>9. ASSUME NEW t \in Tx, Refuse(t) PROVE TypeOK'
  <2>1. issued' \in [Tx -> 0 .. MaxStatements]
    BY <1>9 DEF Refuse, TypeOK
  <2>2. QED
    BY <1>9, <2>1, FailTypeOK DEF Refuse
<1>10. ASSUME NEW t \in Tx, BreakDeadlock(t) PROVE TypeOK'
  <2>1. issued' \in [Tx -> 0 .. MaxStatements]
    BY <1>10 DEF BreakDeadlock, TypeOK
  <2>2. QED
    BY <1>10, <2>1, FailTypeOK DEF BreakDeadlock
<1>11. ASSUME NEW t \in Tx, Ended(t),
              committed' \in [Rows -> Version \cup {NoRow}]
       PROVE  TypeOK'
  <2>1. draft' \in [Tx -> [Rows -> Version \cup {NoRow, Untouched}]]
    BY <1>11 DEF Ended, NoDraft, TypeOK
  <2>2. QED
    BY <1>11, <2>1, MaxStatementsAssumption DEF TypeOK, Ended, Phases, Replies, RefusalCodes
<1>12. ASSUME NEW t \in Tx, Commit(t) PROVE TypeOK'
  <2>1. \A r \in Rows : Own(t, r) \in Version \cup {NoRow}
    BY DEF Own, Touches, TypeOK
  <2>2. QED
    BY <1>11, <1>12, <2>1 DEF Commit
<1>13. ASSUME NEW t \in Tx, Rollback(t) PROVE TypeOK'
  BY <1>11, <1>13 DEF Rollback, TypeOK
<1>14. CASE UNCHANGED vars
  BY <1>14 DEF TypeOK, vars
<1>15. QED
  BY <1>1, <1>2, <1>3, <1>4, <1>5, <1>6, <1>7, <1>8, <1>9, <1>10, <1>12, <1>13,
     <1>14 DEF Next
-----------------------------------------------------------------------------
(* The inductive invariant, one lemma for each way a step can change what  *)
(* the transactions have written.  IInv without its type part:             *)

WriteInv == /\ StatementInv
            /\ OneWriter
            /\ PeriodsForward
            /\ DraftsKeepTerms
            /\ CommittedApart
            /\ OwnApart
            /\ DraftsApart

\* A session changes phase outside every check and writes nothing.
Quiet(t) ==
    /\ UNCHANGED <<committed, draft>>
    /\ phase[t] \in {"idle", "open", "locking"}
    /\ \E p \in {"open", "locking"} : phase' = [phase EXCEPT ![t] = p]
    /\ \E x : target' = [target EXCEPT ![t] = x] /\ (phase'[t] = "locking" => x \in Rows)

\* A quiet step keeps the invariant.
LEMMA QuietStep ==
    ASSUME IInv, TypeOK', NEW t \in Tx, Quiet(t)
    PROVE  WriteInv'
<1>1. /\ \A u \in Tx, r \in Rows : PendingExclusion(u, r)' => PendingExclusion(u, r)
      /\ \A u \in Tx, r \in Rows : PendingExclusion(u, r) => PendingExclusion(u, r)'
      /\ \A u \in Tx, r \in Rows : PendingKey(u, r)' <=> PendingKey(u, r)
  BY DEF Quiet, PendingExclusion, PendingKey, Unchecked, Checking, IInv, TypeOK
<1>2. StatementInv'
  BY DEF Quiet, StatementInv, Checking, IInv, TypeOK
<1>3. OneWriter' /\ PeriodsForward' /\ DraftsKeepTerms' /\ CommittedApart'
  BY DEF Quiet, OneWriter, PeriodsForward, DraftsKeepTerms, CommittedApart, Touches, IInv
<1>4. OwnApart' /\ DraftsApart'
  BY <1>1 DEF Quiet, OwnApart, DraftsApart, Own, Touches, IInv
<1>5. QED
  BY <1>2, <1>3, <1>4 DEF WriteInv

\* A statement writes version v of row r, which nobody else is writing, and has
\* its check before it.
Write(t, r, v) ==
    /\ UNCHANGED committed
    /\ phase[t] \in {"open", "locking"}
    /\ v \in Version /\ v.start < v.end
    /\ Ledger!KeepsTerms(committed[r], v)
    /\ \A u \in Tx \ {t} : ~Touches(u, r)
    /\ draft' = [draft EXCEPT ![t][r] = v]
    /\ phase' = [phase EXCEPT ![t] = "exclusion"]
    /\ target' = [target EXCEPT ![t] = r]

\* A fresh draft is still pending, so nothing is claimed of it yet.
LEMMA WriteStep ==
    ASSUME IInv, TypeOK', NEW t \in Tx, NEW r \in Rows, NEW v, Write(t, r, v)
    PROVE  WriteInv'
<1> USE DEF IInv, TypeOK
<1>1. /\ draft'[t][r] = v
      /\ \A u \in Tx, q \in Rows : (u # t \/ q # r) => draft'[u][q] = draft[u][q]
  BY DEF Write
<1>2. /\ \A u \in Tx \ {t}, q \in Rows :
             /\ PendingExclusion(u, q)' <=> PendingExclusion(u, q)
             /\ PendingKey(u, q)' <=> PendingKey(u, q)
      /\ PendingExclusion(t, r)' /\ PendingKey(t, r)'
      /\ \A q \in Rows : ~PendingExclusion(t, q) /\ ~PendingKey(t, q)
  BY DEF Write, PendingExclusion, PendingKey, Unchecked, Checking
<1>3. /\ Touches(t, r)'
      /\ \A u \in Tx, q \in Rows : (u # t \/ q # r) => (Touches(u, q)' <=> Touches(u, q))
      /\ \A u \in Tx, q \in Rows : (u # t \/ q # r) => Own(u, q)' = Own(u, q)
  BY <1>1, MarkersAssumption DEF Write, Touches, Own
<1>4. StatementInv'
  BY <1>1 DEF Write, StatementInv, Checking
<1>5. OneWriter'
  BY <1>3 DEF Write, OneWriter
<1>6. PeriodsForward'
  BY <1>1 DEF Write, PeriodsForward
<1>7. DraftsKeepTerms'
  <2>1. SUFFICES ASSUME NEW u \in Tx, NEW q \in Rows, Touches(u, q)'
                 PROVE  Ledger!KeepsTerms(committed[q], draft'[u][q])
    BY DEF DraftsKeepTerms, Write, Ledger!KeepsTerms
  <2>2. QED
    BY <1>1, <1>3, <2>1 DEF Write, DraftsKeepTerms
<1>8. CommittedApart'
  BY DEF Write, CommittedApart
<1>9. OwnApart'
  <2>1. SUFFICES ASSUME NEW u \in Tx, NEW p \in Rows, NEW q \in Rows, p # q
                 PROVE  /\ ~PendingExclusion(u, p)' /\ ~PendingExclusion(u, q)'
                              => ~Excludes(Own(u, p)', Own(u, q)')
                        /\ ~PendingKey(u, p)' /\ ~PendingKey(u, q)'
                              => ~SameKey(Own(u, p)', Own(u, q)')
    BY DEF OwnApart, Excludes, SameKey
  <2>2. CASE u = t /\ r \in {p, q}
    BY <1>2, <2>2
  <2>3. CASE u # t \/ r \notin {p, q}
    <3>1. Own(u, p)' = Own(u, p) /\ Own(u, q)' = Own(u, q)
      BY <1>3, <2>3
    <3>2. u # t => /\ PendingExclusion(u, p)' <=> PendingExclusion(u, p)
                   /\ PendingExclusion(u, q)' <=> PendingExclusion(u, q)
                   /\ PendingKey(u, p)' <=> PendingKey(u, p)
                   /\ PendingKey(u, q)' <=> PendingKey(u, q)
      BY <1>2
    <3>3. u = t => /\ ~PendingExclusion(u, p) /\ ~PendingExclusion(u, q)
                   /\ ~PendingKey(u, p) /\ ~PendingKey(u, q)
      BY <1>2
    <3>4. /\ ~PendingExclusion(u, p) /\ ~PendingExclusion(u, q)
                => ~Excludes(Own(u, p), Own(u, q))
          /\ ~PendingKey(u, p) /\ ~PendingKey(u, q)
                => ~SameKey(Own(u, p), Own(u, q))
      BY <2>1 DEF OwnApart
    <3> QED BY <3>1, <3>2, <3>3, <3>4
  <2>4. QED
    BY <2>2, <2>3
<1>10. DraftsApart'
  <2>1. SUFFICES ASSUME NEW u \in Tx, NEW w \in Tx, NEW p \in Rows, NEW q \in Rows,
                        u # w, p # q, Touches(u, p)', Touches(w, q)'
                 PROVE  /\ ~PendingExclusion(u, p)' /\ ~PendingExclusion(w, q)'
                              => ~Excludes(draft'[u][p], draft'[w][q])
                        /\ ~PendingKey(u, p)' /\ ~PendingKey(w, q)'
                              => ~SameKey(draft'[u][p], draft'[w][q])
    BY DEF DraftsApart, Excludes, SameKey
  <2>2. CASE (u = t /\ p = r) \/ (w = t /\ q = r)
    BY <1>2, <2>2
  <2>3. CASE (u # t \/ p # r) /\ (w # t \/ q # r)
    <3>1. Touches(u, p) /\ Touches(w, q)
      BY <1>3, <2>1, <2>3
    <3>2. draft'[u][p] = draft[u][p] /\ draft'[w][q] = draft[w][q]
      BY <1>1, <2>3
    <3>3. /\ PendingExclusion(u, p) => PendingExclusion(u, p)'
          /\ PendingExclusion(w, q) => PendingExclusion(w, q)'
          /\ PendingKey(u, p) => PendingKey(u, p)'
          /\ PendingKey(w, q) => PendingKey(w, q)'
      BY <1>2
    <3>4. QED
      BY <2>1, <3>1, <3>2, <3>3 DEF DraftsApart
  <2>4. QED
    BY <2>2, <2>3
<1>11. QED
  BY <1>4, <1>5, <1>6, <1>7, <1>8, <1>9, <1>10 DEF WriteInv

\* A DELETE drafts the absence of a row, which clashes with nothing.
LEMMA DeleteStep ==
    ASSUME IInv, TypeOK', NEW t \in Tx, DeleteRow(t)
    PROVE  WriteInv'
<1> USE DEF IInv, TypeOK
<1>0. PICK r \in Rows : r = target[t]
  BY DEF DeleteRow, Locked, StatementInv
<1>1. \A u \in Tx \ {t} : ~Touches(u, r)
  BY <1>0 DEF DeleteRow, Locked, WaitsFor
<1>2. /\ draft'[t][r] = NoRow
      /\ \A u \in Tx, q \in Rows : (u # t \/ q # r) => draft'[u][q] = draft[u][q]
  BY <1>0 DEF DeleteRow
<1>3. /\ \A u \in Tx \ {t}, q \in Rows :
             /\ PendingExclusion(u, q)' <=> PendingExclusion(u, q)
             /\ PendingKey(u, q)' <=> PendingKey(u, q)
      /\ \A q \in Rows : ~PendingExclusion(t, q) /\ ~PendingKey(t, q)
  BY DEF DeleteRow, Locked, Settled, PendingExclusion, PendingKey, Unchecked, Checking
<1>4. /\ Touches(t, r)' /\ Own(t, r)' = NoRow
      /\ \A u \in Tx, q \in Rows : (u # t \/ q # r) => (Touches(u, q)' <=> Touches(u, q))
      /\ \A u \in Tx, q \in Rows : (u # t \/ q # r) => Own(u, q)' = Own(u, q)
  BY <1>1, <1>2, MarkersAssumption DEF DeleteRow, Touches, Own
<1>5. \A w : /\ ~Excludes(NoRow, w) /\ ~Excludes(w, NoRow)
             /\ ~SameKey(NoRow, w) /\ ~SameKey(w, NoRow)
  BY DEF Excludes, SameKey
<1>6. StatementInv'
  BY <1>2 DEF DeleteRow, Settled, StatementInv, Checking
<1>7. OneWriter'
  <2>1. SUFFICES ASSUME NEW u \in Tx, NEW w \in Tx, NEW q \in Rows,
                        Touches(u, q)', Touches(w, q)'
                 PROVE  u = w
    BY DEF OneWriter
  <2>2. CASE q = r
    BY <1>1, <1>4, <2>1, <2>2
  <2>3. CASE q # r
    BY <1>4, <2>1, <2>3 DEF OneWriter
  <2>4. QED
    BY <2>2, <2>3
<1>8. PeriodsForward'
  BY <1>1, <1>2, MarkersAssumption DEF DeleteRow, PeriodsForward
<1>9. DraftsKeepTerms'
  <2>1. SUFFICES ASSUME NEW u \in Tx, NEW q \in Rows, Touches(u, q)'
                 PROVE  Ledger!KeepsTerms(committed[q], draft'[u][q])
    BY DEF DraftsKeepTerms, DeleteRow, Ledger!KeepsTerms
  <2>2. CASE u = t /\ q = r
    BY <1>2, <2>2 DEF Ledger!KeepsTerms
  <2>3. CASE u # t \/ q # r
    BY <1>2, <1>4, <2>1, <2>3 DEF DraftsKeepTerms
  <2>4. QED
    BY <2>2, <2>3
<1>10. CommittedApart'
  BY DEF DeleteRow, CommittedApart
<1>11. OwnApart'
  <2>1. SUFFICES ASSUME NEW u \in Tx, NEW p \in Rows, NEW q \in Rows, p # q
                 PROVE  /\ ~PendingExclusion(u, p)' /\ ~PendingExclusion(u, q)'
                              => ~Excludes(Own(u, p)', Own(u, q)')
                        /\ ~PendingKey(u, p)' /\ ~PendingKey(u, q)'
                              => ~SameKey(Own(u, p)', Own(u, q)')
    BY DEF OwnApart, Excludes, SameKey
  <2>2. QED
    BY <1>3, <1>4, <1>5, <2>1 DEF OwnApart
<1>12. DraftsApart'
  <2>1. SUFFICES ASSUME NEW u \in Tx, NEW w \in Tx, NEW p \in Rows, NEW q \in Rows,
                        u # w, p # q, Touches(u, p)', Touches(w, q)'
                 PROVE  /\ ~PendingExclusion(u, p)' /\ ~PendingExclusion(w, q)'
                              => ~Excludes(draft'[u][p], draft'[w][q])
                        /\ ~PendingKey(u, p)' /\ ~PendingKey(w, q)'
                              => ~SameKey(draft'[u][p], draft'[w][q])
    BY DEF DraftsApart, Excludes, SameKey
  <2>2. CASE (u = t /\ p = r) \/ (w = t /\ q = r)
    BY <1>2, <1>5, <2>2
  <2>3. CASE (u # t \/ p # r) /\ (w # t \/ q # r)
    <3>1. Touches(u, p) /\ Touches(w, q)
      BY <1>4, <2>1, <2>3
    <3>2. draft'[u][p] = draft[u][p] /\ draft'[w][q] = draft[w][q]
      BY <1>2, <2>3
    <3>3. /\ PendingExclusion(u, p) => PendingExclusion(u, p)'
          /\ PendingExclusion(w, q) => PendingExclusion(w, q)'
          /\ PendingKey(u, p) => PendingKey(u, p)'
          /\ PendingKey(w, q) => PendingKey(w, q)'
      BY <1>3
    <3>4. QED
      BY <2>1, <3>1, <3>2, <3>3 DEF DraftsApart
  <2>4. QED
    BY <2>2, <2>3
<1>13. QED
  BY <1>6, <1>7, <1>8, <1>9, <1>10, <1>11, <1>12 DEF WriteInv

\* The exclusion check passed: the draft clashes with nothing t would commit and
\* with no draft of anybody else.
LEMMA AcceptExclusionStep ==
    ASSUME IInv, TypeOK', NEW t \in Tx, Accept(t), phase[t] = "exclusion"
    PROVE  WriteInv'
<1> USE DEF IInv, TypeOK
<1>1. PICK r \in Rows : r = target[t] /\ draft[t][r] \in Version
  BY DEF StatementInv, Checking
<1>2. Touches(t, r) /\ Own(t, r) = draft[t][r]
  BY <1>1, MarkersAssumption DEF Touches, Own
<1>3. /\ UNCHANGED <<committed, draft, target>>
      /\ phase' = [phase EXCEPT ![t] = "uniqueness"]
  BY DEF Accept
<1>4. \A w : Clash(t, w) <=> Excludes(draft[t][r], w)
  BY <1>1 DEF Clash
<1>5. \A u \in Tx \ {t}, q \in Rows : q # r /\ Touches(u, q) =>
          ~Excludes(draft[t][r], committed[q]) /\ ~Excludes(draft[t][r], draft[u][q])
  BY <1>1, <1>4 DEF Accept, WaitsFor, Checking, Entered
<1>6. \A q \in Rows : q # r => ~Excludes(draft[t][r], Own(t, q))
  <2>1. SUFFICES ASSUME NEW q \in Rows, q # r, Excludes(draft[t][r], Own(t, q))
                 PROVE  FALSE
    OBVIOUS
  <2>2. PICK u \in Tx \ {t} : Touches(u, q)
    BY <1>1, <1>4, <2>1 DEF Accept, Refused
  <2>3. Own(t, q) = committed[q]
    BY <2>2 DEF OneWriter, Own
  <2>4. QED
    BY <1>5, <2>1, <2>2, <2>3
<1>7. /\ \A u \in Tx, q \in Rows : PendingKey(u, q)' <=> PendingKey(u, q)
      /\ \A u \in Tx, q \in Rows : PendingExclusion(u, q) =>
                                       PendingExclusion(u, q)' \/ (u = t /\ q = r)
      /\ \A u \in Tx, q \in Rows : Touches(u, q)' <=> Touches(u, q)
      /\ \A u \in Tx, q \in Rows : Own(u, q)' = Own(u, q)
  BY <1>1, <1>3 DEF PendingKey, PendingExclusion, Unchecked, Checking, Touches, Own
<1>8. StatementInv' /\ OneWriter' /\ PeriodsForward' /\ DraftsKeepTerms' /\ CommittedApart'
  BY <1>3 DEF StatementInv, Checking, OneWriter, PeriodsForward, DraftsKeepTerms,
              CommittedApart, Touches
<1>9. OwnApart'
  <2>0. SUFFICES ASSUME NEW u \in Tx, NEW p \in Rows, NEW q \in Rows, p # q
                 PROVE  /\ ~PendingExclusion(u, p)' /\ ~PendingExclusion(u, q)'
                              => ~Excludes(Own(u, p)', Own(u, q)')
                        /\ ~PendingKey(u, p)' /\ ~PendingKey(u, q)'
                              => ~SameKey(Own(u, p)', Own(u, q)')
    BY DEF OwnApart, Excludes, SameKey
  <2>1. p # q /\ Own(u, p)' = Own(u, p) /\ Own(u, q)' = Own(u, q)
    BY <1>7, <2>0
  <2>2. ASSUME u = t, p = r \/ q = r
        PROVE  ~Excludes(Own(u, p), Own(u, q))
    BY <1>2, <1>6, <2>1, <2>2, ExcludesSymmetric
  <2>3. QED
    BY <1>7, <2>1, <2>2 DEF OwnApart
<1>10. DraftsApart'
  <2>1. SUFFICES ASSUME NEW u \in Tx, NEW w \in Tx, NEW p \in Rows, NEW q \in Rows,
                        u # w, p # q, Touches(u, p), Touches(w, q)
                 PROVE  /\ ~PendingExclusion(u, p)' /\ ~PendingExclusion(w, q)'
                              => ~Excludes(draft[u][p], draft[w][q])
                        /\ ~PendingKey(u, p) /\ ~PendingKey(w, q)
                              => ~SameKey(draft[u][p], draft[w][q])
    BY <1>3, <1>7 DEF DraftsApart, Excludes, SameKey
  <2>2. /\ ~PendingExclusion(u, p) /\ ~PendingExclusion(w, q)
              => ~Excludes(draft[u][p], draft[w][q])
        /\ ~PendingKey(u, p) /\ ~PendingKey(w, q)
              => ~SameKey(draft[u][p], draft[w][q])
    BY <2>1 DEF DraftsApart
  <2>3. CASE u = t /\ p = r
    BY <1>5, <2>1, <2>2, <2>3
  <2>4. CASE w = t /\ q = r
    <3>1. ~Excludes(draft[w][q], draft[u][p])
      BY <1>5, <2>1, <2>4
    <3>2. QED
      BY <2>2, <3>1, ExcludesSymmetric
  <2>5. CASE ~(u = t /\ p = r) /\ ~(w = t /\ q = r)
    BY <1>7, <2>2, <2>5
  <2>6. QED
    BY <2>3, <2>4, <2>5
<1>11. QED
  BY <1>8, <1>9, <1>10 DEF WriteInv

\* The uniqueness check passed: the same for idempotency keys, except that a
\* statement still before its own uniqueness check has no entry to meet.
LEMMA AcceptKeyStep ==
    ASSUME IInv, TypeOK', NEW t \in Tx, Accept(t), phase[t] = "uniqueness"
    PROVE  WriteInv'
<1> USE DEF IInv, TypeOK
<1>1. PICK r \in Rows : r = target[t] /\ draft[t][r] \in Version
  BY DEF StatementInv, Checking
<1>2. Touches(t, r) /\ Own(t, r) = draft[t][r]
  BY <1>1, MarkersAssumption DEF Touches, Own
<1>3. /\ UNCHANGED <<committed, draft>>
      /\ phase' = [phase EXCEPT ![t] = "open"]
      /\ target' = [target EXCEPT ![t] = NoRow]
  BY DEF Accept, Settled
<1>4. \A w : Clash(t, w) <=> SameKey(draft[t][r], w)
  BY <1>1 DEF Clash
<1>5. \A u \in Tx \ {t}, q \in Rows : q # r /\ Touches(u, q) =>
          /\ ~SameKey(draft[t][r], committed[q])
          /\ ~PendingKey(u, q) => ~SameKey(draft[t][r], draft[u][q])
  BY <1>1, <1>4 DEF Accept, WaitsFor, Checking, Entered, PendingKey
<1>6. \A q \in Rows : q # r => ~SameKey(draft[t][r], Own(t, q))
  <2>1. SUFFICES ASSUME NEW q \in Rows, q # r, SameKey(draft[t][r], Own(t, q))
                 PROVE  FALSE
    OBVIOUS
  <2>2. PICK u \in Tx \ {t} : Touches(u, q)
    BY <1>1, <1>4, <2>1 DEF Accept, Refused
  <2>3. Own(t, q) = committed[q]
    BY <2>2 DEF OneWriter, Own
  <2>4. QED
    BY <1>5, <2>1, <2>2, <2>3
<1>7. /\ \A u \in Tx, q \in Rows : PendingKey(u, q) =>
                                       PendingKey(u, q)' \/ (u = t /\ q = r)
      /\ \A u \in Tx, q \in Rows : PendingExclusion(u, q) <=> PendingExclusion(u, q)'
      /\ \A u \in Tx, q \in Rows : Touches(u, q)' <=> Touches(u, q)
      /\ \A u \in Tx, q \in Rows : Own(u, q)' = Own(u, q)
  BY <1>1, <1>3 DEF PendingKey, PendingExclusion, Unchecked, Checking, Touches, Own
<1>8. StatementInv' /\ OneWriter' /\ PeriodsForward' /\ DraftsKeepTerms' /\ CommittedApart'
  BY <1>3 DEF StatementInv, Checking, OneWriter, PeriodsForward, DraftsKeepTerms,
              CommittedApart, Touches
<1>9. OwnApart'
  <2>0. SUFFICES ASSUME NEW u \in Tx, NEW p \in Rows, NEW q \in Rows, p # q
                 PROVE  /\ ~PendingExclusion(u, p)' /\ ~PendingExclusion(u, q)'
                              => ~Excludes(Own(u, p)', Own(u, q)')
                        /\ ~PendingKey(u, p)' /\ ~PendingKey(u, q)'
                              => ~SameKey(Own(u, p)', Own(u, q)')
    BY DEF OwnApart, Excludes, SameKey
  <2>1. p # q /\ Own(u, p)' = Own(u, p) /\ Own(u, q)' = Own(u, q)
    BY <1>7, <2>0
  <2>2. ASSUME u = t, p = r \/ q = r
        PROVE  ~SameKey(Own(u, p), Own(u, q))
    BY <1>2, <1>6, <2>1, <2>2, SameKeySymmetric
  <2>3. QED
    BY <1>7, <2>1, <2>2 DEF OwnApart
<1>10. DraftsApart'
  <2>1. SUFFICES ASSUME NEW u \in Tx, NEW w \in Tx, NEW p \in Rows, NEW q \in Rows,
                        u # w, p # q, Touches(u, p), Touches(w, q)
                 PROVE  /\ ~PendingExclusion(u, p) /\ ~PendingExclusion(w, q)
                              => ~Excludes(draft[u][p], draft[w][q])
                        /\ ~PendingKey(u, p)' /\ ~PendingKey(w, q)'
                              => ~SameKey(draft[u][p], draft[w][q])
    BY <1>3, <1>7 DEF DraftsApart, Excludes, SameKey
  <2>2. /\ ~PendingExclusion(u, p) /\ ~PendingExclusion(w, q)
              => ~Excludes(draft[u][p], draft[w][q])
        /\ ~PendingKey(u, p) /\ ~PendingKey(w, q)
              => ~SameKey(draft[u][p], draft[w][q])
    BY <2>1 DEF DraftsApart
  <2>3. CASE u = t /\ p = r
    <3>1. ~PendingKey(w, q)' => ~SameKey(draft[u][p], draft[w][q])
      BY <1>5, <1>7, <2>1, <2>3
    <3>2. QED
      BY <2>2, <3>1
  <2>4. CASE w = t /\ q = r
    <3>1. ~PendingKey(u, p)' => ~SameKey(draft[w][q], draft[u][p])
      BY <1>5, <1>7, <2>1, <2>4
    <3>2. QED
      BY <2>2, <3>1, SameKeySymmetric
  <2>5. CASE ~(u = t /\ p = r) /\ ~(w = t /\ q = r)
    BY <1>7, <2>2, <2>5
  <2>6. QED
    BY <2>3, <2>4, <2>5
<1>11. QED
  BY <1>8, <1>9, <1>10 DEF WriteInv

\* A transaction loses its drafts (an error or ROLLBACK): fewer things to clash.
Clear(t) ==
    /\ UNCHANGED committed
    /\ draft' = [draft EXCEPT ![t] = NoDraft]
    /\ \E p \in {"idle", "failed"} : phase' = [phase EXCEPT ![t] = p]
    /\ target' = [target EXCEPT ![t] = NoRow]

\* What a session's own end does to the pending checks and drafts of the others.
LEMMA EndedFrame ==
    ASSUME IInv, NEW t \in Tx,
           draft' = [draft EXCEPT ![t] = NoDraft],
           \E p \in {"idle", "failed"} : phase' = [phase EXCEPT ![t] = p],
           target' = [target EXCEPT ![t] = NoRow]
    PROVE  /\ \A q \in Rows : ~Touches(t, q)' /\ draft'[t][q] = Untouched
           /\ \A u \in Tx \ {t} : draft'[u] = draft[u]
           /\ \A u \in Tx \ {t}, q \in Rows :
                  /\ Touches(u, q)' <=> Touches(u, q)
                  /\ PendingExclusion(u, q)' <=> PendingExclusion(u, q)
                  /\ PendingKey(u, q)' <=> PendingKey(u, q)
           /\ StatementInv'
           /\ OneWriter'
<1> USE DEF IInv, TypeOK
<1>1. /\ \A q \in Rows : ~Touches(t, q)' /\ draft'[t][q] = Untouched
      /\ \A u \in Tx \ {t} : draft'[u] = draft[u]
  BY DEF Touches, NoDraft
<1>2. \A u \in Tx \ {t}, q \in Rows :
          /\ Touches(u, q)' <=> Touches(u, q)
          /\ PendingExclusion(u, q)' <=> PendingExclusion(u, q)
          /\ PendingKey(u, q)' <=> PendingKey(u, q)
  BY <1>1 DEF Touches, PendingExclusion, PendingKey, Unchecked, Checking
<1>3. StatementInv'
  BY <1>1 DEF StatementInv, Checking
<1>4. OneWriter'
  BY <1>1, <1>2 DEF OneWriter
<1>5. QED
  BY <1>1, <1>2, <1>3, <1>4

\* Dropping drafts keeps the invariant.
LEMMA ClearStep ==
    ASSUME IInv, TypeOK', NEW t \in Tx, Clear(t)
    PROVE  WriteInv'
<1> USE DEF IInv, TypeOK
<1>1. /\ \A q \in Rows : ~Touches(t, q)' /\ draft'[t][q] = Untouched
      /\ \A u \in Tx \ {t} : draft'[u] = draft[u]
      /\ \A u \in Tx \ {t}, q \in Rows :
             /\ Touches(u, q)' <=> Touches(u, q)
             /\ PendingExclusion(u, q)' <=> PendingExclusion(u, q)
             /\ PendingKey(u, q)' <=> PendingKey(u, q)
      /\ StatementInv' /\ OneWriter'
  BY EndedFrame DEF Clear
<1>2. PeriodsForward'
  BY <1>1, MarkersAssumption DEF Clear, PeriodsForward
<1>3. DraftsKeepTerms'
  <2>1. SUFFICES ASSUME NEW u \in Tx, NEW q \in Rows, Touches(u, q)'
                 PROVE  Ledger!KeepsTerms(committed[q], draft'[u][q])
    BY DEF DraftsKeepTerms, Clear, Ledger!KeepsTerms
  <2>2. QED
    BY <1>1, <2>1 DEF DraftsKeepTerms
<1>4. CommittedApart'
  BY DEF Clear, CommittedApart
<1>5. /\ \A q \in Rows : Own(t, q)' = committed[q]
      /\ \A u \in Tx \ {t}, q \in Rows : Own(u, q)' = Own(u, q)
  BY <1>1 DEF Clear, Own
<1>6. OwnApart'
  <2>1. SUFFICES ASSUME NEW u \in Tx, NEW p \in Rows, NEW q \in Rows, p # q
                 PROVE  /\ ~PendingExclusion(u, p)' /\ ~PendingExclusion(u, q)'
                              => ~Excludes(Own(u, p)', Own(u, q)')
                        /\ ~PendingKey(u, p)' /\ ~PendingKey(u, q)'
                              => ~SameKey(Own(u, p)', Own(u, q)')
    BY DEF OwnApart, Excludes, SameKey
  <2>2. CASE u = t
    BY <1>5, <2>1, <2>2 DEF CommittedApart
  <2>3. CASE u # t
    BY <1>1, <1>5, <2>1, <2>3 DEF OwnApart
  <2>4. QED
    BY <2>2, <2>3
<1>7. DraftsApart'
  <2>1. SUFFICES ASSUME NEW u \in Tx, NEW w \in Tx, NEW p \in Rows, NEW q \in Rows,
                        u # w, p # q, Touches(u, p)', Touches(w, q)'
                 PROVE  /\ ~PendingExclusion(u, p)' /\ ~PendingExclusion(w, q)'
                              => ~Excludes(draft'[u][p], draft'[w][q])
                        /\ ~PendingKey(u, p)' /\ ~PendingKey(w, q)'
                              => ~SameKey(draft'[u][p], draft'[w][q])
    BY DEF DraftsApart, Excludes, SameKey
  <2>2. u # t /\ w # t
    BY <1>1, <2>1
  <2>3. QED
    BY <1>1, <2>1, <2>2 DEF DraftsApart
<1>8. QED
  BY <1>1, <1>2, <1>3, <1>4, <1>6, <1>7 DEF WriteInv

\* COMMIT publishes what the transaction sees.  By OwnApart it is apart from
\* itself, by DraftsApart from what every other transaction will publish.
LEMMA CommitStep ==
    ASSUME IInv, TypeOK', NEW t \in Tx, Commit(t)
    PROVE  WriteInv'
<1> USE DEF IInv, TypeOK
<1>1. /\ \A q \in Rows : ~Touches(t, q)' /\ draft'[t][q] = Untouched
      /\ \A u \in Tx \ {t} : draft'[u] = draft[u]
      /\ \A u \in Tx \ {t}, q \in Rows :
             /\ Touches(u, q)' <=> Touches(u, q)
             /\ PendingExclusion(u, q)' <=> PendingExclusion(u, q)
             /\ PendingKey(u, q)' <=> PendingKey(u, q)
      /\ StatementInv' /\ OneWriter'
  BY EndedFrame DEF Commit, Ended
<1>2. \A q \in Rows : committed'[q] = Own(t, q) /\ ~PendingExclusion(t, q) /\ ~PendingKey(t, q)
  BY DEF Commit, PendingExclusion, PendingKey, Unchecked, Checking
<1>3. \A u \in Tx \ {t}, q \in Rows : Touches(u, q) => Own(t, q) = committed[q]
  BY DEF OneWriter, Own
<1>4. PeriodsForward'
  <2>1. SUFFICES ASSUME NEW q \in Rows
                 PROVE  /\ committed'[q] # NoRow => committed'[q].start < committed'[q].end
                        /\ \A u \in Tx : draft'[u][q] \in Version
                              => draft'[u][q].start < draft'[u][q].end
    BY DEF PeriodsForward
  <2>2. committed'[q] # NoRow => committed'[q].start < committed'[q].end
    BY <1>2 DEF Own, Touches, PeriodsForward
  <2>3. QED
    BY <1>1, <2>2, MarkersAssumption DEF PeriodsForward
<1>5. DraftsKeepTerms'
  <2>1. SUFFICES ASSUME NEW u \in Tx, NEW q \in Rows, Touches(u, q)'
                 PROVE  Ledger!KeepsTerms(committed'[q], draft'[u][q])
    BY DEF DraftsKeepTerms, Ledger!KeepsTerms
  <2>2. u # t /\ Touches(u, q)
    BY <1>1, <2>1
  <2>3. committed'[q] = committed[q]
    BY <1>2, <1>3, <2>2
  <2>4. QED
    BY <1>1, <2>2, <2>3 DEF DraftsKeepTerms
<1>6. CommittedApart'
  <2>1. SUFFICES ASSUME NEW p \in Rows, NEW q \in Rows, p # q
                 PROVE  /\ ~Excludes(committed'[p], committed'[q])
                        /\ ~SameKey(committed'[p], committed'[q])
    BY DEF CommittedApart, Excludes, SameKey
  <2>2. QED
    BY <1>2, <2>1 DEF OwnApart
<1>7. \A u \in Tx, q \in Rows :
          Own(u, q)' = IF u # t /\ Touches(u, q) THEN draft[u][q] ELSE Own(t, q)
  BY <1>1, <1>2 DEF Own
<1>8. OwnApart'
  <2>1. SUFFICES ASSUME NEW u \in Tx, NEW p \in Rows, NEW q \in Rows, p # q
                 PROVE  /\ ~PendingExclusion(u, p)' /\ ~PendingExclusion(u, q)'
                              => ~Excludes(Own(u, p)', Own(u, q)')
                        /\ ~PendingKey(u, p)' /\ ~PendingKey(u, q)'
                              => ~SameKey(Own(u, p)', Own(u, q)')
    BY DEF OwnApart, Excludes, SameKey
  <2>2. ~Excludes(Own(t, p), Own(t, q)) /\ ~SameKey(Own(t, p), Own(t, q))
    BY <1>2, <2>1 DEF OwnApart
  <2>3. ASSUME u # t, NEW a \in Rows, NEW b \in Rows, a # b, Touches(u, a), ~Touches(u, b)
        PROVE  /\ ~PendingExclusion(u, a) => ~Excludes(draft[u][a], Own(t, b))
               /\ ~PendingKey(u, a) => ~SameKey(draft[u][a], Own(t, b))
    <3>0. Own(u, a) = draft[u][a] /\ Own(u, b) = committed[b]
      BY <2>3 DEF Own
    <3>1. CASE Touches(t, b)
      <4>1. Own(t, b) = draft[t][b]
        BY <3>1 DEF Own
      <4>2. QED
        BY <1>2, <2>3, <3>1, <4>1 DEF DraftsApart
    <3>2. CASE ~Touches(t, b)
      <4>1. Own(t, b) = Own(u, b)
        BY <3>0, <3>2 DEF Own
      <4>2. b # target[u] \/ ~Checking(u)
        BY <2>3, MarkersAssumption DEF StatementInv, Touches
      <4>3. ~PendingExclusion(u, b) /\ ~PendingKey(u, b)
        BY <4>2 DEF PendingExclusion, PendingKey, Unchecked, Checking
      <4>4. QED
        BY <2>3, <3>0, <4>1, <4>3 DEF OwnApart
    <3>3. QED
      BY <3>1, <3>2
  <2>4. CASE u = t
    BY <1>7, <2>2, <2>4
  <2>5. CASE u # t /\ Touches(u, p) /\ Touches(u, q)
    <3>1. /\ Own(u, p)' = Own(u, p) /\ Own(u, q)' = Own(u, q)
          /\ PendingExclusion(u, p)' <=> PendingExclusion(u, p)
          /\ PendingExclusion(u, q)' <=> PendingExclusion(u, q)
          /\ PendingKey(u, p)' <=> PendingKey(u, p)
          /\ PendingKey(u, q)' <=> PendingKey(u, q)
      BY <1>1, <1>7, <2>5 DEF Own
    <3>2. QED
      BY <2>1, <3>1 DEF OwnApart
  <2>6. CASE u # t /\ Touches(u, p) /\ ~Touches(u, q)
    <3>1. Own(u, p)' = draft[u][p] /\ Own(u, q)' = Own(t, q)
      BY <1>7, <2>6
    <3>2. QED
      BY <1>1, <2>1, <2>3, <2>6, <3>1
  <2>7. CASE u # t /\ ~Touches(u, p) /\ Touches(u, q)
    <3>1. Own(u, p)' = Own(t, p) /\ Own(u, q)' = draft[u][q]
      BY <1>7, <2>7
    <3>2. /\ ~PendingExclusion(u, q) => ~Excludes(draft[u][q], Own(t, p))
          /\ ~PendingKey(u, q) => ~SameKey(draft[u][q], Own(t, p))
      BY <2>1, <2>3, <2>7
    <3>3. QED
      BY <1>1, <2>7, <3>1, <3>2, ExcludesSymmetric, SameKeySymmetric
  <2>8. CASE u # t /\ ~Touches(u, p) /\ ~Touches(u, q)
    BY <1>7, <2>2, <2>8
  <2>9. QED
    BY <2>4, <2>5, <2>6, <2>7, <2>8
<1>9. DraftsApart'
  <2>1. SUFFICES ASSUME NEW u \in Tx, NEW w \in Tx, NEW p \in Rows, NEW q \in Rows,
                        u # w, p # q, Touches(u, p)', Touches(w, q)'
                 PROVE  /\ ~PendingExclusion(u, p)' /\ ~PendingExclusion(w, q)'
                              => ~Excludes(draft'[u][p], draft'[w][q])
                        /\ ~PendingKey(u, p)' /\ ~PendingKey(w, q)'
                              => ~SameKey(draft'[u][p], draft'[w][q])
    BY DEF DraftsApart, Excludes, SameKey
  <2>2. u # t /\ w # t
    BY <1>1, <2>1
  <2>3. QED
    BY <1>1, <2>1, <2>2 DEF DraftsApart
<1>10. QED
  BY <1>1, <1>4, <1>5, <1>6, <1>8, <1>9 DEF WriteInv

\* IInv is inductive: each action is one of the steps above.
LEMMA InductiveStep == IInv /\ [Next]_vars => IInv'
<1> SUFFICES ASSUME IInv, [Next]_vars PROVE IInv'
  OBVIOUS
<1>0. TypeOK'
  BY TypeStep DEF IInv
<1>1. ASSUME NEW t \in Tx, Begin(t) PROVE WriteInv'
  <2>1. target' = [target EXCEPT ![t] = target[t]] /\ phase'[t] = "open"
    BY <1>1 DEF Begin, IInv, TypeOK
  <2>2. Quiet(t)
    BY <1>1, <2>1 DEF Begin, Quiet
  <2>3. QED
    BY <1>0, <2>2, QuietStep
<1>2. ASSUME NEW t \in Tx, NEW r \in Rows, NEW v \in Requests, Insert(t, r, v)
      PROVE  WriteInv'
  <2>1. Write(t, r, v)
    BY <1>2, RequestsAssumption DEF Insert, Write, CanIssue, Ledger!KeepsTerms
  <2>2. QED
    BY <1>0, <2>1, WriteStep
<1>3. ASSUME NEW t \in Tx, NEW state, Fail(t, state) PROVE WriteInv'
  <2>1. Clear(t)
    BY <1>3 DEF Fail, Clear
  <2>2. QED
    BY <1>0, <2>1, ClearStep
<1>4. ASSUME NEW t \in Tx, NEW r \in Rows, NEW s \in Wanted \cup {Deleted},
             Change(t, r, s)
      PROVE  WriteInv'
  <2>1. Quiet(t)
    BY <1>4 DEF Change, CanIssue, Quiet
  <2>2. QED
    BY <1>0, <2>1, QuietStep
<1>5. ASSUME NEW t \in Tx, ChangeNothing(t) PROVE WriteInv'
  <2>1. phase'[t] = "open"
    BY <1>5 DEF ChangeNothing, Settled, IInv, TypeOK
  <2>2. Quiet(t)
    BY <1>5, <2>1 DEF ChangeNothing, Locked, Settled, Quiet
  <2>3. QED
    BY <1>0, <2>2, QuietStep
<1>6. ASSUME NEW t \in Tx, SetStatus(t) PROVE WriteInv'
  <2>1. PICK r \in Rows : r = target[t]
    BY <1>6 DEF SetStatus, Locked, IInv, StatementInv
  <2>2. PICK old \in Version : old = committed[r]
    BY <1>6, <2>1 DEF SetStatus, IInv, TypeOK
  <2>3. PICK st \in BookingStatus : st = want[t]
    BY <1>6 DEF SetStatus, IInv, TypeOK
  <2>4. PICK v : v = [old EXCEPT !.status = st]
    OBVIOUS
  <2>5. v \in Version /\ v.start < v.end /\ v = [old EXCEPT !.status = v.status]
    BY <2>2, <2>4, StatusMoveIsVersion, MarkersAssumption DEF IInv, PeriodsForward
  <2>6. \A u \in Tx \ {t} : ~Touches(u, r)
    BY <1>6, <2>1 DEF SetStatus, Locked, WaitsFor
  <2>7. target' = [target EXCEPT ![t] = r]
    BY <1>6, <2>1 DEF SetStatus, IInv, TypeOK
  <2>8. Write(t, r, v)
    BY <1>6, <2>1, <2>2, <2>3, <2>4, <2>5, <2>6, <2>7
       DEF SetStatus, Locked, Write, Ledger!KeepsTerms
  <2>9. QED
    BY <1>0, <2>8, WriteStep
<1>7. ASSUME NEW t \in Tx, Accept(t) PROVE WriteInv'
  BY <1>0, <1>7, AcceptExclusionStep, AcceptKeyStep DEF Accept
<1>8. ASSUME NEW t \in Tx, Rollback(t) PROVE WriteInv'
  <2>1. Clear(t)
    BY <1>8 DEF Rollback, Ended, Clear
  <2>2. QED
    BY <1>0, <2>1, ClearStep
<1>9. ASSUME UNCHANGED vars PROVE WriteInv'
  <2>1. /\ UNCHANGED <<committed, draft>>
        /\ \A u \in Tx, q \in Rows : PendingExclusion(u, q)' <=> PendingExclusion(u, q)
        /\ \A u \in Tx, q \in Rows : PendingKey(u, q)' <=> PendingKey(u, q)
    BY <1>9 DEF vars, PendingExclusion, PendingKey, Unchecked, Checking
  <2>2. StatementInv'
    BY <1>9 DEF vars, IInv, StatementInv, Checking
  <2>3. OneWriter' /\ PeriodsForward' /\ DraftsKeepTerms' /\ CommittedApart'
    BY <2>1 DEF OneWriter, PeriodsForward, DraftsKeepTerms, CommittedApart, Touches, IInv
  <2>4. OwnApart'
    <3>1. SUFFICES ASSUME NEW u \in Tx, NEW p \in Rows, NEW q \in Rows, p # q
                   PROVE  /\ ~PendingExclusion(u, p)' /\ ~PendingExclusion(u, q)'
                                => ~Excludes(Own(u, p)', Own(u, q)')
                          /\ ~PendingKey(u, p)' /\ ~PendingKey(u, q)'
                                => ~SameKey(Own(u, p)', Own(u, q)')
      BY DEF OwnApart, Excludes, SameKey
    <3>2. Own(u, p)' = Own(u, p) /\ Own(u, q)' = Own(u, q)
      BY <2>1 DEF Own, Touches
    <3>3. QED
      BY <2>1, <3>1, <3>2 DEF OwnApart, IInv
  <2>5. DraftsApart'
    <3>1. SUFFICES ASSUME NEW u \in Tx, NEW w \in Tx, NEW p \in Rows, NEW q \in Rows,
                          u # w, p # q, Touches(u, p)', Touches(w, q)'
                   PROVE  /\ ~PendingExclusion(u, p)' /\ ~PendingExclusion(w, q)'
                                => ~Excludes(draft'[u][p], draft'[w][q])
                          /\ ~PendingKey(u, p)' /\ ~PendingKey(w, q)'
                                => ~SameKey(draft'[u][p], draft'[w][q])
      BY DEF DraftsApart, Excludes, SameKey
    <3>2. Touches(u, p) /\ Touches(w, q)
      BY <2>1, <3>1 DEF Touches
    <3>3. QED
      BY <2>1, <3>1, <3>2 DEF DraftsApart, IInv
  <2>6. QED
    BY <2>2, <2>3, <2>4, <2>5 DEF WriteInv
<1>10. WriteInv'
  <2>1. ASSUME NEW t \in Tx, NEW v \in Requests, InsertBadPeriod(t, v) PROVE WriteInv'
    BY <1>3, <2>1 DEF InsertBadPeriod
  <2>2. ASSUME NEW t \in Tx, Refuse(t) \/ BreakDeadlock(t) PROVE WriteInv'
    BY <1>3, <2>2 DEF Refuse, BreakDeadlock
  <2>3. ASSUME NEW t \in Tx, DeleteRow(t) \/ Commit(t) PROVE WriteInv'
    BY <1>0, <2>3, DeleteStep, CommitStep
  <2>4. CASE Next
    <3>1. PICK t \in Tx :
              \/ Begin(t)
              \/ \E r \in Rows, v \in Requests : Insert(t, r, v)
              \/ \E v \in Requests : InsertBadPeriod(t, v)
              \/ \E r \in Rows, s \in Wanted \cup {Deleted} : Change(t, r, s)
              \/ ChangeNothing(t) \/ SetStatus(t) \/ Accept(t) \/ Rollback(t)
              \/ Refuse(t) \/ BreakDeadlock(t)
              \/ DeleteRow(t) \/ Commit(t)
      BY <2>4, Zenon DEF Next
    <3>2. CASE \E r \in Rows, v \in Requests : Insert(t, r, v)
      BY <1>2, <3>2
    <3>3. CASE \E r \in Rows, s \in Wanted \cup {Deleted} : Change(t, r, s)
      BY <1>4, <3>3
    <3>4. QED
      BY <1>1, <1>5, <1>6, <1>7, <1>8, <2>1, <2>2, <2>3, <3>1, <3>2, <3>3, Zenon
  <2>5. QED
    BY <1>9, <2>4 DEF Next
<1>11. QED
  BY <1>0, <1>10 DEF IInv, WriteInv

\* The empty tables satisfy IInv.
LEMMA InitIInv == Init => IInv
<1> SUFFICES ASSUME Init PROVE IInv
  OBVIOUS
<1>1. TypeOK
  BY MaxStatementsAssumption DEF Init, TypeOK, Phases, Replies, RefusalCodes
<1>2. \A t \in Tx, r \in Rows : ~Touches(t, r) /\ Own(t, r) = NoRow
  BY DEF Init, Touches, Own
<1>3. StatementInv
  BY DEF Init, StatementInv, Checking
<1>4. PeriodsForward
  BY MarkersAssumption DEF Init, PeriodsForward
<1>5. CommittedApart /\ OwnApart
  BY <1>2 DEF Init, CommittedApart, OwnApart, Excludes, SameKey
<1>6. OneWriter /\ DraftsKeepTerms /\ DraftsApart
  BY <1>2 DEF OneWriter, DraftsKeepTerms, DraftsApart
<1>7. QED
  BY <1>1, <1>3, <1>4, <1>5, <1>6 DEF IInv

\* IInv holds in every reachable state.
LEMMA Inductive == Spec => []IInv
BY InitIInv, InductiveStep, PTL DEF Spec
-----------------------------------------------------------------------------
(* What the invariant gives.                                               *)

\* Every variable keeps its type, for any sets of sessions, rows and requests.
THEOREM TypeCorrect == Spec => []TypeOK
<1>1. IInv => TypeOK
  BY DEF IInv
<1>2. QED
  BY <1>1, Inductive, PTL

\* No two committed live holds of a table ever share an hour of a vehicle.
LEMMA HoldsAreApartWhenIInv == IInv => NoDoubleBooking
<1> SUFFICES ASSUME IInv, NEW r \in Rows, NEW s \in Rows,
                    r # s, committed[r] # NoRow, committed[s] # NoRow,
                    committed[r].table = committed[s].table,
                    committed[r].vehicle = committed[s].vehicle,
                    Ledger!IsLive(committed[r]), Ledger!IsLive(committed[s])
             PROVE  Ledger!HoursOf(committed[r]) \cap Ledger!HoursOf(committed[s]) = {}
  BY DEF NoDoubleBooking, Ledger!HoldsAreApart
<1>1. /\ committed[r] \in Version /\ committed[s] \in Version
      /\ committed[r].start < committed[r].end /\ committed[s].start < committed[s].end
  BY DEF IInv, TypeOK, PeriodsForward
<1>2. ~Excludes(committed[r], committed[s])
  BY DEF IInv, CommittedApart
<1>3. ~Overlaps(committed[r], committed[s])
  BY <1>2 DEF Excludes, Holds, Ledger!IsLive
<1>4. QED
  BY <1>1, <1>3, OverlapIsSharedHour

\* Committed rows never share a renter's idempotency key.
LEMMA KeysAreSpentOnceWhenIInv == IInv => OneBookingPerKey
BY DEF IInv, CommittedApart, SameKey, OneBookingPerKey, Ledger!KeysAreSpentOnce

\* No hour of a vehicle is ever held by two committed live bookings, whatever the
\* sessions do.
THEOREM DoubleBookingIsImpossible == Spec => []NoDoubleBooking
BY Inductive, HoldsAreApartWhenIInv, PTL

\* A renter's idempotency key never names two committed bookings.
THEOREM KeyIsSpentOnce == Spec => []OneBookingPerKey
BY Inductive, KeysAreSpentOnceWhenIInv, PTL

\* What OnlyTrueClashIsRefused asks of a step.
TrueClash(t) ==
    (reply[t] # "SLOT_TAKEN" /\ reply'[t] = "SLOT_TAKEN") =>
        LET mine == draft[t][target[t]]
        IN  \E r \in Rows \ {target[t]} :
                LET other == Own(t, r)
                IN  /\ other # NoRow
                    /\ other.table = mine.table
                    /\ other.vehicle = mine.vehicle
                    /\ Ledger!IsLive(other) /\ Ledger!IsLive(mine)
                    /\ Ledger!HoursOf(other) \cap Ledger!HoursOf(mine) # {}

\* A refused exclusion check met a live row that shares an hour with the draft.
LEMMA RefusalShowsAClash ==
    ASSUME IInv, NEW t \in Tx, Refuse(t), reply'[t] = "SLOT_TAKEN"
    PROVE  TrueClash(t)
<1> USE DEF IInv, TypeOK
<1>1. phase[t] = "exclusion"
  BY DEF Refuse, Fail, FromSqlState
<1>2. PICK mine \in Version : mine = draft[t][target[t]]
  BY <1>1 DEF StatementInv, Checking
<1>3. PICK r \in Rows \ {target[t]} : Excludes(mine, Own(t, r))
  BY <1>1, <1>2 DEF Refuse, Refused, Clash
<1>4. PICK other \in Version : other = Own(t, r)
  BY <1>3 DEF Excludes, Own, Touches
<1>5. mine.start < mine.end /\ other.start < other.end
  <2>1. target[t] \in Rows
    BY <1>1 DEF StatementInv, Checking
  <2>2. mine.start < mine.end
    BY <1>2, <2>1 DEF PeriodsForward
  <2>3. other.start < other.end
    BY <1>4, MarkersAssumption DEF Own, PeriodsForward
  <2>4. QED
    BY <2>2, <2>3
<1>6. Excludes(mine, other) /\ Overlaps(other, mine)
  BY <1>3, <1>4 DEF Excludes, Overlaps
<1>7. Ledger!HoursOf(other) \cap Ledger!HoursOf(mine) # {}
  BY <1>5, <1>6, OverlapIsSharedHour
<1>8. QED
  BY <1>2, <1>3, <1>4, <1>6, <1>7, MarkersAssumption
     DEF TrueClash, Excludes, Holds, Ledger!IsLive

\* No other step tells a caller SLOT_TAKEN.
LEMMA OnlyRefusalTellsSlotTaken ==
    ASSUME IInv, [Next]_vars, NEW t \in Tx,
           reply[t] # "SLOT_TAKEN", reply'[t] = "SLOT_TAKEN"
    PROVE  Refuse(t)
<1> USE DEF IInv, TypeOK
<1>1. PICK u \in Tx :
          \/ \E v \in Requests : InsertBadPeriod(u, v)
          \/ Refuse(u)
          \/ BreakDeadlock(u)
          \/ Ended(u)
          \/ UNCHANGED reply
  BY DEF Next, vars, Begin, Insert, Change, ChangeNothing, DeleteRow, SetStatus, Accept,
         Commit, Rollback
<1>2. CASE \E v \in Requests : InsertBadPeriod(u, v)
  BY <1>2 DEF InsertBadPeriod, Fail, FromSqlState
<1>3. CASE Refuse(u)
  BY <1>3 DEF Refuse, Fail
<1>4. CASE BreakDeadlock(u)
  BY <1>4 DEF BreakDeadlock, Fail, FromSqlState
<1>5. CASE Ended(u)
  BY <1>5 DEF Ended
<1>6. QED
  BY <1>1, <1>2, <1>3, <1>4, <1>5

\* SLOT_TAKEN is said only about a slot that another live row really shares.
THEOREM RefusalsAreTrue == Spec => OnlyTrueClashIsRefused
<1>1. IInv /\ [Next]_vars => [\A t \in Tx : TrueClash(t)]_vars
  BY RefusalShowsAClash, OnlyRefusalTellsSlotTaken DEF TrueClash
<1>2. Spec => [][\A t \in Tx : TrueClash(t)]_vars
  BY <1>1, Inductive, PTL DEF Spec
<1>3. QED
  BY <1>2 DEF OnlyTrueClashIsRefused, TrueClash
-----------------------------------------------------------------------------
(* Refinement.                                                             *)

\* Every step of the tables is one legal change of the ledger, or none.
LEMMA LedgerStep == IInv /\ IInv' /\ [Next]_vars => [Ledger!Commit]_committed
<1> SUFFICES ASSUME IInv, IInv', Next, committed' # committed
             PROVE  Ledger!Commit
  BY DEF vars
<1>1. PICK t \in Tx : Commit(t)
  BY DEF Next, Begin, Insert, InsertBadPeriod, Change, ChangeNothing, DeleteRow, SetStatus,
         Accept, Refuse, BreakDeadlock, Rollback, Fail
<1>2. DOMAIN committed' = Rows
  BY <1>1 DEF Commit
<1>3. NoDoubleBooking' /\ OneBookingPerKey'
  BY HoldsAreApartWhenIInv, KeysAreSpentOnceWhenIInv, PTL
<1>4. \A r \in Rows : Ledger!KeepsTerms(committed[r], committed'[r])
  <2>1. SUFFICES ASSUME NEW r \in Rows
                 PROVE  Ledger!KeepsTerms(committed[r], committed'[r])
    OBVIOUS
  <2>2. CASE Touches(t, r)
    BY <1>1, <2>2 DEF Commit, Own, IInv, DraftsKeepTerms
  <2>3. CASE ~Touches(t, r)
    <3>1. committed'[r] = committed[r]
      BY <1>1, <2>3 DEF Commit, Own
    <3>2. committed[r] \in Version \cup {NoRow}
      BY DEF IInv, TypeOK
    <3>3. QED
      BY <3>1, <3>2 DEF Ledger!KeepsTerms, Version
  <2>4. QED
    BY <2>2, <2>3
<1>5. QED
  BY <1>2, <1>3, <1>4
     DEF NoDoubleBooking, OneBookingPerKey, Ledger!Commit, Ledger!Bookable

\* The tables implement the ledger.
THEOREM TablesImplementTheLedger == Spec => ImplementsLedger
<1>1. Init => Ledger!Init
  BY DEF Init, Ledger!Init
<1>2. QED
  BY <1>1, LedgerStep, Inductive, PTL DEF Spec, ImplementsLedger, Ledger!Spec

-----------------------------------------------------------------------------
(* Why no statement hangs, as far as safety goes: nobody but the deadlock  *)
(* detector is needed to end a wait.                                       *)

ClosedUnderWaiting(S) == \A u \in S : WaitsFor(u) \subseteq S

\* t waits for u, directly or through others.
Awaits(t, u) ==
    \A S \in SUBSET Tx : WaitsFor(t) \subseteq S /\ ClosedUnderWaiting(S) => u \in S

\* Its caller can end it, its statement is not waiting, or it is refused, now or by the
\* detector.
CanGoOn(t) ==
    \/ phase[t] \in {"open", "failed"}
    \/ phase[t] # "idle" /\ WaitsFor(t) = {}
    \/ Checking(t) /\ Refused(t)
    \/ phase[t] # "idle" /\ Deadlocked(t)

\* Every transaction under way can go on, or waits for one that can: no statement is
\* stuck behind others that are not themselves stuck in a cycle the detector sees (the
\* init migration's constraints under concurrent writers).  EveryTransactionEnds rests
\* on it.
EveryWaitHasAWayOut ==
    \A t \in Tx : phase[t] # "idle" =>
        \E u \in Tx : (u = t \/ Awaits(t, u)) /\ CanGoOn(u)

\* Only a transaction under way has written anything.
IdleHasNoDraft ==
    \A t \in Tx : phase[t] = "idle" => \A r \in Rows : ~Touches(t, r)

LEMMA IdleStep == IInv /\ IdleHasNoDraft /\ [Next]_vars => IdleHasNoDraft'
<1> SUFFICES ASSUME IInv, IdleHasNoDraft, [Next]_vars,
                    NEW t \in Tx, phase'[t] = "idle", NEW r \in Rows
             PROVE  draft'[t][r] = Untouched
  BY DEF IdleHasNoDraft, Touches
<1> USE DEF IInv, TypeOK
<1>1. ASSUME NEW u \in Tx, NoDraft = draft'[u],
             \A w \in Tx \ {u} : draft'[w] = draft[w] /\ phase'[w] = phase[w]
      PROVE  draft'[t][r] = Untouched
  BY <1>1 DEF NoDraft, IdleHasNoDraft, Touches
<1>2. ASSUME NEW u \in Tx, phase'[u] # "idle",
             \A w \in Tx \ {u} : draft'[w] = draft[w] /\ phase'[w] = phase[w]
      PROVE  draft'[t][r] = Untouched
  BY <1>2 DEF IdleHasNoDraft, Touches
<1>3. CASE UNCHANGED vars
  BY <1>3 DEF vars, IdleHasNoDraft, Touches
<1>4. ASSUME NEW u \in Tx,
             \/ Begin(u)
             \/ \E q \in Rows, v \in Requests : Insert(u, q, v)
             \/ \E q \in Rows, s \in Wanted \cup {Deleted} : Change(u, q, s)
             \/ ChangeNothing(u) \/ DeleteRow(u) \/ SetStatus(u) \/ Accept(u)
      PROVE  /\ phase'[u] # "idle"
             /\ \A w \in Tx \ {u} : draft'[w] = draft[w] /\ phase'[w] = phase[w]
  BY <1>4 DEF Begin, Insert, Change, ChangeNothing, DeleteRow, SetStatus, Accept, Settled
<1>5. ASSUME NEW u \in Tx,
             \/ \E v \in Requests : InsertBadPeriod(u, v)
             \/ Refuse(u) \/ BreakDeadlock(u) \/ Commit(u) \/ Rollback(u)
      PROVE  /\ draft'[u] = NoDraft
             /\ \A w \in Tx \ {u} : draft'[w] = draft[w] /\ phase'[w] = phase[w]
  BY <1>5 DEF InsertBadPeriod, Refuse, BreakDeadlock, Commit, Rollback, Fail, Ended
<1> QED BY <1>1, <1>2, <1>3, <1>4, <1>5 DEF Next

\* Whoever is waited for is a transaction under way.
LEMMA WaitedForIsUnderWay ==
    ASSUME IInv, IdleHasNoDraft, NEW t \in Tx, NEW u \in WaitsFor(t)
    PROVE  u \in Tx /\ phase[u] # "idle"
<1>1. u \in Tx /\ \E r \in Rows \cup {target[t]} : Touches(u, r) /\ r \in Rows
  BY DEF WaitsFor, IInv, StatementInv
<1> QED BY <1>1 DEF IdleHasNoDraft

\* What a transaction awaits, itself included, is closed under waiting.
LEMMA AwaitedIsClosed ==
    ASSUME NEW t \in Tx, NEW u \in Tx, u = t \/ Awaits(t, u), NEW w \in WaitsFor(u)
    PROVE  Awaits(t, w)
BY DEF Awaits, ClosedUnderWaiting

\* Among finitely many transactions that all wait for one another, one is in a cycle:
\* each of a smallest set that nobody waits out of.
LEMMA SomebodyIsDeadlocked ==
    ASSUME IsFiniteSet(Tx), NEW D, D \subseteq Tx, D # {}, ClosedUnderWaiting(D),
           \A u \in D : WaitsFor(u) # {}
    PROVE  \E u \in D : Deadlocked(u)
<1> DEFINE C == {S \in SUBSET D : S # {} /\ ClosedUnderWaiting(S)}
           T == {Cardinality(S) : S \in C}
<1>1. \A S \in C : IsFiniteSet(S) /\ Cardinality(S) \in Nat
  BY FS_Subset, FS_CardinalityType
<1>2. T \subseteq Nat /\ T # {}
  <2>1. D \in C
    OBVIOUS
  <2> QED BY <1>1, <2>1
<1>3. PICK n \in T : \A m \in T : n <= m
  <2> HIDE DEF T
  <2>1. PICK n \in T : \A m \in T : ~(<<m, n>> \in OpToRel(<, Nat))
    BY <1>2, NatLessThanWellFounded, WFMin
  <2>2. \A m \in T : ~(m < n)
    BY <1>2, <2>1 DEF OpToRel
  <2> QED BY <1>2, <2>2
<1>4. PICK S \in C : Cardinality(S) = n
  OBVIOUS
<1>5. PICK u : u \in S
  OBVIOUS
<1>6. ASSUME NEW X \in SUBSET Tx, WaitsFor(u) \subseteq X,
             \A w \in X : WaitsFor(w) \subseteq X
      PROVE  u \in X
  <2> DEFINE Y == X \cap S
  <2>1. WaitsFor(u) \subseteq S /\ WaitsFor(u) # {}
    BY <1>5 DEF ClosedUnderWaiting
  <2>2. Y \in C
    <3>1. Y \subseteq D /\ Y # {}
      BY <1>6, <2>1
    <3>2. ClosedUnderWaiting(Y)
      BY <1>6 DEF ClosedUnderWaiting
    <3> QED BY <3>1, <3>2
  <2>3. Cardinality(Y) \in T /\ Cardinality(S) <= Cardinality(Y)
    BY <1>3, <1>4, <2>2
  <2>4. Y = S
    <3>1. Y \in SUBSET S
      OBVIOUS
    <3>2. Cardinality(Y) <= Cardinality(S) /\ (Cardinality(S) = Cardinality(Y) => S = Y)
      BY <1>1, <3>1, FS_Subset
    <3> QED BY <1>1, <2>2, <2>3, <3>2
  <2> QED BY <1>5, <2>4
<1>7. Deadlocked(u)
  BY <1>6 DEF Deadlocked
<1> QED BY <1>5, <1>7

LEMMA WayOut == ASSUME IsFiniteSet(Tx), IInv, IdleHasNoDraft PROVE EveryWaitHasAWayOut
<1> SUFFICES ASSUME NEW t \in Tx, phase[t] # "idle",
                    \A u \in Tx : u = t \/ Awaits(t, u) => ~CanGoOn(u)
             PROVE  FALSE
  BY DEF EveryWaitHasAWayOut
<1> DEFINE D == {u \in Tx : (u = t \/ Awaits(t, u)) /\ phase[u] # "idle"}
<1>1. D \subseteq Tx /\ t \in D
  OBVIOUS
<1>2. ClosedUnderWaiting(D)
  BY WaitedForIsUnderWay, AwaitedIsClosed DEF ClosedUnderWaiting
<1>3. \A u \in D : WaitsFor(u) # {} /\ ~Deadlocked(u)
  BY DEF CanGoOn
<1> HIDE DEF D
<1> QED BY <1>1, <1>2, <1>3, SomebodyIsDeadlocked

THEOREM WaitsHaveAWayOut ==
    ASSUME IsFiniteSet(Tx)
    PROVE  Spec => []EveryWaitHasAWayOut
<1>1. Init => IdleHasNoDraft
  BY DEF Init, IdleHasNoDraft, Touches
<1>2. IInv /\ IdleHasNoDraft /\ [Next]_vars => IdleHasNoDraft'
  BY IdleStep
<1>3. IInv /\ IdleHasNoDraft => EveryWaitHasAWayOut
  BY WayOut
<1> QED BY <1>1, <1>2, <1>3, Inductive, PTL DEF Spec
=============================================================================
