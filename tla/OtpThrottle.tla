---------------------------- MODULE OtpThrottle ----------------------------
(***************************************************************************)
(* POST /auth/otp: OtpThrottleGuard's budget of codes per phone number,    *)
(* kept in Redis, and OtpService.sendOtp behind it.                        *)
(*                                                                         *)
(* The guard is three awaits on a shared connection: INCR, then EXPIRE if  *)
(* the count is 1, then TTL if it is over the limit.  A connection that    *)
(* drops loses the replies of commands Redis has run; ioredis sends them   *)
(* again when it is back, or gives up and the request fails.               *)
(***************************************************************************)
EXTENDS Integers, FiniteSets

CONSTANTS Requests,    \* requests in progress, each slot reused when answered
          Spellings,   \* what clients type
          Numbers,     \* normalised numbers
          NoNumber,
          Normalised,  \* [Spellings -> Numbers or NoNumber]: normalisePhone
          MaxPerHour,         \* OTP_MAX_PER_HOUR
          Window,      \* OTP_WINDOW_SECONDS, in ticks of the clock
          MaxFaults    \* bound: replies lost and requests cut short

ASSUME NormalisedAssumption ==
    /\ Numbers \subseteq Spellings /\ NoNumber \notin Spellings
    /\ Normalised \in [Spellings -> Numbers \cup {NoNumber}]
ASSUME LimitsAssumption == {MaxPerHour, Window} \subseteq Nat \ {0} /\ MaxFaults \in Nat

VARIABLES count,    \* [Spellings -> the counter at that key; 0 is no key]
          ttl,      \* [Spellings -> what TTL answers: -2 no key, -1 no expiry]
          phone,    \* [Requests -> the number as typed, or NoNumber]
          phase,    \* [Requests -> the await it is at]
          reply,    \* [Requests -> the outcome]
          retry,    \* [Requests -> the Retry-After header; 0 is none]
          passed,   \* [Numbers -> the requests let through in the last Window]
          faults    \* replies lost and requests cut short so far

redis == <<count, ttl>>
vars == <<redis, phone, phase, reply, retry, passed, faults>>

\* A request let through: how long ago, and which of its key it was.  A counter
\* gives each number once until it is gone, which takes a tick, so no two are alike.
Passed == [age : 0 .. Window - 1, key : Spellings, nth : 1 .. MaxPerHour]

Phases == {"idle", "incr", "expire", "ttl", "send", "answered"}
Replies == {"none", "SENT", "VALIDATION_FAILED", "RATE_LIMITED",
            "UPSTREAM_UNAVAILABLE", "INTERNAL"}

TypeOK ==
    /\ count \in [Spellings -> 0 .. MaxPerHour + 1]
    /\ ttl \in [Spellings -> -2 .. Window]
    /\ phone \in [Requests -> Spellings \cup {NoNumber}]
    /\ phase \in [Requests -> Phases]
    /\ reply \in [Requests -> Replies]
    /\ retry \in [Requests -> 0 .. Window]
    /\ passed \in [Numbers -> SUBSET Passed]
    /\ faults \in 0 .. MaxFaults

Init ==
    /\ count = [k \in Spellings |-> 0]
    /\ ttl = [k \in Spellings |-> -2]
    /\ phone = [q \in Requests |-> NoNumber]
    /\ phase = [q \in Requests |-> "idle"]
    /\ reply = [q \in Requests |-> "none"]
    /\ retry = [q \in Requests |-> 0]
    /\ passed = [n \in Numbers |-> {}]
    /\ faults = 0
-----------------------------------------------------------------------------
(* The commands, as Redis runs them.                                       *)

\* Mutated form: the key is the number as it was typed.
KeyAsTyped(q) == phone[q]

\* otp:phone:<normalised>
Key(q) == Normalised[phone[q]]

\* The counter after INCR: above MaxPerHour every value is treated alike.
Counted(q) == IF count[Key(q)] > MaxPerHour THEN MaxPerHour + 1 ELSE count[Key(q)] + 1

\* INCR creates a key that does not expire.
Incr(q) ==
    /\ count' = [count EXCEPT ![Key(q)] = Counted(q)]
    /\ ttl' = [ttl EXCEPT ![Key(q)] = IF @ = -2 THEN -1 ELSE @]

\* EXPIRE does nothing to a key that is not there.
Expire(q) ==
    /\ ttl' = [ttl EXCEPT ![Key(q)] = IF @ = -2 THEN @ ELSE Window]
    /\ UNCHANGED count

\* TTL rounds what is left to whole seconds.
Ttl(q) == LET left == ttl[Key(q)] IN IF left > 0 THEN {left, left - 1} ELSE {left}

\* Mutated forms: whatever TTL says; every answer but "no key" is a time to wait.
RetryAsIs(left) == left
RetryFromZero(left) == IF left >= 0 THEN left ELSE Window

\* ttl > 0 ? ttl : OTP_WINDOW_SECONDS
RetryAfter(left) == IF left > 0 THEN left ELSE Window
-----------------------------------------------------------------------------
(* A request, from await to await.                                         *)

Answer(q, code, seconds) ==
    /\ phase' = [phase EXCEPT ![q] = "answered"]
    /\ reply' = [reply EXCEPT ![q] = code]
    /\ retry' = [retry EXCEPT ![q] = seconds]
    /\ UNCHANGED phone

Goto(q, await) ==
    /\ phase' = [phase EXCEPT ![q] = await]
    /\ UNCHANGED <<phone, reply, retry>>

\* A body without a usable number passes the guard and fails validation.
Receive(q, typed) ==
    /\ phase[q] = "idle"
    /\ phone' = [phone EXCEPT ![q] = typed]
    /\ IF Normalised[typed] = NoNumber
       THEN /\ phase' = [phase EXCEPT ![q] = "answered"]
            /\ reply' = [reply EXCEPT ![q] = "VALIDATION_FAILED"]
       ELSE /\ phase' = [phase EXCEPT ![q] = "incr"]
            /\ UNCHANGED reply
    /\ UNCHANGED <<redis, retry, passed, faults>>

\* The guard lets q through once the awaits before that are over.
LetThrough(q) ==
    passed' = [passed EXCEPT ![Normalised[phone[q]]] =
                 @ \cup {[age |-> 0, key |-> Key(q), nth |-> Counted(q)]}]

\* Mutated form: one more is let through than the limit says.
OverByOne(n) == n > MaxPerHour + 1

\* count > max
Over(n) == n > MaxPerHour

\* Mutated form: every request that is counted restarts the window.
CountAndRestart(q) ==
    /\ phase[q] = "incr"
    /\ count' = [count EXCEPT ![Key(q)] = Counted(q)]
    /\ ttl' = [ttl EXCEPT ![Key(q)] = Window]
    /\ IF Over(Counted(q)) THEN Goto(q, "ttl") /\ UNCHANGED passed
                           ELSE Goto(q, "send") /\ LetThrough(q)
    /\ UNCHANGED faults

\* INCR, and what the guard makes of the count it is answered with.
Count(q) ==
    /\ phase[q] = "incr"
    /\ Incr(q)
    /\ IF Over(Counted(q))
       THEN Goto(q, "ttl") /\ UNCHANGED passed
       ELSE /\ Goto(q, IF Counted(q) = 1 THEN "expire" ELSE "send")
            /\ LetThrough(q)
    /\ UNCHANGED faults

SetExpiry(q) ==
    /\ phase[q] = "expire"
    /\ Expire(q)
    /\ Goto(q, "send")
    /\ UNCHANGED <<passed, faults>>

\* 429, with the time after which to try again.
Refuse(q) ==
    /\ phase[q] = "ttl"
    /\ \E left \in Ttl(q) : Answer(q, "RATE_LIMITED", RetryAfter(left))
    /\ UNCHANGED <<redis, passed, faults>>

\* sendOtp: Supabase sends the code, has a limit of its own, or fails.
Send(q) ==
    /\ phase[q] = "send"
    /\ \E code \in {"SENT", "RATE_LIMITED", "UPSTREAM_UNAVAILABLE"} : Answer(q, code, 0)
    /\ UNCHANGED <<redis, passed, faults>>

\* Redis runs the command, but the connection drops before the reply is read: the
\* command is sent again.
LoseReply(q) ==
    /\ faults < MaxFaults
    /\ faults' = faults + 1
    /\ \/ phase[q] = "incr" /\ Incr(q)
       \/ phase[q] = "expire" /\ Expire(q)
    /\ UNCHANGED <<phone, phase, reply, retry, passed>>

\* The connection does not come back in time, or the process dies.
CutShort(q) ==
    /\ faults < MaxFaults
    /\ faults' = faults + 1
    /\ phase[q] \in {"incr", "expire", "ttl"}
    /\ Answer(q, "INTERNAL", 0)
    /\ UNCHANGED <<redis, passed>>

Respond(q) ==
    /\ phase[q] = "answered"
    /\ phase' = [phase EXCEPT ![q] = "idle"]
    /\ phone' = [phone EXCEPT ![q] = NoNumber]
    /\ reply' = [reply EXCEPT ![q] = "none"]
    /\ retry' = [retry EXCEPT ![q] = 0]
    /\ UNCHANGED <<redis, passed, faults>>

\* What is left of a stretch of Window after one more tick.
Older(requests) == {[p EXCEPT !.age = @ + 1] : p \in {p \in requests : p.age < Window - 1}}

\* Time passes: keys come closer to their expiry, and at it they are gone.
Tick ==
    /\ ttl' = [k \in Spellings |->
                 IF ttl[k] > 1 THEN ttl[k] - 1 ELSE IF ttl[k] = 1 THEN -2 ELSE ttl[k]]
    /\ count' = [k \in Spellings |-> IF ttl[k] = 1 THEN 0 ELSE count[k]]
    /\ passed' = [n \in Numbers |-> Older(passed[n])]
    /\ UNCHANGED <<phone, phase, reply, retry, faults>>

\* What the guard does with a request it has got.
Guard(q) == Count(q) \/ SetExpiry(q) \/ Refuse(q)

Next ==
    \/ \E q \in Requests :
          \/ \E typed \in Spellings : Receive(q, typed)
          \/ Guard(q) \/ Send(q)
          \/ LoseReply(q) \/ CutShort(q)
          \/ Respond(q)
    \/ Tick

Spec == Init /\ [][Next]_vars

\* The clock runs and the event loop goes on.
Fairness == WF_vars(Tick) /\ \A q \in Requests : WF_vars(Guard(q))

FairSpec == Spec /\ Fairness
-----------------------------------------------------------------------------
(* Properties.                                                             *)

\* In no stretch of Window does a number, in whatever spellings, get more than two
\* budgets: the price of a fixed window, and no more than that, though requests
\* overlap and replies are lost.
BurstIsTwoBudgets ==
    \A n \in Numbers : Cardinality(passed[n]) <= 2 * MaxPerHour

\* Our own refusal says how long to wait, in whole seconds of the window, though
\* the key may expire between the INCR and the TTL.
RefusalTellsHowLong ==
    [][\A q \in Requests :
          phase[q] = "ttl" /\ reply'[q] = "RATE_LIMITED" => retry'[q] \in 1 .. Window]_vars

\* A budget that has an expiry comes back, however often the owner of the number
\* tries again in the meantime.
BudgetComesBack ==
    \A n \in Numbers : count[n] > MaxPerHour /\ ttl[n] > 0 ~> count[n] = 0

\* A blocked number is not blocked for ever.
NotBlockedForever ==
    \A n \in Numbers : count[n] > MaxPerHour ~> count[n] = 0
=============================================================================
