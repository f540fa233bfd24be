------------------------- MODULE OtpThrottleProofs -------------------------
(***************************************************************************)
(* What OtpThrottle keeps and what it tells a client it refuses, for any   *)
(* number of requests, any limit and any window.                           *)
(*                                                                         *)
(* The argument.  A request that awaits Redis has passed the test for a    *)
(* usable number (KeyIsANumber), so the key is one of the numbers and TTL  *)
(* is asked about it.  The time it is told comes from the key's expiry,    *)
(* which EXPIRE sets to Window and the clock only makes shorter.           *)
(*                                                                         *)
(* That a number gets no more than two budgets needs the age of its        *)
(* counter, which no variable holds: there is one (CounterAges) that       *)
(* parts what was let through into two counters' worth.                    *)
(***************************************************************************)
EXTENDS OtpThrottle, FiniteSetTheorems, TLAPS

KeyIsANumber ==
    \A q \in Requests :
        phase[q] \in {"incr", "expire", "ttl", "send"} =>
           phone[q] \in Spellings /\ Normalised[phone[q]] \in Numbers

\* A request is answered once.
AnsweredOnce == \A q \in Requests : reply[q] # "none" => phase[q] = "answered"

IInv == TypeOK /\ KeyIsANumber /\ AnsweredOnce
-----------------------------------------------------------------------------
LEMMA RetryAfterInWindow ==
    ASSUME NEW left \in -2 .. Window
    PROVE  RetryAfter(left) \in 1 .. Window
BY LimitsAssumption DEF RetryAfter

LEMMA TtlInWindow ==
    ASSUME TypeOK, NEW q \in Requests, Key(q) \in Spellings, NEW left \in Ttl(q)
    PROVE  left \in -2 .. Window
<1>1. ttl[Key(q)] \in -2 .. Window
  BY DEF TypeOK
<1> QED BY <1>1, LimitsAssumption DEF Ttl

\* The two commands that write keep the types of what Redis holds.
LEMMA RedisType ==
    ASSUME TypeOK, NEW q \in Requests, Key(q) \in Spellings, Incr(q) \/ Expire(q)
    PROVE  /\ count' \in [Spellings -> 0 .. MaxPerHour + 1]
           /\ ttl' \in [Spellings -> -2 .. Window]
<1>1. MaxPerHour \in Nat /\ Window \in Nat /\ Window > 0
  BY LimitsAssumption
<1>2. CASE Incr(q)
  <2>1. Counted(q) \in 0 .. MaxPerHour + 1
    BY <1>1 DEF Counted, TypeOK
  <2> QED BY <1>1, <1>2, <2>1 DEF Incr, TypeOK
<1>3. CASE Expire(q)
  BY <1>1, <1>3 DEF Expire, TypeOK
<1> QED BY <1>2, <1>3

\* A request that the limit lets through: what it adds to the record is new, so that
\* the size of the record is the number of requests.
LEMMA LetThroughType ==
    ASSUME TypeOK, NEW q \in Requests, Key(q) \in Numbers,
           (LetThrough(q) /\ ~Over(Counted(q))) \/ UNCHANGED passed
    PROVE  passed' \in [Numbers -> SUBSET Passed]
<1> DEFINE new == [age |-> 0, key |-> Key(q), nth |-> Counted(q)]
<1>1. MaxPerHour \in Nat /\ Window \in Nat /\ Window > 0 /\ Key(q) \in Spellings
  BY NormalisedAssumption, LimitsAssumption
<1>2. passed \in [Numbers -> SUBSET Passed]
  BY DEF TypeOK
<1>3. CASE LetThrough(q) /\ ~Over(Counted(q))
  <2>1. Counted(q) \in 1 .. MaxPerHour
    BY <1>1, <1>3 DEF Counted, Over, TypeOK
  <2>2. new \in Passed
    BY <1>1, <2>1 DEF Passed
  <2>3. passed' = [passed EXCEPT ![Key(q)] = @ \cup {new}]
    BY <1>3 DEF LetThrough, Key
  <2> HIDE DEF new
  <2> QED BY <1>2, <2>2, <2>3
<1> QED BY <1>2, <1>3

LEMMA OlderType ==
    ASSUME NEW S \in SUBSET Passed
    PROVE  /\ Older(S) \subseteq Passed
           /\ \A o \in Older(S) : \E p \in S : /\ p.age < Window - 1
                                            /\ o = [p EXCEPT !.age = @ + 1]
                                            /\ o.age = p.age + 1 /\ o.nth = p.nth
<1>1. Window \in Nat
  BY LimitsAssumption
<1> QED BY <1>1 DEF Older, Passed

\* Going on to the next await, and answering.
LEMMA AwaitType ==
    ASSUME IInv, NEW q \in Requests, phase[q] \in {"incr", "expire", "ttl", "send"},
           \/ \E await \in {"expire", "ttl", "send"} : Goto(q, await)
           \/ \E code \in Replies \ {"none"}, left \in 0 .. Window : Answer(q, code, left)
    PROVE  /\ phone' = phone
           /\ phase' \in [Requests -> Phases] /\ reply' \in [Requests -> Replies]
           /\ retry' \in [Requests -> 0 .. Window]
           /\ \A p \in Requests : p # q => phase'[p] = phase[p] /\ reply'[p] = reply[p]
           /\ reply'[q] # "none" => phase'[q] = "answered"
BY DEF IInv, TypeOK, AnsweredOnce, Goto, Answer, Phases, Replies

LEMMA IInvStep == IInv /\ [Next]_vars => IInv'
<1> SUFFICES ASSUME IInv, [Next]_vars PROVE IInv'
  OBVIOUS
<1> USE DEF vars, redis
<1>0. TypeOK /\ KeyIsANumber /\ AnsweredOnce
  BY DEF IInv
<1>1. MaxPerHour \in Nat /\ Window \in Nat /\ Window > 0 /\ MaxFaults \in Nat
  BY LimitsAssumption
<1>2. Numbers \subseteq Spellings /\ NoNumber \notin Numbers
      /\ Normalised \in [Spellings -> Numbers \cup {NoNumber}]
  BY NormalisedAssumption
<1>3. ASSUME NEW q \in Requests, phase[q] \in {"incr", "expire", "ttl", "send"}
      PROVE  Key(q) \in Numbers /\ Key(q) \in Spellings
  BY <1>0, <1>2, <1>3 DEF KeyIsANumber, Key
\* A request at an await goes on to the next one, or is answered.
<1>4. ASSUME NEW q \in Requests, phase[q] \in {"incr", "expire", "ttl", "send"},
             \/ \E await \in {"expire", "ttl", "send"} : Goto(q, await)
             \/ \E code \in Replies \ {"none"}, left \in 0 .. Window : Answer(q, code, left),
             Incr(q) \/ Expire(q) \/ UNCHANGED redis,
             (LetThrough(q) /\ ~Over(Counted(q))) \/ UNCHANGED passed,
             faults' \in 0 .. MaxFaults
      PROVE  IInv'
  <2>1. /\ phone' = phone
        /\ phase' \in [Requests -> Phases] /\ reply' \in [Requests -> Replies]
        /\ retry' \in [Requests -> 0 .. Window]
        /\ \A p \in Requests : p # q => phase'[p] = phase[p] /\ reply'[p] = reply[p]
        /\ reply'[q] # "none" => phase'[q] = "answered"
    BY <1>4, AwaitType
  <2>2. /\ count' \in [Spellings -> 0 .. MaxPerHour + 1]
        /\ ttl' \in [Spellings -> -2 .. Window]
    BY <1>0, <1>3, <1>4, RedisType DEF TypeOK
  <2>3. passed' \in [Numbers -> SUBSET Passed]
    BY <1>0, <1>3, <1>4, LetThroughType
  <2>4. TypeOK'
    BY <1>0, <1>4, <2>1, <2>2, <2>3 DEF TypeOK
  <2>5. KeyIsANumber' /\ AnsweredOnce'
    BY <1>0, <1>4, <2>1 DEF KeyIsANumber, AnsweredOnce
  <2> QED BY <2>4, <2>5 DEF IInv
<1>5. ASSUME NEW q \in Requests, NEW typed \in Spellings, Receive(q, typed) PROVE IInv'
  <2>1. CASE Normalised[typed] = NoNumber
    <3>1. TypeOK'
      BY <1>0, <1>5, <2>1 DEF Receive, TypeOK, Phases, Replies
    <3>2. KeyIsANumber' /\ AnsweredOnce'
      BY <1>0, <1>5, <2>1 DEF Receive, TypeOK, KeyIsANumber, AnsweredOnce
    <3> QED BY <3>1, <3>2 DEF IInv
  <2>2. CASE Normalised[typed] \in Numbers
    <3>1. phase' = [phase EXCEPT ![q] = "incr"] /\ reply' = reply /\ phase[q] = "idle"
          /\ phone' = [phone EXCEPT ![q] = typed]
      BY <1>2, <1>5, <2>2 DEF Receive
    <3>2. TypeOK'
      BY <1>0, <1>5, <3>1 DEF Receive, TypeOK, Phases
    <3>3. KeyIsANumber' /\ AnsweredOnce'
      BY <1>0, <2>2, <3>1 DEF TypeOK, KeyIsANumber, AnsweredOnce
    <3> QED BY <3>2, <3>3 DEF IInv
  <2> QED BY <1>2, <2>1, <2>2
<1>6. ASSUME NEW q \in Requests, Count(q) PROVE IInv'
  <2>1. /\ phase[q] = "incr" /\ Incr(q) /\ faults' = faults
        /\ (LetThrough(q) /\ ~Over(Counted(q))) \/ UNCHANGED passed
        /\ \E await \in {"expire", "ttl", "send"} : Goto(q, await)
    BY <1>6 DEF Count
  <2> QED BY <1>0, <1>4, <2>1 DEF TypeOK
<1>7. ASSUME NEW q \in Requests, SetExpiry(q) PROVE IInv'
  BY <1>0, <1>4, <1>7 DEF SetExpiry, TypeOK
<1>8. ASSUME NEW q \in Requests, Refuse(q) PROVE IInv'
  <2>1. PICK left \in Ttl(q) : Answer(q, "RATE_LIMITED", RetryAfter(left))
    BY <1>8 DEF Refuse
  <2>2. RetryAfter(left) \in 0 .. Window
    BY <1>0, <1>1, <1>3, <1>8, TtlInWindow, RetryAfterInWindow DEF Refuse
  <2> QED BY <1>0, <1>4, <1>8, <2>1, <2>2 DEF Refuse, TypeOK, Replies
<1>9. ASSUME NEW q \in Requests, Send(q) PROVE IInv'
  <2>1. \E code \in Replies \ {"none"}, left \in 0 .. Window : Answer(q, code, left)
    BY <1>1, <1>9 DEF Send, Replies
  <2> QED BY <1>0, <1>4, <1>9, <2>1 DEF Send, TypeOK
<1>10. ASSUME NEW q \in Requests, LoseReply(q) PROVE IInv'
  <2>1. /\ phase[q] \in {"incr", "expire"}
        /\ Incr(q) \/ Expire(q)
        /\ faults < MaxFaults /\ faults' = faults + 1
        /\ UNCHANGED <<phone, phase, reply, retry, passed>>
    BY <1>10 DEF LoseReply
  <2>2. /\ count' \in [Spellings -> 0 .. MaxPerHour + 1]
        /\ ttl' \in [Spellings -> -2 .. Window]
    BY <1>0, <1>3, <2>1, RedisType
  <2>3. faults' \in 0 .. MaxFaults
    BY <1>0, <1>1, <2>1 DEF TypeOK
  <2>4. TypeOK'
    BY <1>0, <2>1, <2>2, <2>3 DEF TypeOK
  <2> QED BY <1>0, <2>1, <2>4 DEF IInv, KeyIsANumber, AnsweredOnce
<1>11. ASSUME NEW q \in Requests, CutShort(q) PROVE IInv'
  <2>1. faults' \in 0 .. MaxFaults
    BY <1>0, <1>1, <1>11 DEF CutShort, TypeOK
  <2>2. \E code \in Replies \ {"none"}, left \in 0 .. Window : Answer(q, code, left)
    BY <1>1, <1>11 DEF CutShort, Replies
  <2> QED BY <1>4, <1>11, <2>1, <2>2 DEF CutShort
<1>12. ASSUME NEW q \in Requests, Respond(q) PROVE IInv'
  <2>1. TypeOK'
    BY <1>0, <1>1, <1>12 DEF Respond, TypeOK, Phases, Replies
  <2> QED BY <1>0, <1>12, <2>1 DEF Respond, TypeOK, IInv, KeyIsANumber, AnsweredOnce
<1>13. CASE Tick
  <2>1. ttl' \in [Spellings -> -2 .. Window]
    BY <1>0, <1>1, <1>13 DEF Tick, TypeOK
  <2>2. count' \in [Spellings -> 0 .. MaxPerHour + 1]
    BY <1>0, <1>1, <1>13 DEF Tick, TypeOK
  <2>4. passed' \in [Numbers -> SUBSET Passed]
    BY <1>0, <1>13, OlderType DEF Tick, TypeOK
  <2>5. UNCHANGED <<phone, phase, reply, retry, faults>>
    BY <1>13 DEF Tick
  <2> QED BY <1>0, <2>1, <2>2, <2>4, <2>5 DEF TypeOK, IInv, KeyIsANumber, AnsweredOnce
<1>14. CASE UNCHANGED vars
  BY <1>0, <1>14 DEF TypeOK, IInv, KeyIsANumber, AnsweredOnce
<1> HIDE DEF vars, redis
<1> QED BY <1>5, <1>6, <1>7, <1>8, <1>9, <1>10, <1>11, <1>12, <1>13, <1>14
        DEF Next, Guard

LEMMA InitIInv == Init => IInv
<1>1. 0 .. MaxPerHour + 1 # {} /\ 0 \in 0 .. MaxPerHour + 1 /\ 0 \in 0 .. Window
      /\ -2 \in -2 .. Window /\ 0 \in 0 .. MaxFaults
  BY LimitsAssumption
<1> QED BY <1>1 DEF Init, IInv, TypeOK, KeyIsANumber, AnsweredOnce, Phases, Replies

LEMMA SpecIInv == Spec => []IInv
BY InitIInv, IInvStep, PTL DEF Spec
-----------------------------------------------------------------------------
\* Counters stay within what a counter can be told apart at, expiries within the
\* window, and a Retry-After header within it too.
THEOREM TypeCorrect == Spec => []TypeOK
<1>1. IInv => TypeOK
  BY DEF IInv
<1> QED BY SpecIInv, <1>1, PTL

\* Our own 429 names between one second and the whole window, whatever became of the
\* key between INCR and TTL, for a key without expiry as well.
THEOREM RefusalTellsHowLongHolds == Spec => RefusalTellsHowLong
<1> DEFINE Tells == \A q \in Requests :
              phase[q] = "ttl" /\ reply'[q] = "RATE_LIMITED" => retry'[q] \in 1 .. Window
<1>1. IInv /\ [Next]_vars => [Tells]_vars
  <2> SUFFICES ASSUME IInv, Next, NEW q \in Requests,
                      phase[q] = "ttl", reply'[q] = "RATE_LIMITED"
               PROVE  retry'[q] \in 1 .. Window
    BY DEF vars
  <2>1. reply[q] # "RATE_LIMITED" /\ TypeOK /\ Key(q) \in Spellings
    BY NormalisedAssumption DEF IInv, AnsweredOnce, KeyIsANumber, Key
  <2>2. Refuse(q)
    BY <2>1 DEF Next, Guard, Receive, Count, SetExpiry, Refuse, Send, LoseReply, CutShort,
                Respond, Tick, Goto, Answer, TypeOK
  <2>3. PICK left \in Ttl(q) : Answer(q, "RATE_LIMITED", RetryAfter(left))
    BY <2>2 DEF Refuse
  <2>4. retry'[q] = RetryAfter(left)
    BY <2>1, <2>3 DEF Answer, TypeOK
  <2> QED BY <2>1, <2>3, <2>4, TtlInWindow, RetryAfterInWindow
<1> QED BY SpecIInv, <1>1, PTL DEF Spec, RefusalTellsHowLong
-----------------------------------------------------------------------------
(* Two budgets.  What Redis holds for a number is explained by the age of  *)
(* the counter it holds: whatever was let through since then has a number  *)
(* of that counter, and whatever is older and still in the window is of    *)
(* one counter before it, since a counter that expires has stood for a     *)
(* whole window.                                                           *)

\* A counter is there or not, and never at the very end of its time.
KeyIsThere == \A k \in Spellings : (ttl[k] = -2 <=> count[k] = 0) /\ ttl[k] # 0

\* b is the age of n's counter, or of the time since there was one.
TwoCounters(n, b) ==
    /\ ttl[n] > 0 => b + ttl[n] >= Window
    /\ \A p \in passed[n] : p.age <= b => p.nth <= count[n]
    /\ \A p, o \in passed[n] : p.nth = o.nth /\ (p.age <= b <=> o.age <= b) => p = o

CounterAges == \A n \in Numbers : \E b \in Nat : TwoCounters(n, b)

Budgets == KeyIsThere /\ CounterAges

\* INCR numbers the request past all that the counter has let through.
LEMMA IncrKeepsBudgets ==
    ASSUME TypeOK, Budgets, NEW q \in Requests, Key(q) \in Numbers, Incr(q),
           (LetThrough(q) /\ ~Over(Counted(q))) \/ UNCHANGED passed
    PROVE  Budgets'
<1> DEFINE new == [age |-> 0, key |-> Key(q), nth |-> Counted(q)]
<1>1. MaxPerHour \in Nat /\ Window \in Nat /\ Window > 0 /\ Key(q) \in Spellings
      /\ Numbers \subseteq Spellings
  BY NormalisedAssumption, LimitsAssumption
<1>2. Counted(q) \in Nat /\ Counted(q) >= count[Key(q)] /\ Counted(q) > 0
      /\ (~Over(Counted(q)) => Counted(q) > count[Key(q)])
  BY <1>1 DEF Counted, Over, TypeOK
<1>3. KeyIsThere'
  BY <1>1, <1>2 DEF Budgets, KeyIsThere, Incr, TypeOK
<1>4. ASSUME NEW n \in Numbers PROVE \E b \in Nat : TwoCounters(n, b)'
  <2>1. PICK b \in Nat : TwoCounters(n, b)
    BY DEF Budgets, CounterAges
  <2>2. passed[n] \subseteq Passed /\ count[n] \in Nat /\ ttl[n] \in Int /\ n \in Spellings
    BY <1>1 DEF TypeOK
  <2>3. CASE n = Key(q)
    <3>1. count'[n] = Counted(q) /\ (ttl'[n] > 0 => ttl'[n] = ttl[n])
      BY <1>1, <2>2, <2>3 DEF Incr, TypeOK
    <3>2. \/ passed'[n] = passed[n]
          \/ passed'[n] = passed[n] \cup {new} /\ Counted(q) > count[n]
      BY <1>2, <2>3 DEF LetThrough, Key, TypeOK
    <3>3. \A p \in passed[n] : p.age \in Nat /\ p.nth \in Nat
      BY <2>2 DEF Passed
    <3>4. \A p \in passed[n] : p.age <= b => p.nth <= count[n]
      BY <2>1 DEF TwoCounters
    <3>5. new.age = 0 /\ new.nth = Counted(q)
      OBVIOUS
    <3> HIDE DEF new
    <3>6. \A p \in passed'[n] : p.age <= b => p.nth <= count'[n]
      BY <1>2, <2>2, <2>3, <3>1, <3>2, <3>3, <3>4, <3>5
    <3>7. ASSUME NEW p \in passed'[n], NEW o \in passed'[n], p.nth = o.nth,
                 p.age <= b <=> o.age <= b
          PROVE  p = o
      BY <1>2, <2>1, <2>2, <3>2, <3>3, <3>4, <3>5, <3>7 DEF TwoCounters
    <3> QED BY <2>1, <3>1, <3>6, <3>7 DEF TwoCounters
  <2>4. CASE n # Key(q)
    <3>1. count'[n] = count[n] /\ ttl'[n] = ttl[n] /\ passed'[n] = passed[n]
      BY <2>2, <2>4 DEF Incr, LetThrough, Key, TypeOK
    <3> QED BY <2>1, <3>1 DEF TwoCounters
  <2> QED BY <2>3, <2>4
<1> QED BY <1>3, <1>4 DEF Budgets, CounterAges

\* EXPIRE gives the counter a whole window from now.
LEMMA ExpireKeepsBudgets ==
    ASSUME TypeOK, Budgets, NEW q \in Requests, Key(q) \in Spellings, Expire(q),
           UNCHANGED passed
    PROVE  Budgets'
<1>1. Window \in Nat /\ Window > 0 /\ Numbers \subseteq Spellings
  BY NormalisedAssumption, LimitsAssumption
<1>2. KeyIsThere'
  BY <1>1 DEF Budgets, KeyIsThere, Expire, TypeOK
<1>3. ASSUME NEW n \in Numbers PROVE \E b \in Nat : TwoCounters(n, b)'
  <2>1. PICK b \in Nat : TwoCounters(n, b)
    BY DEF Budgets, CounterAges
  <2>2. ttl'[n] = ttl[n] \/ ttl'[n] = Window
    BY <1>1 DEF Expire, TypeOK
  <2>3. count' = count /\ passed' = passed
    BY DEF Expire
  <2> QED BY <1>1, <2>1, <2>2, <2>3 DEF TwoCounters
<1> QED BY <1>2, <1>3 DEF Budgets, CounterAges

\* When a counter expires, all that was let through before it is a window old.
LEMMA TickKeepsBudgets ==
    ASSUME TypeOK, Budgets, Tick
    PROVE  Budgets'
<1>1. Window \in Nat /\ Window > 0 /\ Numbers \subseteq Spellings /\ MaxPerHour \in Nat
  BY NormalisedAssumption, LimitsAssumption
<1>2. KeyIsThere'
  BY <1>1 DEF Budgets, KeyIsThere, Tick, TypeOK
<1>3. ASSUME NEW n \in Numbers PROVE \E b \in Nat : TwoCounters(n, b)'
  <2>1. PICK b \in Nat : TwoCounters(n, b)
    BY DEF Budgets, CounterAges
  <2>2. /\ passed[n] \in SUBSET Passed /\ count[n] \in Nat /\ ttl[n] \in Int
        /\ n \in Spellings /\ ttl[n] >= -2 /\ ttl[n] # 0
    BY <1>1 DEF TypeOK, Budgets, KeyIsThere
  <2>3. /\ ttl'[n] = IF ttl[n] > 1 THEN ttl[n] - 1 ELSE IF ttl[n] = 1 THEN -2 ELSE ttl[n]
        /\ count'[n] = IF ttl[n] = 1 THEN 0 ELSE count[n]
        /\ passed'[n] = Older(passed[n])
    BY <2>2 DEF Tick
  <2>4. \A o \in passed'[n] : \E p \in passed[n] :
           /\ p.age < Window - 1 /\ o = [p EXCEPT !.age = @ + 1]
           /\ o.age = p.age + 1 /\ o.nth = p.nth /\ p.age \in Nat
    BY <2>2, <2>3, OlderType DEF Passed
  <2>5. CASE ttl[n] = 1
    <3>1. b >= Window - 1
      BY <1>1, <2>1, <2>5 DEF TwoCounters
    <3>2. ttl'[n] = -2
      BY <2>3, <2>5
    <3>3. \A o \in passed'[n] : ~(o.age <= 0)
      BY <2>4
    <3>4. ASSUME NEW o1 \in passed'[n], NEW o2 \in passed'[n], o1.nth = o2.nth
          PROVE  o1 = o2
      <4>1. PICK p1 \in passed[n] : /\ p1.age < Window - 1 /\ o1 = [p1 EXCEPT !.age = @ + 1]
                                    /\ o1.nth = p1.nth /\ p1.age \in Nat
        BY <2>4
      <4>2. PICK p2 \in passed[n] : /\ p2.age < Window - 1 /\ o2 = [p2 EXCEPT !.age = @ + 1]
                                    /\ o2.nth = p2.nth /\ p2.age \in Nat
        BY <2>4
      <4>3. p1.age <= b /\ p2.age <= b
        BY <1>1, <3>1, <4>1, <4>2
      <4>4. p1 = p2
        BY <2>1, <3>4, <4>1, <4>2, <4>3 DEF TwoCounters
      <4> QED BY <4>1, <4>2, <4>4
    <3>5. TwoCounters(n, 0)'
      BY <3>2, <3>3, <3>4 DEF TwoCounters
    <3> QED BY <3>5
  <2>6. CASE ttl[n] # 1
    <3>1. /\ ttl'[n] = IF ttl[n] > 1 THEN ttl[n] - 1 ELSE ttl[n]
          /\ count'[n] = count[n]
      BY <2>3, <2>6
    <3>2. ttl'[n] > 0 => (b + 1) + ttl'[n] >= Window
      BY <1>1, <2>1, <2>2, <2>6, <3>1 DEF TwoCounters
    <3>3. \A o \in passed'[n] : o.age <= b + 1 => o.nth <= count'[n]
      BY <2>1, <2>4, <3>1 DEF TwoCounters
    <3>4. ASSUME NEW o1 \in passed'[n], NEW o2 \in passed'[n], o1.nth = o2.nth,
                 o1.age <= b + 1 <=> o2.age <= b + 1
          PROVE  o1 = o2
      <4>1. PICK p1 \in passed[n] : /\ o1 = [p1 EXCEPT !.age = @ + 1] /\ o1.age = p1.age + 1
                                    /\ o1.nth = p1.nth /\ p1.age \in Nat
        BY <2>4
      <4>2. PICK p2 \in passed[n] : /\ o2 = [p2 EXCEPT !.age = @ + 1] /\ o2.age = p2.age + 1
                                    /\ o2.nth = p2.nth /\ p2.age \in Nat
        BY <2>4
      <4>3. p1.age <= b <=> p2.age <= b
        BY <3>4, <4>1, <4>2
      <4>4. p1 = p2
        BY <2>1, <3>4, <4>1, <4>2, <4>3 DEF TwoCounters
      <4> QED BY <4>1, <4>2, <4>4
    <3>5. TwoCounters(n, b + 1)'
      BY <3>2, <3>3, <3>4 DEF TwoCounters
    <3> QED BY <3>5
  <2> QED BY <2>5, <2>6
<1> QED BY <1>2, <1>3 DEF Budgets, CounterAges

LEMMA BudgetsStep == IInv /\ Budgets /\ [Next]_vars => Budgets'
<1> SUFFICES ASSUME IInv, Budgets, [Next]_vars PROVE Budgets'
  OBVIOUS
<1>1. TypeOK
  BY DEF IInv
<1>2. ASSUME NEW q \in Requests, phase[q] \in {"incr", "expire", "ttl", "send"}
      PROVE  Key(q) \in Numbers /\ Key(q) \in Spellings
  BY <1>2, NormalisedAssumption DEF IInv, KeyIsANumber, Key
<1>3. ASSUME UNCHANGED <<count, ttl, passed>> PROVE Budgets'
  BY <1>3 DEF Budgets, KeyIsThere, CounterAges, TwoCounters
<1>4. ASSUME NEW q \in Requests, Count(q) PROVE Budgets'
  <2>1. /\ phase[q] = "incr" /\ Incr(q)
        /\ (LetThrough(q) /\ ~Over(Counted(q))) \/ UNCHANGED passed
    BY <1>4 DEF Count
  <2> QED BY <1>1, <1>2, <2>1, IncrKeepsBudgets
<1>5. ASSUME NEW q \in Requests, SetExpiry(q) PROVE Budgets'
  BY <1>1, <1>2, <1>5, ExpireKeepsBudgets DEF SetExpiry
<1>6. ASSUME NEW q \in Requests, LoseReply(q) PROVE Budgets'
  BY <1>1, <1>2, <1>6, IncrKeepsBudgets, ExpireKeepsBudgets DEF LoseReply
<1>7. ASSUME NEW q \in Requests,
             \/ \E typed \in Spellings : Receive(q, typed)
             \/ Refuse(q) \/ Send(q) \/ CutShort(q) \/ Respond(q)
      PROVE  UNCHANGED <<count, ttl, passed>>
  BY <1>7 DEF Receive, Refuse, Send, CutShort, Respond, redis
<1>8. CASE Tick
  BY <1>1, <1>8, TickKeepsBudgets
<1>9. CASE UNCHANGED vars
  BY <1>3, <1>9 DEF vars, redis
<1> QED BY <1>3, <1>4, <1>5, <1>6, <1>7, <1>8, <1>9 DEF Next, Guard

\* Requests with numbers of their own are at most as many as the limit.
LEMMA OneBudget ==
    ASSUME NEW S \in SUBSET Passed, \A p, o \in S : p.nth = o.nth => p = o
    PROVE  IsFiniteSet(S) /\ Cardinality(S) <= MaxPerHour
<1> DEFINE nth == [p \in S |-> p.nth]
<1>1. MaxPerHour \in Nat /\ MaxPerHour > 0
  BY LimitsAssumption
<1>2. nth \in Injection(S, 1 .. MaxPerHour)
  BY DEF Injection, IsInjective, Passed
<1>3. IsFiniteSet(1 .. MaxPerHour) /\ Cardinality(1 .. MaxPerHour) = MaxPerHour
  BY <1>1, FS_Interval
<1> HIDE DEF nth
<1> QED BY <1>2, <1>3, FS_Injection

LEMMA TwoBudgets ==
    ASSUME TypeOK, NEW n \in Numbers, NEW b \in Nat, TwoCounters(n, b)
    PROVE  IsFiniteSet(passed[n]) /\ Cardinality(passed[n]) <= 2 * MaxPerHour
<1>1. TwoCounters(n, b)
  OBVIOUS
<1> DEFINE Since == {p \in passed[n] : p.age <= b}
           Before == {p \in passed[n] : ~(p.age <= b)}
<1>2. passed[n] \in SUBSET Passed /\ MaxPerHour \in Nat
  BY LimitsAssumption DEF TypeOK
<1>3. IsFiniteSet(Since) /\ Cardinality(Since) <= MaxPerHour
  <2>1. \A p, o \in Since : p.nth = o.nth => p = o
    BY <1>1 DEF TwoCounters
  <2> QED BY <1>2, <2>1, OneBudget
<1>4. IsFiniteSet(Before) /\ Cardinality(Before) <= MaxPerHour
  <2>1. \A p, o \in Before : p.nth = o.nth => p = o
    BY <1>1 DEF TwoCounters
  <2> QED BY <1>2, <2>1, OneBudget
<1>5. passed[n] = Since \cup Before
  OBVIOUS
<1> HIDE DEF Since, Before
<1>6. Cardinality(passed[n]) = Cardinality(Since) + Cardinality(Before)
                               - Cardinality(Since \cap Before)
  BY <1>3, <1>4, <1>5, FS_Union
<1>7. Cardinality(Since \cap Before) \in Nat /\ Cardinality(Since) \in Nat
      /\ Cardinality(Before) \in Nat
  BY <1>3, <1>4, FS_Intersection, FS_CardinalityType
<1>8. IsFiniteSet(passed[n])
  BY <1>3, <1>4, <1>5, FS_Union
<1> QED BY <1>2, <1>3, <1>4, <1>6, <1>7, <1>8

LEMMA SpecBudgets == Spec => [](IInv /\ Budgets)
<1>1. Init => IInv /\ Budgets
  <2>1. Init => IInv
    BY InitIInv
  <2>2. ASSUME Init PROVE Budgets
    <3>1. KeyIsThere
      BY <2>2 DEF Init, KeyIsThere
    <3>2. \A n \in Numbers : TwoCounters(n, 0)
      BY <2>2, NormalisedAssumption DEF Init, TwoCounters
    <3> QED BY <3>1, <3>2 DEF Budgets, CounterAges
  <2> QED BY <2>1, <2>2
<1> QED BY <1>1, IInvStep, BudgetsStep, PTL DEF Spec

\* No stretch of Window sees more than two budgets let through for a number, whatever
\* its spellings, its requests that overlap and the commands that are sent again.
THEOREM BurstIsTwoBudgetsHolds == Spec => []BurstIsTwoBudgets
<1>1. IInv /\ Budgets => BurstIsTwoBudgets
  BY TwoBudgets DEF IInv, Budgets, CounterAges, BurstIsTwoBudgets
<1> QED BY SpecBudgets, <1>1, PTL

\* Every request that is let through adds one to the number on record: the record
\* takes no two requests for one.
THEOREM EveryOneCounts ==
    Spec => [][\A q \in Requests : Count(q) /\ ~Over(Counted(q)) =>
                  Cardinality(passed'[Key(q)]) = Cardinality(passed[Key(q)]) + 1]_vars
<1> DEFINE Counts == \A q \in Requests : Count(q) /\ ~Over(Counted(q)) =>
              Cardinality(passed'[Key(q)]) = Cardinality(passed[Key(q)]) + 1
<1>1. IInv /\ Budgets /\ [Next]_vars => [Counts]_vars
  <2> SUFFICES ASSUME IInv, Budgets, NEW q \in Requests, Count(q), ~Over(Counted(q))
               PROVE  Cardinality(passed'[Key(q)]) = Cardinality(passed[Key(q)]) + 1
    OBVIOUS
  <2> DEFINE new == [age |-> 0, key |-> Key(q), nth |-> Counted(q)]
  <2>1. TypeOK /\ Key(q) \in Numbers /\ Key(q) \in Spellings
    BY NormalisedAssumption DEF IInv, Count, KeyIsANumber, Key
  <2>2. passed'[Key(q)] = passed[Key(q)] \cup {new}
    BY <2>1 DEF Count, LetThrough, Key, TypeOK
  <2>3. PICK b \in Nat : TwoCounters(Key(q), b)
    BY <2>1 DEF Budgets, CounterAges
  <2>4. Counted(q) \in Nat /\ count[Key(q)] \in Nat /\ Counted(q) > count[Key(q)]
    BY <2>1, LimitsAssumption DEF Counted, Over, TypeOK
  <2>5. new \notin passed[Key(q)]
    BY <2>3, <2>4 DEF TwoCounters
  <2>6. IsFiniteSet(passed[Key(q)])
    BY <2>1, <2>3, TwoBudgets
  <2> HIDE DEF new
  <2> QED BY <2>2, <2>5, <2>6, FS_AddElement
<1> QED BY SpecBudgets, <1>1, PTL DEF Spec
=============================================================================
