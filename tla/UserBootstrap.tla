--------------------------- MODULE UserBootstrap ---------------------------
(***************************************************************************)
(* From bearer token to actor: JwtAuthGuard, TokenVerifier and             *)
(* AuthRepository.findOrBootstrap, for many requests at once against the   *)
(* users table.                                                            *)
(*                                                                         *)
(* A request looks for the row of its identity and, finding none, inserts  *)
(* it in an autocommitted statement.  An INSERT enters the table's three   *)
(* unique indexes one after the other.  Meeting a committed row there is   *)
(* 23505; meeting the entry of a statement still running means waiting for *)
(* that statement to end.  A request that lost reads again.                *)
(***************************************************************************)
EXTENDS Integers, ExceptionFilter

CONSTANTS Requests,    \* requests in progress at the API, each reused when answered
          Identities,  \* Supabase subjects
          RawPhones,   \* the phone claim as Supabase spells it
          Numbers,     \* the spelling we store: a + and the digits
          Digits,      \* [RawPhones -> Numbers]: normalisePhone
          Emails,
          Blank,       \* the empty string Supabase sends for a claim it has not got
          Calls,       \* what clients send: a token (or none) to a route
          NoToken, NoCall,
          UserIds, NoUser,
          Null         \* SQL NULL

ASSUME DigitsAssumption ==
    /\ Digits \in [RawPhones -> Numbers]
    /\ Numbers \subseteq RawPhones /\ \A n \in Numbers : Digits[n] = n
ASSUME BlankAssumption == Blank \notin RawPhones \cup Emails

Token == [sub : Identities, phone : RawPhones \cup {Blank},
          email : Emails \cup {Blank}, valid : BOOLEAN]

ASSUME CallsAssumption == Calls \subseteq [token : Token \cup {NoToken}, public : BOOLEAN]
ASSUME NoTokenAssumption == NoToken \notin Token
ASSUME NoCallAssumption == \A c \in Calls : c # NoCall

User == [sub : Identities, phone : Numbers \cup {Null}, email : Emails \cup {Null}]

ASSUME NoUserAssumption == NoUser \notin User /\ NoUser \notin UserIds
ASSUME NullAssumption == Null \notin Identities \cup Numbers \cup Emails \cup {Blank}

VARIABLES users,    \* [UserIds -> the committed row, or NoUser]
          call,     \* [Requests -> what the client sent, or NoCall]
          phase,    \* [Requests -> the await the request is at]
          row,      \* [Requests -> the row it is inserting, or NoUser]
          entered,  \* [Requests -> how many unique indexes hold that row's entry]
          reply,    \* [Requests -> the outcome]
          actor     \* [Requests -> the user it was resolved to, or NoUser]

vars == <<users, call, phase, row, entered, reply, actor>>

Phases == {"idle", "verify", "lookup", "insert", "reread", "answered"}
Replies == {"none", "SERVED", "ANONYMOUS", "UNAUTHENTICATED"} \cup RefusalCodes

\* users_auth_user_id_key, users_phone_key, users_email_key, as created.
Indexes == 1 .. 3
Key(v, i) == CASE i = 1 -> v.sub [] i = 2 -> v.phone [] i = 3 -> v.email

TypeOK ==
    /\ users \in [UserIds -> User \cup {NoUser}]
    /\ call \in [Requests -> Calls \cup {NoCall}]
    /\ phase \in [Requests -> Phases]
    /\ row \in [Requests -> User \cup {NoUser}]
    /\ entered \in [Requests -> 0 .. 3]
    /\ reply \in [Requests -> Replies]
    /\ actor \in [Requests -> UserIds \cup {NoUser}]

Init ==
    /\ users = [i \in UserIds |-> NoUser]
    /\ call = [q \in Requests |-> NoCall]
    /\ phase = [q \in Requests |-> "idle"]
    /\ row = [q \in Requests |-> NoUser]
    /\ entered = [q \in Requests |-> 0]
    /\ reply = [q \in Requests |-> "none"]
    /\ actor = [q \in Requests |-> NoUser]
-----------------------------------------------------------------------------
(* What goes into the row, and what the indexes compare.                   *)

\* Mutated form: the claim is stored as it came, the empty string included.
ContactAsSent(claim, normal) == IF claim = Blank THEN Blank ELSE normal

\* present(claim) ? normalised : null
Contact(claim, normal) == IF claim = Blank THEN Null ELSE normal

\* Mutated form: the phone number is stored as it is spelled.
RowWithRawPhone(token) ==
    [sub |-> token.sub,
     phone |-> Contact(token.phone, token.phone),
     email |-> Contact(token.email, token.email)]

\* The data of prisma.user.create: one spelling per number.
RowFor(token) ==
    [sub |-> token.sub,
     phone |-> Contact(token.phone, Digits[token.phone]),
     email |-> Contact(token.email, token.email)]

\* The users_contactable CHECK.
Contactable(v) == v.phone # Null \/ v.email # Null

\* Two rows collide in unique index i; NULLs never do.
Collides(v, w, i) ==
    /\ v # NoUser /\ w # NoUser
    /\ Key(v, i) # Null
    /\ Key(v, i) = Key(w, i)

\* findActorByAuthUserId: the committed row of a subject.
FoundFor(sub) == {i \in UserIds : users[i] # NoUser /\ users[i].sub = sub}

\* Mutated form: after a lost race, whoever holds the contact detail is the caller.
WinnerByContact(q) ==
    {i \in UserIds : \E k \in Indexes : Collides(users[i], row[q], k)}

\* The re-read after 23505: by subject again.
Winner(q) == FoundFor(call[q].token.sub)

\* The next unique index q's INSERT enters.
Index(q) == entered[q] + 1

\* Mutated form: an INSERT does not see the entries of statements still running.
WaitsForNobody(q) == {}

\* The unfinished INSERTs that hold an entry q's next one collides with.
WaitsFor(q) ==
    {u \in Requests \ {q} : entered[u] >= Index(q) /\ Collides(row[u], row[q], Index(q))}

\* A committed row holds it: 23505.
Refused(q) == \E i \in UserIds : Collides(users[i], row[q], Index(q))
-----------------------------------------------------------------------------
(* A request, from await to await.                                         *)

\* A request arrives, with or without a bearer token.
Receive(q, c) ==
    /\ phase[q] = "idle"
    /\ call' = [call EXCEPT ![q] = c]
    /\ phase' = [phase EXCEPT ![q] = "verify"]
    /\ UNCHANGED <<users, row, entered, reply, actor>>

\* canActivate is over.  On a public route whatever went wrong is swallowed and
\* the request goes on without an actor.
Conclude(q, code) ==
    /\ phase' = [phase EXCEPT ![q] = "answered"]
    /\ reply' = [reply EXCEPT ![q] =
                    IF call[q].public /\ code # "SERVED" THEN "ANONYMOUS" ELSE code]
    /\ row' = [row EXCEPT ![q] = NoUser]
    /\ entered' = [entered EXCEPT ![q] = 0]
    /\ UNCHANGED call

Serve(q, i) == Conclude(q, "SERVED") /\ actor' = [actor EXCEPT ![q] = i]
Reject(q, code) == Conclude(q, code) /\ UNCHANGED actor

\* There is a bearer token, and jwtVerify takes it.
Trusted(q) == call[q].token # NoToken /\ call[q].token.valid

RejectToken(q) ==
    /\ phase[q] = "verify"
    /\ ~Trusted(q)
    /\ Reject(q, "UNAUTHENTICATED")
    /\ UNCHANGED users

\* The remote key set cannot be fetched: verify() turns this failure, like every
\* other, into a TokenVerificationError.
KeysUnreachable(q) ==
    /\ phase[q] = "verify" /\ call[q].token # NoToken
    /\ Reject(q, "UNAUTHENTICATED")
    /\ UNCHANGED users

AcceptToken(q) ==
    /\ phase[q] = "verify"
    /\ Trusted(q)
    /\ phase' = [phase EXCEPT ![q] = "lookup"]
    /\ UNCHANGED <<users, call, row, entered, reply, actor>>

FindExisting(q) ==
    /\ phase[q] = "lookup"
    /\ \E i \in FoundFor(call[q].token.sub) : Serve(q, i)
    /\ UNCHANGED users

\* No row: create one.  The CHECK comes before the indexes (23514).
StartInsert(q) ==
    /\ phase[q] = "lookup"
    /\ FoundFor(call[q].token.sub) = {}
    /\ LET v == RowFor(call[q].token)
       IN  \/ /\ Contactable(v)
              /\ phase' = [phase EXCEPT ![q] = "insert"]
              /\ row' = [row EXCEPT ![q] = v]
              /\ UNCHANGED <<call, entered, reply, actor>>
           \/ /\ ~Contactable(v)
              /\ Reject(q, FromSqlState("23514"))
    /\ UNCHANGED users

EnterIndex(q) ==
    /\ phase[q] = "insert" /\ entered[q] < 3
    /\ ~Refused(q) /\ WaitsFor(q) = {}
    /\ entered' = [entered EXCEPT ![q] = @ + 1]
    /\ UNCHANGED <<users, call, phase, row, reply, actor>>

\* Mutated form: losing the race is answered at once, without reading again.
NoReread(q) ==
    /\ phase[q] = "insert" /\ entered[q] < 3
    /\ Refused(q)
    /\ Reject(q, "IDEMPOTENCY_CONFLICT")
    /\ UNCHANGED users

\* Mutated form: a request that lost starts all over.
LoopOnConflict(q) ==
    /\ phase[q] = "insert" /\ entered[q] < 3
    /\ Refused(q)
    /\ phase' = [phase EXCEPT ![q] = "lookup"]
    /\ row' = [row EXCEPT ![q] = NoUser]
    /\ entered' = [entered EXCEPT ![q] = 0]
    /\ UNCHANGED <<users, call, reply, actor>>

\* 23505: the statement's entries are dead, the request reads again.
LoseRace(q) ==
    /\ phase[q] = "insert" /\ entered[q] < 3
    /\ Refused(q)
    /\ phase' = [phase EXCEPT ![q] = "reread"]
    /\ entered' = [entered EXCEPT ![q] = 0]
    /\ UNCHANGED <<users, call, row, reply, actor>>

\* Every index is in: the statement commits.  Its acknowledgement may be lost
\* with the connection, and then the request fails though the row is there.
CommitInsert(q, i) ==
    /\ phase[q] = "insert" /\ entered[q] = 3
    /\ users[i] = NoUser
    /\ users' = [users EXCEPT ![i] = row[q]]
    /\ Serve(q, i) \/ Reject(q, "INTERNAL")

ReadWinner(q) ==
    /\ phase[q] = "reread"
    /\ \/ \E i \in Winner(q) : Serve(q, i)
       \/ Winner(q) = {} /\ Reject(q, "IDEMPOTENCY_CONFLICT")
    /\ UNCHANGED users

\* The database fails a statement: the error is not a 23505 and is rethrown.
DatabaseFails(q) ==
    /\ phase[q] \in {"lookup", "insert", "reread"}
    /\ Reject(q, "INTERNAL")
    /\ UNCHANGED users

\* The response is out; the client may send another request.
Respond(q) ==
    /\ phase[q] = "answered"
    /\ phase' = [phase EXCEPT ![q] = "idle"]
    /\ call' = [call EXCEPT ![q] = NoCall]
    /\ reply' = [reply EXCEPT ![q] = "none"]
    /\ actor' = [actor EXCEPT ![q] = NoUser]
    /\ UNCHANGED <<users, row, entered>>

\* What the server does with a request once it has it.
Progress(q) ==
    \/ RejectToken(q) \/ AcceptToken(q)
    \/ FindExisting(q) \/ StartInsert(q)
    \/ EnterIndex(q) \/ LoseRace(q) \/ (\E i \in UserIds : CommitInsert(q, i))
    \/ ReadWinner(q)

Next ==
    \E q \in Requests :
        \/ \E c \in Calls : Receive(q, c)
        \/ Progress(q)
        \/ KeysUnreachable(q)
        \/ DatabaseFails(q)
        \/ Respond(q)

Spec == Init /\ [][Next]_vars

\* The event loop and the database keep going; a wait for another statement is
\* queued, so it is not passed over for ever.  Failures and clients need not come.
Fairness == \A q \in Requests : SF_vars(Progress(q))

FairSpec == Spec /\ Fairness
-----------------------------------------------------------------------------
(* Properties.                                                             *)

Accounts == {i \in UserIds : users[i] # NoUser}

\* However many first requests race, an identity has one account, and a phone
\* number, in whatever spelling Supabase sends it, or an email address is the
\* contact of one account.
OneAccountEach ==
    \A i, j \in Accounts :
        \/ i = j
        \/ /\ users[i].sub # users[j].sub
           /\ users[i].phone # Null /\ users[j].phone # Null
                => Digits[users[i].phone] # Digits[users[j].phone]
           /\ users[i].email # Null => users[i].email # users[j].email

\* A request is only ever served as the account of the identity in its token:
\* never merged into another account that has the same phone number or email.
ServedAsOneself ==
    \A q \in Requests :
        reply[q] = "SERVED" =>
            /\ actor[q] \in Accounts
            /\ users[actor[q]].sub = call[q].token.sub

\* Nobody who has an account is told of a conflict: losing the bootstrap race to
\* another request of the same identity is a success.
AccountHolderIsNotRefused ==
    [][\A q \in Requests :
          (reply[q] # "IDEMPOTENCY_CONFLICT" /\ reply'[q] = "IDEMPOTENCY_CONFLICT")
          => FoundFor(call[q].token.sub) = {}]_vars

\* A conflict is always about a real contact detail: another identity's account
\* has the phone number or the email address this token claims.
ConflictIsAnothersContact ==
    \A q \in Requests :
        reply[q] = "IDEMPOTENCY_CONFLICT" =>
            LET token == call[q].token
            IN  \E i \in Accounts :
                    /\ users[i].sub # token.sub
                    /\ \/ token.phone # Blank /\ users[i].phone = Digits[token.phone]
                       \/ token.email # Blank /\ users[i].email = token.email

Outside == INSTANCE FindOrCreate

\* For everyone outside, a request finds its account, creates it or meets somebody
\* else's contact details in one step, at one moment between its arrival and its
\* answer: the lookup that is stale by the time of the insert, the waits, the lost
\* race and the second read never show.
ImplementsFindOrCreate == Outside!Spec

\* Every request is answered: inserts that wait for one another's index entries
\* do not wait for ever.
EveryRequestIsAnswered ==
    \A q \in Requests : phase[q] = "verify" ~> phase[q] = "answered"

\* Only a token that fails verification is answered 401; a fault on our side
\* never is.
FaultIsNotUnauthenticated ==
    \A q \in Requests :
        reply[q] = "UNAUTHENTICATED" => ~Trusted(q)
=============================================================================
