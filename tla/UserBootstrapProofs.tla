------------------------ MODULE UserBootstrapProofs ------------------------
(***************************************************************************)
(* For any number of requests, identities and contact details: one account *)
(* per identity and per contact, nobody served as somebody else, and no    *)
(* false conflict.                                                         *)
(*                                                                         *)
(* The argument.  An index entry of a running INSERT collides with no      *)
(* committed row and with no other entry, because it was let in only when  *)
(* nothing collided and everything that came later had to wait.  A request *)
(* that lost its race lost to a committed row, and rows are never removed. *)
(*                                                                         *)
(* From outside, all of it is one step (BootstrapIsAtomic): the request    *)
(* finds at its lookup or its second read, creates at its commit, and      *)
(* learns of a conflict when it reads again.                               *)
(***************************************************************************)
EXTENDS UserBootstrap, TLAPS

\* What a request in progress carries with it.
RequestInv ==
    \A q \in Requests :
        /\ phase[q] # "idle" => call[q] \in Calls
        /\ phase[q] \in {"lookup", "insert", "reread"} => Trusted(q)
        /\ phase[q] \in {"insert", "reread"} => row[q] = RowFor(call[q].token)
        /\ phase[q] # "insert" => entered[q] = 0
        /\ phase[q] # "answered" => reply[q] = "none"

\* Committed rows collide in no index.
UsersApart ==
    \A i, j \in UserIds : \A k \in Indexes : i # j => ~Collides(users[i], users[j], k)

\* The entries of a running INSERT collide with no committed row ...
EntriesFree ==
    \A q \in Requests, i \in UserIds : \A k \in Indexes :
        k <= entered[q] => ~Collides(users[i], row[q], k)

\* ... and not with one another.
EntriesApart ==
    \A q, u \in Requests : \A k \in Indexes :
        q # u /\ k <= entered[q] /\ k <= entered[u] => ~Collides(row[q], row[u], k)

\* A request reading again met a committed row.
LostToSomebody ==
    \A q \in Requests :
        phase[q] = "reread" => \E i \in UserIds, k \in Indexes : Collides(users[i], row[q], k)

IInv == /\ TypeOK
        /\ RequestInv
        /\ UsersApart
        /\ EntriesFree
        /\ EntriesApart
        /\ LostToSomebody
        /\ ServedAsOneself
        /\ ConflictIsAnothersContact
-----------------------------------------------------------------------------
\* The row built from a valid token has the types of the table.
LEMMA RowType ==
    ASSUME NEW token \in Token
    PROVE  /\ RowFor(token) \in User
           /\ RowFor(token).sub = token.sub
           /\ RowFor(token).phone # Null =>
                token.phone # Blank /\ RowFor(token).phone = Digits[token.phone]
           /\ RowFor(token).email # Null =>
                token.email # Blank /\ RowFor(token).email = token.email
BY DigitsAssumption DEF RowFor, Contact, Token, User

\* A trusted request carries a token.
LEMMA TrustedToken ==
    ASSUME NEW q \in Requests, call[q] \in Calls, Trusted(q)
    PROVE  call[q].token \in Token
BY CallsAssumption DEF Trusted

\* A step at request q that leaves the table alone, and leaves q's entries as they
\* were or drops them, disturbs no index.
Frame(q) ==
    /\ UNCHANGED users
    /\ \A u \in Requests \ {q} :
           /\ call'[u] = call[u] /\ phase'[u] = phase[u] /\ row'[u] = row[u]
           /\ entered'[u] = entered[u] /\ reply'[u] = reply[u] /\ actor'[u] = actor[u]
    /\ entered'[q] = 0 \/ (entered'[q] = entered[q] /\ row'[q] = row[q])

\* The indexes stay clean while entries are only kept or dropped.
LEMMA FrameKeepsIndexes ==
    ASSUME IInv, UNCHANGED users,
           \A u \in Requests :
               entered'[u] = 0 \/ (entered'[u] = entered[u] /\ row'[u] = row[u])
    PROVE  UsersApart' /\ EntriesFree' /\ EntriesApart'
<1>1. UsersApart'
  <2>1. SUFFICES ASSUME NEW i \in UserIds, NEW j \in UserIds, NEW k \in Indexes, i # j
                 PROVE  ~Collides(users'[i], users'[j], k)
    BY DEF UsersApart, Collides, Key
  <2>2. QED
    BY <2>1 DEF IInv, UsersApart
<1>2. EntriesFree'
  <2>1. SUFFICES ASSUME NEW u \in Requests, NEW i \in UserIds, NEW k \in Indexes,
                        k <= entered'[u]
                 PROVE  ~Collides(users'[i], row'[u], k)
    BY DEF EntriesFree, Collides, Key
  <2>2. entered'[u] = entered[u] /\ row'[u] = row[u]
    BY <2>1 DEF Indexes
  <2>3. QED
    BY <2>1, <2>2 DEF IInv, EntriesFree
<1>3. EntriesApart'
  <2>1. SUFFICES ASSUME NEW u \in Requests, NEW w \in Requests, NEW k \in Indexes,
                        u # w, k <= entered'[u], k <= entered'[w]
                 PROVE  ~Collides(row'[u], row'[w], k)
    BY DEF EntriesApart, Collides, Key
  <2>2. /\ entered'[u] = entered[u] /\ row'[u] = row[u]
        /\ entered'[w] = entered[w] /\ row'[w] = row[w]
    BY <2>1 DEF Indexes
  <2>3. QED
    BY <2>1, <2>2 DEF IInv, EntriesApart
<1>4. QED
  BY <1>1, <1>2, <1>3

\* What the invariant says of one request: what it carries, whom it lost to, and
\* that its answer is right.
Carries(q) ==
    /\ phase[q] # "idle" => call[q] \in Calls
    /\ phase[q] \in {"lookup", "insert", "reread"} => Trusted(q)
    /\ phase[q] \in {"insert", "reread"} => row[q] = RowFor(call[q].token)
    /\ phase[q] # "insert" => entered[q] = 0
    /\ phase[q] # "answered" => reply[q] = "none"

Lost(q) ==
    phase[q] = "reread" => \E i \in UserIds, k \in Indexes : Collides(users[i], row[q], k)

RightAccount(q) ==
    reply[q] = "SERVED" => /\ actor[q] \in Accounts
                           /\ users[actor[q]].sub = call[q].token.sub

RightConflict(q) ==
    reply[q] = "IDEMPOTENCY_CONFLICT" =>
        \E i \in Accounts :
            /\ users[i].sub # call[q].token.sub
            /\ \/ call[q].token.phone # Blank /\ users[i].phone = Digits[call[q].token.phone]
               \/ call[q].token.email # Blank /\ users[i].email = call[q].token.email

Sound(q) == Carries(q) /\ Lost(q) /\ RightAccount(q) /\ RightConflict(q)

\* IInv is clean indexes and Sound for every request, in this state ...
LEMMA SoundNow == IInv => \A q \in Requests : Sound(q)
BY DEF IInv, Sound, Carries, Lost, RightAccount, RightConflict, RequestInv, LostToSomebody,
       ServedAsOneself, ConflictIsAnothersContact

\* ... and in the next.
LEMMA SoundNext ==
    ASSUME TypeOK', UsersApart', EntriesFree', EntriesApart', \A q \in Requests : Sound(q)'
    PROVE  IInv'
<1>1. RequestInv'
  BY DEF RequestInv, Sound, Carries
<1>2. LostToSomebody'
  BY DEF LostToSomebody, Sound, Lost
<1>3. ServedAsOneself'
  BY DEF ServedAsOneself, Sound, RightAccount
<1>4. ConflictIsAnothersContact'
  BY DEF ConflictIsAnothersContact, Sound, RightConflict
<1>5. QED
  BY <1>1, <1>2, <1>3, <1>4 DEF IInv

\* A request that a step does not touch stays sound, as accounts are only added.
LEMMA OthersStaySound ==
    ASSUME IInv, NEW u \in Requests,
           \A i \in UserIds : users[i] # NoUser => users'[i] = users[i],
           call'[u] = call[u], phase'[u] = phase[u], row'[u] = row[u],
           entered'[u] = entered[u], reply'[u] = reply[u], actor'[u] = actor[u]
    PROVE  Sound(u)'
<1>1. Sound(u)
  BY SoundNow
<1>2. Carries(u)'
  BY <1>1 DEF Sound, Carries, Trusted, RowFor, Contact
<1>3. Lost(u)'
  <2>1. SUFFICES ASSUME phase[u] = "reread"
                 PROVE  \E i \in UserIds, k \in Indexes : Collides(users'[i], row'[u], k)
    BY DEF Lost, Collides, Key
  <2>2. PICK i \in UserIds, k \in Indexes : Collides(users[i], row[u], k)
    BY <1>1, <2>1 DEF Sound, Lost
  <2>3. users'[i] = users[i]
    BY <2>2 DEF Collides
  <2>4. QED
    BY <2>2, <2>3
<1>4. RightAccount(u)'
  BY <1>1 DEF Sound, RightAccount, Accounts
<1>5. RightConflict(u)'
  <2>1. SUFFICES ASSUME reply[u] = "IDEMPOTENCY_CONFLICT"
                 PROVE  RightConflict(u)'
    BY DEF RightConflict
  <2>2. PICK i \in Accounts :
            /\ users[i].sub # call[u].token.sub
            /\ \/ call[u].token.phone # Blank /\ users[i].phone = Digits[call[u].token.phone]
               \/ call[u].token.email # Blank /\ users[i].email = call[u].token.email
    BY <1>1, <2>1 DEF Sound, RightConflict
  <2>3. users'[i] = users[i] /\ i \in Accounts'
    BY <2>2 DEF Accounts
  <2>4. QED
    BY <2>2, <2>3 DEF RightConflict
<1>6. QED
  BY <1>2, <1>3, <1>4, <1>5 DEF Sound

\* A framed step need only be checked at its own request.
LEMMA FrameStep ==
    ASSUME IInv, TypeOK', NEW q \in Requests, Frame(q), Sound(q)'
    PROVE  IInv'
<1>1. UsersApart' /\ EntriesFree' /\ EntriesApart'
  BY FrameKeepsIndexes DEF Frame
<1>2. ASSUME NEW u \in Requests \ {q} PROVE Sound(u)'
  <2>1. /\ \A i \in UserIds : users[i] # NoUser => users'[i] = users[i]
        /\ call'[u] = call[u] /\ phase'[u] = phase[u] /\ row'[u] = row[u]
        /\ entered'[u] = entered[u] /\ reply'[u] = reply[u] /\ actor'[u] = actor[u]
    BY DEF Frame
  <2>2. QED
    BY <2>1, OthersStaySound
<1>3. \A u \in Requests : Sound(u)'
  BY <1>2
<1>4. QED
  BY <1>1, <1>3, SoundNext
-----------------------------------------------------------------------------
\* Every answer is a reply.
LEMMA ConcludeType ==
    ASSUME TypeOK, NEW q \in Requests, NEW code \in Replies, Conclude(q, code),
           users' \in [UserIds -> User \cup {NoUser}],
           actor' \in [Requests -> UserIds \cup {NoUser}]
    PROVE  TypeOK'
<1>1. reply' \in [Requests -> Replies]
  BY DEF Conclude, TypeOK, Replies, RefusalCodes
<1>2. QED
  BY <1>1 DEF Conclude, TypeOK, Phases

\* The steps of a request keep the types.
LEMMA TypeStep == IInv /\ [Next]_vars => TypeOK'
<1> SUFFICES ASSUME IInv, [Next]_vars PROVE TypeOK'
  OBVIOUS
<1> USE DEF IInv
<1>1. ASSUME NEW q \in Requests, NEW c \in Calls, Receive(q, c) PROVE TypeOK'
  BY <1>1 DEF Receive, TypeOK, Phases
<1>2. ASSUME NEW q \in Requests, NEW code \in Replies, Reject(q, code), UNCHANGED users
      PROVE  TypeOK'
  BY <1>2, ConcludeType DEF Reject, TypeOK
<1>3. ASSUME NEW q \in Requests, NEW i \in UserIds, Serve(q, i), UNCHANGED users
      PROVE  TypeOK'
  <2>1. actor' \in [Requests -> UserIds \cup {NoUser}]
    BY <1>3 DEF Serve, TypeOK
  <2>2. QED
    BY <1>3, <2>1, ConcludeType DEF Serve, TypeOK, Replies, RefusalCodes
<1>4. ASSUME NEW q \in Requests, AcceptToken(q) PROVE TypeOK'
  BY <1>4 DEF AcceptToken, TypeOK, Phases
<1>5. ASSUME NEW q \in Requests, FindExisting(q) PROVE TypeOK'
  BY <1>3, <1>5 DEF FindExisting, FoundFor
<1>6. ASSUME NEW q \in Requests, StartInsert(q) PROVE TypeOK'
  <2>1. Trusted(q) /\ call[q] \in Calls
    BY <1>6 DEF StartInsert, RequestInv
  <2>2. RowFor(call[q].token) \in User
    BY <2>1, TrustedToken, RowType
  <2>3. CASE Reject(q, FromSqlState("23514"))
    BY <1>2, <1>6, <2>3 DEF StartInsert, Replies, RefusalCodes, FromSqlState
  <2>4. CASE ~Reject(q, FromSqlState("23514"))
    <3>1. row' \in [Requests -> User \cup {NoUser}]
      BY <1>6, <2>2, <2>4 DEF StartInsert, TypeOK
    <3>2. QED
      BY <1>6, <2>4, <3>1 DEF StartInsert, TypeOK, Phases
  <2>5. QED
    BY <2>3, <2>4
<1>7. ASSUME NEW q \in Requests, EnterIndex(q) PROVE TypeOK'
  BY <1>7 DEF EnterIndex, TypeOK
<1>8. ASSUME NEW q \in Requests, LoseRace(q) PROVE TypeOK'
  BY <1>8 DEF LoseRace, TypeOK, Phases
<1>9. ASSUME NEW q \in Requests, NEW i \in UserIds, CommitInsert(q, i) PROVE TypeOK'
  <2>1. row[q] \in User
    <3>1. Trusted(q) /\ call[q] \in Calls /\ row[q] = RowFor(call[q].token)
      BY <1>9 DEF CommitInsert, RequestInv
    <3>2. QED
      BY <3>1, TrustedToken, RowType
  <2>2. users' \in [UserIds -> User \cup {NoUser}]
    BY <1>9, <2>1 DEF CommitInsert, TypeOK
  <2>3. actor' \in [Requests -> UserIds \cup {NoUser}]
    BY <1>9 DEF CommitInsert, Serve, Reject, TypeOK
  <2>4. QED
    BY <1>9, <2>2, <2>3, ConcludeType DEF CommitInsert, Serve, Reject, Replies, RefusalCodes
<1>10. ASSUME NEW q \in Requests, ReadWinner(q) PROVE TypeOK'
  BY <1>2, <1>3, <1>10 DEF ReadWinner, Winner, FoundFor, Replies, RefusalCodes
<1>11. ASSUME NEW q \in Requests, Respond(q) PROVE TypeOK'
  BY <1>11 DEF Respond, TypeOK, Phases, Replies, RefusalCodes
<1>12. ASSUME NEW q \in Requests, RejectToken(q) \/ KeysUnreachable(q) \/ DatabaseFails(q)
       PROVE  TypeOK'
  BY <1>2, <1>12 DEF RejectToken, KeysUnreachable, DatabaseFails, Replies, RefusalCodes
<1>13. CASE UNCHANGED vars
  BY <1>13 DEF vars, TypeOK
<1>14. QED
  BY <1>1, <1>4, <1>5, <1>6, <1>7, <1>8, <1>9, <1>10, <1>11, <1>12, <1>13
     DEF Next, Progress
-----------------------------------------------------------------------------
\* The conflict a request is told of is real: its contact is another's.
AnothersContact(q) ==
    \E i \in Accounts :
        /\ users[i].sub # call[q].token.sub
        /\ \/ call[q].token.phone # Blank /\ users[i].phone = Digits[call[q].token.phone]
           \/ call[q].token.email # Blank /\ users[i].email = call[q].token.email

\* A refusal keeps the invariant, if a conflict is told only when it is real.
LEMMA RejectStep ==
    ASSUME IInv, TypeOK', NEW q \in Requests, NEW code \in Replies, phase[q] # "idle",
           UNCHANGED users, Reject(q, code), code # "SERVED",
           code = "IDEMPOTENCY_CONFLICT" => AnothersContact(q)
    PROVE  IInv'
<1> USE DEF IInv, TypeOK
<1>1. /\ phase'[q] = "answered" /\ entered'[q] = 0 /\ call' = call /\ actor' = actor
      /\ reply'[q] # "SERVED"
      /\ reply'[q] = "IDEMPOTENCY_CONFLICT" => code = "IDEMPOTENCY_CONFLICT"
  BY DEF Reject, Conclude
<1>2. Frame(q)
  BY <1>1 DEF Frame, Reject, Conclude
<1>3. Carries(q)' /\ Lost(q)' /\ RightAccount(q)'
  BY <1>1 DEF Carries, Lost, RightAccount, RequestInv
<1>4. RightConflict(q)'
  BY <1>1 DEF RightConflict, AnothersContact, Accounts
<1>5. QED
  BY <1>2, <1>3, <1>4, FrameStep DEF Sound

\* Serving the account of the identity keeps the invariant.
LEMMA ServeStep ==
    ASSUME IInv, TypeOK', NEW q \in Requests, phase[q] # "idle", UNCHANGED users,
           NEW i \in FoundFor(call[q].token.sub), Serve(q, i)
    PROVE  IInv'
<1> USE DEF IInv, TypeOK
<1>1. /\ phase'[q] = "answered" /\ entered'[q] = 0 /\ call' = call
      /\ reply'[q] # "IDEMPOTENCY_CONFLICT" /\ actor'[q] = i
  BY DEF Serve, Conclude, FoundFor
<1>2. Frame(q)
  BY <1>1 DEF Frame, Serve, Conclude
<1>3. Carries(q)' /\ Lost(q)' /\ RightConflict(q)'
  BY <1>1 DEF Carries, Lost, RightConflict, RequestInv
<1>4. RightAccount(q)'
  BY <1>1 DEF RightAccount, Accounts, FoundFor
<1>5. QED
  BY <1>2, <1>3, <1>4, FrameStep DEF Sound

\* A step that moves request q on, without answering it, keeps the invariant.
LEMMA MoveStep ==
    ASSUME IInv, TypeOK', NEW q \in Requests, Frame(q),
           Carries(q)', Lost(q)', reply'[q] = "none"
    PROVE  IInv'
BY FrameStep DEF Sound, RightAccount, RightConflict

\* Entering an index: nothing collides there, committed or running.
LEMMA EnterStep ==
    ASSUME IInv, TypeOK', NEW q \in Requests, EnterIndex(q)
    PROVE  IInv'
<1> USE DEF IInv, TypeOK
<1>1. /\ UNCHANGED <<users, call, phase, row, reply, actor>>
      /\ entered'[q] = Index(q) /\ Index(q) \in Indexes /\ phase[q] = "insert"
      /\ \A u \in Requests \ {q} : entered'[u] = entered[u]
  BY DEF EnterIndex, Index, Indexes
<1>2. \A k \in Indexes : k <= entered'[q] => k <= entered[q] \/ k = Index(q)
  BY <1>1 DEF Index, Indexes
<1>3. UsersApart'
  <2>1. SUFFICES ASSUME NEW i \in UserIds, NEW j \in UserIds, NEW k \in Indexes, i # j
                 PROVE  ~Collides(users'[i], users'[j], k)
    BY DEF UsersApart, Collides, Key
  <2>2. QED
    BY <1>1, <2>1 DEF UsersApart
<1>4. EntriesFree'
  <2>1. SUFFICES ASSUME NEW u \in Requests, NEW i \in UserIds, NEW k \in Indexes,
                        k <= entered'[u]
                 PROVE  ~Collides(users'[i], row'[u], k)
    BY DEF EntriesFree, Collides, Key
  <2>2. CASE u = q /\ k = Index(q)
    BY <1>1, <2>2 DEF EnterIndex, Refused
  <2>3. CASE u # q \/ k # Index(q)
    BY <1>1, <1>2, <2>1, <2>3 DEF EntriesFree
  <2>4. QED
    BY <2>2, <2>3
<1>5. EntriesApart'
  <2>1. SUFFICES ASSUME NEW u \in Requests, NEW w \in Requests, NEW k \in Indexes,
                        u # w, k <= entered'[u], k <= entered'[w]
                 PROVE  ~Collides(row'[u], row'[w], k)
    BY DEF EntriesApart, Collides, Key
  <2>2. \A v \in Requests \ {q} : Index(q) <= entered[v] => ~Collides(row[v], row[q], Index(q))
    BY DEF EnterIndex, WaitsFor
  <2>3. CASE u = q /\ k = Index(q)
    <3>1. ~Collides(row[w], row[q], k)
      BY <1>1, <2>1, <2>2, <2>3
    <3>2. QED
      BY <1>1, <2>3, <3>1 DEF Collides
  <2>4. CASE w = q /\ k = Index(q)
    BY <1>1, <2>1, <2>2, <2>4
  <2>5. CASE (u # q /\ w # q) \/ k # Index(q)
    BY <1>1, <1>2, <2>1, <2>5 DEF EntriesApart
  <2>6. QED
    BY <2>3, <2>4, <2>5
<1>6. ASSUME NEW u \in Requests PROVE Sound(u)'
  <2>1. CASE u # q
    BY <1>1, <2>1, OthersStaySound
  <2>2. CASE u = q
    <3>1. Sound(q) /\ reply[q] = "none"
      BY <1>1, SoundNow DEF RequestInv
    <3>2. Carries(q)'
      BY <1>1, <3>1 DEF Sound, Carries, Trusted, RowFor, Contact
    <3>3. QED
      BY <1>1, <2>2, <3>1, <3>2 DEF Sound, Lost, RightAccount, RightConflict
  <2>3. QED
    BY <2>1, <2>2
<1>7. QED
  BY <1>3, <1>4, <1>5, <1>6, SoundNext

\* Committing: a row with all its entries in collides with no other.
LEMMA CommitStep ==
    ASSUME IInv, TypeOK', NEW q \in Requests, NEW i \in UserIds, CommitInsert(q, i)
    PROVE  IInv'
<1> USE DEF IInv, TypeOK
<1>1. /\ phase[q] = "insert" /\ entered[q] = 3 /\ users[i] = NoUser
      /\ users' = [users EXCEPT ![i] = row[q]]
      /\ call' = call /\ phase'[q] = "answered" /\ entered'[q] = 0
      /\ reply'[q] # "IDEMPOTENCY_CONFLICT"
      /\ reply'[q] = "SERVED" => actor'[q] = i
      /\ \A u \in Requests \ {q} :
             /\ phase'[u] = phase[u] /\ row'[u] = row[u] /\ entered'[u] = entered[u]
             /\ reply'[u] = reply[u] /\ actor'[u] = actor[u]
  BY DEF CommitInsert, Serve, Reject, Conclude
<1>2. \A k \in Indexes : k <= entered[q]
  BY <1>1 DEF Indexes
<1>3. row[q] \in User /\ row[q].sub = call[q].token.sub
  <2>1. Trusted(q) /\ call[q] \in Calls /\ row[q] = RowFor(call[q].token)
    BY <1>1 DEF RequestInv
  <2>2. QED
    BY <2>1, TrustedToken, RowType
<1>4. UsersApart'
  <2>1. SUFFICES ASSUME NEW a \in UserIds, NEW b \in UserIds, NEW k \in Indexes, a # b
                 PROVE  ~Collides(users'[a], users'[b], k)
    BY DEF UsersApart, Collides, Key
  <2>2. CASE a # i /\ b # i
    BY <1>1, <2>1, <2>2 DEF UsersApart
  <2>3. CASE a # i /\ b = i
    BY <1>1, <1>2, <2>1, <2>3 DEF EntriesFree
  <2>4. CASE a = i /\ b # i
    <3>1. ~Collides(users[b], row[q], k)
      BY <1>2, <2>1, <2>4 DEF EntriesFree
    <3>2. QED
      BY <1>1, <2>4, <3>1 DEF Collides
  <2>5. QED
    BY <2>1, <2>2, <2>3, <2>4
<1>5. EntriesFree'
  <2>1. SUFFICES ASSUME NEW u \in Requests, NEW a \in UserIds, NEW k \in Indexes,
                        k <= entered'[u]
                 PROVE  ~Collides(users'[a], row'[u], k)
    BY DEF EntriesFree, Collides, Key
  <2>2. u # q
    BY <1>1, <2>1 DEF Indexes
  <2>3. CASE a # i
    BY <1>1, <2>1, <2>2, <2>3 DEF EntriesFree
  <2>4. CASE a = i
    BY <1>1, <1>2, <2>1, <2>2, <2>4 DEF EntriesApart
  <2>5. QED
    BY <2>3, <2>4
<1>6. EntriesApart'
  <2>1. SUFFICES ASSUME NEW u \in Requests, NEW w \in Requests, NEW k \in Indexes,
                        u # w, k <= entered'[u], k <= entered'[w]
                 PROVE  ~Collides(row'[u], row'[w], k)
    BY DEF EntriesApart, Collides, Key
  <2>2. u # q /\ w # q
    BY <1>1, <2>1 DEF Indexes
  <2>3. QED
    BY <1>1, <2>1, <2>2 DEF EntriesApart
<1>7. ASSUME NEW u \in Requests PROVE Sound(u)'
  <2>1. CASE u # q
    <3>1. \A a \in UserIds : users[a] # NoUser => users'[a] = users[a]
      BY <1>1
    <3>2. QED
      BY <1>1, <2>1, <3>1, OthersStaySound
  <2>2. CASE u = q
    <3>1. Carries(q)' /\ Lost(q)' /\ RightConflict(q)'
      BY <1>1 DEF Carries, Lost, RightConflict, RequestInv
    <3>2. RightAccount(q)'
      BY <1>1, <1>3, NoUserAssumption DEF RightAccount, Accounts
    <3>3. QED
      BY <2>2, <3>1, <3>2 DEF Sound
  <2>3. QED
    BY <2>1, <2>2
<1>8. QED
  BY <1>4, <1>5, <1>6, <1>7, SoundNext

\* A request that lost to a committed row, and finds none of its own identity, lost
\* to another identity's contact.
LEMMA LostContactIsAnothers ==
    ASSUME IInv, NEW q \in Requests, phase[q] = "reread", Winner(q) = {}
    PROVE  AnothersContact(q)
<1> USE DEF IInv
<1>1. PICK i \in UserIds, k \in Indexes : Collides(users[i], row[q], k)
  BY DEF LostToSomebody
<1>2. PICK token \in Token : token = call[q].token /\ row[q] = RowFor(token)
  BY TrustedToken DEF RequestInv
<1>3. i \in Accounts /\ users[i].sub # token.sub
  BY <1>1, <1>2 DEF Collides, Accounts, Winner, FoundFor
<1>4. k # 1
  BY <1>1, <1>2, <1>3, RowType DEF Collides, Key
<1>5. CASE k = 2
  <2>1. users[i].phone = row[q].phone /\ row[q].phone # Null
    BY <1>1, <1>5 DEF Collides, Key
  <2>2. QED
    BY <1>2, <1>3, <2>1, RowType DEF AnothersContact
<1>6. CASE k = 3
  <2>1. users[i].email = row[q].email /\ row[q].email # Null
    BY <1>1, <1>6 DEF Collides, Key
  <2>2. QED
    BY <1>2, <1>3, <2>1, RowType DEF AnothersContact
<1>7. QED
  BY <1>4, <1>5, <1>6 DEF Indexes

\* IInv is inductive.
LEMMA InductiveStep == IInv /\ [Next]_vars => IInv'
<1> SUFFICES ASSUME IInv, [Next]_vars PROVE IInv'
  OBVIOUS
<1>0. TypeOK'
  BY TypeStep
<1>1. ASSUME NEW q \in Requests, NEW c \in Calls, Receive(q, c) PROVE IInv'
  <2>1. Frame(q) /\ Carries(q)' /\ Lost(q)' /\ reply'[q] = "none"
    BY <1>1 DEF Receive, Frame, Carries, Lost, IInv, TypeOK, RequestInv
  <2>2. QED
    BY <1>0, <2>1, MoveStep
<1>2. ASSUME NEW q \in Requests, RejectToken(q) \/ KeysUnreachable(q) PROVE IInv'
  BY <1>0, <1>2, RejectStep DEF RejectToken, KeysUnreachable, Replies, RefusalCodes
<1>3. ASSUME NEW q \in Requests, AcceptToken(q) PROVE IInv'
  <2>1. Frame(q) /\ Carries(q)' /\ Lost(q)' /\ reply'[q] = "none"
    BY <1>3 DEF AcceptToken, Frame, Carries, Lost, Trusted, IInv, TypeOK, RequestInv
  <2>2. QED
    BY <1>0, <2>1, MoveStep
<1>4. ASSUME NEW q \in Requests, FindExisting(q) PROVE IInv'
  BY <1>0, <1>4, ServeStep DEF FindExisting
<1>5. ASSUME NEW q \in Requests, StartInsert(q) PROVE IInv'
  <2>1. CASE Reject(q, FromSqlState("23514"))
    BY <1>0, <1>5, <2>1, RejectStep DEF StartInsert, Replies, RefusalCodes, FromSqlState
  <2>2. CASE ~Reject(q, FromSqlState("23514"))
    <3>1. /\ UNCHANGED <<users, call, entered, reply, actor>>
          /\ phase' = [phase EXCEPT ![q] = "insert"]
          /\ row' = [row EXCEPT ![q] = RowFor(call[q].token)]
          /\ phase[q] = "lookup"
      BY <1>5, <2>2 DEF StartInsert
    <3>2. phase'[q] = "insert" /\ row'[q] = RowFor(call[q].token)
      BY <3>1 DEF IInv, TypeOK
    <3>3. Carries(q)'
      BY <3>1, <3>2 DEF Carries, Trusted, RowFor, Contact, IInv, RequestInv
    <3>4. Frame(q) /\ Lost(q)' /\ reply'[q] = "none"
      BY <3>1, <3>2 DEF Frame, Lost, IInv, TypeOK, RequestInv
    <3>5. QED
      BY <1>0, <3>3, <3>4, MoveStep
  <2>3. QED
    BY <2>1, <2>2
<1>6. ASSUME NEW q \in Requests, LoseRace(q) PROVE IInv'
  <2>1. /\ UNCHANGED <<users, call, row, reply, actor>>
        /\ phase' = [phase EXCEPT ![q] = "reread"]
        /\ entered' = [entered EXCEPT ![q] = 0]
        /\ phase[q] = "insert"
    BY <1>6 DEF LoseRace
  <2>2. Carries(q)'
    BY <2>1 DEF Carries, Trusted, RowFor, Contact, IInv, TypeOK, RequestInv
  <2>3. Lost(q)'
    <3>1. Index(q) \in Indexes
      BY <1>6 DEF LoseRace, Index, Indexes, IInv, TypeOK
    <3>2. PICK i \in UserIds : Collides(users[i], row[q], Index(q))
      BY <1>6 DEF LoseRace, Refused
    <3>3. Collides(users'[i], row'[q], Index(q))
      BY <2>1, <3>2
    <3>4. PICK k \in Indexes : Collides(users'[i], row'[q], k)
      BY <3>1, <3>3
    <3>5. QED
      BY <3>4 DEF Lost, Collides, Key
  <2>4. Frame(q) /\ reply'[q] = "none"
    BY <2>1 DEF Frame, IInv, TypeOK, RequestInv
  <2>5. QED
    BY <1>0, <2>2, <2>3, <2>4, MoveStep
<1>7. ASSUME NEW q \in Requests, ReadWinner(q) PROVE IInv'
  <2>1. CASE \E i \in Winner(q) : Serve(q, i)
    BY <1>0, <1>7, <2>1, ServeStep DEF ReadWinner, Winner
  <2>2. CASE Winner(q) = {} /\ Reject(q, "IDEMPOTENCY_CONFLICT")
    BY <1>0, <1>7, <2>2, RejectStep, LostContactIsAnothers DEF ReadWinner, Replies, RefusalCodes
  <2>3. QED
    BY <1>7, <2>1, <2>2 DEF ReadWinner
<1>8. ASSUME NEW q \in Requests, DatabaseFails(q) PROVE IInv'
  BY <1>0, <1>8, RejectStep DEF DatabaseFails, Replies, RefusalCodes
<1>9. ASSUME NEW q \in Requests, Respond(q) PROVE IInv'
  <2>1. Frame(q) /\ Carries(q)' /\ Lost(q)' /\ reply'[q] = "none"
    BY <1>9 DEF Respond, Frame, Carries, Lost, IInv, TypeOK, RequestInv
  <2>2. QED
    BY <1>0, <2>1, MoveStep
<1>10. CASE UNCHANGED vars
  <2>1. \A u \in Requests : Sound(u)'
    BY <1>10, OthersStaySound DEF vars
  <2>2. UsersApart' /\ EntriesFree' /\ EntriesApart'
    BY <1>10, FrameKeepsIndexes DEF vars
  <2>3. QED
    BY <1>0, <2>1, <2>2, SoundNext
<1>11. QED
  BY <1>1, <1>2, <1>3, <1>4, <1>5, <1>6, <1>7, <1>8, <1>9, <1>10, <1>0, EnterStep, CommitStep
     DEF Next, Progress

\* No request, no account: IInv holds at the start.
LEMMA InitIInv == Init => IInv
<1> SUFFICES ASSUME Init PROVE IInv
  OBVIOUS
<1>1. TypeOK
  BY DEF Init, TypeOK, Phases, Replies, RefusalCodes
<1>2. UsersApart /\ EntriesFree
  BY DEF Init, UsersApart, EntriesFree, Collides
<1>3. EntriesApart
  BY DEF Init, EntriesApart, Collides
<1>4. RequestInv /\ LostToSomebody /\ ServedAsOneself /\ ConflictIsAnothersContact
  BY DEF Init, RequestInv, LostToSomebody, ServedAsOneself, ConflictIsAnothersContact
<1>5. QED
  BY <1>1, <1>2, <1>3, <1>4 DEF IInv

\* IInv holds in every reachable state.
LEMMA Inductive == Spec => []IInv
BY InitIInv, InductiveStep, PTL DEF Spec
-----------------------------------------------------------------------------
\* The variables keep their types, for any requests and identities.
THEOREM TypeCorrect == Spec => []TypeOK
<1>1. IInv => TypeOK
  BY DEF IInv
<1>2. QED
  BY <1>1, Inductive, PTL

\* Rows that collide in no index are one account per identity and contact.
LEMMA AccountsAreApart == IInv => OneAccountEach
<1> SUFFICES ASSUME IInv, NEW i \in Accounts, NEW j \in Accounts, i # j
             PROVE  /\ users[i].sub # users[j].sub
                    /\ users[i].phone # Null /\ users[j].phone # Null
                         => Digits[users[i].phone] # Digits[users[j].phone]
                    /\ users[i].email # Null => users[i].email # users[j].email
  BY DEF OneAccountEach
<1>1. users[i] \in User /\ users[j] \in User
  BY DEF IInv, TypeOK, Accounts
<1>2. \A k \in Indexes : ~Collides(users[i], users[j], k)
  BY DEF IInv, UsersApart, Accounts
<1>3. users[i].sub # users[j].sub
  BY <1>1, <1>2, NoUserAssumption, NullAssumption DEF Collides, Key, Indexes, User
<1>4. users[i].phone # Null => users[i].phone # users[j].phone
  BY <1>1, <1>2, NoUserAssumption DEF Collides, Key, Indexes
<1>5. users[i].email # Null => users[i].email # users[j].email
  BY <1>1, <1>2, NoUserAssumption DEF Collides, Key, Indexes
<1>6. QED
  BY <1>1, <1>3, <1>4, <1>5, DigitsAssumption DEF User

\* However many first requests race, an identity, a number and an email address
\* have one account each.
THEOREM OneAccountForEach == Spec => []OneAccountEach
BY Inductive, AccountsAreApart, PTL

\* No request is ever served as the account of another identity.
THEOREM NobodyIsServedAsAnother == Spec => []ServedAsOneself
<1>1. IInv => ServedAsOneself
  BY DEF IInv
<1>2. QED
  BY <1>1, Inductive, PTL

\* No request is told of a conflict that is not there.
THEOREM ConflictsAreReal == Spec => []ConflictIsAnothersContact
<1>1. IInv => ConflictIsAnothersContact
  BY DEF IInv
<1>2. QED
  BY <1>1, Inductive, PTL

\* What AccountHolderIsNotRefused asks of a step.
HolderNotRefused(q) ==
    (reply[q] # "IDEMPOTENCY_CONFLICT" /\ reply'[q] = "IDEMPOTENCY_CONFLICT")
        => FoundFor(call[q].token.sub) = {}

\* Only a request that read again and found nothing is told of a conflict.
LEMMA OnlyRereadRefuses == IInv /\ [Next]_vars => \A q \in Requests : HolderNotRefused(q)
<1> SUFFICES ASSUME IInv, [Next]_vars, NEW q \in Requests,
                    reply[q] # "IDEMPOTENCY_CONFLICT", reply'[q] = "IDEMPOTENCY_CONFLICT"
             PROVE  FoundFor(call[q].token.sub) = {}
  BY DEF HolderNotRefused
<1> USE DEF IInv, TypeOK
<1>1. ASSUME NEW u \in Requests, NEW code, Conclude(u, code), code # "IDEMPOTENCY_CONFLICT"
      PROVE  FALSE
  BY <1>1 DEF Conclude
<1>2. PICK u \in Requests : ReadWinner(u) \/ StartInsert(u) \/ Respond(u) \/ UNCHANGED reply
  BY <1>1 DEF Next, vars, Progress, Receive, RejectToken, KeysUnreachable, AcceptToken,
     FindExisting, EnterIndex, LoseRace, CommitInsert, DatabaseFails, Serve, Reject
<1>3. CASE ReadWinner(u)
  <2>1. Winner(u) = {} /\ Conclude(u, "IDEMPOTENCY_CONFLICT")
    BY <1>1, <1>3 DEF ReadWinner, Serve, Reject
  <2>2. u = q
    BY <2>1 DEF Conclude
  <2>3. QED
    BY <2>1, <2>2 DEF Winner
<1>4. CASE StartInsert(u)
  BY <1>1, <1>4 DEF StartInsert, Reject, FromSqlState
<1>5. CASE Respond(u)
  BY <1>5 DEF Respond
<1>6. QED
  BY <1>2, <1>3, <1>4, <1>5

\* Whoever has an account, however late it was committed, is never refused for it.
THEOREM HoldersAreNotRefused == Spec => AccountHolderIsNotRefused
<1>1. IInv /\ [Next]_vars => [\A q \in Requests : HolderNotRefused(q)]_vars
  BY OnlyRereadRefuses
<1>2. Spec => [][\A q \in Requests : HolderNotRefused(q)]_vars
  BY <1>1, Inductive, PTL DEF Spec
<1>3. QED
  BY <1>2 DEF AccountHolderIsNotRefused, HolderNotRefused
-----------------------------------------------------------------------------
(* Refinement: one step to find, create or meet somebody else's contact.   *)

\* What a client sees of where its request is.
VisibleInv ==
    \A q \in Requests :
        /\ phase[q] = "idle" => call[q] = NoCall
        /\ phase[q] = "answered" => reply[q] # "none"

LEMMA InitVisible == Init => VisibleInv
BY DEF Init, VisibleInv

LEMMA VisibleStep == IInv /\ VisibleInv /\ [Next]_vars => VisibleInv'
<1> SUFFICES ASSUME IInv, VisibleInv, [Next]_vars PROVE VisibleInv'
  OBVIOUS
<1> USE DEF IInv, TypeOK, VisibleInv
<1>1. ASSUME NEW q \in Requests, NEW code \in Replies \ {"none"}, Conclude(q, code)
      PROVE  VisibleInv'
  BY <1>1 DEF Conclude
<1>2. ASSUME NEW q \in Requests, NEW i \in UserIds, Serve(q, i)
      PROVE  VisibleInv'
  BY <1>1, <1>2 DEF Serve, Replies
<1>3. ASSUME NEW q \in Requests, NEW code \in Replies \ {"none"}, Reject(q, code)
      PROVE  VisibleInv'
  BY <1>1, <1>3 DEF Reject
<1>4. {"UNAUTHENTICATED", "INTERNAL", "IDEMPOTENCY_CONFLICT", FromSqlState("23514")}
         \subseteq Replies \ {"none"}
  BY DEF Replies, RefusalCodes, FromSqlState
<1>5. ASSUME NEW q \in Requests, NEW to \in Phases \ {"idle", "answered"},
             phase' = [phase EXCEPT ![q] = to], UNCHANGED <<call, reply>>
      PROVE  VisibleInv'
  BY <1>5
<1>6. ASSUME NEW q \in Requests, NEW c \in Calls, Receive(q, c) PROVE VisibleInv'
  BY <1>6 DEF Receive
<1>7. ASSUME NEW q \in Requests, AcceptToken(q) \/ LoseRace(q) PROVE VisibleInv'
  BY <1>5, <1>7 DEF AcceptToken, LoseRace, Phases
<1>8. ASSUME NEW q \in Requests,
             RejectToken(q) \/ KeysUnreachable(q) \/ DatabaseFails(q)
      PROVE  VisibleInv'
  BY <1>3, <1>4, <1>8 DEF RejectToken, KeysUnreachable, DatabaseFails
<1>9. ASSUME NEW q \in Requests, FindExisting(q) PROVE VisibleInv'
  BY <1>2, <1>9 DEF FindExisting, FoundFor
<1>10. ASSUME NEW q \in Requests, StartInsert(q) PROVE VisibleInv'
  BY <1>3, <1>4, <1>5, <1>10 DEF StartInsert, Phases
<1>11. ASSUME NEW q \in Requests, EnterIndex(q) PROVE VisibleInv'
  BY <1>11 DEF EnterIndex
<1>12. ASSUME NEW q \in Requests, NEW i \in UserIds, CommitInsert(q, i) PROVE VisibleInv'
  BY <1>2, <1>3, <1>4, <1>12 DEF CommitInsert
<1>13. ASSUME NEW q \in Requests, ReadWinner(q) PROVE VisibleInv'
  BY <1>2, <1>3, <1>4, <1>13 DEF ReadWinner, Winner, FoundFor
<1>14. ASSUME NEW q \in Requests, Respond(q) PROVE VisibleInv'
  BY <1>14 DEF Respond
<1>15. CASE UNCHANGED vars
  BY <1>15 DEF vars
<1> HIDE DEF IInv, TypeOK, VisibleInv
<1> QED BY <1>6, <1>7, <1>8, <1>9, <1>10, <1>11, <1>12, <1>13, <1>14, <1>15
        DEF Next, Progress

\* An answer to a request in progress is one a client hears from outside.
LEMMA ConcludeIsSay ==
    ASSUME IInv, NEW q \in Requests, phase[q] \notin {"idle", "answered"}
    PROVE  /\ call[q] # NoCall /\ reply[q] = "none"
           /\ \A code : Conclude(q, code) => Outside!Say(q, code)
           /\ \A i : Serve(q, i) => Outside!Serve(q, i)
           /\ \A code : Reject(q, code) => Outside!Refuse(q, code)
<1>1. call[q] # NoCall /\ reply[q] = "none"
  BY NoCallAssumption DEF IInv, TypeOK, RequestInv, Phases
<1>2. \A code : Conclude(q, code) => Outside!Say(q, code)
  BY DEF Conclude, Outside!Say
<1> QED BY <1>1, <1>2 DEF Serve, Reject, Outside!Serve, Outside!Refuse

\* The row a trusted request inserts is the account it would get.
LEMMA RowIsNewAccount ==
    ASSUME IInv, NEW q \in Requests, phase[q] \in {"insert", "reread"}
    PROVE  /\ Trusted(q) /\ call[q].token \in Token
           /\ row[q] = RowFor(call[q].token) /\ row[q] = Outside!NewAccount(call[q].token)
<1>1. Trusted(q) /\ call[q] \in Calls /\ row[q] = RowFor(call[q].token)
  BY DEF IInv, RequestInv
<1> QED BY <1>1, TrustedToken DEF RowFor, Contact, Outside!NewAccount

\* No committed row collides with a row whose entries are all in: neither the
\* identity nor its contact details have an account.
LEMMA NewAccountIsFree ==
    ASSUME IInv, NEW q \in Requests, phase[q] = "insert", entered[q] = 3
    PROVE  Outside!Unknown(q) /\ \A j \in UserIds : ~Outside!HasContactOf(q, j)
<1> DEFINE token == call[q].token
<1>1. Trusted(q) /\ token \in Token /\ row[q] = RowFor(token)
  BY RowIsNewAccount
<1>2. ASSUME NEW j \in UserIds, users[j] # NoUser
      PROVE  /\ users[j].sub # row[q].sub
             /\ row[q].phone # Null => users[j].phone # row[q].phone
             /\ row[q].email # Null => users[j].email # row[q].email
  <2>1. \A k \in Indexes : ~Collides(users[j], row[q], k)
    BY DEF IInv, EntriesFree, Indexes
  <2>2. users[j] \in User /\ row[q] \in User /\ row[q] # NoUser
    BY <1>1, <1>2, RowType, NoUserAssumption DEF IInv, TypeOK
  <2>3. users[j].sub # Null
    BY <2>2, NullAssumption DEF User
  <2> QED BY <1>2, <2>1, <2>2, <2>3 DEF Collides, Key, Indexes
<1>3. row[q].sub = token.sub
  BY <1>1, RowType
<1>4. ASSUME token.phone # Blank
      PROVE  row[q].phone = Digits[token.phone] /\ row[q].phone # Null
  <2>1. Digits[token.phone] \in Numbers
    BY <1>1, <1>4, DigitsAssumption DEF Token
  <2> QED BY <1>1, <1>4, <2>1, NullAssumption DEF RowFor, Contact
<1>5. ASSUME token.email # Blank
      PROVE  row[q].email = token.email /\ row[q].email # Null
  <2>1. token.email \in Emails
    BY <1>1, <1>5 DEF Token
  <2> QED BY <1>1, <1>5, <2>1, NullAssumption DEF RowFor, Contact
<1>6. Outside!Unknown(q)
  BY <1>1, <1>2, <1>3 DEF Outside!Unknown, Outside!Owns, Outside!Trusted, Outside!Accounts,
                          Trusted
<1>7. \A j \in UserIds : ~Outside!HasContactOf(q, j)
  BY <1>2, <1>4, <1>5 DEF Outside!HasContactOf, Outside!Accounts
<1> QED BY <1>6, <1>7

\* The identity of a trusted request is unknown when a read finds no row of it.
LEMMA NotFoundIsUnknown ==
    ASSUME NEW q \in Requests, Trusted(q), FoundFor(call[q].token.sub) = {}
    PROVE  Outside!Unknown(q)
BY DEF Outside!Unknown, Outside!Owns, Outside!Accounts, Outside!Trusted, Trusted, FoundFor

LEMMA FoundIsOwned ==
    ASSUME NEW q \in Requests, Trusted(q), NEW i \in FoundFor(call[q].token.sub)
    PROVE  i \in UserIds /\ Outside!Trusted(q) /\ Outside!Owns(q, i)
BY DEF Outside!Owns, Outside!Accounts, Outside!Trusted, Trusted, FoundFor

\* A step is one that is seen from outside, or none.
SeenFromOutside == Outside!Next \/ UNCHANGED Outside!vars

LEMMA OutsideStep == IInv /\ VisibleInv /\ [Next]_vars => [Outside!Next]_(Outside!vars)
<1> SUFFICES ASSUME IInv, VisibleInv, [Next]_vars
             PROVE  SeenFromOutside
  BY DEF SeenFromOutside
<1>1. ASSUME NEW q \in Requests, phase[q] \notin {"idle", "answered"},
             \/ \E i \in UserIds : Outside!Find(q, i) \/ Outside!Create(q, i)
             \/ Outside!Conflict(q) \/ Outside!Uncontactable(q) \/ Outside!Fail(q)
      PROVE  SeenFromOutside
  <2>1. Outside!Resolve(q)
    BY <1>1, ConcludeIsSay DEF Outside!Resolve
  <2> QED BY <2>1 DEF Outside!Next, SeenFromOutside
<1>2. ASSUME NEW q \in Requests, NEW c \in Calls, Receive(q, c) PROVE SeenFromOutside
  <2>1. Outside!Ask(q, c)
    BY <1>2 DEF Receive, Outside!Ask, VisibleInv
  <2> QED BY <2>1 DEF Outside!Next, SeenFromOutside
<1>3. ASSUME NEW q \in Requests, AcceptToken(q) \/ EnterIndex(q) \/ LoseRace(q) PROVE SeenFromOutside
  BY <1>3 DEF AcceptToken, EnterIndex, LoseRace, Outside!vars, SeenFromOutside
<1>4. ASSUME NEW q \in Requests, RejectToken(q) \/ KeysUnreachable(q) PROVE SeenFromOutside
  <2>1. phase[q] = "verify" /\ Reject(q, "UNAUTHENTICATED") /\ UNCHANGED users
    BY <1>4 DEF RejectToken, KeysUnreachable
  <2>2. Outside!Fail(q)
    BY <2>1, ConcludeIsSay DEF Outside!Fail
  <2> QED BY <1>1, <2>1, <2>2
<1>5. ASSUME NEW q \in Requests, DatabaseFails(q) PROVE SeenFromOutside
  <2>1. /\ phase[q] \in {"lookup", "insert", "reread"}
        /\ Reject(q, "INTERNAL") /\ UNCHANGED users /\ Trusted(q)
    BY <1>5 DEF DatabaseFails, IInv, RequestInv
  <2>2. Outside!Fail(q)
    BY <2>1, ConcludeIsSay DEF Outside!Fail, Outside!Trusted, Trusted
  <2> QED BY <1>1, <2>1, <2>2
<1>6. ASSUME NEW q \in Requests, FindExisting(q) PROVE SeenFromOutside
  <2>1. PICK i \in FoundFor(call[q].token.sub) : Serve(q, i)
    BY <1>6 DEF FindExisting
  <2>2. phase[q] = "lookup" /\ UNCHANGED users /\ Trusted(q)
    BY <1>6 DEF FindExisting, IInv, RequestInv
  <2>3. Outside!Find(q, i) /\ i \in UserIds
    BY <2>1, <2>2, FoundIsOwned, ConcludeIsSay DEF Outside!Find
  <2> QED BY <1>1, <2>2, <2>3
<1>7. ASSUME NEW q \in Requests, StartInsert(q) PROVE SeenFromOutside
  <2>1. phase[q] = "lookup" /\ Trusted(q) /\ FoundFor(call[q].token.sub) = {}
        /\ UNCHANGED users /\ call[q] \in Calls
    BY <1>7 DEF StartInsert, IInv, RequestInv
  <2>2. CASE UNCHANGED <<call, reply, actor>>
    BY <2>1, <2>2 DEF Outside!vars, SeenFromOutside
  <2>3. CASE ~Contactable(RowFor(call[q].token)) /\ Reject(q, FromSqlState("23514"))
    <3>1. call[q].token.phone = Blank /\ call[q].token.email = Blank
      BY <2>1, <2>3, TrustedToken, DigitsAssumption, NullAssumption
         DEF Contactable, RowFor, Contact, Token
    <3>2. Outside!Refuse(q, "VALIDATION_FAILED")
      BY <2>1, <2>3, ConcludeIsSay DEF FromSqlState
    <3>3. Outside!Uncontactable(q)
      BY <2>1, <3>1, <3>2, NotFoundIsUnknown DEF Outside!Uncontactable
    <3> QED BY <1>1, <2>1, <3>3
  <2> QED BY <1>7, <2>2, <2>3 DEF StartInsert
<1>8. ASSUME NEW q \in Requests, NEW i \in UserIds, CommitInsert(q, i) PROVE SeenFromOutside
  <2>1. /\ phase[q] = "insert" /\ entered[q] = 3 /\ users[i] = NoUser
        /\ users' = [users EXCEPT ![i] = row[q]]
        /\ Serve(q, i) \/ Reject(q, "INTERNAL")
    BY <1>8 DEF CommitInsert
  <2>2. Outside!Serve(q, i) \/ Outside!Refuse(q, "INTERNAL")
    BY <2>1, ConcludeIsSay
  <2>3. Outside!Create(q, i)
    BY <2>1, <2>2, NewAccountIsFree, RowIsNewAccount DEF Outside!Create
  <2> QED BY <1>1, <2>1, <2>3
<1>9. ASSUME NEW q \in Requests, ReadWinner(q) PROVE SeenFromOutside
  <2>1. phase[q] = "reread" /\ UNCHANGED users /\ Trusted(q)
    BY <1>9 DEF ReadWinner, IInv, RequestInv
  <2>2. CASE \E i \in Winner(q) : Serve(q, i)
    <3>1. PICK i \in FoundFor(call[q].token.sub) : Serve(q, i)
      BY <2>2 DEF Winner
    <3>2. Outside!Find(q, i) /\ i \in UserIds
      BY <2>1, <3>1, FoundIsOwned, ConcludeIsSay DEF Outside!Find
    <3> QED BY <1>1, <2>1, <3>2
  <2>3. CASE Winner(q) = {} /\ Reject(q, "IDEMPOTENCY_CONFLICT")
    <3>1. Outside!Unknown(q)
      BY <2>1, <2>3, NotFoundIsUnknown DEF Winner
    <3>2. \E j \in UserIds : Outside!HasContactOf(q, j)
      BY <2>1, <2>3, LostContactIsAnothers
         DEF AnothersContact, Outside!HasContactOf, Outside!Accounts, Accounts
    <3>3. Outside!Conflict(q)
      BY <2>1, <2>3, <3>1, <3>2, ConcludeIsSay DEF Outside!Conflict
    <3> QED BY <1>1, <2>1, <3>3
  <2> QED BY <1>9, <2>2, <2>3 DEF ReadWinner
<1>10. ASSUME NEW q \in Requests, Respond(q) PROVE SeenFromOutside
  <2>1. Outside!Done(q)
    BY <1>10 DEF Respond, Outside!Done, VisibleInv
  <2> QED BY <2>1 DEF Outside!Next, SeenFromOutside
<1>11. CASE UNCHANGED vars
  BY <1>11 DEF vars, Outside!vars, SeenFromOutside
<1>12. CASE Next
  <2>1. PICK q \in Requests : \/ \E c \in Calls : Receive(q, c)
                             \/ Progress(q) \/ KeysUnreachable(q)
                             \/ DatabaseFails(q) \/ Respond(q)
    BY <1>12 DEF Next
  <2>2. CASE Progress(q)
    BY <2>2, <1>3, <1>4, <1>6, <1>7, <1>8, <1>9 DEF Progress
  <2> QED BY <2>1, <2>2, <1>2, <1>4, <1>5, <1>10
<1> QED BY <1>11, <1>12

\* However requests race and whatever is lost on the way, resolving an identity looks
\* like one step.
THEOREM BootstrapIsAtomic == Spec => ImplementsFindOrCreate
<1>1. Init => Outside!Init
  BY DEF Init, Outside!Init
<1>2. QED
  BY <1>1, InitVisible, VisibleStep, OutsideStep, Inductive, PTL
     DEF Spec, ImplementsFindOrCreate, Outside!Spec
-----------------------------------------------------------------------------
(* Why nobody waits for ever, as far as safety goes.                       *)

\* The requests whose INSERT is under way.
InsertsRunning == {q \in Requests : phase[q] = "insert"}

\* Whom a request waits for is running, too, and has entered more indexes.
LEMMA WaitsGoForward ==
    ASSUME IInv, NEW q \in Requests, NEW u \in WaitsFor(q)
    PROVE  u \in InsertsRunning /\ entered[q] < entered[u]
BY DEF IInv, TypeOK, RequestInv, WaitsFor, Index, InsertsRunning

\* The waits have no cycle: of any running INSERTs, one waits for none of the others, as
\* every INSERT takes the indexes of the table in the same order (auth.repository.ts,
\* findOrBootstrap).  EveryRequestIsAnswered rests on it.
NoCircularWait ==
    \A S \in SUBSET InsertsRunning :
        S # {} => \E q \in S : WaitsFor(q) \cap S = {}

THEOREM WaitsAreAcyclic == Spec => []NoCircularWait
<1>1. IInv => NoCircularWait
  <2>1. SUFFICES ASSUME IInv, NEW S \in SUBSET InsertsRunning, S # {}
                 PROVE  \E q \in S : WaitsFor(q) \cap S = {}
    BY DEF NoCircularWait
  <2>2. PICK q \in S : \A u \in S : entered[u] <= entered[q]
    <3>1. \A q \in S : entered[q] \in 0 .. 3
      BY <2>1 DEF IInv, TypeOK, InsertsRunning
    <3>2. CASE \E q \in S : entered[q] = 3  BY <3>1, <3>2
    <3>3. CASE (\A q \in S : entered[q] < 3) /\ \E q \in S : entered[q] = 2  BY <3>1, <3>3
    <3>4. CASE (\A q \in S : entered[q] < 2) /\ \E q \in S : entered[q] = 1  BY <3>1, <3>4
    <3>5. CASE \A q \in S : entered[q] < 1  BY <2>1, <3>1, <3>5
    <3> QED BY <3>1, <3>2, <3>3, <3>4, <3>5
  <2>3. q \in Requests /\ entered[q] \in 0 .. 3
    BY <2>1 DEF IInv, TypeOK, InsertsRunning
  <2>4. ASSUME NEW u \in WaitsFor(q) PROVE u \notin S
    <3>1. entered[q] < entered[u] /\ u \in Requests /\ entered[u] \in 0 .. 3
      BY <2>1, <2>3, WaitsGoForward DEF IInv, TypeOK, InsertsRunning
    <3> QED BY <2>2, <2>3, <3>1
  <2> QED BY <2>4
<1> QED BY Inductive, <1>1, PTL
=============================================================================
