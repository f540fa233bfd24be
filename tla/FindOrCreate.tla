---------------------------- MODULE FindOrCreate ----------------------------
(***************************************************************************)
(* What AuthRepository.findOrBootstrap promises to everyone outside it,    *)
(* with no lookups, races, index entries or second reads in sight: a       *)
(* request is resolved in one indivisible step.  Its identity has an       *)
(* account and is served as that one; or it has none, and gets one unless  *)
(* somebody else has its contact details; or it has none and is told that  *)
(* somebody does.  UserBootstrap is shown to implement it.                 *)
(***************************************************************************)
CONSTANTS Requests, Calls, NoToken, NoCall, UserIds, NoUser,
          Digits,    \* [phone claims -> the spelling we store]
          Blank,     \* a claim that is not there
          Null       \* a column without a value

VARIABLES users,     \* [UserIds -> an account or NoUser]
          call,      \* [Requests -> what the client asks, or NoCall]
          reply,     \* [Requests -> what it is answered, or "none"]
          actor      \* [Requests -> the account it is resolved to, or NoUser]

vars == <<users, call, reply, actor>>

Init ==
    /\ users = [i \in UserIds |-> NoUser]
    /\ call = [q \in Requests |-> NoCall]
    /\ reply = [q \in Requests |-> "none"]
    /\ actor = [q \in Requests |-> NoUser]
-----------------------------------------------------------------------------
Accounts == {i \in UserIds : users[i] # NoUser}

Trusted(q) == call[q].token # NoToken /\ call[q].token.valid

\* The account of q's identity.
Owns(q, i) == i \in Accounts /\ users[i].sub = call[q].token.sub

\* An account that has the phone number or the email address of q's token.
HasContactOf(q, i) ==
    LET token == call[q].token
    IN  /\ i \in Accounts
        /\ \/ token.phone # Blank /\ users[i].phone = Digits[token.phone]
           \/ token.email # Blank /\ users[i].email = token.email

Unknown(q) == Trusted(q) /\ \A i \in UserIds : ~Owns(q, i)

\* The account q would get.
NewAccount(token) ==
    [sub |-> token.sub,
     phone |-> IF token.phone = Blank THEN Null ELSE Digits[token.phone],
     email |-> IF token.email = Blank THEN Null ELSE token.email]
-----------------------------------------------------------------------------
Ask(q, c) ==
    /\ call[q] = NoCall
    /\ call' = [call EXCEPT ![q] = c]
    /\ UNCHANGED <<users, reply, actor>>

\* A public route goes on without an actor, whatever went wrong.
Say(q, code) ==
    /\ reply' = [reply EXCEPT ![q] =
                    IF call[q].public /\ code # "SERVED" THEN "ANONYMOUS" ELSE code]
    /\ UNCHANGED call

Serve(q, i) == Say(q, "SERVED") /\ actor' = [actor EXCEPT ![q] = i]
Refuse(q, code) == Say(q, code) /\ UNCHANGED actor

Find(q, i) == Trusted(q) /\ Owns(q, i) /\ Serve(q, i) /\ UNCHANGED users

\* The client may not hear of its new account, but then the next request finds it.
Create(q, i) ==
    /\ Unknown(q) /\ \A j \in UserIds : ~HasContactOf(q, j)
    /\ users[i] = NoUser
    /\ users' = [users EXCEPT ![i] = NewAccount(call[q].token)]
    /\ Serve(q, i) \/ Refuse(q, "INTERNAL")

Conflict(q) ==
    /\ Unknown(q) /\ \E j \in UserIds : HasContactOf(q, j)
    /\ Refuse(q, "IDEMPOTENCY_CONFLICT")
    /\ UNCHANGED users

\* An account needs a contact detail.
Uncontactable(q) ==
    /\ Unknown(q) /\ call[q].token.phone = Blank /\ call[q].token.email = Blank
    /\ Refuse(q, "VALIDATION_FAILED")
    /\ UNCHANGED users

\* No token, a bad one, or one that cannot be verified now; or the database fails.
Fail(q) ==
    /\ Refuse(q, "UNAUTHENTICATED") \/ (Trusted(q) /\ Refuse(q, "INTERNAL"))
    /\ UNCHANGED users

\* One of these, and all of it at once.
Resolve(q) ==
    /\ call[q] # NoCall /\ reply[q] = "none"
    /\ \/ \E i \in UserIds : Find(q, i) \/ Create(q, i)
       \/ Conflict(q) \/ Uncontactable(q) \/ Fail(q)

Done(q) ==
    /\ reply[q] # "none"
    /\ call' = [call EXCEPT ![q] = NoCall]
    /\ reply' = [reply EXCEPT ![q] = "none"]
    /\ actor' = [actor EXCEPT ![q] = NoUser]
    /\ UNCHANGED users

Next ==
    \E q \in Requests :
        \/ \E c \in Calls : Ask(q, c)
        \/ Resolve(q) \/ Done(q)

Spec == Init /\ [][Next]_vars
=============================================================================
