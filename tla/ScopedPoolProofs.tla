-------------------------- MODULE ScopedPoolProofs --------------------------
(***************************************************************************)
(* Every request of ScopedPool is answered with its own caller's view, for *)
(* any number of requests, connections, users and documents.               *)
(*                                                                         *)
(* AnsweredAsOneself is not inductive: what the query returns depends on   *)
(* the settings of the connection, and they are the caller's own because   *)
(* no two transactions hold one connection and each sets both settings     *)
(* before it queries.  The WHERE clause and the policy together then come  *)
(* to what the caller is entitled to (PoolImplementsReads).                *)
(***************************************************************************)
EXTENDS ScopedPool, TLAPS

\* A request holds a connection exactly while its transaction is open.
HeldInTransaction ==
    \A q \in Requests : phase[q] \in InTransaction <=> conn[q] # NoConnection

\* No two requests hold the same connection.
HeldByOne ==
    \A p, q \in Requests : conn[p] = conn[q] /\ conn[p] # NoConnection => p = q

\* What a transaction has set is its own actor.
ScopedToActor ==
    \A q \in Requests :
       /\ phase[q] \in {"role", "query"} => setting[conn[q]].user = actor[q].id
       /\ phase[q] = "query" => setting[conn[q]].role = actor[q].role

\* Only a request that is through has an outcome.
RepliesAtTheEnd == \A q \in Requests : reply[q] # "none" => phase[q] = "answered"

IInv ==
    /\ TypeOK
    /\ HeldInTransaction
    /\ HeldByOne
    /\ ScopedToActor
    /\ RepliesAtTheEnd
    /\ AnsweredAsOneself

\* The guards refuse with a reply, and the handlers answer with one.
LEMMA GuardsRefuseType ==
    ASSUME NEW a, NEW route
    PROVE  GuardsRefuse(a, route) \in {"none", "FORBIDDEN", "KYC_REQUIRED"}
BY DEF GuardsRefuse, RoleIsMissing, KycIsMissing

\* A query returns documents and owner profiles.
LEMMA NamedType ==
    ASSUME NEW q \in Requests
    PROVE  Named(q) \subseteq Documents \cup Users
BY RowsAssumption DEF Named, ProfileNamed
-----------------------------------------------------------------------------
\* ScopedPool starts, and stays, in the states TypeOK describes.
LEMMA InitIInv == Init => IInv
BY StartAssumption, RowsAssumption, NoneAssumption
   DEF Init, IInv, TypeOK, HeldInTransaction, HeldByOne, ScopedToActor, RepliesAtTheEnd,
       AnsweredAsOneself, Phases, InTransaction, Replies, Setting, Nobody, Free, Reads

LEMMA TypeOKStep == IInv /\ [Next]_vars => TypeOK'
<1> SUFFICES ASSUME IInv, [Next]_vars PROVE TypeOK'
  OBVIOUS
<1> USE DEF IInv, Phases, InTransaction, Replies, vars
<1>1. ASSUME NEW q \in Requests, NEW c \in Calls, Receive(q, c) PROVE TypeOK'
  BY <1>1, CallsAssumption, NoneAssumption DEF TypeOK, Receive
<1>2. ASSUME NEW q \in Requests, Reject(q) PROVE TypeOK'
  BY <1>2 DEF TypeOK, Reject, Answer
<1>3. ASSUME NEW q \in Requests, Authenticate(q) PROVE TypeOK'
  <2> DEFINE a == ActorNow(call[q].token)
  <2>1. call[q] \in Call /\ call[q].token \in Users
    BY <1>3 DEF TypeOK, Authenticate, Call
  <2>2. a \in Actor /\ a # NoActor /\ a.id = call[q].token
    BY <2>1, NoneAssumption DEF TypeOK, ActorNow, Actor
  <2>3. GuardsRefuse(a, call[q].route) \in {"none", "FORBIDDEN", "KYC_REQUIRED"}
    BY GuardsRefuseType
  <2> QED BY <1>3, <2>2, <2>3 DEF TypeOK, Authenticate, Answer
<1>4. ASSUME NEW q \in Requests, NEW c \in Connections, Begin(q, c) PROVE TypeOK'
  BY <1>4 DEF TypeOK, Begin
<1>5. ASSUME NEW q \in Requests, SetUser(q) PROVE TypeOK'
  BY <1>5 DEF TypeOK, SetUser, Setting, Actor
<1>6. ASSUME NEW q \in Requests, SetRole(q) PROVE TypeOK'
  BY <1>6 DEF TypeOK, SetRole, Setting, Actor
<1>7. ASSUME NEW q \in Requests, Query(q) PROVE TypeOK'
  BY <1>7, NamedType DEF TypeOK, Query
<1>8. ASSUME NEW q \in Requests, Commit(q) PROVE TypeOK'
  BY <1>8 DEF TypeOK, Commit, Release, Setting, Nobody
<1>9. ASSUME NEW q \in Requests, Fail(q) PROVE TypeOK'
  <2>1. conn' \in [Requests -> Connections \cup {NoConnection}]
    BY <1>9 DEF TypeOK, Fail, Release
  <2>2. setting' \in [Connections -> Setting]
    <3>1. Nobody \in Setting
      BY DEF Nobody, Setting
    <3> QED BY <1>9, <3>1 DEF TypeOK, Fail, Release
  <2> QED BY <1>9, <2>1, <2>2 DEF TypeOK, Fail, Answer
<1>10. ASSUME NEW q \in Requests, Handle(q) PROVE TypeOK'
  BY <1>10 DEF TypeOK, Handle, Answer
<1>11. ASSUME NEW q \in Requests, Respond(q) PROVE TypeOK'
  BY <1>11 DEF TypeOK, Respond
<1>12. ASSUME NEW u \in Managed, Administer(u) PROVE TypeOK'
  BY <1>12, StartAssumption DEF TypeOK, Administer, KycStatus
<1>13. ASSUME UNCHANGED vars PROVE TypeOK'
  BY <1>13 DEF TypeOK
<1> QED
  BY <1>1, <1>2, <1>3, <1>4, <1>5, <1>6, <1>7, <1>8, <1>9, <1>10, <1>11, <1>12, <1>13
     DEF Next, Step
-----------------------------------------------------------------------------
LEMMA ConnectionsStep ==
    IInv /\ [Next]_vars => HeldInTransaction' /\ HeldByOne' /\ RepliesAtTheEnd'
<1> SUFFICES ASSUME IInv, [Next]_vars
             PROVE  HeldInTransaction' /\ HeldByOne' /\ RepliesAtTheEnd'
  OBVIOUS
<1> DEFINE Goal == HeldInTransaction' /\ HeldByOne' /\ RepliesAtTheEnd'
<1> USE NoneAssumption
    DEF IInv, TypeOK, HeldInTransaction, HeldByOne, RepliesAtTheEnd, InTransaction, vars
<1>1. ASSUME NEW q \in Requests, NEW c \in Calls, Receive(q, c) PROVE Goal
  BY <1>1 DEF Receive
<1>2. ASSUME NEW q \in Requests, Reject(q) PROVE Goal
  BY <1>2 DEF Reject, Answer
<1>3. ASSUME NEW q \in Requests, Authenticate(q) PROVE Goal
  BY <1>3 DEF Authenticate, Answer
<1>4. ASSUME NEW q \in Requests, NEW c \in Connections, Begin(q, c) PROVE Goal
  BY <1>4 DEF Begin, Free
<1>5. ASSUME NEW q \in Requests, SetUser(q) PROVE Goal
  BY <1>5 DEF SetUser
<1>6. ASSUME NEW q \in Requests, SetRole(q) PROVE Goal
  BY <1>6 DEF SetRole
<1>7. ASSUME NEW q \in Requests, Query(q) PROVE Goal
  BY <1>7 DEF Query
<1>8. ASSUME NEW q \in Requests, Commit(q) PROVE Goal
  BY <1>8 DEF Commit, Release
<1>9. ASSUME NEW q \in Requests, Fail(q) PROVE Goal
  BY <1>9 DEF Fail, Answer, Release
<1>10. ASSUME NEW q \in Requests, Handle(q) PROVE Goal
  BY <1>10 DEF Handle, Answer
<1>11. ASSUME NEW q \in Requests, Respond(q) PROVE Goal
  BY <1>11 DEF Respond
<1>12. ASSUME NEW u \in Managed, Administer(u) PROVE Goal
  BY <1>12 DEF Administer
<1>13. ASSUME UNCHANGED vars PROVE Goal
  BY <1>13
<1> QED
  BY <1>1, <1>2, <1>3, <1>4, <1>5, <1>6, <1>7, <1>8, <1>9, <1>10, <1>11, <1>12, <1>13
     DEF Next, Step

LEMMA ScopedStep == IInv /\ [Next]_vars => ScopedToActor'
<1> SUFFICES ASSUME IInv, [Next]_vars PROVE ScopedToActor'
  OBVIOUS
<1> USE NoneAssumption
    DEF IInv, TypeOK, HeldInTransaction, HeldByOne, ScopedToActor, InTransaction, vars, Setting
<1>1. ASSUME NEW q \in Requests, NEW c \in Calls, Receive(q, c) PROVE ScopedToActor'
  BY <1>1 DEF Receive
<1>2. ASSUME NEW q \in Requests, Reject(q) PROVE ScopedToActor'
  BY <1>2 DEF Reject, Answer
<1>3. ASSUME NEW q \in Requests, Authenticate(q) PROVE ScopedToActor'
  BY <1>3 DEF Authenticate, Answer
<1>4. ASSUME NEW q \in Requests, NEW c \in Connections, Begin(q, c) PROVE ScopedToActor'
  BY <1>4 DEF Begin, Free
<1>5. ASSUME NEW q \in Requests, SetUser(q) PROVE ScopedToActor'
  BY <1>5 DEF SetUser
<1>6. ASSUME NEW q \in Requests, SetRole(q) PROVE ScopedToActor'
  BY <1>6 DEF SetRole
<1>7. ASSUME NEW q \in Requests, Query(q) PROVE ScopedToActor'
  BY <1>7 DEF Query
<1>8. ASSUME NEW q \in Requests, Commit(q) PROVE ScopedToActor'
  BY <1>8 DEF Commit, Release
<1>9. ASSUME NEW q \in Requests, Fail(q) PROVE ScopedToActor'
  BY <1>9 DEF Fail, Answer, Release
<1>10. ASSUME NEW q \in Requests, Handle(q) PROVE ScopedToActor'
  BY <1>10 DEF Handle, Answer
<1>11. ASSUME NEW q \in Requests, Respond(q) PROVE ScopedToActor'
  BY <1>11 DEF Respond
<1>12. ASSUME NEW u \in Managed, Administer(u) PROVE ScopedToActor'
  BY <1>12 DEF Administer
<1>13. ASSUME UNCHANGED vars PROVE ScopedToActor'
  BY <1>13
<1> QED
  BY <1>1, <1>2, <1>3, <1>4, <1>5, <1>6, <1>7, <1>8, <1>9, <1>10, <1>11, <1>12, <1>13
     DEF Next, Step
-----------------------------------------------------------------------------
\* The query of a transaction that is scoped to its actor returns its caller's view.
LEMMA QueryFindsOwnView ==
    ASSUME IInv, NEW q \in Requests, Query(q)
    PROVE  found'[q] = OwnView(q)
<1>1. /\ setting[conn[q]].user = call[q].token
      /\ setting[conn[q]].role = actor[q].role
  BY DEF IInv, TypeOK, ScopedToActor, Query, InTransaction
<1> QED BY <1>1 DEF IInv, TypeOK, Query, OwnView

LEMMA AnsweredStep == IInv /\ [Next]_vars => AnsweredAsOneself'
<1> SUFFICES ASSUME IInv, [Next]_vars PROVE AnsweredAsOneself'
  OBVIOUS
<1> USE NoneAssumption
    DEF IInv, TypeOK, HeldInTransaction, HeldByOne, RepliesAtTheEnd, InTransaction, vars,
        AnsweredAsOneself, Free
<1>1. ASSUME NEW q \in Requests, NEW c \in Calls, Receive(q, c) PROVE AnsweredAsOneself'
  BY <1>1 DEF Receive, OwnView, Named, ProfileNamed, Visible
<1>2. ASSUME NEW q \in Requests, Reject(q) PROVE AnsweredAsOneself'
  BY <1>2 DEF Reject, Answer, OwnView, Named, ProfileNamed, Visible
<1>3. ASSUME NEW q \in Requests, Authenticate(q) PROVE AnsweredAsOneself'
  BY <1>3, GuardsRefuseType DEF Authenticate, Answer, OwnView, Named, ProfileNamed, Visible
<1>4. ASSUME NEW q \in Requests, NEW c \in Connections, Begin(q, c) PROVE AnsweredAsOneself'
  BY <1>4 DEF Begin, OwnView, Named, ProfileNamed, Visible
<1>5. ASSUME NEW q \in Requests, SetUser(q) PROVE AnsweredAsOneself'
  BY <1>5 DEF SetUser, OwnView, Named, ProfileNamed, Visible
<1>6. ASSUME NEW q \in Requests, SetRole(q) PROVE AnsweredAsOneself'
  BY <1>6 DEF SetRole, OwnView, Named, ProfileNamed, Visible
<1>7. ASSUME NEW q \in Requests, Query(q) PROVE AnsweredAsOneself'
  <2>1. found'[q] = OwnView(q)
    BY <1>7, QueryFindsOwnView
  <2> QED BY <1>7, <2>1 DEF Query, OwnView, Named, ProfileNamed, Visible
<1>8. ASSUME NEW q \in Requests, Commit(q) PROVE AnsweredAsOneself'
  BY <1>8 DEF Commit, Release, OwnView, Named, ProfileNamed, Visible
<1>9. ASSUME NEW q \in Requests, Fail(q) PROVE AnsweredAsOneself'
  BY <1>9 DEF Fail, Answer, Release, OwnView, Named, ProfileNamed, Visible
<1>10. ASSUME NEW q \in Requests, Handle(q) PROVE AnsweredAsOneself'
  BY <1>10 DEF Handle, Servable, ReadIsFine, ProfileIsFine, Answer, OwnView, Named,
                ProfileNamed, Visible, Reads
<1>11. ASSUME NEW q \in Requests, Respond(q) PROVE AnsweredAsOneself'
  BY <1>11 DEF Respond, OwnView, Named, ProfileNamed, Visible
<1>12. ASSUME NEW u \in Managed, Administer(u) PROVE AnsweredAsOneself'
  BY <1>12 DEF Administer, OwnView, Named, ProfileNamed, Visible
<1>13. ASSUME UNCHANGED vars PROVE AnsweredAsOneself'
  BY <1>13 DEF OwnView, Named, ProfileNamed, Visible
<1> QED
  BY <1>1, <1>2, <1>3, <1>4, <1>5, <1>6, <1>7, <1>8, <1>9, <1>10, <1>11, <1>12, <1>13
     DEF Next, Step
-----------------------------------------------------------------------------
LEMMA Inductive == Spec => []IInv
<1>1. IInv /\ [Next]_vars => IInv'
  BY TypeOKStep, ConnectionsStep, ScopedStep, AnsweredStep DEF IInv
<1> QED BY InitIInv, <1>1, PTL DEF Spec

\* Type correctness, and that a request under way is its own caller's.
THEOREM TypeCorrect == Spec => []TypeOK
<1>1. IInv => TypeOK
  BY DEF IInv
<1> QED BY Inductive, <1>1, PTL

\* A request reads exactly what its own caller may see, whoever else uses the pool.
THEOREM AnsweredAsOneselfHolds == Spec => []AnsweredAsOneself
<1>1. IInv => AnsweredAsOneself
  BY DEF IInv
<1> QED BY Inductive, <1>1, PTL
-----------------------------------------------------------------------------
(* Seen from outside: a request is admitted, and answered in one step.     *)

\* What a request's phase says of it to those who see only call, actor and reply.
OutsideInv ==
    \A q \in Requests :
       /\ phase[q] = "idle" <=> call[q] = NoCall
       /\ phase[q] \in {"idle", "authenticate"} => actor[q] = NoActor /\ found[q] = {}
       /\ phase[q] \in InTransaction \cup {"begin", "reply"} => Reads(call[q].route)
       /\ phase[q] = "answered" => reply[q] # "none"

LEMMA InitOutside == Init => OutsideInv
BY DEF Init, OutsideInv, InTransaction

LEMMA OutsideInvStep == IInv /\ OutsideInv /\ [Next]_vars => OutsideInv'
<1> SUFFICES ASSUME IInv, OutsideInv, [Next]_vars PROVE OutsideInv'
  OBVIOUS
<1> USE NoneAssumption DEF IInv, TypeOK, OutsideInv, InTransaction, vars
<1>1. ASSUME NEW q \in Requests, NEW c \in Calls, Receive(q, c) PROVE OutsideInv'
  BY <1>1, CallsAssumption DEF Receive
<1>2. ASSUME NEW q \in Requests, Reject(q) PROVE OutsideInv'
  BY <1>2 DEF Reject, Answer
<1>3. ASSUME NEW q \in Requests, Authenticate(q) PROVE OutsideInv'
  BY <1>3, GuardsRefuseType DEF Authenticate, Answer
<1>4. ASSUME NEW q \in Requests, NEW c \in Connections, Begin(q, c) PROVE OutsideInv'
  BY <1>4 DEF Begin
<1>5. ASSUME NEW q \in Requests, SetUser(q) PROVE OutsideInv'
  BY <1>5 DEF SetUser
<1>6. ASSUME NEW q \in Requests, SetRole(q) PROVE OutsideInv'
  BY <1>6 DEF SetRole
<1>7. ASSUME NEW q \in Requests, Query(q) PROVE OutsideInv'
  BY <1>7 DEF Query
<1>8. ASSUME NEW q \in Requests, Commit(q) PROVE OutsideInv'
  BY <1>8 DEF Commit
<1>9. ASSUME NEW q \in Requests, Fail(q) PROVE OutsideInv'
  BY <1>9 DEF Fail, Answer
<1>10. ASSUME NEW q \in Requests, Handle(q) PROVE OutsideInv'
  BY <1>10 DEF Handle, Answer
<1>11. ASSUME NEW q \in Requests, Respond(q) PROVE OutsideInv'
  BY <1>11 DEF Respond
<1>12. ASSUME NEW u \in Managed, Administer(u) PROVE OutsideInv'
  BY <1>12 DEF Administer
<1>13. ASSUME UNCHANGED vars PROVE OutsideInv'
  BY <1>13
<1> QED
  BY <1>1, <1>2, <1>3, <1>4, <1>5, <1>6, <1>7, <1>8, <1>9, <1>10, <1>11, <1>12, <1>13
     DEF Next, Step

\* The WHERE clause and the policy together give a reader what it is entitled to.
LEMMA ViewIsEntitlement ==
    ASSUME IInv, OutsideInv, NEW q \in Requests, phase[q] = "reply"
    PROVE  found[q] = Reading!Entitled(actor[q], call[q])
<1> DEFINE a == actor[q]
           c == call[q]
<1>1. /\ found[q] = {r \in Named(q) : Visible(c.token, a.role, r)}
      /\ a.id = c.token /\ a.id \in Users
      /\ c.route \in {"list", "read", "profile"}
  BY NoneAssumption
     DEF IInv, TypeOK, OutsideInv, AnsweredAsOneself, OwnView, Reads, Actor, Call
<1>2. CASE c.route = "list"
  <2>1. Named(q) = {d \in Documents : Owner[d] = a.id}
    BY <1>2 DEF Named
  <2>2. Reading!Entitled(a, c) = {d \in Documents : Owner[d] = a.id}
    BY <1>2 DEF Reading!Entitled
  <2> QED BY <1>1, <2>1, <2>2 DEF Visible
<1>3. CASE c.route = "read"
  <2>1. Named(q) = {c.wanted} \cap Documents
    BY <1>3 DEF Named
  <2>2. Reading!Entitled(a, c) =
          {d \in Documents \cap {c.wanted} : Owner[d] = a.id \/ a.role = "ADMIN"}
    BY <1>3 DEF Reading!Entitled
  <2> QED BY <1>1, <2>1, <2>2 DEF Visible
<1>4. CASE c.route = "profile"
  <2>1. Named(q) = {a.id} \cap Applied
    BY <1>4 DEF Named, ProfileNamed
  <2>2. Reading!Entitled(a, c) = {a.id} \cap Applied
    BY <1>4 DEF Reading!Entitled
  <2>3. a.id \notin Documents
    BY <1>1, RowsAssumption
  <2> QED BY <1>1, <2>1, <2>2, <2>3 DEF Visible
<1> QED BY <1>1, <1>2, <1>3, <1>4

\* Inside its transaction a request shows nothing.
LEMMA InsideIsSilent ==
    ASSUME IInv, NEW q \in Requests, phase[q] # "answered",
           \A p \in Requests \ {q} : found'[p] = found[p],
           UNCHANGED <<role, kyc, call, actor, reply>>
    PROVE  UNCHANGED Reading!vars
<1>1. \A p \in Requests : reply[p] = "SERVED" => found'[p] = found[p]
  BY DEF IInv, RepliesAtTheEnd
<1>2. Shown' = Shown
  BY <1>1 DEF Shown
<1> QED BY <1>2 DEF Reading!vars

\* An answer without rows shows none.
LEMMA RefusalShowsNothing ==
    ASSUME IInv, NEW q \in Requests, NEW code, code # "SERVED", phase[q] # "answered",
           Answer(q, code), UNCHANGED found
    PROVE  Shown' = Shown
<1>1. reply[q] = "none" /\ reply'[q] = code /\ \A p \in Requests \ {q} : reply'[p] = reply[p]
  BY DEF IInv, TypeOK, RepliesAtTheEnd, Answer
<1> QED BY <1>1 DEF Shown

\* The outcome of a handler is shown, or missed.
LEMMA HandleIsSeen ==
    ASSUME IInv, OutsideInv, NEW q \in Requests, Handle(q)
    PROVE  Reading!Show(q) \/ Reading!Miss(q)
<1> DEFINE rows == Reading!Entitled(actor[q], call[q])
<1>1. /\ phase[q] = "reply" /\ reply[q] = "none" /\ call[q] # NoCall /\ actor[q] # NoActor
      /\ call[q].route \in {"list", "read", "profile"}
      /\ found[q] = rows
  BY ViewIsEntitlement
     DEF Handle, IInv, TypeOK, RepliesAtTheEnd, OutsideInv, Reads
<1>2. Reading!Admitted(q)
  BY <1>1 DEF Reading!Admitted, Reading!Waiting
<1>3. call[q].route = "read" => \A d \in rows : Owner[d] = actor[q].id \/ actor[q].role = "ADMIN"
  BY DEF Reading!Entitled
<1> HIDE DEF rows
<1>4. CASE Servable(q) /\ Answer(q, "SERVED")
  <2>1. call[q].route # "list" => rows # {}
    BY <1>1, <1>4 DEF Servable, ReadIsFine, ProfileIsFine
  <2>2. Shown' = [Shown EXCEPT ![q] = rows]
    <3>1. reply' = [reply EXCEPT ![q] = "SERVED"] /\ found' = found /\ reply \in [Requests -> Replies]
      BY <1>4 DEF Handle, Answer, IInv, TypeOK
    <3> QED BY <1>1, <3>1 DEF Shown
  <2> QED
    BY <1>1, <1>2, <1>4, <2>1, <2>2
       DEF Reading!Show, Reading!Shows, Reading!Say, Handle, Answer, rows
<1>5. CASE /\ ~Servable(q) \/ call[q].route = "read"
           /\ Answer(q, "NOT_FOUND")
  <2>1. call[q].route = "read" \/ (call[q].route = "profile" /\ rows = {})
    BY <1>1, <1>5 DEF Servable, ProfileIsFine
  <2>2. Shown' = Shown
    BY <1>1, <1>5, RefusalShowsNothing DEF Handle
  <2> QED
    BY <1>2, <1>5, <2>1, <2>2 DEF Reading!Miss, Reading!Say, Handle, Answer, rows
<1> QED BY <1>4, <1>5 DEF Handle

\* The guards admit a request as its user is at that moment, or turn it away truthfully.
LEMMA AuthenticateIsAdmit ==
    ASSUME IInv, OutsideInv, NEW q \in Requests, Authenticate(q)
    PROVE  Reading!Admit(q)
<1> DEFINE u == call[q].token
           route == call[q].route
           a == ActorNow(u)
<1>1. /\ phase[q] = "authenticate" /\ reply[q] = "none" /\ call[q] # NoCall
      /\ actor[q] = NoActor /\ u # NoUser /\ route \in Routes
  BY DEF Authenticate, IInv, TypeOK, RepliesAtTheEnd, OutsideInv, Call
<1>2. Reading!Waiting(q) /\ ~Reading!Admitted(q)
  BY <1>1 DEF Reading!Admitted, Reading!Waiting
<1>3. /\ actor' = [actor EXCEPT ![q] = [id |-> u, role |-> role[u], kycStatus |-> kyc[u]]]
      /\ a.role = role[u] /\ a.kycStatus = kyc[u]
  BY DEF Authenticate, ActorNow
<1>4. Shown' = Shown
  <2>1. \A p \in Requests \ {q} : reply'[p] = reply[p]
    BY DEF Authenticate, Answer, IInv, TypeOK
  <2>2. reply'[q] = "SERVED" => found[q] = {}
    BY <1>1 DEF OutsideInv
  <2> QED BY <1>1, <2>1, <2>2 DEF Shown, Authenticate
<1> HIDE DEF a
<1>5. CASE route = "owner-only"
  BY <1>1, <1>2, <1>3, <1>4, <1>5
     DEF Authenticate, GuardsRefuse, RoleIsMissing, KycIsMissing, Reads, Answer, a,
         Reading!Admit, Reading!Say
<1>6. CASE route = "needs-kyc"
  BY <1>1, <1>2, <1>3, <1>4, <1>6
     DEF Authenticate, GuardsRefuse, RoleIsMissing, KycIsMissing, Reads, Answer, a,
         Reading!Admit, Reading!Say
<1>7. CASE route \in {"list", "read", "profile"}
  BY <1>1, <1>2, <1>3, <1>4, <1>7
     DEF Authenticate, GuardsRefuse, RoleIsMissing, KycIsMissing, Reads, Answer, a,
         Reading!Admit, Reading!Shows
<1> QED BY <1>1, <1>5, <1>6, <1>7 DEF Routes

\* Every step is one of AdmittedReads, or is not seen.
LEMMA ReadingStep == IInv /\ OutsideInv /\ [Next]_vars => [Reading!Next]_(Reading!vars)
<1> SUFFICES ASSUME IInv, OutsideInv, [Next]_vars PROVE [Reading!Next]_(Reading!vars)
  OBVIOUS
<1>1. ASSUME NEW q \in Requests, NEW c \in Calls, Receive(q, c)
      PROVE  Reading!Ask(q, c)
  BY <1>1 DEF Receive, Reading!Ask, OutsideInv, Shown
<1>2. ASSUME NEW q \in Requests, Reject(q) PROVE Reading!TurnAway(q)
  <2>1. Reading!Waiting(q)
    BY <1>2 DEF Reject, Reading!Waiting, OutsideInv, IInv, RepliesAtTheEnd
  <2>2. Shown' = Shown
    BY <1>2, RefusalShowsNothing DEF Reject
  <2> QED BY <1>2, <2>1, <2>2 DEF Reject, Answer, Reading!TurnAway, Reading!Say
<1>3. ASSUME NEW q \in Requests, Authenticate(q) PROVE Reading!Admit(q)
  BY <1>3, AuthenticateIsAdmit
<1>4. ASSUME NEW q \in Requests,
             (\E c \in Connections : Begin(q, c)) \/ SetUser(q) \/ SetRole(q) \/ Query(q)
                \/ Commit(q)
      PROVE  UNCHANGED Reading!vars
  <2>1. /\ phase[q] # "answered" /\ UNCHANGED <<role, kyc, call, actor, reply>>
        /\ \A p \in Requests \ {q} : found'[p] = found[p]
    BY <1>4 DEF Begin, SetUser, SetRole, Query, Commit, IInv, TypeOK
  <2> QED BY <2>1, InsideIsSilent
<1>5. ASSUME NEW q \in Requests, Fail(q) PROVE Reading!Break(q)
  <2>1. phase[q] \notin {"idle", "answered"} /\ reply[q] = "none" /\ call[q] # NoCall
    BY <1>5 DEF Fail, InTransaction, OutsideInv, IInv, RepliesAtTheEnd
  <2>2. call[q].token # NoUser
    BY <1>5, NoneAssumption DEF Fail, IInv, TypeOK, InTransaction, Actor
  <2>3. Shown' = Shown
    BY <1>5, <2>1, RefusalShowsNothing DEF Fail
  <2> QED BY <1>5, <2>1, <2>2, <2>3 DEF Fail, Answer, Reading!Break, Reading!Waiting, Reading!Say
<1>6. ASSUME NEW q \in Requests, Handle(q) PROVE Reading!Show(q) \/ Reading!Miss(q)
  BY <1>6, HandleIsSeen
<1>7. ASSUME NEW q \in Requests, Respond(q) PROVE Reading!Done(q)
  <2>1. reply[q] # "none"
    BY <1>7 DEF Respond, OutsideInv
  <2>2. Shown' = [Shown EXCEPT ![q] = {}]
    <3>1. reply'[q] = "none" /\ \A p \in Requests \ {q} : reply'[p] = reply[p] /\ found'[p] = found[p]
      BY <1>7 DEF Respond, IInv, TypeOK
    <3> QED BY <3>1 DEF Shown
  <2> QED BY <1>7, <2>1, <2>2 DEF Respond, Reading!Done
<1>8. ASSUME NEW u \in Managed, Administer(u) PROVE Reading!Administer(u)
  BY <1>8 DEF Administer, Roles, Reading!Administer, Shown
<1>9. ASSUME UNCHANGED vars PROVE UNCHANGED Reading!vars
  BY <1>9 DEF vars, Reading!vars, Shown
<1> QED
  BY <1>1, <1>2, <1>3, <1>4, <1>5, <1>6, <1>7, <1>8, <1>9 DEF Next, Step, Reading!Next

\* Reading on a shared pool under policies looks like reading in one step, with what the
\* caller was admitted to (KycRepository, OwnersRepository and runScoped under the guards).
THEOREM PoolImplementsReads == Spec => ImplementsReads
<1>1. Init => Reading!Init
  BY DEF Init, Reading!Init, Shown
<1>2. Init => OutsideInv
  BY InitOutside
<1>3. IInv /\ OutsideInv /\ [Next]_vars => OutsideInv' /\ [Reading!Next]_(Reading!vars)
  BY OutsideInvStep, ReadingStep
<1> QED BY Inductive, <1>1, <1>2, <1>3, PTL DEF Spec, ImplementsReads, Reading!Spec
=============================================================================
