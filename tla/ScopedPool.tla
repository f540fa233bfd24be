----------------------------- MODULE ScopedPool -----------------------------
(***************************************************************************)
(* Reading under row-level security: the three global guards, then         *)
(* ScopedPrismaClient.runScoped on a pooled connection, the policies of    *)
(* the migration, and the routes that read: GET /kyc/documents, GET        *)
(* /kyc/documents/:id and GET /owners/me.  Many requests run at once over  *)
(* few connections, while an administrator changes the users behind them.  *)
(*                                                                         *)
(* A request carries the actor as it was when its token was resolved.  A   *)
(* connection carries two settings, app.user_id and app.user_role, which   *)
(* are all a policy knows of the actor.                                    *)
(***************************************************************************)
CONSTANTS Requests, Connections, NoConnection,
          Users, NoUser,
          Documents, NoDocument,  \* the rows of kyc_documents; an id that no row has
          Owner,                  \* [Documents -> Users]: user_id
          Applied,                \* the users who have a row in owner_profiles
          InitialRole, InitialKyc,
          Managed,                \* the users the administrator works on
          Calls, NoCall, NoActor,
          Unset                   \* a setting that is NULL or the empty string

Roles == {"RENTER", "OWNER", "ADMIN"}
KycStatus == {"NONE", "PENDING", "VERIFIED", "REJECTED"}

\* The two last are the routes of the guards' own test: no shipped one has the decorator.
Routes == {"list", "read", "profile", "owner-only", "needs-kyc"}

Call == [route : Routes, token : Users \cup {NoUser}, wanted : Documents \cup {NoDocument}]
Actor == [id : Users, role : Roles, kycStatus : KycStatus]
Setting == [user : Users \cup {Unset}, role : Roles \cup {Unset}]

ASSUME RowsAssumption ==
    /\ Owner \in [Documents -> Users]
    /\ Applied \subseteq Users
    /\ Documents \cap Users = {}
ASSUME StartAssumption ==
    /\ InitialRole \in [Users -> Roles]
    /\ InitialKyc \in [Users -> KycStatus]
    /\ Managed \subseteq Users
ASSUME CallsAssumption == Calls \subseteq Call
ASSUME NoneAssumption ==
    /\ NoConnection \notin Connections
    /\ NoUser \notin Users /\ Unset \notin Users /\ Unset # "ADMIN"
    /\ NoDocument \notin Documents \cup Users
    /\ NoCall \notin Call /\ NoActor \notin Actor

VARIABLES role, kyc,  \* [Users -> users.role], [Users -> users.kyc_status]
          call,       \* [Requests -> what the client sent, or NoCall]
          phase,      \* [Requests -> the await it is at]
          actor,      \* [Requests -> request[ACTOR_KEY]]
          conn,       \* [Requests -> the connection its transaction holds]
          setting,    \* [Connections -> app.user_id and app.user_role]
          found,      \* [Requests -> the rows its query returned]
          reply       \* [Requests -> the outcome]

vars == <<role, kyc, call, phase, actor, conn, setting, found, reply>>

InTransaction == {"user", "role", "query", "commit"}
Phases == {"idle", "authenticate", "begin", "reply", "answered"} \cup InTransaction
Replies == {"none", "SERVED", "UNAUTHENTICATED", "FORBIDDEN", "KYC_REQUIRED",
            "NOT_FOUND", "INTERNAL"}

Nobody == [user |-> Unset, role |-> Unset]

\* Whose answer a request is working on is known from the guards on.
TypeOK ==
    /\ role \in [Users -> Roles] /\ kyc \in [Users -> KycStatus]
    /\ call \in [Requests -> Call \cup {NoCall}]
    /\ phase \in [Requests -> Phases]
    /\ actor \in [Requests -> Actor \cup {NoActor}]
    /\ conn \in [Requests -> Connections \cup {NoConnection}]
    /\ setting \in [Connections -> Setting]
    /\ found \in [Requests -> SUBSET (Documents \cup Users)]
    /\ reply \in [Requests -> Replies]
    /\ \A q \in Requests :
          /\ phase[q] # "idle" => call[q] # NoCall
          /\ phase[q] \in InTransaction \cup {"begin", "reply"} =>
                actor[q] # NoActor /\ actor[q].id = call[q].token

Init ==
    /\ role = InitialRole /\ kyc = InitialKyc
    /\ call = [q \in Requests |-> NoCall]
    /\ phase = [q \in Requests |-> "idle"]
    /\ actor = [q \in Requests |-> NoActor]
    /\ conn = [q \in Requests |-> NoConnection]
    /\ setting = [c \in Connections |-> Nobody]
    /\ found = [q \in Requests |-> {}]
    /\ reply = [q \in Requests |-> "none"]
-----------------------------------------------------------------------------
(* The guards, in the order auth.module.ts registers them.                 *)

\* RolesGuard; ADMIN is not every role.
RoleIsMissing(a, route) == route = "owner-only" /\ a.role # "OWNER"

\* KycGuard.
KycIsMissing(a, route) == route = "needs-kyc" /\ a.kycStatus # "VERIFIED"

GuardsRefuse(a, route) ==
    IF RoleIsMissing(a, route) THEN "FORBIDDEN"
    ELSE IF KycIsMissing(a, route) THEN "KYC_REQUIRED"
    ELSE "none"

\* The routes whose handler goes to the database.
Reads(route) == route \in {"list", "read", "profile"}

Answer(q, code) == /\ phase' = [phase EXCEPT ![q] = "answered"]
                   /\ reply' = [reply EXCEPT ![q] = code]

Receive(q, c) ==
    /\ phase[q] = "idle"
    /\ call' = [call EXCEPT ![q] = c]
    /\ phase' = [phase EXCEPT ![q] = "authenticate"]
    /\ UNCHANGED <<role, kyc, actor, conn, setting, found, reply>>

\* JwtAuthGuard without a token that verifies.
Reject(q) ==
    /\ phase[q] = "authenticate"
    /\ call[q].token = NoUser
    /\ Answer(q, "UNAUTHENTICATED")
    /\ UNCHANGED <<role, kyc, call, actor, conn, setting, found>>

\* The actor as resolveActor reads it from users, now.
ActorNow(u) == [id |-> u, role |-> role[u], kycStatus |-> kyc[u]]

\* Mutated form: as on a public route, a bad token only makes the caller anonymous.
AuthenticateOptional(q) ==
    /\ phase[q] = "authenticate"
    /\ actor' = [actor EXCEPT ![q] =
                    IF call[q].token = NoUser THEN NoActor ELSE ActorNow(call[q].token)]
    /\ phase' = [phase EXCEPT ![q] = "begin"]
    /\ UNCHANGED <<role, kyc, call, conn, setting, found, reply>>

\* JwtAuthGuard resolves the actor once; the other guards, and all that follows, use it.
Authenticate(q) ==
    /\ phase[q] = "authenticate"
    /\ call[q].token # NoUser
    /\ LET a == ActorNow(call[q].token)
           refusal == GuardsRefuse(a, call[q].route)
       IN  /\ actor' = [actor EXCEPT ![q] = a]
           /\ IF refusal # "none"
              THEN Answer(q, refusal)
              ELSE IF Reads(call[q].route)
              THEN phase' = [phase EXCEPT ![q] = "begin"] /\ UNCHANGED reply
              ELSE Answer(q, "SERVED")
    /\ UNCHANGED <<role, kyc, call, conn, setting, found>>
-----------------------------------------------------------------------------
(* runScoped: one transaction on a pooled connection.                      *)

Free(c) == \A q \in Requests : conn[q] # c

\* $transaction borrows a connection and begins.
Begin(q, c) ==
    /\ phase[q] = "begin"
    /\ Free(c)
    /\ conn' = [conn EXCEPT ![q] = c]
    /\ phase' = [phase EXCEPT ![q] = "user"]
    /\ UNCHANGED <<role, kyc, call, actor, setting, found, reply>>

\* set_config('app.user_id', actor.id, true)
SetUser(q) ==
    /\ phase[q] = "user"
    /\ setting' = [setting EXCEPT ![conn[q]].user = actor[q].id]
    /\ phase' = [phase EXCEPT ![q] = "role"]
    /\ UNCHANGED <<role, kyc, call, actor, conn, found, reply>>

\* Mutated form: the role is looked up again instead of taken from the actor.
SetRoleAfresh(q) ==
    /\ phase[q] = "role"
    /\ setting' = [setting EXCEPT ![conn[q]].role = role[actor[q].id]]
    /\ phase' = [phase EXCEPT ![q] = "query"]
    /\ UNCHANGED <<role, kyc, call, actor, conn, found, reply>>

\* set_config('app.user_role', actor.role, true)
SetRole(q) ==
    /\ phase[q] = "role"
    /\ setting' = [setting EXCEPT ![conn[q]].role = actor[q].role]
    /\ phase' = [phase EXCEPT ![q] = "query"]
    /\ UNCHANGED <<role, kyc, call, actor, conn, found, reply>>

\* The WHERE clause of findProfile.
ProfileNamed(q) == {actor[q].id} \cap Applied

\* Mutated form: the list leaves it to the policy whose documents it has.
NamedByPolicy(q) ==
    IF call[q].route = "read" THEN {call[q].wanted} \cap Documents
    ELSE IF call[q].route = "list" THEN Documents
    ELSE ProfileNamed(q)

\* And those of findForActor and listForActor.
Named(q) ==
    IF call[q].route = "read" THEN {call[q].wanted} \cap Documents
    ELSE IF call[q].route = "list" THEN {d \in Documents : Owner[d] = actor[q].id}
    ELSE ProfileNamed(q)

\* kyc_documents_self through app_user_id() and app_is_admin(); owner_profiles_read.
Visible(user, as, row) ==
    row \in Documents => Owner[row] = user \/ as = "ADMIN"

Query(q) ==
    /\ phase[q] = "query"
    /\ LET s == setting[conn[q]]
       IN  found' = [found EXCEPT ![q] = {r \in Named(q) : Visible(s.user, s.role, r)}]
    /\ phase' = [phase EXCEPT ![q] = "commit"]
    /\ UNCHANGED <<role, kyc, call, actor, conn, setting, reply>>

\* The end of a transaction: the connection goes back, its settings revert.
Release(q) ==
    /\ conn' = [conn EXCEPT ![q] = NoConnection]
    /\ setting' = [setting EXCEPT ![conn[q]] = Nobody]

Commit(q) ==
    /\ phase[q] = "commit"
    /\ Release(q)
    /\ phase' = [phase EXCEPT ![q] = "reply"]
    /\ UNCHANGED <<role, kyc, call, actor, found, reply>>

\* The database fails, under the lookup of the actor or later; or a connection
\* or the transaction takes too long.  What was open is rolled back.
Fail(q) ==
    /\ phase[q] \in {"authenticate", "begin"} \cup InTransaction
    /\ phase[q] = "authenticate" => call[q].token # NoUser
    /\ IF phase[q] \in InTransaction THEN Release(q) ELSE UNCHANGED <<conn, setting>>
    /\ Answer(q, "INTERNAL")
    /\ UNCHANGED <<role, kyc, call, actor, found>>
-----------------------------------------------------------------------------
(* The handlers.                                                           *)

\* readUrl: the document was found, and its own check after the policy's agrees.
ReadIsFine(q) ==
    found[q] # {} /\ \A d \in found[q] : Owner[d] = actor[q].id \/ actor[q].role = "ADMIN"

\* OwnersController.me: there is a profile.
ProfileIsFine(q) == found[q] # {}

\* A list may be empty.
Servable(q) == /\ call[q].route = "read" => ReadIsFine(q)
               /\ call[q].route = "profile" => ProfileIsFine(q)

\* A read also ends NOT_FOUND when storage cannot mint the URL.
Handle(q) ==
    /\ phase[q] = "reply"
    /\ \/ Servable(q) /\ Answer(q, "SERVED")
       \/ /\ ~Servable(q) \/ call[q].route = "read"
          /\ Answer(q, "NOT_FOUND")
    /\ UNCHANGED <<role, kyc, call, actor, conn, setting, found>>

Respond(q) ==
    /\ phase[q] = "answered"
    /\ call' = [call EXCEPT ![q] = NoCall]
    /\ phase' = [phase EXCEPT ![q] = "idle"]
    /\ actor' = [actor EXCEPT ![q] = NoActor]
    /\ found' = [found EXCEPT ![q] = {}]
    /\ reply' = [reply EXCEPT ![q] = "none"]
    /\ UNCHANGED <<role, kyc, conn, setting>>

\* The administrator of Phase 11 gives a role, or a verdict.
Administer(u) ==
    /\ \/ \E r \in Roles : role' = [role EXCEPT ![u] = r] /\ UNCHANGED kyc
       \/ /\ \E v \in {"VERIFIED", "REJECTED"} : kyc' = [kyc EXCEPT ![u] = v]
          /\ UNCHANGED role
    /\ UNCHANGED <<call, phase, actor, conn, setting, found, reply>>
-----------------------------------------------------------------------------
Step(q) ==
    \/ Reject(q) \/ Authenticate(q)
    \/ \E c \in Connections : Begin(q, c)
    \/ SetUser(q) \/ SetRole(q) \/ Query(q) \/ Commit(q)
    \/ Fail(q) \/ Handle(q) \/ Respond(q)

Next ==
    \/ \E q \in Requests : Step(q) \/ \E c \in Calls : Receive(q, c)
    \/ \E u \in Managed : Administer(u)

Spec == Init /\ [][Next]_vars
-----------------------------------------------------------------------------
\* The rows a request names that its own caller may see, in the role it was admitted in.
OwnView(q) == {r \in Named(q) : Visible(call[q].token, actor[q].role, r)}

\* A request reads exactly what its own caller may see, in the role the guards admitted
\* it in: nothing on the strength of whoever borrowed the connection before it, of a
\* request beside it or of a role given to its caller meanwhile, and nothing of its
\* caller's own withheld (runScoped and the policies of kyc_documents and owner_profiles).
AnsweredAsOneself ==
    /\ \A q \in Requests : phase[q] \in {"commit", "reply"} => found[q] = OwnView(q)
    /\ \A q \in Requests :
          reply[q] = "SERVED" /\ Reads(call[q].route) =>
             /\ found[q] = OwnView(q)
             /\ call[q].route # "list" => found[q] # {}
    /\ \A c \in Connections : Free(c) => setting[c] = Nobody

\* The rows in an answer.
Shown == [q \in Requests |-> IF reply[q] = "SERVED" THEN found[q] ELSE {}]

Reading == INSTANCE AdmittedReads WITH shown <- Shown

\* For everyone outside, a request is admitted once and then answered in one step with
\* what it was admitted to: the pool, its settings and the policies never show, a list
\* is one's own for an administrator, too, and a refusal is as true as an answer.
ImplementsReads == Reading!Spec
=============================================================================
