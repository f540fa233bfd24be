--------------------------- MODULE AdmittedReads ---------------------------
(***************************************************************************)
(* What the three reading routes promise to everyone outside them, with no *)
(* transactions, pooled connections, settings or policies in sight.  A     *)
(* request is admitted at one moment, as the actor its user is then, and   *)
(* is answered in one step with exactly what that actor is entitled to,    *)
(* whatever the administrator does in between and whoever else is reading. *)
(* ScopedPool is shown to implement it.                                    *)
(***************************************************************************)
CONSTANTS Requests, Users, NoUser, Documents, Owner, Applied,
          InitialRole, InitialKyc, Managed, Calls, NoCall, NoActor

VARIABLES role, kyc,  \* [Users -> users.role], [Users -> users.kyc_status]
          call,       \* [Requests -> what the client sent, or NoCall]
          actor,      \* [Requests -> whom it was admitted as, or NoActor]
          reply,      \* [Requests -> the outcome, or "none"]
          shown       \* [Requests -> the rows in the answer]

vars == <<role, kyc, call, actor, reply, shown>>

Init ==
    /\ role = InitialRole /\ kyc = InitialKyc
    /\ call = [q \in Requests |-> NoCall]
    /\ actor = [q \in Requests |-> NoActor]
    /\ reply = [q \in Requests |-> "none"]
    /\ shown = [q \in Requests |-> {}]
-----------------------------------------------------------------------------
Shows == {"list", "read", "profile"}

\* An administrator may read everybody's documents, but lists only his own.
Entitled(a, c) ==
    CASE c.route = "list" -> {d \in Documents : Owner[d] = a.id}
      [] c.route = "read" -> {d \in Documents \cap {c.wanted} :
                                 Owner[d] = a.id \/ a.role = "ADMIN"}
      [] c.route = "profile" -> {a.id} \cap Applied
      [] OTHER -> {}

Waiting(q) == call[q] # NoCall /\ reply[q] = "none"
Admitted(q) == Waiting(q) /\ actor[q] # NoActor

Say(q, code) == reply' = [reply EXCEPT ![q] = code] /\ UNCHANGED <<role, kyc, call>>
-----------------------------------------------------------------------------
Ask(q, c) ==
    /\ call[q] = NoCall
    /\ call' = [call EXCEPT ![q] = c]
    /\ UNCHANGED <<role, kyc, actor, reply, shown>>

TurnAway(q) ==
    /\ Waiting(q) /\ call[q].token = NoUser
    /\ Say(q, "UNAUTHENTICATED") /\ UNCHANGED <<actor, shown>>

\* Role and verdict are looked at once, together, and decide from then on.
Admit(q) ==
    LET u == call[q].token
        route == call[q].route
    IN  /\ Waiting(q) /\ ~Admitted(q) /\ u # NoUser
        /\ actor' = [actor EXCEPT ![q] = [id |-> u, role |-> role[u], kycStatus |-> kyc[u]]]
        /\ \/ route = "owner-only" /\ role[u] # "OWNER" /\ Say(q, "FORBIDDEN")
           \/ route = "needs-kyc" /\ kyc[u] # "VERIFIED" /\ Say(q, "KYC_REQUIRED")
           \/ route = "owner-only" /\ role[u] = "OWNER" /\ Say(q, "SERVED")
           \/ route = "needs-kyc" /\ kyc[u] = "VERIFIED" /\ Say(q, "SERVED")
           \/ route \in Shows /\ UNCHANGED <<role, kyc, call, reply>>
        /\ UNCHANGED shown

\* Only a list may be empty.
Show(q) ==
    /\ Admitted(q) /\ call[q].route \in Shows
    /\ call[q].route # "list" => Entitled(actor[q], call[q]) # {}
    /\ shown' = [shown EXCEPT ![q] = Entitled(actor[q], call[q])]
    /\ Say(q, "SERVED") /\ UNCHANGED actor

\* A document whose URL cannot be had is not found, either.
Miss(q) ==
    /\ Admitted(q)
    /\ \/ call[q].route = "read"
       \/ call[q].route = "profile" /\ Entitled(actor[q], call[q]) = {}
    /\ Say(q, "NOT_FOUND") /\ UNCHANGED <<actor, shown>>

Break(q) ==
    /\ Waiting(q) /\ call[q].token # NoUser
    /\ Say(q, "INTERNAL") /\ UNCHANGED <<actor, shown>>

Done(q) ==
    /\ reply[q] # "none"
    /\ call' = [call EXCEPT ![q] = NoCall]
    /\ actor' = [actor EXCEPT ![q] = NoActor]
    /\ reply' = [reply EXCEPT ![q] = "none"]
    /\ shown' = [shown EXCEPT ![q] = {}]
    /\ UNCHANGED <<role, kyc>>

Administer(u) ==
    /\ \/ \E r \in {"RENTER", "OWNER", "ADMIN"} :
             role' = [role EXCEPT ![u] = r] /\ UNCHANGED kyc
       \/ \E v \in {"VERIFIED", "REJECTED"} :
             kyc' = [kyc EXCEPT ![u] = v] /\ UNCHANGED role
    /\ UNCHANGED <<call, actor, reply, shown>>

Next ==
    \/ \E q \in Requests :
          \/ \E c \in Calls : Ask(q, c)
          \/ TurnAway(q) \/ Admit(q) \/ Show(q) \/ Miss(q) \/ Break(q) \/ Done(q)
    \/ \E u \in Managed : Administer(u)

Spec == Init /\ [][Next]_vars
=============================================================================
