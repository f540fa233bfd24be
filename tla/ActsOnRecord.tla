---------------------------- MODULE ActsOnRecord ----------------------------
(***************************************************************************)
(* What PrivilegedWritesService promises to everyone outside it, with no   *)
(* transactions, locks or awaits in sight.  A privileged act is one        *)
(* indivisible step together with the audit row that is its evidence: no   *)
(* one ever sees the act without the row, the row without the act, or      *)
(* either of them twice.  A client is told of an act only once it is done, *)
(* and what is done stays done.  PrivilegedWrites is shown to implement it.*)
(***************************************************************************)
CONSTANTS Users, Docs,
          Nobody

VARIABLES profile,   \* [Users -> BOOLEAN]: who has an owner profile
          kyc,       \* [Users -> kyc_status]
          document,  \* [Docs -> whose document it is, or Nobody]
          audit,     \* [Users \cup Docs -> audit rows that name the entity]
          stored,    \* the documents whose bytes are in the bucket
          promised   \* the profiles and documents some client is being told of

record == <<profile, kyc, document, audit, stored>>
vars == <<record, promised>>

Init ==
    /\ profile = [u \in Users |-> FALSE]
    /\ kyc = [u \in Users |-> "NONE"]
    /\ document = [d \in Docs |-> Nobody]
    /\ audit = [e \in Users \cup Docs |-> 0]
    /\ stored = {}
    /\ promised = {}

Done == {u \in Users : profile[u]} \cup {d \in Docs : document[d] # Nobody}

\* The first and only evidence about e.
Record(e) == audit[e] = 0 /\ audit' = [audit EXCEPT ![e] = 1]

BecomeOwner(u) ==
    /\ ~profile[u]
    /\ profile' = [profile EXCEPT ![u] = TRUE]
    /\ Record(u)
    /\ UNCHANGED <<kyc, document, stored>>

\* A new document puts its user under review, or finds that a review is under way
\* or decided.  A user whose verdict comes while the document is being opened keeps
\* that verdict, a rejection included.
OpenDocument(u, d) ==
    /\ document[d] = Nobody
    /\ document' = [document EXCEPT ![d] = u]
    /\ Record(d)
    /\ \/ kyc[u] \in {"NONE", "REJECTED"} /\ kyc' = [kyc EXCEPT ![u] = "PENDING"]
       \/ kyc[u] # "NONE" /\ UNCHANGED kyc
    /\ UNCHANGED <<profile, stored>>

Decide(u, verdict) ==
    /\ kyc[u] # "NONE"
    /\ kyc' = [kyc EXCEPT ![u] = verdict]
    /\ UNCHANGED <<profile, document, audit, stored>>

\* Only a client that has been promised a document has the URL to put its bytes to.
Store(d) ==
    /\ d \in promised
    /\ stored' = stored \cup {d}
    /\ UNCHANGED <<profile, kyc, document, audit>>

Act ==
    \/ \E u \in Users : BecomeOwner(u)
    \/ \E u \in Users, d \in Docs : OpenDocument(u, d)
    \/ \E u \in Users, verdict \in {"VERIFIED", "REJECTED"} : Decide(u, verdict)
    \/ \E d \in Docs : Store(d)

Next == (Act \/ UNCHANGED record) /\ promised' \subseteq Done'

Spec == Init /\ [][Next]_vars
=============================================================================
