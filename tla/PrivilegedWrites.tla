-------------------------- MODULE PrivilegedWrites --------------------------
(***************************************************************************)
(* PrivilegedWritesService and the two routes in front of it: applying to  *)
(* be an owner (OwnersController.apply) and asking for a KYC upload        *)
(* (KycService.requestUpload), for many calls at once, with the            *)
(* administrator's verdicts of Phase 11 as an outside actor.               *)
(*                                                                         *)
(* Each transition is one READ COMMITTED transaction whose audit row is    *)
(* written by the same transaction.  `draft` is what an open transaction   *)
(* has written: nobody else sees it, but a drafted profile occupies its    *)
(* key in the primary-key index and a drafted kyc_status locks its row.    *)
(***************************************************************************)
EXTENDS Integers, ExceptionFilter

CONSTANTS Sessions,   \* calls in progress, each slot reused when answered
          Users,
          Docs,       \* kyc_documents: a row's id and the storage path in it
          NoDoc, Nobody, NoJob

ASSUME NobodyAssumption == Nobody \notin Users
ASSUME NoDocAssumption == NoDoc \notin Docs
ASSUME EntitiesAssumption == Users \cap Docs = {}

\* A job without a document is an owner application.
Job == [user : Users, doc : Docs \cup {NoDoc}]

ASSUME NoJobAssumption == NoJob \notin Job

VARIABLES profile,   \* [Users -> does owner_profiles have the user's row]
          kyc,       \* [Users -> users.kyc_status]
          document,  \* [Docs -> whose committed document it is, or Nobody]
          audit,     \* [Users \cup Docs -> audit_log rows that name the entity]
          stored,    \* the documents whose bytes are in the bucket
          job,       \* [Sessions -> what the call asks for, or NoJob]
          phase,     \* [Sessions -> the await the call is at]
          draft,     \* [Sessions -> what its transaction has written so far]
          told,      \* [Sessions -> the kycStatus it will answer with]
          reply      \* [Sessions -> the outcome]

tables == <<profile, kyc, document, audit>>
vars == <<tables, stored, job, phase, draft, told, reply>>

KycStatus == {"NONE", "PENDING", "VERIFIED", "REJECTED"}
InTransaction == {"find", "create", "open", "move", "read", "audit", "commit"}
Phases == {"idle", "mint", "answered"} \cup InTransaction
Replies == {"none", "SERVED", "UPSTREAM_UNAVAILABLE"} \cup RefusalCodes
Writes == {"row", "status", "audit"}

TypeOK ==
    /\ profile \in [Users -> BOOLEAN]
    /\ kyc \in [Users -> KycStatus]
    /\ document \in [Docs -> Users \cup {Nobody}]
    /\ audit \in [Users \cup Docs -> Nat]
    /\ stored \subseteq Docs
    /\ job \in [Sessions -> Job \cup {NoJob}]
    /\ phase \in [Sessions -> Phases]
    /\ draft \in [Sessions -> SUBSET Writes]
    /\ told \in [Sessions -> KycStatus]
    /\ reply \in [Sessions -> Replies]

Init ==
    /\ profile = [u \in Users |-> FALSE]
    /\ kyc = [u \in Users |-> "NONE"]
    /\ document = [d \in Docs |-> Nobody]
    /\ audit = [e \in Users \cup Docs |-> 0]
    /\ stored = {}
    /\ job = [s \in Sessions |-> NoJob]
    /\ phase = [s \in Sessions |-> "idle"]
    /\ draft = [s \in Sessions |-> {}]
    /\ told = [s \in Sessions |-> "NONE"]
    /\ reply = [s \in Sessions |-> "none"]
-----------------------------------------------------------------------------
(* Who holds what.                                                         *)

Applies(s, u) == job[s] = [user |-> u, doc |-> NoDoc]
Uploads(s, u) == job[s] # NoJob /\ job[s].user = u /\ job[s].doc # NoDoc

\* What a call's audit row names.
Entity(s) == IF job[s].doc = NoDoc THEN job[s].user ELSE job[s].doc

\* The other open transactions that hold u's key of owner_profiles_pkey.
Inserting(s, u) == {t \in Sessions \ {s} : Applies(t, u) /\ "row" \in draft[t]}

\* The open transactions that have updated u's row of users.
Lockers(u) == {t \in Sessions : Uploads(t, u) /\ "status" \in draft[t]}

\* Mutated form: any document puts its user under review.
MovableFromAny == KycStatus

\* kycStatus: { in: [...] }
Movable == {"NONE", "REJECTED"}
-----------------------------------------------------------------------------
(* A call.                                                                 *)

Start(s, j, at) ==
    /\ phase[s] = "idle"
    /\ job' = [job EXCEPT ![s] = j]
    /\ phase' = [phase EXCEPT ![s] = at]
    /\ UNCHANGED <<tables, stored, draft, told, reply>>

\* POST /owners/apply
Apply(s, u) == Start(s, [user |-> u, doc |-> NoDoc], "find")

\* POST /kyc/documents: the path is chosen first, and is fresh.
RequestUpload(s, u, d) ==
    /\ document[d] = Nobody
    /\ \A t \in Sessions : job[t] # NoJob => job[t].doc # d
    /\ Start(s, [user |-> u, doc |-> d], "mint")

\* Mutated form: a failing call gives its locks up only when the next one comes.
AnswerHolding(s, code) ==
    /\ phase' = [phase EXCEPT ![s] = "answered"]
    /\ reply' = [reply EXCEPT ![s] = code]
    /\ UNCHANGED <<job, draft>>

\* The transaction, if any, is over and its locks are released.
Answer(s, code) ==
    /\ phase' = [phase EXCEPT ![s] = "answered"]
    /\ reply' = [reply EXCEPT ![s] = code]
    /\ draft' = [draft EXCEPT ![s] = {}]
    /\ UNCHANGED job

\* A statement has run, and its writes are in the transaction.
Step(s, from, to, writes) ==
    /\ phase[s] = from
    /\ phase' = [phase EXCEPT ![s] = to]
    /\ draft' = [draft EXCEPT ![s] = @ \cup writes]
    /\ UNCHANGED <<tables, stored, job, reply>>

\* findUnique, and: if (existing) return existing
FindProfile(s) ==
    \/ /\ phase[s] = "find" /\ profile[job[s].user]
       /\ Answer(s, "SERVED")
       /\ UNCHANGED <<tables, stored, told>>
    \/ /\ phase[s] = "find" /\ ~profile[job[s].user]
       /\ Step(s, "find", "create", {})
       /\ UNCHANGED told

\* Mutated form: an upsert, which takes the profile it finds for its own.
UpsertProfile(s) ==
    /\ phase[s] = "create"
    /\ Inserting(s, job[s].user) = {}
    /\ Step(s, "create", "audit", {"row"})
    /\ UNCHANGED told

\* ownerProfile.create: a committed profile is 23505, which aborts the whole
\* transaction; one that is still uncommitted is waited for.
CreateProfile(s) ==
    \/ /\ phase[s] = "create" /\ profile[job[s].user]
       /\ Answer(s, FromSqlState("23505"))
       /\ UNCHANGED <<tables, stored, told>>
    \/ /\ phase[s] = "create" /\ ~profile[job[s].user]
       /\ Inserting(s, job[s].user) = {}
       /\ Step(s, "create", "audit", {"row"})
       /\ UNCHANGED told

\* createSignedUpload
Mint(s) ==
    \/ /\ phase[s] = "mint"
       /\ Answer(s, "UPSTREAM_UNAVAILABLE")
       /\ UNCHANGED <<tables, stored, told>>
    \/ Step(s, "mint", "open", {}) /\ UNCHANGED told

\* kycDocument.create
OpenDocument(s) == Step(s, "open", "move", {"row"}) /\ UNCHANGED told

\* Mutated form: a row somebody else has updated is skipped, not waited for.
MoveUnlocked(s) ==
    /\ phase[s] = "move"
    /\ IF kyc[job[s].user] \in Movable /\ Lockers(job[s].user) = {}
       THEN Step(s, "move", "read", {"status"})
       ELSE Step(s, "move", "read", {})
    /\ UNCHANGED told

\* updateMany where kycStatus is movable.  A locked row is waited for, and its
\* WHERE is evaluated again on what the other transaction left behind.
MoveToPending(s) ==
    /\ phase[s] = "move"
    /\ \/ /\ kyc[job[s].user] \in Movable /\ Lockers(job[s].user) = {}
          /\ Step(s, "move", "read", {"status"})
       \/ /\ kyc[job[s].user] \notin Movable
          /\ Step(s, "move", "read", {})
    /\ UNCHANGED told

\* findUniqueOrThrow: its own draft, or whatever is committed by now.
ReadStatus(s) ==
    /\ phase[s] = "read"
    /\ Step(s, "read", "audit", {})
    /\ told' = [told EXCEPT ![s] =
                    IF "status" \in draft[s] THEN "PENDING" ELSE kyc[job[s].user]]

\* Mutated form: the audit row is written on a connection of its own.
AuditApart(s) ==
    /\ phase[s] = "audit"
    /\ phase' = [phase EXCEPT ![s] = "commit"]
    /\ audit' = [audit EXCEPT ![Entity(s)] = @ + 1]
    /\ UNCHANGED <<profile, kyc, document, stored, job, draft, told, reply>>

\* tx.auditLog.create
WriteAudit(s) == Step(s, "audit", "commit", {"audit"}) /\ UNCHANGED told

\* The draft becomes the table's.  The acknowledgement may be lost with the
\* connection, and then the call fails though it is all there.
Commit(s) ==
    /\ phase[s] = "commit"
    /\ LET u == job[s].user
           d == job[s].doc
       IN  /\ profile' = [profile EXCEPT ![u] = @ \/ d = NoDoc]
           /\ document' = [e \in Docs |-> IF e = d THEN u ELSE document[e]]
           /\ kyc' = [kyc EXCEPT ![u] = IF "status" \in draft[s] THEN "PENDING" ELSE @]
    /\ audit' = [audit EXCEPT ![Entity(s)] = IF "audit" \in draft[s] THEN @ + 1 ELSE @]
    /\ \E code \in {"SERVED", "INTERNAL"} : Answer(s, code)
    /\ UNCHANGED <<stored, told>>

\* A statement fails, or the transaction outlives its timeout: it is rolled back.
DatabaseFails(s) ==
    /\ phase[s] \in InTransaction
    /\ Answer(s, "INTERNAL")
    /\ UNCHANGED <<tables, stored, told>>

\* Mutated form: the signed URL is answered with before the row is opened.
TicketOnMint(s) == phase[s] # "idle" /\ job[s].doc # NoDoc /\ phase[s] # "mint"

\* The client has the signed URL.
HasTicket(s) == phase[s] = "answered" /\ job[s].doc # NoDoc /\ reply[s] = "SERVED"

\* kyc.upload in the browser: the bytes go straight to storage, if they ever do.
PutBytes(s) ==
    /\ HasTicket(s)
    /\ stored' = stored \cup {job[s].doc}
    /\ UNCHANGED <<tables, job, phase, draft, told, reply>>

\* The answer is out, and the slot is free for another call.
Respond(s) ==
    /\ phase[s] = "answered"
    /\ phase' = [phase EXCEPT ![s] = "idle"]
    /\ job' = [job EXCEPT ![s] = NoJob]
    /\ told' = [told EXCEPT ![s] = "NONE"]
    /\ reply' = [reply EXCEPT ![s] = "none"]
    /\ UNCHANGED <<tables, stored, draft>>

\* An administrator decides; an UPDATE of a locked row waits.
Verdict(u, verdict) ==
    /\ kyc[u] # "NONE" /\ Lockers(u) = {}
    /\ kyc' = [kyc EXCEPT ![u] = verdict]
    /\ UNCHANGED <<profile, document, audit, stored, job, phase, draft, told, reply>>

\* What the API does with a call once its transaction has begun.
Progress(s) ==
    \/ FindProfile(s) \/ CreateProfile(s)
    \/ OpenDocument(s) \/ MoveToPending(s) \/ ReadStatus(s)
    \/ WriteAudit(s) \/ Commit(s)

Next ==
    \/ \E s \in Sessions :
          \/ \E u \in Users : Apply(s, u)
          \/ \E u \in Users, d \in Docs : RequestUpload(s, u, d)
          \/ Mint(s) \/ Progress(s) \/ DatabaseFails(s)
          \/ PutBytes(s) \/ Respond(s)
    \/ \E u \in Users, verdict \in {"VERIFIED", "REJECTED"} : Verdict(u, verdict)

Spec == Init /\ [][Next]_vars

\* The event loop and the database keep going, and waits for a lock are queued.
\* Calls, failures, verdicts, uploads and the storage service's answers need not come.
Fairness == \A s \in Sessions : SF_vars(Progress(s))

FairSpec == Spec /\ Fairness
-----------------------------------------------------------------------------
(* Properties.                                                             *)

\* "The evidence cannot be lost to a partial failure", and there is no evidence of
\* what did not happen: through failures, rollbacks, lost acknowledgements and
\* repeated calls, every profile and document has exactly one audit row.
EvidenceMatchesActs ==
    /\ \A u \in Users : audit[u] = IF profile[u] THEN 1 ELSE 0
    /\ \A d \in Docs : audit[d] = IF document[d] # Nobody THEN 1 ELSE 0

\* "Uploading another document must not un-verify somebody": whatever is decided
\* while an upload is under way, its commit never takes a verification back.
NeverUnverifiedByUpload ==
    [][\A u \in Users :
          kyc[u] # "PENDING" /\ kyc'[u] = "PENDING" => kyc[u] \in {"NONE", "REJECTED"}]_vars

\* A document is never left with nobody to look at it: its user has left NONE for
\* good, and the client is told so.
OpenedIsUnderReview ==
    /\ \A d \in Docs : document[d] # Nobody => kyc[document[d]] # "NONE"
    /\ \A s \in Sessions : HasTicket(s) => told[s] # "NONE"

\* Bytes in the bucket always have a row that says whose they are.
UploadHasARow == \A d \in stored : document[d] # Nobody

\* What clients with an answer in hand are told is there.
Promised == {Entity(s) : s \in {t \in Sessions : reply[t] = "SERVED"}}

Acts == INSTANCE ActsOnRecord WITH promised <- Promised

\* For everyone outside, each act and its evidence are one step, done once whatever
\* else is going on, and nobody is told of an act that is not done: transactions that
\* fail, wait, are repeated or lose their acknowledgement never show.
ImplementsActs == Acts!Spec

\* Every transaction ends and its call is answered: the waits for a key or a row come to an end.
EveryWriteEnds ==
    \A s \in Sessions :
        phase[s] \in InTransaction ~> phase[s] = "answered"

\* Applying twice is not an error.
DoubleTapIsNotAnError ==
    \A s \in Sessions, u \in Users :
        Applies(s, u) => reply[s] # "IDEMPOTENCY_CONFLICT"
=============================================================================
