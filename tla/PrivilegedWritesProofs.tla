----------------------- MODULE PrivilegedWritesProofs -----------------------
(***************************************************************************)
(* For any number of calls, users and documents: the evidence matches the  *)
(* acts, an upload never takes a verification back, and neither a document *)
(* nor its bytes are left without somebody who looks after them.           *)
(*                                                                         *)
(* The argument.  What a transaction has drafted is protected until its    *)
(* commit: a profile by its key (ProfilesApart), a document by its fresh   *)
(* id (DocumentsApart), a status by the lock of its row (StatusLocked).    *)
(* So what was true when the statement ran is true when it is committed.   *)
(* From outside the commit is the whole act (WritesImplementTheActs).      *)
(***************************************************************************)
EXTENDS PrivilegedWrites, TLAPS

\* What a call has drafted follows from where it is.
CallInv ==
    \A s \in Sessions :
        /\ phase[s] = "idle" <=> job[s] = NoJob
        /\ phase[s] \in {"find", "create"} => job[s].doc = NoDoc
        /\ phase[s] \in {"mint", "open", "move", "read"} => job[s].doc # NoDoc
        /\ "row" \in draft[s] <=> phase[s] \in {"move", "read", "audit", "commit"}
        /\ "audit" \in draft[s] <=> phase[s] = "commit"
        /\ "status" \in draft[s] => /\ phase[s] \in {"read", "audit", "commit"}
                                    /\ job[s].doc # NoDoc

\* A user's profile is drafted once, and only while there is none.
ProfilesApart ==
    \A s, t \in Sessions :
        /\ "row" \in draft[s] /\ "row" \in draft[t]
        /\ job[s].doc = NoDoc /\ job[t] = job[s]
        => s = t /\ ~profile[job[s].user]

\* A document belongs to one call, and is not there before that call's commit.
DocumentsApart ==
    \A s \in Sessions :
        phase[s] # "idle" /\ job[s].doc # NoDoc =>
            /\ phase[s] # "answered" => document[job[s].doc] = Nobody
            /\ HasTicket(s) => document[job[s].doc] # Nobody
            /\ \A t \in Sessions \ {s} : phase[t] # "idle" => job[t].doc # job[s].doc

\* The row lock: a drafted status has a movable one under it, and one writer.
StatusLocked ==
    \A s \in Sessions :
        "status" \in draft[s] =>
            /\ kyc[job[s].user] \in {"NONE", "REJECTED"}
            /\ \A t \in Sessions :
                   "status" \in draft[t] /\ job[t].user = job[s].user => t = s

\* After its MoveToPending an upload's user is not NONE, and the answer says so.
ReviewInv ==
    \A s \in Sessions :
        job[s] # NoJob /\ job[s].doc # NoDoc =>
            /\ phase[s] \in {"read", "audit", "commit"} /\ "status" \notin draft[s]
                  => kyc[job[s].user] # "NONE"
            /\ phase[s] \in {"audit", "commit"} => told[s] # "NONE"

IInv == /\ TypeOK
        /\ CallInv
        /\ ProfilesApart
        /\ DocumentsApart
        /\ StatusLocked
        /\ ReviewInv
        /\ EvidenceMatchesActs
        /\ OpenedIsUnderReview
        /\ UploadHasARow
-----------------------------------------------------------------------------
\* Nothing is in progress at first, and the tables are empty.
LEMMA InitIInv == Init => IInv
<1> SUFFICES ASSUME Init PROVE IInv
  OBVIOUS
<1> USE NobodyAssumption, NoDocAssumption, EntitiesAssumption DEF Init
<1>1. TypeOK
  BY DEF TypeOK, KycStatus, Phases, Replies
<1>2. CallInv /\ ProfilesApart /\ DocumentsApart /\ StatusLocked /\ ReviewInv
  BY DEF CallInv, ProfilesApart, DocumentsApart, StatusLocked, ReviewInv, HasTicket
<1>3. EvidenceMatchesActs /\ OpenedIsUnderReview /\ UploadHasARow
  BY DEF EvidenceMatchesActs, OpenedIsUnderReview, UploadHasARow, HasTicket
<1>4. QED
  BY <1>1, <1>2, <1>3 DEF IInv

\* Every step keeps the types: no draft, reply or status outside its set.
LEMMA TypeStep == IInv /\ [Next]_vars => TypeOK'
<1> SUFFICES ASSUME IInv, [Next]_vars PROVE TypeOK'
  OBVIOUS
<1> USE NobodyAssumption, NoDocAssumption, EntitiesAssumption, NoJobAssumption
        DEF IInv, TypeOK, CallInv, Phases, InTransaction, Replies,
            RefusalCodes, Writes, KycStatus, Job, FromSqlState, Movable,
            tables
<1>1. ASSUME NEW s \in Sessions, NEW u \in Users, Apply(s, u)
      PROVE  TypeOK'
  BY <1>1 DEF Apply, Start
<1>2. ASSUME NEW s \in Sessions, NEW u \in Users, NEW d \in Docs, RequestUpload(s, u, d)
      PROVE  TypeOK'
  BY <1>2 DEF RequestUpload, Start
<1>3. ASSUME NEW s \in Sessions, FindProfile(s)
      PROVE  TypeOK'
  BY <1>3 DEF FindProfile, Answer, Step
<1>4. ASSUME NEW s \in Sessions, CreateProfile(s)
      PROVE  TypeOK'
  BY <1>4 DEF CreateProfile, Answer, Step, Inserting, Applies
<1>5. ASSUME NEW s \in Sessions, Mint(s)
      PROVE  TypeOK'
  BY <1>5 DEF Mint, Answer, Step
<1>6. ASSUME NEW s \in Sessions, OpenDocument(s)
      PROVE  TypeOK'
  BY <1>6 DEF OpenDocument, Step
<1>7. ASSUME NEW s \in Sessions, MoveToPending(s)
      PROVE  TypeOK'
  <2>1. Step(s, "move", "read", {"status"}) \/ Step(s, "move", "read", {})
    BY <1>7 DEF MoveToPending
  <2>2. told' = told
    BY <1>7 DEF MoveToPending
  <2> QED BY <2>1, <2>2 DEF Step
<1>8. ASSUME NEW s \in Sessions, ReadStatus(s)
      PROVE  TypeOK'
  BY <1>8 DEF ReadStatus, Step
<1>9. ASSUME NEW s \in Sessions, WriteAudit(s)
      PROVE  TypeOK'
  BY <1>9 DEF WriteAudit, Step
<1>10. ASSUME NEW s \in Sessions, Commit(s)
      PROVE  TypeOK'
  BY <1>10 DEF Commit, Answer, Entity
<1>11. ASSUME NEW s \in Sessions, DatabaseFails(s)
      PROVE  TypeOK'
  BY <1>11 DEF DatabaseFails, Answer
<1>12. ASSUME NEW s \in Sessions, PutBytes(s)
      PROVE  TypeOK'
  BY <1>12 DEF PutBytes, HasTicket
<1>13. ASSUME NEW s \in Sessions, Respond(s)
      PROVE  TypeOK'
  BY <1>13 DEF Respond
<1>14. ASSUME NEW u \in Users, NEW v \in {"VERIFIED", "REJECTED"}, Verdict(u, v)
      PROVE  TypeOK'
  BY <1>14 DEF Verdict, Lockers, Uploads
<1>15. CASE UNCHANGED vars
  BY <1>15 DEF vars
<1> HIDE DEF TypeOK
<1>16. QED
  BY <1>1, <1>2, <1>3, <1>4, <1>5, <1>6, <1>7, <1>8, <1>9, <1>10, <1>11,
     <1>12, <1>13, <1>14, <1>15 DEF Next, Progress

\* Where a call is in its transaction decides what it has drafted.
LEMMA CallStep == IInv /\ [Next]_vars => CallInv'
<1> SUFFICES ASSUME IInv, [Next]_vars PROVE CallInv'
  OBVIOUS
<1> USE NobodyAssumption, NoDocAssumption, EntitiesAssumption, NoJobAssumption
        DEF IInv, CallInv, TypeOK, Writes, Job, InTransaction, Phases,
            tables
<1>1. ASSUME NEW s \in Sessions, NEW u \in Users, Apply(s, u)
      PROVE  CallInv'
  BY <1>1 DEF Apply, Start
<1>2. ASSUME NEW s \in Sessions, NEW u \in Users, NEW d \in Docs, RequestUpload(s, u, d)
      PROVE  CallInv'
  BY <1>2 DEF RequestUpload, Start
<1>3. ASSUME NEW s \in Sessions, FindProfile(s)
      PROVE  CallInv'
  BY <1>3 DEF FindProfile, Answer, Step
<1>4. ASSUME NEW s \in Sessions, CreateProfile(s)
      PROVE  CallInv'
  BY <1>4 DEF CreateProfile, Answer, Step, Inserting, Applies
<1>5. ASSUME NEW s \in Sessions, Mint(s)
      PROVE  CallInv'
  BY <1>5 DEF Mint, Answer, Step
<1>6. ASSUME NEW s \in Sessions, OpenDocument(s)
      PROVE  CallInv'
  BY <1>6 DEF OpenDocument, Step
<1>7. ASSUME NEW s \in Sessions, MoveToPending(s)
      PROVE  CallInv'
  BY <1>7 DEF MoveToPending, Step, Movable, Lockers, Uploads
<1>8. ASSUME NEW s \in Sessions, ReadStatus(s)
      PROVE  CallInv'
  BY <1>8 DEF ReadStatus, Step
<1>9. ASSUME NEW s \in Sessions, WriteAudit(s)
      PROVE  CallInv'
  BY <1>9 DEF WriteAudit, Step
<1>10. ASSUME NEW s \in Sessions, Commit(s)
      PROVE  CallInv'
  BY <1>10 DEF Commit, Answer, Entity
<1>11. ASSUME NEW s \in Sessions, DatabaseFails(s)
      PROVE  CallInv'
  BY <1>11 DEF DatabaseFails, Answer
<1>12. ASSUME NEW s \in Sessions, PutBytes(s)
      PROVE  CallInv'
  BY <1>12 DEF PutBytes, HasTicket
<1>13. ASSUME NEW s \in Sessions, Respond(s)
      PROVE  CallInv'
  BY <1>13 DEF Respond
<1>14. ASSUME NEW u \in Users, NEW v \in {"VERIFIED", "REJECTED"}, Verdict(u, v)
      PROVE  CallInv'
  BY <1>14 DEF Verdict, Lockers, Uploads
<1>15. CASE UNCHANGED vars
  BY <1>15 DEF vars
<1>16. QED
  BY <1>1, <1>2, <1>3, <1>4, <1>5, <1>6, <1>7, <1>8, <1>9, <1>10, <1>11,
     <1>12, <1>13, <1>14, <1>15 DEF Next, Progress

\* The primary-key index lets one transaction at a time draft a user's profile
\* (CreateProfile waits), and none while there is one.
LEMMA ProfilesStep == IInv /\ [Next]_vars => ProfilesApart'
<1> SUFFICES ASSUME IInv, [Next]_vars PROVE ProfilesApart'
  OBVIOUS
<1> USE NobodyAssumption, NoDocAssumption, EntitiesAssumption, NoJobAssumption
        DEF IInv, ProfilesApart, CallInv, TypeOK, Writes, Job,
            InTransaction, Inserting, Applies, tables
<1>1. ASSUME NEW s \in Sessions, NEW u \in Users, Apply(s, u)
      PROVE  ProfilesApart'
  BY <1>1 DEF Apply, Start
<1>2. ASSUME NEW s \in Sessions, NEW u \in Users, NEW d \in Docs, RequestUpload(s, u, d)
      PROVE  ProfilesApart'
  BY <1>2 DEF RequestUpload, Start
<1>3. ASSUME NEW s \in Sessions, FindProfile(s)
      PROVE  ProfilesApart'
  BY <1>3 DEF FindProfile, Answer, Step
<1>4. ASSUME NEW s \in Sessions, CreateProfile(s)
      PROVE  ProfilesApart'
  BY <1>4 DEF CreateProfile, Answer, Step
<1>5. ASSUME NEW s \in Sessions, Mint(s)
      PROVE  ProfilesApart'
  BY <1>5 DEF Mint, Answer, Step
<1>6. ASSUME NEW s \in Sessions, OpenDocument(s)
      PROVE  ProfilesApart'
  BY <1>6 DEF OpenDocument, Step
<1>7. ASSUME NEW s \in Sessions, MoveToPending(s)
      PROVE  ProfilesApart'
  BY <1>7 DEF MoveToPending, Step, Movable, Lockers, Uploads
<1>8. ASSUME NEW s \in Sessions, ReadStatus(s)
      PROVE  ProfilesApart'
  BY <1>8 DEF ReadStatus, Step
<1>9. ASSUME NEW s \in Sessions, WriteAudit(s)
      PROVE  ProfilesApart'
  BY <1>9 DEF WriteAudit, Step
<1>10. ASSUME NEW s \in Sessions, Commit(s)
      PROVE  ProfilesApart'
  BY <1>10 DEF Commit, Answer, Entity
<1>11. ASSUME NEW s \in Sessions, DatabaseFails(s)
      PROVE  ProfilesApart'
  BY <1>11 DEF DatabaseFails, Answer
<1>12. ASSUME NEW s \in Sessions, PutBytes(s)
      PROVE  ProfilesApart'
  BY <1>12 DEF PutBytes, HasTicket
<1>13. ASSUME NEW s \in Sessions, Respond(s)
      PROVE  ProfilesApart'
  BY <1>13 DEF Respond
<1>14. ASSUME NEW u \in Users, NEW v \in {"VERIFIED", "REJECTED"}, Verdict(u, v)
      PROVE  ProfilesApart'
  BY <1>14 DEF Verdict, Lockers, Uploads
<1>15. CASE UNCHANGED vars
  BY <1>15 DEF vars
<1>16. QED
  BY <1>1, <1>2, <1>3, <1>4, <1>5, <1>6, <1>7, <1>8, <1>9, <1>10, <1>11,
     <1>12, <1>13, <1>14, <1>15 DEF Next, Progress

\* A document's id is fresh when its call begins, and nobody else's until the end.
LEMMA DocumentsStep == IInv /\ [Next]_vars => DocumentsApart'
<1> SUFFICES ASSUME IInv, [Next]_vars PROVE DocumentsApart'
  OBVIOUS
<1> USE NobodyAssumption, NoDocAssumption, EntitiesAssumption, NoJobAssumption
        DEF IInv, DocumentsApart, CallInv, TypeOK, Writes, Job,
            InTransaction, HasTicket, Phases, tables
<1>1. ASSUME NEW s \in Sessions, NEW u \in Users, Apply(s, u)
      PROVE  DocumentsApart'
  BY <1>1 DEF Apply, Start
<1>2. ASSUME NEW s \in Sessions, NEW u \in Users, NEW d \in Docs, RequestUpload(s, u, d)
      PROVE  DocumentsApart'
  BY <1>2 DEF RequestUpload, Start
<1>3. ASSUME NEW s \in Sessions, FindProfile(s)
      PROVE  DocumentsApart'
  BY <1>3 DEF FindProfile, Answer, Step
<1>4. ASSUME NEW s \in Sessions, CreateProfile(s)
      PROVE  DocumentsApart'
  BY <1>4 DEF CreateProfile, Answer, Step, Inserting, Applies
<1>5. ASSUME NEW s \in Sessions, Mint(s)
      PROVE  DocumentsApart'
  BY <1>5 DEF Mint, Answer, Step
<1>6. ASSUME NEW s \in Sessions, OpenDocument(s)
      PROVE  DocumentsApart'
  BY <1>6 DEF OpenDocument, Step
<1>7. ASSUME NEW s \in Sessions, MoveToPending(s)
      PROVE  DocumentsApart'
  BY <1>7 DEF MoveToPending, Step, Movable, Lockers, Uploads
<1>8. ASSUME NEW s \in Sessions, ReadStatus(s)
      PROVE  DocumentsApart'
  BY <1>8 DEF ReadStatus, Step
<1>9. ASSUME NEW s \in Sessions, WriteAudit(s)
      PROVE  DocumentsApart'
  BY <1>9 DEF WriteAudit, Step
<1>10. ASSUME NEW s \in Sessions, Commit(s)
      PROVE  DocumentsApart'
  BY <1>10 DEF Commit, Answer, Entity
<1>11. ASSUME NEW s \in Sessions, DatabaseFails(s)
      PROVE  DocumentsApart'
  BY <1>11 DEF DatabaseFails, Answer
<1>12. ASSUME NEW s \in Sessions, PutBytes(s)
      PROVE  DocumentsApart'
  BY <1>12 DEF PutBytes
<1>13. ASSUME NEW s \in Sessions, Respond(s)
      PROVE  DocumentsApart'
  BY <1>13 DEF Respond
<1>14. ASSUME NEW u \in Users, NEW v \in {"VERIFIED", "REJECTED"}, Verdict(u, v)
      PROVE  DocumentsApart'
  BY <1>14 DEF Verdict, Lockers, Uploads
<1>15. CASE UNCHANGED vars
  BY <1>15 DEF vars
<1>16. QED
  BY <1>1, <1>2, <1>3, <1>4, <1>5, <1>6, <1>7, <1>8, <1>9, <1>10, <1>11,
     <1>12, <1>13, <1>14, <1>15 DEF Next, Progress

\* MoveToPending drafts a status only under the row's lock, and a verdict waits
\* for it, so the status under the lock stays a movable one.
LEMMA LockStep == IInv /\ [Next]_vars => StatusLocked'
<1> SUFFICES ASSUME IInv, [Next]_vars PROVE StatusLocked'
  OBVIOUS
<1> USE NobodyAssumption, NoDocAssumption, EntitiesAssumption, NoJobAssumption
        DEF IInv, StatusLocked, CallInv, TypeOK, Writes, Job,
            InTransaction, Movable, tables
<1>1. ASSUME NEW s \in Sessions, NEW u \in Users, Apply(s, u)
      PROVE  StatusLocked'
  BY <1>1 DEF Apply, Start
<1>2. ASSUME NEW s \in Sessions, NEW u \in Users, NEW d \in Docs, RequestUpload(s, u, d)
      PROVE  StatusLocked'
  BY <1>2 DEF RequestUpload, Start
<1>3. ASSUME NEW s \in Sessions, FindProfile(s)
      PROVE  StatusLocked'
  BY <1>3 DEF FindProfile, Answer, Step
<1>4. ASSUME NEW s \in Sessions, CreateProfile(s)
      PROVE  StatusLocked'
  BY <1>4 DEF CreateProfile, Answer, Step, Inserting, Applies
<1>5. ASSUME NEW s \in Sessions, Mint(s)
      PROVE  StatusLocked'
  <2>1. /\ "status" \notin draft'[s] /\ UNCHANGED <<kyc, job>>
        /\ \A t \in Sessions \ {s} : draft'[t] = draft[t]
    BY <1>5 DEF Mint, Answer, Step
  <2>2. QED
    BY <2>1
<1>6. ASSUME NEW s \in Sessions, OpenDocument(s)
      PROVE  StatusLocked'
  BY <1>6 DEF OpenDocument, Step
<1>7. ASSUME NEW s \in Sessions, MoveToPending(s)
      PROVE  StatusLocked'
  BY <1>7 DEF MoveToPending, Step, Lockers, Uploads
<1>8. ASSUME NEW s \in Sessions, ReadStatus(s)
      PROVE  StatusLocked'
  BY <1>8 DEF ReadStatus, Step
<1>9. ASSUME NEW s \in Sessions, WriteAudit(s)
      PROVE  StatusLocked'
  BY <1>9 DEF WriteAudit, Step
<1>10. ASSUME NEW s \in Sessions, Commit(s)
      PROVE  StatusLocked'
  BY <1>10 DEF Commit, Answer, Entity
<1>11. ASSUME NEW s \in Sessions, DatabaseFails(s)
      PROVE  StatusLocked'
  BY <1>11 DEF DatabaseFails, Answer
<1>12. ASSUME NEW s \in Sessions, PutBytes(s)
      PROVE  StatusLocked'
  BY <1>12 DEF PutBytes, HasTicket
<1>13. ASSUME NEW s \in Sessions, Respond(s)
      PROVE  StatusLocked'
  BY <1>13 DEF Respond
<1>14. ASSUME NEW u \in Users, NEW v \in {"VERIFIED", "REJECTED"}, Verdict(u, v)
      PROVE  StatusLocked'
  BY <1>14 DEF Verdict, Lockers, Uploads
<1>15. CASE UNCHANGED vars
  BY <1>15 DEF vars
<1>16. QED
  BY <1>1, <1>2, <1>3, <1>4, <1>5, <1>6, <1>7, <1>8, <1>9, <1>10, <1>11,
     <1>12, <1>13, <1>14, <1>15 DEF Next, Progress

\* An upload that moved nothing found its user out of NONE, and nobody goes back.
LEMMA ReviewStep == IInv /\ [Next]_vars => ReviewInv'
<1> SUFFICES ASSUME IInv, [Next]_vars PROVE ReviewInv'
  OBVIOUS
<1> USE NobodyAssumption, NoDocAssumption, EntitiesAssumption, NoJobAssumption
        DEF IInv, ReviewInv, CallInv, TypeOK, Writes, Job,
            InTransaction, KycStatus, Movable, StatusLocked, tables
<1>1. ASSUME NEW s \in Sessions, NEW u \in Users, Apply(s, u)
      PROVE  ReviewInv'
  BY <1>1 DEF Apply, Start
<1>2. ASSUME NEW s \in Sessions, NEW u \in Users, NEW d \in Docs, RequestUpload(s, u, d)
      PROVE  ReviewInv'
  BY <1>2 DEF RequestUpload, Start
<1>3. ASSUME NEW s \in Sessions, FindProfile(s)
      PROVE  ReviewInv'
  BY <1>3 DEF FindProfile, Answer, Step
<1>4. ASSUME NEW s \in Sessions, CreateProfile(s)
      PROVE  ReviewInv'
  BY <1>4 DEF CreateProfile, Answer, Step, Inserting, Applies
<1>5. ASSUME NEW s \in Sessions, Mint(s)
      PROVE  ReviewInv'
  BY <1>5 DEF Mint, Answer, Step
<1>6. ASSUME NEW s \in Sessions, OpenDocument(s)
      PROVE  ReviewInv'
  BY <1>6 DEF OpenDocument, Step
<1>7. ASSUME NEW s \in Sessions, MoveToPending(s)
      PROVE  ReviewInv'
  BY <1>7 DEF MoveToPending, Step, Lockers, Uploads
<1>8. ASSUME NEW s \in Sessions, ReadStatus(s)
      PROVE  ReviewInv'
  BY <1>8 DEF ReadStatus, Step
<1>9. ASSUME NEW s \in Sessions, WriteAudit(s)
      PROVE  ReviewInv'
  BY <1>9 DEF WriteAudit, Step
<1>10. ASSUME NEW s \in Sessions, Commit(s)
      PROVE  ReviewInv'
  BY <1>10 DEF Commit, Answer, Entity
<1>11. ASSUME NEW s \in Sessions, DatabaseFails(s)
      PROVE  ReviewInv'
  BY <1>11 DEF DatabaseFails, Answer
<1>12. ASSUME NEW s \in Sessions, PutBytes(s)
      PROVE  ReviewInv'
  BY <1>12 DEF PutBytes, HasTicket
<1>13. ASSUME NEW s \in Sessions, Respond(s)
      PROVE  ReviewInv'
  BY <1>13 DEF Respond
<1>14. ASSUME NEW u \in Users, NEW v \in {"VERIFIED", "REJECTED"}, Verdict(u, v)
      PROVE  ReviewInv'
  BY <1>14 DEF Verdict, Lockers, Uploads
<1>15. CASE UNCHANGED vars
  BY <1>15 DEF vars
<1>16. QED
  BY <1>1, <1>2, <1>3, <1>4, <1>5, <1>6, <1>7, <1>8, <1>9, <1>10, <1>11,
     <1>12, <1>13, <1>14, <1>15 DEF Next, Progress

\* Only a commit changes the audit log, and it adds the one row of what it adds.
LEMMA EvidenceStep == IInv /\ [Next]_vars => EvidenceMatchesActs'
<1> SUFFICES ASSUME IInv, [Next]_vars PROVE EvidenceMatchesActs'
  OBVIOUS
<1> USE NobodyAssumption, NoDocAssumption, EntitiesAssumption, NoJobAssumption
        DEF IInv, EvidenceMatchesActs, CallInv, ProfilesApart,
            DocumentsApart, TypeOK, Writes, Job, Entity, tables
<1>1. ASSUME NEW s \in Sessions, NEW u \in Users, Apply(s, u)
      PROVE  EvidenceMatchesActs'
  BY <1>1 DEF Apply, Start
<1>2. ASSUME NEW s \in Sessions, NEW u \in Users, NEW d \in Docs, RequestUpload(s, u, d)
      PROVE  EvidenceMatchesActs'
  BY <1>2 DEF RequestUpload, Start
<1>3. ASSUME NEW s \in Sessions, FindProfile(s)
      PROVE  EvidenceMatchesActs'
  BY <1>3 DEF FindProfile, Answer, Step
<1>4. ASSUME NEW s \in Sessions, CreateProfile(s)
      PROVE  EvidenceMatchesActs'
  BY <1>4 DEF CreateProfile, Answer, Step, Inserting, Applies
<1>5. ASSUME NEW s \in Sessions, Mint(s)
      PROVE  EvidenceMatchesActs'
  BY <1>5 DEF Mint, Answer, Step
<1>6. ASSUME NEW s \in Sessions, OpenDocument(s)
      PROVE  EvidenceMatchesActs'
  BY <1>6 DEF OpenDocument, Step
<1>7. ASSUME NEW s \in Sessions, MoveToPending(s)
      PROVE  EvidenceMatchesActs'
  BY <1>7 DEF MoveToPending, Step, Movable, Lockers, Uploads
<1>8. ASSUME NEW s \in Sessions, ReadStatus(s)
      PROVE  EvidenceMatchesActs'
  BY <1>8 DEF ReadStatus, Step
<1>9. ASSUME NEW s \in Sessions, WriteAudit(s)
      PROVE  EvidenceMatchesActs'
  BY <1>9 DEF WriteAudit, Step
<1>10. ASSUME NEW s \in Sessions, Commit(s)
      PROVE  EvidenceMatchesActs'
  <2>1. /\ job[s] \in Job /\ "row" \in draft[s] /\ "audit" \in draft[s]
        /\ Entity(s) \in Users \cup Docs
    BY <1>10 DEF Commit
  <2>2. audit' = [audit EXCEPT ![Entity(s)] = @ + 1]
    BY <1>10, <2>1 DEF Commit
  <2>3. CASE job[s].doc = NoDoc
    <3>1. Entity(s) = job[s].user /\ job[s].user \in Users /\ ~profile[job[s].user]
      BY <2>1, <2>3
    <3>2. \A e \in Docs : document'[e] = document[e]
      BY <1>10, <2>3 DEF Commit
    <3>3. /\ profile'[job[s].user]
          /\ \A u \in Users \ {job[s].user} : profile'[u] = profile[u]
      BY <1>10, <2>3, <3>1 DEF Commit
    <3>4. audit'[job[s].user] = 1
      BY <2>2, <3>1
    <3>5. \A e \in (Users \cup Docs) \ {job[s].user} : audit'[e] = audit[e]
      BY <2>2, <3>1
    <3>6. \A u \in Users : audit'[u] = IF profile'[u] THEN 1 ELSE 0
      BY <3>1, <3>3, <3>4, <3>5
    <3>7. \A d \in Docs : audit'[d] = IF document'[d] # Nobody THEN 1 ELSE 0
      BY <3>1, <3>2, <3>5
    <3>8. QED
      BY <3>6, <3>7
  <2>4. CASE job[s].doc # NoDoc
    <3>1. /\ Entity(s) = job[s].doc /\ job[s].doc \in Docs /\ job[s].user \in Users
          /\ document[job[s].doc] = Nobody
      BY <1>10, <2>1, <2>4 DEF Commit
    <3>2. \A u \in Users : profile'[u] = profile[u]
      BY <1>10, <2>4 DEF Commit
    <3>3. document' = [document EXCEPT ![job[s].doc] = job[s].user]
      BY <1>10, <3>1 DEF Commit
    <3>4. QED
      BY <2>2, <3>1, <3>2, <3>3
  <2>5. QED
    BY <2>3, <2>4
<1>11. ASSUME NEW s \in Sessions, DatabaseFails(s)
      PROVE  EvidenceMatchesActs'
  BY <1>11 DEF DatabaseFails, Answer
<1>12. ASSUME NEW s \in Sessions, PutBytes(s)
      PROVE  EvidenceMatchesActs'
  BY <1>12 DEF PutBytes, HasTicket
<1>13. ASSUME NEW s \in Sessions, Respond(s)
      PROVE  EvidenceMatchesActs'
  BY <1>13 DEF Respond
<1>14. ASSUME NEW u \in Users, NEW v \in {"VERIFIED", "REJECTED"}, Verdict(u, v)
      PROVE  EvidenceMatchesActs'
  BY <1>14 DEF Verdict, Lockers, Uploads
<1>15. CASE UNCHANGED vars
  BY <1>15 DEF vars
<1>16. QED
  BY <1>1, <1>2, <1>3, <1>4, <1>5, <1>6, <1>7, <1>8, <1>9, <1>10, <1>11,
     <1>12, <1>13, <1>14, <1>15 DEF Next, Progress

\* A commit of a document moves its user, or the user has already moved.
LEMMA OpenedStep == IInv /\ [Next]_vars => OpenedIsUnderReview'
<1> SUFFICES ASSUME IInv, [Next]_vars PROVE OpenedIsUnderReview'
  OBVIOUS
<1> USE NobodyAssumption, NoDocAssumption, EntitiesAssumption, NoJobAssumption
        DEF IInv, OpenedIsUnderReview, HasTicket, ReviewInv, CallInv,
            DocumentsApart, TypeOK, Writes, Job, KycStatus,
            InTransaction, Movable, tables
<1>1. ASSUME NEW s \in Sessions, NEW u \in Users, Apply(s, u)
      PROVE  OpenedIsUnderReview'
  BY <1>1 DEF Apply, Start
<1>2. ASSUME NEW s \in Sessions, NEW u \in Users, NEW d \in Docs, RequestUpload(s, u, d)
      PROVE  OpenedIsUnderReview'
  BY <1>2 DEF RequestUpload, Start
<1>3. ASSUME NEW s \in Sessions, FindProfile(s)
      PROVE  OpenedIsUnderReview'
  BY <1>3 DEF FindProfile, Answer, Step
<1>4. ASSUME NEW s \in Sessions, CreateProfile(s)
      PROVE  OpenedIsUnderReview'
  BY <1>4 DEF CreateProfile, Answer, Step, Inserting, Applies
<1>5. ASSUME NEW s \in Sessions, Mint(s)
      PROVE  OpenedIsUnderReview'
  BY <1>5 DEF Mint, Answer, Step
<1>6. ASSUME NEW s \in Sessions, OpenDocument(s)
      PROVE  OpenedIsUnderReview'
  BY <1>6 DEF OpenDocument, Step
<1>7. ASSUME NEW s \in Sessions, MoveToPending(s)
      PROVE  OpenedIsUnderReview'
  BY <1>7 DEF MoveToPending, Step, Lockers, Uploads
<1>8. ASSUME NEW s \in Sessions, ReadStatus(s)
      PROVE  OpenedIsUnderReview'
  BY <1>8 DEF ReadStatus, Step
<1>9. ASSUME NEW s \in Sessions, WriteAudit(s)
      PROVE  OpenedIsUnderReview'
  BY <1>9 DEF WriteAudit, Step
<1>10. ASSUME NEW s \in Sessions, Commit(s)
      PROVE  OpenedIsUnderReview'
  BY <1>10 DEF Commit, Answer, Entity
<1>11. ASSUME NEW s \in Sessions, DatabaseFails(s)
      PROVE  OpenedIsUnderReview'
  BY <1>11 DEF DatabaseFails, Answer
<1>12. ASSUME NEW s \in Sessions, PutBytes(s)
      PROVE  OpenedIsUnderReview'
  BY <1>12 DEF PutBytes
<1>13. ASSUME NEW s \in Sessions, Respond(s)
      PROVE  OpenedIsUnderReview'
  BY <1>13 DEF Respond
<1>14. ASSUME NEW u \in Users, NEW v \in {"VERIFIED", "REJECTED"}, Verdict(u, v)
      PROVE  OpenedIsUnderReview'
  BY <1>14 DEF Verdict, Lockers, Uploads
<1>15. CASE UNCHANGED vars
  BY <1>15 DEF vars
<1>16. QED
  BY <1>1, <1>2, <1>3, <1>4, <1>5, <1>6, <1>7, <1>8, <1>9, <1>10, <1>11,
     <1>12, <1>13, <1>14, <1>15 DEF Next, Progress

\* Bytes are put with a signed URL, and it comes only after its row is committed.
LEMMA UploadStep == IInv /\ [Next]_vars => UploadHasARow'
<1> SUFFICES ASSUME IInv, [Next]_vars PROVE UploadHasARow'
  OBVIOUS
<1> USE NobodyAssumption, NoDocAssumption, EntitiesAssumption, NoJobAssumption
        DEF IInv, UploadHasARow, DocumentsApart, HasTicket, CallInv,
            TypeOK, Job, tables
<1>1. ASSUME NEW s \in Sessions, NEW u \in Users, Apply(s, u)
      PROVE  UploadHasARow'
  BY <1>1 DEF Apply, Start
<1>2. ASSUME NEW s \in Sessions, NEW u \in Users, NEW d \in Docs, RequestUpload(s, u, d)
      PROVE  UploadHasARow'
  BY <1>2 DEF RequestUpload, Start
<1>3. ASSUME NEW s \in Sessions, FindProfile(s)
      PROVE  UploadHasARow'
  BY <1>3 DEF FindProfile, Answer, Step
<1>4. ASSUME NEW s \in Sessions, CreateProfile(s)
      PROVE  UploadHasARow'
  BY <1>4 DEF CreateProfile, Answer, Step, Inserting, Applies
<1>5. ASSUME NEW s \in Sessions, Mint(s)
      PROVE  UploadHasARow'
  BY <1>5 DEF Mint, Answer, Step
<1>6. ASSUME NEW s \in Sessions, OpenDocument(s)
      PROVE  UploadHasARow'
  BY <1>6 DEF OpenDocument, Step
<1>7. ASSUME NEW s \in Sessions, MoveToPending(s)
      PROVE  UploadHasARow'
  BY <1>7 DEF MoveToPending, Step, Movable, Lockers, Uploads
<1>8. ASSUME NEW s \in Sessions, ReadStatus(s)
      PROVE  UploadHasARow'
  BY <1>8 DEF ReadStatus, Step
<1>9. ASSUME NEW s \in Sessions, WriteAudit(s)
      PROVE  UploadHasARow'
  BY <1>9 DEF WriteAudit, Step
<1>10. ASSUME NEW s \in Sessions, Commit(s)
      PROVE  UploadHasARow'
  BY <1>10 DEF Commit, Answer, Entity
<1>11. ASSUME NEW s \in Sessions, DatabaseFails(s)
      PROVE  UploadHasARow'
  BY <1>11 DEF DatabaseFails, Answer
<1>12. ASSUME NEW s \in Sessions, PutBytes(s)
      PROVE  UploadHasARow'
  BY <1>12 DEF PutBytes
<1>13. ASSUME NEW s \in Sessions, Respond(s)
      PROVE  UploadHasARow'
  BY <1>13 DEF Respond
<1>14. ASSUME NEW u \in Users, NEW v \in {"VERIFIED", "REJECTED"}, Verdict(u, v)
      PROVE  UploadHasARow'
  BY <1>14 DEF Verdict, Lockers, Uploads
<1>15. CASE UNCHANGED vars
  BY <1>15 DEF vars
<1>16. QED
  BY <1>1, <1>2, <1>3, <1>4, <1>5, <1>6, <1>7, <1>8, <1>9, <1>10, <1>11,
     <1>12, <1>13, <1>14, <1>15 DEF Next, Progress
-----------------------------------------------------------------------------
\* The invariant holds at first and every step keeps it.
THEOREM Inductive == Spec => []IInv
<1>1. IInv /\ [Next]_vars => IInv'
  BY TypeStep, CallStep, ProfilesStep, DocumentsStep, LockStep, ReviewStep,
     EvidenceStep, OpenedStep, UploadStep DEF IInv
<1>2. QED
  BY InitIInv, <1>1, PTL DEF Spec

\* Every reachable state is type correct.
THEOREM TypeCorrect == Spec => []TypeOK
<1>1. IInv => TypeOK
  BY DEF IInv
<1>2. QED
  BY <1>1, Inductive, PTL

\* One audit row for each profile and each document, and none besides: the row is
\* written by the transaction that does what it says.
THEOREM EvidenceIsKept == Spec => []EvidenceMatchesActs
<1>1. IInv => EvidenceMatchesActs
  BY DEF IInv
<1>2. QED
  BY <1>1, Inductive, PTL

\* A committed document has a user who is or has been under review.
THEOREM DocumentsAreReviewed == Spec => []OpenedIsUnderReview
<1>1. IInv => OpenedIsUnderReview
  BY DEF IInv
<1>2. QED
  BY <1>1, Inductive, PTL

\* No bytes reach the bucket without a row of kyc_documents.
THEOREM BytesHaveAnOwner == Spec => []UploadHasARow
<1>1. IInv => UploadHasARow
  BY DEF IInv
<1>2. QED
  BY <1>1, Inductive, PTL

\* A commit that puts its user under review finds the status its updateMany found:
\* a verdict in between has waited for the lock.
THEOREM VerificationIsKept == Spec => NeverUnverifiedByUpload
<1> DEFINE A == \A u \in Users :
                    kyc[u] # "PENDING" /\ kyc'[u] = "PENDING"
                        => kyc[u] \in {"NONE", "REJECTED"}
<1>1. ASSUME IInv, Next
      PROVE  A
  <2>1. ASSUME NEW s \in Sessions, Commit(s)
        PROVE  A
    BY <1>1, <2>1 DEF Commit, IInv, StatusLocked, TypeOK
  <2>2. ASSUME NEW u \in Users, NEW v \in {"VERIFIED", "REJECTED"}, Verdict(u, v)
        PROVE  A
    BY <1>1, <2>2 DEF Verdict, IInv, TypeOK
  <2>3. CASE UNCHANGED kyc
    BY <2>3
  <2>4. QED
    BY <1>1, <2>1, <2>2, <2>3
       DEF Next, Progress, Apply, RequestUpload, Start, FindProfile, CreateProfile,
           Mint, OpenDocument, MoveToPending, ReadStatus, WriteAudit, DatabaseFails,
           PutBytes, Respond, Step, tables
<1>2. IInv /\ [Next]_vars => [A]_vars
  BY <1>1
<1>3. QED
  BY <1>2, Inductive, PTL DEF Spec, NeverUnverifiedByUpload, A
-----------------------------------------------------------------------------
(* Refinement: the acts on record.                                         *)

\* A profile somebody is told of is there; of documents DocumentsApart says so.
ServedInv ==
    \A s \in Sessions :
        reply[s] = "SERVED" =>
            /\ phase[s] = "answered"
            /\ job[s].doc = NoDoc => profile[job[s].user]

LEMMA InitServed == Init => ServedInv
BY DEF Init, ServedInv

LEMMA ServedStep == IInv /\ ServedInv /\ [Next]_vars => ServedInv'
<1> SUFFICES ASSUME IInv, ServedInv, [Next]_vars PROVE ServedInv'
  OBVIOUS
<1> USE NoDocAssumption, NoJobAssumption
        DEF IInv, ServedInv, CallInv, TypeOK, Job, InTransaction, FromSqlState, tables
\* A call that goes on has not been answered, and tells nobody anything.
<1>1. ASSUME NEW s \in Sessions, NEW from \in Phases \ {"answered"}, NEW to, NEW w,
             Step(s, from, to, w)
      PROVE  ServedInv'
  BY <1>1 DEF Step
<1>2. ASSUME NEW s \in Sessions, NEW code, code # "SERVED", Answer(s, code),
             UNCHANGED tables
      PROVE  ServedInv'
  BY <1>2 DEF Answer
<1>3. ASSUME NEW s \in Sessions, NEW j, NEW at, Start(s, j, at)
      PROVE  ServedInv'
  BY <1>3 DEF Start
<1>4. ASSUME NEW s \in Sessions, FindProfile(s)
      PROVE  ServedInv'
  <2>1. CASE Answer(s, "SERVED") /\ profile[job[s].user] /\ UNCHANGED tables
    BY <2>1 DEF Answer
  <2> QED BY <1>1, <1>4, <2>1 DEF FindProfile, Phases
<1>5. ASSUME NEW s \in Sessions, CreateProfile(s)
      PROVE  ServedInv'
  BY <1>1, <1>2, <1>5 DEF CreateProfile, Phases
<1>6. ASSUME NEW s \in Sessions, Mint(s)
      PROVE  ServedInv'
  BY <1>1, <1>2, <1>6 DEF Mint, Phases
<1>7. ASSUME NEW s \in Sessions,
             OpenDocument(s) \/ MoveToPending(s) \/ ReadStatus(s) \/ WriteAudit(s)
      PROVE  ServedInv'
  BY <1>1, <1>7 DEF OpenDocument, MoveToPending, ReadStatus, WriteAudit, Phases
<1>8. ASSUME NEW s \in Sessions, Commit(s)
      PROVE  ServedInv'
  <2>1. /\ phase' = [phase EXCEPT ![s] = "answered"] /\ UNCHANGED job
        /\ \E code : reply' = [reply EXCEPT ![s] = code]
    BY <1>8 DEF Commit, Answer
  <2>2. job[s] \in Job
    BY <1>8 DEF Commit
  <2>3. job[s].doc = NoDoc => profile'[job[s].user]
    BY <1>8, <2>2 DEF Commit
  <2>4. \A u \in Users : profile[u] => profile'[u]
    BY <1>8, <2>2 DEF Commit
  <2>5. \A t \in Sessions : t # s => reply'[t] = reply[t] /\ phase'[t] = phase[t]
    BY <2>1
  <2>6. \A t \in Sessions : reply[t] = "SERVED" => job[t] \in Job
    OBVIOUS
  <2> QED BY <2>1, <2>3, <2>4, <2>5, <2>6
<1>9. ASSUME NEW s \in Sessions, DatabaseFails(s)
      PROVE  ServedInv'
  BY <1>2, <1>9 DEF DatabaseFails
<1>10. ASSUME NEW s \in Sessions, PutBytes(s)
      PROVE  ServedInv'
  BY <1>10 DEF PutBytes
<1>11. ASSUME NEW s \in Sessions, Respond(s)
      PROVE  ServedInv'
  BY <1>11 DEF Respond
<1>12. ASSUME NEW u \in Users, NEW v \in {"VERIFIED", "REJECTED"}, Verdict(u, v)
      PROVE  ServedInv'
  BY <1>12 DEF Verdict
<1>13. CASE UNCHANGED vars
  BY <1>13 DEF vars
<1> HIDE DEF IInv, ServedInv, CallInv, TypeOK, Job, InTransaction, FromSqlState, tables
<1> QED BY <1>3, <1>4, <1>5, <1>6, <1>7, <1>8, <1>9, <1>10, <1>11, <1>12, <1>13
        DEF Next, Progress, Apply, RequestUpload

\* What clients are told of is done.
LEMMA PromisesAreKept == IInv /\ ServedInv => Promised \subseteq Acts!Done
<1> SUFFICES ASSUME IInv, ServedInv, NEW s \in Sessions, reply[s] = "SERVED"
             PROVE  Entity(s) \in Acts!Done
  BY DEF Promised
<1>1. job[s] \in Job /\ phase[s] = "answered"
  BY DEF IInv, TypeOK, CallInv, ServedInv
<1>2. CASE job[s].doc = NoDoc
  BY <1>1, <1>2 DEF Entity, Acts!Done, ServedInv, Job
<1>3. CASE job[s].doc # NoDoc
  <2>1. HasTicket(s)
    BY <1>1, <1>3 DEF HasTicket
  <2> QED BY <1>1, <1>3, <2>1 DEF Entity, Acts!Done, IInv, DocumentsApart, Job
<1> QED BY <1>2, <1>3

\* A commit is one act: the draft is the whole of it, and its row was free.
LEMMA CommitIsAnAct ==
    ASSUME IInv, NEW s \in Sessions, Commit(s)
    PROVE  Acts!Act
<1> DEFINE u == job[s].user
           d == job[s].doc
<1>1. job[s] \in Job /\ "row" \in draft[s] /\ "audit" \in draft[s] /\ phase[s] = "commit"
  BY DEF IInv, TypeOK, CallInv, Commit
<1>2. u \in Users /\ d \in Docs \cup {NoDoc} /\ stored' = stored
  BY <1>1 DEF Job, Commit
<1>3. audit' = [audit EXCEPT ![Entity(s)] = @ + 1] /\ audit \in [Users \cup Docs -> Nat]
  BY <1>1 DEF Commit, IInv, TypeOK
<1>4. CASE d = NoDoc
  <2>1. ~profile[u] /\ Entity(s) = u /\ audit[u] = 0
    BY <1>1, <1>2, <1>4 DEF IInv, ProfilesApart, EvidenceMatchesActs, Entity
  <2>2. audit' = [audit EXCEPT ![u] = 1]
    BY <1>2, <1>3, <2>1
  <2>3. profile' = [profile EXCEPT ![u] = TRUE]
    BY <1>2, <1>4 DEF Commit, IInv, TypeOK
  <2>4. document' = document
    BY <1>4, NoDocAssumption DEF Commit, IInv, TypeOK
  <2>5. kyc' = kyc
    BY <1>1, <1>4 DEF Commit, IInv, TypeOK, CallInv
  <2>6. Acts!BecomeOwner(u)
    BY <1>2, <2>1, <2>2, <2>3, <2>4, <2>5 DEF Acts!BecomeOwner, Acts!Record
  <2> QED BY <1>2, <2>6 DEF Acts!Act
<1>5. CASE d # NoDoc
  <2>1. d \in Docs /\ document[d] = Nobody /\ Entity(s) = d /\ audit[d] = 0
    BY <1>1, <1>2, <1>5 DEF IInv, DocumentsApart, EvidenceMatchesActs, Entity
  <2>2. audit' = [audit EXCEPT ![d] = 1]
    BY <1>3, <2>1
  <2>3. document' = [document EXCEPT ![d] = u]
    BY <2>1 DEF Commit, IInv, TypeOK
  <2>4. profile' = profile
    BY <1>2, <1>5 DEF Commit, IInv, TypeOK
  <2>5. \/ kyc[u] \in {"NONE", "REJECTED"} /\ kyc' = [kyc EXCEPT ![u] = "PENDING"]
        \/ kyc[u] # "NONE" /\ UNCHANGED kyc
    <3>1. CASE "status" \in draft[s]
      BY <3>1 DEF Commit, IInv, StatusLocked
    <3>2. CASE "status" \notin draft[s]
      <4>1. kyc[u] # "NONE"
        BY <1>1, <1>5, <3>2, NoJobAssumption DEF IInv, ReviewInv
      <4>2. kyc' = kyc
        BY <3>2 DEF Commit, IInv, TypeOK
      <4> QED BY <4>1, <4>2
    <3> QED BY <3>1, <3>2
  <2>6. Acts!OpenDocument(u, d)
    BY <1>2, <2>1, <2>2, <2>3, <2>4, <2>5 DEF Acts!OpenDocument, Acts!Record
  <2> QED BY <1>2, <2>1, <2>6 DEF Acts!Act
<1> QED BY <1>4, <1>5

\* Every step is an act on record or none, and keeps its promises.
LEMMA ActsStep ==
    IInv /\ ServedInv /\ IInv' /\ ServedInv' /\ [Next]_vars => [Acts!Next]_(Acts!vars)
<1> SUFFICES ASSUME IInv, ServedInv, IInv', ServedInv', [Next]_vars
             PROVE  Acts!Next \/ UNCHANGED Acts!vars
  OBVIOUS
<1>1. (Promised \subseteq Acts!Done)'
  BY PromisesAreKept, PTL
<1>2. Acts!Act \/ UNCHANGED Acts!record
  <2>1. ASSUME NEW s \in Sessions, PutBytes(s) PROVE Acts!Act
    <3>1. job[s].doc \in Docs /\ job[s].doc \in Promised
      BY <2>1 DEF PutBytes, HasTicket, Promised, Entity, IInv, TypeOK, CallInv, Job
    <3>2. Acts!Store(job[s].doc)
      BY <2>1, <3>1 DEF PutBytes, tables, Acts!Store
    <3> QED BY <3>1, <3>2 DEF Acts!Act
  <2>2. ASSUME NEW u \in Users, NEW v \in {"VERIFIED", "REJECTED"}, Verdict(u, v)
        PROVE  Acts!Act
    BY <2>2 DEF Verdict, Acts!Decide, Acts!Act
  <2>3. ASSUME NEW s \in Sessions,
               \/ \E u \in Users : Apply(s, u)
               \/ \E u \in Users, d \in Docs : RequestUpload(s, u, d)
               \/ FindProfile(s) \/ CreateProfile(s) \/ Mint(s) \/ OpenDocument(s)
               \/ MoveToPending(s) \/ ReadStatus(s) \/ WriteAudit(s)
               \/ DatabaseFails(s) \/ Respond(s)
        PROVE  UNCHANGED Acts!record
    BY <2>3 DEF Apply, RequestUpload, Start, FindProfile, CreateProfile, Mint, OpenDocument,
                MoveToPending, ReadStatus, WriteAudit, DatabaseFails, Respond, Step,
                tables, Acts!record
  <2>4. CASE UNCHANGED vars
    BY <2>4 DEF vars, tables, Acts!record
  <2> QED BY <2>1, <2>2, <2>3, <2>4, CommitIsAnAct DEF Next, Progress
<1> QED BY <1>1, <1>2 DEF Acts!Next

\* Applying and opening a document are atomic acts with their evidence, whatever the
\* transactions that carry them go through, and answers are true.
THEOREM WritesImplementTheActs == Spec => ImplementsActs
<1>1. Init => Acts!Init
  <2> SUFFICES ASSUME Init PROVE Acts!Init
    OBVIOUS
  <2>1. Promised = {}
    BY DEF Init, Promised
  <2> QED BY <2>1 DEF Init, Acts!Init
<1>2. QED
  BY <1>1, InitServed, ServedStep, ActsStep, Inductive, PTL DEF Spec, ImplementsActs, Acts!Spec
-----------------------------------------------------------------------------
(* Why nobody waits for ever, as far as safety goes.                       *)

\* Whom a call's next statement waits for.
Blockers(s) ==
    IF phase[s] = "create" THEN Inserting(s, job[s].user)
    ELSE IF phase[s] = "move" THEN Lockers(job[s].user)
    ELSE {}

\* Who holds a key or a row lock waits for nothing any more, and has only its own reads,
\* its audit row and its commit before it: waits are one deep and have no cycle, though
\* an application and an upload take different locks (privileged-writes.service.ts, both
\* transactions).  EveryWriteEnds rests on it.
HoldersDoNotWait ==
    \A s \in Sessions : \A t \in Blockers(s) :
        phase[t] \in {"read", "audit", "commit"} /\ Blockers(t) = {}

THEOREM WaitsAreOneDeep == Spec => []HoldersDoNotWait
<1>1. IInv => HoldersDoNotWait
  <2> SUFFICES ASSUME IInv, NEW s \in Sessions, NEW t \in Blockers(s)
               PROVE  phase[t] \in {"read", "audit", "commit"} /\ Blockers(t) = {}
    BY DEF HoldersDoNotWait
  <2>1. CASE phase[s] = "create"
    <3>1. t \in Sessions /\ "row" \in draft[t] /\ job[t].doc = NoDoc /\ job[t] # NoJob
      BY <2>1, NoJobAssumption, NoDocAssumption
         DEF Blockers, Inserting, Applies, IInv, CallInv, TypeOK, Job, InTransaction
    <3>2. phase[t] \in {"audit", "commit"}
      BY <3>1 DEF IInv, CallInv
    <3> QED BY <3>2 DEF Blockers
  <2>2. CASE phase[s] = "move"
    <3>1. t \in Sessions /\ "status" \in draft[t]
      BY <2>2 DEF Blockers, Lockers
    <3>2. phase[t] \in {"read", "audit", "commit"}
      BY <3>1 DEF IInv, CallInv
    <3> QED BY <3>2 DEF Blockers
  <2> QED BY <2>1, <2>2 DEF Blockers
<1> QED BY Inductive, <1>1, PTL
=============================================================================
