\* Two calls at once, again and again, two users, two documents.
CONSTANTS
    Sessions = {s1, s2}
    Users = {u1, u2}
    Docs = {d1, d2}
    NoDoc = NoDoc
    Nobody = Nobody
    NoJob = NoJob
SPECIFICATION FairSpec
INVARIANTS
    TypeOK
    EvidenceMatchesActs
    OpenedIsUnderReview
    UploadHasARow
PROPERTIES
    NeverUnverifiedByUpload
    ImplementsActs
    EveryWriteEnds
