\* Two requests at once, again and again, two identities that share a number, two rows.
CONSTANTS
    Requests = {q1, q2}
    Identities = {ann, ben}
    RawPhones = {n1, n1bare, n2}
    Numbers = {n1, n2}
    Digits <- SmallDigits
    Emails = {mail}
    Blank = Blank
    Calls <- SmallCalls
    NoToken = NoToken
    NoCall = NoCall
    UserIds = {u1, u2, u3}
    NoUser = NoUser
    Null = Null
    ann = ann
    ben = ben
    n1 = n1
    n1bare = n1bare
    n2 = n2
    mail = mail
SPECIFICATION FairSpec
INVARIANTS
    TypeOK
    OneAccountEach
    ServedAsOneself
    ConflictIsAnothersContact
PROPERTIES
    AccountHolderIsNotRefused
    ImplementsFindOrCreate
    EveryRequestIsAnswered
