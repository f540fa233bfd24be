\* The same instance, with the key set out of reach now and then.
CONSTANTS
    Requests = {q1, q2}
    Identities = {ann, ben}
    RawPhones = {n1, n1bare, n2}
    Numbers = {n1, n2}
    Digits <- SmallDigits
    Emails = {mail}
    Blank = Blank
    Calls <- SmallCalls
    NoToken = NoToken
    NoCall = NoCall
    UserIds = {u1, u2, u3}
    NoUser = NoUser
    Null = Null
    ann = ann
    ben = ben
    n1 = n1
    n1bare = n1bare
    n2 = n2
    mail = mail
SPECIFICATION Spec
INVARIANTS
    FaultIsNotUnauthenticated
