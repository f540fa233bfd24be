\* Two requests over two connections; the administrator may make Bob one of them.
\* Only safety is checked, so requests and connections may be permuted.
CONSTANTS
    Requests = {q1, q2}
    Connections = {c1, c2}
    NoConnection = NoConnection
    Users = {alice, bob}
    NoUser = NoUser
    Documents = {licence, passport}
    NoDocument = NoDocument
    Owner <- DocumentOwner
    Applied = {alice}
    InitialRole <- StartRole
    InitialKyc <- StartKyc
    Managed = {bob}
    Calls <- SomeCalls
    NoCall = NoCall
    NoActor = NoActor
    Unset = Unset
    alice = alice
    bob = bob
    licence = licence
    passport = passport
SPECIFICATION Spec
SYMMETRY Alike
INVARIANTS
    TypeOK
    AnsweredAsOneself
PROPERTIES
    ImplementsReads
