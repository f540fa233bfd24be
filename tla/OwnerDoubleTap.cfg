\* One user taps twice.
CONSTANTS
    Sessions = {s1, s2}
    Users = {u1}
    Docs = {d1}
    NoDoc = NoDoc
    Nobody = Nobody
    NoJob = NoJob
SPECIFICATION Spec
INVARIANT DoubleTapIsNotAnError
