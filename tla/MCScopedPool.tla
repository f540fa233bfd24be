---------------------------- MODULE MCScopedPool ----------------------------
(***************************************************************************)
(* A small instance of ScopedPool for TLC.                                 *)
(***************************************************************************)
EXTENDS ScopedPool, TLC

CONSTANTS alice, bob, licence, passport    \* model values

\* Alice and Bob each have a document; Alice has applied to be an owner, too.
DocumentOwner == [d \in {licence, passport} |-> IF d = licence THEN alice ELSE bob]
StartRole == [u \in {alice, bob} |-> "RENTER"]
StartKyc == [u \in {alice, bob} |-> "PENDING"]

Ask(route, token, wanted) == [route |-> route, token |-> token, wanted |-> wanted]

\* Each route by somebody it serves and, over time, by somebody it refuses.
SomeCalls ==
    {Ask("read", u, licence) : u \in {alice, bob, NoUser}} \cup
    {Ask("read", bob, NoDocument), Ask("list", alice, NoDocument),
     Ask("list", bob, NoDocument), Ask("profile", alice, NoDocument),
     Ask("profile", bob, NoDocument), Ask("owner-only", bob, NoDocument),
     Ask("needs-kyc", bob, NoDocument)}

\* Requests are alike, and so are connections; no liveness is checked.
Alike == Permutations(Requests) \cup Permutations(Connections)
=============================================================================
