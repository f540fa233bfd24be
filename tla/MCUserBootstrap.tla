-------------------------- MODULE MCUserBootstrap --------------------------
(***************************************************************************)
(* A small instance of UserBootstrap for TLC.                              *)
(***************************************************************************)
EXTENDS UserBootstrap

CONSTANTS ann, ben,      \* identities
          n1, n1bare,    \* one number, with and without its +
          n2, mail       \* another number, an email address

\* Supabase sends numbers without the +; normalising a normal number keeps it.
SmallDigits == [p \in {n1, n1bare, n2} |-> IF p = n2 THEN n2 ELSE n1]

AToken(sub, phone, email, valid) ==
    [sub |-> sub, phone |-> phone, email |-> email, valid |-> valid]

To(token, public) == [token |-> token, public |-> public]

\* Ann by phone, and the same session after she added an email address; Ben by
\* phone, with her email address, and on a public route with her number in another
\* spelling; a token with no contact at all, a bad one, and none.
SmallCalls ==
    {To(AToken(ann, n1bare, Blank, TRUE), FALSE),
     To(AToken(ann, n1bare, mail, TRUE), FALSE),
     To(AToken(ben, n2, Blank, TRUE), FALSE),
     To(AToken(ben, n2, mail, TRUE), FALSE),
     To(AToken(ben, n1, Blank, TRUE), TRUE),
     To(AToken(ben, Blank, Blank, TRUE), FALSE),
     To(AToken(ann, n1bare, Blank, FALSE), FALSE),
     To(NoToken, TRUE)}
=============================================================================
