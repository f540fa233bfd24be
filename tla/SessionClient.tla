--------------------------- MODULE SessionClient ---------------------------
(***************************************************************************)
(* One page of the web app: the session store (session.ts), the calls that *)
(* share one refresh (api-client.ts), and signing in and out (auth.tsx),   *)
(* against the API and Supabase, which rotates refresh tokens.             *)
(*                                                                         *)
(* JavaScript runs from await to await, so every action is what happens    *)
(* between two answers of the network.  `inflight` is inFlightRefresh: a   *)
(* running refresh everybody waits for, or one that has settled and was    *)
(* never reset.                                                            *)
(***************************************************************************)
EXTENDS Integers

CONSTANTS Calls,     \* calls in progress on the page, each slot reused when over
          Sessions,  \* Supabase sessions, one per sign-in
          NoToken

\* The access and the refresh token of one answer of Supabase, named by how many
\* rotations they are behind: the live one, the one before, and those before that.
Token == [session : Sessions, behind : 0 .. 2]

ASSUME NoTokenAssumption == NoToken \notin Token

VARIABLES access,     \* the access token in memory, or NoToken
          stored,     \* the refresh token in localStorage, or NoToken
          inflight,   \* what inFlightRefresh holds
          actor,      \* does the app show somebody signed in
          page,       \* "loading" until AuthProvider has mounted
          kind,       \* [Calls -> which function made the call]
          phase,      \* [Calls -> what it awaits]
          bearer,     \* [Calls -> the token its request carries, or its answer brings]
          refreshed,  \* [Calls -> is it the retry]
          begun,      \* Supabase: the sessions that were begun
          revoked,    \* Supabase: those that were ended
          reuse,      \* Supabase: sessions whose previous token is still taken
          fresh       \* access tokens that have not expired

tokens == <<access, stored>>
supabase == <<begun, revoked, reuse, fresh>>
vars == <<tokens, inflight, actor, page, kind, phase, bearer, refreshed, supabase>>

Kinds == {"call", "restore", "me", "signin", "signout"}
Awaited == {"verify", "server", "waiting", "refresh"}
Answers == {"ok", "denied", "failed", "granted", "refused", "dropped"}

TypeOK ==
    /\ stored \in Token \cup {NoToken}
    /\ access \in {stored, NoToken}
    /\ inflight \in {"none", "running", "settled"}
    /\ actor \in BOOLEAN
    /\ page \in {"loading", "loaded"}
    /\ kind \in [Calls -> Kinds]
    /\ phase \in [Calls -> {"idle"} \cup Awaited \cup Answers]
    /\ bearer \in [Calls -> Token \cup {NoToken}]
    /\ refreshed \in [Calls -> BOOLEAN]
    /\ revoked \subseteq begun /\ begun \subseteq Sessions
    /\ reuse \subseteq Sessions
    /\ fresh \subseteq Token

Init ==
    /\ access = NoToken /\ stored = NoToken
    /\ inflight = "none"
    /\ actor = FALSE
    /\ page = "loading"
    /\ kind = [c \in Calls |-> "call"]
    /\ phase = [c \in Calls |-> "idle"]
    /\ bearer = [c \in Calls |-> NoToken]
    /\ refreshed = [c \in Calls |-> FALSE]
    /\ begun = {} /\ revoked = {} /\ reuse = {} /\ fresh = {}
-----------------------------------------------------------------------------
(* Supabase, and the API between it and the page.                          *)

Live(t) == t.session \in begun \ revoked

\* Rotation: the live token is replaced; the one before it still works for a while.
IsCurrent(t) == Live(t) /\ t.behind = 0
IsReused(t) == Live(t) /\ t.behind = 1 /\ t.session \in reuse

\* A token, after a rotation of session s.
Older(t, s) ==
    IF t # NoToken /\ t.session = s /\ t.behind < 2 THEN [t EXCEPT !.behind = @ + 1] ELSE t

\* The live token is exchanged for a new pair, the one before for the live one.
\* Access tokens two rotations old have expired by then.
Grant(c) ==
    LET s == bearer[c].session
        new == [session |-> s, behind |-> 0]
        Aged(t) == IF IsCurrent(bearer[c]) THEN Older(t, s) ELSE t
    IN  /\ access' = Aged(access)
        /\ stored' = Aged(stored)
        /\ bearer' = [d \in Calls |-> IF d = c THEN new ELSE Aged(bearer[d])]
        /\ fresh' = {new} \cup {t \in {Aged(f) : f \in fresh} : t.behind < 2}
        /\ reuse' = reuse \cup {s}
        /\ UNCHANGED <<begun, revoked>>

\* Time passes: access tokens expire, the reuse interval is over.
Age == fresh # {} /\ fresh' = {} /\ UNCHANGED <<begun, revoked, reuse>>
CloseWindow == reuse # {} /\ reuse' = {} /\ UNCHANGED <<begun, revoked, fresh>>

\* The session is ended from somewhere else.
Revoke == \E s \in begun \ revoked :
              revoked' = revoked \cup {s} /\ UNCHANGED <<begun, reuse, fresh>>

Elsewhere ==
    /\ Age \/ CloseWindow \/ Revoke
    /\ UNCHANGED <<tokens, inflight, actor, page, kind, phase, bearer, refreshed>>
-----------------------------------------------------------------------------
(* How a call ends.                                                        *)

Become(c, p) == phase' = [phase EXCEPT ![c] = p]

\* Mutated form: only what is in localStorage is forgotten.
ClearStorage(forget, pair) ==
    /\ access' = pair[1]
    /\ stored' = IF forget THEN NoToken ELSE pair[2]

\* clearSession, if forget.
Clear(forget, pair) ==
    /\ access' = IF forget THEN NoToken ELSE pair[1]
    /\ stored' = IF forget THEN NoToken ELSE pair[2]

\* call() and the function around it are over for all of D.  The catch of restore
\* and the finally of signOut forget the session; a failed refresh did before.
End(D, outcome, pair) ==
    LET forget == \E c \in D : \/ kind[c] = "signout"
                               \/ (kind[c] = "me" /\ outcome = "unauthenticated")
        welcome == (outcome = "ok") /\ \E c \in D : kind[c] \in {"me", "signin"}
        goodbye == forget \/ (outcome = "unauthenticated" /\ \E c \in D : kind[c] = "restore")
    IN  /\ Clear(forget, pair)
        /\ actor' = (~goodbye /\ (welcome \/ actor))
        /\ phase' = [c \in Calls |-> IF c \in D THEN "idle" ELSE phase[c]]
        /\ bearer' = [c \in Calls |-> IF c \in D THEN NoToken ELSE bearer[c]]
        /\ refreshed' = [c \in Calls |-> IF c \in D THEN FALSE ELSE refreshed[c]]
        /\ kind' = [c \in Calls |-> IF c \in D THEN "call" ELSE kind[c]]
        /\ UNCHANGED page

\* fetch, with the access token of this moment.
Request(D, token) ==
    /\ phase' = [c \in Calls |-> IF c \in D THEN "server" ELSE phase[c]]
    /\ bearer' = [c \in Calls |-> IF c \in D THEN token ELSE bearer[c]]

\* Mutated form: the retry is a call like any other.
RetryAgain(D) ==
    /\ refreshed' = [c \in Calls |-> IF c \in D THEN FALSE ELSE refreshed[c]]
    /\ kind' = [c \in Calls |-> IF c \in D /\ kind[c] = "restore" THEN "me" ELSE kind[c]]

\* call(path, options, true); restore goes on to api.me(), a call of its own.
Retry(D) ==
    /\ refreshed' = [c \in Calls |-> IF c \in D THEN kind[c] # "restore" ELSE refreshed[c]]
    /\ kind' = [c \in Calls |-> IF c \in D /\ kind[c] = "restore" THEN "me" ELSE kind[c]]

\* Mutated form: everybody refreshes for himself.
RefreshAlone(c) ==
    \/ /\ stored = NoToken
       /\ inflight' = "settled"
       /\ End({c}, "unauthenticated", tokens)
    \/ /\ stored # NoToken
       /\ inflight' = "running"
       /\ Become(c, "refresh")
       /\ bearer' = [bearer EXCEPT ![c] = stored]
       /\ UNCHANGED <<tokens, actor, kind, refreshed>>

\* refreshOnce, up to its first await: nothing to refresh with, join the refresh
\* that is running, or start one.  Without a refresh token the function returns
\* before the try, so its finally never takes the settled promise away again.
RefreshOnce(c) ==
    \/ /\ inflight = "settled" \/ (inflight = "none" /\ stored = NoToken)
       /\ inflight' = "settled"
       /\ End({c}, "unauthenticated", tokens)
    \/ /\ inflight = "running"
       /\ Become(c, "waiting")
       /\ UNCHANGED <<tokens, inflight, actor, kind, bearer, refreshed>>
    \/ /\ inflight = "none" /\ stored # NoToken
       /\ inflight' = "running"
       /\ Become(c, "refresh")
       /\ bearer' = [bearer EXCEPT ![c] = stored]
       /\ UNCHANGED <<tokens, actor, kind, refreshed>>

\* Mutated form: a refresh tells nobody else that it is over.
Alone(c) == {c}

\* The caller of the refresh and everyone who joined it.
Sharing(c) == {c} \cup {d \in Calls : phase[d] = "waiting"}
-----------------------------------------------------------------------------
(* What the page and its user start.                                       *)

\* AuthProvider mounts: restore().
Restore(c) ==
    /\ page = "loading" /\ page' = "loaded"
    /\ \/ /\ stored = NoToken
          /\ UNCHANGED <<tokens, inflight, actor, kind, phase, bearer, refreshed>>
       \/ /\ stored # NoToken
          /\ inflight' = "running"
          /\ Become(c, "refresh")
          /\ kind' = [kind EXCEPT ![c] = "restore"]
          /\ bearer' = [bearer EXCEPT ![c] = stored]
          /\ UNCHANGED <<tokens, actor, refreshed>>
    /\ UNCHANGED supabase

\* An api method that needs a session, and signOut.
Begin(c, k) ==
    /\ page = "loaded" /\ phase[c] = "idle"
    /\ k \in {"call", "signout"} /\ actor
    /\ kind' = [kind EXCEPT ![c] = k]
    /\ Request({c}, access)
    /\ UNCHANGED <<tokens, inflight, actor, page, refreshed, supabase>>

\* signIn: the code is exchanged for a session first.
SignIn(c) ==
    /\ page = "loaded" /\ phase[c] = "idle" /\ ~actor
    /\ \A d \in Calls : phase[d] # "idle" => kind[d] # "signin"
    /\ kind' = [kind EXCEPT ![c] = "signin"]
    /\ Become(c, "verify")
    /\ UNCHANGED <<tokens, inflight, actor, page, bearer, refreshed, supabase>>

\* The page is reloaded: memory is gone, answers under way are never read.
Reload ==
    /\ page = "loaded" /\ page' = "loading"
    /\ access' = NoToken /\ inflight' = "none" /\ actor' = FALSE
    /\ phase' = [c \in Calls |-> "idle"]
    /\ bearer' = [c \in Calls |-> NoToken]
    /\ refreshed' = [c \in Calls |-> FALSE]
    /\ kind' = [c \in Calls |-> "call"]
    /\ UNCHANGED <<stored, begun, revoked, reuse, fresh>>
-----------------------------------------------------------------------------
(* The other end.                                                          *)

\* A wrong code, or no answer.
VerifyFails(c) ==
    /\ phase[c] = "verify"
    /\ End({c}, "failed", tokens)
    /\ UNCHANGED <<inflight, supabase>>

\* verifyOtp, setSession, and on to api.me().
Verify(c) ==
    /\ phase[c] = "verify" /\ begun # Sessions
    /\ LET s == CHOOSE x \in Sessions : x \notin begun
           new == [session |-> s, behind |-> 0]
       IN  /\ access' = new /\ stored' = new
           /\ fresh' = fresh \cup {new}
           /\ Request({c}, new)
           /\ begun' = begun \cup {s}
    /\ UNCHANGED <<inflight, actor, page, kind, refreshed, revoked, reuse>>

\* The API takes any access token that has not expired.  Signing out ends the
\* session at Supabase, or fails to and is answered alike.
Serve(c) ==
    /\ phase[c] = "server"
    /\ Become(c, IF bearer[c] \in fresh THEN "ok" ELSE "denied")
    /\ \/ /\ kind[c] = "signout" /\ bearer[c] \in fresh
          /\ revoked' = revoked \cup {bearer[c].session}
       \/ UNCHANGED revoked
    /\ bearer' = [bearer EXCEPT ![c] = NoToken]
    /\ UNCHANGED <<tokens, inflight, actor, page, kind, refreshed, begun, reuse, fresh>>

\* A 5xx, a 429, or no answer at all.
Fail(c) ==
    /\ phase[c] = "server"
    /\ Become(c, "failed")
    /\ bearer' = [bearer EXCEPT ![c] = NoToken]
    /\ UNCHANGED <<tokens, inflight, actor, page, kind, refreshed, supabase>>

\* POST /auth/refresh with the token the browser had stored.
ServeRefresh(c) ==
    /\ phase[c] = "refresh"
    /\ \/ /\ IsCurrent(bearer[c]) \/ IsReused(bearer[c])
          /\ Grant(c)
          /\ Become(c, "granted") \/ Become(c, "dropped")
       \/ /\ ~IsCurrent(bearer[c]) /\ ~IsReused(bearer[c])
          /\ Become(c, "refused")
          /\ UNCHANGED <<tokens, bearer, supabase>>
    /\ UNCHANGED <<inflight, actor, page, kind, refreshed>>

RefreshFails(c) ==
    /\ phase[c] = "refresh"
    /\ Become(c, "dropped")
    /\ UNCHANGED <<tokens, inflight, actor, page, kind, bearer, refreshed, supabase>>
-----------------------------------------------------------------------------
(* Answers reach the page.                                                 *)

Succeed(c) ==
    /\ phase[c] = "ok"
    /\ End({c}, "ok", tokens)
    /\ UNCHANGED <<inflight, supabase>>

GiveUp(c) ==
    /\ phase[c] = "failed"
    /\ End({c}, "failed", tokens)
    /\ UNCHANGED <<inflight, supabase>>

\* A 401: refresh and try again, exactly once.
Denied(c) ==
    /\ phase[c] = "denied"
    /\ \/ refreshed[c] /\ End({c}, "unauthenticated", tokens) /\ UNCHANGED inflight
       \/ ~refreshed[c] /\ RefreshOnce(c) /\ UNCHANGED page
    /\ UNCHANGED supabase

\* setSession; everyone who shared the refresh goes on with the new token.
Renewed(c) ==
    /\ phase[c] = "granted"
    /\ access' = bearer[c] /\ stored' = bearer[c]
    /\ inflight' = "none"
    /\ Request(Sharing(c), bearer[c])
    /\ Retry(Sharing(c))
    /\ UNCHANGED <<actor, page, supabase>>

\* The catch: a refusal, a failure and a lost answer all clear the session.
NotRenewed(c) ==
    /\ phase[c] \in {"refused", "dropped"}
    /\ inflight' = "none"
    /\ End(Sharing(c), "unauthenticated", <<NoToken, NoToken>>)
    /\ UNCHANGED supabase

\* The network answers, and the page reads the answer.
Progress(c) ==
    \/ VerifyFails(c) \/ Verify(c)
    \/ Serve(c) \/ Fail(c) \/ ServeRefresh(c) \/ RefreshFails(c)
    \/ Succeed(c) \/ GiveUp(c) \/ Denied(c) \/ Renewed(c) \/ NotRenewed(c)

Next ==
    \/ \E c \in Calls :
          \/ Restore(c)
          \/ \E k \in {"call", "signout"} : Begin(c, k)
          \/ SignIn(c)
          \/ Progress(c)
    \/ Reload
    \/ Elsewhere

Spec == Init /\ [][Next]_vars

\* Every request is answered or fails, and the event loop goes on.
Fairness == \A c \in Calls : WF_vars(Progress(c))

FairSpec == Spec /\ Fairness
-----------------------------------------------------------------------------
(* Properties.                                                             *)

\* "Sharing the promise": the page never has a live session refused because it
\* spent one refresh token twice, however many calls meet a 401 at once.  Only a
\* page that was reloaded before it had read its new token may come too late.
RefusedOnlyWhenOver ==
    \A c \in Calls :
        phase[c] = "refused" /\ kind[c] # "restore" => bearer[c].session \in revoked

\* No call waits for a refresh that nobody is running.
WaitersHaveARefresh ==
    (\E c \in Calls : phase[c] = "waiting")
    => \E c \in Calls : phase[c] \in {"refresh", "granted", "refused", "dropped"}

\* "A spinner that never resolves": every call is over after one retry at the
\* most, though tokens keep expiring and sessions end in the meantime.
EveryCallSettles == \A c \in Calls : phase[c] # "idle" ~> phase[c] = "idle"

\* A 401 for want of a fresh access token is retried after a refresh whenever the
\* browser holds a refresh token.
StoredSessionIsTried ==
    [][\A c \in Calls :
          Denied(c) /\ ~refreshed[c] /\ stored # NoToken
          => phase'[c] \in {"refresh", "waiting"}]_vars
=============================================================================
