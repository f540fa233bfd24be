------------------------ MODULE SessionClientProofs ------------------------
(***************************************************************************)
(* The shared refresh of SessionClient, for any number of calls and of     *)
(* sign-ins.                                                               *)
(*                                                                         *)
(* The argument.  The promise is held exactly while one call refreshes     *)
(* (PromiseIsHeld, OneRefresh), so nobody waits for nothing.  A refresh    *)
(* starts only when none runs, and then the token the browser has stored   *)
(* is the live one of its session (StoredIsLive): whatever rotation made   *)
(* it older has been followed by its answer, or by the end of the session. *)
(***************************************************************************)
EXTENDS SessionClient, TLAPS

Refreshing(c) == phase[c] \in {"refresh", "granted", "refused", "dropped"}

OneRefresh == \A c, d \in Calls : Refreshing(c) /\ Refreshing(d) => c = d

PromiseIsHeld == inflight = "running" <=> \E c \in Calls : Refreshing(c)

WaitersShareIt == \A c \in Calls : phase[c] = "waiting" => inflight = "running"

LoadingIsQuiet ==
    page = "loading" => inflight = "none" /\ \A c \in Calls : phase[c] = "idle"

\* Only tokens of sessions that were begun are about.
TokensAreKnown ==
    /\ stored # NoToken => stored.session \in begun
    /\ \A c \in Calls : bearer[c] # NoToken => bearer[c].session \in begun
    /\ \A t \in fresh : t.session \in begun

RefreshCarriesOne ==
    \A c \in Calls : phase[c] \in {"refresh", "granted", "refused"} => bearer[c] # NoToken

\* Unless the page is being loaded or a refresh is under way, the stored token is live.
StoredIsLive ==
    stored # NoToken =>
       stored.behind = 0 \/ page = "loading" \/ \E c \in Calls : Refreshing(c)

\* And so is the one a refresh was begun with, unless it was begun by restore().
CarriedIsLive ==
    \A c \in Calls :
       /\ phase[c] = "refresh" /\ kind[c] # "restore" => bearer[c].behind = 0
       /\ phase[c] = "granted" => bearer[c].behind = 0

Promise == OneRefresh /\ PromiseIsHeld /\ WaitersShareIt /\ LoadingIsQuiet

Carried ==
    /\ TokensAreKnown /\ RefreshCarriesOne /\ StoredIsLive /\ CarriedIsLive
    /\ RefusedOnlyWhenOver

IInv == TypeOK /\ Promise /\ Carried
-----------------------------------------------------------------------------
(* Types.                                                                  *)

LEMMA OlderType ==
    ASSUME NEW t \in Token \cup {NoToken}, NEW s
    PROVE  /\ Older(t, s) \in Token \cup {NoToken}
           /\ t = NoToken => Older(t, s) = NoToken
           /\ t # NoToken => Older(t, s) # NoToken /\ Older(t, s).session = t.session
           /\ t # NoToken /\ t.session # s => Older(t, s) = t
<1>1. CASE t # NoToken /\ t.session = s /\ t.behind < 2
  <2>1. t \in Token
    BY <1>1
  <2>2. /\ [t EXCEPT !.behind = @ + 1] \in Token
        /\ [t EXCEPT !.behind = @ + 1].session = t.session
    BY <1>1, <2>1 DEF Token
  <2> QED BY <1>1, <2>1, <2>2, NoTokenAssumption DEF Older
<1>2. CASE ~(t # NoToken /\ t.session = s /\ t.behind < 2)
  BY <1>2 DEF Older
<1> QED BY <1>1, <1>2

\* What a call leaves when it is over.
LEMMA EndType ==
    ASSUME TypeOK, NEW D, D \subseteq Calls, NEW outcome, NEW pair,
           pair = tokens \/ pair = <<NoToken, NoToken>>, End(D, outcome, pair)
    PROVE  /\ stored' \in Token \cup {NoToken} /\ access' \in {stored', NoToken}
           /\ stored' = stored \/ stored' = NoToken
           /\ actor' \in BOOLEAN /\ page' = page
           /\ kind' \in [Calls -> Kinds]
           /\ phase' \in [Calls -> {"idle"} \cup Awaited \cup Answers]
           /\ bearer' \in [Calls -> Token \cup {NoToken}]
           /\ refreshed' \in [Calls -> BOOLEAN]
           /\ \A c \in Calls : phase'[c] = IF c \in D THEN "idle" ELSE phase[c]
           /\ \A c \in Calls : bearer'[c] = IF c \in D THEN NoToken ELSE bearer[c]
           /\ \A c \in Calls : kind'[c] = IF c \in D THEN "call" ELSE kind[c]
<1>1. stored' \in {stored, NoToken} /\ access' \in {stored', NoToken}
      /\ stored' \in Token \cup {NoToken}
  BY DEF End, Clear, TypeOK, tokens
<1>2. actor' \in BOOLEAN /\ page' = page
  BY DEF End
<1>3. /\ kind' \in [Calls -> Kinds]
      /\ phase' \in [Calls -> {"idle"} \cup Awaited \cup Answers]
  BY DEF End, TypeOK, Kinds
<1>4. bearer' \in [Calls -> Token \cup {NoToken}]
  BY DEF End, TypeOK
<1>5. refreshed' \in [Calls -> BOOLEAN]
  BY DEF End, TypeOK
<1>6. /\ \A c \in Calls : phase'[c] = IF c \in D THEN "idle" ELSE phase[c]
      /\ \A c \in Calls : bearer'[c] = IF c \in D THEN NoToken ELSE bearer[c]
      /\ \A c \in Calls : kind'[c] = IF c \in D THEN "call" ELSE kind[c]
  BY DEF End
<1> QED BY <1>1, <1>2, <1>3, <1>4, <1>5, <1>6

\* What a grant does to the tokens that are about.
LEMMA GrantType ==
    ASSUME TypeOK, TokensAreKnown, NEW c \in Calls, bearer[c] # NoToken, Grant(c)
    PROVE  /\ stored' \in Token \cup {NoToken} /\ access' \in {stored', NoToken}
           /\ stored' # NoToken => stored # NoToken /\ stored'.session = stored.session
           /\ bearer' \in [Calls -> Token \cup {NoToken}]
           /\ bearer'[c] = [session |-> bearer[c].session, behind |-> 0]
           /\ \A d \in Calls : bearer[d] = NoToken => d = c \/ bearer'[d] = NoToken
           /\ \A d \in Calls : bearer[d] # NoToken =>
                 bearer'[d] # NoToken /\ bearer'[d].session = bearer[d].session
           /\ fresh' \subseteq Token /\ \A t \in fresh' : t.session \in begun
           /\ reuse' \subseteq Sessions
           /\ begun' = begun /\ revoked' = revoked
<1> DEFINE s == bearer[c].session
           new == [session |-> s, behind |-> 0]
           Aged(t) == IF IsCurrent(bearer[c]) THEN Older(t, s) ELSE t
<1>1. bearer[c] \in Token /\ s \in Sessions /\ s \in begun
  BY DEF TypeOK, TokensAreKnown, Token
<1>2. new \in Token /\ new.session = s /\ new.behind = 0 /\ new # NoToken
  BY <1>1, NoTokenAssumption DEF Token
<1>3. ASSUME NEW t \in Token \cup {NoToken}
      PROVE  /\ Aged(t) \in Token \cup {NoToken}
             /\ t = NoToken => Aged(t) = NoToken
             /\ t # NoToken => Aged(t) # NoToken /\ Aged(t).session = t.session
  BY OlderType
<1>4. /\ access' = Aged(access) /\ stored' = Aged(stored)
      /\ bearer' = [d \in Calls |-> IF d = c THEN new ELSE Aged(bearer[d])]
      /\ fresh' = {new} \cup {t \in {Aged(f) : f \in fresh} : t.behind < 2}
      /\ reuse' = reuse \cup {s} /\ begun' = begun /\ revoked' = revoked
  BY DEF Grant
<1> HIDE DEF s, new, Aged
<1>5. stored \in Token \cup {NoToken} /\ access \in {stored, NoToken}
      /\ bearer \in [Calls -> Token \cup {NoToken}] /\ fresh \subseteq Token
      /\ reuse \subseteq Sessions
  BY DEF TypeOK
<1>6. /\ stored' \in Token \cup {NoToken} /\ access' \in {stored', NoToken}
      /\ stored' # NoToken => stored # NoToken /\ stored'.session = stored.session
  BY <1>3, <1>4, <1>5
<1>7. bearer' \in [Calls -> Token \cup {NoToken}]
  BY <1>2, <1>3, <1>4, <1>5
<1>8. /\ bearer'[c] = new
      /\ \A d \in Calls : bearer[d] = NoToken => d = c \/ bearer'[d] = NoToken
      /\ \A d \in Calls : bearer[d] # NoToken =>
            bearer'[d] # NoToken /\ bearer'[d].session = bearer[d].session
  BY <1>2, <1>3, <1>4, <1>5 DEF s
<1>9. ASSUME NEW t \in fresh' PROVE t \in Token /\ t.session \in begun
  <2>1. CASE t = new
    BY <1>1, <1>2, <2>1
  <2>2. CASE t # new
    <3>1. PICK f \in fresh : t = Aged(f)
      BY <1>4, <2>2
    <3>2. f \in Token /\ f # NoToken /\ f.session \in begun
      BY <1>5, NoTokenAssumption DEF TokensAreKnown
    <3> QED BY <1>3, <3>1, <3>2
  <2> QED BY <2>1, <2>2
<1> QED BY <1>1, <1>4, <1>5, <1>6, <1>7, <1>8, <1>9 DEF s, new

\* Every action, as a rule of proof: Next is one of these.
LEMMA TypeOKStep == IInv /\ [Next]_vars => TypeOK'
<1> SUFFICES ASSUME IInv, [Next]_vars PROVE TypeOK'
  OBVIOUS
<1> USE DEF vars, supabase, tokens, Kinds, Awaited, Answers, Become, Request
<1>0. TypeOK /\ TokensAreKnown /\ RefreshCarriesOne
  BY DEF IInv, Carried
<1>1. ASSUME NEW c \in Calls, Restore(c) PROVE TypeOK'
  BY <1>0, <1>1 DEF Restore, TypeOK
<1>2. ASSUME NEW c \in Calls, NEW k \in {"call", "signout"}, Begin(c, k) PROVE TypeOK'
  BY <1>0, <1>2 DEF Begin, TypeOK
<1>3. ASSUME NEW c \in Calls, SignIn(c) PROVE TypeOK'
  BY <1>0, <1>3 DEF SignIn, TypeOK
<1>4. ASSUME NEW c \in Calls, VerifyFails(c) PROVE TypeOK'
  <2>1. End({c}, "failed", tokens) /\ UNCHANGED <<inflight, supabase>>
    BY <1>4 DEF VerifyFails
  <2> QED BY <1>0, <2>1, EndType DEF TypeOK
<1>5. ASSUME NEW c \in Calls, Verify(c) PROVE TypeOK'
  <2> DEFINE s == CHOOSE x \in Sessions : x \notin begun
             new == [session |-> s, behind |-> 0]
  <2>1. s \in Sessions
    BY <1>0, <1>5 DEF Verify, TypeOK
  <2> HIDE DEF s
  <2>2. new \in Token
    BY <2>1 DEF Token
  <2>3. /\ access' = new /\ stored' = new /\ fresh' = fresh \cup {new}
        /\ phase' = [d \in Calls |-> IF d \in {c} THEN "server" ELSE phase[d]]
        /\ bearer' = [d \in Calls |-> IF d \in {c} THEN new ELSE bearer[d]]
        /\ begun' = begun \cup {s}
        /\ UNCHANGED <<inflight, actor, page, kind, refreshed, revoked, reuse>>
    BY <1>5 DEF Verify, s
  <2> HIDE DEF new
  <2> QED BY <1>0, <2>1, <2>2, <2>3 DEF TypeOK
<1>6. ASSUME NEW c \in Calls, Serve(c) PROVE TypeOK'
  <2>1. revoked' \subseteq begun
    BY <1>0, <1>6 DEF Serve, TypeOK, TokensAreKnown
  <2>2. /\ phase' \in [Calls -> {"idle"} \cup Awaited \cup Answers]
        /\ bearer' \in [Calls -> Token \cup {NoToken}]
    BY <1>0, <1>6 DEF Serve, TypeOK
  <2> QED BY <1>0, <1>6, <2>1, <2>2 DEF Serve, TypeOK
<1>7. ASSUME NEW c \in Calls, Fail(c) PROVE TypeOK'
  BY <1>0, <1>7 DEF Fail, TypeOK
<1>8. ASSUME NEW c \in Calls, ServeRefresh(c) PROVE TypeOK'
  <2>1. bearer[c] # NoToken
    BY <1>0, <1>8 DEF ServeRefresh, RefreshCarriesOne
  <2>2. /\ phase' \in [Calls -> {"idle"} \cup Awaited \cup Answers]
        /\ UNCHANGED <<inflight, actor, page, kind, refreshed>>
    BY <1>0, <1>8 DEF ServeRefresh, TypeOK
  <2>3. CASE Grant(c)
    BY <1>0, <2>1, <2>2, <2>3, GrantType DEF TypeOK
  <2>4. CASE UNCHANGED <<tokens, bearer, supabase>>
    BY <1>0, <2>2, <2>4 DEF TypeOK
  <2> QED BY <1>8, <2>3, <2>4 DEF ServeRefresh
<1>9. ASSUME NEW c \in Calls, RefreshFails(c) PROVE TypeOK'
  BY <1>0, <1>9 DEF RefreshFails, TypeOK
<1>10. ASSUME NEW c \in Calls, Succeed(c) PROVE TypeOK'
  <2>1. End({c}, "ok", tokens) /\ UNCHANGED <<inflight, supabase>>
    BY <1>10 DEF Succeed
  <2> QED BY <1>0, <2>1, EndType DEF TypeOK
<1>11. ASSUME NEW c \in Calls, GiveUp(c) PROVE TypeOK'
  <2>1. End({c}, "failed", tokens) /\ UNCHANGED <<inflight, supabase>>
    BY <1>11 DEF GiveUp
  <2> QED BY <1>0, <2>1, EndType DEF TypeOK
<1>12. ASSUME NEW c \in Calls, Denied(c) PROVE TypeOK'
  <2>1. UNCHANGED supabase
    BY <1>12 DEF Denied
  <2>2. CASE End({c}, "unauthenticated", tokens) /\ inflight' \in {inflight, "settled"}
    BY <1>0, <2>1, <2>2, EndType DEF TypeOK
  <2>3. CASE /\ inflight = "running" /\ Become(c, "waiting")
             /\ UNCHANGED <<tokens, inflight, actor, page, kind, bearer, refreshed>>
    BY <1>0, <2>1, <2>3 DEF TypeOK
  <2>4. CASE /\ inflight' = "running" /\ Become(c, "refresh")
             /\ bearer' = [bearer EXCEPT ![c] = stored]
             /\ UNCHANGED <<tokens, actor, page, kind, refreshed>>
    BY <1>0, <2>1, <2>4 DEF TypeOK
  <2> QED BY <1>12, <2>2, <2>3, <2>4 DEF Denied, RefreshOnce
<1>13. ASSUME NEW c \in Calls, Renewed(c) PROVE TypeOK'
  <2>1. bearer[c] \in Token
    BY <1>0, <1>13 DEF Renewed, RefreshCarriesOne, TypeOK
  <2>2. /\ phase' \in [Calls -> {"idle"} \cup Awaited \cup Answers]
        /\ bearer' \in [Calls -> Token \cup {NoToken}]
    BY <1>0, <1>13, <2>1 DEF Renewed, TypeOK
  <2>3. kind' \in [Calls -> Kinds]
    BY <1>0, <1>13 DEF Renewed, Retry, TypeOK
  <2>4. refreshed' \in [Calls -> BOOLEAN]
    BY <1>0, <1>13 DEF Renewed, Retry, TypeOK
  <2> QED BY <1>0, <1>13, <2>1, <2>2, <2>3, <2>4 DEF Renewed, TypeOK
<1>14. ASSUME NEW c \in Calls, NotRenewed(c) PROVE TypeOK'
  <2>1. /\ End(Sharing(c), "unauthenticated", <<NoToken, NoToken>>)
        /\ inflight' = "none" /\ UNCHANGED supabase
    BY <1>14 DEF NotRenewed
  <2>2. Sharing(c) \subseteq Calls
    BY DEF Sharing
  <2> QED BY <1>0, <2>1, <2>2, EndType DEF TypeOK
<1>15. CASE Reload
  BY <1>0, <1>15 DEF Reload, TypeOK
<1>16. CASE Elsewhere
  BY <1>0, <1>16 DEF Elsewhere, Age, CloseWindow, Revoke, TypeOK
<1>17. CASE UNCHANGED vars
  BY <1>0, <1>17 DEF TypeOK
<1> HIDE DEF TypeOK
<1> QED BY <1>1, <1>2, <1>3, <1>4, <1>5, <1>6, <1>7, <1>8, <1>9, <1>10, <1>11, <1>12,
           <1>13, <1>14, <1>15, <1>16, <1>17 DEF Next, Progress
-----------------------------------------------------------------------------
(* The promise is shared, and let go.                                      *)

LEMMA PromiseStep == IInv /\ [Next]_vars => Promise'
<1> SUFFICES ASSUME IInv, [Next]_vars PROVE Promise'
  OBVIOUS
<1> USE DEF vars, supabase, Become, Request, Refreshing, Promise, OneRefresh,
            PromiseIsHeld, WaitersShareIt, LoadingIsQuiet
<1>0. TypeOK /\ Promise
  BY DEF IInv
<1>00. phase \in [Calls -> {"idle"} \cup Awaited \cup Answers]
       /\ inflight \in {"none", "running", "settled"}
  BY <1>0 DEF TypeOK
\* A call that is no part of a refresh may take any other step of its own.
<1>1. ASSUME NEW c \in Calls, NEW p, ~Refreshing(c),
             p \notin {"refresh", "granted", "refused", "dropped", "waiting"},
             page = "loaded",
             \A d \in Calls : phase'[d] = IF d = c THEN p ELSE phase[d],
             UNCHANGED <<inflight, page>>
      PROVE  Promise'
  BY <1>0, <1>00, <1>1
<1>2. ASSUME NEW c \in Calls, phase[c] # "idle" PROVE page = "loaded"
  BY <1>0, <1>2 DEF TypeOK
<1>3. ASSUME NEW c \in Calls, Restore(c) PROVE Promise'
  BY <1>0, <1>00, <1>3 DEF Restore
<1>4. ASSUME NEW c \in Calls, NEW k \in {"call", "signout"}, Begin(c, k) PROVE Promise'
  BY <1>00, <1>1, <1>4 DEF Begin
<1>5. ASSUME NEW c \in Calls, SignIn(c) PROVE Promise'
  BY <1>00, <1>1, <1>5 DEF SignIn
<1>6. ASSUME NEW c \in Calls, VerifyFails(c) \/ Succeed(c) \/ GiveUp(c) PROVE Promise'
  <2>1. /\ End({c}, "failed", tokens) \/ End({c}, "ok", tokens)
        /\ UNCHANGED inflight /\ phase[c] \in {"verify", "ok", "failed"}
    BY <1>6 DEF VerifyFails, Succeed, GiveUp
  <2>2. \A d \in Calls : phase'[d] = IF d = c THEN "idle" ELSE phase[d]
    BY <2>1 DEF End
  <2>3. page' = page
    BY <2>1 DEF End
  <2> QED BY <1>1, <1>2, <2>1, <2>2, <2>3
<1>7. ASSUME NEW c \in Calls, Verify(c) PROVE Promise'
  <2>1. /\ \A d \in Calls : phase'[d] = IF d = c THEN "server" ELSE phase[d]
        /\ UNCHANGED <<inflight, page>> /\ phase[c] = "verify"
    BY <1>7 DEF Verify
  <2> QED BY <1>1, <1>2, <2>1
<1>8. ASSUME NEW c \in Calls, Serve(c) \/ Fail(c) PROVE Promise'
  <2>1. PICK p \in {"ok", "denied", "failed"} :
           \A d \in Calls : phase'[d] = IF d = c THEN p ELSE phase[d]
    BY <1>00, <1>8 DEF Serve, Fail
  <2>2. UNCHANGED <<inflight, page>> /\ phase[c] = "server"
    BY <1>8 DEF Serve, Fail
  <2> QED BY <1>1, <1>2, <2>1, <2>2
<1>9. ASSUME NEW c \in Calls, ServeRefresh(c) \/ RefreshFails(c) PROVE Promise'
  <2>1. PICK p \in {"granted", "refused", "dropped"} :
           \A d \in Calls : phase'[d] = IF d = c THEN p ELSE phase[d]
    BY <1>00, <1>9 DEF ServeRefresh, RefreshFails
  <2>2. UNCHANGED <<inflight, page>> /\ phase[c] = "refresh"
    BY <1>9 DEF ServeRefresh, RefreshFails
  <2> QED BY <1>0, <1>2, <2>1, <2>2
<1>10. ASSUME NEW c \in Calls, Denied(c) PROVE Promise'
  <2>1. phase[c] = "denied" /\ page = "loaded"
    BY <1>2, <1>10 DEF Denied
  <2>2. CASE End({c}, "unauthenticated", tokens)
             /\ inflight' \in {inflight, "settled"} /\ (inflight = "running" => UNCHANGED inflight)
    <3>1. (\A d \in Calls : phase'[d] = IF d = c THEN "idle" ELSE phase[d]) /\ page' = page
      BY <2>2 DEF End
    <3> QED BY <1>0, <2>1, <2>2, <3>1
  <2>3. CASE inflight = "running" /\ Become(c, "waiting") /\ UNCHANGED <<inflight, page>>
    BY <1>0, <1>00, <2>1, <2>3
  <2>4. CASE inflight = "none" /\ inflight' = "running" /\ Become(c, "refresh") /\ UNCHANGED page
    BY <1>0, <1>00, <2>1, <2>4
  <2> QED BY <1>10, <2>2, <2>3, <2>4 DEF Denied, RefreshOnce
<1>11. ASSUME NEW c \in Calls, Renewed(c) PROVE Promise'
  <2>1. /\ \A d \in Calls : phase'[d] = IF d = c \/ phase[d] = "waiting"
                                      THEN "server" ELSE phase[d]
        /\ inflight' = "none" /\ page' = page /\ phase[c] = "granted"
    BY <1>11 DEF Renewed, Sharing
  <2> QED BY <1>0, <1>2, <2>1
<1>12. ASSUME NEW c \in Calls, NotRenewed(c) PROVE Promise'
  <2>1. /\ \A d \in Calls : phase'[d] = IF d = c \/ phase[d] = "waiting"
                                      THEN "idle" ELSE phase[d]
        /\ inflight' = "none" /\ page' = page /\ phase[c] \in {"refused", "dropped"}
    BY <1>12 DEF NotRenewed, End, Sharing
  <2> QED BY <1>0, <1>2, <2>1
<1>13. CASE Reload
  BY <1>13 DEF Reload
<1>14. CASE Elsewhere \/ UNCHANGED vars
  BY <1>0, <1>14 DEF Elsewhere
<1> HIDE DEF Promise
<1> QED BY <1>3, <1>4, <1>5, <1>6, <1>7, <1>8, <1>9, <1>10, <1>11, <1>12, <1>13, <1>14
        DEF Next, Progress
-----------------------------------------------------------------------------
(* What a refresh carries.                                                 *)

\* A step that begins no refresh and decides none: tokens stay known, the calls
\* that refresh stay as they are, and what is stored is as before, gone, or new.
LEMMA CarriedFrame ==
    ASSUME IInv,
           \/ stored' = NoToken \/ stored'.behind = 0 \/ page' = "loading"
           \/ stored' = stored /\ page' = page
              /\ \A d \in Calls : Refreshing(d) => Refreshing(d)',
           stored' # NoToken => stored'.session \in begun',
           \A d \in Calls :
              /\ bearer'[d] # NoToken => bearer'[d].session \in begun'
              /\ phase'[d] \in {"refresh", "granted", "refused"} =>
                    phase'[d] = phase[d] /\ kind'[d] = kind[d] /\ bearer'[d] = bearer[d],
           \A t \in fresh' : t.session \in begun',
           revoked \subseteq revoked'
    PROVE  Carried'
<1> USE DEF Refreshing
<1>0. Carried
  BY DEF IInv
<1>1. TokensAreKnown'
  BY DEF TokensAreKnown
<1>2. RefreshCarriesOne' /\ CarriedIsLive' /\ RefusedOnlyWhenOver'
  BY <1>0 DEF Carried, RefreshCarriesOne, CarriedIsLive, RefusedOnlyWhenOver
<1>3. StoredIsLive'
  BY <1>0 DEF Carried, StoredIsLive
<1> QED BY <1>1, <1>2, <1>3 DEF Carried

\* A refresh begins: with the stored token, which is live unless restore() found it.
LEMMA RefreshBegins ==
    ASSUME IInv, NEW c \in Calls, inflight = "none", stored # NoToken,
           page = "loaded" \/ kind'[c] = "restore",
           Become(c, "refresh"), bearer' = [bearer EXCEPT ![c] = stored],
           \A d \in Calls : d # c => kind'[d] = kind[d],
           UNCHANGED <<tokens, supabase>>
    PROVE  Carried'
<1> USE DEF Refreshing, tokens, supabase, Become
<1>0. TypeOK /\ Promise /\ Carried
  BY DEF IInv
<1>1. /\ \A d \in Calls : phase'[d] = IF d = c THEN "refresh" ELSE phase[d]
      /\ \A d \in Calls : bearer'[d] = IF d = c THEN stored ELSE bearer[d]
  BY <1>0 DEF TypeOK
<1>2. \A d \in Calls : ~Refreshing(d)
  BY <1>0 DEF Promise, PromiseIsHeld
<1>3. TokensAreKnown'
  BY <1>0, <1>1 DEF Carried, TokensAreKnown
<1>4. RefreshCarriesOne' /\ RefusedOnlyWhenOver' /\ StoredIsLive'
  BY <1>1, <1>2 DEF RefreshCarriesOne, RefusedOnlyWhenOver, StoredIsLive
<1>5. page = "loaded" => stored.behind = 0
  BY <1>0, <1>2 DEF Carried, StoredIsLive
<1>6. CarriedIsLive'
  BY <1>1, <1>2, <1>5 DEF CarriedIsLive
<1> QED BY <1>3, <1>4, <1>6 DEF Carried

\* A refresh is decided: it is the only one, so whatever a rotation makes older is
\* followed by an answer.
LEMMA RefreshIsServed ==
    ASSUME IInv, NEW c \in Calls, ServeRefresh(c)
    PROVE  Carried'
<1> USE DEF Refreshing, tokens, supabase, Become
<1>0. TypeOK /\ Promise /\ Carried
  BY DEF IInv
<1>1. PICK p \in {"granted", "dropped", "refused"} :
         \A d \in Calls : phase'[d] = IF d = c THEN p ELSE phase[d]
  BY <1>0 DEF ServeRefresh, TypeOK
<1>2. phase[c] = "refresh" /\ kind' = kind /\ bearer[c] # NoToken /\ bearer[c] \in Token
  BY <1>0 DEF ServeRefresh, Carried, RefreshCarriesOne, TypeOK
<1>3. \A d \in Calls : d # c => ~Refreshing(d)
  BY <1>0, <1>2 DEF Promise, OneRefresh
<1>4. StoredIsLive'
  BY <1>1 DEF StoredIsLive
<1>5. CASE Grant(c) /\ p # "refused"
  <2>1. /\ bearer'[c] = [session |-> bearer[c].session, behind |-> 0]
        /\ \A d \in Calls : bearer[d] = NoToken => d = c \/ bearer'[d] = NoToken
        /\ \A d \in Calls : bearer[d] # NoToken => bearer'[d].session = bearer[d].session
        /\ stored' # NoToken => stored # NoToken /\ stored'.session = stored.session
        /\ \A t \in fresh' : t.session \in begun
        /\ begun' = begun
    BY <1>0, <1>2, <1>5, GrantType DEF Carried
  <2>2. bearer'[c] # NoToken
    BY <1>2, <2>1, NoTokenAssumption DEF Token
  <2>3. TokensAreKnown'
    <3>1. stored' # NoToken => stored'.session \in begun
      BY <1>0, <2>1 DEF Carried, TokensAreKnown
    <3>2. ASSUME NEW d \in Calls, bearer'[d] # NoToken PROVE bearer'[d].session \in begun
      <4>1. bearer[d] # NoToken
        BY <1>2, <2>1, <3>2
      <4>2. bearer[d].session \in begun
        BY <1>0, <4>1 DEF Carried, TokensAreKnown
      <4> QED BY <2>1, <4>1, <4>2
    <3> QED BY <2>1, <3>1, <3>2 DEF TokensAreKnown
  <2>4. RefreshCarriesOne' /\ CarriedIsLive' /\ RefusedOnlyWhenOver'
    BY <1>1, <1>3, <1>5, <2>1, <2>2 DEF RefreshCarriesOne, CarriedIsLive, RefusedOnlyWhenOver
  <2> QED BY <1>4, <2>3, <2>4 DEF Carried
<1>6. CASE /\ p = "refused" /\ ~IsCurrent(bearer[c])
           /\ UNCHANGED <<tokens, bearer, supabase>>
  <2>1. TokensAreKnown' /\ bearer[c].session \in begun
    BY <1>0, <1>2, <1>6 DEF Carried, TokensAreKnown
  <2>2. RefreshCarriesOne' /\ CarriedIsLive'
    BY <1>1, <1>2, <1>3, <1>6 DEF RefreshCarriesOne, CarriedIsLive
  <2>3. kind[c] # "restore" => bearer[c].session \in revoked
    BY <1>0, <1>2, <1>6, <2>1 DEF Carried, CarriedIsLive, IsCurrent, Live
  <2>4. RefusedOnlyWhenOver'
    BY <1>1, <1>2, <1>3, <1>6, <2>3 DEF RefusedOnlyWhenOver
  <2> QED BY <1>4, <2>1, <2>2, <2>4 DEF Carried
<1>7. \/ Grant(c) /\ p # "refused"
      \/ /\ p = "refused" /\ ~IsCurrent(bearer[c])
         /\ UNCHANGED <<tokens, bearer, supabase>>
  BY <1>0, <1>1 DEF ServeRefresh, TypeOK
<1> QED BY <1>5, <1>6, <1>7

LEMMA CarriedStep == IInv /\ [Next]_vars => Carried'
<1> SUFFICES ASSUME IInv, [Next]_vars PROVE Carried'
  OBVIOUS
<1> USE DEF vars, supabase, tokens, Become, Request, Refreshing
<1>0. TypeOK /\ Promise /\ TokensAreKnown /\ RefreshCarriesOne /\ CarriedIsLive
  BY DEF IInv, Carried
<1>00. /\ phase \in [Calls -> {"idle"} \cup Awaited \cup Answers]
       /\ kind \in [Calls -> Kinds] /\ bearer \in [Calls -> Token \cup {NoToken}]
       /\ access \in {stored, NoToken} /\ begun \subseteq Sessions
  BY <1>0 DEF TypeOK
<1>000. /\ stored # NoToken => stored.session \in begun
        /\ \A c \in Calls : bearer[c] # NoToken => bearer[c].session \in begun
        /\ \A t \in fresh : t.session \in begun
  BY <1>0 DEF TokensAreKnown
\* A call that is no part of a refresh takes a step of its own.
<1>1. ASSUME NEW c \in Calls, ~Refreshing(c), NEW token,
             token \in {bearer[c], access, NoToken}, stored' \in {stored, NoToken},
             \A d \in Calls : d # c => /\ phase'[d] = phase[d] /\ kind'[d] = kind[d]
                                      /\ bearer'[d] = bearer[d],
             phase'[c] \notin {"refresh", "granted", "refused"}, bearer'[c] = token,
             UNCHANGED <<page, begun, fresh>>, revoked \subseteq revoked'
      PROVE  Carried'
  BY <1>00, <1>000, <1>1, CarriedFrame
<1>2. ASSUME NEW c \in Calls, phase[c] # "idle" PROVE page = "loaded"
  BY <1>0, <1>2 DEF TypeOK, Promise, LoadingIsQuiet
<1>3. ASSUME NEW c \in Calls, Restore(c) PROVE Carried'
  <2>1. inflight = "none" /\ \A d \in Calls : phase[d] = "idle"
    BY <1>0, <1>3 DEF Restore, Promise, LoadingIsQuiet
  <2>2. CASE stored = NoToken /\ UNCHANGED <<tokens, kind, phase, bearer>>
    <3>1. UNCHANGED supabase
      BY <1>3 DEF Restore
    <3> QED BY <1>000, <2>2, <3>1, CarriedFrame
  <2>3. CASE stored # NoToken
    <3>1. /\ kind'[c] = "restore" /\ \A d \in Calls : d # c => kind'[d] = kind[d]
          /\ Become(c, "refresh") /\ bearer' = [bearer EXCEPT ![c] = stored]
          /\ UNCHANGED <<tokens, supabase>>
      BY <1>00, <1>3, <2>3 DEF Restore
    <3> QED BY <2>1, <2>3, <3>1, RefreshBegins
  <2> QED BY <1>3, <2>2, <2>3 DEF Restore
<1>4. ASSUME NEW c \in Calls, NEW k \in {"call", "signout"}, Begin(c, k) PROVE Carried'
  BY <1>00, <1>1, <1>4 DEF Begin
<1>5. ASSUME NEW c \in Calls, SignIn(c) PROVE Carried'
  BY <1>00, <1>1, <1>5 DEF SignIn
<1>6. ASSUME NEW c \in Calls, ~Refreshing(c), NEW outcome, End({c}, outcome, tokens),
             UNCHANGED supabase
      PROVE  Carried'
  <2>1. stored' \in {stored, NoToken} /\ page' = page
    BY <1>6 DEF End, Clear
  <2>2. /\ \A d \in Calls : d # c => /\ phase'[d] = phase[d] /\ kind'[d] = kind[d]
                                    /\ bearer'[d] = bearer[d]
        /\ phase'[c] = "idle" /\ bearer'[c] = NoToken
    BY <1>6 DEF End
  <2> QED BY <1>1, <1>6, <2>1, <2>2
<1>7. ASSUME NEW c \in Calls, VerifyFails(c) \/ Succeed(c) \/ GiveUp(c) PROVE Carried'
  BY <1>6, <1>7 DEF VerifyFails, Succeed, GiveUp
<1>8. ASSUME NEW c \in Calls, Verify(c) PROVE Carried'
  <2> DEFINE s == CHOOSE x \in Sessions : x \notin begun
             new == [session |-> s, behind |-> 0]
  <2>1. /\ stored' = new /\ fresh' = fresh \cup {new} /\ begun' = begun \cup {s}
        /\ phase' = [d \in Calls |-> IF d \in {c} THEN "server" ELSE phase[d]]
        /\ bearer' = [d \in Calls |-> IF d \in {c} THEN new ELSE bearer[d]]
        /\ UNCHANGED <<page, kind, revoked>>
    BY <1>8 DEF Verify
  <2>2. new.session = s /\ new.behind = 0
    OBVIOUS
  <2> HIDE DEF s, new
  <2> QED BY <1>000, <2>1, <2>2, CarriedFrame
<1>9. ASSUME NEW c \in Calls, Serve(c) \/ Fail(c) PROVE Carried'
  <2>1. /\ \A d \in Calls : d # c => phase'[d] = phase[d] /\ bearer'[d] = bearer[d]
        /\ phase'[c] \in {"ok", "denied", "failed"} /\ bearer'[c] = NoToken
        /\ phase[c] = "server"
    BY <1>00, <1>9 DEF Serve, Fail
  <2>2. UNCHANGED <<stored, page, kind, begun, fresh>> /\ revoked \subseteq revoked'
    BY <1>9 DEF Serve, Fail
  <2> QED BY <1>1, <2>1, <2>2
<1>10. ASSUME NEW c \in Calls, RefreshFails(c) PROVE Carried'
  <2>1. /\ \A d \in Calls : phase'[d] = IF d = c THEN "dropped" ELSE phase[d]
        /\ UNCHANGED <<stored, page, kind, bearer, supabase>>
    BY <1>00, <1>10 DEF RefreshFails
  <2> QED BY <1>000, <2>1, CarriedFrame
<1>11. ASSUME NEW c \in Calls, Denied(c) PROVE Carried'
  <2>1. phase[c] = "denied" /\ page = "loaded" /\ UNCHANGED supabase
    BY <1>2, <1>11 DEF Denied
  <2>2. CASE End({c}, "unauthenticated", tokens)
    BY <1>6, <2>1, <2>2
  <2>3. CASE Become(c, "waiting") /\ UNCHANGED <<tokens, page, kind, bearer>>
    BY <1>00, <1>1, <2>1, <2>3
  <2>4. CASE /\ inflight = "none" /\ stored # NoToken /\ Become(c, "refresh")
             /\ bearer' = [bearer EXCEPT ![c] = stored] /\ UNCHANGED <<tokens, kind>>
    BY <2>1, <2>4, RefreshBegins
  <2> QED BY <1>11, <2>2, <2>3, <2>4 DEF Denied, RefreshOnce
<1>12. ASSUME NEW c \in Calls, Renewed(c) PROVE Carried'
  <2>1. bearer[c] # NoToken /\ bearer[c].behind = 0
    BY <1>0, <1>12 DEF Renewed, RefreshCarriesOne, CarriedIsLive
  <2>2. /\ stored' = bearer[c] /\ UNCHANGED supabase
        /\ \A d \in Calls : phase'[d] = IF d = c \/ phase[d] = "waiting"
                                        THEN "server" ELSE phase[d]
        /\ \A d \in Calls : bearer'[d] = IF d = c \/ phase[d] = "waiting"
                                         THEN bearer[c] ELSE bearer[d]
    BY <1>12 DEF Renewed, Sharing
  <2>3. \A d \in Calls : ~(d = c \/ phase[d] = "waiting") => kind'[d] = kind[d]
    BY <1>12 DEF Renewed, Retry, Sharing
  <2> QED BY <1>000, <2>1, <2>2, <2>3, CarriedFrame
<1>13. ASSUME NEW c \in Calls, NotRenewed(c) PROVE Carried'
  <2>1. /\ End(Sharing(c), "unauthenticated", <<NoToken, NoToken>>)
        /\ Sharing(c) \subseteq Calls /\ UNCHANGED supabase
    BY <1>13 DEF NotRenewed, Sharing
  <2>2. stored' = NoToken
    BY <2>1 DEF End, Clear
  <2>3. \A d \in Calls :
           \/ phase'[d] = "idle" /\ bearer'[d] = NoToken
           \/ phase'[d] = phase[d] /\ kind'[d] = kind[d] /\ bearer'[d] = bearer[d]
    BY <1>0, <2>1, EndType
  <2> QED BY <1>000, <2>1, <2>2, <2>3, CarriedFrame
<1>14. CASE Reload
  <2>1. /\ page' = "loading" /\ UNCHANGED <<stored, begun, revoked, fresh>>
        /\ \A d \in Calls : phase'[d] = "idle" /\ bearer'[d] = NoToken
    BY <1>14 DEF Reload
  <2> QED BY <1>000, <2>1, CarriedFrame
<1>15. CASE Elsewhere \/ UNCHANGED vars
  <2>1. /\ UNCHANGED <<stored, page, kind, phase, bearer, begun>>
        /\ fresh' \subseteq fresh /\ revoked \subseteq revoked'
    BY <1>15 DEF Elsewhere, Age, CloseWindow, Revoke
  <2> QED BY <1>000, <2>1, CarriedFrame
<1> QED BY <1>3, <1>4, <1>5, <1>7, <1>8, <1>9, <1>10, <1>11, <1>12, <1>13, <1>14, <1>15,
           RefreshIsServed DEF Next, Progress
-----------------------------------------------------------------------------
(* The theorems.                                                           *)

LEMMA InitIInv == Init => IInv
<1> SUFFICES ASSUME Init PROVE IInv
  OBVIOUS
<1> USE DEF Init, Refreshing
<1>1. TypeOK
  BY DEF TypeOK, Kinds
<1>2. Promise
  BY DEF Promise, OneRefresh, PromiseIsHeld, WaitersShareIt, LoadingIsQuiet
<1>3. Carried
  BY DEF Carried, TokensAreKnown, RefreshCarriesOne, StoredIsLive, CarriedIsLive,
         RefusedOnlyWhenOver
<1> QED BY <1>1, <1>2, <1>3 DEF IInv

LEMMA SpecIInv == Spec => []IInv
<1>1. IInv /\ [Next]_vars => IInv'
  BY TypeOKStep, PromiseStep, CarriedStep DEF IInv
<1> QED BY InitIInv, <1>1, PTL DEF Spec

\* The access token the page holds is the one the browser's refresh token came
\* with, or none, whatever the order in which answers, reloads and expiries come.
THEOREM TypeCorrect == Spec => []TypeOK
<1>1. IInv => TypeOK
  BY DEF IInv
<1> QED BY SpecIInv, <1>1, PTL

\* Whoever awaits the shared promise of refreshOnce awaits a refresh that some call
\* is really running: nobody is left behind by a promise that was let go.
THEOREM WaitersHaveARefreshHolds == Spec => []WaitersHaveARefresh
<1>1. IInv => WaitersHaveARefresh
  BY DEF IInv, Promise, WaitersShareIt, PromiseIsHeld, Refreshing, WaitersHaveARefresh
<1> QED BY SpecIInv, <1>1, PTL

\* A page that was not reloaded in between has its refresh token refused only when
\* the session is over, however many calls share refreshOnce.
THEOREM RefusedOnlyWhenOverHolds == Spec => []RefusedOnlyWhenOver
<1>1. IInv => RefusedOnlyWhenOver
  BY DEF IInv, Carried
<1> QED BY SpecIInv, <1>1, PTL
=============================================================================
