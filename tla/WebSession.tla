------------------------------ MODULE WebSession ------------------------------
(***************************************************************************)
(* One browser tab of the web client and the server sessions ("grants") it *)
(* is given: the storage provider (src/context/StorageContext.tsx) with    *)
(* its connection, sign-in, callback and logout, over the session and the  *)
(* pending revocations in sessionStorage (src/lib/session.ts), the OIDC    *)
(* login (src/lib/oidcAuth.ts, oidcCallback.ts) and the revocation         *)
(* (src/lib/revokeSession.ts).                                             *)
(*                                                                         *)
(* A step is what the page does between two awaits.  sessionStorage        *)
(* survives a reload of the page, memory does not; any write may be        *)
(* denied.  What the page offers (App.tsx) decides what the user can do:   *)
(* login when it is signed out or shows an error, logout when it is ready, *)
(* nothing while it connects.  So a page connects at most once, and signs  *)
(* in, logs out and connects under one generation (connectGenRef) at a     *)
(* time; the branches for a superseded logout or callback result are never *)
(* taken.                                                                  *)
(*                                                                         *)
(* The server and the SDK are external.                                    *)
(***************************************************************************)
EXTENDS Naturals

CONSTANTS
    Grants,     \* server sessions, each issued by one sign-in
    MaxGen,     \* bound: token generations of a grant
    None

ASSUME WebConstants == MaxGen \in Nat \ {0} /\ None \notin Grants \X (1..MaxGen)

(* A session's tokens are rotated together: a grant and a generation.      *)
Tokens == Grants \X (1..MaxGen)

VARIABLES
    server,
    \* sessionStorage
    stored,     \* the session
    pend,       \* pending revocations
    intent,     \* an OIDC transaction waits for its callback
    \* the page
    status,     \* ConnectionStatus, or "away": no page is loaded
    vol,        \* volatilePendingRevocations
    client,     \* the Matrix client of connect(): "building", "shown", "stray" or "none"
    current,    \* its generation is connectGenRef
    csess,      \* its currentSession
    flight,     \* the tokens of a refresh answer on its way, or None
    login,      \* step of beginOidcLogin, or "none"
    cb,         \* step of completeOidcLoginFromCallback, or "none"
    late,       \* it goes on after its deadline
    cbTok,      \* the tokens it was issued
    todo,       \* what cleanPendingRevocations has still to revoke
    logout,     \* the session that is being logged out, or None
    lost,       \* history: grants whose newest tokens the page never got, got
                \* for a session or homeserver no longer its own, or had only
                \* in memory at a reload
    dropped     \* history: grants whose rotated tokens were denied storage

disk   == <<stored, pend, intent>>
conn   == <<client, current, csess, flight>>
callb  == <<cb, late, cbTok>>
gone   == <<lost, dropped>>
vars   == <<server, disk, status, vol, conn, login, callb, todo, logout, gone>>

Init ==
    /\ server = [g \in Grants |-> [state |-> "none", n |-> 1, expired |-> FALSE]]
    /\ stored = None /\ pend = {} /\ intent = FALSE
    /\ status = "away" /\ vol = {}
    /\ client = "none" /\ current = FALSE /\ csess = None /\ flight = None
    /\ login = "none" /\ cb = "none" /\ late = FALSE /\ cbTok = None /\ todo = {}
    /\ logout = None /\ lost = {} /\ dropped = {}

-----------------------------------------------------------------------------
(* The server.                                                             *)
Live(g) == server[g].state = "live"
Newest(g) == <<g, server[g].n>>
Valid(t) == Live(t[1]) /\ Newest(t[1]) = t /\ ~server[t[1]].expired

(* POST /logout with an access token ends the grant; a token it does not   *)
(* accept (any more) is answered with M_UNKNOWN_TOKEN.                     *)
Presents(t) == server' = (IF Valid(t) THEN [server EXCEPT ![t[1]].state = "ended"] ELSE server)

Expire(g) ==
    /\ Live(g) /\ ~server[g].expired /\ server[g].n < MaxGen
    /\ server' = [server EXCEPT ![g].expired = TRUE]
    /\ UNCHANGED <<disk, status, vol, conn, login, callb, todo, logout, gone>>

(* An administrator, or a refresh with a consumed token.                   *)
EndElsewhere(g) ==
    /\ Live(g)
    /\ server' = [server EXCEPT ![g].state = "ended"]
    /\ UNCHANGED <<disk, status, vol, conn, login, callb, todo, logout, gone>>

-----------------------------------------------------------------------------
(* Pending revocations: sessionStorage and the volatile copy, merged by    *)
(* every read.                                                             *)
Pending == pend \union vol

(* Here and below, names with an underscore are faulty variants of the     *)
(* definition that follows them, plausible mistakes in the code.  They are  *)
(* not part of the specification.                                          *)

\* savePendingRevocation without the volatile copy.
Remembers_OnDiskOnly(t, ok) ==
    /\ vol' = vol
    /\ pend' = (IF ok THEN Pending \union {t} ELSE pend)

\* savePendingRevocation that keeps the stored session too, if there is one or not.
Remembers_WithStored(t, ok) ==
    /\ vol' = Pending \union {t, stored}
    /\ pend' = (IF ok THEN Pending \union {t} ELSE pend)

\* savePendingRevocation: a denied write leaves the volatile copy.
Remembers(t, ok) ==
    /\ vol' = Pending \union {t}
    /\ pend' = (IF ok THEN Pending \union {t} ELSE pend)

clearPendingRevocation(t) ==
    /\ vol' = Pending \ {t}
    /\ pend' = Pending \ {t}

\* revokeMatrixSession that takes every failed answer for a success.
revokeOrRemember_Optimistic(t, outcome) ==
    /\ Presents(t) \/ UNCHANGED server
    /\ clearPendingRevocation(t)

\* revokeMatrixSession that does not accept M_UNKNOWN_TOKEN.
revokeOrRemember_Strict(t, outcome) ==
    IF outcome = "confirmed" /\ Valid(t)
      THEN Presents(t) /\ clearPendingRevocation(t)
      ELSE (Presents(t) \/ UNCHANGED server) /\ Remembers(t, outcome # "unstored")

(* revokeOrRemember: only "confirmed" returns null.  The server may have   *)
(* acted on a request that failed, timed out or was aborted.               *)
Outcomes == {"confirmed", "remembered", "unstored"}
revokeOrRemember(t, outcome) ==
    IF outcome = "confirmed"
      THEN Presents(t) /\ clearPendingRevocation(t)
      ELSE (Presents(t) \/ UNCHANGED server) /\ Remembers(t, outcome = "remembered")

-----------------------------------------------------------------------------
(* Loading and leaving the page.                                           *)

(* Memory is gone: a client, a request and its answer, the volatile copy.  *)
InMemory == {flight, cbTok} \union vol
Leaves ==
    /\ status' = "away" /\ vol' = {} /\ todo' = {}
    /\ client' = "none" /\ current' = FALSE /\ csess' = None /\ flight' = None
    /\ login' = "none" /\ cb' = "none" /\ late' = FALSE /\ cbTok' = None /\ logout' = None
    /\ lost' = lost \union {t[1] : t \in InMemory \ (pend \union {None})}
    /\ UNCHANGED <<server, disk, dropped>>

\* The user reloads, or the browser discards the tab.
Reload == status # "away" /\ Leaves

\* restoreExistingSession, connect(existing).
Restores ==
    IF pend # {}
      THEN status' = "error" /\ UNCHANGED <<client, current, csess>>
      ELSE IF stored = None
      THEN status' = "signed-out" /\ UNCHANGED <<client, current, csess>>
      ELSE status' = "connecting" /\ client' = "building" /\ current' = TRUE /\ csess' = stored

(* No callback in the location; or a malformed one, or one of another      *)
(* transaction, which clears the transient state.                          *)
LoadPage ==
    /\ status = "away"
    /\ Restores
    /\ intent' \in {intent, FALSE}
    /\ UNCHANGED <<server, stored, pend, vol, flight, login, callb, todo, logout, gone>>

\* Storage is denied.
LoadFails ==
    /\ status = "away"
    /\ status' = "error"
    /\ UNCHANGED <<server, disk, vol, conn, login, callb, todo, logout, gone>>

\* The provider has redirected back with the state of the intent.
LoadCallback ==
    /\ status = "away" /\ intent
    /\ status' = "connecting" /\ cb' = "load"
    /\ UNCHANGED <<server, disk, vol, conn, login, late, cbTok, todo, logout, gone>>

-----------------------------------------------------------------------------
(* connect().                                                              *)

\* connect without the comparison of generations when the client is ready.
ConnectReady_AnyGeneration(ok) ==
    /\ client = "building"
    /\ ok
    /\ client' = "shown" /\ status' = "ready"
    /\ UNCHANGED <<server, disk, vol, current, csess, flight, login, callb, todo, logout, gone>>

\* createFromOidc resolves; a client of an older generation is stopped.
ConnectReady(ok) ==
    /\ client = "building"
    /\ IF current
         THEN ok /\ client' = "shown" /\ status' = "ready"
         ELSE client' = (IF ok THEN "none" ELSE "stray") /\ UNCHANGED status
    /\ UNCHANGED <<server, disk, vol, current, csess, flight, login, callb, todo, logout, gone>>

ConnectFails ==
    /\ client = "building"
    /\ client' = "none"
    /\ status' = (IF current THEN "error" ELSE status)
    /\ UNCHANGED <<server, disk, vol, current, csess, flight, login, callb, todo, logout, gone>>

\* connect without withTimeout.
ConnectTimesOut_Never ==
    /\ FALSE
    /\ UNCHANGED vars

\* withTimeout: the generation ends, the SDK may go on.
ConnectTimesOut ==
    /\ client = "building" /\ current
    /\ current' = FALSE /\ status' = "error"
    /\ UNCHANGED <<server, disk, vol, client, csess, flight, login, callb, todo, logout, gone>>

(* guardedTokenRefreshFunction: the server rotates; old tokens are dead.   *)
RefreshSent ==
    /\ client \in {"building", "shown"} /\ current /\ flight = None
    /\ LET g == csess[1] IN
         /\ Live(g) /\ Newest(g) = csess /\ server[g].n < MaxGen
         /\ server' = [server EXCEPT ![g].n = @ + 1, ![g].expired = FALSE]
         /\ flight' = <<g, server[g].n + 1>>
    /\ UNCHANGED <<disk, status, vol, client, current, csess, login, callb, todo, logout, gone>>

(* The answer is stored if the generation is still the same and nobody has *)
(* replaced the session (saveSessionIfCurrent); otherwise it is refused.   *)
(* When the write is denied the new tokens are given up, unrecorded.       *)
RefreshAnswered(ok) ==
    /\ flight # None
    /\ flight' = None
    /\ IF current /\ stored = csess
         THEN /\ IF ok THEN stored' = flight /\ csess' = flight /\ UNCHANGED dropped
                       ELSE dropped' = dropped \union {flight[1]} /\ UNCHANGED <<stored, csess>>
              /\ UNCHANGED lost
         ELSE lost' = lost \union {flight[1]} /\ UNCHANGED <<stored, csess, dropped>>
    /\ UNCHANGED <<server, pend, intent, status, vol, client, current, login, callb, todo, logout>>

-----------------------------------------------------------------------------
(* invalidateActiveConnection.  stopClient may throw; the caller then      *)
(* shows the error and does nothing else.                                  *)
Invalidates(ok) ==
    /\ ok \/ client = "shown"
    /\ client' = (IF client # "shown" THEN client ELSE IF ok THEN "none" ELSE "stray")
    /\ current' = FALSE
    /\ UNCHANGED <<csess, flight>>

-----------------------------------------------------------------------------
(* loginWithOidc, beginOidcLogin.                                          *)

\* An error screen without the login button.
StartLogin_SignedOutOnly ==
    /\ status = "signed-out"
    /\ Invalidates(TRUE)
    /\ status' = "connecting" /\ login' = "load"
    /\ UNCHANGED <<server, disk, vol, callb, todo, logout, gone>>

StartLogin ==
    /\ status \in {"signed-out", "error"}
    /\ Invalidates(TRUE)
    /\ status' = "connecting" /\ login' = "load"
    /\ UNCHANGED <<server, disk, vol, callb, todo, logout, gone>>

\* The transient state is cleared and the pending revocations are read.
BeginLogin ==
    /\ login = "load"
    /\ intent' = FALSE /\ todo' = Pending /\ vol' = Pending
    /\ login' = "clean"
    /\ UNCHANGED <<server, stored, pend, status, conn, callb, logout, gone>>

LoginFails(next) == login' = "none" /\ status' = next /\ todo' = {}

(* The marker of a confirmed revocation is gone; it is put back for the     *)
(* session that could not be cleared, which may be denied as well.         *)
PendingAgain(t) ==
    /\ vol' = Pending \union {t}
    /\ pend' \in {Pending \union {t}, Pending \ {t}}

(* cleanPendingRevocations(true): the session whose access token it was is *)
(* cleared; if that is denied the revocation is pending again.             *)
LoginCleans(p, outcome, ok) ==
    /\ login = "clean" /\ p \in todo
    /\ IF outcome = "confirmed" /\ (ok \/ stored # p)
         THEN /\ revokeOrRemember(p, outcome)
              /\ stored' = (IF stored = p THEN None ELSE stored)
              /\ todo' = todo \ {p}
              /\ UNCHANGED <<status, login>>
         ELSE /\ \/ outcome = "confirmed" /\ Presents(p) /\ PendingAgain(p)
                 \/ outcome # "confirmed" /\ revokeOrRemember(p, outcome)
              /\ LoginFails("error")
              /\ UNCHANGED stored
    /\ UNCHANGED <<intent, conn, callb, logout, gone>>

(* The stored session is revoked and cleared.  Nobody rotates it: the      *)
(* generation of its client is over.                                       *)
LoginRevokes(outcome, ok) ==
    /\ login = "clean" /\ todo = {} /\ stored # None
    /\ revokeOrRemember(stored, outcome)
    /\ IF outcome = "confirmed" /\ ok
         THEN stored' = None /\ login' = "discover" /\ UNCHANGED <<status, todo>>
         ELSE LoginFails("error") /\ UNCHANGED stored
    /\ UNCHANGED <<intent, conn, callb, logout, gone>>

LoginNothingToRevoke ==
    /\ login = "clean" /\ todo = {} /\ stored = None
    /\ login' = "discover"
    /\ UNCHANGED <<server, disk, status, vol, conn, callb, todo, logout, gone>>

\* Discovery, registration and the PKCE request; the intent is stored.
LoginRedirects ==
    /\ login = "discover"
    /\ intent' = TRUE /\ login' = "redirect"
    /\ UNCHANGED <<server, stored, pend, status, vol, conn, callb, todo, logout, gone>>

(* A failure or the deadline; a request it was waiting for has been        *)
(* remembered by then (LoginCleans, LoginRevokes).                         *)
LoginEnds ==
    /\ login \in {"load", "discover"}
    /\ LoginFails("error")
    /\ UNCHANGED <<server, disk, vol, conn, callb, logout, gone>>

Navigate == login = "redirect" /\ Leaves

-----------------------------------------------------------------------------
(* completeOidcLoginFromCallback and what the provider does with it.       *)
Callback(next) == cb' = next /\ UNCHANGED <<late, status>>
CallbackEnds ==
    /\ cb' = "none" /\ late' = FALSE /\ cbTok' = None
    /\ status' = (IF late THEN status ELSE "error")

\* The chunk is loaded, the location scrubbed, storage probed.
BeginCallback ==
    /\ cb = "load"
    /\ Callback("clean") /\ todo' = Pending /\ vol' = Pending
    /\ UNCHANGED <<server, disk, conn, login, cbTok, logout, gone>>

\* cleanPendingRevocations(false).
CallbackCleans(p, outcome) ==
    /\ cb = "clean" /\ p \in todo
    /\ revokeOrRemember(p, outcome)
    /\ IF outcome = "confirmed"
         THEN todo' = todo \ {p} /\ Callback("clean") /\ UNCHANGED <<intent, cbTok>>
         ELSE CallbackEnds /\ todo' = {} /\ intent' = FALSE
    /\ UNCHANGED <<stored, conn, login, logout, gone>>

\* cleanPendingRevocations that is not awaited.
CallbackExchanges_BeforeCleaned ==
    /\ cb = "clean"
    /\ Callback("exchange")
    /\ UNCHANGED <<server, disk, vol, conn, login, cbTok, todo, logout, gone>>

CallbackExchanges ==
    /\ cb = "clean" /\ todo = {}
    /\ Callback("exchange")
    /\ UNCHANGED <<server, disk, vol, conn, login, cbTok, todo, logout, gone>>

(* Any failure before a token is issued: the chunk, storage, the provider's*)
(* error, the exchange.  A late exchange clears what is stored by then.    *)
CallbackFails ==
    /\ cb \in {"load", "clean", "exchange"}
    /\ CallbackEnds
    /\ todo' = (IF cb = "clean" THEN {} ELSE todo)
    /\ IF cb = "exchange" THEN stored' = None /\ intent' = FALSE
                          ELSE UNCHANGED stored /\ intent' \in {intent, FALSE}
    /\ UNCHANGED <<server, pend, vol, conn, login, logout, gone>>

(* withTimeout rejects and aborts; the exchange goes on.  (A whoami or a    *)
(* revocation is ended by the abort at once: CallbackRefuses, then         *)
(* CallbackRejects without a confirmation.)                                *)
CallbackTimesOut ==
    /\ cb = "exchange" /\ ~late
    /\ late' = TRUE /\ status' = "error"
    /\ UNCHANGED <<server, disk, vol, conn, login, cb, cbTok, todo, logout, gone>>

Issued(g) == server[g].state = "none" /\ server' = [server EXCEPT ![g].state = "live"]

(* The answer: its tokens are validated, then whoami is asked; a late one  *)
(* is only remembered, the signal being aborted.                           *)
CallbackIssued(g, sound, ok) ==
    /\ cb = "exchange" /\ Issued(g)
    /\ IF late THEN /\ Remembers(<<g, 1>>, ok) /\ CallbackEnds
                    /\ UNCHANGED <<stored, intent>>
               ELSE /\ Callback(IF sound /\ ok THEN "whoami" ELSE "reject")
                    /\ cbTok' = <<g, 1>>
                    /\ IF ok THEN stored' = None /\ intent' = FALSE
                             ELSE UNCHANGED <<stored, intent>>
                    /\ UNCHANGED <<pend, vol>>
    /\ UNCHANGED <<conn, login, todo, logout, gone>>

\* The code is exchanged, but the answer does not arrive.
CallbackAnswerLost(g) ==
    /\ cb = "exchange" /\ Issued(g)
    /\ CallbackEnds
    /\ stored' = None /\ intent' = FALSE /\ lost' = lost \union {g}
    /\ UNCHANGED <<pend, vol, conn, login, todo, logout, dropped>>

(* The page of the callback is configured for another homeserver than the  *)
(* one that issued the tokens: they are neither revoked nor remembered.    *)
CallbackElsewhere(g, ok) ==
    /\ cb = "exchange" /\ Issued(g)
    /\ CallbackEnds
    /\ IF ok /\ ~late THEN stored' = None /\ intent' = FALSE
                      ELSE UNCHANGED <<stored, intent>>
    /\ lost' = lost \union {g}
    /\ UNCHANGED <<pend, vol, conn, login, todo, logout, dropped>>

(* The identity is confirmed and nothing is pending: the session is stored *)
(* and connected.                                                          *)
CallbackCompletes ==
    /\ cb = "whoami" /\ Pending = {} /\ stored = None
    /\ stored' = cbTok
    /\ client' = "building" /\ current' = TRUE /\ csess' = cbTok
    /\ cb' = "none" /\ cbTok' = None
    /\ UNCHANGED <<server, pend, intent, status, vol, flight, login, late, todo, logout, gone>>

\* It is not, or the session cannot be stored.
CallbackRefuses ==
    /\ cb = "whoami"
    /\ Callback("reject")
    /\ UNCHANGED <<server, disk, vol, conn, login, cbTok, todo, logout, gone>>

CallbackRejects(outcome) ==
    /\ cb = "reject"
    /\ revokeOrRemember(cbTok, outcome)
    /\ CallbackEnds
    /\ UNCHANGED <<stored, intent, conn, login, todo, logout, gone>>

-----------------------------------------------------------------------------
(* logout().                                                               *)
StartLogout(ok) ==
    /\ status = "ready" /\ logout = None
    /\ Invalidates(ok)
    /\ IF ok THEN logout' = csess /\ UNCHANGED status
             ELSE status' = "error" /\ UNCHANGED logout
    /\ UNCHANGED <<server, disk, vol, login, callb, todo, gone>>

(* Confirmed: the session is cleared, unless a newer one is stored, which  *)
(* is revoked next.  Otherwise the session stays with its pending          *)
(* revocation.                                                             *)
LogoutRevokes(outcome, ok) ==
    /\ logout # None
    /\ revokeOrRemember(logout, outcome)
    /\ CASE outcome = "confirmed" /\ stored \notin {None, logout} ->
              logout' = stored /\ UNCHANGED <<stored, status>>
         [] outcome = "confirmed" /\ stored \in {None, logout} ->
              /\ logout' = None
              /\ stored' = (IF ok THEN None ELSE stored)
              /\ status' = (IF ok THEN "signed-out" ELSE "error")
         [] outcome # "confirmed" -> logout' = None /\ status' = "error" /\ UNCHANGED stored
    /\ UNCHANGED <<intent, conn, login, callb, todo, gone>>

-----------------------------------------------------------------------------
\* What the page does by itself, its timers, and the requests a timer bounds.
Succeeds ==
    \/ ConnectTimesOut \/ BeginLogin \/ LoginNothingToRevoke \/ LoginRedirects \/ Navigate
    \/ \E p \in todo : LoginCleans(p, "confirmed", TRUE) \/ CallbackCleans(p, "confirmed")
    \/ LoginRevokes("confirmed", TRUE)
    \/ BeginCallback \/ CallbackExchanges \/ CallbackTimesOut \/ CallbackCompletes
    \/ CallbackRejects("confirmed") \/ LogoutRevokes("confirmed", TRUE)

\* Lost answers, denied storage, failures and reloads.
Fault ==
    \/ Reload \/ LoadFails \/ ConnectFails \/ ConnectReady(FALSE) \/ RefreshAnswered(FALSE)
    \/ LoginEnds \/ CallbackFails \/ CallbackRefuses \/ StartLogout(FALSE)
    \/ \E p \in todo, o \in Outcomes, ok \in BOOLEAN :
         (o # "confirmed" \/ ~ok) /\ (LoginCleans(p, o, ok) \/ (ok /\ CallbackCleans(p, o)))
    \/ \E o \in Outcomes, ok \in BOOLEAN :
         (o # "confirmed" \/ ~ok)
           /\ (LoginRevokes(o, ok) \/ LogoutRevokes(o, ok) \/ (ok /\ CallbackRejects(o)))
    \/ \E g \in Grants :
         CallbackAnswerLost(g) \/ \E ok \in BOOLEAN : CallbackElsewhere(g, ok)

Works ==
    \/ Succeeds
    \/ ConnectReady(TRUE) \/ RefreshAnswered(TRUE)
    \/ LoadPage \/ LoadCallback \/ StartLogin \/ StartLogout(TRUE) \/ RefreshSent
    \/ \E g \in Grants :
         \/ Expire(g) \/ EndElsewhere(g)
         \/ \E sound, ok \in BOOLEAN : CallbackIssued(g, sound, ok)

Next == Works \/ Fault

Spec == Init /\ [][Next]_vars

(* The page goes on, its timers fire, the user who sees a login button     *)
(* clicks it, and from some time on every step is one that works (it may   *)
(* look like a fault: a reload while the page redirects).  A page is       *)
(* loaded again after a redirect.                                          *)
LiveSpec ==
    Spec /\ WF_vars(Succeeds) /\ WF_vars(LoadPage) /\ SF_vars(StartLogin) /\ <>[][Works]_vars

-----------------------------------------------------------------------------
(* Every variable keeps its type.                                          *)
TypeOK ==
    /\ server \in [Grants -> [state : {"none", "live", "ended"}, n : 1..MaxGen,
                              expired : BOOLEAN]]
    /\ stored \in Tokens \union {None} /\ pend \subseteq Tokens /\ intent \in BOOLEAN
    /\ status \in {"away", "signed-out", "connecting", "ready", "error"}
    /\ vol \subseteq Tokens /\ todo \subseteq Tokens
    /\ client \in {"none", "building", "shown", "stray"} /\ current \in BOOLEAN
    /\ csess \in Tokens \union {None} /\ flight \in Tokens \union {None}
    /\ login \in {"none", "load", "clean", "discover", "redirect"}
    /\ cb \in {"none", "load", "clean", "exchange", "whoami", "reject"} /\ late \in BOOLEAN
    /\ cbTok \in Tokens \union {None} /\ logout \in Tokens \union {None}
    /\ lost \subseteq Grants /\ dropped \subseteq Grants

(* Every access token that the server accepts is stored, pending or in the *)
(* hands of an operation: no login, callback, logout or cleanup loses one, *)
(* whichever of its requests and writes fail.  Exempt are the tokens whose *)
(* answer never came, came after its generation or its session was         *)
(* replaced, or came for another homeserver; those that were only in       *)
(* memory when the page was left; and those a rotation could not store.    *)
Recorded(g) == Newest(g) \in {stored, cbTok, flight} \union pend \union vol
NoTokenForgotten ==
    \A g \in Grants \ (lost \union dropped) : Valid(Newest(g)) => Recorded(g)

(* session.ts: "A storage denial must not make an issued bearer token      *)
(* disappear without a retry path."  The same without the last exemption.  *)
(* (Run web_denied: it does when the tokens are those of a refresh.)       *)
DenialKeepsRetry ==
    \A g \in Grants \ lost : Valid(Newest(g)) => Recorded(g)

(* The list of pending revocations never grows: every flow works off the   *)
(* one that is pending before it can leave another one, a callback that    *)
(* is late among them.                                                     *)
OneRevocationPending == \A s, t \in Pending : s = t

(* A page is never at a dead end: one that is away can be loaded, one that *)
(* shows the login button can start the login, and one that connects has   *)
(* something that goes on by itself.                                       *)
PageGoesOn ==
    /\ status = "away" => ENABLED <<LoadPage>>_vars
    /\ status \in {"signed-out", "error"} => ENABLED <<StartLogin>>_vars
    /\ status = "connecting" => ENABLED <<Succeeds>>_vars

(* A client is shown only while no other operation runs, no revocation is  *)
(* pending, and the session it uses is the stored one: a client that is    *)
(* ready after its deadline or after the user went on is never shown.      *)
ShownAlone ==
    client = "shown" =>
        /\ current /\ status = "ready"
        /\ login = "none" /\ cb = "none" /\ logout = None
        /\ Pending = {} /\ stored = csess

(* What is stored, as a session or as a pending revocation, is given up    *)
(* only when the server does not accept it any more: across logouts,       *)
(* rotations, replaced logins, callbacks and reloads.                      *)
Custody == INSTANCE GrantCustody WITH
    Grants <- Tokens,
    issued <- {t \in Tokens : server[t[1]].state # "none" /\ t[2] <= server[t[1]].n},
    live   <- {t \in Tokens : Valid(t)},
    held   <- ({cbTok, flight} \union vol) \ {None},
    kept   <- ({stored} \ {None}) \union pend
StoredUntilEnded == Custody!KeptUntilEnded

(* A pending revocation blocks the stored session and every sign-in; it    *)
(* does not do so for ever.                                                *)
PendingCleared == pend # {} ~> pend = {}

(* StorageContext.tsx: "never leave users on infinite Connecting".         *)
ConnectingEnds == status = "connecting" ~> status # "connecting"

=============================================================================
