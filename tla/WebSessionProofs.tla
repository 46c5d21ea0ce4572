---------------------------- MODULE WebSessionProofs ----------------------------
(* Theorems of WebSession for every set of grants and every bound: its     *)
(* type invariant and all safety properties of its run.                    *)
EXTENDS WebSession, TLAPS

(* At most one of connection, login, callback and logout is going on, with *)
(* the exception of a callback whose deadline has passed.                  *)
OneOperation ==
    /\ status = "away" =>
         /\ client = "none" /\ login = "none" /\ cb = "none"
         /\ vol = {} /\ flight = None /\ logout = None /\ todo = {} /\ ~current
    /\ late => cb = "exchange"
    /\ cb = "whoami" => ~intent
    /\ cbTok # None <=> cb \in {"whoami", "reject"}
    /\ cb # "none" => ~current /\ flight = None
    /\ cb # "none" /\ ~late =>
         login = "none" /\ logout = None /\ client = "none" /\ status = "connecting"
    /\ login # "none" =>
         /\ status = "connecting" /\ logout = None /\ ~current
         /\ cb = "none" \/ late
    /\ logout # None => status = "ready" /\ ~current /\ cb = "none"

(* The connection of the current generation uses the stored session.       *)
CurrentConnection ==
    /\ current =>
         /\ client # "stray"
         /\ client = "none" => status = "error"
         /\ csess # None /\ stored = csess /\ Pending = {}
         /\ login = "none" /\ cb = "none" /\ logout = None
         /\ client = "building" => status = "connecting"
    /\ client = "shown" => current /\ status = "ready"
    /\ client = "building" => csess # None
    /\ status = "ready" => client = "shown" \/ logout # None
    /\ status = "signed-out" => ~current

(* A refresh answer is newer than the session it refreshes.                *)
AnswerIsNewer ==
    flight # None =>
        /\ csess # None
        /\ flight[1] = csess[1] /\ flight[2] = csess[2] + 1
        /\ flight[2] <= server[flight[1]].n

(* Nothing is stored from the redirect to the end of the callback.         *)
SlateIsClean ==
    intent \/ cb # "none" \/ login \in {"discover", "redirect"} => stored = None

(* A grant that was never signed in still has its first token.             *)
UnusedGrants == \A g \in Grants : server[g].state = "none" => server[g].n = 1

(* The inductive invariant.                                                *)
IInv ==
    /\ TypeOK
    /\ OneOperation
    /\ CurrentConnection
    /\ AnswerIsNewer
    /\ SlateIsClean
    /\ UnusedGrants
    /\ NoTokenForgotten

(* What the server keeps of a grant, and the types of the page.            *)
Accounts == [state : {"none", "live", "ended"}, n : 1..MaxGen, expired : BOOLEAN]

PageTypes ==
    /\ stored \in Tokens \union {None} /\ pend \subseteq Tokens /\ intent \in BOOLEAN
    /\ status \in {"away", "signed-out", "connecting", "ready", "error"}
    /\ vol \subseteq Tokens /\ todo \subseteq Tokens
    /\ client \in {"none", "building", "shown", "stray"} /\ current \in BOOLEAN
    /\ csess \in Tokens \union {None} /\ flight \in Tokens \union {None}
    /\ login \in {"none", "load", "clean", "discover", "redirect"}
    /\ late \in BOOLEAN
    /\ cb \in {"none", "load", "clean", "exchange", "whoami", "reject"}
    /\ cbTok \in Tokens \union {None} /\ logout \in Tokens \union {None}
    /\ lost \subseteq Grants /\ dropped \subseteq Grants

(* The server has at most ended grants.                                    *)
OnlyEnds ==
    /\ server' \in [Grants -> Accounts]
    /\ \A g \in Grants :
         /\ server'[g].n = server[g].n
         /\ server'[g].state = "none" <=> server[g].state = "none"
    /\ \A t \in Tokens : Valid(t)' => Valid(t)

-----------------------------------------------------------------------------
(* The type invariant, in the parts that the steps below use.              *)
LEMMA TypeParts == TypeOK <=> server \in [Grants -> Accounts] /\ PageTypes
  BY DEF TypeOK, Accounts, PageTypes

(* A token is a pair of a grant and a generation.                          *)
LEMMA TokenParts ==
    /\ \A t \in Tokens :
         t[1] \in Grants /\ t[2] \in 1..MaxGen /\ t = <<t[1], t[2]>> /\ t # None
    /\ \A g \in Grants, n \in 1..MaxGen :
         <<g, n>> \in Tokens /\ <<g, n>>[1] = g /\ <<g, n>>[2] = n
  BY WebConstants DEF Tokens

(* The updates of a grant keep its type.                                   *)
LEMMA ServerTyped ==
    ASSUME server \in [Grants -> Accounts], NEW g \in Grants
    PROVE  /\ [server EXCEPT ![g].expired = TRUE] \in [Grants -> Accounts]
           /\ \A n \in 1..MaxGen :
                [server EXCEPT ![g].n = n, ![g].expired = FALSE] \in [Grants -> Accounts]
<1>1. server[g] \in Accounts
  OBVIOUS
<1>2. [server EXCEPT ![g].expired = TRUE] \in [Grants -> Accounts]
  BY <1>1 DEF Accounts
<1>3. ASSUME NEW n \in 1..MaxGen
      PROVE  [server EXCEPT ![g].n = n, ![g].expired = FALSE] \in [Grants -> Accounts]
  <2>1. [server[g] EXCEPT !.n = n, !.expired = FALSE] \in Accounts
    BY <1>1 DEF Accounts
  <2> DEFINE s == [server EXCEPT ![g].n = n, ![g].expired = FALSE]
  <2>2. s = [server EXCEPT ![g] = [server[g] EXCEPT !.n = n, !.expired = FALSE]]
    BY <1>1 DEF Accounts
  <2> QED
    BY <2>1, <2>2
<1> QED
  BY <1>2, <1>3

(* Presenting a token to the server can only end the grant of the token,   *)
(* and the token is not accepted after it.                                 *)
LEMMA EndsOnly ==
    ASSUME server \in [Grants -> Accounts], NEW t \in Tokens,
           Presents(t) \/ UNCHANGED server
    PROVE  /\ OnlyEnds
           /\ Presents(t) => ~Valid(t)'
<1>0. t[1] \in Grants
  BY TokenParts
<1>1. CASE Presents(t) /\ Valid(t)
  <2>1. server' = [server EXCEPT ![t[1]].state = "ended"]
    BY <1>1 DEF Presents
  <2>2. server' \in [Grants -> Accounts]
    BY <1>0, <2>1 DEF Accounts
  <2>3. \A g \in Grants :
          /\ server'[g].n = server[g].n /\ server'[g].expired = server[g].expired
          /\ server'[g].state = IF g = t[1] THEN "ended" ELSE server[g].state
    BY <1>0, <2>1 DEF Accounts
  <2>4. server[t[1]].state = "live"
    BY <1>1 DEF Valid, Live
  <2> QED
    BY <1>0, <2>2, <2>3, <2>4, TokenParts DEF OnlyEnds, Valid, Live, Newest
<1>2. CASE UNCHANGED server /\ ~(Presents(t) /\ Valid(t))
  <2>1. \A u \in Tokens : Valid(u)' <=> Valid(u)
    BY <1>2 DEF Valid, Live, Newest
  <2> QED
    BY <1>2, <2>1 DEF OnlyEnds
<1> QED
  BY <1>1, <1>2 DEF Presents

(* The tokens that the server accepts.                                     *)
Accepted == {t \in Tokens : Valid(t)}

(* The tokens a step has tried to revoke: such a token is not accepted any *)
(* more or stays pending, and so do the other pending ones.                *)
Revoked ==
    {t \in Tokens :
        /\ pend \ {t} \subseteq pend' /\ Pending \ {t} \subseteq vol'
        /\ t \in Accepted' => t \in vol' /\ pend \subseteq pend'}

(* Each way the page revokes a token is one.                               *)
LEMMA Revocation ==
    ASSUME server \in [Grants -> Accounts], pend \subseteq Tokens, vol \subseteq Tokens,
           NEW t \in Tokens, NEW outcome \in Outcomes, revokeOrRemember(t, outcome)
    PROVE  /\ OnlyEnds /\ t \in Revoked
           /\ pend' \subseteq Tokens /\ vol' \subseteq Tokens
           /\ outcome = "confirmed" => t \notin Accepted'
<1>1. CASE outcome = "confirmed"
  <2>1. Presents(t) /\ clearPendingRevocation(t)
    BY <1>1 DEF revokeOrRemember
  <2> QED
    BY <1>1, <2>1, EndsOnly DEF Revoked, Accepted, clearPendingRevocation, Pending
<1>2. CASE outcome # "confirmed"
  <2>1. /\ Presents(t) \/ UNCHANGED server
        /\ Remembers(t, outcome = "remembered")
    BY <1>2 DEF revokeOrRemember
  <2> QED
    BY <1>2, <2>1, EndsOnly DEF Revoked, Accepted, Remembers, Pending
<1> QED
  BY <1>1, <1>2

(* So is a step of the cleanup before a login.                             *)
LEMMA Cleaning ==
    ASSUME server \in [Grants -> Accounts], pend \subseteq Tokens, vol \subseteq Tokens,
           NEW t \in Tokens, NEW outcome \in Outcomes, NEW ok \in BOOLEAN,
           LoginCleans(t, outcome, ok)
    PROVE  /\ OnlyEnds /\ t \in Revoked
           /\ pend' \subseteq Tokens /\ vol' \subseteq Tokens
           /\ stored' = stored \/ (stored = t /\ t \notin Accepted')
<1>1. CASE outcome = "confirmed" /\ Presents(t) /\ PendingAgain(t) /\ stored' = stored
  BY <1>1, EndsOnly DEF Revoked, Accepted, PendingAgain, Pending
<1>2. CASE revokeOrRemember(t, outcome) /\ stored' = stored
  BY <1>2, Revocation
<1>3. CASE revokeOrRemember(t, outcome) /\ outcome = "confirmed" /\ stored = t
  BY <1>3, Revocation
<1> QED
  BY <1>1, <1>2, <1>3 DEF LoginCleans

(* The newest token of a grant, after a revocation of t.                   *)
LEMMA Unforgotten ==
    ASSUME IInv, NEW t \in Revoked, OnlyEnds,
           NEW g \in Grants \ (lost \union dropped), Valid(Newest(g))'
    PROVE  /\ Newest(g) \in {stored, cbTok, flight} \union pend' \union vol'
           /\ Newest(g) = t => t \in vol'
           /\ Newest(g)' = Newest(g)
<1> USE TokenParts DEF IInv, TypeOK
<1>1. /\ OnlyEnds
      /\ pend \ {t} \subseteq pend' /\ Pending \ {t} \subseteq vol'
      /\ Valid(t)' => t \in vol'
  BY DEF Revoked, Accepted
<1>2. Newest(g)' = Newest(g) /\ Newest(g) \in Tokens
  BY <1>1 DEF OnlyEnds, Newest
<1>3. Valid(Newest(g))' => Valid(Newest(g))
  BY <1>1, <1>2 DEF OnlyEnds, Valid, Live, Newest
<1>4. Newest(g) \in {stored, cbTok, flight} \union pend \union vol
  BY <1>3 DEF NoTokenForgotten, Recorded
<1>5. Newest(g) = t => t \in vol'
  BY <1>1, <1>2 DEF Valid, Live, Newest
<1> QED
  BY <1>1, <1>2, <1>4, <1>5 DEF Pending

(* The steps of the server keep its type.                                  *)
LEMMA ServerStep ==
    ASSUME IInv, NEW g \in Grants,
           Expire(g) \/ EndElsewhere(g) \/ Issued(g) \/ (RefreshSent /\ g = csess[1])
    PROVE  server' \in [Grants -> Accounts]
<1>1. server \in [Grants -> Accounts] /\ server[g] \in Accounts
  BY DEF IInv, TypeOK, Accounts
<1>2. CASE Expire(g)
  BY <1>1, <1>2, ServerTyped DEF Expire
<1>3. CASE EndElsewhere(g)
  BY <1>1, <1>3 DEF EndElsewhere, Accounts
<1>4. CASE Issued(g)
  BY <1>1, <1>4 DEF Issued, Accounts
<1>5. CASE RefreshSent /\ g = csess[1]
  <2>1. server[g].n + 1 \in 1..MaxGen
    BY <1>1, <1>5, WebConstants DEF RefreshSent, Accounts
  <2>2. server' = [server EXCEPT ![g].n = server[g].n + 1, ![g].expired = FALSE]
    BY <1>1, <1>5 DEF RefreshSent, Accounts
  <2> QED
    BY <1>1, <2>1, <2>2, ServerTyped
<1> QED
  BY <1>2, <1>3, <1>4, <1>5

-----------------------------------------------------------------------------
(* Every step keeps the types of the page.                                 *)
LEMMA TypeStep == IInv /\ [Next]_vars => PageTypes'
<1> SUFFICES ASSUME IInv, [Next]_vars PROVE PageTypes'
  OBVIOUS
<1>0. server \in [Grants -> Accounts] /\ PageTypes
  BY TypeParts DEF IInv
<1> USE <1>0 DEF PageTypes, disk, conn, callb, gone
<1>1. ASSUME NEW g \in Grants, Expire(g) PROVE PageTypes'
  BY <1>1 DEF Expire
<1>2. ASSUME NEW g \in Grants, EndElsewhere(g) PROVE PageTypes'
  BY <1>2 DEF EndElsewhere
<1>3. ASSUME LoadPage PROVE PageTypes'
  <2>1. (intent \in BOOLEAN)'
    BY <1>3 DEF LoadPage
  <2>2. (/\ status \in {"away", "signed-out", "connecting", "ready", "error"}
         /\ client \in {"none", "building", "shown", "stray"} /\ current \in BOOLEAN
         /\ csess \in Tokens \union {None})'
    BY <1>3 DEF LoadPage, Restores
  <2> QED
    BY <1>3, <2>1, <2>2 DEF LoadPage
<1>4. ASSUME LoadFails PROVE PageTypes'
  BY <1>4 DEF LoadFails
<1>5. ASSUME LoadCallback PROVE PageTypes'
  BY <1>5 DEF LoadCallback
<1>6. ASSUME NEW ok \in BOOLEAN, ConnectReady(ok) PROVE PageTypes'
  BY <1>6 DEF ConnectReady
<1>7. ASSUME ConnectFails PROVE PageTypes'
  BY <1>7 DEF ConnectFails
<1>8. ASSUME ConnectTimesOut PROVE PageTypes'
  BY <1>8 DEF ConnectTimesOut
<1>9. ASSUME RefreshSent PROVE PageTypes'
  <2>1. csess[1] \in Grants /\ server[csess[1]].n + 1 \in 1..MaxGen
    BY <1>9, TokenParts, WebConstants DEF RefreshSent, IInv, CurrentConnection, Accounts
  <2>2. flight' \in Tokens
    BY <1>9, <2>1, TokenParts DEF RefreshSent
  <2> QED
    BY <1>9, <2>2 DEF RefreshSent
<1>10. ASSUME NEW ok \in BOOLEAN, RefreshAnswered(ok) PROVE PageTypes'
  <2>1. (lost \subseteq Grants /\ dropped \subseteq Grants)'
    BY <1>10, TokenParts DEF RefreshAnswered
  <2> QED
    BY <1>10, <2>1 DEF RefreshAnswered
<1>11. ASSUME StartLogin PROVE PageTypes'
  BY <1>11 DEF StartLogin, Invalidates
<1>12. ASSUME BeginLogin PROVE PageTypes'
  <2>1. (todo \subseteq Tokens /\ vol \subseteq Tokens)'
    BY <1>12 DEF BeginLogin, Pending
  <2>2. (/\ intent \in BOOLEAN
         /\ login \in {"none", "load", "clean", "discover", "redirect"}
         /\ client \in {"none", "building", "shown", "stray"} /\ current \in BOOLEAN
         /\ csess \in Tokens \union {None} /\ flight \in Tokens \union {None}
         /\ late \in BOOLEAN
         /\ cb \in {"none", "load", "clean", "exchange", "whoami", "reject"}
         /\ cbTok \in Tokens \union {None})'
    BY <1>12 DEF BeginLogin
  <2>3. UNCHANGED <<stored, pend, status, logout, lost, dropped>>
    BY <1>12 DEF BeginLogin
  <2> QED
    BY <2>1, <2>2, <2>3
<1>13. ASSUME NEW p \in todo, NEW outcome \in Outcomes, NEW ok \in BOOLEAN,
              LoginCleans(p, outcome, ok)
       PROVE  PageTypes'
  <2>2. pend' \subseteq Tokens /\ vol' \subseteq Tokens
    BY <1>13, Cleaning
  <2>3. (/\ stored \in Tokens \union {None} /\ todo \subseteq Tokens
         /\ login \in {"none", "load", "clean", "discover", "redirect"}
         /\ status \in {"away", "signed-out", "connecting", "ready", "error"})'
    BY <1>13 DEF LoginCleans, LoginFails
  <2> QED
    BY <1>13, <2>2, <2>3 DEF LoginCleans
<1>14. ASSUME NEW outcome \in Outcomes, NEW ok \in BOOLEAN, LoginRevokes(outcome, ok)
       PROVE  PageTypes'
  <2>1. stored \in Tokens /\ revokeOrRemember(stored, outcome)
    BY <1>14, TokenParts DEF LoginRevokes, IInv, OneOperation
  <2>2. pend' \subseteq Tokens /\ vol' \subseteq Tokens
    BY <2>1, Revocation
  <2> QED
    BY <1>14, <2>2 DEF LoginRevokes, LoginFails
<1>15. ASSUME LoginNothingToRevoke PROVE PageTypes'
  BY <1>15 DEF LoginNothingToRevoke
<1>16. ASSUME LoginRedirects PROVE PageTypes'
  BY <1>16 DEF LoginRedirects
<1>17. ASSUME LoginEnds PROVE PageTypes'
  BY <1>17 DEF LoginEnds, LoginFails
<1>18. ASSUME Navigate PROVE PageTypes'
  <2>1. (lost \subseteq Grants)'
    BY <1>18, TokenParts DEF Navigate, Leaves, InMemory
  <2> QED
    BY <1>18, <2>1 DEF Navigate, Leaves
<1>19. ASSUME Reload PROVE PageTypes'
  <2>1. (lost \subseteq Grants)'
    BY <1>19, TokenParts DEF Reload, Leaves, InMemory
  <2> QED
    BY <1>19, <2>1 DEF Reload, Leaves
<1>20. ASSUME BeginCallback PROVE PageTypes'
  BY <1>20 DEF BeginCallback, Callback, Pending
<1>21. ASSUME NEW p \in todo, NEW outcome \in Outcomes, CallbackCleans(p, outcome)
       PROVE  PageTypes'
  <2>1. p \in Tokens /\ revokeOrRemember(p, outcome)
    BY <1>21, TokenParts DEF CallbackCleans, IInv, OneOperation
  <2>2. pend' \subseteq Tokens /\ vol' \subseteq Tokens
    BY <2>1, Revocation
  <2>3. (/\ cbTok \in Tokens \union {None} /\ intent \in BOOLEAN /\ late \in BOOLEAN
         /\ todo \subseteq Tokens
         /\ cb \in {"none", "load", "clean", "exchange", "whoami", "reject"}
         /\ status \in {"away", "signed-out", "connecting", "ready", "error"})'
    BY <1>21 DEF CallbackCleans, Callback, CallbackEnds
  <2> QED
    BY <1>21, <2>2, <2>3 DEF CallbackCleans
<1>22. ASSUME CallbackExchanges PROVE PageTypes'
  BY <1>22 DEF CallbackExchanges, Callback
<1>23. ASSUME CallbackFails PROVE PageTypes'
  BY <1>23 DEF CallbackFails, CallbackEnds
<1>24. ASSUME CallbackTimesOut PROVE PageTypes'
  BY <1>24 DEF CallbackTimesOut
<1>25. ASSUME NEW g \in Grants, NEW sound \in BOOLEAN, NEW ok \in BOOLEAN,
              CallbackIssued(g, sound, ok)
       PROVE  PageTypes'
  <2>1. (cbTok \in Tokens \union {None} /\ pend \subseteq Tokens /\ vol \subseteq Tokens)'
    BY <1>25, TokenParts, WebConstants
       DEF CallbackIssued, CallbackEnds, Remembers, Pending
  <2>2. (/\ stored \in Tokens \union {None} /\ intent \in BOOLEAN /\ late \in BOOLEAN
         /\ cb \in {"none", "load", "clean", "exchange", "whoami", "reject"}
         /\ status \in {"away", "signed-out", "connecting", "ready", "error"})'
    BY <1>25 DEF CallbackIssued, Callback, CallbackEnds
  <2> QED
    BY <1>25, <2>1, <2>2 DEF CallbackIssued
<1>26. ASSUME NEW g \in Grants, NEW ok \in BOOLEAN,
              CallbackAnswerLost(g) \/ CallbackElsewhere(g, ok)
       PROVE  PageTypes'
  BY <1>26 DEF CallbackAnswerLost, CallbackElsewhere, CallbackEnds, Issued
<1>27. ASSUME CallbackCompletes PROVE PageTypes'
  BY <1>27 DEF CallbackCompletes
<1>28. ASSUME CallbackRefuses PROVE PageTypes'
  BY <1>28 DEF CallbackRefuses, Callback
<1>29. ASSUME NEW outcome \in Outcomes, CallbackRejects(outcome) PROVE PageTypes'
  <2>1. cbTok \in Tokens /\ revokeOrRemember(cbTok, outcome)
    BY <1>29, TokenParts DEF CallbackRejects, IInv, OneOperation
  <2>2. pend' \subseteq Tokens /\ vol' \subseteq Tokens
    BY <2>1, Revocation
  <2> QED
    BY <1>29, <2>2 DEF CallbackRejects, CallbackEnds
<1>30. ASSUME NEW ok \in BOOLEAN, StartLogout(ok) PROVE PageTypes'
  BY <1>30 DEF StartLogout, Invalidates
<1>31. ASSUME NEW outcome \in Outcomes, NEW ok \in BOOLEAN, LogoutRevokes(outcome, ok)
       PROVE  PageTypes'
  <2>1. logout \in Tokens /\ revokeOrRemember(logout, outcome)
    BY <1>31, TokenParts DEF LogoutRevokes, IInv, OneOperation
  <2>2. pend' \subseteq Tokens /\ vol' \subseteq Tokens
    BY <2>1, Revocation
  <2>3. (/\ stored \in Tokens \union {None} /\ logout \in Tokens \union {None}
         /\ status \in {"away", "signed-out", "connecting", "ready", "error"})'
    BY <1>31, <2>1 DEF LogoutRevokes, Outcomes
  <2> QED
    BY <1>31, <2>2, <2>3 DEF LogoutRevokes
<1>32. CASE UNCHANGED vars
  BY <1>32 DEF vars
<1>33. CASE Succeeds
  BY <1>33, <1>8, <1>12, <1>13, <1>14, <1>15, <1>16, <1>18, <1>20, <1>21, <1>22, <1>24,
     <1>27, <1>29, <1>31
     DEF Succeeds, Outcomes
<1>34. CASE Fault
  <2>1. ASSUME NEW p \in todo, NEW o \in Outcomes, NEW ok \in BOOLEAN,
               /\ o # "confirmed" \/ ~ok
               /\ LoginCleans(p, o, ok) \/ (ok /\ CallbackCleans(p, o))
        PROVE  PageTypes'
    BY <2>1, <1>13, <1>21
  <2>2. ASSUME NEW o \in Outcomes, NEW ok \in BOOLEAN,
               /\ o # "confirmed" \/ ~ok
               /\ \/ LoginRevokes(o, ok) \/ LogoutRevokes(o, ok)
                  \/ ok /\ CallbackRejects(o)
        PROVE  PageTypes'
    BY <2>2, <1>14, <1>29, <1>31
  <2>3. ASSUME \/ Reload \/ LoadFails \/ ConnectFails
               \/ ConnectReady(FALSE) \/ RefreshAnswered(FALSE) \/ LoginEnds
               \/ CallbackFails \/ CallbackRefuses \/ StartLogout(FALSE)
        PROVE  PageTypes'
    BY <2>3, <1>4, <1>6, <1>7, <1>10, <1>17, <1>19, <1>23, <1>28, <1>30
  <2> QED
    BY <1>34, <2>1, <2>2, <2>3, <1>26 DEF Fault
<1> QED
  BY <1>32, <1>33, <1>34, <1>1, <1>2, <1>3, <1>5, <1>6, <1>9, <1>10, <1>11, <1>25,
     <1>30
     DEF Next, Works

(* The types after a step, put together again.                             *)
LEMMA TypesThen == server' \in [Grants -> Accounts] /\ PageTypes' => TypeOK'
  BY DEF TypeOK, Accounts, PageTypes

-----------------------------------------------------------------------------
(* Every step keeps the invariant: one case per action.                    *)
LEMMA StepInvariant == IInv /\ [Next]_vars => IInv'
<1> SUFFICES ASSUME IInv, [Next]_vars PROVE IInv'
  OBVIOUS
<1>0. server \in [Grants -> Accounts] /\ PageTypes /\ PageTypes'
  BY TypeParts, TypeStep DEF IInv
<1> DEFINE Server == server' \in [Grants -> Accounts]
<1> DEFINE Rest == /\ OneOperation /\ CurrentConnection /\ AnswerIsNewer
                   /\ SlateIsClean /\ UnusedGrants /\ NoTokenForgotten
<1> SUFFICES Server /\ Rest'
  BY <1>0, TypesThen DEF IInv
<1> USE <1>0, TokenParts, WebConstants
        DEF IInv, PageTypes, Accounts, OneOperation, CurrentConnection, AnswerIsNewer,
            SlateIsClean, UnusedGrants, NoTokenForgotten, Recorded, disk, conn, callb, gone, Valid,
            Live, Newest, Pending
<1>1. ASSUME NEW g \in Grants, Expire(g) PROVE Server /\ Rest'
  <2>1. Server
    BY <1>1, ServerStep
  <2>2. Rest'
    BY <1>1 DEF Expire
  <2> QED
    BY <2>1, <2>2
<1>2. ASSUME NEW g \in Grants, EndElsewhere(g) PROVE Server /\ Rest'
  BY <1>2 DEF EndElsewhere
<1>3. ASSUME LoadPage PROVE Server /\ Rest'
  <2>1. Server /\ OneOperation' /\ CurrentConnection' /\ UnusedGrants'
    BY <1>3 DEF LoadPage, Restores
  <2>2. SlateIsClean'
    BY <1>3 DEF LoadPage, Restores
  <2>3. NoTokenForgotten' /\ AnswerIsNewer'
    BY <1>3 DEF LoadPage, Restores
  <2> QED
    BY <2>1, <2>2, <2>3
<1>4. ASSUME LoadFails PROVE Server /\ Rest'
  BY <1>4 DEF LoadFails
<1>5. ASSUME LoadCallback PROVE Server /\ Rest'
  BY <1>5 DEF LoadCallback
<1>6. ASSUME NEW ok \in BOOLEAN, ConnectReady(ok) PROVE Server /\ Rest'
  BY <1>6 DEF ConnectReady
<1>7. ASSUME ConnectFails PROVE Server /\ Rest'
  BY <1>7 DEF ConnectFails
<1>8. ASSUME ConnectTimesOut PROVE Server /\ Rest'
  BY <1>8 DEF ConnectTimesOut
<1>9. ASSUME RefreshSent PROVE Server /\ Rest'
  <2>1. Server
    BY <1>9, ServerStep DEF RefreshSent
  <2>2. Rest'
    BY <1>9 DEF RefreshSent
  <2> QED
    BY <2>1, <2>2
<1>10. ASSUME NEW ok \in BOOLEAN, RefreshAnswered(ok) PROVE Server /\ Rest'
  BY <1>10 DEF RefreshAnswered
<1>11. ASSUME StartLogin PROVE Server /\ Rest'
  BY <1>11 DEF StartLogin, Invalidates
<1>12. ASSUME BeginLogin PROVE Server /\ Rest'
  BY <1>12 DEF BeginLogin
<1>13. ASSUME NEW p \in todo, NEW outcome \in Outcomes, NEW ok \in BOOLEAN,
              LoginCleans(p, outcome, ok)
       PROVE  Server /\ Rest'
  <2>1. p \in Tokens
    OBVIOUS
  <2>2. OnlyEnds /\ p \in Revoked /\ (stored' = stored \/ stored = p)
    BY <1>13, <2>1, Cleaning
  <2>3. OnlyEnds
    BY <2>2
  <2>4. \A h \in Grants \ (lost \union dropped) : Valid(Newest(h))' =>
          /\ Newest(h) \in {stored, cbTok, flight} \union pend' \union vol'
          /\ Newest(h) = p => p \in vol'
          /\ Newest(h)' = Newest(h)
    BY <2>1, <2>2, Unforgotten
  <2>5. OneOperation' /\ CurrentConnection'
    BY <1>13 DEF LoginCleans, LoginFails
  <2>6. AnswerIsNewer' /\ SlateIsClean' /\ UnusedGrants'
    BY <1>13, <2>3 DEF LoginCleans, LoginFails, OnlyEnds
  <2>7. NoTokenForgotten'
    <3> SUFFICES ASSUME NEW h \in Grants \ (lost \union dropped), Valid(Newest(h))'
                 PROVE  (Newest(h) \in {stored, cbTok, flight} \union pend \union vol)'
      BY <1>13 DEF LoginCleans
    <3>1. Newest(h) \in Tokens
      OBVIOUS
    <3> HIDE DEF Newest, Valid
    <3> QED
      BY <1>13, <2>2, <2>4, <3>1 DEF LoginCleans
  <2> QED
    BY <2>3, <2>5, <2>6, <2>7 DEF OnlyEnds
<1>14. ASSUME NEW outcome \in Outcomes, NEW ok \in BOOLEAN, LoginRevokes(outcome, ok)
       PROVE  Server /\ Rest'
  <2>1. stored \in Tokens /\ revokeOrRemember(stored, outcome)
    BY <1>14 DEF LoginRevokes
  <2>2. OnlyEnds /\ stored \in Revoked
    BY <2>1, Revocation
  <2>3. \A h \in Grants \ (lost \union dropped) : Valid(Newest(h))' =>
          /\ Newest(h) \in {stored, cbTok, flight} \union pend' \union vol'
          /\ Newest(h) = stored => stored \in vol'
          /\ Newest(h)' = Newest(h)
    BY <2>1, <2>2, Unforgotten
  <2>5. OneOperation'
    BY <1>14 DEF LoginRevokes, LoginFails
  <2>6. CurrentConnection'
    BY <1>14 DEF LoginRevokes, LoginFails
  <2>7. AnswerIsNewer'
    BY <1>14, <2>2 DEF LoginRevokes, LoginFails, OnlyEnds
  <2>8. SlateIsClean' /\ UnusedGrants'
    BY <1>14, <2>2 DEF LoginRevokes, LoginFails, OnlyEnds
  <2>9. NoTokenForgotten'
    <3> SUFFICES ASSUME NEW h \in Grants \ (lost \union dropped), Valid(Newest(h))'
                 PROVE  (Newest(h) \in {stored, cbTok, flight} \union pend \union vol)'
      BY <1>14 DEF LoginRevokes
    <3>1. Newest(h) \in Tokens
      OBVIOUS
    <3> HIDE DEF Newest, Valid
    <3> QED
      BY <1>14, <2>3, <3>1 DEF LoginRevokes, LoginFails
  <2> QED
    BY <2>2, <2>5, <2>6, <2>7, <2>8, <2>9 DEF OnlyEnds
<1>15. ASSUME LoginNothingToRevoke PROVE Server /\ Rest'
  BY <1>15 DEF LoginNothingToRevoke
<1>16. ASSUME LoginRedirects PROVE Server /\ Rest'
  BY <1>16 DEF LoginRedirects
<1>17. ASSUME LoginEnds PROVE Server /\ Rest'
  BY <1>17 DEF LoginEnds, LoginFails
<1>18. ASSUME Navigate PROVE Server /\ Rest'
  BY <1>18 DEF Navigate, Leaves, InMemory
<1>19. ASSUME Reload PROVE Server /\ Rest'
  BY <1>19 DEF Reload, Leaves, InMemory
<1>20. ASSUME BeginCallback PROVE Server /\ Rest'
  BY <1>20 DEF BeginCallback, Callback
<1>21. ASSUME NEW p \in todo, NEW outcome \in Outcomes, CallbackCleans(p, outcome)
       PROVE  Server /\ Rest'
  <2>1. p \in Tokens /\ revokeOrRemember(p, outcome)
    BY <1>21 DEF CallbackCleans
  <2>2. OnlyEnds /\ p \in Revoked
    BY <2>1, Revocation
  <2>3. \A h \in Grants \ (lost \union dropped) : Valid(Newest(h))' =>
          /\ Newest(h) \in {stored, cbTok, flight} \union pend' \union vol'
          /\ Newest(h) = p => p \in vol'
          /\ Newest(h)' = Newest(h)
    BY <2>1, <2>2, Unforgotten
  <2>5. OneOperation'
    BY <1>21 DEF CallbackCleans, Callback, CallbackEnds
  <2>6. CurrentConnection'
    BY <1>21 DEF CallbackCleans, Callback, CallbackEnds
  <2>7. AnswerIsNewer'
    BY <1>21, <2>2 DEF CallbackCleans, Callback, CallbackEnds, OnlyEnds
  <2>8. SlateIsClean' /\ UnusedGrants'
    BY <1>21, <2>2 DEF CallbackCleans, Callback, CallbackEnds, OnlyEnds
  <2>9. NoTokenForgotten'
    <3> SUFFICES ASSUME NEW h \in Grants \ (lost \union dropped), Valid(Newest(h))'
                 PROVE  (Newest(h) \in {stored, cbTok, flight} \union pend \union vol)'
      BY <1>21 DEF CallbackCleans
    <3>1. Newest(h) \in Tokens
      OBVIOUS
    <3> HIDE DEF Newest, Valid
    <3> QED
      BY <1>21, <2>3, <3>1 DEF CallbackCleans, Callback, CallbackEnds
  <2> QED
    BY <2>2, <2>5, <2>6, <2>7, <2>8, <2>9 DEF OnlyEnds
<1>22. ASSUME CallbackExchanges PROVE Server /\ Rest'
  BY <1>22 DEF CallbackExchanges, Callback
<1>23. ASSUME CallbackFails PROVE Server /\ Rest'
  BY <1>23 DEF CallbackFails, CallbackEnds
<1>24. ASSUME CallbackTimesOut PROVE Server /\ Rest'
  BY <1>24 DEF CallbackTimesOut
<1>25. ASSUME NEW g \in Grants, NEW sound \in BOOLEAN, NEW ok \in BOOLEAN,
              CallbackIssued(g, sound, ok)
       PROVE  Server /\ Rest'
  <2>1. Server
    BY <1>25, ServerStep DEF CallbackIssued
  <2>2. Rest'
    BY <1>25 DEF CallbackIssued, Callback, CallbackEnds, Issued, Remembers
  <2> QED
    BY <2>1, <2>2
<1>26. ASSUME NEW g \in Grants, NEW ok \in BOOLEAN,
              CallbackAnswerLost(g) \/ CallbackElsewhere(g, ok)
       PROVE  Server /\ Rest'
  <2>1. Server
    BY <1>26, ServerStep DEF CallbackAnswerLost, CallbackElsewhere
  <2>2. Rest'
    BY <1>26 DEF CallbackAnswerLost, CallbackElsewhere, CallbackEnds, Issued
  <2> QED
    BY <2>1, <2>2
<1>27. ASSUME CallbackCompletes PROVE Server /\ Rest'
  BY <1>27 DEF CallbackCompletes
<1>28. ASSUME CallbackRefuses PROVE Server /\ Rest'
  BY <1>28 DEF CallbackRefuses, Callback
<1>29. ASSUME NEW outcome \in Outcomes, CallbackRejects(outcome) PROVE Server /\ Rest'
  <2>1. cbTok \in Tokens /\ revokeOrRemember(cbTok, outcome)
    BY <1>29 DEF CallbackRejects
  <2>2. OnlyEnds /\ cbTok \in Revoked
    BY <2>1, Revocation
  <2>3. \A h \in Grants \ (lost \union dropped) : Valid(Newest(h))' =>
          /\ Newest(h) \in {stored, cbTok, flight} \union pend' \union vol'
          /\ Newest(h) = cbTok => cbTok \in vol'
          /\ Newest(h)' = Newest(h)
    BY <2>1, <2>2, Unforgotten
  <2>5. OneOperation'
    BY <1>29 DEF CallbackRejects, CallbackEnds
  <2>6. CurrentConnection'
    BY <1>29 DEF CallbackRejects, CallbackEnds
  <2>7. AnswerIsNewer'
    BY <1>29, <2>2 DEF CallbackRejects, CallbackEnds, OnlyEnds
  <2>8. SlateIsClean' /\ UnusedGrants'
    BY <1>29, <2>2 DEF CallbackRejects, CallbackEnds, OnlyEnds
  <2>9. NoTokenForgotten'
    <3> SUFFICES ASSUME NEW h \in Grants \ (lost \union dropped), Valid(Newest(h))'
                 PROVE  (Newest(h) \in {stored, cbTok, flight} \union pend \union vol)'
      BY <1>29 DEF CallbackRejects
    <3>1. Newest(h) \in Tokens
      OBVIOUS
    <3> HIDE DEF Newest, Valid
    <3> QED
      BY <1>29, <2>3, <3>1 DEF CallbackRejects, CallbackEnds
  <2> QED
    BY <2>2, <2>5, <2>6, <2>7, <2>8, <2>9 DEF OnlyEnds
<1>30. ASSUME NEW ok \in BOOLEAN, StartLogout(ok) PROVE Server /\ Rest'
  BY <1>30 DEF StartLogout, Invalidates
<1>31. ASSUME NEW outcome \in Outcomes, NEW ok \in BOOLEAN, LogoutRevokes(outcome, ok)
       PROVE  Server /\ Rest'
  <2>1. logout \in Tokens /\ revokeOrRemember(logout, outcome)
    BY <1>31 DEF LogoutRevokes
  <2>2. OnlyEnds /\ logout \in Revoked
    BY <2>1, Revocation
  <2>3. \A h \in Grants \ (lost \union dropped) : Valid(Newest(h))' =>
          /\ Newest(h) \in {stored, cbTok, flight} \union pend' \union vol'
          /\ Newest(h) = logout => logout \in vol'
          /\ Newest(h)' = Newest(h)
    BY <2>1, <2>2, Unforgotten
  <2>5. OneOperation'
    BY <1>31 DEF LogoutRevokes, Outcomes
  <2>6. CurrentConnection'
    BY <1>31 DEF LogoutRevokes, Outcomes
  <2>7. AnswerIsNewer'
    BY <1>31, <2>2 DEF LogoutRevokes, Outcomes, OnlyEnds
  <2>8. SlateIsClean' /\ UnusedGrants'
    BY <1>31, <2>2 DEF LogoutRevokes, Outcomes, OnlyEnds
  <2>9. NoTokenForgotten'
    <3> SUFFICES ASSUME NEW h \in Grants \ (lost \union dropped), Valid(Newest(h))'
                 PROVE  (Newest(h) \in {stored, cbTok, flight} \union pend \union vol)'
      BY <1>31 DEF LogoutRevokes
    <3>1. Newest(h) \in Tokens
      OBVIOUS
    <3> HIDE DEF Newest, Valid
    <3>2. UNCHANGED <<cbTok, flight>> /\ (stored' = stored \/ stored \in {None, logout})
      BY <1>31 DEF LogoutRevokes
    <3> QED
      BY <2>3, <3>1, <3>2
  <2> QED
    BY <2>2, <2>5, <2>6, <2>7, <2>8, <2>9 DEF OnlyEnds
<1>32. CASE UNCHANGED vars
  BY <1>32 DEF vars
<1> HIDE <1>0, TokenParts, WebConstants
         DEF IInv, PageTypes, Accounts, OneOperation, CurrentConnection, AnswerIsNewer,
             SlateIsClean, UnusedGrants, NoTokenForgotten, Recorded, disk, conn, callb, gone, Valid,
             Live, Newest, Pending, Server, Rest
<1>33. CASE Succeeds
  BY <1>33, <1>8, <1>12, <1>13, <1>14, <1>15, <1>16, <1>18, <1>20, <1>21, <1>22, <1>24,
     <1>27, <1>29, <1>31
     DEF Succeeds, Outcomes
<1>34. CASE Fault
  <2>1. ASSUME NEW p \in todo, NEW o \in Outcomes, NEW ok \in BOOLEAN,
               /\ o # "confirmed" \/ ~ok
               /\ LoginCleans(p, o, ok) \/ (ok /\ CallbackCleans(p, o))
        PROVE  Server /\ Rest'
    BY <2>1, <1>13, <1>21
  <2>2. ASSUME NEW o \in Outcomes, NEW ok \in BOOLEAN,
               /\ o # "confirmed" \/ ~ok
               /\ \/ LoginRevokes(o, ok) \/ LogoutRevokes(o, ok)
                  \/ ok /\ CallbackRejects(o)
        PROVE  Server /\ Rest'
    BY <2>2, <1>14, <1>29, <1>31
  <2>3. ASSUME \/ Reload \/ LoadFails \/ ConnectFails
               \/ ConnectReady(FALSE) \/ RefreshAnswered(FALSE) \/ LoginEnds
               \/ CallbackFails \/ CallbackRefuses \/ StartLogout(FALSE)
        PROVE  Server /\ Rest'
    BY <2>3, <1>4, <1>6, <1>7, <1>10, <1>17, <1>19, <1>23, <1>28, <1>30
  <2> QED
    BY <1>34, <2>1, <2>2, <2>3, <1>26 DEF Fault
<1> QED
  BY <1>32, <1>33, <1>34, <1>1, <1>2, <1>3, <1>5, <1>6, <1>9, <1>10, <1>11, <1>25,
     <1>30
     DEF Next, Works

-----------------------------------------------------------------------------
(* The invariant holds at the start ...                                    *)
LEMMA InitInvariant == Init => IInv
<1> SUFFICES ASSUME Init PROVE IInv
  OBVIOUS
<1> USE DEF Init
<1>1. TypeOK
  <2>1. 1 \in 1..MaxGen
    BY WebConstants
  <2>2. server \in [Grants -> Accounts]
    BY <2>1 DEF Accounts
  <2> QED
    BY <2>2, TypeParts DEF PageTypes
<1>2. OneOperation /\ CurrentConnection /\ AnswerIsNewer
  BY DEF OneOperation, CurrentConnection, AnswerIsNewer
<1>3. SlateIsClean /\ UnusedGrants /\ NoTokenForgotten
  <2>1. \A g \in Grants : server[g].state = "none" /\ server[g].n = 1
    OBVIOUS
  <2> QED
    BY <2>1 DEF SlateIsClean, UnusedGrants, NoTokenForgotten, Recorded, Valid, Live, Newest
<1> QED
  BY <1>1, <1>2, <1>3 DEF IInv

(* ... and with that in every state of every execution.                    *)
LEMMA Invariant == Spec => []IInv
  BY InitInvariant, StepInvariant, PTL DEF Spec

-----------------------------------------------------------------------------
(* Every variable keeps its type, in every execution.                      *)
THEOREM TypeCorrect == Spec => []TypeOK
<1>1. IInv => TypeOK
  BY DEF IInv
<1> QED
  BY <1>1, Invariant, PTL

(* Every access token that the server accepts is stored, pending or in the *)
(* hands of an operation, in every execution, unless it was lost or is one *)
(* of a rotation that was denied storage.                                  *)
THEOREM NothingForgotten == Spec => []NoTokenForgotten
<1>1. IInv => NoTokenForgotten
  BY DEF IInv
<1> QED
  BY <1>1, Invariant, PTL

(* A client is shown only alone and with the stored session, in every      *)
(* execution: the generation that connects is the current one as long as   *)
(* nothing else has begun.                                                 *)
THEOREM Alone == Spec => []ShownAlone
<1>1. IInv => ShownAlone
  BY DEF IInv, CurrentConnection, ShownAlone
<1> QED
  BY <1>1, Invariant, PTL

-----------------------------------------------------------------------------
(* What GrantCustody takes for kept.                                       *)
KeptTokens == ({stored} \ {None}) \union pend

(* No step gives up a stored token that the server accepts after it.       *)
LEMMA KeepingStep ==
    ASSUME IInv, [Next]_vars, NEW t \in KeptTokens, Valid(t)'
    PROVE  t \in KeptTokens'
<1>0. server \in [Grants -> Accounts] /\ PageTypes
  BY TypeParts DEF IInv
<1>1. ASSUME NEW p \in Tokens, NEW outcome \in Outcomes, revokeOrRemember(p, outcome),
             outcome = "confirmed" \/ stored' = stored,
             stored' = stored \/ stored \in {None, p}
      PROVE  t \in KeptTokens'
  BY <1>0, <1>1, Revocation DEF PageTypes, Revoked, Accepted, KeptTokens
<1>2. CASE stored' = stored /\ pend \subseteq pend'
  BY <1>2 DEF KeptTokens
<1>3. CASE stored = None /\ pend \subseteq pend'
  BY <1>3 DEF KeptTokens
<1>4. ASSUME NEW ok \in BOOLEAN, RefreshAnswered(ok) PROVE t \in KeptTokens'
  <2>1. CASE stored' = stored
    BY <1>4, <2>1 DEF RefreshAnswered, KeptTokens
  <2>2. CASE stored' # stored
    <3>1. stored = csess /\ server' = server /\ pend' = pend
      BY <1>4, <2>2 DEF RefreshAnswered
    <3>2. csess # Newest(csess[1])
      BY <1>0, <1>4, <2>2, TokenParts
         DEF RefreshAnswered, IInv, AnswerIsNewer, Newest, PageTypes, Accounts
    <3>3. t # csess
      BY <3>1, <3>2 DEF Valid, Newest
    <3> QED
      BY <3>1, <3>3 DEF KeptTokens
  <2> QED
    BY <2>1, <2>2
<1>5. ASSUME NEW p \in todo, NEW outcome \in Outcomes, NEW ok \in BOOLEAN,
             LoginCleans(p, outcome, ok)
      PROVE  t \in KeptTokens'
  <2>1. p \in Revoked /\ (stored' = stored \/ (stored = p /\ p \notin Accepted'))
    BY <1>0, <1>5, Cleaning DEF PageTypes
  <2> QED
    BY <1>0, <2>1 DEF Revoked, Accepted, KeptTokens, PageTypes
<1>6. ASSUME NEW outcome \in Outcomes, NEW ok \in BOOLEAN, LoginRevokes(outcome, ok)
      PROVE  t \in KeptTokens'
  BY <1>0, <1>1, <1>6 DEF LoginRevokes, PageTypes
<1>7. ASSUME NEW outcome \in Outcomes, NEW ok \in BOOLEAN, LogoutRevokes(outcome, ok)
      PROVE  t \in KeptTokens'
  <2>1. logout \in Tokens /\ revokeOrRemember(logout, outcome)
    BY <1>0, <1>7 DEF LogoutRevokes, PageTypes
  <2>2. /\ outcome = "confirmed" \/ stored' = stored
        /\ stored' = stored \/ stored \in {None, logout}
    BY <1>7 DEF LogoutRevokes
  <2> QED
    BY <1>1, <2>1, <2>2
<1>8. ASSUME NEW p \in todo, NEW outcome \in Outcomes, CallbackCleans(p, outcome)
      PROVE  t \in KeptTokens'
  BY <1>0, <1>1, <1>8 DEF CallbackCleans, PageTypes
<1>9. ASSUME NEW outcome \in Outcomes, CallbackRejects(outcome) PROVE t \in KeptTokens'
  BY <1>0, <1>1, <1>9 DEF CallbackRejects, PageTypes, IInv, OneOperation
<1>10. ASSUME NEW g \in Grants, NEW sound \in BOOLEAN, NEW ok \in BOOLEAN,
              CallbackIssued(g, sound, ok)
       PROVE  t \in KeptTokens'
  BY <1>3, <1>10 DEF CallbackIssued, Remembers, Pending, IInv, SlateIsClean
<1>11. ASSUME \/ CallbackFails \/ CallbackCompletes
              \/ \E g \in Grants :
                   CallbackAnswerLost(g) \/ \E ok \in BOOLEAN : CallbackElsewhere(g, ok)
       PROVE  t \in KeptTokens'
  BY <1>3, <1>11
     DEF CallbackFails, CallbackCompletes, CallbackAnswerLost, CallbackElsewhere, IInv, SlateIsClean
<1>12. ASSUME Succeeds PROVE t \in KeptTokens'
  BY <1>2, <1>5, <1>6, <1>7, <1>8, <1>9, <1>11, <1>12
     DEF Succeeds, Outcomes, disk, ConnectTimesOut, BeginLogin, LoginNothingToRevoke,
         LoginRedirects, Navigate, Leaves, BeginCallback, CallbackExchanges,
         CallbackTimesOut
<1>13. ASSUME Fault PROVE t \in KeptTokens'
  <2>1. ASSUME Reload \/ LoadFails \/ ConnectFails \/ ConnectReady(FALSE) \/ LoginEnds
                 \/ CallbackRefuses \/ StartLogout(FALSE)
        PROVE  stored' = stored /\ pend' = pend
    BY <2>1
       DEF Reload, Leaves, LoadFails, ConnectFails, ConnectReady, LoginEnds,
           CallbackRefuses, StartLogout, disk
  <2>2. ASSUME NEW p \in todo, NEW o \in Outcomes, NEW ok \in BOOLEAN,
               LoginCleans(p, o, ok) \/ CallbackCleans(p, o)
        PROVE  t \in KeptTokens'
    BY <1>5, <1>8, <2>2
  <2>3. ASSUME NEW o \in Outcomes, NEW ok \in BOOLEAN,
               LoginRevokes(o, ok) \/ LogoutRevokes(o, ok) \/ CallbackRejects(o)
        PROVE  t \in KeptTokens'
    BY <1>6, <1>7, <1>9, <2>3
  <2> QED
    BY <1>2, <1>4, <1>11, <1>13, <2>1, <2>2, <2>3 DEF Fault
<1>14. ASSUME \/ ConnectReady(TRUE) \/ LoadPage \/ LoadCallback \/ StartLogin
              \/ StartLogout(TRUE) \/ RefreshSent \/ UNCHANGED vars
              \/ \E g \in Grants : Expire(g) \/ EndElsewhere(g)
       PROVE  stored' = stored /\ pend' = pend
  BY <1>14
     DEF ConnectReady, LoadPage, LoadCallback, StartLogin, StartLogout, RefreshSent,
         Expire, EndElsewhere, vars, disk
<1> QED
  BY <1>2, <1>4, <1>10, <1>12, <1>13, <1>14 DEF Next, Works

(* What is stored is given up only when the server accepts it no more, in  *)
(* every execution: the promise of GrantCustody.                           *)
THEOREM StoredKept == Spec => StoredUntilEnded
<1>1. IInv /\ [Next]_vars =>
        [\A g \in ({stored} \ {None}) \union pend :
            g \in {t \in Tokens : Valid(t)}' =>
              g \in (({stored} \ {None}) \union pend)']_(Custody!custodyVars)
  BY KeepingStep DEF KeptTokens
<1> QED
  BY <1>1, Invariant, PTL
     DEF Spec, StoredUntilEnded, Custody!KeptUntilEnded

-----------------------------------------------------------------------------
(* How the pending revocations are worked off: what has still to be        *)
(* revoked is pending, an exchange begins with nothing pending, and beside *)
(* a stored session only its own revocation is.                            *)
WorkedOff ==
    /\ OneRevocationPending
    /\ todo \subseteq Pending
    /\ cb \in {"exchange", "whoami", "reject"} => Pending = {}
    /\ cb = "clean" /\ todo = {} => Pending = {}
    /\ logout # None => Pending = {} /\ stored \in {None, logout}
    /\ stored # None => Pending \subseteq {stored}
    /\ login = "clean" /\ todo = {} /\ stored # None => Pending = {}

(* A page that connects has an operation that does.                        *)
ConnectingHasOwner ==
    status = "connecting" =>
        \/ login # "none"
        \/ cb # "none" /\ ~late
        \/ client = "building" /\ current

(* What a revocation does to the pending ones.                             *)
LEMMA PendingAfter ==
    ASSUME NEW t, NEW outcome, revokeOrRemember(t, outcome)
    PROVE  /\ outcome = "confirmed" => Pending' = Pending \ {t} /\ pend' = Pending'
           /\ outcome # "confirmed" => Pending' = Pending \union {t}
  BY DEF revokeOrRemember, clearPendingRevocation, Remembers, Pending

(* Every step keeps that: one case per action that can disturb it.         *)
LEMMA WorkedOffStep == IInv /\ WorkedOff /\ [Next]_vars => WorkedOff'
<1> SUFFICES ASSUME IInv, WorkedOff, [Next]_vars PROVE WorkedOff'
  OBVIOUS
<1> USE DEF WorkedOff, OneRevocationPending, disk, conn, callb, gone
<1>0. PageTypes
  BY TypeParts DEF IInv
<1>1. ASSUME UNCHANGED <<pend, vol, todo, stored, cb, logout>>,
             login' \in {login, "none", "load", "discover", "redirect"}
      PROVE  WorkedOff'
  BY <1>1 DEF Pending
<1>2. ASSUME Leaves PROVE WorkedOff'
  BY <1>2 DEF Leaves, Pending
<1>3. ASSUME LoadPage \/ LoadFails \/ LoadCallback PROVE WorkedOff'
  BY <1>1, <1>3
     DEF LoadPage, Restores, LoadFails, LoadCallback, Pending, IInv, OneOperation
<1>4. ASSUME NEW ok \in BOOLEAN, ConnectReady(ok) \/ ConnectFails \/ ConnectTimesOut
      PROVE  WorkedOff'
  BY <1>1, <1>4 DEF ConnectReady, ConnectFails, ConnectTimesOut
<1>5. ASSUME RefreshSent \/ \E g \in Grants : Expire(g) \/ EndElsewhere(g)
      PROVE  WorkedOff'
  BY <1>1, <1>5 DEF RefreshSent, Expire, EndElsewhere
<1>6. ASSUME NEW ok \in BOOLEAN, RefreshAnswered(ok) PROVE WorkedOff'
  BY <1>6 DEF RefreshAnswered, Pending, IInv, CurrentConnection
<1>7. ASSUME StartLogin \/ LoginNothingToRevoke \/ LoginRedirects PROVE WorkedOff'
  BY <1>1, <1>7 DEF StartLogin, Invalidates, LoginNothingToRevoke, LoginRedirects
<1>8. ASSUME BeginLogin \/ LoginEnds PROVE WorkedOff'
  BY <1>8 DEF BeginLogin, LoginEnds, LoginFails, Pending, IInv, OneOperation
<1>9. ASSUME NEW p \in todo, NEW outcome \in Outcomes, NEW ok \in BOOLEAN,
             LoginCleans(p, outcome, ok)
      PROVE  WorkedOff'
  <2>1. Pending = {p} /\ todo = {p}
    BY <1>9 DEF LoginCleans
  <2>2. \/ /\ Pending' = {} /\ todo' = {} /\ stored' \in {stored, None}
        \/ /\ Pending' = {p} /\ todo' = {} /\ stored' = stored /\ login' = "none"
    <3>1. CASE PendingAgain(p) /\ LoginFails("error") /\ stored' = stored
      BY <2>1, <3>1 DEF LoginFails, PendingAgain, Pending
    <3>2. CASE revokeOrRemember(p, outcome)
      BY <1>9, <2>1, <3>2, PendingAfter DEF LoginCleans, LoginFails
    <3> QED
      BY <1>9, <3>1, <3>2 DEF LoginCleans
  <2> QED
    BY <1>9, <2>1, <2>2 DEF LoginCleans, IInv, OneOperation
<1>10. ASSUME NEW outcome \in Outcomes, NEW ok \in BOOLEAN, LoginRevokes(outcome, ok)
       PROVE  WorkedOff'
  <2>1. Pending = {} /\ Pending' \subseteq {stored} /\ (outcome = "confirmed" => Pending' = {})
    BY <1>10, PendingAfter DEF LoginRevokes
  <2> QED
    BY <1>10, <2>1 DEF LoginRevokes, LoginFails, IInv, OneOperation, SlateIsClean
<1>11. ASSUME BeginCallback \/ CallbackExchanges \/ CallbackTimesOut PROVE WorkedOff'
  BY <1>11
     DEF BeginCallback, CallbackExchanges, CallbackTimesOut, Callback, Pending, IInv,
         OneOperation
<1>12. ASSUME NEW p \in todo, NEW outcome \in Outcomes, CallbackCleans(p, outcome)
       PROVE  WorkedOff'
  <2>1. /\ Pending = {p} /\ Pending' \in {{}, {p}}
        /\ outcome = "confirmed" => Pending' = {}
    BY <1>12, PendingAfter DEF CallbackCleans
  <2> QED
    BY <1>12, <2>1
       DEF CallbackCleans, Callback, CallbackEnds, IInv, OneOperation, SlateIsClean
<1>13. ASSUME \/ CallbackFails
              \/ \E g \in Grants :
                   CallbackAnswerLost(g) \/ \E ok \in BOOLEAN : CallbackElsewhere(g, ok)
       PROVE  WorkedOff'
  BY <1>13
     DEF CallbackFails, CallbackAnswerLost, CallbackElsewhere, CallbackEnds, Pending, IInv, SlateIsClean
<1>14. ASSUME NEW g \in Grants, NEW sound \in BOOLEAN, NEW ok \in BOOLEAN,
              CallbackIssued(g, sound, ok)
       PROVE  WorkedOff'
  BY <1>14
     DEF CallbackIssued, Callback, CallbackEnds, Remembers, Pending, IInv, SlateIsClean,
         OneOperation
<1>15. ASSUME CallbackCompletes \/ CallbackRefuses PROVE WorkedOff'
  BY <1>15
     DEF CallbackCompletes, CallbackRefuses, Callback, Pending, IInv, OneOperation
<1>16. ASSUME NEW outcome \in Outcomes, CallbackRejects(outcome) PROVE WorkedOff'
  <2>1. Pending = {} /\ Pending' \subseteq {cbTok}
    BY <1>16, PendingAfter DEF CallbackRejects
  <2> QED
    BY <1>16, <2>1 DEF CallbackRejects, CallbackEnds, IInv, OneOperation, SlateIsClean
<1>17. ASSUME NEW ok \in BOOLEAN, StartLogout(ok) PROVE WorkedOff'
  BY <1>17 DEF StartLogout, Invalidates, Pending, IInv, CurrentConnection, OneOperation
<1>18. ASSUME NEW outcome \in Outcomes, NEW ok \in BOOLEAN, LogoutRevokes(outcome, ok)
       PROVE  WorkedOff'
  <2>1. Pending = {} /\ Pending' \subseteq {logout} /\ (outcome = "confirmed" => Pending' = {})
    BY <1>18, PendingAfter DEF LogoutRevokes
  <2> QED
    BY <1>18, <2>1 DEF LogoutRevokes, IInv, OneOperation, Outcomes
<1>19. CASE UNCHANGED vars
  BY <1>1, <1>19 DEF vars
<1>20. CASE Succeeds
  BY <1>20, <1>2, <1>4, <1>7, <1>8, <1>9, <1>10, <1>11, <1>12, <1>15, <1>16, <1>18
     DEF Succeeds, Outcomes, Navigate
<1>21. CASE Fault
  <2>1. ASSUME NEW p \in todo, NEW o \in Outcomes, NEW ok \in BOOLEAN,
               /\ o # "confirmed" \/ ~ok
               /\ LoginCleans(p, o, ok) \/ (ok /\ CallbackCleans(p, o))
        PROVE  WorkedOff'
    BY <2>1, <1>9, <1>12
  <2>2. ASSUME NEW o \in Outcomes, NEW ok \in BOOLEAN,
               /\ o # "confirmed" \/ ~ok
               /\ \/ LoginRevokes(o, ok) \/ LogoutRevokes(o, ok)
                  \/ ok /\ CallbackRejects(o)
        PROVE  WorkedOff'
    BY <2>2, <1>10, <1>16, <1>18
  <2>3. ASSUME \/ Reload \/ LoadFails \/ ConnectFails
               \/ ConnectReady(FALSE) \/ RefreshAnswered(FALSE) \/ LoginEnds
               \/ CallbackFails \/ CallbackRefuses \/ StartLogout(FALSE)
        PROVE  WorkedOff'
    BY <2>3, <1>2, <1>3, <1>4, <1>6, <1>8, <1>13, <1>15, <1>17 DEF Reload
  <2> QED
    BY <1>21, <2>1, <2>2, <2>3, <1>13 DEF Fault
<1> QED
  BY <1>19, <1>20, <1>21, <1>3, <1>4, <1>5, <1>6, <1>7, <1>14, <1>17 DEF Next, Works

(* At most one revocation is pending, in every execution.                  *)
THEOREM OneAtATime == Spec => []OneRevocationPending
<1>1. Init => WorkedOff
  BY DEF Init, WorkedOff, OneRevocationPending, Pending
<1>2. WorkedOff => OneRevocationPending
  BY DEF WorkedOff
<1> QED
  BY <1>1, <1>2, Invariant, WorkedOffStep, PTL DEF Spec
-----------------------------------------------------------------------------
(* How far a page that connects is from its end, in steps of its own.      *)
Stage ==
    CASE login = "load" -> 5
      [] login = "clean" -> IF todo # {} THEN 4 ELSE 3
      [] login = "discover" -> 2
      [] login = "redirect" -> 1
      [] login = "none" /\ cb = "load" -> 8
      [] login = "none" /\ cb = "clean" -> IF todo # {} THEN 7 ELSE 6
      [] login = "none" /\ cb = "exchange" -> 5
      [] login = "none" /\ cb = "whoami" -> 4
      [] login = "none" /\ cb = "reject" -> 3
      [] OTHER -> 1
Connecting(k) == status = "connecting" /\ Stage <= k

(* All that is known of the page.                                          *)
Sure == IInv /\ WorkedOff /\ ConnectingHasOwner

(* No step takes a page that connects back, and each step that it takes by *)
(* itself takes it on.                                                     *)
LEMMA StageStep ==
    Sure /\ [Next]_vars =>
        /\ ConnectingHasOwner'
        /\ status = "connecting" /\ status' = "connecting" =>
             /\ Stage' <= Stage
             /\ Succeeds => Stage' < Stage
<1> SUFFICES ASSUME Sure, [Next]_vars
             PROVE  /\ ConnectingHasOwner'
                    /\ status = "connecting" /\ status' = "connecting" =>
                         /\ Stage' <= Stage
                         /\ Succeeds => Stage' < Stage
  OBVIOUS
<1> DEFINE Owner == ConnectingHasOwner'
           Same == status = "connecting" /\ status' = "connecting" => Stage' <= Stage
           On == status = "connecting" /\ status' = "connecting" => Stage' < Stage
<1> USE DEF Sure, IInv, OneOperation, CurrentConnection, ConnectingHasOwner, Stage, disk,
            conn, callb, gone
<1>1. ASSUME Leaves PROVE Owner /\ On
  BY <1>1 DEF Leaves
<1>2. ASSUME LoadPage \/ LoadFails \/ LoadCallback PROVE Owner /\ Same
  <2>1. Same
    BY <1>2 DEF LoadPage, LoadFails, LoadCallback
  <2>2. Owner
    <3>1. CASE LoadPage
      BY <3>1 DEF LoadPage, Restores
    <3>2. CASE LoadFails \/ LoadCallback
      BY <3>2 DEF LoadFails, LoadCallback
    <3> QED
      BY <1>2, <3>1, <3>2
  <2> QED
    BY <2>1, <2>2
<1>3. ASSUME NEW ok \in BOOLEAN, ConnectReady(ok) \/ ConnectFails PROVE Owner /\ Same
  BY <1>3 DEF ConnectReady, ConnectFails
<1>4. ASSUME ConnectTimesOut PROVE Owner /\ On
  BY <1>4 DEF ConnectTimesOut
<1>5. ASSUME RefreshSent \/ \E g \in Grants : Expire(g) \/ EndElsewhere(g)
      PROVE  Owner /\ Same
  BY <1>5 DEF RefreshSent, Expire, EndElsewhere
<1>6. ASSUME NEW ok \in BOOLEAN, RefreshAnswered(ok) PROVE Owner /\ Same
  BY <1>6 DEF RefreshAnswered
<1>7. ASSUME StartLogin \/ LoginEnds PROVE Owner /\ Same
  BY <1>7 DEF StartLogin, Invalidates, LoginEnds, LoginFails
<1>8. ASSUME BeginLogin \/ LoginNothingToRevoke \/ LoginRedirects PROVE Owner /\ On
  BY <1>8 DEF BeginLogin, LoginNothingToRevoke, LoginRedirects
<1>9. ASSUME NEW p \in todo, NEW outcome \in Outcomes, NEW ok \in BOOLEAN,
             LoginCleans(p, outcome, ok)
      PROVE  Owner /\ On
  <2>1. \/ status' = "error"
        \/ todo' = {} /\ UNCHANGED <<status, login>>
    BY <1>9 DEF LoginCleans, LoginFails, WorkedOff, OneRevocationPending
  <2>2. UNCHANGED <<cb, late>>
    BY <1>9 DEF LoginCleans
  <2> QED
    BY <1>9, <2>1, <2>2 DEF LoginCleans
<1>10. ASSUME NEW outcome \in Outcomes, NEW ok \in BOOLEAN, LoginRevokes(outcome, ok)
       PROVE  Owner /\ On
  BY <1>10 DEF LoginRevokes, LoginFails
<1>11. ASSUME BeginCallback \/ CallbackExchanges \/ CallbackTimesOut PROVE Owner /\ On
  BY <1>11 DEF BeginCallback, CallbackExchanges, CallbackTimesOut, Callback
<1>12. ASSUME NEW p \in todo, NEW outcome \in Outcomes, CallbackCleans(p, outcome)
       PROVE  Owner /\ On
  <2>1. outcome = "confirmed" => todo' = {}
    BY <1>12 DEF CallbackCleans, WorkedOff, OneRevocationPending
  <2> QED
    BY <1>12, <2>1 DEF CallbackCleans, Callback, CallbackEnds
<1>13. ASSUME \/ CallbackFails
              \/ \E g \in Grants :
                   CallbackAnswerLost(g) \/ \E ok \in BOOLEAN : CallbackElsewhere(g, ok)
       PROVE  Owner /\ Same
  <2>1. cb' = "none" /\ ~late' /\ UNCHANGED <<login, client, current>>
    BY <1>13 DEF CallbackFails, CallbackAnswerLost, CallbackElsewhere, CallbackEnds
  <2>2. CASE late
    <3>1. UNCHANGED <<status, todo>>
      BY <1>13, <2>2 DEF CallbackFails, CallbackAnswerLost, CallbackElsewhere, CallbackEnds
    <3> QED
      BY <1>13, <2>1, <2>2, <3>1 DEF CallbackFails, CallbackAnswerLost, CallbackElsewhere
  <2>3. CASE ~late
    BY <1>13, <2>3 DEF CallbackFails, CallbackAnswerLost, CallbackElsewhere, CallbackEnds
  <2> QED
    BY <2>2, <2>3
<1>14. ASSUME NEW g \in Grants, NEW sound \in BOOLEAN, NEW ok \in BOOLEAN,
              CallbackIssued(g, sound, ok)
       PROVE  Owner /\ Same
  BY <1>14 DEF CallbackIssued, Callback, CallbackEnds
<1>15. ASSUME CallbackCompletes PROVE Owner /\ On
  BY <1>15 DEF CallbackCompletes
<1>16. ASSUME CallbackRefuses PROVE Owner /\ Same
  BY <1>16 DEF CallbackRefuses, Callback
<1>17. ASSUME NEW outcome \in Outcomes, CallbackRejects(outcome) PROVE Owner /\ On
  BY <1>17 DEF CallbackRejects, CallbackEnds
<1>18. ASSUME NEW ok \in BOOLEAN, StartLogout(ok) PROVE Owner /\ Same
  BY <1>18 DEF StartLogout, Invalidates
<1>19. ASSUME NEW outcome \in Outcomes, NEW ok \in BOOLEAN, LogoutRevokes(outcome, ok)
       PROVE  Owner /\ On
  BY <1>19 DEF LogoutRevokes
<1>20. ASSUME UNCHANGED vars PROVE Owner /\ Same
  <2>1. UNCHANGED <<status, login, cb, late, client, current, todo>>
    BY <1>20 DEF vars
  <2>2. Stage' = Stage /\ Stage \in Nat
    BY <2>1
  <2>3. Same
    BY <2>2
  <2>4. Owner
    <3>1. ConnectingHasOwner
      BY DEF Sure
    <3> HIDE DEF Sure, IInv, OneOperation, CurrentConnection, Stage
    <3> QED
      BY <2>1, <3>1
  <2> QED
    BY <2>3, <2>4
<1>21. ASSUME Succeeds PROVE Owner /\ On
  <2> HIDE DEF Owner, On
  <2> QED
    BY <1>21, <1>1, <1>4, <1>8, <1>9, <1>10, <1>11, <1>12, <1>15, <1>17, <1>19
       DEF Succeeds, Outcomes, Navigate
<1>22. Stage \in Nat /\ Stage' \in Nat
  OBVIOUS
<1>23. On => Same
  BY <1>22
<1> HIDE DEF Owner, Same, On, Sure, IInv, OneOperation, CurrentConnection,
             ConnectingHasOwner, Stage, disk, conn, callb, gone
<1>24. ASSUME Fault PROVE Owner /\ Same
  <2>1. ASSUME NEW p \in todo, NEW o \in Outcomes, NEW ok \in BOOLEAN,
               /\ o # "confirmed" \/ ~ok
               /\ LoginCleans(p, o, ok) \/ (ok /\ CallbackCleans(p, o))
        PROVE  Owner /\ Same
    BY <2>1, <1>9, <1>12, <1>23
  <2>2. ASSUME NEW o \in Outcomes, NEW ok \in BOOLEAN,
               /\ o # "confirmed" \/ ~ok
               /\ \/ LoginRevokes(o, ok) \/ LogoutRevokes(o, ok)
                  \/ ok /\ CallbackRejects(o)
        PROVE  Owner /\ Same
    BY <2>2, <1>10, <1>17, <1>19, <1>23
  <2>3. ASSUME \/ Reload \/ LoadFails \/ ConnectFails
               \/ ConnectReady(FALSE) \/ RefreshAnswered(FALSE) \/ LoginEnds
               \/ CallbackFails \/ CallbackRefuses \/ StartLogout(FALSE)
        PROVE  Owner /\ Same
    BY <2>3, <1>1, <1>2, <1>3, <1>6, <1>7, <1>13, <1>16, <1>18, <1>23 DEF Reload
  <2> QED
    BY <1>24, <2>1, <2>2, <2>3, <1>13 DEF Fault
<1>25. ASSUME Works PROVE Owner /\ Same
  <2>1. CASE Succeeds
    BY <2>1, <1>21, <1>23
  <2>2. CASE ~Succeeds
    BY <2>2, <1>25, <1>2, <1>3, <1>5, <1>6, <1>7, <1>14, <1>18 DEF Works
  <2> QED
    BY <2>1, <2>2
<1>26. Owner /\ Same
  BY <1>20, <1>24, <1>25 DEF Next
<1> QED
  BY <1>21, <1>26 DEF Owner, Same, On, ConnectingHasOwner

(* The page is sure of all that, in every execution.                       *)
LEMMA SureAlways == Spec => []Sure
<1>1. Init => WorkedOff /\ ConnectingHasOwner
  BY DEF Init, WorkedOff, OneRevocationPending, Pending, ConnectingHasOwner
<1>2. Sure /\ [Next]_vars => ConnectingHasOwner'
  BY StageStep
<1>3. Sure <=> IInv /\ WorkedOff /\ ConnectingHasOwner
  BY DEF Sure
<1> QED
  BY <1>1, <1>2, <1>3, Invariant, WorkedOffStep, PTL DEF Spec

(* The same for a page that is at most k steps from its end.               *)
LEMMA StageLevel ==
    ASSUME NEW k \in 1..8
    PROVE  /\ Sure /\ Connecting(k) /\ [Next]_vars =>
                Connecting(k)' \/ status' # "connecting"
           /\ Sure /\ Connecting(k) /\ [Next]_vars /\ <<Succeeds>>_vars =>
                Connecting(k - 1)' \/ status' # "connecting"
<1>1. Stage \in Nat /\ Stage' \in Nat
  BY DEF Stage
<1> QED
  BY <1>1, StageStep DEF Connecting

(* For any grants: users are never left on infinite connecting, whatever   *)
(* fails or hangs, if the page goes on as it always can (PageGoesOn).      *)
THEOREM EveryConnectEnds == LiveSpec /\ []PageGoesOn => ConnectingEnds
<1> DEFINE Free == status # "connecting"
           P0 == Connecting(0)
           P1 == Connecting(1)
           P2 == Connecting(2)
           P3 == Connecting(3)
           P4 == Connecting(4)
           P5 == Connecting(5)
           P6 == Connecting(6)
           P7 == Connecting(7)
           P8 == Connecting(8)
<1>1. /\ Sure /\ P8 /\ [Next]_vars => P8' \/ Free'
      /\ Sure /\ P8 /\ [Next]_vars /\ <<Succeeds>>_vars => P7' \/ Free'
  BY StageLevel
<1>2. /\ Sure /\ P7 /\ [Next]_vars => P7' \/ Free'
      /\ Sure /\ P7 /\ [Next]_vars /\ <<Succeeds>>_vars => P6' \/ Free'
  BY StageLevel
<1>3. /\ Sure /\ P6 /\ [Next]_vars => P6' \/ Free'
      /\ Sure /\ P6 /\ [Next]_vars /\ <<Succeeds>>_vars => P5' \/ Free'
  BY StageLevel
<1>4. /\ Sure /\ P5 /\ [Next]_vars => P5' \/ Free'
      /\ Sure /\ P5 /\ [Next]_vars /\ <<Succeeds>>_vars => P4' \/ Free'
  BY StageLevel
<1>5. /\ Sure /\ P4 /\ [Next]_vars => P4' \/ Free'
      /\ Sure /\ P4 /\ [Next]_vars /\ <<Succeeds>>_vars => P3' \/ Free'
  BY StageLevel
<1>6. /\ Sure /\ P3 /\ [Next]_vars => P3' \/ Free'
      /\ Sure /\ P3 /\ [Next]_vars /\ <<Succeeds>>_vars => P2' \/ Free'
  BY StageLevel
<1>7. /\ Sure /\ P2 /\ [Next]_vars => P2' \/ Free'
      /\ Sure /\ P2 /\ [Next]_vars /\ <<Succeeds>>_vars => P1' \/ Free'
  BY StageLevel
<1>8. /\ Sure /\ P1 /\ [Next]_vars => P1' \/ Free'
      /\ Sure /\ P1 /\ [Next]_vars /\ <<Succeeds>>_vars => P0' \/ Free'
  BY StageLevel
<1>9. ~P0 /\ (Free \/ P8)
  BY DEF Connecting, Stage
<1>10. ~Free /\ PageGoesOn => ENABLED <<Succeeds>>_vars
  BY DEF PageGoesOn
<1>11. (status = "connecting" <=> ~Free) /\ (status # "connecting" <=> Free)
  OBVIOUS
<1> HIDE DEF P0, P1, P2, P3, P4, P5, P6, P7, P8, Free
<1>12. LiveSpec /\ []PageGoesOn => (~Free ~> Free)
  BY <1>1, <1>2, <1>3, <1>4, <1>5, <1>6, <1>7, <1>8, <1>9, <1>10, SureAlways, PTL
     DEF Spec, LiveSpec
<1> QED
  BY <1>11, <1>12, PTL DEF ConnectingEnds

-----------------------------------------------------------------------------
(* How far a page with a stored pending revocation is from clearing it.    *)
Way ==
    CASE status = "connecting" /\ login = "clean" -> IF todo = {} THEN 13 ELSE 5
      [] status = "connecting" /\ login = "discover" -> 12
      [] status = "connecting" /\ login = "redirect" -> 11
      [] status = "away" -> 10
      [] status = "connecting" /\ login = "none" /\ cb = "load" -> 9
      [] status = "connecting" /\ login = "none" /\ cb = "clean" -> 8
      [] status \in {"signed-out", "error"} -> 7
      [] status = "connecting" /\ login = "load" -> 6
      [] OTHER -> 14
Pends(k) == pend # {} /\ Way <= k

(* There is always a way; a step that works does not lead off it, and the  *)
(* step the page has to take there leads on.                               *)
LEMMA WayStep ==
    ASSUME Sure, pend # {}, Works, pend' # {}
    PROVE  /\ Way' <= Way
           /\ \/ status = "away" /\ LoadPage
              \/ status \in {"signed-out", "error"} /\ StartLogin
              \/ status = "connecting" /\ Succeeds
              => Way' < Way
<1> DEFINE Same == Way' = Way
           On == Way' < Way
<1> USE DEF Sure, IInv, OneOperation, CurrentConnection, WorkedOff, Way, disk, conn, callb, gone
<1>0. Pending # {}
  BY DEF Pending
<1>1. ASSUME LoadPage PROVE status = "away" /\ On
  BY <1>1 DEF LoadPage, Restores
<1>2. ASSUME LoadCallback PROVE status = "away" /\ On
  BY <1>2 DEF LoadCallback
<1>3. ASSUME ConnectReady(TRUE) \/ RefreshAnswered(TRUE) PROVE Same
  BY <1>0, <1>3 DEF ConnectReady, RefreshAnswered
<1>4. ASSUME StartLogin PROVE On
  BY <1>4 DEF StartLogin, Invalidates
<1>5. ~StartLogout(TRUE)
  BY <1>0 DEF StartLogout
<1>6. ASSUME RefreshSent \/ \E g \in Grants : Expire(g) \/ EndElsewhere(g) PROVE Same
  BY <1>6 DEF RefreshSent, Expire, EndElsewhere
<1>7. ASSUME NEW g \in Grants, NEW sound \in BOOLEAN, NEW ok \in BOOLEAN
      PROVE  ~CallbackIssued(g, sound, ok)
  BY <1>0 DEF CallbackIssued
<1>8. ASSUME Succeeds PROVE On
  <2>1. ASSUME NEW p \in todo PROVE ~LoginCleans(p, "confirmed", TRUE)
    BY PendingAfter DEF LoginCleans, OneRevocationPending
  <2>2. ASSUME NEW p \in todo PROVE ~CallbackCleans(p, "confirmed")
    BY PendingAfter DEF CallbackCleans, OneRevocationPending
  <2>3. /\ ~ConnectTimesOut /\ ~CallbackTimesOut /\ ~CallbackCompletes
        /\ ~CallbackRejects("confirmed") /\ ~LogoutRevokes("confirmed", TRUE)
        /\ ~LoginRevokes("confirmed", TRUE) /\ ~CallbackExchanges
    BY <1>0
       DEF ConnectTimesOut, CallbackTimesOut, CallbackCompletes, CallbackRejects,
           LogoutRevokes, LoginRevokes, CallbackExchanges
  <2>4. ASSUME BeginLogin PROVE On
    BY <1>0, <2>4 DEF BeginLogin
  <2>5. ASSUME LoginNothingToRevoke \/ LoginRedirects PROVE On
    BY <2>5 DEF LoginNothingToRevoke, LoginRedirects
  <2>6. ASSUME Navigate PROVE On
    BY <2>6 DEF Navigate, Leaves
  <2>7. ASSUME BeginCallback PROVE On
    BY <2>7 DEF BeginCallback, Callback
  <2> HIDE DEF On, Sure, Way
  <2> QED
    BY <1>8, <2>1, <2>2, <2>3, <2>4, <2>5, <2>6, <2>7 DEF Succeeds
<1>9. Way \in Nat /\ Way' \in Nat
  OBVIOUS
<1>10. (Same => Way' <= Way) /\ (On => Way' <= Way)
  BY <1>9
<1> HIDE DEF On, Same, Sure, IInv, OneOperation, CurrentConnection, WorkedOff, Way, disk, conn,
             callb, gone
<1>11. Way' <= Way
  BY <1>1, <1>2, <1>3, <1>4, <1>5, <1>6, <1>7, <1>8, <1>10 DEF Works
<1> QED
  BY <1>1, <1>4, <1>8, <1>11 DEF On

(* The same by the length of the way.                                      *)
LEMMA WayLevel ==
    ASSUME NEW k \in 1..13
    PROVE  /\ Sure /\ Pends(k) /\ [Works]_vars => Pends(k)' \/ pend' = {}
           /\ Sure /\ Pends(k) /\ k = 10 /\ <<LoadPage>>_vars => Pends(k - 1)' \/ pend' = {}
           /\ Sure /\ Pends(k) /\ k = 7 /\ <<StartLogin>>_vars => Pends(k - 1)' \/ pend' = {}
           /\ Sure /\ Pends(k) /\ k \notin {7, 10} /\ <<Succeeds>>_vars =>
                Pends(k - 1)' \/ pend' = {}
<1>1. Way \in Nat /\ Way' \in Nat
  BY DEF Way
<1>2. LoadPage \/ StartLogin \/ Succeeds => Works
  BY DEF Works
<1>3. Way = 10 <=> status = "away"
  BY DEF Way
<1>4. Way = 7 <=> status \in {"signed-out", "error"}
  BY DEF Way
<1>5. Way \notin {7, 10, 14} => status = "connecting"
  BY DEF Way
<1>6. UNCHANGED vars => Way' = Way /\ pend' = pend
  BY DEF vars, disk, conn, callb, gone, Way
<1>7. Sure /\ Pends(k) /\ [Works]_vars => Pends(k)' \/ pend' = {}
  BY <1>1, <1>6, WayStep DEF Pends
<1>8. ASSUME Sure, Pends(k), Works, Way < k PROVE Pends(k - 1)' \/ pend' = {}
  BY <1>1, <1>8, WayStep DEF Pends
<1>9. ASSUME Sure, Pends(k), Way = k,
             \/ k = 10 /\ LoadPage
             \/ k = 7 /\ StartLogin
             \/ k \notin {7, 10} /\ Succeeds
      PROVE  Pends(k - 1)' \/ pend' = {}
  <2>1. pend' # {} => Way' < Way
    BY <1>2, <1>3, <1>4, <1>5, <1>9, WayStep DEF Pends
  <2> QED
    BY <1>1, <1>9, <2>1 DEF Pends
<1>10. Pends(k) => Way = k \/ Way < k
  BY <1>1 DEF Pends
<1> QED
  BY <1>2, <1>7, <1>8, <1>9, <1>10

(* For any grants: a stored pending revocation does not block sign-in for  *)
(* ever: once nothing fails it is worked off by the next login or callback,*)
(* if the page goes on as it always can (PageGoesOn).                      *)
THEOREM PendingIsCleared == LiveSpec /\ []PageGoesOn => PendingCleared
<1> DEFINE Free == pend = {}
           P0 == Pends(0)
           P1 == Pends(1)
           P2 == Pends(2)
           P3 == Pends(3)
           P4 == Pends(4)
           P5 == Pends(5)
           P6 == Pends(6)
           P7 == Pends(7)
           P8 == Pends(8)
           P9 == Pends(9)
           P10 == Pends(10)
           P11 == Pends(11)
           P12 == Pends(12)
           P13 == Pends(13)
<1>1. /\ Sure /\ P13 /\ [Works]_vars => P13' \/ Free'
      /\ Sure /\ P13 /\ <<Succeeds>>_vars => P12' \/ Free'
  BY WayLevel
<1>2. /\ Sure /\ P12 /\ [Works]_vars => P12' \/ Free'
      /\ Sure /\ P12 /\ <<Succeeds>>_vars => P11' \/ Free'
  BY WayLevel
<1>3. /\ Sure /\ P11 /\ [Works]_vars => P11' \/ Free'
      /\ Sure /\ P11 /\ <<Succeeds>>_vars => P10' \/ Free'
  BY WayLevel
<1>4. /\ Sure /\ P10 /\ [Works]_vars => P10' \/ Free'
      /\ Sure /\ P10 /\ <<LoadPage>>_vars => P9' \/ Free'
  BY WayLevel
<1>5. /\ Sure /\ P9 /\ [Works]_vars => P9' \/ Free'
      /\ Sure /\ P9 /\ <<Succeeds>>_vars => P8' \/ Free'
  BY WayLevel
<1>6. /\ Sure /\ P8 /\ [Works]_vars => P8' \/ Free'
      /\ Sure /\ P8 /\ <<Succeeds>>_vars => P7' \/ Free'
  BY WayLevel
<1>7. /\ Sure /\ P7 /\ [Works]_vars => P7' \/ Free'
      /\ Sure /\ P7 /\ <<StartLogin>>_vars => P6' \/ Free'
  BY WayLevel
<1>8. /\ Sure /\ P6 /\ [Works]_vars => P6' \/ Free'
      /\ Sure /\ P6 /\ <<Succeeds>>_vars => P5' \/ Free'
  BY WayLevel
<1>9. /\ Sure /\ P5 /\ [Works]_vars => P5' \/ Free'
      /\ Sure /\ P5 /\ <<Succeeds>>_vars => P4' \/ Free'
  BY WayLevel
<1>10. /\ Sure /\ P4 /\ [Works]_vars => P4' \/ Free'
       /\ Sure /\ P4 /\ <<Succeeds>>_vars => P3' \/ Free'
  BY WayLevel
<1>11. /\ Sure /\ P3 /\ [Works]_vars => P3' \/ Free'
       /\ Sure /\ P3 /\ <<Succeeds>>_vars => P2' \/ Free'
  BY WayLevel
<1>12. /\ Sure /\ P2 /\ [Works]_vars => P2' \/ Free'
       /\ Sure /\ P2 /\ <<Succeeds>>_vars => P1' \/ Free'
  BY WayLevel
<1>13. /\ Sure /\ P1 /\ [Works]_vars => P1' \/ Free'
       /\ Sure /\ P1 /\ <<Succeeds>>_vars => P0' \/ Free'
  BY WayLevel
<1>14. ~P0
  BY DEF Pends, Way
<1>15. Sure => Free \/ P13
  BY DEF Sure, IInv, OneOperation, CurrentConnection, WorkedOff, ConnectingHasOwner, Pends, Way,
         Pending, PageTypes, TypeOK
<1>16. P10 /\ ~P9 /\ PageGoesOn => ENABLED <<LoadPage>>_vars
  BY DEF PageGoesOn, Pends, Way
<1>17. P7 /\ ~P6 /\ PageGoesOn => ENABLED <<StartLogin>>_vars
  BY DEF PageGoesOn, Pends, Way
<1>18. ((P13 /\ ~P10) \/ (P9 /\ ~P7) \/ P6) /\ PageGoesOn => ENABLED <<Succeeds>>_vars
  BY DEF PageGoesOn, Pends, Way
<1>19. (pend # {} <=> ~Free) /\ (pend = {} <=> Free)
  OBVIOUS
<1>20. /\ P6 => P7
       /\ P1 => P2
       /\ P2 => P3
       /\ P3 => P4
       /\ P4 => P5
       /\ P5 => P6
       /\ P7 => P8
       /\ P8 => P9
       /\ P9 => P10
       /\ P10 => P11
       /\ P11 => P12
       /\ P12 => P13
  BY DEF Pends, Way
<1> HIDE DEF P0, P1, P2, P3, P4, P5, P6, P7, P8, P9, P10, P11, P12, P13, Free
<1>21. LiveSpec /\ []PageGoesOn => (~Free ~> Free)
  BY <1>1, <1>2, <1>3, <1>4, <1>5, <1>6, <1>7, <1>8, <1>9, <1>10, <1>11, <1>12, <1>13,
     <1>14, <1>15, <1>16, <1>17, <1>18, <1>20, SureAlways, PTL DEF Spec, LiveSpec
<1> QED
  BY <1>19, <1>21, PTL DEF PendingCleared
=============================================================================
