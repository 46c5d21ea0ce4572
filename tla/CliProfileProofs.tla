--------------------------- MODULE CliProfileProofs ---------------------------
(* Theorems of CliProfile for every set of grants and every bound: its     *)
(* type invariant, the safety properties its run checks, its               *)
(* implementation of GrantCustody, the end of repeated logouts, and where  *)
(* the documented promises hold that its other runs refute.  Most assume   *)
(* that a revocation endpoint that answers 200 has ended the grant.        *)
EXTENDS CliProfile, TLAPS

Cleaning == {"finish", "clear", "rmSession", "rmPending", "rmSnapshot", "check", "rmMarker"}
Remoting == {"revoke", "refresh", "again"}
WithGrant == {"save", "init", "recover", "using"} \union Remoting

(* Which command is at which step, and what it has in memory.              *)
CommandShape ==
    /\ pc = "idle" <=> cmd = "none"
    /\ cmd = "none" => base = None
    /\ cmd = "login" => pc \in {"device", "save", "init", "recover", "unrevoked"} \union Remoting \union Cleaning
    /\ cmd = "storage" => pc = "using"
    /\ cmd = "logout" => pc \in {"unrevoked"} \union Remoting \union Cleaning
    /\ pc = "device" => base = None
    /\ cmd = "login" /\ pc # "device" => base # None
    /\ pc \in WithGrant => base # None /\ cur # None /\ cur.grant = base.grant
    /\ said # "none" => pc = "idle"
    /\ pc \in {"save", "device"} => saved = "no"
    /\ pc \in {"init", "using"} => saved = "session"
    /\ pc = "recover" => saved \in {"no", "session"}
    /\ pc \in WithGrant /\ saved = "session" => cur.rt # 0
    /\ pc = "refresh" => cur.rt # 0
    /\ pc = "save" => base.rt # 0
    /\ cmd = "logout" /\ pc \in Remoting => saved # "no"

(* A command that presents credentials has them where "saved" says.        *)
SavedWhere ==
    /\ pc \in (WithGrant \union {"unrevoked"}) /\ saved = "session" /\ cmd # "none" =>
          session # None /\ base # None /\ session.grant = base.grant /\ pending = None
    /\ pc \in (WithGrant \union {"unrevoked"}) /\ saved = "pending" =>
          pending # None /\ base # None /\ pending.grant = base.grant /\ session = None
    /\ pc \in (WithGrant \union {"unrevoked"}) /\ saved = "no" =>
          session = None /\ (pending # None => base # None /\ pending.grant = base.grant)
    /\ pc = "unrevoked" => base # None
    /\ cmd \in {"login", "logout"} /\ pc \notin Cleaning => ~marker
    /\ pc \in {"device", "save"} => session = None /\ pending = None
    /\ pc = "recover" /\ saved = "no" => pending = None
    /\ cmd = "login" => (snapshot # None => base # None /\ snapshot = base.grant)
    /\ cmd = "login" /\ pc \in {"device", "save", "init"} => snapshot = None

(* Credentials are never ahead of the server, and without a refresh token  *)
(* the only access token is valid as long as the grant is live.            *)
Known(c) ==
    /\ server[c.grant].state # "none"
    /\ c.at <= server[c.grant].at
    /\ c.rt <= server[c.grant].rt
    /\ c.rt = 0 => server[c.grant].rt = 0
ServerShape ==
    /\ \A g \in Grants :
          /\ server[g].rt <= server[g].at
          /\ server[g].state # "none" => server[g].at >= 1
          /\ server[g].rt = 0 => server[g].at <= 1 /\ ~server[g].expired
    /\ \A c \in {session, pending, base, cur} \ {None} : Known(c)

(* Once the remote part is over the grants of the profile have ended.      *)
EndedBeforeCleaning ==
    /\ pc \in Cleaning =>
          \A c \in {session, pending, base} \ {None} : ~Live(c.grant)
    /\ pc \in {"rmPending", "rmSnapshot", "check", "rmMarker"} => session = None
    /\ pc \in {"rmSnapshot", "check", "rmMarker"} => pending = None
    /\ pc \in {"check", "rmMarker"} => snapshot = None

(* Every live grant is stored, or in the memory of the login that got it.  *)
Accounted ==
    \A g \in Grants \ abandoned :
        Live(g) => Retained(g) \/ (cmd = "login" /\ base # None /\ base.grant = g)

(* The inductive invariant.                                                *)
IInv ==
    /\ TypeOK
    /\ CommandShape
    /\ SavedWhere
    /\ ServerShape
    /\ EndedBeforeCleaning
    /\ Accounted
    /\ NeverBoth
    /\ SnapshotOfSession
    /\ MarkerAfterEnd
    /\ ReportTruthful
-----------------------------------------------------------------------------
LEMMA InitInvariant == Init => IInv
<1> SUFFICES ASSUME Init PROVE IInv
  OBVIOUS
<1> USE CliConstants DEF Init
<1>1. TypeOK
  <2>1. server \in [Grants -> Record]
    BY DEF Record
  <2> QED
    BY <2>1 DEF TypeOK, Steps, Reports
<1>2. CommandShape
  BY DEF CommandShape, WithGrant, Remoting, Cleaning
<1>3. SavedWhere
  BY DEF SavedWhere, WithGrant, Remoting, Cleaning
<1>4. ServerShape
  BY DEF ServerShape, Known
<1>5. EndedBeforeCleaning
  BY DEF EndedBeforeCleaning, Cleaning
<1>6. Accounted
  BY DEF Accounted, Live
<1>7. NeverBoth
  BY DEF NeverBoth
<1>8. SnapshotOfSession
  BY DEF SnapshotOfSession
<1>9. MarkerAfterEnd
  BY DEF MarkerAfterEnd
<1>10. ReportTruthful
  BY DEF ReportTruthful
<1> QED
  BY <1>1, <1>2, <1>3, <1>4, <1>5, <1>6, <1>7, <1>8, <1>9, <1>10 DEF IInv

(* What the server holds after it has issued new tokens for grant g.       *)
LEMMA IssuedTokens ==
    ASSUME server \in [Grants -> Record], NEW g \in Grants, NEW rotated \in BOOLEAN,
           Live(g), Issues(g, rotated)
    PROVE  /\ server' \in [Grants -> Record]
           /\ \A h \in Grants \ {g} : server'[h] = server[h]
           /\ server'[g].state = "live"
           /\ server'[g].at = NextGen(g)
           /\ server'[g].rt = IF rotated THEN NextGen(g) ELSE server[g].rt
           /\ ~server'[g].expired
           /\ NextGen(g) \in 1..MaxGen
           /\ NextGen(g) >= server[g].at
<1>1. server[g] \in Record
  OBVIOUS
<1>2. NextGen(g) \in 1..MaxGen /\ NextGen(g) >= server[g].at
  BY <1>1, CliConstants DEF NextGen, Record
<1>3. PICK r \in 0..MaxGen : r = IF rotated THEN NextGen(g) ELSE server[g].rt
  BY <1>1, <1>2, CliConstants DEF Record
<1>4. PICK n \in 1..MaxGen : n = NextGen(g)
  BY <1>2
<1> DEFINE new == [server[g] EXCEPT !.at = n, !.expired = FALSE, !.rt = r]
<1>5. server' = [server EXCEPT ![g] = new]
  BY <1>1, <1>3, <1>4 DEF Issues, Record
<1>6. /\ new \in Record
      /\ new.state = "live" /\ new.at = n /\ new.rt = r /\ new.expired = FALSE
  <2>1. n \in 0..MaxGen
    BY CliConstants
  <2>2. /\ new \in Record
        /\ new.state = server[g].state /\ new.at = n /\ new.rt = r /\ new.expired = FALSE
    BY <1>1, <2>1 DEF Record
  <2> QED
    BY <2>2 DEF Live
<1> HIDE DEF new
<1>7. /\ server' \in [Grants -> Record]
      /\ \A h \in Grants \ {g} : server'[h] = server[h]
      /\ server'[g] = new
  BY <1>5, <1>6
<1> QED
  BY <1>2, <1>3, <1>4, <1>6, <1>7

(* What a client stores of them.                                           *)
LEMMA RefreshedTokens ==
    ASSUME NEW c \in Creds, NEW rotated \in BOOLEAN, NextGen(c.grant) \in 1..MaxGen
    PROVE  /\ Refreshed(c, rotated) \in Creds
           /\ Refreshed(c, rotated).grant = c.grant
           /\ Refreshed(c, rotated).at = NextGen(c.grant)
           /\ Refreshed(c, rotated).rt = IF rotated THEN NextGen(c.grant) ELSE c.rt
<1>1. PICK r \in 0..MaxGen : r = IF rotated THEN NextGen(c.grant) ELSE c.rt
  BY CliConstants DEF Creds
<1>2. PICK n \in 1..MaxGen : n = NextGen(c.grant)
  OBVIOUS
<1> DEFINE new == [c EXCEPT !.at = n, !.rt = r]
<1>3. Refreshed(c, rotated) = new
  BY <1>1, <1>2 DEF Refreshed, Creds
<1>4. new \in Creds /\ new.grant = c.grant /\ new.at = n /\ new.rt = r
  BY DEF Creds
<1> HIDE DEF new
<1> QED
  BY <1>1, <1>2, <1>3, <1>4

(* A refresh by a storage command keeps the invariant, whether its answer  *)
(* is written or the write throws.                                         *)
LEMMA RefreshStep ==
    ASSUME IInv, NEW rotated \in BOOLEAN, NEW ok \in BOOLEAN, Refresh(rotated, ok)
    PROVE  IInv'
<1> DEFINE g == cur.grant
<1>1. /\ cur \in Creds /\ server \in [Grants -> Record] /\ Live(g)
      /\ Issues(g, rotated) /\ cur' = Refreshed(cur, rotated)
  BY DEF Refresh, Accepts, IInv, TypeOK, CommandShape, WithGrant
<1>2. g \in Grants
  BY <1>1 DEF Creds
<1>3. /\ server' \in [Grants -> Record]
      /\ \A h \in Grants \ {g} : server'[h] = server[h]
      /\ server'[g].state = "live" /\ ~server'[g].expired
      /\ server'[g].at \in 1..MaxGen /\ server'[g].at >= server[g].at
      /\ server'[g].rt = IF rotated THEN server'[g].at ELSE server[g].rt
      /\ NextGen(g) = server'[g].at
  BY <1>1, <1>2, IssuedTokens
<1>4. /\ cur' \in Creds /\ cur'.grant = g /\ cur'.at = server'[g].at
      /\ cur'.rt = IF rotated THEN server'[g].at ELSE cur.rt
  BY <1>1, <1>3, RefreshedTokens
<1> USE CliConstants DEF IInv, TypeOK, CommandShape, SavedWhere, ServerShape, Known,
      EndedBeforeCleaning, Accounted, NeverBoth, SnapshotOfSession, MarkerAfterEnd,
      ReportTruthful, Live, Retained, Creds, Record, Cleaning, Remoting, WithGrant,
      Steps, Reports, GoTo
<1>11. TypeOK'
  BY <1>1, <1>2, <1>3, <1>4 DEF Refresh, Accepts
<1>12. CommandShape'
  BY <1>1, <1>2, <1>3, <1>4 DEF Refresh, Accepts
<1>13. SavedWhere'
  BY <1>1, <1>2, <1>3, <1>4 DEF Refresh, Accepts
<1>14. ServerShape'
  BY <1>1, <1>2, <1>3, <1>4 DEF Refresh, Accepts
<1>15. EndedBeforeCleaning'
  BY <1>1, <1>2, <1>3, <1>4 DEF Refresh, Accepts
<1>16. Accounted'
  BY <1>1, <1>2, <1>3, <1>4 DEF Refresh, Accepts
<1>17. NeverBoth'
  BY <1>1, <1>2, <1>3, <1>4 DEF Refresh, Accepts
<1>18. SnapshotOfSession'
  BY <1>1, <1>2, <1>3, <1>4 DEF Refresh, Accepts
<1>19. MarkerAfterEnd'
  BY <1>1, <1>2, <1>3, <1>4 DEF Refresh, Accepts
<1>20. ReportTruthful'
  BY <1>1, <1>2, <1>3, <1>4 DEF Refresh, Accepts
<1> QED
  BY <1>11, <1>12, <1>13, <1>14, <1>15, <1>16, <1>17, <1>18, <1>19, <1>20

(* So does the refresh of a revocation, whatever becomes of its answer.    *)
LEMMA RefreshForLogoutStep ==
    ASSUME IInv, NEW rotated \in BOOLEAN, NEW o \in Outcomes, RefreshForLogout(rotated, o)
    PROVE  IInv'
<1> DEFINE g == cur.grant
<1>1. /\ cur \in Creds /\ server \in [Grants -> Record] /\ Live(g)
      /\ Issues(g, rotated)
      /\ cur' = IF o = "dropped" THEN cur ELSE Refreshed(cur, rotated)
  BY DEF RefreshForLogout, Accepts, IInv, TypeOK, CommandShape, WithGrant, Remoting
<1>2. g \in Grants
  BY <1>1 DEF Creds
<1>3. /\ server' \in [Grants -> Record]
      /\ \A h \in Grants \ {g} : server'[h] = server[h]
      /\ server'[g].state = "live" /\ ~server'[g].expired
      /\ server'[g].at \in 1..MaxGen /\ server'[g].at >= server[g].at
      /\ server'[g].rt = IF rotated THEN server'[g].at ELSE server[g].rt
      /\ NextGen(g) = server'[g].at
  BY <1>1, <1>2, IssuedTokens
<1>4. /\ cur' \in Creds /\ cur'.grant = g
      /\ cur' = cur \/ /\ cur'.at = server'[g].at
                       /\ cur'.rt = IF rotated THEN server'[g].at ELSE cur.rt
      /\ o # "dropped" => cur'.at = server'[g].at
  BY <1>1, <1>3, RefreshedTokens
<1> USE CliConstants DEF IInv, TypeOK, CommandShape, SavedWhere, ServerShape, Known,
      EndedBeforeCleaning, Accounted, NeverBoth, SnapshotOfSession, MarkerAfterEnd,
      ReportTruthful, Live, Retained, Creds, Record, Cleaning, Remoting, WithGrant,
      Steps, Reports, GoTo
<1>11. TypeOK'
  BY <1>1, <1>2, <1>3, <1>4 DEF RefreshForLogout, StoresRefreshed, Outcomes, Accepts
<1>12. CommandShape'
  BY <1>1, <1>2, <1>3, <1>4 DEF RefreshForLogout, StoresRefreshed, Outcomes, Accepts
<1>13. SavedWhere'
  BY <1>1, <1>2, <1>3, <1>4 DEF RefreshForLogout, StoresRefreshed, Outcomes, Accepts
<1>14. ServerShape'
  BY <1>1, <1>2, <1>3, <1>4 DEF RefreshForLogout, StoresRefreshed, Outcomes, Accepts
<1>15. EndedBeforeCleaning'
  BY <1>1, <1>2, <1>3, <1>4 DEF RefreshForLogout, StoresRefreshed, Outcomes, Accepts
<1>16. Accounted'
  BY <1>1, <1>2, <1>3, <1>4 DEF RefreshForLogout, StoresRefreshed, Outcomes, Accepts
<1>17. NeverBoth'
  BY <1>1, <1>2, <1>3, <1>4 DEF RefreshForLogout, StoresRefreshed, Outcomes, Accepts
<1>18. SnapshotOfSession'
  BY <1>1, <1>2, <1>3, <1>4 DEF RefreshForLogout, StoresRefreshed, Outcomes, Accepts
<1>19. MarkerAfterEnd'
  BY <1>1, <1>2, <1>3, <1>4 DEF RefreshForLogout, StoresRefreshed, Outcomes, Accepts
<1>20. ReportTruthful'
  BY <1>1, <1>2, <1>3, <1>4 DEF RefreshForLogout, StoresRefreshed, Outcomes, Accepts
<1> QED
  BY <1>11, <1>12, <1>13, <1>14, <1>15, <1>16, <1>17, <1>18, <1>19, <1>20

(* The end of an access token keeps the types.                             *)
LEMMA ExpireType == ASSUME TypeOK, NEW g \in Grants, Expire(g) PROVE TypeOK'
<1>1. /\ [server[g] EXCEPT !.expired = TRUE] \in Record
      /\ [server[g] EXCEPT !.state = "ended"] \in Record
  BY DEF TypeOK, Record
<1>2. server' \in [Grants -> Record]
  BY <1>1 DEF Expire, EndsGrant, TypeOK
<1> QED
  BY <1>2 DEF Expire, TypeOK, disk, command

LEMMA StepInvariant == ~IgnoresStale /\ IInv /\ [Next]_vars => IInv'
<1> SUFFICES ASSUME ~IgnoresStale, IInv, [Next]_vars PROVE IInv'
  OBVIOUS
<1> USE CliConstants DEF IInv, TypeOK, CommandShape, SavedWhere, ServerShape, Known,
      EndedBeforeCleaning, Accounted, NeverBoth, SnapshotOfSession, MarkerAfterEnd,
      ReportTruthful, Live, Retained, Creds, Record, Cleaning, Remoting, WithGrant,
      Steps, Reports, GoTo, Begins, Ends, RemoteEnds, EndsGrant, ValidAccess, Accepts,
      NextGen, Issues, Refreshed, Empty, Cleared, Writes, disk, command
<1>1. CASE StartLogin
  BY <1>1 DEF StartLogin
<1>2. CASE DeviceFails
  BY <1>2 DEF DeviceFails
<1>3. ASSUME NEW written \in BOOLEAN, InitFails(written) PROVE IInv'
  BY <1>3 DEF InitFails
<1>4. CASE OpenStorage
  BY <1>4 DEF OpenStorage
<1>5. CASE RefreshReused
  BY <1>5 DEF RefreshReused
<1>6. CASE StartLogout
  BY <1>6 DEF StartLogout
<1>7. CASE RemoteFails
  BY <1>7 DEF RemoteFails
<1>8. CASE EndUnrevoked
  BY <1>8 DEF EndUnrevoked
<1>9. CASE InspectFiles
  BY <1>9 DEF InspectFiles
<1>10. CASE RemoveSession
  BY <1>10 DEF RemoveSession
<1>11. CASE RemovePending
  BY <1>11 DEF RemovePending
<1>12. CASE RemoveSnapshot
  BY <1>12 DEF RemoveSnapshot
<1>13. CASE CheckRemaining
  BY <1>13 DEF CheckRemaining
<1>14. CASE RemoveMarker
  BY <1>14 DEF RemoveMarker
<1>15. CASE CleanupFails
  BY <1>15 DEF CleanupFails
<1>16. CASE Crash
  <2>1. TypeOK'
    BY <1>16 DEF Crash
  <2>2. CommandShape'
    BY <1>16 DEF Crash
  <2>3. SavedWhere'
    BY <1>16 DEF Crash
  <2>4. ServerShape'
    BY <1>16 DEF Crash
  <2>5. EndedBeforeCleaning'
    BY <1>16 DEF Crash
  <2>6. Accounted'
    BY <1>16 DEF Crash
  <2>7. NeverBoth'
    BY <1>16 DEF Crash
  <2>8. SnapshotOfSession'
    BY <1>16 DEF Crash
  <2>9. MarkerAfterEnd'
    BY <1>16 DEF Crash
  <2>10. ReportTruthful'
    BY <1>16 DEF Crash
  <2> QED
    BY <2>1, <2>2, <2>3, <2>4, <2>5, <2>6, <2>7, <2>8, <2>9, <2>10
<1>17. ASSUME NEW g \in Grants, NEW rt \in {0, 1}, NEW complete \in BOOLEAN, DeviceIssues(g, rt, complete) PROVE IInv'
  BY <1>17 DEF DeviceIssues
<1>18. ASSUME NEW ok \in BOOLEAN, SaveSession(ok) PROVE IInv'
  BY <1>18 DEF SaveSession
<1>19. ASSUME NEW ok \in BOOLEAN, LoginCloses(ok) PROVE IInv'
  BY <1>19 DEF LoginCloses
<1>20. ASSUME NEW ok \in BOOLEAN, Recover(ok) PROVE IInv'
  BY <1>20 DEF Recover
<1>21. ASSUME NEW rotated \in BOOLEAN, NEW ok \in BOOLEAN, Refresh(rotated, ok) PROVE IInv'
  BY <1>21, RefreshStep
<1>22. ASSUME NEW rotated \in BOOLEAN, LateRefresh(rotated) PROVE IInv'
  BY <1>22 DEF LateRefresh
<1>23. ASSUME NEW written \in BOOLEAN, CloseStorage(written) PROVE IInv'
  BY <1>23 DEF CloseStorage
<1>24. ASSUME NEW a \in BOOLEAN, RevokeToken(a) PROVE IInv'
  BY <1>24 DEF RevokeToken
<1>25. ASSUME NEW a \in BOOLEAN, LogoutRequest(a) PROVE IInv'
  BY <1>25 DEF LogoutRequest
<1>26. ASSUME NEW a \in BOOLEAN, RefreshRefused(a) PROVE IInv'
  BY <1>26 DEF RefreshRefused
<1>27. ASSUME NEW a \in BOOLEAN, LogoutAgain(a) PROVE IInv'
  BY <1>27 DEF LogoutAgain
<1>28. ASSUME NEW rotated \in BOOLEAN, NEW o \in Outcomes, RefreshForLogout(rotated, o) PROVE IInv'
  BY <1>28, RefreshForLogoutStep
<1>29. ASSUME NEW ok \in BOOLEAN, WriteMarker(ok) PROVE IInv'
  BY <1>29 DEF WriteMarker
<1>30. ASSUME NEW g \in Grants, Expire(g) PROVE IInv'
  <2>1. TypeOK'
    BY <1>30, ExpireType
  <2>2. CommandShape'
    BY <1>30 DEF Expire
  <2>3. SavedWhere'
    BY <1>30 DEF Expire
  <2>4. ServerShape'
    BY <1>30 DEF Expire
  <2>5. EndedBeforeCleaning'
    BY <1>30 DEF Expire
  <2>6. Accounted'
    BY <1>30 DEF Expire
  <2>7. NeverBoth'
    BY <1>30 DEF Expire
  <2>8. SnapshotOfSession'
    BY <1>30 DEF Expire
  <2>9. MarkerAfterEnd'
    BY <1>30 DEF Expire
  <2>10. ReportTruthful'
    BY <1>30 DEF Expire
  <2> QED
    BY <2>1, <2>2, <2>3, <2>4, <2>5, <2>6, <2>7, <2>8, <2>9, <2>10
<1>31. ASSUME NEW g \in Grants, EndElsewhere(g) PROVE IInv'
  BY <1>31 DEF EndElsewhere
<1>32. ASSUME NEW g \in Grants, NEW rt \in {0, 1}, DeviceMisses(g, rt) PROVE IInv'
  BY <1>32 DEF DeviceMisses
<1>33. CASE UNCHANGED vars
  BY <1>33 DEF vars
<1> HIDE DEF IInv
<1> QED
  BY <1>1, <1>2, <1>3, <1>4, <1>5, <1>6, <1>7, <1>8, <1>9, <1>10, <1>11, <1>12, <1>13,
       <1>14, <1>15, <1>16, <1>17, <1>18, <1>19, <1>20, <1>21, <1>22, <1>23, <1>24,
       <1>25, <1>26, <1>27, <1>28, <1>29, <1>30, <1>31, <1>32, <1>33 DEF Next, Login,
       Storage, Remote, Cleanup

LEMMA Invariant == ~IgnoresStale => (Spec => []IInv)
<1> SUFFICES ASSUME ~IgnoresStale PROVE Spec => []IInv
  OBVIOUS
<1>1. IInv /\ [Next]_vars => IInv'
  BY StepInvariant
<1> QED
  BY InitInvariant, <1>1, PTL DEF Spec
-----------------------------------------------------------------------------
(* The types hold in every reachable state.                                *)
THEOREM TypeCorrect == ~IgnoresStale => (Spec => []TypeOK)
BY Invariant, PTL DEF IInv

(* No sequence of commands, faults and kills makes files that do not       *)
(* belong together: both session.json and login-pending.json (which logout *)
(* refuses), a snapshot next to the session of another device, or the      *)
(* marker next to the credentials of a live grant.                         *)
THEOREM FilesMatch == ~IgnoresStale => (Spec => []FilesBelongTogether)
BY Invariant, PTL DEF IInv, FilesBelongTogether

(* What a command reports is true of the profile and of the server.        *)
THEOREM TruthfulReports == ~IgnoresStale => (Spec => []ReportTruthful)
BY Invariant, PTL DEF IInv

(* Between commands a live grant can be logged out from the profile,       *)
(* unless a kill or a report has given it up.                              *)
THEOREM NoOrphan == ~IgnoresStale => (Spec => []NoSilentOrphan)
<1>1. IInv => NoSilentOrphan
  BY DEF IInv, CommandShape, Accounted, NoSilentOrphan
<1> QED
  BY Invariant, <1>1, PTL
-----------------------------------------------------------------------------
(* The grants as GrantCustody sees them.                                   *)
Issued     == {g \in Grants : server[g].state # "none"}
LiveGrants == {g \in Grants : Live(g)}
Held       == IF cmd = "login" /\ base # None THEN {base.grant} ELSE {}

(* The end of a grant, if it was live.                                     *)
LEMMA EndingGrant ==
    ASSUME TypeOK, NEW g \in Grants, server[g].state # "none", EndsGrant(g)
    PROVE  Issued' = Issued /\ LiveGrants' = LiveGrants \ {g}
BY DEF TypeOK, EndsGrant, Issued, LiveGrants, Live, Record

(* New tokens change no grant's state.                                     *)
LEMMA IssuingTokens ==
    ASSUME TypeOK, NEW g \in Grants, NEW rotated \in BOOLEAN, Live(g), Issues(g, rotated)
    PROVE  Issued' = Issued /\ LiveGrants' = LiveGrants
<1>1. \A h \in Grants : server'[h].state = server[h].state
  BY IssuedTokens DEF TypeOK, Live
<1> QED
  BY <1>1 DEF Issued, LiveGrants, Live

(* A step that leaves the server and the stored credentials alone.         *)
LEMMA QuietFiles ==
    ASSUME UNCHANGED <<session, pending, marker>>
    PROVE  Stored' = Stored
BY DEF Stored, Retained

LEMMA QuietServer ==
    ASSUME UNCHANGED server
    PROVE  Issued' = Issued /\ LiveGrants' = LiveGrants
BY DEF Issued, LiveGrants, Live

(* What each kind of step is to GrantCustody.                              *)
CustodyStep == [Custody!CustodyNext]_(Custody!custodyVars)

LEMMA MapsQuiet ==
    ASSUME TypeOK, Issued' = Issued, LiveGrants' = LiveGrants, Stored' = Stored,
           Held' \in {Held, {}}
    PROVE  CustodyStep
<1>1. CASE Held' = Held
  BY <1>1 DEF CustodyStep, Custody!custodyVars, Issued, LiveGrants, Held
<1>2. CASE Held' = {} /\ Held # {}
  <2>1. base.grant \in Grants /\ Held = {base.grant}
    BY <1>2, CliConstants DEF Held, TypeOK, Creds
  <2>2. Custody!LetGo(base.grant)
    BY <1>2, <2>1 DEF Custody!LetGo, Issued, LiveGrants, Held
  <2> QED
    BY <2>1, <2>2 DEF CustodyStep, Custody!CustodyNext
<1> QED
  BY <1>1, <1>2

LEMMA MapsEnd ==
    ASSUME NEW g \in Grants, Issued' = Issued, LiveGrants' = LiveGrants \ {g},
           Stored' = Stored, Held' = Held
    PROVE  CustodyStep
<1>1. Custody!End(g)
  BY DEF Custody!End, Issued, LiveGrants, Held
<1> QED
  BY <1>1 DEF CustodyStep, Custody!CustodyNext

LEMMA MapsIssue ==
    ASSUME NEW g \in Grants, g \notin Issued, Issued' = Issued \union {g},
           LiveGrants' = LiveGrants \union {g}, Stored' = Stored, Held' = Held \union {g}
    PROVE  CustodyStep
<1>1. Custody!Issue(g)
  BY DEF Custody!Issue, Issued, LiveGrants, Held
<1> QED
  BY <1>1 DEF CustodyStep, Custody!CustodyNext

LEMMA MapsMiss ==
    ASSUME NEW g \in Grants, g \notin Issued, Issued' = Issued \union {g},
           LiveGrants' = LiveGrants \union {g}, Stored' = Stored, Held' = Held
    PROVE  CustodyStep
<1>1. Custody!Miss(g)
  BY DEF Custody!Miss, Issued, LiveGrants, Held
<1> QED
  BY <1>1 DEF CustodyStep, Custody!CustodyNext

LEMMA MapsKeep ==
    ASSUME NEW g \in Grants, g \in Held, Issued' = Issued, LiveGrants' = LiveGrants,
           Stored' = Stored \union {g}, Held' = Held
    PROVE  CustodyStep
<1>1. Custody!Keep(g)
  BY DEF Custody!Keep, Issued, LiveGrants, Held
<1> QED
  BY <1>1 DEF CustodyStep, Custody!CustodyNext

LEMMA MapsDischarge ==
    ASSUME NEW g \in Grants, g \notin LiveGrants, Issued' = Issued,
           LiveGrants' = LiveGrants, Stored' = Stored \ {g}, Held' = Held
    PROVE  CustodyStep
<1>1. Custody!Discharge(g)
  BY DEF Custody!Discharge, Issued, LiveGrants, Held
<1> QED
  BY <1>1 DEF CustodyStep, Custody!CustodyNext

(* Steps that end no grant and store and remove no credentials.            *)
LEMMA QuietSteps ==
    ASSUME IInv,
           \/ StartLogin \/ DeviceFails \/ OpenStorage \/ StartLogout
           \/ RemoteFails \/ EndUnrevoked \/ InspectFiles \/ RemoveSnapshot
           \/ CheckRemaining \/ CleanupFails \/ Crash
           \/ \E ok \in BOOLEAN : InitFails(ok) \/ LoginCloses(ok) \/ CloseStorage(ok)
           \/ UNCHANGED vars
    PROVE  CustodyStep
<1>1. UNCHANGED <<session, pending, marker, server>>
  BY DEF StartLogin, DeviceFails, InitFails, OpenStorage, StartLogout, RemoteFails,
         EndUnrevoked, InspectFiles, RemoveSnapshot, CheckRemaining, CleanupFails,
         Crash, LoginCloses, CloseStorage, Begins, Ends, GoTo, disk, vars
<1>2. Held' \in {Held, {}}
  BY DEF StartLogin, DeviceFails, InitFails, OpenStorage, StartLogout, RemoteFails,
         EndUnrevoked, InspectFiles, RemoveSnapshot, CheckRemaining, CleanupFails,
         Crash, LoginCloses, CloseStorage, Begins, Ends, GoTo, command, vars, Held
<1> QED
  BY <1>1, <1>2, QuietFiles, QuietServer, MapsQuiet DEF IInv

(* Steps that end a grant, or find it ended.                               *)
LEMMA EndingSteps ==
    ASSUME IInv,
           \/ RefreshReused
           \/ \E a \in BOOLEAN :
                RevokeToken(a) \/ LogoutRequest(a) \/ RefreshRefused(a) \/ LogoutAgain(a)
           \/ \E g \in Grants : Expire(g) \/ EndElsewhere(g)
    PROVE  CustodyStep
<1>1. UNCHANGED <<session, pending, marker, cmd, base>>
  BY DEF RefreshReused, RevokeToken, LogoutRequest, RefreshRefused, LogoutAgain,
         Expire, EndElsewhere, disk, command
<1>2. Stored' = Stored /\ Held' = Held
  BY <1>1, QuietFiles DEF Held
<1>3. UNCHANGED server \/ \E g \in Grants :
          \/ server[g].state # "none" /\ EndsGrant(g)
          \/ server' = [server EXCEPT ![g].expired = TRUE]
  BY DEF RefreshReused, RevokeToken, LogoutRequest, RefreshRefused, LogoutAgain,
         Expire, EndElsewhere, IInv, TypeOK, CommandShape, WithGrant, Remoting,
         ServerShape, Known, Live, Creds
<1>4. CASE UNCHANGED server
  BY <1>2, <1>4, QuietServer, MapsQuiet DEF IInv
<1>5. ASSUME NEW g \in Grants, server[g].state # "none", EndsGrant(g) PROVE CustodyStep
  BY <1>2, <1>5, EndingGrant, MapsEnd DEF IInv
<1>6. ASSUME NEW g \in Grants, server' = [server EXCEPT ![g].expired = TRUE] PROVE CustodyStep
  <2>1. \A h \in Grants : server'[h].state = server[h].state
    BY <1>6 DEF IInv, TypeOK, Record
  <2>2. Issued' = Issued /\ LiveGrants' = LiveGrants
    BY <2>1 DEF Issued, LiveGrants, Live
  <2> QED
    BY <1>2, <2>2, MapsQuiet DEF IInv
<1> QED
  BY <1>3, <1>4, <1>5, <1>6

(* Steps that write or remove credentials or get new ones.                 *)
LEMMA FileSteps ==
    ASSUME IInv,
           \/ RemoveSession \/ RemovePending \/ RemoveMarker
           \/ \E ok \in BOOLEAN : SaveSession(ok) \/ Recover(ok) \/ WriteMarker(ok)
    PROVE  CustodyStep
<1>1. UNCHANGED server
  BY DEF RemoveSession, RemovePending, RemoveMarker, SaveSession, Recover, WriteMarker
<1>2. Issued' = Issued /\ LiveGrants' = LiveGrants
  BY <1>1, QuietServer
<1>3. CASE RemoveSession \/ RemovePending \/ \E ok \in BOOLEAN : WriteMarker(ok)
  <2>1. Held' = Held
    BY <1>3 DEF RemoveSession, RemovePending, WriteMarker, command, Held
  <2>2. Stored' = Stored \/ \E g \in Grants : g \notin LiveGrants /\ Stored' = Stored \ {g}
    BY <1>3, CliConstants
       DEF RemoveSession, RemovePending, WriteMarker, Stored, Retained, LiveGrants, IInv,
           TypeOK, Creds, EndedBeforeCleaning, Cleaning, NeverBoth
  <2> QED
    BY <1>2, <2>1, <2>2, MapsQuiet, MapsDischarge DEF IInv
<1>4. CASE RemoveMarker
  <2>1. Stored' = Stored
    BY <1>4 DEF RemoveMarker, Stored, Retained, IInv, EndedBeforeCleaning
  <2>2. Held' \in {Held, {}}
    BY <1>4 DEF RemoveMarker, Ends, Held
  <2> QED
    BY <1>2, <2>1, <2>2, MapsQuiet DEF IInv
<1>5. CASE \E ok \in BOOLEAN : SaveSession(ok) \/ Recover(ok)
  <2>1. /\ Held' = Held
        /\ base \in Creds /\ base.grant \in Grants /\ Held = {base.grant}
    BY <1>5, CliConstants DEF SaveSession, Recover, Held, IInv, TypeOK, CommandShape,
         WithGrant, Remoting, Cleaning, Creds
  <2>2. Stored' = Stored \/ Stored' = Stored \union {base.grant}
    BY <1>5, <2>1, CliConstants DEF SaveSession, Recover, Stored, Retained, IInv,
         TypeOK, CommandShape, SavedWhere, WithGrant, Remoting, Cleaning, Creds
  <2> QED
    BY <1>2, <2>1, <2>2, MapsQuiet, MapsKeep DEF IInv
<1> QED
  BY <1>3, <1>4, <1>5

(* A new grant, and new tokens for one.                                    *)
LEMMA IssuingSteps ==
    ASSUME IInv,
           \/ \E g \in Grants, rt \in {0, 1}, complete \in BOOLEAN : DeviceIssues(g, rt, complete)
           \/ \E g \in Grants, rt \in {0, 1} : DeviceMisses(g, rt)
           \/ \E rotated, ok \in BOOLEAN : Refresh(rotated, ok)
           \/ \E rotated \in BOOLEAN : LateRefresh(rotated)
           \/ \E rotated \in BOOLEAN, o \in Outcomes : RefreshForLogout(rotated, o)
    PROVE  CustodyStep
<1>1. ASSUME NEW g \in Grants, NEW rt \in {0, 1}, NEW complete \in BOOLEAN,
             DeviceIssues(g, rt, complete)
      PROVE  CustodyStep
  <2>1. g \notin Issued
    BY <1>1 DEF DeviceIssues, Issued
  <2>2. Issued' = Issued \union {g} /\ LiveGrants' = LiveGrants \union {g}
    BY <1>1 DEF DeviceIssues, Issued, LiveGrants, Live, IInv, TypeOK, Record
  <2>3. Stored' = Stored
    BY <1>1, QuietFiles DEF DeviceIssues, disk
  <2>4. Held' = Held \union {g}
    <3>1. cmd = "login" /\ base = None
      BY <1>1 DEF DeviceIssues, IInv, TypeOK, CommandShape, Remoting, Cleaning
    <3>2. [grant |-> g, at |-> 1, rt |-> rt] \in Creds
      BY CliConstants DEF Creds
    <3>3. base' = [grant |-> g, at |-> 1, rt |-> rt] /\ cmd' = cmd
      BY <1>1 DEF DeviceIssues
    <3>4. base' # None /\ base'.grant = g
      BY <3>2, <3>3, CliConstants
    <3> QED
      BY <3>1, <3>3, <3>4 DEF Held
  <2> QED
    BY <2>1, <2>2, <2>3, <2>4, MapsIssue
<1>5. ASSUME NEW g \in Grants, NEW rt \in {0, 1}, DeviceMisses(g, rt) PROVE CustodyStep
  <2>1. g \notin Issued
    BY <1>5 DEF DeviceMisses, Issued
  <2>2. Issued' = Issued \union {g} /\ LiveGrants' = LiveGrants \union {g}
    BY <1>5 DEF DeviceMisses, Issued, LiveGrants, Live, IInv, TypeOK, Record
  <2>3. Stored' = Stored
    BY <1>5, QuietFiles DEF DeviceMisses, disk
  <2>4. Held' = Held
    BY <1>5 DEF DeviceMisses, Ends, Held, IInv, CommandShape
  <2> QED
    BY <2>1, <2>2, <2>3, <2>4, MapsMiss
<1>2. ASSUME NEW rotated \in BOOLEAN, NEW ok \in BOOLEAN, Refresh(rotated, ok) PROVE CustodyStep
  <2>1. cur \in Creds /\ cur.grant \in Grants /\ Live(cur.grant) /\ Issues(cur.grant, rotated)
    BY <1>2, CliConstants DEF Refresh, Accepts, IInv, TypeOK, CommandShape, WithGrant,
         Creds
  <2>2. cur'.grant = cur.grant
    BY <1>2, <2>1, IssuedTokens, RefreshedTokens DEF Refresh, IInv, TypeOK
  <2>3. Stored' = Stored
    BY <1>2, <2>1, <2>2, RefreshStep, CliConstants DEF Refresh, Stored, Retained, IInv,
         TypeOK, CommandShape, SavedWhere, WithGrant, Creds
  <2>4. Held' = Held
    BY <1>2 DEF Refresh, Held
  <2> QED
    BY <2>1, <2>3, <2>4, IssuingTokens, MapsQuiet DEF IInv
<1>3. ASSUME NEW rotated \in BOOLEAN, LateRefresh(rotated) PROVE CustodyStep
  <2>1. session.grant \in Grants /\ Live(session.grant) /\ Issues(session.grant, rotated)
    BY <1>3, CliConstants DEF LateRefresh, Accepts, IInv, TypeOK, Creds
  <2>2. Stored' = Stored /\ Held' = Held
    BY <1>3, QuietFiles DEF LateRefresh, disk, command, Held
  <2> QED
    BY <2>1, <2>2, IssuingTokens, MapsQuiet DEF IInv
<1>4. ASSUME NEW rotated \in BOOLEAN, NEW o \in Outcomes, RefreshForLogout(rotated, o)
      PROVE  CustodyStep
  <2>1. cur \in Creds /\ cur.grant \in Grants /\ Live(cur.grant) /\ Issues(cur.grant, rotated)
    BY <1>4, CliConstants DEF RefreshForLogout, Accepts, IInv, TypeOK, CommandShape,
         WithGrant, Remoting, Creds
  <2>2. /\ base \in Creds /\ base.grant = cur.grant
        /\ cur' \in Creds /\ cur'.grant = cur.grant
    BY <1>4, <2>1, IssuedTokens, RefreshedTokens, CliConstants
       DEF RefreshForLogout, IInv, TypeOK, CommandShape, WithGrant, Remoting
  <2>3. Held' = Held
    BY <1>4 DEF RefreshForLogout, Held
  <2>4. CASE saved = "session"
    <3>1. Stored' = Stored
      BY <1>4, <2>1, <2>2, <2>4, CliConstants
         DEF RefreshForLogout, StoresRefreshed, Outcomes, Stored, Retained, IInv, TypeOK,
             CommandShape, SavedWhere, WithGrant, Remoting, Creds
    <3> QED
      BY <2>1, <2>3, <3>1, IssuingTokens, MapsQuiet DEF IInv
  <2>5. CASE saved = "pending"
    <3>1. Stored' = Stored
      BY <1>4, <2>1, <2>2, <2>5, CliConstants
         DEF RefreshForLogout, StoresRefreshed, Outcomes, Stored, Retained, IInv, TypeOK,
             CommandShape, SavedWhere, WithGrant, Remoting, Creds
    <3> QED
      BY <2>1, <2>3, <3>1, IssuingTokens, MapsQuiet DEF IInv
  <2>6. CASE saved = "no"
    <3>1. base.grant \in Held
      BY <1>4, <2>6, CliConstants
         DEF RefreshForLogout, Held, IInv, TypeOK, CommandShape, WithGrant, Remoting
    <3>2. Stored' = Stored \/ Stored' = Stored \union {base.grant}
      BY <1>4, <2>1, <2>2, <2>6, CliConstants
         DEF RefreshForLogout, StoresRefreshed, Outcomes, Stored, Retained, IInv, TypeOK,
             CommandShape, SavedWhere, WithGrant, Remoting, Creds
    <3> QED
      BY <2>1, <2>2, <2>3, <3>1, <3>2, IssuingTokens, MapsQuiet, MapsKeep DEF IInv
  <2> QED
    BY <2>4, <2>5, <2>6 DEF IInv, TypeOK
<1> QED
  BY <1>1, <1>2, <1>3, <1>4, <1>5

(* The profile implements GrantCustody: its initial states are initial     *)
(* states there and every step is a step there or changes nothing.         *)
THEOREM Refinement == ~IgnoresStale => (Spec => ImplementsCustody)
<1> SUFFICES ASSUME ~IgnoresStale PROVE Spec => Custody!CustodySpec
  BY DEF ImplementsCustody
<1>1. Init => Custody!CustodyInit
  BY DEF Init, Custody!CustodyInit, Live, Stored, Retained
<1>2. IInv /\ [Next]_vars => [Custody!CustodyNext]_(Custody!custodyVars)
  <2> SUFFICES ASSUME IInv, [Next]_vars PROVE CustodyStep
    BY DEF CustodyStep
  <2> QED
    BY QuietSteps, EndingSteps, FileSteps, IssuingSteps
       DEF Next, Login, Storage, Remote, Cleanup
<1> QED
  BY Invariant, <1>1, <1>2, PTL DEF Spec, Custody!CustodySpec

(* Where a revocation endpoint that answers 200 has ended the grant, the   *)
(* credentials of a live grant are never removed.                          *)
THEOREM RevokedFirst == ~IgnoresStale => (Spec => RevokedBeforeRemoved)
<1> SUFFICES ASSUME ~IgnoresStale PROVE Spec => RevokedBeforeRemoved
  OBVIOUS
<1> DEFINE A == \A g \in Grants : Retained(g) /\ Live(g)' => Retained(g)'
<1>1. IInv /\ [Next]_vars => [A]_vars
  <2> SUFFICES ASSUME IInv, [Next]_vars, NEW g \in Grants, Retained(g), Live(g)'
               PROVE  Retained(g)'
    OBVIOUS
  <2>1. CustodyStep
    BY QuietSteps, EndingSteps, FileSteps, IssuingSteps
       DEF Next, Login, Storage, Remote, Cleanup
  <2>2. g \in Stored /\ g \in LiveGrants'
    BY DEF Stored, LiveGrants
  <2>3. g \in Stored'
    <3>1. server[g].state # "none"
      BY DEF IInv, ServerShape, Known, Retained
    <3>2. g \in Issued
      BY <3>1 DEF Issued
    <3> QED
      BY <2>1, <2>2, <3>2
         DEF CustodyStep, Custody!CustodyNext, Custody!custodyVars, Custody!Issue,
             Custody!Miss, Custody!Keep, Custody!End, Custody!Discharge, Custody!LetGo,
             Issued, LiveGrants, Held
  <2> QED
    BY <2>3 DEF Stored
<1> QED
  BY Invariant, <1>1, PTL DEF Spec, RevokedBeforeRemoved

(* A step replaces the tokens in session.json only by newer ones.          *)
LEMMA NewerTokens ==
    ASSUME IInv, Next, session # None, session' # None, session'.grant = session.grant
    PROVE  session'.at >= session.at /\ session'.rt >= session.rt
<1> session \in Creds /\ session.grant \in Grants /\ Known(session)
  BY DEF IInv, TypeOK, ServerShape, Creds
<1>1. CASE UNCHANGED session
  BY <1>1 DEF Creds
<1>2. ASSUME NEW rotated \in BOOLEAN, cur \in Creds, cur.grant = session.grant,
             Accepts(cur.grant, cur.rt), Issues(cur.grant, rotated),
             session' = Refreshed(cur, rotated)
      PROVE  session'.at >= session.at /\ session'.rt >= session.rt
  <2>1. /\ NextGen(cur.grant) \in 1..MaxGen
        /\ NextGen(cur.grant) >= server[cur.grant].at
    BY <1>2, IssuedTokens DEF Accepts, IInv, TypeOK
  <2>2. /\ session'.at = NextGen(cur.grant)
        /\ session'.rt = IF rotated THEN NextGen(cur.grant) ELSE cur.rt
    BY <1>2, <2>1, RefreshedTokens
  <2>3. /\ server[cur.grant] \in Record
        /\ server[cur.grant].rt = cur.rt /\ cur.rt <= server[cur.grant].at
        /\ session.at <= server[cur.grant].at /\ session.rt <= cur.rt
    BY <1>2 DEF Accepts, Known, IInv, TypeOK, ServerShape
  <2> QED
    BY <2>1, <2>2, <2>3, CliConstants DEF Creds, Record
<1>3. ASSUME NEW rotated \in BOOLEAN, NEW ok \in BOOLEAN, Refresh(rotated, ok), session' # session
      PROVE  session'.at >= session.at /\ session'.rt >= session.rt
  <2>1. cur \in Creds /\ cur.grant = session.grant
    BY <1>3, CliConstants DEF Refresh, IInv, TypeOK, CommandShape, SavedWhere, WithGrant
  <2> QED
    BY <1>2, <1>3, <2>1 DEF Refresh
<1>4. ASSUME NEW rotated \in BOOLEAN, NEW o \in Outcomes, RefreshForLogout(rotated, o),
             session' # session
      PROVE  session'.at >= session.at /\ session'.rt >= session.rt
  <2>1. cur \in Creds /\ cur.grant = session.grant /\ session' = Refreshed(cur, rotated)
    BY <1>4, CliConstants DEF RefreshForLogout, StoresRefreshed, IInv, TypeOK,
         CommandShape, SavedWhere, WithGrant, Remoting
  <2> QED
    BY <1>2, <1>4, <2>1 DEF RefreshForLogout
<1>5. ASSUME NEW ok \in BOOLEAN, SaveSession(ok)
      PROVE  session'.at >= session.at /\ session'.rt >= session.rt
  BY <1>5 DEF SaveSession, IInv, SavedWhere
<1> QED
  BY <1>1, <1>3, <1>4, <1>5 DEF Next, Login, Storage, Remote, Cleanup, StartLogin,
       DeviceFails, InitFails, OpenStorage, StartLogout, RefreshReused, RemoteFails,
       EndUnrevoked, InspectFiles, RemoveSession, RemovePending, RemoveSnapshot,
       CheckRemaining, RemoveMarker, CleanupFails, Crash, DeviceIssues, DeviceMisses,
       LoginCloses, Recover, LateRefresh, CloseStorage, RevokeToken, LogoutRequest,
       RefreshRefused, LogoutAgain, WriteMarker, Expire, EndElsewhere, Begins, disk

(* The stored tokens never go back to an earlier generation.               *)
THEOREM NoRegress == ~IgnoresStale => (Spec => TokensNeverRegress)
<1> SUFFICES ASSUME ~IgnoresStale PROVE Spec => TokensNeverRegress
  OBVIOUS
<1>1. IInv /\ [Next]_vars =>
        [session # None /\ session' # None /\ session'.grant = session.grant
           => session'.at >= session.at /\ session'.rt >= session.rt]_vars
  BY NewerTokens
<1> QED
  BY Invariant, <1>1, PTL DEF Spec, TokensNeverRegress

-----------------------------------------------------------------------------
(* The endless retry that the code cannot rule out: the second logout      *)
(* request is refused because the token it was just given is not valid any *)
(* more.                                                                   *)
FreshTokenRefused == pc = "again" /\ ~ValidAccess(cur) /\ pc' = "unrevoked"
FreshTokenHolds == <>[][~FreshTokenRefused]_vars

(* What can happen from the time on when nothing of this fails.            *)
Proceeds == Next /\ ~Fault /\ ~FreshTokenRefused

(* How far a profile that is not empty is from being emptied, in steps of  *)
(* its commands.                                                           *)
Place ==
    CASE pc = "init"       -> 13
      [] pc \in {"recover", "unrevoked"} -> 12
      [] pc \in {"idle", "using"} -> 11
      [] pc = "revoke"     -> 10
      [] pc = "refresh"    -> 9
      [] pc = "again"      -> 8
      [] pc = "finish"     -> 7
      [] pc = "clear"      -> 6
      [] pc = "rmSession"  -> 5
      [] pc = "rmPending"  -> 4
      [] pc = "rmSnapshot" -> 3
      [] pc = "check"      -> 2
      [] pc = "rmMarker"   -> 1
      [] OTHER             -> 0
Filled == ~Empty /\ ~litter
Within(k) == Filled /\ Place <= k

(* Before its first write a login has an empty profile.                    *)
LEMMA FilledPlace == IInv /\ Filled => Place \in 1..13
BY DEF IInv, TypeOK, CommandShape, SavedWhere, Filled, Empty, Cleared, Place, Steps,
     WithGrant, Remoting, Cleaning

(* No step takes it back, and each step of a command brings it nearer,     *)
(* except that the end of a storage command only makes way for a logout.   *)
LEMMA EmptyingStep ==
    ASSUME IInv, Filled, Proceeds, Filled'
    PROVE  /\ Place' <= Place
           /\ Work => Place' < Place \/ (pc = "using" /\ pc' = "idle")
           /\ StartLogout => Place' < Place
<1> DEFINE Nearer == /\ Place' <= Place
                     /\ Work => Place' < Place \/ (pc = "using" /\ pc' = "idle")
                     /\ StartLogout => Place' < Place
<1>0. Place \in 1..13 /\ Next /\ ~Fault /\ ~FreshTokenRefused
  BY FilledPlace DEF Proceeds
<1>1. ASSUME pc' = pc, ~Work, ~StartLogout PROVE Nearer
  BY <1>1 DEF Place
<1>2. ASSUME Place' < Place PROVE Nearer
  BY <1>0, <1>2 DEF Place
<1> HIDE DEF Nearer
<1> USE <1>0 DEF Filled, Empty, Cleared, GoTo
<1>3. ASSUME StartLogin PROVE Nearer
  BY <1>3 DEF StartLogin
<1>4. ASSUME OpenStorage PROVE Nearer
  <2>1. pc = "idle" /\ pc' = "using"
    BY <1>4 DEF OpenStorage, Begins
  <2>2. ~Work
    BY <2>1 DEF Work, DeviceFails, SaveSession, InitFails, LoginCloses, Recover,
         CloseStorage, Remote, RemoteFails, EndUnrevoked, RevokeToken, LogoutRequest,
         RefreshRefused, LogoutAgain, RefreshForLogout, Cleanup, WriteMarker,
         InspectFiles, RemoveSession, RemovePending, RemoveSnapshot, CheckRemaining,
         RemoveMarker, CleanupFails
  <2>3. ~StartLogout
    BY <2>1 DEF StartLogout, Begins
  <2> QED
    BY <2>1, <2>2, <2>3 DEF Nearer, Place
<1>5. ASSUME StartLogout PROVE Nearer
  BY <1>5, <1>2 DEF StartLogout, Begins, Place
<1>6. ASSUME DeviceFails PROVE Nearer
  BY <1>6, <1>2 DEF DeviceFails, Place
<1>7. ASSUME NEW ok \in BOOLEAN, InitFails(ok) PROVE Nearer
  BY <1>7, <1>2 DEF InitFails, Place
<1>8. ASSUME NEW ok \in BOOLEAN, LoginCloses(ok) PROVE Nearer
  BY <1>8, <1>2 DEF LoginCloses, Ends, Place
<1>9. ASSUME NEW ok \in BOOLEAN, SaveSession(ok) PROVE Nearer
  BY <1>9, <1>2 DEF SaveSession, Place
<1>10. ASSUME NEW ok \in BOOLEAN, Recover(ok) PROVE Nearer
  BY <1>10, <1>2 DEF Recover, Place
<1>11. ASSUME EndUnrevoked PROVE Nearer
  BY <1>11, <1>2 DEF EndUnrevoked, Ends, Place
<1>12. ASSUME NEW a \in BOOLEAN, RevokeToken(a) PROVE Nearer
  <2>1. a = TRUE
    BY <1>12 DEF Fault
  <2> QED
    BY <1>12, <1>2, <2>1 DEF RevokeToken, RemoteEnds, Place
<1>13. ASSUME NEW a \in BOOLEAN, LogoutRequest(a) PROVE Nearer
  <2>1. a = TRUE
    BY <1>13 DEF Fault
  <2> QED
    BY <1>13, <1>2, <2>1 DEF LogoutRequest, RemoteEnds, Place
<1>14. ASSUME NEW a \in BOOLEAN, RefreshRefused(a) PROVE Nearer
  <2>1. a = TRUE
    BY <1>14 DEF Fault
  <2> QED
    BY <1>14, <1>2, <2>1 DEF RefreshRefused, RemoteEnds, Place
<1>15. ASSUME NEW a \in BOOLEAN, LogoutAgain(a) PROVE Nearer
  <2>1. a = TRUE
    BY <1>15 DEF Fault
  <2> QED
    BY <1>15, <1>2, <2>1 DEF LogoutAgain, RemoteEnds, FreshTokenRefused, Place
<1>16. ASSUME NEW rotated \in BOOLEAN, NEW o \in Outcomes, RefreshForLogout(rotated, o) PROVE Nearer
  <2>1. o = "written"
    BY <1>16 DEF Fault, Outcomes
  <2> QED
    BY <1>16, <1>2, <2>1 DEF RefreshForLogout, Place
<1>17. ASSUME NEW ok \in BOOLEAN, WriteMarker(ok) PROVE Nearer
  BY <1>17, <1>2 DEF WriteMarker, Place
<1>18. ASSUME InspectFiles PROVE Nearer
  BY <1>18, <1>2 DEF InspectFiles, Place
<1>19. ASSUME RemoveSession PROVE Nearer
  BY <1>19, <1>2 DEF RemoveSession, Place
<1>20. ASSUME RemovePending PROVE Nearer
  BY <1>20, <1>2 DEF RemovePending, Place
<1>21. ASSUME RemoveSnapshot PROVE Nearer
  BY <1>21, <1>2 DEF RemoveSnapshot, Place
<1>22. ASSUME CheckRemaining PROVE Nearer
  BY <1>22, <1>2 DEF CheckRemaining, IInv, EndedBeforeCleaning, Place
<1>23. ASSUME RemoveMarker PROVE Nearer
  BY <1>23, <1>2 DEF RemoveMarker, IInv, EndedBeforeCleaning, Place
<1>24. ASSUME NEW ok \in BOOLEAN, CloseStorage(ok) PROVE Nearer
  BY <1>24 DEF CloseStorage, Ends, Nearer, Place, StartLogout, Begins
<1>25. ASSUME NEW g \in Grants, NEW rt \in {0, 1}, NEW complete \in BOOLEAN,
             DeviceIssues(g, rt, complete)
      PROVE  Nearer
  BY <1>25 DEF DeviceIssues, Place
<1>29. ASSUME NEW g \in Grants, NEW rt \in {0, 1}, DeviceMisses(g, rt) PROVE Nearer
  BY <1>29, FilledPlace DEF DeviceMisses, Place
<1>26. ASSUME \/ RefreshReused
              \/ \E rotated, ok \in BOOLEAN : Refresh(rotated, ok)
              \/ \E rotated \in BOOLEAN : LateRefresh(rotated)
              \/ \E g \in Grants : Expire(g) \/ EndElsewhere(g)
      PROVE  Nearer
  <2>1. pc' = pc
    BY <1>26 DEF RefreshReused, Refresh, LateRefresh, Expire, EndElsewhere
  <2>2. ~StartLogout
    BY <2>1 DEF StartLogout, Begins
  <2>3. ~Work
    BY <2>1 DEF Work, DeviceFails, SaveSession, InitFails, LoginCloses, Recover,
         CloseStorage, Remote, RemoteFails, EndUnrevoked, RevokeToken, LogoutRequest,
         RefreshRefused, LogoutAgain, RefreshForLogout, RemoteEnds, Cleanup,
         WriteMarker, InspectFiles, RemoveSession, RemovePending, RemoveSnapshot,
         CheckRemaining, RemoveMarker, CleanupFails, Ends
  <2> QED
    BY <1>1, <2>1, <2>2, <2>3
<1>27. ~Crash /\ ~RemoteFails /\ ~CleanupFails
  BY DEF Fault
<1>28. Nearer
  BY <1>3, <1>4, <1>5, <1>6, <1>7, <1>8, <1>9, <1>10, <1>11, <1>12, <1>13, <1>14,
     <1>15, <1>16, <1>17, <1>18, <1>19, <1>20, <1>21, <1>22, <1>23, <1>24, <1>25,
     <1>26, <1>27, <1>29
     DEF Next, Login, Storage, Remote, Cleanup
<1> QED
  BY <1>28 DEF Nearer

(* The same, by the number of steps.                                       *)
LEMMA Level ==
    ASSUME NEW k \in 1..13
    PROVE  /\ IInv /\ Within(k) /\ [Proceeds]_vars => Within(k)' \/ ~Filled'
           /\ IInv /\ Within(k) /\ pc # "using" /\ [Proceeds]_vars /\ <<Work>>_vars =>
                Within(k - 1)' \/ ~Filled'
           /\ IInv /\ Within(k) /\ [Proceeds]_vars /\ <<Work>>_vars =>
                Within(k - 1)' \/ ~Filled' \/ pc' = "idle"
           /\ IInv /\ Within(k) /\ [Proceeds]_vars /\ <<StartLogout>>_vars =>
                Within(k - 1)' \/ ~Filled'
<1>1. ASSUME IInv, Within(k), UNCHANGED vars PROVE Within(k)'
  BY <1>1 DEF Within, Filled, Empty, Cleared, Place, vars, disk
<1>2. ASSUME IInv, Within(k), Proceeds, Filled'
      PROVE  /\ Within(k)'
             /\ Work => Within(k - 1)' \/ (pc = "using" /\ pc' = "idle")
             /\ StartLogout => Within(k - 1)'
  <2>1. Place \in Nat /\ Place' \in Nat
    BY DEF Place
  <2> QED
    BY <1>2, <2>1, EmptyingStep DEF Within
<1> QED
  BY <1>1, <1>2

(* The fairness of LiveSpec without ENABLED: a command runs on to its end, *)
(* the user repeats the logout, and from some time on nothing fails.       *)
CommandRuns    == []<>(pc = "idle") \/ []<><<Work>>_vars
LogoutRepeated == []<>(pc = "idle") => []<><<StartLogout>>_vars
NoMoreFaults   == <>[][~Fault]_vars
Repeated       == Spec /\ CommandRuns /\ LogoutRepeated /\ NoMoreFaults

(* For any grants and any bound: repeating the logout empties the profile, *)
(* from wherever commands, faults and kills have left it, if the server    *)
(* does not refuse for ever the tokens it has just issued.                 *)
THEOREM LogoutCompletes == ~IgnoresStale => (Repeated /\ FreshTokenHolds => LogoutClears)
<1> SUFFICES ASSUME ~IgnoresStale PROVE Repeated /\ FreshTokenHolds => LogoutClears
  OBVIOUS
<1> DEFINE Free == ~Filled
           Idle == pc = "idle"
           Use  == pc = "using"
           NoFault == ~Fault
           NoRefusal == ~FreshTokenRefused
           P0 == Within(0)
           P1 == Within(1)
           P2 == Within(2)
           P3 == Within(3)
           P4 == Within(4)
           P5 == Within(5)
           P6 == Within(6)
           P7 == Within(7)
           P8 == Within(8)
           P9 == Within(9)
           P10 == Within(10)
           P11 == Within(11)
           P12 == Within(12)
           P13 == Within(13)
<1>1. /\ IInv /\ P13 /\ [Proceeds]_vars => P13' \/ Free'
      /\ IInv /\ P13 /\ ~Use /\ [Proceeds]_vars /\ <<Work>>_vars => P12' \/ Free'
  BY Level
<1>2. /\ IInv /\ P12 /\ [Proceeds]_vars => P12' \/ Free'
      /\ IInv /\ P12 /\ ~Use /\ [Proceeds]_vars /\ <<Work>>_vars => P11' \/ Free'
  BY Level
<1>3. /\ IInv /\ P11 /\ [Proceeds]_vars => P11' \/ Free'
      /\ IInv /\ P11 /\ [Proceeds]_vars /\ <<Work>>_vars => P10' \/ Free' \/ Idle'
      /\ IInv /\ P11 /\ [Proceeds]_vars /\ <<StartLogout>>_vars => P10' \/ Free'
  BY Level
<1>4. /\ IInv /\ P10 /\ [Proceeds]_vars => P10' \/ Free'
      /\ IInv /\ P10 /\ ~Use /\ [Proceeds]_vars /\ <<Work>>_vars => P9' \/ Free'
  BY Level
<1>5. /\ IInv /\ P9 /\ [Proceeds]_vars => P9' \/ Free'
      /\ IInv /\ P9 /\ ~Use /\ [Proceeds]_vars /\ <<Work>>_vars => P8' \/ Free'
  BY Level
<1>6. /\ IInv /\ P8 /\ [Proceeds]_vars => P8' \/ Free'
      /\ IInv /\ P8 /\ ~Use /\ [Proceeds]_vars /\ <<Work>>_vars => P7' \/ Free'
  BY Level
<1>7. /\ IInv /\ P7 /\ [Proceeds]_vars => P7' \/ Free'
      /\ IInv /\ P7 /\ ~Use /\ [Proceeds]_vars /\ <<Work>>_vars => P6' \/ Free'
  BY Level
<1>8. /\ IInv /\ P6 /\ [Proceeds]_vars => P6' \/ Free'
      /\ IInv /\ P6 /\ ~Use /\ [Proceeds]_vars /\ <<Work>>_vars => P5' \/ Free'
  BY Level
<1>9. /\ IInv /\ P5 /\ [Proceeds]_vars => P5' \/ Free'
      /\ IInv /\ P5 /\ ~Use /\ [Proceeds]_vars /\ <<Work>>_vars => P4' \/ Free'
  BY Level
<1>10. /\ IInv /\ P4 /\ [Proceeds]_vars => P4' \/ Free'
       /\ IInv /\ P4 /\ ~Use /\ [Proceeds]_vars /\ <<Work>>_vars => P3' \/ Free'
  BY Level
<1>11. /\ IInv /\ P3 /\ [Proceeds]_vars => P3' \/ Free'
       /\ IInv /\ P3 /\ ~Use /\ [Proceeds]_vars /\ <<Work>>_vars => P2' \/ Free'
  BY Level
<1>12. /\ IInv /\ P2 /\ [Proceeds]_vars => P2' \/ Free'
       /\ IInv /\ P2 /\ ~Use /\ [Proceeds]_vars /\ <<Work>>_vars => P1' \/ Free'
  BY Level
<1>13. /\ IInv /\ P1 /\ [Proceeds]_vars => P1' \/ Free'
       /\ IInv /\ P1 /\ ~Use /\ [Proceeds]_vars /\ <<Work>>_vars => P0' \/ Free'
  BY Level
<1>14. IInv => Free \/ (P13 /\ ~P0)
  BY FilledPlace DEF Within
<1>15. (P13 /\ ~P11) \/ P10 => ~Idle /\ ~Use
  BY DEF Within, Place
<1>16. /\ P1 => P2
       /\ P2 => P3
       /\ P3 => P4
       /\ P4 => P5
       /\ P5 => P6
       /\ P6 => P7
       /\ P7 => P8
       /\ P8 => P9
       /\ P9 => P10
       /\ P10 => P11
       /\ P11 => P12
       /\ P12 => P13
  BY FilledPlace DEF Within, Place
<1>19. [Next]_vars /\ [NoFault]_vars /\ [NoRefusal]_vars => [Proceeds]_vars
  BY DEF Proceeds
<1>20. ~Free => ~(Use /\ Idle)
  OBVIOUS
<1>17. /\ CommandRuns <=> []<>Idle \/ []<><<Work>>_vars
       /\ LogoutRepeated <=> ([]<>Idle => []<><<StartLogout>>_vars)
       /\ NoMoreFaults <=> <>[][NoFault]_vars
  BY DEF CommandRuns, LogoutRepeated, NoMoreFaults
<1> HIDE DEF Free, Idle, Use, NoFault, NoRefusal, Proceeds, P0, P1, P2, P3, P4, P5,
             P6, P7, P8, P9, P10, P11, P12, P13
<1>21. Repeated /\ <>[][NoRefusal]_vars => (~Free ~> Free)
  BY <1>1, <1>2, <1>3, <1>4, <1>5, <1>6, <1>7, <1>8, <1>9, <1>10, <1>11, <1>12,
     <1>13, <1>14, <1>15, <1>16, <1>17, <1>19, <1>20, Invariant, PTL DEF Spec, Repeated
<1>22. FreshTokenHolds <=> <>[][NoRefusal]_vars
  BY DEF FreshTokenHolds, NoRefusal
<1>23. /\ session # None \/ pending # None \/ marker => ~Free \/ Empty \/ litter
       /\ Free <=> Empty \/ litter
  BY DEF Free, Filled
<1> QED
  BY <1>21, <1>22, <1>23, PTL DEF LogoutClears

(* For any grants and any bound: "rerunning logout completes cleanup", as  *)
(* long as no kill has left a temporary file.                              *)
THEOREM RetryIfNoLitter ==
    ~IgnoresStale => (Repeated /\ FreshTokenHolds /\ []~litter => RetryCompletes)
<1>1. Empty => ~marker
  BY DEF Empty
<1> QED
  BY <1>1, LogoutCompletes, PTL DEF LogoutClears, RetryCompletes

(* No refresh stores, for a login that could not save its credentials, the *)
(* new ones.                                                               *)
NoneSavedByRefresh ==
    [][~(pc = "refresh" /\ saved = "no" /\ pc' = "again")]_vars

(* What login has not saved is then not there.                             *)
NothingSaved ==
    /\ pc \in WithGrant \union {"unrevoked"} /\ cmd = "login" /\ saved = "no" => pending = None
    /\ UnsavedMeansUnsaved

(* For any grants and any bound: a login that reports its credentials as   *)
(* not saved has left none, unless its own refresh has stored them.        *)
THEOREM UnsavedIfNoRefresh ==
    ~IgnoresStale => (Spec /\ NoneSavedByRefresh => []UnsavedMeansUnsaved)
<1> SUFFICES ASSUME ~IgnoresStale
             PROVE  Spec /\ NoneSavedByRefresh => []UnsavedMeansUnsaved
  OBVIOUS
<1> DEFINE Q == ~(pc = "refresh" /\ saved = "no" /\ pc' = "again")
<1>1. Init => NothingSaved
  BY DEF Init, NothingSaved, UnsavedMeansUnsaved, WithGrant, Remoting
<1>2. IInv /\ IInv' /\ NothingSaved /\ [Next]_vars /\ [Q]_vars => NothingSaved'
  <2> SUFFICES ASSUME IInv, NothingSaved, [Next]_vars, [Q]_vars PROVE NothingSaved'
    OBVIOUS
  <2> USE DEF IInv, CommandShape, SavedWhere, NothingSaved, UnsavedMeansUnsaved, WithGrant,
              Remoting, Cleaning, GoTo, Begins, Ends, RemoteEnds, disk, command
  <2>1. ASSUME Login PROVE NothingSaved'
    BY <2>1 DEF Login, StartLogin, DeviceFails, DeviceIssues, DeviceMisses, SaveSession,
         InitFails, LoginCloses, Recover
  <2>2. ASSUME Storage PROVE NothingSaved'
    BY <2>2 DEF Storage, OpenStorage, RefreshReused, Refresh, LateRefresh, CloseStorage
  <2>3. ASSUME StartLogout PROVE NothingSaved'
    BY <2>3 DEF StartLogout
  <2>4. ASSUME Remote PROVE NothingSaved'
    BY <2>4 DEF Remote, RemoteFails, EndUnrevoked, RevokeToken, LogoutRequest,
         RefreshRefused, RefreshForLogout, LogoutAgain, Outcomes, vars
  <2>5. ASSUME Cleanup PROVE NothingSaved'
    BY <2>5 DEF Cleanup, WriteMarker, InspectFiles, RemoveSession, RemovePending,
         RemoveSnapshot, CheckRemaining, RemoveMarker, CleanupFails
  <2>6. ASSUME Crash PROVE NothingSaved'
    BY <2>6 DEF Crash
  <2>7. ASSUME NEW g \in Grants, Expire(g) \/ EndElsewhere(g) PROVE NothingSaved'
    BY <2>7 DEF Expire, EndElsewhere
  <2>8. ASSUME UNCHANGED vars PROVE NothingSaved'
    BY <2>8 DEF vars
  <2> QED
    BY <2>1, <2>2, <2>3, <2>4, <2>5, <2>6, <2>7, <2>8 DEF Next
<1>3. NothingSaved => UnsavedMeansUnsaved
  BY DEF NothingSaved
<1>4. NoneSavedByRefresh <=> [][Q]_vars
  BY DEF NoneSavedByRefresh
<1> HIDE DEF Q
<1> QED
  BY <1>1, <1>2, <1>3, <1>4, Invariant, PTL DEF Spec

=============================================================================
