------------------------------ MODULE CliProfile ------------------------------
(***************************************************************************)
(* One CLI profile and the server session ("grant") it belongs to: login   *)
(* (cli/src/loginTransaction.ts), storage commands that refresh tokens and *)
(* save the crypto snapshot (cli/src/storage.ts), logout and the remote    *)
(* revocation both share (cli/src/logout.ts), over the private files of    *)
(* the profile (cli/src/profile.ts).                                       *)
(*                                                                         *)
(* One command runs at a time: every command holds the profile lock (see   *)
(* ProfileLock for what that lock guarantees).  A command may be killed    *)
(* before any step.  Each file is written to a temporary name and renamed, *)
(* so a write happens whole or not at all; a kill inside a write leaves    *)
(* the temporary file.                                                     *)
(*                                                                         *)
(* The server is external.  It ends a grant when one of its consumed       *)
(* refresh tokens is presented again, which is what logout.ts takes        *)
(* invalid_grant to mean.                                                  *)
(***************************************************************************)
EXTENDS Naturals

CONSTANTS
    Grants,         \* server sessions, each issued by one login
    Revocable,      \* grants whose issuer advertises a revocation endpoint
    IgnoresStale,   \* the endpoint answers 200 to an access token that is no
                    \* longer valid and leaves the grant alone (RFC 7009 2.2)
    MaxGen,         \* bound: token generations of a grant
    None

(* Tokens are known by their generation; refresh token 0 is "none".        *)
Creds  == [grant : Grants, at : 1..MaxGen, rt : 0..MaxGen]

ASSUME CliConstants ==
    /\ Revocable \subseteq Grants
    /\ IgnoresStale \in BOOLEAN
    /\ MaxGen \in Nat \ {0}
    /\ None \notin Grants \union Creds

VARIABLES
    \* the profile directory
    session,    \* session.json: credentials, or None
    pending,    \* login-pending.json: credentials, or None
    snapshot,   \* crypto.snapshot: the grant whose device wrote it, or None
    marker,     \* logout-complete is there
    litter,     \* a temporary file of a killed command is there
    \* the running command
    pc,         \* its next step
    cmd,        \* which command
    base,       \* the session login was given, or the command started with
    cur,        \* currentSession of storage.ts, "pending" of login, what logout presents
    saved,      \* where the credentials of cur are stored
    \* the server
    server,
    \* history, read by no step
    said,       \* what the last command reported
    abandoned   \* grants whose only credentials died with a killed command,
                \* that login reported as not saved, or that it never got

disk    == <<session, pending, snapshot, marker, litter>>
command == <<cmd, base, cur, saved>>
vars    == <<disk, pc, command, server, said, abandoned>>

Record == [state : {"none", "live", "ended"}, at : 0..MaxGen, rt : 0..MaxGen, expired : BOOLEAN]

Steps == {"idle", "device", "save", "init", "recover", "using", "revoke", "refresh",
          "again", "unrevoked", "finish", "clear", "rmSession", "rmPending",
          "rmSnapshot", "check", "rmMarker"}
Reports == {"none", "error", "loggedIn", "used", "revokedRetry", "retained", "unsaved",
            "incomplete", "loggedOut"}

Init ==
    /\ session = None /\ pending = None /\ snapshot = None
    /\ marker = FALSE /\ litter = FALSE
    /\ pc = "idle" /\ cmd = "none" /\ base = None /\ cur = None /\ saved = "no"
    /\ server = [g \in Grants |-> [state |-> "none", at |-> 0, rt |-> 0, expired |-> FALSE]]
    /\ said = "none"
    /\ abandoned = {}

-----------------------------------------------------------------------------
(* The server.                                                             *)
Live(g) == server[g].state = "live"
EndsGrant(g) == server' = [server EXCEPT ![g].state = "ended"]

ValidAccess(c) ==
    Live(c.grant) /\ server[c.grant].at = c.at /\ ~server[c.grant].expired

(* A refresh with token r of grant g is answered with the new tokens; the  *)
(* response leaves the refresh token out when it is not rotated.  At the   *)
(* bound MaxGen the server gives the same tokens again.                    *)
Accepts(g, r) == Live(g) /\ server[g].rt = r
NextGen(g) == IF server[g].at < MaxGen THEN server[g].at + 1 ELSE MaxGen
Issues(g, rotated) ==
    server' = [server EXCEPT ![g].at = NextGen(g), ![g].expired = FALSE,
                             ![g].rt = IF rotated THEN NextGen(g) ELSE @]

(* withRefreshedTokens (storage.ts) and refreshedCredentials (logout.ts):  *)
(* a refresh token missing from the response is taken from c.              *)
Refreshed(c, rotated) ==
    [c EXCEPT !.at = NextGen(c.grant), !.rt = IF rotated THEN NextGen(c.grant) ELSE @]

(* An access token ends; without a refresh token the grant ends with it.   *)
Expire(g) ==
    /\ Live(g) /\ ~server[g].expired
    /\ \/ server[g].rt = 0 /\ EndsGrant(g)
       \/ /\ server[g].rt # 0 /\ server[g].at < MaxGen
          /\ server' = [server EXCEPT ![g].expired = TRUE]
    /\ UNCHANGED <<disk, pc, command, said, abandoned>>

(* The user or an administrator ends the session elsewhere.                *)
EndElsewhere(g) ==
    /\ Live(g)
    /\ EndsGrant(g)
    /\ UNCHANGED <<disk, pc, command, said, abandoned>>

-----------------------------------------------------------------------------
(* Starting and ending a command.                                          *)
Cleared == session = None /\ pending = None /\ snapshot = None /\ ~litter
Empty   == Cleared /\ ~marker

Retained(g) ==
    /\ ~marker
    /\ \/ session # None /\ session.grant = g
       \/ pending # None /\ pending.grant = g

GoTo(step) == pc' = step /\ UNCHANGED said

Begins(name, c, where, step) ==
    /\ pc = "idle"
    /\ pc' = step /\ said' = "none"
    /\ cmd' = name /\ base' = c /\ cur' = c /\ saved' = where
    /\ UNCHANGED <<disk, server, abandoned>>

Ends(report) ==
    /\ pc' = "idle" /\ said' = report
    /\ cmd' = "none" /\ base' = None /\ cur' = None /\ saved' = "no"

(* The lock is released by the operating system's clean-up of the pid; the *)
(* files stay, a half-written temporary one among them.                    *)
Writes == {"save", "init", "using", "recover", "refresh", "finish"}
Crash ==
    /\ pc # "idle"
    /\ Ends("none")
    /\ litter' \in {litter} \union (IF pc \in Writes THEN {TRUE} ELSE {})
    /\ abandoned' = abandoned \union
         (IF cmd = "login" /\ base # None /\ ~Retained(base.grant) THEN {base.grant} ELSE {})
    /\ UNCHANGED <<session, pending, snapshot, marker, server>>

-----------------------------------------------------------------------------
(* Faulty variants of steps below, each a plausible mistake in the code.   *)
(* They are not part of the specification: each one, put in the place of   *)
(* the step, breaks a property.                                            *)

\* runDeviceCodeLogin without "if (!result.refresh_token)".
DeviceIssues_NoRefreshToken(g, rt, complete) ==
    /\ pc = "device"
    /\ server[g].state = "none"
    /\ server' = [server EXCEPT ![g] = [state |-> "live", at |-> 1, rt |-> rt, expired |-> FALSE]]
    /\ base' = [grant |-> g, at |-> 1, rt |-> rt]
    /\ cur' = base'
    /\ GoTo(IF complete THEN "save" ELSE "recover")
    /\ UNCHANGED <<disk, cmd, saved, abandoned>>

\* The catch clause without "if (!markedForRetry)".
Recover_AlwaysSavesPending(ok) ==
    /\ pc = "recover"
    /\ cur' = base
    /\ IF ok THEN pending' = base ELSE UNCHANGED pending
    /\ GoTo("revoke")
    /\ UNCHANGED <<session, snapshot, marker, litter, cmd, base, saved, server, abandoned>>

\* The catch clause without writePendingSessionUnlocked.
Recover_NeverSaves(ok) ==
    /\ pc = "recover"
    /\ cur' = base
    /\ saved' = (IF saved = "session" THEN saved ELSE "pending")
    /\ GoTo("revoke")
    /\ UNCHANGED <<disk, cmd, base, server, abandoned>>

\* The catch clause that sets markedForRetry before the write.
Recover_MarkedBeforeWrite(ok) ==
    /\ pc = "recover"
    /\ \/ /\ saved = "session"
          /\ cur' \in {base, session}
          /\ UNCHANGED <<pending, saved>>
       \/ /\ saved = "no"
          /\ cur' = base
          /\ saved' = "pending"
          /\ IF ok THEN pending' = base ELSE UNCHANGED pending
    /\ GoTo("revoke")
    /\ UNCHANGED <<session, snapshot, marker, litter, cmd, base, server, abandoned>>

\* persistRefreshedTokens that starts from the session of the command.
Refresh_FromOpenedSession(rotated, ok) ==
    /\ pc \in {"using", "init"}
    /\ Accepts(cur.grant, cur.rt)
    /\ server[cur.grant].at < MaxGen
    /\ Issues(cur.grant, rotated)
    /\ cur' = Refreshed(base, rotated)
    /\ session' = IF ok THEN cur' ELSE session
    /\ UNCHANGED <<pending, snapshot, marker, litter, pc, cmd, base, saved, said, abandoned>>

\* requestServerLogout whose failure is not rethrown.
RemoteFails_Swallowed ==
    /\ pc \in {"revoke", "refresh", "again"}
    /\ GoTo("finish")
    /\ UNCHANGED <<disk, command, server, abandoned>>

\* logoutProfile that returns at once when there are no credentials.
StartLogout_NothingToRevoke ==
    /\ session = None \/ pending = None
    /\ \/ ~marker /\ session # None /\ Begins("logout", session, "session", "revoke")
       \/ ~marker /\ pending # None /\ Begins("logout", pending, "pending", "revoke")
       \/ /\ marker /\ (session # None \/ pending # None)
          /\ Begins("logout", None, "no", "finish")

-----------------------------------------------------------------------------
(* login: loginAndInitialize.                                              *)

\* assertFreshProfileUnlocked.
StartLogin ==
    /\ Empty
    /\ Begins("login", None, "no", "device")

\* Refused, not approved, or ended before a token was issued.
DeviceFails ==
    /\ pc = "device"
    /\ Ends("error")
    /\ UNCHANGED <<disk, server, abandoned>>

(* The token endpoint issues a grant.  The login gets a session, or an     *)
(* OidcLoginError with the pending credentials when the refresh token is   *)
(* missing, the identity check fails or the deadline or a cancellation was *)
(* faster than an answer that comes within the join that follows.          *)
DeviceIssues(g, rt, complete) ==
    /\ pc = "device"
    /\ server[g].state = "none"
    /\ complete => rt = 1
    /\ server' = [server EXCEPT ![g] = [state |-> "live", at |-> 1, rt |-> rt, expired |-> FALSE]]
    /\ base' = [grant |-> g, at |-> 1, rt |-> rt]
    /\ cur' = base'
    /\ GoTo(IF complete THEN "save" ELSE "recover")
    /\ UNCHANGED <<disk, cmd, saved, abandoned>>

(* The answer is lost or comes after that join (settlePromiseWithin):      *)
(* login ends with the deadline's error and nobody has the tokens.         *)
DeviceMisses(g, rt) ==
    /\ pc = "device"
    /\ server[g].state = "none"
    /\ server' = [server EXCEPT ![g] = [state |-> "live", at |-> 1, rt |-> rt, expired |-> FALSE]]
    /\ abandoned' = abandoned \union {g}
    /\ Ends("error")
    /\ UNCHANGED disk

\* writeSessionUnlocked of the new session.
SaveSession(ok) ==
    /\ pc = "save"
    /\ IF ok THEN session' = base /\ saved' = "session" /\ GoTo("init")
             ELSE UNCHANGED <<session, saved>> /\ GoTo("recover")
    /\ UNCHANGED <<pending, snapshot, marker, litter, cmd, base, cur, server, abandoned>>

(* initStorageForNewSession or close() fails; close() tries each of its    *)
(* steps, so it may fail and have written the snapshot.                    *)
InitFails(written) ==
    /\ pc = "init"
    /\ snapshot' = IF written THEN base.grant ELSE snapshot
    /\ GoTo("recover")
    /\ UNCHANGED <<session, pending, marker, litter, command, server, abandoned>>

(* opened.close(): the snapshot is written unless an abort made it unsafe. *)
LoginCloses(written) ==
    /\ pc = "init"
    /\ snapshot' = IF written THEN base.grant ELSE snapshot
    /\ Ends("loggedIn")
    /\ UNCHANGED <<session, pending, marker, litter, server, abandoned>>

(* The catch clause: the credentials to revoke are the ones on disk, or    *)
(* the ones login was given if these cannot be read or were not saved;     *)
(* then they are saved as pending.                                         *)
Recover(ok) ==
    /\ pc = "recover"
    /\ \/ /\ saved = "session"
          /\ cur' \in {base, session}
          /\ UNCHANGED <<pending, saved>>
       \/ /\ saved = "no"
          /\ cur' = base
          /\ IF ok THEN pending' = base /\ saved' = "pending" ELSE UNCHANGED <<pending, saved>>
    /\ GoTo("revoke")
    /\ UNCHANGED <<session, snapshot, marker, litter, cmd, base, server, abandoned>>

-----------------------------------------------------------------------------
(* A storage command: openStorage, token refreshes while the client runs   *)
(* (also while login initializes it), close.                               *)
OpenStorage ==
    /\ session # None
    /\ Begins("storage", session, "session", "using")

(* persistRefreshedTokens: currentSession is replaced before the write,    *)
(* which may throw.                                                        *)
Refresh(rotated, ok) ==
    /\ pc \in {"using", "init"}
    /\ Accepts(cur.grant, cur.rt)
    /\ server[cur.grant].at < MaxGen
    /\ Issues(cur.grant, rotated)
    /\ cur' = Refreshed(cur, rotated)
    /\ session' = IF ok THEN cur' ELSE session
    /\ UNCHANGED <<pending, snapshot, marker, litter, pc, cmd, base, saved, said, abandoned>>

(* A refresh request whose answer nobody stores: it is lost, or it was     *)
(* sent by a client whose initialization has timed out or whose command is *)
(* closing or has ended (refreshState.active is false).  The server rotates*)
(* the tokens, at any time.                                                *)
LateRefresh(rotated) ==
    /\ session # None
    /\ Accepts(session.grant, session.rt)
    /\ server[session.grant].at < MaxGen
    /\ Issues(session.grant, rotated)
    /\ UNCHANGED <<disk, pc, command, said, abandoned>>

(* A consumed refresh token is presented: the server ends the grant.       *)
RefreshReused ==
    /\ pc \in {"using", "init"}
    /\ Live(cur.grant)
    /\ \E r \in {cur.rt, session.rt} : r # server[cur.grant].rt
    /\ EndsGrant(cur.grant)
    /\ UNCHANGED <<disk, pc, command, said, abandoned>>

(* close(), or a failure to open: the snapshot is written, or an abort, a  *)
(* timeout or an I/O error leaves the previous one.                        *)
CloseStorage(written) ==
    /\ pc = "using"
    /\ snapshot' = IF written THEN base.grant ELSE snapshot
    /\ Ends("used")
    /\ UNCHANGED <<session, pending, marker, litter, server, abandoned>>

-----------------------------------------------------------------------------
(* logout: logoutProfile up to the revocation.  It refuses a profile with  *)
(* both session.json and login-pending.json (there is none: NeverBoth).    *)
StartLogout ==
    /\ session = None \/ pending = None
    /\ \/ ~marker /\ session # None /\ Begins("logout", session, "session", "revoke")
       \/ ~marker /\ pending # None /\ Begins("logout", pending, "pending", "revoke")
       \/ marker /\ Begins("logout", None, "no", "finish")
       \/ /\ ~marker /\ session = None /\ pending = None
          /\ Begins("logout", None, "no", "clear")

-----------------------------------------------------------------------------
(* requestServerLogout, for login and logout.  "answered" is FALSE when    *)
(* the server has acted but the answer is lost, late or cancelled.         *)

\* The answer ended the remote part, or did not arrive.
RemoteEnds(answered) == GoTo(IF answered THEN "finish" ELSE "unrevoked")

(* Network failure, another status, deadline or cancellation before the    *)
(* server has acted (LogoutAgain has the refusal of a stale token).        *)
RemoteFails ==
    /\ \/ pc \in {"revoke", "refresh"}
       \/ pc = "again" /\ ValidAccess(cur)
    /\ GoTo("unrevoked")
    /\ UNCHANGED <<disk, command, server, abandoned>>

(* requestOidcRevocation presents the access token alone.                  *)
RevokeToken(answered) ==
    /\ pc = "revoke" /\ cur.grant \in Revocable
    /\ IF Live(cur.grant) /\ (ValidAccess(cur) \/ ~IgnoresStale)
          THEN EndsGrant(cur.grant) ELSE UNCHANGED server
    /\ RemoteEnds(answered)
    /\ UNCHANGED <<disk, command, abandoned>>

(* requestLogout: 200 ends the grant; an unknown access token leads to a   *)
(* refresh, or counts as logged out when there is no refresh token.        *)
LogoutRequest(answered) ==
    /\ pc = "revoke" /\ cur.grant \notin Revocable
    /\ \/ ValidAccess(cur) /\ EndsGrant(cur.grant) /\ RemoteEnds(answered)
       \/ ~ValidAccess(cur) /\ cur.rt = 0 /\ RemoteEnds(answered) /\ UNCHANGED server
       \/ /\ ~ValidAccess(cur) /\ cur.rt # 0
          /\ GoTo(IF answered THEN "refresh" ELSE "unrevoked")
          /\ UNCHANGED server
    /\ UNCHANGED <<disk, command, abandoned>>

(* The refresh is refused with invalid_grant, taken as "already ended".    *)
RefreshRefused(answered) ==
    /\ pc = "refresh" /\ ~Accepts(cur.grant, cur.rt)
    /\ EndsGrant(cur.grant)
    /\ RemoteEnds(answered)
    /\ UNCHANGED <<disk, command, abandoned>>

(* onRefreshed stores the new credentials where the old ones are: login    *)
(* stores them as pending also if they could not be saved before.          *)
StoresRefreshed ==
    IF saved = "session" THEN session' = cur' /\ UNCHANGED pending
                         ELSE pending' = cur' /\ UNCHANGED session

(* The new tokens arrive and are stored; storing them throws; or the       *)
(* answer is lost.                                                         *)
RefreshForLogout(rotated, outcome) ==
    /\ pc = "refresh" /\ Accepts(cur.grant, cur.rt)
    /\ Issues(cur.grant, rotated)
    /\ cur' = IF outcome = "dropped" THEN cur ELSE Refreshed(cur, rotated)
    /\ IF outcome = "written" THEN StoresRefreshed ELSE UNCHANGED <<session, pending>>
    /\ GoTo(IF outcome = "written" THEN "again" ELSE "unrevoked")
    /\ UNCHANGED <<snapshot, marker, litter, cmd, base, saved, abandoned>>

(* The second requestLogout: only 200 and 204 count.                       *)
LogoutAgain(answered) ==
    /\ pc = "again"
    /\ \/ ValidAccess(cur) /\ EndsGrant(cur.grant) /\ RemoteEnds(answered)
       \/ ~ValidAccess(cur) /\ answered /\ UNCHANGED server /\ GoTo("unrevoked")
    /\ UNCHANGED <<disk, command, abandoned>>

(* requestServerLogout threw: the command reports it and ends.             *)
EndUnrevoked ==
    /\ pc = "unrevoked"
    /\ \/ cmd = "logout" /\ Ends("error") /\ UNCHANGED abandoned
       \/ cmd = "login" /\ saved # "no" /\ Ends("retained") /\ UNCHANGED abandoned
       \/ /\ cmd = "login" /\ saved = "no" /\ Ends("unsaved")
          /\ abandoned' = abandoned \union {base.grant}
    /\ UNCHANGED <<disk, server>>

-----------------------------------------------------------------------------
(* finishRemoteLogout and clearProfileUnlocked.                            *)

\* If the marker cannot be written the files are removed without it.
WriteMarker(ok) ==
    /\ pc = "finish"
    /\ marker' = (marker \/ ok)
    /\ GoTo("clear")
    /\ UNCHANGED <<session, pending, snapshot, litter, command, server, abandoned>>

\* All four names are regular files or absent.
InspectFiles ==
    /\ pc = "clear"
    /\ GoTo("rmSession")
    /\ UNCHANGED <<disk, command, server, abandoned>>

RemoveSession ==
    /\ pc = "rmSession"
    /\ session' = None
    /\ GoTo("rmPending")
    /\ UNCHANGED <<pending, snapshot, marker, litter, command, server, abandoned>>

RemovePending ==
    /\ pc = "rmPending"
    /\ pending' = None
    /\ GoTo("rmSnapshot")
    /\ UNCHANGED <<session, snapshot, marker, litter, command, server, abandoned>>

RemoveSnapshot ==
    /\ pc = "rmSnapshot"
    /\ snapshot' = None
    /\ GoTo("check")
    /\ UNCHANGED <<session, pending, marker, litter, command, server, abandoned>>

\* Anything but the lock and the marker in the directory is an error.
CheckRemaining ==
    /\ pc = "check"
    /\ \/ Cleared /\ GoTo("rmMarker") /\ UNCHANGED command
       \/ ~Cleared /\ Ends("incomplete")
    /\ UNCHANGED <<disk, server, abandoned>>

RemoveMarker ==
    /\ pc = "rmMarker"
    /\ marker' = FALSE
    /\ Ends(IF cmd = "login" THEN "revokedRetry" ELSE "loggedOut")
    /\ UNCHANGED <<session, pending, snapshot, litter, server, abandoned>>

(* An I/O error in any of these steps (CheckRemaining has its own).        *)
CleanupFails ==
    /\ pc = "check" => Cleared
    /\ pc \in {"clear", "rmSession", "rmPending", "rmSnapshot", "check", "rmMarker"}
    /\ Ends("incomplete")
    /\ UNCHANGED <<disk, server, abandoned>>

-----------------------------------------------------------------------------
Outcomes == {"written", "throws", "dropped"}

Login ==
    \/ StartLogin \/ DeviceFails
    \/ \E g \in Grants, rt \in {0, 1}, complete \in BOOLEAN : DeviceIssues(g, rt, complete)
    \/ \E g \in Grants, rt \in {0, 1} : DeviceMisses(g, rt)
    \/ \E ok \in BOOLEAN : SaveSession(ok) \/ InitFails(ok) \/ LoginCloses(ok) \/ Recover(ok)

Storage ==
    \/ OpenStorage \/ RefreshReused
    \/ \E rotated, ok \in BOOLEAN : Refresh(rotated, ok)
    \/ \E rotated \in BOOLEAN : LateRefresh(rotated)
    \/ \E written \in BOOLEAN : CloseStorage(written)

Remote ==
    \/ RemoteFails \/ EndUnrevoked
    \/ \E a \in BOOLEAN :
         RevokeToken(a) \/ LogoutRequest(a) \/ RefreshRefused(a) \/ LogoutAgain(a)
    \/ \E rotated \in BOOLEAN, o \in Outcomes : RefreshForLogout(rotated, o)

Cleanup ==
    \/ \E ok \in BOOLEAN : WriteMarker(ok)
    \/ InspectFiles \/ RemoveSession \/ RemovePending \/ RemoveSnapshot
    \/ CheckRemaining \/ RemoveMarker \/ CleanupFails

Next ==
    \/ Login \/ Storage \/ StartLogout \/ Remote \/ Cleanup \/ Crash
    \/ \E g \in Grants : Expire(g) \/ EndElsewhere(g)

Spec == Init /\ [][Next]_vars

(* A command runs on until it ends.                                        *)
Work ==
    \/ DeviceFails
    \/ \E ok \in BOOLEAN :
         SaveSession(ok) \/ InitFails(ok) \/ LoginCloses(ok) \/ Recover(ok) \/ CloseStorage(ok)
    \/ Remote \/ Cleanup

(* A kill, an answer that is lost, a write or a removal that fails.        *)
Fault ==
    \/ Crash \/ RemoteFails \/ CleanupFails
    \/ RevokeToken(FALSE) \/ LogoutRequest(FALSE) \/ RefreshRefused(FALSE) \/ LogoutAgain(FALSE)
    \/ \E rotated \in BOOLEAN, o \in {"throws", "dropped"} : RefreshForLogout(rotated, o)

(* The user repeats the logout until it succeeds, and from some time on    *)
(* the server can be reached and the file system works.                    *)
LiveSpec == Spec /\ WF_vars(Work) /\ SF_vars(StartLogout) /\ <>[][~Fault]_vars

-----------------------------------------------------------------------------
(* Every variable keeps its type; a complete session has a refresh token.  *)
TypeOK ==
    /\ session \in Creds \union {None}
    /\ session # None => session.rt # 0
    /\ pending \in Creds \union {None}
    /\ snapshot \in Grants \union {None}
    /\ marker \in BOOLEAN /\ litter \in BOOLEAN
    /\ pc \in Steps
    /\ cmd \in {"none", "login", "storage", "logout"}
    /\ base \in Creds \union {None}
    /\ cur \in Creds \union {None}
    /\ saved \in {"no", "session", "pending"}
    /\ server \in [Grants -> Record]
    /\ said \in Reports
    /\ abandoned \subseteq Grants

(* logoutProfile refuses a profile with both session.json and              *)
(* login-pending.json, for good; no sequence of commands and crashes makes *)
(* one.                                                                    *)
NeverBoth == session = None \/ pending = None

(* A crypto snapshot is only ever next to the session of the device that   *)
(* wrote it, although the three files are removed and written one by one.  *)
SnapshotOfSession ==
    session # None /\ snapshot # None => snapshot = session.grant

(* The marker makes logout skip the server, so it may only be there when   *)
(* the server has ended the grant whose credentials are next to it.        *)
MarkerAfterEnd ==
    marker => \A c \in {session, pending} \ {None} : ~Live(c.grant)

(* The files that exist together belong together, whatever a kill or a     *)
(* failed removal has left of them.                                        *)
FilesBelongTogether == NeverBoth /\ SnapshotOfSession /\ MarkerAfterEnd

(* Between commands every live grant that the program was given can still  *)
(* be logged out from the profile, unless a kill came before the first     *)
(* write or login has reported that it could not save the credentials.  A  *)
(* token that comes later than login waits for was not given to it.        *)
NoSilentOrphan ==
    pc = "idle" => \A g \in Grants \ abandoned : Live(g) => Retained(g)

(* What a command has reported is true of the profile and of the server.   *)
ReportTruthful ==
    /\ said = "loggedIn" => session # None /\ pending = None /\ ~marker
    /\ said = "retained" => (session # None \/ pending # None) /\ ~marker
    /\ said \in {"revokedRetry", "loggedOut"} => session = None /\ pending = None
          /\ snapshot = None /\ ~marker
    /\ said \in {"revokedRetry", "loggedOut", "incomplete"} =>
          \A g \in Grants \ abandoned : ~Live(g)

(* The stored tokens never go back to an earlier generation: a refresh     *)
(* response without a refresh token does not bring back a consumed one.    *)
TokensNeverRegress ==
    [][session # None /\ session' # None /\ session'.grant = session.grant
         => session'.at >= session.at /\ session'.rt >= session.rt]_vars

(* The profile implements the promise of GrantCustody.                     *)
Stored == {g \in Grants : Retained(g)}
Custody == INSTANCE GrantCustody WITH
    issued <- {g \in Grants : server[g].state # "none"},
    live   <- {g \in Grants : Live(g)},
    held   <- IF cmd = "login" /\ base # None THEN {base.grant} ELSE {},
    kept   <- Stored
ImplementsCustody == Custody!CustodySpec

(* "The profile is retained so logout can be retried" (CLI.md): repeating  *)
(* the logout empties the profile, whatever commands, faults and kills     *)
(* came before, unless a kill has left a temporary file.                   *)
LogoutClears ==
    (session # None \/ pending # None \/ marker) ~> (Empty \/ litter)

(* CLI.md: "rerunning logout completes cleanup".  The code does not keep   *)
(* it after a kill inside a write; see the finding of run cli_retry.       *)
RetryCompletes == marker ~> ~marker

(* CLI.md: "Logout revokes the server session before removing local        *)
(* credentials."  It depends on what a revocation endpoint does with an    *)
(* access token that has expired; see the finding of run cli_stale_revoke. *)
RevokedBeforeRemoved ==
    [][\A g \in Grants : Retained(g) /\ Live(g)' => Retained(g)']_vars

(* The message of loginTransaction.ts, "server session could not be        *)
(* revoked and could not be saved for retry".  It is not always true: the  *)
(* refresh of that revocation may have saved it.  Theorem                  *)
(* UnsavedIfNoRefresh says that there is no other way.                     *)
UnsavedMeansUnsaved ==
    said = "unsaved" => session = None /\ pending = None

=============================================================================
