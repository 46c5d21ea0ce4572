# TLA+ models of TeleCrypt storage

TeleCrypt storage has two clients of one encrypted-storage SDK: a command line
client (`cli/src`, TypeScript on Node) and a web application (`src`, React).
Both are given a server session ("grant": an access token, usually a refresh
token, a device) by the homeserver's authorization server, keep it in files or
in `sessionStorage`, refresh its tokens, and must end it at logout.  Paths below
are relative to the repository.

## Modules

| module | what it is |
| --- | --- |
| `ProfileLock` | the lock of a CLI profile directory: acquisition, stale-lock recovery and release, system call by system call |
| `MCProfileLock` | its TLC instances |
| `ProfileLockProofs` | its theorems |
| `GrantCustody` | abstract: what a client promises about the grants it is given |
| `CliProfile` | login, storage commands, logout and revocation over the files of one profile; implements `GrantCustody` |
| `MCCliProfile` | its TLC instances |
| `CliProfileProofs` | its theorems |
| `OpenedStorage` | one command after the other that opens the storage: restore, operation, deadlines, signals, backup wait, close, crypto snapshot, download, report |
| `MCOpenedStorage` | its TLC instances |
| `OpenedStorageProofs` | its theorems |
| `WebSession` | one browser tab: connect, login, callback, logout, token rotation over `sessionStorage`; uses `GrantCustody` |
| `MCWebSession` | its TLC instance |
| `WebSessionProofs` | its theorems |
| `VaultView` | the list, contents, details and members views: polls, mutations and stale answers |
| `MCVaultView` | its TLC instance |
| `VaultViewProofs` | its theorems |

`PROJECT.json` maps every definition to the lines it models, and lists runs,
findings, hazards and theorems.

## Inventory

### Command line client

**Profile lock** (`cli/src/profile.ts`, 181-369).  State: `.profile.lock` with
the pid and a random token, and quarantine files of commands that are recovering
or releasing.  Operations: create exclusively, read the owner, probe its pid,
move a stale lock aside, compare, discard or put back, release.  Shared by all
commands of the user; used by every command for its whole life.  Hard: every
system call interleaves with those of other commands, and a command may be
killed between any two.  Correct when at most one command works on a profile, a
dead owner's lock does not block the next command, and no file is left over.

**Profile files** (`cli/src/profile.ts`, 383-574).  State: `session.json`,
`login-pending.json`, `crypto.snapshot`, the logout marker, temporary files.
Operations: atomic write, read, the empty-profile check of login, the clean-up
of logout.  Hard: kills inside a write, a clean-up that fails half way.  Correct
when the files that exist together belong together, and the clean-up can be
repeated.

**Login transaction** (`cli/src/loginTransaction.ts`), with the **device-code
adapter** (`cli/src/oidc.ts`).  State: the credentials in memory and where they
are stored.  Any step after the token endpoint's answer can fail; then the grant
is revoked or kept for a retry.  Hard: late answers after a deadline or a
cancellation, failures of the recovery itself.  Correct when no live grant is
lost without a report.

**Opened storage** (`cli/src/storage.ts`).  State: the running client,
`currentSession`, whether refreshes are accepted, whether the snapshot may be
written, the active operation, the backup progress.  Operations: open, run with a
deadline, abort, close, wait for the key backup.  Hard: abort, deadline and close
race a running operation; refresh answers arrive after close; the server rotates
tokens whether or not the answer arrives.  Correct when the newest tokens the
client has accepted are the stored ones, and a snapshot of an interrupted
operation never replaces a good one.

**Logout** (`cli/src/logout.ts`).  Operations: revoke at the revocation endpoint,
or Matrix logout with one refresh, then the marker, then the clean-up.  Hard: lost
and late answers, expired and rotated tokens, kills between any two steps.
Correct when credentials are removed only after the server has ended the grant,
and a retry completes.

**Crypto snapshot** (`cli/src/cryptoSnapshot.ts`): exports the IndexedDB stores to
a file and restores them.  **Cancellation and exit** (`cancellation.ts`,
`processExit.ts`, `failure.ts`): one abort signal per process.  **Recovery key
input** (`recoveryInput.ts`), **file transfer** (`fileTransfer.ts`),
**commands, output, topology** (`index.ts`, `output.ts`, `topology.ts`).

### Web application

**Storage context** (`src/context/StorageContext.tsx`).  State: connection
generation, the client, the session shown, connect/login/logout in flight, three
abort controllers.  Operations: connect, sign-in callback, login, logout, token
rotation, unmount.  Hard: every continuation after an `await` may find a newer
generation.  Correct when no client or session of an older generation is shown
and no grant is lost.

**Session store** (`src/lib/session.ts`, `accountOperation.ts`): session, pending
revocations and a volatile copy of them, login intent; compare-and-set of the
session.  **Revocation and OIDC login** (`revokeSession.ts`, `oidcAuth.ts`,
`oidcCallback.ts`): revoke or remember, clean pending revocations before a login,
complete a callback.  Hard: storage that refuses writes, rotation during
revocation.  Correct when a grant is revoked or remembered.

**Views** (`VaultContents`, `FileManager`, `DetailsPanel`, `MembersPanel`).  State:
the listing shown, the selection, request and mutation counters that discard stale
answers, one mutation at a time, path locks for folder uploads.  Operations: poll,
refresh, select, create, delete, rename, share, upload of files and folders.  Hard:
every answer may come after the tree shown has changed, or after a newer answer.
Correct when a view shows the tree selected and never goes back to an older state
of it, is busy exactly while it works, and concurrent uploads make one folder per
path.

**Recovery panel** (`RecoveryPanel`): a set-up or restore of the key backup, whose
outcome may be unknown.  **Presentation and configuration** (`App.tsx`, `main.tsx`,
`LoginScreen`, `buildConfig.ts`, `errorDetails.ts` and others): no state of
interest.

### Outside

The SDK `@telecrypt-io/storage`, the homeserver, the authorization server and the
file system are not in the repository.  The models contain what the clients rely
on; those definitions are marked external.  Scripts and CI are not modelled.

### Interaction

Commands share only the profile directory, one at a time under the lock.  Login
and logout share `requestServerLogout` and `finishRemoteLogout`; login and storage
commands share the client and its refresh callback, which writes the session file
while the command works.  The web context calls the session store and the
revocation; the views get the client and an abort signal from the context.

## ProfileLock

`Procs` are runs of the CLI, each takes the lock once.  `lock` is the file named
`.profile.lock`, identified by its creator since its contents are unique;
`written` are the creators whose file holds pid and token; `quarantine[p]` is the
file p has moved to a private name; `seen[p]` the owner p has read; `pc[p]` its
next system call.  One system call is one action: `Open`, `WriteOwner`, `Unlink`,
`ReadOwner`, `ProbeOwner`, `QuarantineLock`, `DiscardStale`, `RestoreOther`, then
`LinkBack` and `DropCopy` for `restoreLockWithoutReplacement`, `Release`, `RemoveOwn`,
`GiveBack` for the release closure, `Exit`, and `Crash` (a kill) before any of them.
Any call may fail with an error the code does not expect, and what the code then does
is an action: `AttemptFails` (nothing to clean up), `WriteFails` and `UnlinkFails` (the
file just created), `RecoveryFails` (the catch clause puts the moved file back, whosever
it is), `LeavesFile` (that fails too and is swallowed, or a release throws).

Abstractions: pids are not reused (a reused pid makes a dead owner look alive,
which gives "busy"); `displaced` and `errors`, the number of failed calls of each
command, are history variables.

What holds.  The code cannot keep strict exclusion: the comment at
`profile.ts:256` and CLI.md promise it, and run `lock_exclusion` shows how two
commands get the lock (two commands find the same dead owner; one recovers and a
new one locks; the other moves the live lock aside; a fourth opens before it is
put back).  What the code does keep is proved: two holders only if one of them has
been displaced (`ExclusiveUnlessDisplaced`), displacement starts only in the
recovery of an owner found dead (`DisplacedByRecoveryOnly`), a file taken by
mistake is lost only to a new owner (`LostOnlyToNewOwner`), a command that runs alone is
refused only for an ownerless file that a kill, two failures or a displacement have left
(`AloneRefusedByFaultOnly`), and a command that is not killed leaves a quarantined file
only after failures of its own calls, two of them in an acquisition, since the first one
is undone (`QuarantineNeedsErrors`).

Nor does the acquisition end in every execution.  Six commands are enough for a
livelock, which TLC finds outside the runs: two dead owners' files, one at
`.profile.lock` and one in the hands of a recoverer that read the other, can be put
back in the place of each other for ever by three recoverers.  `AttemptEnds` therefore
speaks of executions with one dead file about at a time, and `SetBackByOthersOnly` says
what bounds the loop in all of them: `CallsLeft` counts the system calls a command
still makes if nobody disturbs it, at most 12 from its first one; its own calls lower
the number, and only another command's change of `.profile.lock` raises it.  Theorem
`Attempts` draws the consequence: an acquisition ends unless others change
`.profile.lock` under it for ever.

## GrantCustody and CliProfile

`GrantCustody` has the grants `issued`, `live` at the server, `held` in the memory
of an operation and `kept` in storage.  Credentials are kept from memory, and
discharged only when the grant is not live.

`CliProfile` is one profile and one command at a time (that is what the lock is
for; the window of `lock_exclusion` is left out here).  `session`, `pending`,
`snapshot`, `marker` and `litter` (a temporary file of a killed write) are the
directory; tokens are generations of a grant.  `pc`, `cmd`, `base`, `cur` and
`saved` are the command: `cur` is `currentSession` of `storage.ts`, `pending` of
the login, or what logout presents; `saved` says which file has it.  `server` is
the grant at the server: its state and its accepted generations.

Actions follow the code: `StartLogin` (empty-profile check), `DeviceFails` and
`DeviceIssues` (the adapter's three results), `SaveSession`, `InitFails`,
`LoginCloses`, `Recover` (the catch clause up to the revocation), `OpenStorage`,
`Refresh`, `LateRefresh` (an answer nobody stores), `RefreshReused`,
`CloseStorage`, `StartLogout`; `RemoteFails`, `RevokeToken`, `LogoutRequest`,
`RefreshRefused`, `RefreshForLogout`, `LogoutAgain` are `requestServerLogout`,
where `answered = FALSE` is an answer that is lost, late or cancelled;
`EndUnrevoked`; then `WriteMarker`, `InspectFiles`, the three removals,
`CheckRemaining`, `RemoveMarker` and `CleanupFails`.  `Crash` may come before any
step.  `Expire` and `EndElsewhere` are the server's own.

Assumptions.  The server ends a grant when a consumed refresh token is presented
again; this is what `logout.ts:279` relies on when it takes `invalid_grant` for
"already ended".  With `IgnoresStale = FALSE` a revocation endpoint that answers
200 has ended the grant; run `cli_stale_revoke` drops that.  A token whose answer
the program never receives, or receives after the bounded join that follows its deadline
(`oidc.ts:96-100`), is issued and nobody's (`DeviceMisses`): the login ends with an error
and the grant counts as `abandoned`.  File contents are not corrupted by others, so
the error paths for unreadable session files are left out.  A write is atomic,
because `writePrivateFile` renames a complete file.

`FilesBelongTogether` is the invariant of the files, in three parts: never both credential
files (`NeverBoth`), a snapshot only beside its own session (`SnapshotOfSession`), a marker
only beside the credentials of an ended grant (`MarkerAfterEnd`).  `CheckRemaining`
counts every file left, a missed removal among them, not the temporary files alone
(`Cleared`).

## OpenedStorage

One profile, and the commands that open its storage one after the other.  `disk` is
`crypto.snapshot`, `store` the crypto store in memory: which keys it has, and whether
an operation is in the middle of a change (`torn`).  `op` is the SDK operation, which
goes on by itself: a deadline or a signal ends the *wait* for it, not the operation.
`pc` is the next await of the command; a step is what the program does between two
awaits, since that is where Node handles timers and signals.  `snapshotSafe`,
`zeroSeen` (`backupObservations`) and `received` (`receivedSignal`) are variables of
the code; `leftover` is an export that its deadline has left running.

`ReadInput` is `recoveryInput.ts` and `readBoundedInput`, before the profile is
opened; `OpenProfile`, `RestoreSnapshot`, `CreateStorage` and their failures are
`openStorage`; `OperationEnds`, `StatusKnown`, `StatusFails` are `run` and
`waitForBackupSettled`; `WriteTemporary`, `InstallDownload` are `writeDownload`;
`StopClient`, `PersistSnapshot`, `Release` and their failures are `close`; `Report`
is `runAction`.  `Deadline` and `Signal` cut any bounded wait (`Cut`), with what the
hooks of that wait do; `Kill` may come at any time.  The SDK (`OperationChanges`,
`OperationWrites`, `SyncLearns`) and its backup loop (`EngineUploads`, `EngineRests`)
are external.

Abstractions: the databases and records of a snapshot are one value; an atomic write
happens or not; the temporary file of a killed download is left out.  `said`, `code`,
`uploaded` and `worked` (the engine has been at work since the operation began) are
history variables.

What holds, and what does not.  A torn store is never saved (`SnapshotWhole`), also
when the operation cut off still runs while `close` exports; a printed success means
that everything is on disk and the lock free (`SuccessMeans`); a program that has the
lock always has a step of its own (`NeverStuck`).  But the wait for the
backup can end too early: run `storage_backup` shows a zero that the loop started with
the client reports before it sees the new key.  And it can be in vain: the observation
begins when the client has been created, and `markBackupWorkPending` clears it, so a zero
reported before either is not kept, and a command that gives the engine nothing to do
waits for a report that does not come, until its timeout, although nothing is missing
(no run is about this; the comment at `storage.ts:65-67` promises "Keep the latest value
so a command that starts after the engine already reached zero does not wait for an event
that will never be repeated", and the model has executions that do).  What holds
is `WaitsForWork`: nobody waits for an engine that has been at work since the operation
began and has ended it, however the report falls between the status question and the
listener.

The comment at `storage.ts:295-298` says of an aborted command that "close() below still
persists local crypto state".  The next statement sets `snapshotSafe` to false, so `close`
does not; the model follows the code.

## WebSession

One tab.  `stored`, `pend` and `intent` are `sessionStorage`; `vol` is
`volatilePendingRevocations`; `client`, `current` and `csess` are the client of
`connect()`, whether its generation is still `connectGenRef`, and its
`currentSession`; `flight` is a refresh answer on its way; `login`, `cb` and `logout`
are the steps of the three operations.  A token is a grant and a generation, since
access and refresh token are rotated together.

`LoadPage`, `LoadFails`, `LoadCallback` are the mount effect; `ConnectReady`,
`ConnectFails`, `ConnectTimesOut` are `connect`; `RefreshSent`, `RefreshAnswered` the
guarded refresh function with `saveSessionIfCurrent`; `BeginLogin`, `LoginCleans`,
`LoginRevokes`, `LoginRedirects` are `loginWithOidc` and `beginOidcLogin`; the
`Callback...` actions are `completeOidcLoginFromCallback` with what the provider does
with its result (`CallbackElsewhere`: the configured homeserver is another one, and the
tokens are neither revoked nor remembered); `StartLogout` and `LogoutRevokes` are
`logout`, whose loop is the repetition of the second.  `revokeOrRemember` has three
outcomes, and unless it is "confirmed" the server may or may not have acted.

Abstractions and assumptions.  The operations a user can start are those `App.tsx`
offers in a status, so the branches for a superseded logout or callback result are
unreachable and left out.  A refresh answer with no refresh token is in `CliProfile`
only.  M_UNKNOWN_TOKEN says that the *token* is unknown: after a rotation whose answer
the page refused, the grant lives on and nobody knows its tokens.  Two history variables
record such grants: `lost` has those whose answer never came, came too late, or came for
another homeserver, and those whose only copy was in memory at a reload; `dropped` has
those whose rotated session could not be stored.  `NoTokenForgotten` exempts both, and
run `web_denied` shows that the second exemption contradicts `session.ts:49`.  The abort
of a callback's deadline also ends its whoami request and its revocation; these steps
have failing outcomes of their own, so `CallbackTimesOut` is only about the exchange.
Stored values are not corrupted.  The import of the callback's chunk has no deadline of
its own; that it ends is part of the fairness.

`StoredUntilEnded` is the promise of `GrantCustody` for the web client, with tokens
for grants: what has been stored, as session or as pending revocation, is given up
only when the server accepts it no more.  `OneRevocationPending` says that every flow
works off a pending revocation before it can leave another one, and `PageGoesOn` that a
page always has a way on.

## VaultView

Four views share one discipline and no state but the selection, so a behaviour follows
one of them (`view`, chosen in the initial state).  To a panel, the list is an
environment that may select any tree at any time (`Select`, `Effect`: React renders
first and runs the identity effect later).  The code compares captured counters with
current ones; the model keeps with each request whether its counter has been raised
since: `fresh` (identity), `last` (request), `still` (navigation), `mounted`.

`Poll`, `ReadServed`, `ReadEnds` are a refresh: sent, answered by the server, handled.
`Capture` starts a mutation (`captureMutation`); `FileRead`, `Locked`, `PathAnswered`,
`PutAnswered`, `VaultAnswered`, `Refreshed` are its continuations, each with its
re-check of currency (a rename in the sidebar does not wait for the refresh it starts);
`ListServed`, `CreateServed`, `PutServed`, `VaultServed` are the server.  The path locks
of `ensurePath` are `locks` (the last promise of the path) and `prev` (the promise
waited for).

Abstractions: one subfolder per tree is asked for; a download is a change that fails
to change; the selected row, the name being edited and error texts are left out.  A
failed poll of the list clears the selection and with it ends an upload of several
files without a message, and the refresh after `createVault` may not have the new vault
yet; both are behaviours of the model.  The details start their loop of polls again when
their entry is selected once more, so two polls of one entry may be on the way (`Polls`).
A create that the client has given up and that lands at the server later is like one of
another client and not counted by `OneFolderPerPath`.  A new mount has a new map of locks, so
`OneFolderPerPath` is about the uploads of one instance.
`UploadsGoOn` has two parts: who waits for a path lock waits for an upload that runs
(`LocksAreHeld`), and no uploads wait in a circle (`NoCircularWait`).

## Runs

| run | shows |
| --- | --- |
| `lock` | 4 commands, all interleavings, any call failing, kills: exclusion up to displacement, what displaces a lock file and what becomes of it, what leaves a quarantined file, what keeps an acquisition going, when a command alone is refused |
| `lock_live` | 3 commands: an acquisition always has a next call, it ends, a dead owner's lock is recovered |
| `lock_exclusion` (violation) | strict exclusion fails with 4 commands |
| `lock_recoverable` (violation) | a kill between creating and filling the lock file blocks the profile |
| `cli_profile` | 2 grants: the profile keeps every live grant (refinement of `GrantCustody`), file combinations, reports, token order, and that repeated logouts clear the profile |
| `cli_retry` (violation) | after a kill inside a write the logout never completes |
| `cli_stale_revoke` (violation) | with an RFC 7009 endpoint logout forgets a live grant |
| `opened_storage` | commands with deadlines, signals and kills at every await: whole snapshots, no reported key lost, truthful success, no wait for an engine that has done its work, downloads replace nothing, a program with the lock is never stuck and gives it back |
| `storage_backup` (violation) | an upload is reported while its key is not in the backup |
| `web_session` | two sign-ins with rotation, lost answers, denied storage, timeouts and reloads: no live token without a record but in the ways named, no client of an older connection shown, nothing stored given up too early, one pending revocation at most, no dead end; pending revocations and "connecting" end |
| `web_denied` (violation) | a denied write of a rotated session leaves a live token without a record |
| `vault_view` | every view with two trees, two mutations and a poll in flight: the selected tree is shown and never goes back, busy is truthful, one folder per path, uploads wait for no lock that is left behind and not for each other |

Bounds.  Four commands are needed for two holders: the dead owner, the recoverer and
the holders differ, and only then does a release find another's lock (`GiveBack`).
Commands are interchangeable, so safety is checked up to symmetry.  Liveness is
checked with three, an owner, a recoverer and a newcomer, each of which can make
another one start again.  Two grants give a second login after a
first profile life, and one issuer of each kind (`Revocable = {g2}`).  `MaxGen = 3`
gives two rotations, so a stored token can be current, one behind or two behind.
At the bound the server stops rotating for clients and answers a logout's refresh
with the same tokens.  The theorems remove these bounds.

`OpenedStorage` needs no bound but its keys: two keys, so that one can be in the
backup or in the snapshot and the other not; commands follow each other without end.
`WebSession`: two grants, so that a session left behind meets the next sign-in (the
store is compared with an older session, pending revocations meet a login); two
rotations of each (`MaxGen = 3`), so that a token can be one or two behind.
`VaultView`: two trees, to leave one and come back; two mutations, one of them stale,
which is also what a lock needs; one poll besides the two refreshes of mutations;
`MaxVer = 2`, for an older and a newer answer; `MaxFiles = 2`, for an upload that goes
on after its first file.  Keys, trees and mutations are interchangeable; symmetry is
used only in `vault_view` and `lock`, which have no liveness property.

Fairness.  `ProfileLock`: weak fairness of each acquisition's steps, since they are
synchronous calls in a loop; none for how long a command holds the lock, none for kills.
`CliProfile`: a running command goes on (`WF(Work)`; its waits all have deadlines); for
liveness the user repeats the logout (`SF(StartLogout)`) and faults (kills, lost
answers, failing writes) stop at some time.  Without the last assumption no retry loop
can be shown to end.  `OpenedStorage`: weak fairness of the program's own steps, its
timers among them; the SDK, the server and the user at a prompt need never do anything,
and `LockReleased` holds nevertheless, by deadlines. `WebSession`: the page goes on
(`WF(Succeeds)`, requests are bounded by timers), a page is loaded after a redirect
(`WF(LoadPage)`), a user who sees the login button again and again clicks it
(`SF(StartLogin)`), and from some time on every step is one that works
(`<>[][Works]_vars`).  That is less than "no step is a fault": some faults look like a
step that works, as a reload while the page is away anyway, and are allowed for ever.
The SDK's connection and refresh answers are not fair, `ConnectTimesOut` is what ends
them.  `VaultView` has none: instead of liveness, `UploadsGoOn` says that whoever waits
for a path lock waits for a mutation that will give it back.  The lock runs are without
deadlock checking, because every command runs once and then all have ended.

## Proofs

`ProfileLockProofs` proves, for every set of processes, all safety properties of run
`lock`.  The inductive invariant adds to the types: a lock or quarantine file has a
creator that has started; a process that has the lock and was not displaced finds its
file at `.profile.lock`; the owner a recovering process has read has ended, and stays
so; only the steps between the rename and the removal use a quarantine; a holder has
written its owner; an ownerless file has a creator that is at work on it, was killed,
failed twice or was displaced (`OwnerlessOnlyByFault`); a command that recovers or
releases has had as many failures as its step tells (`ErrorsSoFar`).  Exclusion follows from the second part, two action
properties from a case split over the steps that take a file off,
`AloneRefusedByFaultOnly` from `OwnerlessOnlyByFault`, and `QuarantineNeedsErrors` from
the use of quarantines and `ErrorsSoFar`.  `SetBackByOthersOnly`
splits into the steps of the command itself (`OwnStep`) and those of the others
(`OthersStep`).

`CliProfileProofs` proves all safety properties of run `cli_profile`, the
refinement of `GrantCustody`, and `RevokedBeforeRemoved`, for every set of grants
and every `MaxGen`, under `~IgnoresStale`.  The inductive invariant has, besides
the properties: what each command has in memory at each step (`CommandShape`); the
credentials of a command are in the file `saved` names (`SavedWhere`); stored tokens
are never ahead of the server's, and a grant without a refresh token has one access
token (`ServerShape`); once the clean-up runs every grant of the profile has ended
(`EndedBeforeCleaning`); every live grant is stored or in the memory of the login
that got it (`Accounted`).  Two lemmas say what a refresh does to the server and to
the credentials; the refinement sorts the steps into those that are quiet, end a
grant, move files or issue tokens.

`OpenedStorageProofs` proves all safety properties of run `opened_storage` for every
finite set of keys.  The inductive invariant adds: an SDK operation is on only while the
command waits for it, or after the cut that has made the snapshot unsafe, and a torn
store is its work (`OperationScope`); what the process knows is at least what was saved
before, and what it will report is part of it (`StoreGrows`); a command with nothing to
complain of has saved its store before it gives the profile back (`CleanEnd`).
`SnapshotWhole` rests on the first, `ReportedKept` on the second, `SuccessMeans` on the
third; `WritesItsOwn` is a case split over the steps.

`WebSessionProofs` proves all safety properties of run `web_session`, for every set
of grants and every `MaxGen`.  The inductive invariant adds: only one of connection,
login, callback and logout is going on, but for a callback whose deadline has passed
(`OneOperation`); the connection whose generation is current uses the stored session
(`CurrentConnection`); an answer to a refresh is newer than the session refreshed
(`AnswerIsNewer`); nothing is stored from the redirect to the end of the callback
(`SlateIsClean`); an unused grant has its first token (`UnusedGrants`).  `ShownAlone`
follows from the second part.  `NoTokenForgotten` is part of the invariant; one lemma
(`Revocation`) says that a revocation leaves its token ended or remembered, and every
step that revokes cites it, in the proof of `StoredUntilEnded` as well.

`VaultViewProofs` proves all properties of run `vault_view`, for every set of trees,
mutations and polls and every bound.  It assumes that `None` is none of the values it
stands in for (`ViewConstants`, `NoneIsNothing`).  The inductive invariant adds:
everything fresh is about the identity of the last effect, and at most one mutation is
fresh (`OneIdentity`); one refresh at most is the last one, and its answer is no older
than what is shown (`Recent`); the uploads of one path are in line, each with its own
place, the one waited for is the next ahead and the owner the first (`Queue`, with the
places as the witness); every upload that waits comes after the one it waits for in one
numbering of all uploads (`InOrder`); who has found no subfolder is the first to make
one (`Folders`). `NeverGoesBack` follows from `Recent`, `LocksAreHeld` is proved with
`Queue`, from which lemma `OneOwner` has that two uploads never own the lock of one
path; `OneFolderPerPath` rests on it.  `NoCircularWait` follows from `InOrder`: in any
set of uploads the one with the least number waits for none of the set.  Lemma
`Advances` sorts the continuations of a mutation into those that end it, put it in line,
or let it go on.

Where a documented promise does hold.  These promises, which the code does not keep, are
proved under a hypothesis that closes the one window in which each fails.  The hypothesis
is about that window only; every other failure, kill and interleaving stays possible.
The theorems of `CliProfile` have `~IgnoresStale` as well.

| promise | theorem | what the hypothesis excludes |
| --- | --- | --- |
| `MutualExclusion` | `ExclusionIfCurrent` | another file takes the place of a dead owner's between the probe and the rename (`MovesTheReadFile`) |
| `DeadLockRecoverable` | `RecoverableIfWritten` | the same, and a kill between the exclusive create and the write of the owner (`NotKilledWhileEmpty`) |
| `RetryCompletes` | `RetryIfNoLitter` | a kill inside a write, which leaves a temporary file (`litter`); it also has the liveness hypotheses of `LogoutCompletes` below |
| `RevokedBeforeRemoved` | `RevokedFirst` | a revocation endpoint that answers 200 to a token it does not know (`IgnoresStale`) |
| `UnsavedMeansUnsaved` | `UnsavedIfNoRefresh` | the refresh of a login that could not save stores the new credentials (`NoneSavedByRefresh`) |
| `BackupBeforeReport` | `BackupIfNotEarly` | an operation makes a key after the backup engine has reported that nothing remains (`NoKeyAfterZero`) |

A violation run shows how each fails, but for `UnsavedMeansUnsaved`: the message
"could not be saved for retry" (`loginTransaction.ts:143`) is false when `onRefreshed` has
written `login-pending.json` without setting `markedForRetry`; an invariant check of
`UnsavedMeansUnsaved` with the constants of `cli_profile` finds that execution.  Of
`DenialKeepsRetry` and of the comment at `storage.ts:65-67` theorems `NothingForgotten` and
`BackupWait` prove what is left, `NoTokenForgotten` and `WaitsForWork`, which exempt by
name the rotation that was not stored and the engine that rested before.

Three invariants carry them: only files of dead owners that could be read are displaced
(`OnlyDeadDisplaced`), a report of zero is about the keys of the operation (`BackedUp`),
and nothing is stored of a login that has not saved (`NothingSaved`).

Liveness is proved too, for every value of the constants, where the way to the end has
a fixed length: `DeadLockRecovered`, `LogoutClears`, `LockReleased`, `ConnectingEnds`,
`PendingCleared`, and the end of an acquisition that is left alone (`Attempts`).  The
prover cannot reason about ENABLED, so those of `ProfileLock`, `OpenedStorage` and
`WebSession` have a hypothesis that what is to happen always can (`AcquisitionGoesOn`,
`NeverStuck`, `PageGoesOn`), and a run checks just that as an invariant, together with
the property; `LogoutCompletes` has the fairness of `LiveSpec` without ENABLED
(`CommandRuns`: a command comes to its end or makes steps for ever; `LogoutRepeated`,
`NoMoreFaults`).
The rest is proved: a number of steps still to go (`CallsLeft`, `Place`, `Stage`,
`Way`) that no step raises and each fair step lowers, in each case one lemma; PTL then
takes the levels one after the other.  `Way` counts from a stored pending revocation
over the reload, the login button and the login to its revocation; it needs that at most
one revocation is pending, which is `OneRevocationPending`, proved by an invariant of its
own (`WorkedOff`), and that what connects is a login, a callback or a connection
(`ConnectingHasOwner`).

`LogoutCompletes` has one hypothesis more, `FreshTokenHolds`: from some time on the
server does not refuse the token it has just issued.  A logout whose second request is
refused as well keeps the rotated credentials for the next one, and that can repeat as
often as tokens expire.  The run needs no such hypothesis only because `MaxGen` bounds
the rotations.  `Attempts` likewise has `LeftAlone` where the run has executions with one
dead file about at a time.

Only model-checked: `AttemptEnds` as it stands, because its bound depends on how many
other commands there are and on what they still do, and `LogoutClears` without
`FreshTokenHolds`, because its bound depends on `MaxGen`: both need an induction over
data.  `AcquisitionGoesOn`, `NeverStuck` and `PageGoesOn`, because they
are about ENABLED.  And the six violations, of which TLC gives the executions.

## Plan

Done: the profile lock, the profile's files and grants, the opened storage, the web
session, the views, and the theorems of each.  Left, in this order:

1. A recovery module: the server's key backup, the key of a set-up and who has seen it,
   for `RecoveryPanel` and for the commands that set up or change the recovery.
2. The databases and records of a crypto snapshot, told apart.

## Not modelled

`RecoveryPanel`: its guards are those of `VaultView`, and its hazard, a new recovery key
that nobody has seen because the panel was left or an answer was lost, needs the state
of module 1 above.  The same holds for a CLI recovery key that is not printed because
the wait for the backup or `close` fails after the server has been changed.

Left out of modelled parts: the temporary file of a killed download; raw mode of the
terminal and the characters of a prompt; the helpers that cancel the body of an HTTP
response; the cached client and device ids of a sign-in; the databases of a snapshot;
the selected row, the name being edited and error texts of the views; contents of files
and of `sessionStorage` corrupted by others; reuse of process numbers.

Not planned: rendering, argument parsing, URL and identifier validation, wording and
redaction of errors, build settings, build and deployment scripts.
