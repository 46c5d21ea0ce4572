---------------------------- MODULE OpenedStorage ----------------------------
(***************************************************************************)
(* The CLI commands that open the encrypted storage, one process after     *)
(* the other on one profile: input (cli/src/recoveryInput.ts,              *)
(* fileTransfer.ts), opening, the bounded operations and closing           *)
(* (storage.ts), the crypto store that is restored from and saved to       *)
(* crypto.snapshot (cryptoSnapshot.ts), signals (cancellation.ts), the     *)
(* report (output.ts) and the end of the process (processExit.ts), put     *)
(* together by the commands of index.ts.                                   *)
(*                                                                         *)
(* A step of the program is what it does between two awaits: signals and   *)
(* timers are handled only there.  The SDK, its crypto store and its       *)
(* backup engine are external, as is the server.  The tokens, their        *)
(* refresh and login are in CliProfile, the profile lock in ProfileLock.   *)
(***************************************************************************)
EXTENDS FiniteSets

CONSTANTS
    Keys,       \* megolm sessions: what the crypto store holds
    None

ASSUME StorageConstants == IsFiniteSet(Keys)

(* A crypto store; it is torn while an operation is in the middle of a     *)
(* change.                                                                 *)
Stores == [keys : SUBSET Keys, torn : BOOLEAN]
NoKeys == [keys |-> {}, torn |-> FALSE]

VARIABLES
    \* outside the process
    disk,       \* crypto.snapshot
    lock,       \* the profile lock: "free", "held", or "stale" after a kill
    dest,       \* the path a download is asked to make
    recovery,   \* server-side key backup is set up
    backup,     \* keys in the server-side backup
    \* the process
    pc, cmd,
    failed,     \* it has an error to report
    received,   \* a signal has come: receivedSignal
    \* the opened storage
    store,      \* crypto store in memory
    client,     \* the Matrix client runs
    op,         \* the SDK operation: "none", "running", "changing" or "written"
    made,       \* keys the operation made or has to bring to a new backup
    engine,     \* the upload loop of the SDK's backup engine is at work
    zeroSeen,   \* backupObservations: remaining is 0
    snapshotSafe,
    leftover,   \* what an export holds whose deadline has passed, or None
    \* history, read by no step
    said,       \* what the last command has printed
    code,       \* and its exit code
    uploaded,   \* keys of the uploads that were reported as done
    worked      \* the engine has been at work since the operation began

outside == <<disk, lock, dest>>
server  == <<recovery, backup>>
opened  == <<store, client, op, made, engine, zeroSeen, snapshotSafe>>
history == <<said, code, uploaded, worked>>
vars    == <<outside, server, pc, cmd, failed, received, opened, leftover, history>>

Steps == {"idle", "input", "open", "restore", "create", "op", "status", "waiting",
          "temporary", "link", "close", "persist", "release", "report"}

(* The commands of index.ts, by what they do around their one operation.   *)
Other         == {"other"}      \* list, create, rename, delete, share, join, members
ReadsInput    == {"upload", "restore"}
MakesSessions == {"upload", "setup"}
Commands      == Other \union ReadsInput \union MakesSessions \union {"download"}

Init ==
    /\ disk = NoKeys /\ lock = "free" /\ dest = "absent"
    /\ recovery \in BOOLEAN /\ backup = {}
    /\ pc = "idle" /\ cmd = "other" /\ failed = FALSE
    /\ received = FALSE
    /\ store = NoKeys /\ client = FALSE /\ op = "none" /\ made = {}
    /\ engine = FALSE /\ zeroSeen = FALSE /\ snapshotSafe = TRUE
    /\ leftover = None
    /\ said = "none" /\ code = "none" /\ uploaded = {} /\ worked = FALSE

GoTo(step) == pc' = step /\ UNCHANGED failed
Fail(step) == pc' = step /\ failed' = TRUE

(* stopClient() may throw.                                                 *)
StopsClient == client' \in {client, FALSE}

-----------------------------------------------------------------------------
(* Faulty variants of steps below, each a plausible mistake in the code.   *)
(* They are not part of the specification.                                 *)

\* The hook of run without "snapshotSafe = false".
OperationCut_SnapshotStaysSafe(aborted) ==
    /\ pc = "op"
    /\ StopsClient
    /\ snapshotSafe' = (snapshotSafe /\ ~aborted)
    /\ Fail("close")
    /\ UNCHANGED <<store, op, made, engine, zeroSeen>>

\* openStorage that starts without the snapshot it cannot restore.
RestoreFails_StartsEmpty ==
    /\ pc = "restore"
    /\ GoTo("create")
    /\ UNCHANGED <<outside, server, cmd, received, opened, leftover, history>>

\* persistCryptoStore without throwIfSnapshotAborted.
LateExport_Writes ==
    /\ leftover # None
    /\ leftover' = None
    /\ disk' = leftover
    /\ UNCHANGED <<lock, dest, server, pc, cmd, failed, received, opened, history>>

\* close whose failed snapshot is not pushed to "failures".
PersistFails_Unreported ==
    /\ pc = "persist"
    /\ GoTo("release")
    /\ UNCHANGED <<outside, server, cmd, received, opened, leftover, history>>

\* close that stops at the first failure.
PersistFails_KeepsLock ==
    /\ pc = "persist"
    /\ Fail("report")
    /\ UNCHANGED <<outside, server, cmd, received, opened, leftover, history>>

\* waitForBackupSettled without the check after the listener is installed.
StatusKnown_NoRecheck ==
    /\ pc = "status"
    /\ GoTo(IF recovery THEN "waiting" ELSE "close")
    /\ UNCHANGED <<outside, server, cmd, received, opened, leftover, history>>

\* onRemaining without "Number.isInteger(remaining)".
Emits_AnyValue(zero) ==
    /\ zeroSeen' \in {zero, None}
    /\ GoTo(IF pc = "waiting" /\ zero THEN "close" ELSE pc)

\* writeDownload that waits until nobody has a file at the path.
InstallDownload_Waits(linked, removed) ==
    /\ pc = "link" /\ dest = "absent"
    /\ dest' = "downloaded" /\ GoTo("close")
    /\ UNCHANGED <<disk, lock, server, cmd, received, opened, leftover, history>>

-----------------------------------------------------------------------------
(* Starting a process, and its end.                                        *)
Begin(c) ==
    /\ pc = "idle"
    /\ pc' = "input" /\ cmd' = c /\ failed' = FALSE
    /\ received' = FALSE
    /\ store' = NoKeys /\ client' = FALSE /\ op' = "none" /\ made' = {}
    /\ engine' = FALSE /\ zeroSeen' = FALSE /\ snapshotSafe' = TRUE
    /\ said' = "none" /\ code' = "none" /\ worked' = FALSE
    /\ dest' \in (IF c = "download" THEN {"absent", "other"} ELSE {"absent"})
    /\ UNCHANGED <<disk, lock, server, leftover, uploaded>>

(* readBoundedInput and readRecoveryKey come before the profile is opened; *)
(* the other commands have no input that can fail.                         *)
ReadInput(ok) ==
    /\ pc = "input"
    /\ IF ok THEN GoTo("open") ELSE cmd \in ReadsInput /\ Fail("report")
    /\ UNCHANGED <<outside, server, cmd, received, opened, leftover, history>>

(* runAction prints the result or the error, whose line may also fail.     *)
(* After a signal the exit code is the signal's, whatever was printed.     *)
Report(written) ==
    /\ pc = "report"
    /\ said' = (IF written /\ ~failed THEN "result" ELSE "error")
    /\ code' = (IF received THEN "signal" ELSE IF said' = "result" THEN "0" ELSE "1")
    /\ uploaded' = uploaded \union (IF cmd = "upload" /\ said' = "result" THEN made ELSE {})
    /\ GoTo("idle")
    /\ UNCHANGED <<outside, server, cmd, received, opened, leftover, worked>>

(* An uncatchable signal, or one whose handler has already run.            *)
Kill ==
    /\ pc # "idle"
    /\ GoTo("idle")
    /\ lock' = (IF lock = "held" THEN "stale" ELSE lock)
    /\ op' = "none" /\ client' = FALSE /\ leftover' = None
    /\ UNCHANGED <<disk, dest, server, cmd, received, store, made, engine,
                   zeroSeen, snapshotSafe, history>>

-----------------------------------------------------------------------------
(* openStorage: each step is bounded and throws with the lock released.    *)

(* acquireProfileLock, signal.aborted and readSession.  Any of them may    *)
(* end the command, and the release of a lock that it then has may fail.   *)
OpenProfile(ok) ==
    /\ pc = "open"
    /\ IF ok /\ ~received
          THEN lock' = "held" /\ GoTo("restore")
          ELSE lock' \in {lock, "free", "stale"} /\ Fail("report")
    /\ UNCHANGED <<disk, dest, server, cmd, received, opened, leftover, history>>

\* restoreCryptoStore: importIndexedDB of what is in the file.
RestoreSnapshot ==
    /\ pc = "restore"
    /\ store' = disk
    /\ GoTo("create")
    /\ UNCHANGED <<outside, server, cmd, received, client, op, made, engine, zeroSeen,
                   snapshotSafe, leftover, history>>

\* The file cannot be read or a database cannot be filled.
RestoreFails ==
    /\ pc = "restore"
    /\ Fail("release")
    /\ UNCHANGED <<outside, server, cmd, received, opened, leftover, history>>

(* createFromOidc, createOpenedStorage and the start of run, with no await *)
(* between the last two.  The backup engine was started by the first: it   *)
(* is at work, or has said that nothing remains and rests.                 *)
(* observeBackupProgress starts from nothing seen, and                     *)
(* markBackupWorkPending forgets what it saw.                              *)
CreateStorage(working) ==
    /\ pc = "create"
    /\ working => recovery
    /\ recovery /\ ~working => store.keys \subseteq backup
    /\ client' = TRUE /\ op' = "running"
    /\ engine' = working /\ worked' = working
    /\ zeroSeen' = FALSE /\ snapshotSafe' = TRUE
    /\ GoTo("op")
    /\ UNCHANGED <<outside, server, cmd, received, store, made, leftover, said, code, uploaded>>

CreateFails ==
    /\ pc = "create"
    /\ Fail("release")
    /\ UNCHANGED <<outside, server, cmd, received, opened, leftover, history>>

-----------------------------------------------------------------------------
(* The SDK (external).  An operation changes the crypto store in several   *)
(* steps; cut off, it may stop anywhere or go on.                          *)
OperationChanges ==
    /\ op = "running"
    /\ op' = "changing" /\ store' = [store EXCEPT !.torn = TRUE]
    /\ UNCHANGED <<outside, server, pc, cmd, failed, received, client, made, engine,
                   zeroSeen, snapshotSafe, leftover, history>>

(* uploadFile may make a session; setupRecovery makes a new backup, which  *)
(* every key has to reach.  Both set the backup engine to work.            *)
OperationWrites(new) ==
    /\ op = "changing"
    /\ new # {} => cmd = "upload" /\ new \intersect store.keys = {} /\ Cardinality(new) = 1
    /\ op' = "written"
    /\ store' = [keys |-> store.keys \union new, torn |-> FALSE]
    /\ IF cmd = "setup" THEN recovery' = TRUE /\ backup' = {} ELSE UNCHANGED server
    /\ made' = (IF cmd = "setup" THEN store.keys ELSE new)
    /\ engine' = (engine \/ (recovery' /\ made' # {}) \/ cmd = "setup")
    /\ worked' = (worked \/ engine')
    /\ UNCHANGED <<outside, pc, cmd, failed, received, client, zeroSeen, snapshotSafe,
                   leftover, said, code, uploaded>>

\* A key sent by another participant.
SyncLearns(k) ==
    /\ client /\ k \notin store.keys
    /\ store' = [store EXCEPT !.keys = @ \union {k}]
    /\ engine' = (engine \/ recovery)
    /\ worked' = (worked \/ engine')
    /\ UNCHANGED <<outside, server, pc, cmd, failed, received, client, op, made,
                   zeroSeen, snapshotSafe, leftover, said, code, uploaded>>

(* KeyBackupSessionsRemaining: onRemaining of the observation keeps the    *)
(* latest number, the listener of waitForBackupSettled ends at zero.       *)
Emits(zero) ==
    /\ zeroSeen' = zero
    /\ GoTo(IF pc = "waiting" /\ zero THEN "close" ELSE pc)

EngineUploads(k) ==
    /\ client /\ engine /\ recovery
    /\ k \in store.keys \ backup
    /\ backup' = backup \union {k}
    /\ Emits(store.keys \subseteq backup')
    /\ UNCHANGED <<outside, recovery, cmd, received, store, client, op, made, engine,
                   snapshotSafe, leftover, history>>

\* Nothing is left to upload: the loop says so and ends.
EngineRests ==
    /\ client /\ engine /\ recovery
    /\ store.keys \subseteq backup
    /\ engine' = FALSE
    /\ Emits(TRUE)
    /\ UNCHANGED <<outside, server, cmd, received, store, client, op, made,
                   snapshotSafe, leftover, history>>

-----------------------------------------------------------------------------
(* The operation ends by itself; a set-up that succeeds has made a backup. *)
OperationEnds(ok) ==
    /\ pc = "op" /\ op \in {"running", "written"}
    /\ ok /\ cmd = "setup" => op = "written"
    /\ op' = "none"
    /\ IF ~ok THEN Fail("close")
       ELSE GoTo(CASE cmd \in MakesSessions -> "status"
                   [] cmd = "download"      -> "temporary"
                   [] OTHER                 -> "close")
    /\ UNCHANGED <<outside, server, cmd, received, store, client, made, engine,
                   zeroSeen, snapshotSafe, leftover, history>>

(* waitForBackupSettled: isRecoverySetup is answered, then the listener is *)
(* installed and the observation is looked at, with no await in between.   *)
StatusKnown ==
    /\ pc = "status"
    /\ GoTo(IF recovery /\ ~zeroSeen THEN "waiting" ELSE "close")
    /\ UNCHANGED <<outside, server, cmd, received, opened, leftover, history>>

StatusFails ==
    /\ pc = "status"
    /\ Fail("close")
    /\ UNCHANGED <<outside, server, cmd, received, opened, leftover, history>>

\* writeDownload: the temporary file.
WriteTemporary(ok) ==
    /\ pc = "temporary"
    /\ IF ok THEN GoTo("link") ELSE Fail("close")
    /\ UNCHANGED <<outside, server, cmd, received, opened, leftover, history>>

(* linkSync refuses a path that is taken and may fail otherwise, as may    *)
(* the removal of the temporary file after it.                             *)
InstallDownload(linked, removed) ==
    /\ pc = "link"
    /\ linked => dest = "absent"
    /\ dest' = (IF linked THEN "downloaded" ELSE dest)
    /\ IF linked /\ removed THEN GoTo("close") ELSE Fail("close")
    /\ UNCHANGED <<disk, lock, server, cmd, received, opened, leftover, history>>

\* Another program, or the user, while the command runs.
DestinationChanges ==
    /\ cmd = "download" /\ pc # "idle"
    /\ dest' = (IF dest = "absent" THEN "other" ELSE "absent")
    /\ UNCHANGED <<disk, lock, server, pc, cmd, failed, received, opened, leftover,
                   history>>

-----------------------------------------------------------------------------
(* Deadlines and signals, at the awaits: boundedStorageOperation rejects   *)
(* and the operation, which may ignore its signal, is left behind.         *)
OpenCut ==
    /\ pc \in {"restore", "create"}
    /\ Fail("release")
    /\ UNCHANGED opened

OperationCut(aborted) ==
    /\ pc = "op"
    /\ StopsClient
    /\ snapshotSafe' = FALSE
    /\ Fail("close")
    /\ UNCHANGED <<store, op, made, engine, zeroSeen>>

(* Without an abort these are the 20 seconds of waitForBackupSettled,      *)
(* whose hooks do not touch snapshotSafe.                                  *)
SettlementCut(aborted) ==
    /\ pc \in {"status", "waiting"}
    /\ IF aborted \/ pc = "status" THEN StopsClient ELSE UNCHANGED client
    /\ snapshotSafe' = (snapshotSafe /\ ~aborted)
    /\ Fail("close")
    /\ UNCHANGED <<store, op, made, engine, zeroSeen>>

Cut(aborted) == OpenCut \/ OperationCut(aborted) \/ SettlementCut(aborted)

Deadline ==
    /\ Cut(FALSE)
    /\ UNCHANGED <<outside, server, cmd, received, leftover, history>>

(* The first signal aborts what listens to commandSignal; close() does not *)
(* listen any more, nor does the report.  A later signal of another kind   *)
(* does nothing, one of the same kind kills (Kill): process.once.          *)
Signal ==
    /\ ~received
    /\ received' = TRUE
    /\ \/ Cut(TRUE)
       \/ pc = "input" /\ cmd = "restore" /\ Fail("report") /\ UNCHANGED opened
       \/ pc \in {"persist", "report"} /\ UNCHANGED <<pc, failed, opened>>
    /\ UNCHANGED <<outside, server, cmd, leftover, history>>

-----------------------------------------------------------------------------
(* close(): each clean-up is attempted whatever became of the others.      *)
StopClient(ok) ==
    /\ pc = "close"
    /\ client' = (client /\ ~ok)
    /\ pc' = (IF snapshotSafe THEN "persist" ELSE "release")
    /\ failed' = (failed \/ ~ok)
    /\ UNCHANGED <<outside, server, cmd, received, store, op, made, engine, zeroSeen,
                   snapshotSafe, leftover, history>>

\* persistCryptoStore: exportIndexedDB, then one atomic write.
PersistSnapshot ==
    /\ pc = "persist"
    /\ disk' = store
    /\ GoTo("release")
    /\ UNCHANGED <<lock, dest, server, cmd, received, opened, leftover, history>>

PersistFails ==
    /\ pc = "persist"
    /\ Fail("release")
    /\ UNCHANGED <<outside, server, cmd, received, opened, leftover, history>>

\* The export goes on after its 30 seconds.
PersistTimesOut ==
    /\ pc = "persist"
    /\ leftover' = store
    /\ Fail("release")
    /\ UNCHANGED <<outside, server, cmd, received, opened, history>>

(* An export whose deadline has passed ends, perhaps when another command  *)
(* has the profile; the aborted signal keeps it from writing.  The bounded *)
(* exit ends it with its process.                                          *)
LateExport ==
    /\ leftover # None
    /\ leftover' = None
    /\ UNCHANGED <<outside, server, pc, cmd, failed, received, opened, history>>

Release(ok) ==
    /\ pc = "release"
    /\ lock' = (IF ok THEN "free" ELSE "stale")
    /\ pc' = "report" /\ failed' = (failed \/ ~ok)
    /\ UNCHANGED <<disk, dest, server, cmd, received, opened, leftover, history>>

-----------------------------------------------------------------------------
\* What the program does by itself, its timers among it.
Program ==
    \/ RestoreSnapshot \/ RestoreFails \/ CreateFails
    \/ StatusKnown \/ StatusFails \/ Deadline
    \/ PersistSnapshot \/ PersistFails \/ PersistTimesOut
    \/ \E linked, removed \in BOOLEAN : InstallDownload(linked, removed)
    \/ \E working \in BOOLEAN : CreateStorage(working)
    \/ \E ok \in BOOLEAN :
         OpenProfile(ok) \/ OperationEnds(ok) \/ WriteTemporary(ok) \/ StopClient(ok)
           \/ Release(ok) \/ Report(ok)

Sdk ==
    \/ OperationChanges \/ EngineRests
    \/ \E new \in SUBSET Keys : OperationWrites(new)
    \/ \E k \in Keys : SyncLearns(k) \/ EngineUploads(k)

Environment ==
    \/ \E c \in Commands : Begin(c)
    \/ \E ok \in BOOLEAN : ReadInput(ok)
    \/ Signal \/ Kill \/ DestinationChanges \/ LateExport

Next == Program \/ Sdk \/ Environment

Spec == Init /\ [][Next]_vars

(* Timers fire and the program's own steps go on; neither the SDK nor the  *)
(* user, who may leave a prompt unanswered, has to do anything.            *)
LiveSpec == Spec /\ WF_vars(Program)

-----------------------------------------------------------------------------
(* Every variable keeps its type.                                          *)
TypeOK ==
    /\ disk \in Stores /\ store \in Stores /\ leftover \in Stores \union {None}
    /\ lock \in {"free", "held", "stale"}
    /\ dest \in {"absent", "other", "downloaded"}
    /\ recovery \in BOOLEAN /\ backup \subseteq Keys
    /\ pc \in Steps /\ cmd \in Commands /\ failed \in BOOLEAN
    /\ received \in BOOLEAN
    /\ client \in BOOLEAN /\ engine \in BOOLEAN /\ zeroSeen \in BOOLEAN
    /\ snapshotSafe \in BOOLEAN
    /\ op \in {"none", "running", "changing", "written"}
    /\ made \subseteq Keys /\ uploaded \subseteq Keys
    /\ said \in {"none", "result", "error"} /\ code \in {"none", "0", "1", "signal"}
    /\ worked \in BOOLEAN

(* The file never holds a crypto store that an operation cut off by a      *)
(* deadline or a signal has left in the middle of a change.                *)
SnapshotWhole == ~disk.torn

(* The key of an upload that was reported as done stays in the profile,    *)
(* whatever later commands, deadlines, signals and kills do.               *)
ReportedKept == uploaded \subseteq disk.keys

(* A command that prints its result has saved all its crypto store knew    *)
(* and has given the profile back; it exits with 0 unless a signal came.   *)
SuccessMeans ==
    pc = "idle" /\ said = "result" =>
        /\ store.keys \subseteq disk.keys
        /\ lock = "free"
        /\ code = (IF received THEN "signal" ELSE "0")

(* The wait for the backup is for an engine at work: it does not go on,    *)
(* into its timeout, when the engine has ended its work since the operation*)
(* began, however its last report falls between the answer to the status   *)
(* question and the listener.  An engine that rested before and was given  *)
(* nothing to do reports no more, and the wait for it is in vain, although *)
(* storage.ts says "Keep the latest value so a command that starts after   *)
(* the engine already reached zero does not wait": hence "worked".         *)
WaitsForWork == pc = "waiting" /\ worked => engine

(* A command replaces only what is its own: crypto.snapshot while it has   *)
(* the lock, not by an export that its deadline has left behind, and never *)
(* a file that somebody else has put where a download goes.                *)
WrittenUnderLock == [][disk' # disk => lock = "held"]_vars
DestinationUntouched == [][dest = "other" => dest' # "downloaded"]_vars
WritesItsOwn == WrittenUnderLock /\ DestinationUntouched

(* Whatever operation, clean-up or write fails or hangs, the lock is given *)
(* back (or its owner is killed, which ProfileLock recovers from).         *)
LockReleased == lock = "held" ~> lock # "held"

(* The program never waits, without a deadline, for somebody else while    *)
(* other commands wait for its lock: it always has a step of its own.      *)
NeverStuck == lock = "held" => ENABLED <<Program>>_vars

(* storage.ts: "the command must not report success while a key may still  *)
(* be missing from the server-side backup".  It does; see the finding of   *)
(* run storage_backup.                                                     *)
BackupBeforeReport ==
    pc = "idle" /\ said = "result" /\ cmd \in MakesSessions /\ recovery => made \subseteq backup

=============================================================================
