----------------------------- MODULE ProfileLock -----------------------------
(***************************************************************************)
(* The exclusive lock of a CLI profile directory: acquireProfileLock, the  *)
(* release closure it returns and restoreLockWithoutReplacement, all in    *)
(* cli/src/profile.ts.                                                     *)
(*                                                                         *)
(* A process stands for one run of the CLI that takes the lock once.  One  *)
(* system call on the shared directory is one action; what a process does  *)
(* between two calls is local.  A lock file is named by the process that   *)
(* created it, because its contents (pid and random token) are unique to   *)
(* that process.  Pids are not reused: a reused pid only makes a dead      *)
(* owner look alive, which the code answers with "busy".                   *)
(*                                                                         *)
(* Every call may also fail (an I/O error, a lost permission), with none   *)
(* of the codes that the program expects of it: the actions ...Fails.      *)
(***************************************************************************)
EXTENDS FiniteSets, Naturals

CONSTANTS
    Procs,      \* the runs of the CLI that share the profile directory
    None        \* "no file at this name"

ASSUME NoneIsNoProcess == None \notin Procs

VARIABLES
    lock,       \* the file at .profile.lock: its creator, or None
    written,    \* creators whose file holds their pid and token; the others'
                \* files are still empty (or cut short)
    quarantine, \* the file each process has moved to a private name, or None
    seen,       \* the owner each process last read from .profile.lock
    pc,         \* the next system call of each process
    after,      \* where restoreLockWithoutReplacement returns to
    displaced,  \* history: creators whose file another process took off
                \* .profile.lock (no code reads it)
    errors      \* history: how many calls of each process have failed

vars == <<lock, written, quarantine, seen, pc, after, displaced, errors>>

(* A process that is not running: not started, or ended in one of the ways *)
(* acquireProfileLock and the command around it can end.                   *)
Ended == {"done", "busy", "invalid", "failed", "crashed"}
Steps == {"open", "read", "probe", "rename", "compare", "link", "drop",
          "write", "unlink", "held", "own", "released"}

Running(p) == pc[p] \in Steps
Holds(p)   == pc[p] = "held"

-----------------------------------------------------------------------------
Init ==
    /\ lock = None
    /\ written = {}
    /\ quarantine = [p \in Procs |-> None]
    /\ seen = [p \in Procs |-> None]
    /\ pc = [p \in Procs |-> "idle"]
    /\ after = [p \in Procs |-> "open"]
    /\ displaced = {}
    /\ errors = [p \in Procs |-> 0]

GoTo(p, step) == pc' = [pc EXCEPT ![p] = step]

(* p takes whatever file is at .profile.lock off that name.                *)
TakesOff(p) ==
    /\ lock' = None
    /\ displaced' = displaced \union ({lock} \ {p, None})

(* rename(.profile.lock, a fresh private name).                            *)
MovesAside(p) ==
    /\ TakesOff(p)
    /\ quarantine' = [quarantine EXCEPT ![p] = lock]

(* restoreLockWithoutReplacement is called; it returns to the step "next". *)
Restores(p, next) ==
    /\ GoTo(p, "link")
    /\ after' = [after EXCEPT ![p] = next]
    /\ UNCHANGED <<lock, written, quarantine, seen, displaced>>

(* A call of p fails; no file is changed by it.                            *)
Errs(p) ==
    /\ errors' = [errors EXCEPT ![p] = @ + 1]
    /\ UNCHANGED <<lock, quarantine, seen, displaced>>

-----------------------------------------------------------------------------
(* Faulty variants of steps below, each a plausible mistake in the code.   *)
(* They are not part of the specification: each one, put in the place of   *)
(* the step, breaks a property.                                            *)

\* Open without O_EXCL.
Open_NotExclusive(p) ==
    /\ pc[p] = "open"
    /\ lock' = p
    /\ GoTo(p, "write")
    /\ UNCHANGED <<written, quarantine, seen, after, displaced, errors>>

\* WriteFails without the rmSync of the empty file.
WriteFails_KeepsFile(p) ==
    /\ pc[p] = "write"
    /\ GoTo(p, "failed")
    /\ Errs(p)
    /\ UNCHANGED <<written, after>>

\* ReadOwner without "if (!owner) continue".
ReadOwner_NoNullCheck(p) ==
    /\ pc[p] = "read"
    /\ \/ lock \notin written \union {None} /\ GoTo(p, "invalid") /\ UNCHANGED seen
       \/ lock \in written \union {None} /\ GoTo(p, "probe") /\ seen' = [seen EXCEPT ![p] = lock]
    /\ UNCHANGED <<lock, written, quarantine, after, displaced, errors>>

\* ProbeOwner that takes the answer of a live owner for ESRCH.
ProbeOwner_StealsLive(p) ==
    /\ pc[p] = "probe"
    /\ GoTo(p, "rename")
    /\ UNCHANGED <<lock, written, quarantine, seen, after, displaced, errors>>

\* ProbeOwner that waits for a live owner instead of reporting "busy".
ProbeOwner_Waits(p) ==
    /\ pc[p] = "probe"
    /\ GoTo(p, IF Running(seen[p]) THEN "open" ELSE "rename")
    /\ UNCHANGED <<lock, written, quarantine, seen, after, displaced, errors>>

\* DiscardStale with the comparison the wrong way round.
DiscardStale_PutsBack(p) ==
    /\ pc[p] = "compare"
    /\ quarantine[p] = seen[p]
    /\ Restores(p, "open")
    /\ UNCHANGED errors

\* RestoreOther without the comparison: every quarantined file is removed.
RestoreOther_Discards(p) ==
    /\ pc[p] = "compare"
    /\ quarantine[p] # seen[p]
    /\ quarantine' = [quarantine EXCEPT ![p] = None]
    /\ GoTo(p, "open")
    /\ UNCHANGED <<lock, written, seen, after, displaced, errors>>

\* LinkBack that waits until the name is free.
LinkBack_WaitsForName(p) ==
    /\ pc[p] = "link"
    /\ lock = None /\ lock' = quarantine[p]
    /\ GoTo(p, "drop")
    /\ UNCHANGED <<written, quarantine, seen, after, displaced, errors>>

\* RecoveryFails without the catch clause around the recovery.
RecoveryFails_NotPutBack(p) ==
    /\ \/ pc[p] = "compare"
       \/ pc[p] \in {"link", "drop"} /\ after[p] = "open"
    /\ GoTo(p, "failed")
    /\ Errs(p)
    /\ UNCHANGED <<written, after>>

-----------------------------------------------------------------------------
Start(p) ==
    /\ pc[p] = "idle"
    /\ GoTo(p, "open")
    /\ UNCHANGED <<lock, written, quarantine, seen, after, displaced, errors>>

(* open(O_CREAT|O_EXCL): creates the file, or EEXIST sends p to read it.   *)
Open(p) ==
    /\ pc[p] = "open"
    /\ \/ lock = None /\ lock' = p /\ GoTo(p, "write")
       \/ lock # None /\ GoTo(p, "read") /\ UNCHANGED lock
    /\ UNCHANGED <<written, quarantine, seen, after, displaced, errors>>

WriteOwner(p) ==
    /\ pc[p] = "write"
    /\ written' = written \union {p}
    /\ GoTo(p, "held")
    /\ UNCHANGED <<lock, quarantine, seen, after, displaced, errors>>

(* rmSync(lockPath, force) removes the name, whoever's file is there.      *)
Unlink(p) ==
    /\ pc[p] = "unlink"
    /\ TakesOff(p)
    /\ GoTo(p, "failed")
    /\ UNCHANGED <<written, quarantine, seen, after, errors>>

(* The file is gone: try again.  It has no parsable owner: give up.        *)
ReadOwner(p) ==
    /\ pc[p] = "read"
    /\ \/ lock = None /\ GoTo(p, "open") /\ UNCHANGED seen
       \/ lock # None /\ lock \notin written /\ GoTo(p, "invalid") /\ UNCHANGED seen
       \/ lock \in written /\ GoTo(p, "probe") /\ seen' = [seen EXCEPT ![p] = lock]
    /\ UNCHANGED <<lock, written, quarantine, after, displaced, errors>>

(* kill(pid, 0): the owner runs, or ESRCH.                                 *)
ProbeOwner(p) ==
    /\ pc[p] = "probe"
    /\ GoTo(p, IF Running(seen[p]) THEN "busy" ELSE "rename")
    /\ UNCHANGED <<lock, written, quarantine, seen, after, displaced, errors>>

QuarantineLock(p) ==
    /\ pc[p] = "rename"
    /\ \/ lock = None /\ GoTo(p, "open") /\ UNCHANGED <<lock, quarantine, displaced>>
       \/ lock # None /\ MovesAside(p) /\ GoTo(p, "compare")
    /\ UNCHANGED <<written, seen, after, errors>>

(* The moved file is the one that was read: it is removed.                 *)
DiscardStale(p) ==
    /\ pc[p] = "compare"
    /\ quarantine[p] = seen[p]
    /\ quarantine' = [quarantine EXCEPT ![p] = None]
    /\ GoTo(p, "open")
    /\ UNCHANGED <<lock, written, seen, after, displaced, errors>>

(* The moved file is another one: it is put back and p tries again.        *)
RestoreOther(p) ==
    /\ pc[p] = "compare"
    /\ quarantine[p] # seen[p]
    /\ Restores(p, "open")
    /\ UNCHANGED errors

(* link(private name, .profile.lock): fails with EEXIST if a file is there.*)
LinkBack(p) ==
    /\ pc[p] = "link"
    /\ lock' = IF lock = None THEN quarantine[p] ELSE lock
    /\ GoTo(p, "drop")
    /\ UNCHANGED <<written, quarantine, seen, after, displaced, errors>>

(* rmSync(private name), after the link and after EEXIST alike.            *)
DropCopy(p) ==
    /\ pc[p] = "drop"
    /\ quarantine' = [quarantine EXCEPT ![p] = None]
    /\ GoTo(p, after[p])
    /\ UNCHANGED <<lock, written, seen, after, displaced, errors>>

(* release(): moves the lock aside, or finds it gone.                      *)
Release(p) ==
    /\ pc[p] = "held"
    /\ \/ lock = None /\ GoTo(p, "released") /\ UNCHANGED <<lock, quarantine, displaced>>
       \/ lock # None /\ MovesAside(p) /\ GoTo(p, "own")
    /\ UNCHANGED <<written, seen, after, errors>>

RemoveOwn(p) ==
    /\ pc[p] = "own"
    /\ quarantine[p] = p
    /\ quarantine' = [quarantine EXCEPT ![p] = None]
    /\ GoTo(p, "released")
    /\ UNCHANGED <<lock, written, seen, after, displaced, errors>>

GiveBack(p) ==
    /\ pc[p] = "own"
    /\ quarantine[p] # p
    /\ Restores(p, "released")
    /\ UNCHANGED errors

(* The exclusive create, the read, the probe or the rename throws: nothing *)
(* of p is at any name.                                                    *)
AttemptFails(p) ==
    /\ pc[p] \in {"open", "read", "probe", "rename"}
    /\ GoTo(p, "failed")
    /\ Errs(p)
    /\ UNCHANGED <<written, after>>

(* The write, or the close after it, fails: the file is to be removed.     *)
WriteFails(p) ==
    /\ pc[p] = "write"
    /\ written' \in {written, written \union {p}}
    /\ GoTo(p, "unlink")
    /\ Errs(p)
    /\ UNCHANGED after

(* So does the close before that removal, or the removal: the file stays.  *)
UnlinkFails(p) ==
    /\ pc[p] = "unlink"
    /\ GoTo(p, "failed")
    /\ Errs(p)
    /\ UNCHANGED <<written, after>>

(* The moved file cannot be read, removed or put back: the catch clause    *)
(* tries to put it back, whosever it is, and rethrows.                     *)
RecoveryFails(p) ==
    /\ \/ pc[p] = "compare"
       \/ pc[p] \in {"link", "drop"} /\ after[p] = "open"
    /\ GoTo(p, "link")
    /\ after' = [after EXCEPT ![p] = "failed"]
    /\ Errs(p)
    /\ UNCHANGED written

(* That fails too, which is swallowed; or a call of release() fails, which *)
(* throws.  The file stays where it is, under a private name perhaps.      *)
LeavesFile(p) ==
    /\ \/ pc[p] \in {"held", "own"} /\ GoTo(p, "released")
       \/ pc[p] \in {"link", "drop"} /\ after[p] # "open" /\ GoTo(p, after[p])
    /\ Errs(p)
    /\ UNCHANGED <<written, after>>

(* The command ends; until now its pid answered a probe.                   *)
Exit(p) ==
    /\ pc[p] = "released"
    /\ GoTo(p, "done")
    /\ UNCHANGED <<lock, written, quarantine, seen, after, displaced, errors>>

(* The process is killed between two calls; its files stay.                *)
Crash(p) ==
    /\ Running(p)
    /\ GoTo(p, "crashed")
    /\ UNCHANGED <<lock, written, quarantine, seen, after, displaced, errors>>

-----------------------------------------------------------------------------
(* The calls of one acquisition, which the code makes without waiting, as  *)
(* far as they do not fail.                                                *)
Acquire(p) ==
    \/ Open(p) \/ WriteOwner(p) \/ Unlink(p)
    \/ ReadOwner(p) \/ ProbeOwner(p) \/ QuarantineLock(p)
    \/ DiscardStale(p) \/ RestoreOther(p) \/ LinkBack(p) \/ DropCopy(p)

Fails(p) ==
    \/ AttemptFails(p) \/ WriteFails(p) \/ UnlinkFails(p)
    \/ RecoveryFails(p) \/ LeavesFile(p)

Next ==
    \E p \in Procs :
        \/ Start(p) \/ Acquire(p)
        \/ Release(p) \/ RemoveOwn(p) \/ GiveBack(p) \/ Exit(p)
        \/ Fails(p) \/ Crash(p)

Spec == Init /\ [][Next]_vars

(* The operating system keeps running a process that has system calls to   *)
(* make.  Nothing makes a command start, end or die.                       *)
KeepsRunning(p) == WF_vars(Acquire(p))
FairSpec == Spec /\ \A p \in Procs : KeepsRunning(p)

-----------------------------------------------------------------------------
(* Every variable keeps its type, and the owner a process probes is one.   *)
TypeOK ==
    /\ lock \in Procs \union {None}
    /\ written \subseteq Procs
    /\ quarantine \in [Procs -> Procs \union {None}]
    /\ seen \in [Procs -> Procs \union {None}]
    /\ pc \in [Procs -> Steps \union Ended \union {"idle"}]
    /\ after \in [Procs -> {"open", "failed", "released"}]
    /\ displaced \subseteq Procs
    /\ errors \in [Procs -> 0..2]
    /\ \A p \in Procs : pc[p] \in {"probe", "rename", "compare"} => seen[p] \in Procs

(* What the code's comment promises ("a live owner's lock is never         *)
(* stolen"), CLI.md too: two commands never hold the profile together.     *)
(* The code does not keep it; see the finding of run lock_exclusion.       *)
MutualExclusion ==
    \A p, q \in Procs : Holds(p) /\ Holds(q) => p = q

(* What the code does keep: two commands hold the profile together only    *)
(* after some process moved the lock of one of them off .profile.lock.     *)
ExclusiveUnlessDisplaced ==
    \A p, q \in Procs :
        Holds(p) /\ Holds(q) /\ p \notin displaced /\ q \notin displaced => p = q

(* Only stale-lock recovery starts that: the first process to take another *)
(* one's file off .profile.lock has found the owner it read dead (and the  *)
(* file replaced since).  Any other one has lost its own lock before.      *)
DisplacedByRecoveryOnly ==
    [][\A q \in displaced' \ displaced :
         \E p \in Procs \ {q} :
            \/ pc[p] = "rename" /\ ~Running(seen[p]) /\ pc'[p] = "compare"
            \/ p \in displaced /\ pc[p] \in {"held", "unlink"} /\ pc'[p] # pc[p]
      ]_vars

(* A lock file is kept while it is at .profile.lock or in a quarantine     *)
(* from which it is not about to be removed after a try to put it back.    *)
Kept(q) ==
    lock = q \/ \E p \in Procs : quarantine[p] = q /\ pc[p] # "drop"

(* A file taken by mistake is put back unless the name is taken again:     *)
(* the file of a command that holds the lock is lost only by its own       *)
(* release, or when another command's lock is at .profile.lock, or to the  *)
(* clean-up after a failed write of a process that lost its file before.   *)
LostOnlyToNewOwner ==
    [][\A q \in Procs :
         Holds(q) /\ Kept(q) /\ ~Kept(q)' =>
            \/ pc'[q] # "held"
            \/ lock \in Procs \ {q} /\ lock' = lock
            \/ \E p \in displaced \ {q} : pc[p] = "unlink" /\ pc'[p] = "failed"
      ]_vars

(* A quarantined file makes assertFreshProfileUnlocked refuse the profile. *)
(* A command that is not killed leaves one only if its calls fail: one     *)
(* call is not enough in an acquisition, whose catch clause puts the file  *)
(* back, whatever call of the recovery failed; one is in a release.        *)
QuarantineNeedsErrors ==
    \A p \in Procs :
        pc[p] \in Ended \ {"crashed"} /\ quarantine[p] # None =>
            errors[p] >= IF pc[p] = "done" THEN 1 ELSE 2

(* What the comment promises of dead owners: a lock file that nobody alive *)
(* is about to fill names an owner that can be probed.  The code does not  *)
(* keep it; see the finding of run lock_recoverable.                       *)
DeadLockRecoverable ==
    lock # None /\ ~Running(lock) => lock \in written

(* What the code does keep: an ownerless file stays at .profile.lock only  *)
(* if its creator was killed before the write, if both its write and the   *)
(* removal failed, or if it was taken off and put back around the clean-up.*)
OwnerlessOnlyByFault ==
    lock # None /\ lock \notin written =>
        \/ pc[lock] \in {"write", "unlink", "crashed"}
        \/ pc[lock] = "failed" /\ errors[lock] = 2
        \/ lock \in displaced

(* An acquisition has a next call at every point, whatever the others do:  *)
(* no call of it waits for another command.                                *)
AcquisitionGoesOn ==
    \A p \in Procs :
        pc[p] \in Steps \ {"held", "own", "released"} => ENABLED <<Acquire(p)>>_vars

(* The files of dead owners that are at .profile.lock or about to be put   *)
(* back there; a file about to be removed as stale is not one of them.     *)
DeadFiles ==
    {q \in Procs : ~Running(q) /\
        \/ lock = q
        \/ \E p \in Procs : Running(p) /\ quarantine[p] = q /\ seen[p] # q}

(* An attempt does not loop while one dead lock file is about at a time:   *)
(* the command gets the lock, reports busy or invalid, fails, or is        *)
(* killed.  With two of them recoverers can go on putting one back in the  *)
(* place of the other.                                                     *)
AttemptEnds ==
    \A p \in Procs :
        pc[p] = "open" ~> pc[p] \in {"held"} \union Ended \/ Cardinality(DeadFiles) > 1

(* A bound on the system calls of the lock that p still makes, unless      *)
(* another process changes .profile.lock.                                  *)
CallsLeft(p) ==
    LET retry == IF lock = None THEN 7 ELSE 12
    IN  CASE pc[p] = "open"    -> retry
          [] pc[p] = "read"    -> IF lock = None THEN 8 ELSE 11
          [] pc[p] = "probe"   -> IF lock = None THEN 9 ELSE IF lock = seen[p] THEN 10 ELSE 17
          [] pc[p] = "rename"  -> IF lock = None THEN 8 ELSE IF lock = seen[p] THEN 9 ELSE 16
          [] pc[p] = "compare" -> IF quarantine[p] = seen[p] THEN 1 + retry ELSE 15
          [] pc[p] = "link"    -> IF after[p] = "open" THEN 14 ELSE 3
          [] pc[p] = "drop"    -> IF after[p] = "open" THEN 1 + retry ELSE 2
          [] pc[p] = "write"   -> 6
          [] pc[p] = "held"    -> 5
          [] pc[p] = "own"     -> 4
          [] pc[p] \in {"unlink", "released"} -> 1
          [] OTHER -> 0

(* What bounds the loop of an acquisition for any number of commands: each *)
(* call brings a started command nearer to its end, and only a call of     *)
(* another one that changes .profile.lock can set it back.  A command that *)
(* nobody disturbs is through after 12 calls from its first one.           *)
SetBackByOthersOnly ==
    [][\A p \in Procs :
         IF pc'[p] # pc[p] THEN pc[p] = "idle" \/ CallsLeft(p)' < CallsLeft(p)
                           ELSE CallsLeft(p)' > CallsLeft(p) => lock' # lock
      ]_vars

(* The lock of a dead owner does not block the next command: one that runs *)
(* alone removes it and gets the lock.                                     *)
Alone(p) == \A q \in Procs \ {p} : ~Running(q)
DeadLockRecovered ==
    \A p \in Procs :
        pc[p] = "open" /\ Alone(p) /\ lock \in written
            ~> pc[p] \in {"held", "failed", "crashed"} \/ ~Alone(p)

(* A command that runs alone is refused the lock only for an ownerless     *)
(* file whose creator was killed, could not remove it, or lost it before   *)
(* its clean-up.                                                           *)
AloneRefusedByFaultOnly ==
    [][\A p \in Procs :
         Alone(p) /\ pc'[p] # pc[p] /\ pc'[p] \in {"busy", "invalid"} =>
            /\ lock \in Procs \ written
            /\ pc[lock] = "crashed" \/ errors[lock] = 2 \/ lock \in displaced
      ]_vars

=============================================================================
