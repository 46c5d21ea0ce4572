-------------------------- MODULE ProfileLockProofs --------------------------
(* Theorems of ProfileLock for every set of processes: the safety          *)
(* properties its runs check, where the two documented promises hold that  *)
(* its other runs refute, and the end of acquisitions and recoveries.      *)
EXTENDS ProfileLock, TLAPS

(* p has passed its exclusive create (or was killed).                      *)
HasCreated(p) ==
    \/ pc[p] \in {"write", "unlink", "held", "own", "released"} \union (Ended \ {"busy", "invalid"})
    \/ pc[p] \in {"link", "drop"} /\ after[p] = "released"

(* Only a process that has created a file can have one anywhere.           *)
FilesHaveCreators ==
    /\ lock # None => HasCreated(lock)
    /\ \A p \in Procs : quarantine[p] # None => HasCreated(quarantine[p])

(* A process that has not been moved aside is the owner of .profile.lock.  *)
OwnsUnlessDisplaced ==
    \A p \in Procs :
        pc[p] \in {"write", "unlink", "held"} /\ p \notin displaced => lock = p

(* The owner p has read has existed, and is dead once p has probed it.     *)
SeenIsDead ==
    \A p \in Procs :
        /\ pc[p] \in {"probe", "rename", "compare"} =>
              seen[p] \in Procs /\ HasCreated(seen[p])
        /\ pc[p] \in {"rename", "compare"} => ~Running(seen[p])

(* What a quarantine holds, and when.                                      *)
QuarantineUse ==
    \A p \in Procs : quarantine[p] # None =>
        /\ \/ pc[p] \in {"compare", "own", "link", "drop", "crashed"}
           \/ pc[p] = "failed" /\ errors[p] = 2
           \/ pc[p] \in {"released", "done"} /\ errors[p] = 1
        /\ quarantine[p] # p => quarantine[p] \in displaced
        /\ quarantine[p] = p => p \in written

(* How many calls of a process have failed at each of its steps.           *)
ErrorsSoFar ==
    \A p \in Procs :
        /\ pc[p] \in {"idle", "open", "read", "probe", "rename", "compare", "write", "held",
                     "own", "busy", "invalid"} => errors[p] = 0
        /\ pc[p] = "unlink" => errors[p] = 1
        /\ pc[p] \in {"link", "drop"} => errors[p] = IF after[p] = "failed" THEN 1 ELSE 0
        /\ pc[p] \in {"released", "done"} => errors[p] <= 1

HolderHasWritten ==
    \A p \in Procs : Holds(p) => p \in written

(* The inductive invariant.                                                *)
IInv ==
    /\ TypeOK
    /\ FilesHaveCreators
    /\ OwnsUnlessDisplaced
    /\ SeenIsDead
    /\ QuarantineUse
    /\ ErrorsSoFar
    /\ HolderHasWritten
    /\ OwnerlessOnlyByFault
-----------------------------------------------------------------------------
USE NoneIsNoProcess DEF Steps, Ended

(* The initial state satisfies the inductive invariant.                    *)
LEMMA InitInvariant == Init => IInv
BY DEF Init, IInv, TypeOK, FilesHaveCreators, OwnsUnlessDisplaced, SeenIsDead,
     QuarantineUse, ErrorsSoFar, HolderHasWritten, OwnerlessOnlyByFault, HasCreated,
     Holds

(* Every step of the lock code, and every crash, preserves it.             *)
LEMMA StepInvariant == IInv /\ [Next]_vars => IInv'
<1> SUFFICES ASSUME IInv, [Next]_vars PROVE IInv'
  OBVIOUS
<1> USE DEF IInv, TypeOK, FilesHaveCreators, OwnsUnlessDisplaced, SeenIsDead,
            QuarantineUse, ErrorsSoFar, HolderHasWritten, OwnerlessOnlyByFault, HasCreated,
            Running, Holds, GoTo
<1>1. ASSUME NEW p \in Procs, Start(p) PROVE IInv'
  BY <1>1 DEF Start
<1>2. ASSUME NEW p \in Procs, Open(p) PROVE IInv'
  BY <1>2 DEF Open
<1>3. ASSUME NEW p \in Procs, WriteOwner(p) PROVE IInv'
  BY <1>3 DEF WriteOwner
<1>4. ASSUME NEW p \in Procs, Fails(p) PROVE IInv'
  <2> USE DEF Errs
  <2>1. CASE AttemptFails(p)
    BY <2>1 DEF AttemptFails
  <2>2. CASE WriteFails(p)
    BY <2>2 DEF WriteFails
  <2>3. CASE UnlinkFails(p)
    BY <2>3 DEF UnlinkFails
  <2>4. CASE RecoveryFails(p)
    BY <2>4 DEF RecoveryFails
  <2>5. CASE LeavesFile(p)
    BY <2>5 DEF LeavesFile
  <2> QED
    BY <1>4, <2>1, <2>2, <2>3, <2>4, <2>5 DEF Fails
<1>5. ASSUME NEW p \in Procs, Unlink(p) PROVE IInv'
  BY <1>5 DEF Unlink, TakesOff
<1>6. ASSUME NEW p \in Procs, ReadOwner(p) PROVE IInv'
  BY <1>6 DEF ReadOwner
<1>7. ASSUME NEW p \in Procs, ProbeOwner(p) PROVE IInv'
  BY <1>7 DEF ProbeOwner
<1>8. ASSUME NEW p \in Procs, QuarantineLock(p) PROVE IInv'
  BY <1>8 DEF QuarantineLock, MovesAside, TakesOff
<1>9. ASSUME NEW p \in Procs, DiscardStale(p) PROVE IInv'
  BY <1>9 DEF DiscardStale
<1>11. ASSUME NEW p \in Procs, RestoreOther(p) PROVE IInv'
  BY <1>11 DEF RestoreOther, Restores
<1>12. ASSUME NEW p \in Procs, LinkBack(p) PROVE IInv'
  BY <1>12 DEF LinkBack
<1>13. ASSUME NEW p \in Procs, DropCopy(p) PROVE IInv'
  BY <1>13 DEF DropCopy
<1>14. ASSUME NEW p \in Procs, Release(p) PROVE IInv'
  BY <1>14 DEF Release, MovesAside, TakesOff
<1>15. ASSUME NEW p \in Procs, RemoveOwn(p) PROVE IInv'
  BY <1>15 DEF RemoveOwn
<1>16. ASSUME NEW p \in Procs, GiveBack(p) PROVE IInv'
  BY <1>16 DEF GiveBack, Restores
<1>17. ASSUME NEW p \in Procs, Exit(p) PROVE IInv'
  BY <1>17 DEF Exit
<1>18. ASSUME NEW p \in Procs, Crash(p) PROVE IInv'
  BY <1>18 DEF Crash
<1>19. CASE UNCHANGED vars
  BY <1>19 DEF vars
<1> QED
  BY <1>1, <1>2, <1>3, <1>4, <1>5, <1>6, <1>7, <1>8, <1>9, <1>11, <1>12,
     <1>13, <1>14, <1>15, <1>16, <1>17, <1>18, <1>19 DEF Next, Acquire
(* IInv holds in every reachable state.                                    *)
LEMMA Invariant == Spec => []IInv
<1>1. Init => IInv
  BY InitInvariant
<1>2. IInv /\ [Next]_vars => IInv'
  BY StepInvariant
<1> QED
  BY <1>1, <1>2, PTL DEF Spec

-----------------------------------------------------------------------------
(* Every variable of the lock keeps its type.                              *)
THEOREM TypeCorrect == Spec => []TypeOK
<1>1. IInv => TypeOK
  BY DEF IInv
<1> QED
  BY <1>1, Invariant, PTL

(* For any number of commands: two hold the profile together only after    *)
(* one of them had its lock file moved by another process.                 *)
THEOREM Exclusion == Spec => []ExclusiveUnlessDisplaced
<1>1. IInv => ExclusiveUnlessDisplaced
  BY DEF IInv, OwnsUnlessDisplaced, ExclusiveUnlessDisplaced, Holds
<1> QED
  BY <1>1, Invariant, PTL

(* For any number of commands: an acquisition that is not killed leaves a  *)
(* quarantined lock file only if two of its calls have failed, a release   *)
(* only if one has.                                                        *)
THEOREM CleanQuarantine == Spec => []QuarantineNeedsErrors
<1>1. IInv => QuarantineNeedsErrors
  BY DEF IInv, QuarantineUse, QuarantineNeedsErrors
<1> QED
  BY <1>1, Invariant, PTL

(* For any number of commands: an ownerless lock file stays only if its    *)
(* creator was killed, failed to write and to remove it, or lost it to     *)
(* another process' rename or removal and had it put back.                 *)
THEOREM Ownerless == Spec => []OwnerlessOnlyByFault
<1>1. IInv => OwnerlessOnlyByFault
  BY DEF IInv
<1> QED
  BY <1>1, Invariant, PTL

(* What a step of p does to another process' file.  Every action that      *)
(* takes a file off .profile.lock is one of QuarantineLock, Release and    *)
(* Unlink; the other two find their own file there unless displaced.       *)
LEMMA DisplacingStep ==
    ASSUME IInv, NEW p \in Procs, NEW q \in displaced' \ displaced,
           Start(p) \/ Acquire(p) \/ Release(p) \/ RemoveOwn(p) \/ GiveBack(p)
             \/ Exit(p) \/ Fails(p) \/ Crash(p)
    PROVE  /\ p # q
           /\ \/ pc[p] = "rename" /\ ~Running(seen[p]) /\ pc'[p] = "compare"
              \/ p \in displaced /\ pc[p] \in {"held", "unlink"} /\ pc'[p] # pc[p]
<1> USE DEF IInv, TypeOK, GoTo, TakesOff, MovesAside
<1>1. CASE QuarantineLock(p)
  BY <1>1 DEF QuarantineLock, SeenIsDead
<1>2. CASE Release(p)
  BY <1>2 DEF Release, OwnsUnlessDisplaced
<1>3. CASE Unlink(p)
  BY <1>3 DEF Unlink, OwnsUnlessDisplaced
<1>4. ASSUME displaced' = displaced PROVE FALSE
  BY <1>4
<1> QED
  BY <1>1, <1>2, <1>3, <1>4 DEF Acquire, Start, Open, WriteOwner, Fails, AttemptFails,
       WriteFails, UnlinkFails, RecoveryFails, LeavesFile, Errs, ReadOwner, ProbeOwner,
       DiscardStale, RestoreOther, Restores, LinkBack, DropCopy, RemoveOwn, GiveBack,
       Exit, Crash

(* Only stale-lock recovery starts a displacement, in every execution.     *)
THEOREM Displacement == Spec => DisplacedByRecoveryOnly
<1> DEFINE Allowed(p) ==
      \/ pc[p] = "rename" /\ ~Running(seen[p]) /\ pc'[p] = "compare"
      \/ p \in displaced /\ pc[p] \in {"held", "unlink"} /\ pc'[p] # pc[p]
<1> DEFINE A == \A q \in displaced' \ displaced : \E p \in Procs \ {q} : Allowed(p)
<1>1. IInv /\ [Next]_vars => [A]_vars
  <2> SUFFICES ASSUME IInv, [Next]_vars, NEW q \in displaced' \ displaced
               PROVE  \E p \in Procs \ {q} : Allowed(p)
    OBVIOUS
  <2>1. CASE UNCHANGED vars
    BY <2>1 DEF vars
  <2>2. CASE Next
    <3>1. PICK p \in Procs :
            Start(p) \/ Acquire(p) \/ Release(p) \/ RemoveOwn(p) \/ GiveBack(p)
              \/ Exit(p) \/ Fails(p) \/ Crash(p)
      BY <2>2 DEF Next
    <3>2. p # q /\ Allowed(p)
      BY <3>1, DisplacingStep
    <3> QED
      BY <3>2
  <2> QED
    BY <2>1, <2>2
<1> QED
  BY <1>1, Invariant, PTL DEF Spec, DisplacedByRecoveryOnly

-----------------------------------------------------------------------------
(* A step of p after which the file of q, who holds the lock, is lost.     *)
LEMMA LosingStep ==
    ASSUME IInv, NEW p \in Procs, NEW q \in Procs,
           Start(p) \/ Acquire(p) \/ Release(p) \/ RemoveOwn(p) \/ GiveBack(p)
             \/ Exit(p) \/ Fails(p) \/ Crash(p),
           Holds(q), Kept(q), ~Kept(q)'
    PROVE  \/ pc'[q] # "held"
           \/ lock \in Procs \ {q} /\ lock' = lock
           \/ q # p /\ p \in displaced /\ pc[p] = "unlink" /\ pc'[p] = "failed"
<1> USE DEF IInv, TypeOK, GoTo, TakesOff, MovesAside, Holds, Kept
<1>1. CASE lock' = lock /\ quarantine' = quarantine
  BY <1>1 DEF Acquire, Start, Open, WriteOwner, Fails, AttemptFails, WriteFails,
       UnlinkFails, RecoveryFails, LeavesFile, Errs, Unlink, ReadOwner, ProbeOwner,
       QuarantineLock, DiscardStale, RestoreOther, Restores, LinkBack, DropCopy,
       Release, RemoveOwn, GiveBack, Exit, Crash
<1>2. CASE Unlink(p)
  BY <1>2 DEF Unlink, OwnsUnlessDisplaced
<1>3. CASE QuarantineLock(p)
  BY <1>3 DEF QuarantineLock, QuarantineUse
<1>4. CASE Release(p)
  BY <1>4 DEF Release, QuarantineUse
<1>5. CASE DiscardStale(p)
  BY <1>5 DEF DiscardStale, SeenIsDead, Running
<1>6. CASE LinkBack(p)
  BY <1>6 DEF LinkBack
<1>7. CASE DropCopy(p)
  BY <1>7 DEF DropCopy
<1>8. CASE RemoveOwn(p)
  BY <1>8 DEF RemoveOwn
<1>9. CASE Open(p)
  BY <1>9 DEF Open
<1> QED
  BY <1>1, <1>2, <1>3, <1>4, <1>5, <1>6, <1>7, <1>8, <1>9 DEF Acquire, Start,
       WriteOwner, Fails, AttemptFails, WriteFails, UnlinkFails, RecoveryFails,
       LeavesFile, Errs, ReadOwner, ProbeOwner, RestoreOther, Restores, GiveBack, Exit,
       Crash

(* A lock file taken by mistake is lost only to a new owner, in every      *)
(* execution.                                                              *)
THEOREM NotLost == Spec => LostOnlyToNewOwner
<1> DEFINE Allowed(q) ==
      \/ pc'[q] # "held"
      \/ lock \in Procs \ {q} /\ lock' = lock
      \/ \E p \in displaced \ {q} : pc[p] = "unlink" /\ pc'[p] = "failed"
<1> DEFINE A == \A q \in Procs : Holds(q) /\ Kept(q) /\ ~Kept(q)' => Allowed(q)
<1>1. IInv /\ [Next]_vars => [A]_vars
  <2> SUFFICES ASSUME IInv, [Next]_vars, NEW q \in Procs,
                      Holds(q), Kept(q), ~Kept(q)'
               PROVE  Allowed(q)
    OBVIOUS
  <2>1. CASE UNCHANGED vars
    BY <2>1 DEF vars, Kept
  <2>2. CASE Next
    <3>1. PICK p \in Procs :
            Start(p) \/ Acquire(p) \/ Release(p) \/ RemoveOwn(p) \/ GiveBack(p)
              \/ Exit(p) \/ Fails(p) \/ Crash(p)
      BY <2>2 DEF Next
    <3>2. \/ pc'[q] # "held"
          \/ lock \in Procs \ {q} /\ lock' = lock
          \/ q # p /\ p \in displaced /\ pc[p] = "unlink" /\ pc'[p] = "failed"
      BY <3>1, LosingStep
    <3> QED
      BY <3>2
  <2> QED
    BY <2>1, <2>2
<1> QED
  BY <1>1, Invariant, PTL DEF Spec, LostOnlyToNewOwner

-----------------------------------------------------------------------------
(* Each call of a started command brings it nearer to its end.             *)
LEMMA OwnStep ==
    ASSUME IInv, NEW p \in Procs,
           Acquire(p) \/ Release(p) \/ RemoveOwn(p) \/ GiveBack(p) \/ Exit(p)
             \/ Fails(p) \/ Crash(p)
    PROVE  CallsLeft(p)' < CallsLeft(p)
<1> USE DEF IInv, TypeOK, GoTo, CallsLeft
<1>1. CASE Open(p)
  BY <1>1 DEF Open
<1>2. CASE WriteOwner(p) \/ Unlink(p)
  BY <1>2 DEF WriteOwner, Unlink, TakesOff
<1>3. CASE ReadOwner(p)
  BY <1>3 DEF ReadOwner
<1>4. CASE ProbeOwner(p)
  BY <1>4 DEF ProbeOwner
<1>5. CASE QuarantineLock(p)
  BY <1>5 DEF QuarantineLock, MovesAside, TakesOff
<1>6. CASE DiscardStale(p)
  BY <1>6 DEF DiscardStale
<1>7. CASE RestoreOther(p)
  BY <1>7 DEF RestoreOther, Restores
<1>8. CASE LinkBack(p)
  BY <1>8 DEF LinkBack
<1>9. CASE DropCopy(p)
  BY <1>9 DEF DropCopy
<1>10. CASE Release(p)
  BY <1>10 DEF Release, MovesAside, TakesOff
<1>11. CASE RemoveOwn(p) \/ GiveBack(p) \/ Exit(p)
  BY <1>11 DEF RemoveOwn, GiveBack, Restores, Exit
<1>12. CASE Crash(p)
  BY <1>12 DEF Crash, Running
<1>13. CASE Fails(p)
  BY <1>13 DEF Fails, AttemptFails, WriteFails, UnlinkFails, RecoveryFails, LeavesFile,
       Errs
<1> QED
  BY <1>1, <1>2, <1>3, <1>4, <1>5, <1>6, <1>7, <1>8, <1>9, <1>10, <1>11, <1>12, <1>13
     DEF Acquire

(* A step of q leaves what p has read and moved aside alone, and the place *)
(* where p is.                                                             *)
LEMMA OthersStep ==
    ASSUME IInv, NEW p \in Procs, NEW q \in Procs \ {p},
           Start(q) \/ Acquire(q) \/ Release(q) \/ RemoveOwn(q) \/ GiveBack(q)
             \/ Exit(q) \/ Fails(q) \/ Crash(q)
    PROVE  /\ pc'[p] = pc[p] /\ after'[p] = after[p]
           /\ lock' = lock => CallsLeft(p)' = CallsLeft(p)
<1>1. /\ pc'[p] = pc[p]
      /\ quarantine'[p] = quarantine[p]
      /\ seen'[p] = seen[p]
      /\ after'[p] = after[p]
  BY DEF IInv, TypeOK, GoTo, Acquire, Start, Open, WriteOwner, Fails, AttemptFails,
       WriteFails, UnlinkFails, RecoveryFails, LeavesFile, Errs, Unlink, ReadOwner,
       ProbeOwner, QuarantineLock, MovesAside, TakesOff, DiscardStale, RestoreOther,
       Restores, LinkBack, DropCopy, Release, RemoveOwn, GiveBack, Exit, Crash
<1> QED
  BY <1>1 DEF CallsLeft

(* For any number of commands: an acquisition goes on only while others    *)
(* change .profile.lock under it, in every execution.                      *)
THEOREM SetBack == Spec => SetBackByOthersOnly
<1> DEFINE A == \A p \in Procs :
      IF pc'[p] # pc[p] THEN pc[p] = "idle" \/ CallsLeft(p)' < CallsLeft(p)
                        ELSE CallsLeft(p)' > CallsLeft(p) => lock' # lock
<1>1. IInv /\ [Next]_vars => [A]_vars
  <2> SUFFICES ASSUME IInv, Next, NEW p \in Procs
               PROVE  IF pc'[p] # pc[p]
                      THEN pc[p] = "idle" \/ CallsLeft(p)' < CallsLeft(p)
                      ELSE CallsLeft(p)' > CallsLeft(p) => lock' # lock
    OBVIOUS
  <2>1. PICK q \in Procs :
            Start(q) \/ Acquire(q) \/ Release(q) \/ RemoveOwn(q) \/ GiveBack(q)
              \/ Exit(q) \/ Fails(q) \/ Crash(q)
    BY DEF Next
  <2>2. CallsLeft(p) \in Nat
    BY DEF CallsLeft
  <2>3. CallsLeft(p)' \in Nat
    BY DEF CallsLeft
  <2>4. CASE q # p
    BY <2>1, <2>2, <2>3, <2>4, OthersStep
  <2>5. CASE q = p /\ Start(p)
    BY <2>5 DEF Start, GoTo, IInv, TypeOK
  <2>6. CASE q = p /\ ~Start(p)
    BY <2>1, <2>2, <2>3, <2>6, OwnStep
  <2> QED
    BY <2>4, <2>5, <2>6
<1> QED
  BY <1>1, Invariant, PTL DEF Spec, SetBackByOthersOnly

(* A command that runs alone is never told that the profile is busy, and   *)
(* told that the lock is invalid only after a kill, two failures or a      *)
(* displacement.                                                           *)
THEOREM AloneNotRefused == Spec => AloneRefusedByFaultOnly
<1> DEFINE A == \A p \in Procs :
      Alone(p) /\ pc'[p] # pc[p] /\ pc'[p] \in {"busy", "invalid"} =>
         /\ lock \in Procs \ written
         /\ pc[lock] = "crashed" \/ errors[lock] = 2 \/ lock \in displaced
<1>1. IInv /\ [Next]_vars => [A]_vars
  <2> SUFFICES ASSUME IInv, Next, NEW p \in Procs, Alone(p),
                      pc'[p] # pc[p], pc'[p] \in {"busy", "invalid"}
               PROVE  /\ lock \in Procs \ written
                      /\ pc[lock] = "crashed" \/ errors[lock] = 2 \/ lock \in displaced
    OBVIOUS
  <2>1. PICK q \in Procs :
            Start(q) \/ Acquire(q) \/ Release(q) \/ RemoveOwn(q) \/ GiveBack(q)
              \/ Exit(q) \/ Fails(q) \/ Crash(q)
    BY DEF Next
  <2>2. q = p
    BY <2>1, OthersStep
  <2>3. ReadOwner(p) \/ ProbeOwner(p)
    BY <2>1, <2>2 DEF IInv, TypeOK, GoTo, Acquire, Start, Open, WriteOwner, Fails,
         AttemptFails, WriteFails, UnlinkFails, RecoveryFails, LeavesFile, Errs, Unlink,
         QuarantineLock, DiscardStale, RestoreOther, Restores, LinkBack, DropCopy,
         Release, RemoveOwn, GiveBack, Exit, Crash
  <2>4. CASE ProbeOwner(p)
    BY <2>4 DEF ProbeOwner, GoTo, IInv, TypeOK, SeenIsDead, HasCreated, Alone
  <2>5. CASE ReadOwner(p)
    <3>1. lock \in Procs \ written /\ pc[p] = "read"
      BY <2>5 DEF ReadOwner, GoTo, IInv, TypeOK
    <3>2. lock # p
      BY <3>1 DEF IInv, FilesHaveCreators, HasCreated
    <3>3. pc[lock] \notin {"write", "unlink"}
      BY <3>1, <3>2 DEF Alone, Running
    <3> QED
      BY <3>1, <3>3 DEF IInv, OwnerlessOnlyByFault
  <2> QED
    BY <2>3, <2>4, <2>5
<1> QED
  BY <1>1, Invariant, PTL DEF Spec, AloneRefusedByFaultOnly

-----------------------------------------------------------------------------
(* What the comment of the code takes for granted: the file a recovery     *)
(* moves is the one whose owner it has read and found dead.                *)
MovesTheReadFile ==
    [][\A p \in Procs :
         pc[p] = "rename" /\ pc'[p] = "compare" => quarantine'[p] = seen[p]]_vars

(* No command is killed between its exclusive create and the write of its  *)
(* owner, or ends, killed or not, without the removal of the file it could *)
(* not write.                                                              *)
NeverLeftEmpty ==
    [][\A p \in Procs :
         /\ pc[p] \in {"write", "unlink"} => pc'[p] # "crashed"
         /\ pc[p] = "unlink" /\ pc'[p] = "failed" => lock' = None]_vars

(* While recoveries move only what they have read, the files taken off     *)
(* .profile.lock are those of dead owners that could be read.              *)
OnlyDeadDisplaced ==
    /\ \A q \in displaced : ~Running(q) /\ HasCreated(q) /\ q \in written
    /\ \A p \in Procs : pc[p] \in {"probe", "rename", "compare"} => seen[p] \in written

(* While that is so, a file without an owner has a creator that is about   *)
(* to write or to remove it.                                               *)
OwnerlessIsNew ==
    lock # None /\ lock \notin written => pc[lock] \in {"write", "unlink"}

(* A file leaves .profile.lock for a quarantine, or by its own creator.    *)
LEMMA DeadDisplacedStep ==
    ASSUME IInv, OnlyDeadDisplaced, [Next]_vars,
           \A p \in Procs : pc[p] = "rename" /\ pc'[p] = "compare" => quarantine'[p] = seen[p]
    PROVE  OnlyDeadDisplaced'
<1>1. CASE UNCHANGED vars
  BY <1>1 DEF vars, OnlyDeadDisplaced, Running, HasCreated
<1>2. ASSUME NEW p \in Procs,
             Start(p) \/ Acquire(p) \/ Release(p) \/ RemoveOwn(p) \/ GiveBack(p)
               \/ Exit(p) \/ Fails(p) \/ Crash(p)
      PROVE  OnlyDeadDisplaced'
  <2>1. written \subseteq written'
    BY <1>2 DEF Acquire, Start, Open, WriteOwner, Fails, AttemptFails, WriteFails,
         UnlinkFails, RecoveryFails, LeavesFile, Errs, Unlink, ReadOwner, ProbeOwner,
         QuarantineLock, DiscardStale, RestoreOther, Restores, LinkBack, DropCopy,
         Release, RemoveOwn, GiveBack, Exit, Crash
  <2>2. ASSUME NEW q \in displaced PROVE ~Running(q)' /\ HasCreated(q)'
    <3>1. q # p
      BY <1>2, <2>2 DEF OnlyDeadDisplaced, Running, HasCreated, Start, Acquire, Open,
           WriteOwner, Fails, AttemptFails, WriteFails, UnlinkFails, RecoveryFails,
           LeavesFile, Errs, Unlink, ReadOwner, ProbeOwner, QuarantineLock,
           DiscardStale, RestoreOther, LinkBack, DropCopy, Release, RemoveOwn, GiveBack,
           Exit, Crash
    <3>2. q \in Procs
      BY <2>2 DEF IInv, TypeOK
    <3> QED
      BY <1>2, <2>2, <3>1, <3>2, OthersStep DEF OnlyDeadDisplaced, Running, HasCreated
  <2>3. ASSUME NEW q \in displaced' \ displaced
        PROVE  ~Running(q)' /\ HasCreated(q)' /\ q \in written
    <3>1. /\ p # q
          /\ pc[p] = "rename" /\ pc'[p] = "compare"
      BY <1>2, <2>3, DisplacingStep DEF OnlyDeadDisplaced, Running
    <3>2. QuarantineLock(p)
      BY <1>2, <3>1 DEF IInv, TypeOK, GoTo, Acquire, Start, Open, WriteOwner, Fails,
           AttemptFails, WriteFails, UnlinkFails, RecoveryFails, LeavesFile, Errs,
           Unlink, ReadOwner, ProbeOwner, DiscardStale, RestoreOther, Restores,
           LinkBack, DropCopy, Release, RemoveOwn, GiveBack, Exit, Crash
    <3>3. q = seen[p]
      BY <2>3, <3>1, <3>2 DEF QuarantineLock, MovesAside, TakesOff, IInv, TypeOK, GoTo
    <3>4. q \in Procs /\ ~Running(q) /\ HasCreated(q) /\ q \in written
      BY <3>1, <3>3 DEF IInv, SeenIsDead, OnlyDeadDisplaced
    <3> QED
      BY <1>2, <3>1, <3>4, OthersStep DEF Running, HasCreated
  <2>4. ASSUME NEW r \in Procs, pc'[r] \in {"probe", "rename", "compare"}
        PROVE  seen'[r] \in written
    BY <1>2, <2>4 DEF IInv, TypeOK, GoTo, OnlyDeadDisplaced, Acquire, Start, Open,
         WriteOwner, Fails, AttemptFails, WriteFails, UnlinkFails, RecoveryFails,
         LeavesFile, Errs, Unlink, ReadOwner, ProbeOwner, QuarantineLock, MovesAside,
         TakesOff, DiscardStale, RestoreOther, Restores, LinkBack, DropCopy, Release,
         RemoveOwn, GiveBack, Exit, Crash
  <2> QED
    BY <2>1, <2>2, <2>3, <2>4 DEF OnlyDeadDisplaced
<1> QED
  BY <1>1, <1>2 DEF Next

(* It holds as long as recoveries move only what they have read.           *)
LEMMA DeadDisplaced == Spec /\ MovesTheReadFile => []OnlyDeadDisplaced
<1> DEFINE M == \A p \in Procs :
               pc[p] = "rename" /\ pc'[p] = "compare" => quarantine'[p] = seen[p]
<1>1. Init => OnlyDeadDisplaced
  BY DEF Init, OnlyDeadDisplaced
<1>2. IInv /\ OnlyDeadDisplaced /\ [Next]_vars /\ [M]_vars => OnlyDeadDisplaced'
  <2>1. ASSUME UNCHANGED vars, OnlyDeadDisplaced PROVE OnlyDeadDisplaced'
    BY <2>1 DEF vars, OnlyDeadDisplaced, Running, HasCreated
  <2> QED
    BY <2>1, DeadDisplacedStep
<1>3. MovesTheReadFile <=> [][M]_vars
  BY DEF MovesTheReadFile
<1> HIDE DEF M
<1> QED
  BY <1>1, <1>2, <1>3, Invariant, PTL DEF Spec

(* For any number of commands: a live owner's lock is never stolen, and    *)
(* two commands never hold the profile together, in every execution in     *)
(* which no other file takes the place of a dead owner's between its probe *)
(* and its move.  That one window is all there is to the finding.          *)
THEOREM ExclusionIfCurrent == Spec /\ MovesTheReadFile => []MutualExclusion
<1>1. IInv /\ OnlyDeadDisplaced => MutualExclusion
  BY DEF IInv, OwnsUnlessDisplaced, OnlyDeadDisplaced, MutualExclusion, Holds, Running
<1> QED
  BY <1>1, Invariant, DeadDisplaced, PTL

(* For any number of commands: a lock file that nobody alive is about to   *)
(* fill names an owner that can be probed, in every execution in which     *)
(* besides no command leaves its own file without an owner.                *)
THEOREM RecoverableIfWritten ==
    Spec /\ MovesTheReadFile /\ NeverLeftEmpty => []DeadLockRecoverable
<1> DEFINE K == \A p \in Procs :
               /\ pc[p] \in {"write", "unlink"} => pc'[p] # "crashed"
               /\ pc[p] = "unlink" /\ pc'[p] = "failed" => lock' = None
<1>1. Init => OwnerlessIsNew
  BY DEF Init, OwnerlessIsNew
<1>2. IInv /\ IInv' /\ OnlyDeadDisplaced' /\ OwnerlessIsNew /\ [Next]_vars /\ [K]_vars
        => OwnerlessIsNew'
  <2> SUFFICES ASSUME IInv, IInv', OnlyDeadDisplaced', OwnerlessIsNew, [Next]_vars, [K]_vars,
                      lock' # None, lock' \notin written'
               PROVE  pc'[lock'] \in {"write", "unlink"}
    BY DEF OwnerlessIsNew
  <2>1. pc'[lock'] \in {"write", "unlink", "crashed", "failed"}
    BY DEF IInv, OwnerlessOnlyByFault, OnlyDeadDisplaced
  <2>2. CASE UNCHANGED vars
    BY <2>2 DEF vars, OwnerlessIsNew
  <2>3. CASE Next
    <3>1. PICK p \in Procs :
            Start(p) \/ Acquire(p) \/ Release(p) \/ RemoveOwn(p) \/ GiveBack(p)
              \/ Exit(p) \/ Fails(p) \/ Crash(p)
      BY <2>3 DEF Next
    <3>2. CASE lock' = lock
      <4>1. pc[lock] \in {"write", "unlink"}
        BY <3>1, <3>2 DEF OwnerlessIsNew, IInv, TypeOK, GoTo, Acquire, Start, Open,
             WriteOwner, Fails, AttemptFails, WriteFails, UnlinkFails, RecoveryFails,
             LeavesFile, Errs, Unlink, ReadOwner, ProbeOwner, QuarantineLock,
             MovesAside, TakesOff, DiscardStale, RestoreOther, Restores, LinkBack,
             DropCopy, Release, RemoveOwn, GiveBack, Exit, Crash
      <4>2. pc[lock] = "write" => pc'[lock] # "failed"
        BY <3>1, <3>2, <4>1 DEF IInv, TypeOK, GoTo, Acquire, Start, Open,
             WriteOwner, Fails, AttemptFails, WriteFails, UnlinkFails, RecoveryFails,
             LeavesFile, Errs, Unlink, ReadOwner, ProbeOwner, QuarantineLock,
             MovesAside, TakesOff, DiscardStale, RestoreOther, Restores,
             LinkBack, DropCopy, Release, RemoveOwn, GiveBack, Exit, Crash
      <4> QED
        BY <2>1, <3>2, <4>1, <4>2 DEF vars, IInv, TypeOK
    <3>3. CASE lock' # lock
      <4>1. (Open(p) /\ lock' = p) \/ (LinkBack(p) /\ lock' = quarantine[p])
        BY <3>1, <3>3 DEF Acquire, Start, Open, WriteOwner, Fails, AttemptFails,
             WriteFails, UnlinkFails, RecoveryFails, LeavesFile, Errs, Unlink,
             ReadOwner, ProbeOwner, QuarantineLock, MovesAside, TakesOff, DiscardStale,
             RestoreOther, Restores, LinkBack, DropCopy, Release, RemoveOwn, GiveBack,
             Exit, Crash
      <4>2. CASE Open(p) /\ lock' = p
        BY <4>2, <3>3 DEF Open, GoTo, IInv, TypeOK
      <4>3. CASE LinkBack(p) /\ lock' = quarantine[p]
        BY <4>3 DEF LinkBack, IInv, QuarantineUse, OnlyDeadDisplaced
      <4> QED
        BY <4>1, <4>2, <4>3
    <3> QED
      BY <3>2, <3>3
  <2> QED
    BY <2>2, <2>3
<1>3. OwnerlessIsNew => DeadLockRecoverable
  BY DEF OwnerlessIsNew, DeadLockRecoverable, Running
<1>4. NeverLeftEmpty <=> [][K]_vars
  BY DEF NeverLeftEmpty
<1> HIDE DEF K
<1> QED
  BY <1>1, <1>2, <1>3, <1>4, Invariant, DeadDisplaced, PTL DEF Spec

-----------------------------------------------------------------------------
(* Where a command is in its acquisition.                                  *)
Acquiring(p) ==
    \/ pc[p] \in {"open", "read", "probe", "rename", "compare", "write", "unlink"}
    \/ pc[p] \in {"link", "drop"} /\ after[p] # "released"

(* From some time on nobody else changes .profile.lock.                    *)
LeftAlone(p) == <>[][pc'[p] = pc[p] => lock' = lock]_vars

(* An acquisition of p ends with the lock or with the command.             *)
EndsOnce(p) == pc[p] = "open" ~> pc[p] \in {"held"} \union Ended

(* It has got the lock or has ended.                                       *)
Through(p) == pc[p] \in {"held"} \union Ended

(* It is at most k calls away, if it is left alone.                        *)
Within(p, k) == Acquiring(p) /\ CallsLeft(p) <= k

(* An acquisition goes on to its end.                                      *)
LEMMA AcquiringStep ==
    ASSUME IInv, NEW p \in Procs, Acquiring(p), [Next]_vars
    PROVE  Acquiring(p)' \/ Through(p)'
<1>1. CASE UNCHANGED vars
  BY <1>1 DEF vars, Acquiring
<1>2. ASSUME NEW q \in Procs \ {p},
             Start(q) \/ Acquire(q) \/ Release(q) \/ RemoveOwn(q) \/ GiveBack(q)
               \/ Exit(q) \/ Fails(q) \/ Crash(q)
      PROVE  Acquiring(p)'
  BY <1>2, OthersStep DEF Acquiring
<1>3. ASSUME Acquire(p) PROVE Acquiring(p)' \/ Through(p)'
  <2> USE DEF IInv, TypeOK, GoTo, Acquiring, Through
  <2>1. CASE Open(p) \/ WriteOwner(p) \/ Unlink(p) \/ ReadOwner(p) \/ ProbeOwner(p)
               \/ QuarantineLock(p) \/ DiscardStale(p)
    BY <2>1 DEF Open, WriteOwner, Unlink, ReadOwner, ProbeOwner, QuarantineLock,
         DiscardStale
  <2>2. CASE RestoreOther(p)
    BY <2>2 DEF RestoreOther, Restores
  <2>3. CASE LinkBack(p) \/ DropCopy(p)
    BY <2>3 DEF LinkBack, DropCopy
  <2> QED
    BY <1>3, <2>1, <2>2, <2>3 DEF Acquire
<1>4. ASSUME Crash(p) PROVE Through(p)'
  BY <1>4 DEF Crash, GoTo, Through, IInv, TypeOK
<1>5. ~Start(p) /\ ~Release(p) /\ ~RemoveOwn(p) /\ ~GiveBack(p) /\ ~Exit(p)
  BY DEF Acquiring, Start, Release, RemoveOwn, GiveBack, Exit
<1>6. ASSUME Fails(p) PROVE Acquiring(p)' \/ Through(p)'
  BY <1>6 DEF IInv, TypeOK, GoTo, Acquiring, Through, Fails, AttemptFails, WriteFails,
       UnlinkFails, RecoveryFails, LeavesFile
<1> QED
  BY <1>1, <1>2, <1>3, <1>4, <1>5, <1>6 DEF Next

(* Only a change of .profile.lock by another command sets it back.         *)
LEMMA LeftAloneStep ==
    ASSUME IInv, NEW p \in Procs, Acquiring(p), [Next]_vars,
           [pc'[p] = pc[p] => lock' = lock]_vars, ~Through(p)'
    PROVE  CallsLeft(p)' <= CallsLeft(p)
<1>0. CallsLeft(p) \in Nat /\ CallsLeft(p)' \in Nat
  BY DEF CallsLeft
<1>1. CASE UNCHANGED vars
  BY <1>0, <1>1 DEF vars, CallsLeft
<1>2. ASSUME NEW q \in Procs \ {p}, lock' = lock,
             Start(q) \/ Acquire(q) \/ Release(q) \/ RemoveOwn(q) \/ GiveBack(q)
               \/ Exit(q) \/ Fails(q) \/ Crash(q)
      PROVE  CallsLeft(p)' = CallsLeft(p)
  BY <1>2, OthersStep
<1>3. ASSUME NEW q \in Procs \ {p},
             Start(q) \/ Acquire(q) \/ Release(q) \/ RemoveOwn(q) \/ GiveBack(q)
               \/ Exit(q) \/ Fails(q) \/ Crash(q)
      PROVE  pc'[p] = pc[p]
  BY <1>3, OthersStep
<1>4. ASSUME Acquire(p) \/ Fails(p) \/ Crash(p) PROVE CallsLeft(p)' < CallsLeft(p)
  BY <1>4, OwnStep
<1>5. ~Start(p) /\ ~Release(p) /\ ~RemoveOwn(p) /\ ~GiveBack(p) /\ ~Exit(p)
  BY DEF Acquiring, Start, Release, RemoveOwn, GiveBack, Exit
<1> QED
  BY <1>0, <1>1, <1>2, <1>3, <1>4, <1>5 DEF Next

(* The same, by the number of calls.                                       *)
LEMMA Sooner ==
    ASSUME NEW p \in Procs, NEW k \in 1..17
    PROVE  /\ IInv /\ Within(p, k) /\ [Next]_vars /\ [pc'[p] = pc[p] => lock' = lock]_vars =>
                Within(p, k)' \/ Through(p)'
           /\ IInv /\ Within(p, k) /\ [Next]_vars /\ <<Acquire(p)>>_vars =>
                Within(p, k - 1)' \/ Through(p)'
<1>0. CallsLeft(p) \in Nat /\ CallsLeft(p)' \in Nat
  BY DEF CallsLeft
<1>1. ASSUME IInv, Within(p, k), [Next]_vars, [pc'[p] = pc[p] => lock' = lock]_vars
      PROVE  Within(p, k)' \/ Through(p)'
  BY <1>0, <1>1, AcquiringStep, LeftAloneStep DEF Within
<1>2. ASSUME IInv, Within(p, k), [Next]_vars, <<Acquire(p)>>_vars
      PROVE  Within(p, k - 1)' \/ Through(p)'
  BY <1>0, <1>2, OwnStep, AcquiringStep DEF Within
<1> QED
  BY <1>1, <1>2

(* The same, for one command that the system keeps running.                *)
LEMMA OneEnds ==
    ASSUME NEW p \in Procs
    PROVE  Spec /\ KeepsRunning(p) /\ []AcquisitionGoesOn /\ LeftAlone(p) => EndsOnce(p)
<1> DEFINE Start1 == pc[p] = "open"
           End1 == Through(p)
           Alone1 == pc'[p] = pc[p] => lock' = lock
           In1 == Acquiring(p)
           P0 == Within(p, 0)
           P1 == Within(p, 1)
           P2 == Within(p, 2)
           P3 == Within(p, 3)
           P4 == Within(p, 4)
           P5 == Within(p, 5)
           P6 == Within(p, 6)
           P7 == Within(p, 7)
           P8 == Within(p, 8)
           P9 == Within(p, 9)
           P10 == Within(p, 10)
           P11 == Within(p, 11)
           P12 == Within(p, 12)
           P13 == Within(p, 13)
           P14 == Within(p, 14)
           P15 == Within(p, 15)
           P16 == Within(p, 16)
           P17 == Within(p, 17)
<1>1. /\ IInv /\ P17 /\ [Next]_vars /\ [Alone1]_vars => P17' \/ End1'
      /\ IInv /\ P17 /\ [Next]_vars /\ <<Acquire(p)>>_vars => P16' \/ End1'
  BY Sooner
<1>2. /\ IInv /\ P16 /\ [Next]_vars /\ [Alone1]_vars => P16' \/ End1'
      /\ IInv /\ P16 /\ [Next]_vars /\ <<Acquire(p)>>_vars => P15' \/ End1'
  BY Sooner
<1>3. /\ IInv /\ P15 /\ [Next]_vars /\ [Alone1]_vars => P15' \/ End1'
      /\ IInv /\ P15 /\ [Next]_vars /\ <<Acquire(p)>>_vars => P14' \/ End1'
  BY Sooner
<1>4. /\ IInv /\ P14 /\ [Next]_vars /\ [Alone1]_vars => P14' \/ End1'
      /\ IInv /\ P14 /\ [Next]_vars /\ <<Acquire(p)>>_vars => P13' \/ End1'
  BY Sooner
<1>5. /\ IInv /\ P13 /\ [Next]_vars /\ [Alone1]_vars => P13' \/ End1'
      /\ IInv /\ P13 /\ [Next]_vars /\ <<Acquire(p)>>_vars => P12' \/ End1'
  BY Sooner
<1>6. /\ IInv /\ P12 /\ [Next]_vars /\ [Alone1]_vars => P12' \/ End1'
      /\ IInv /\ P12 /\ [Next]_vars /\ <<Acquire(p)>>_vars => P11' \/ End1'
  BY Sooner
<1>7. /\ IInv /\ P11 /\ [Next]_vars /\ [Alone1]_vars => P11' \/ End1'
      /\ IInv /\ P11 /\ [Next]_vars /\ <<Acquire(p)>>_vars => P10' \/ End1'
  BY Sooner
<1>8. /\ IInv /\ P10 /\ [Next]_vars /\ [Alone1]_vars => P10' \/ End1'
      /\ IInv /\ P10 /\ [Next]_vars /\ <<Acquire(p)>>_vars => P9' \/ End1'
  BY Sooner
<1>9. /\ IInv /\ P9 /\ [Next]_vars /\ [Alone1]_vars => P9' \/ End1'
      /\ IInv /\ P9 /\ [Next]_vars /\ <<Acquire(p)>>_vars => P8' \/ End1'
  BY Sooner
<1>10. /\ IInv /\ P8 /\ [Next]_vars /\ [Alone1]_vars => P8' \/ End1'
       /\ IInv /\ P8 /\ [Next]_vars /\ <<Acquire(p)>>_vars => P7' \/ End1'
  BY Sooner
<1>11. /\ IInv /\ P7 /\ [Next]_vars /\ [Alone1]_vars => P7' \/ End1'
       /\ IInv /\ P7 /\ [Next]_vars /\ <<Acquire(p)>>_vars => P6' \/ End1'
  BY Sooner
<1>12. /\ IInv /\ P6 /\ [Next]_vars /\ [Alone1]_vars => P6' \/ End1'
       /\ IInv /\ P6 /\ [Next]_vars /\ <<Acquire(p)>>_vars => P5' \/ End1'
  BY Sooner
<1>13. /\ IInv /\ P5 /\ [Next]_vars /\ [Alone1]_vars => P5' \/ End1'
       /\ IInv /\ P5 /\ [Next]_vars /\ <<Acquire(p)>>_vars => P4' \/ End1'
  BY Sooner
<1>14. /\ IInv /\ P4 /\ [Next]_vars /\ [Alone1]_vars => P4' \/ End1'
       /\ IInv /\ P4 /\ [Next]_vars /\ <<Acquire(p)>>_vars => P3' \/ End1'
  BY Sooner
<1>15. /\ IInv /\ P3 /\ [Next]_vars /\ [Alone1]_vars => P3' \/ End1'
       /\ IInv /\ P3 /\ [Next]_vars /\ <<Acquire(p)>>_vars => P2' \/ End1'
  BY Sooner
<1>16. /\ IInv /\ P2 /\ [Next]_vars /\ [Alone1]_vars => P2' \/ End1'
       /\ IInv /\ P2 /\ [Next]_vars /\ <<Acquire(p)>>_vars => P1' \/ End1'
  BY Sooner
<1>17. /\ IInv /\ P1 /\ [Next]_vars /\ [Alone1]_vars => P1' \/ End1'
       /\ IInv /\ P1 /\ [Next]_vars /\ <<Acquire(p)>>_vars => P0' \/ End1'
  BY Sooner
<1>18. ~P0
  BY DEF Within, Acquiring, CallsLeft
<1>19. In1 => P17
  BY DEF Within, Acquiring, CallsLeft
<1>20. Start1 => In1
  BY DEF Acquiring
<1>21. In1 /\ AcquisitionGoesOn => ENABLED <<Acquire(p)>>_vars
  BY DEF Acquiring, AcquisitionGoesOn, Steps
<1>22. IInv /\ In1 /\ [Next]_vars => In1' \/ End1'
  BY AcquiringStep
<1>23. (P1 \/ P2 \/ P3 \/ P4 \/ P5 \/ P6 \/ P7 \/ P8 \/ P9 \/ P10 \/ P11 \/ P12 \/ P13
        \/ P14 \/ P15 \/ P16 \/ P17) => In1
  BY DEF Within
<1> HIDE DEF Start1, End1, Alone1, In1, P0, P1, P2, P3, P4, P5, P6, P7, P8, P9, P10,
             P11, P12, P13, P14, P15, P16, P17
<1>24. Spec /\ KeepsRunning(p) /\ []AcquisitionGoesOn /\ <>[][Alone1]_vars => (Start1 ~> End1)
  BY <1>1, <1>2, <1>3, <1>4, <1>5, <1>6, <1>7, <1>8, <1>9, <1>10, <1>11, <1>12, <1>13,
     <1>14, <1>15, <1>16, <1>17, <1>18, <1>19, <1>20, <1>21, <1>22, <1>23, Invariant,
     PTL DEF Spec, KeepsRunning
<1>25. EndsOnce(p) <=> (Start1 ~> End1)
  BY DEF EndsOnce, Start1, End1, Through
<1>26. LeftAlone(p) <=> <>[][Alone1]_vars
  BY DEF LeftAlone, Alone1
<1> QED
  BY <1>24, <1>25, <1>26

(* For any number of commands: an acquisition ends, if the system keeps    *)
(* running it (FairSpec), as it can at every point (AcquisitionGoesOn),    *)
(* and others do not change .profile.lock under it for ever.               *)
THEOREM Attempts ==
    FairSpec /\ []AcquisitionGoesOn => \A p \in Procs : LeftAlone(p) => EndsOnce(p)
<1>1. ASSUME NEW p \in Procs
      PROVE  Spec /\ KeepsRunning(p) /\ []AcquisitionGoesOn /\ LeftAlone(p) => EndsOnce(p)
  BY OneEnds
<1>2. FairSpec => Spec /\ \A p \in Procs : KeepsRunning(p)
  BY DEF FairSpec
<1>3. FairSpec /\ []AcquisitionGoesOn => \A p \in Procs : LeftAlone(p) => EndsOnce(p)
  BY <1>1, <1>2
<1> QED
  BY <1>3

-----------------------------------------------------------------------------
(* Where a command that recovers the lock of a dead owner is, while nobody *)
(* else runs.                                                              *)
Recovering(p) ==
    \/ pc[p] = "open" /\ lock \in written \union {None}
    \/ pc[p] = "read" /\ lock \in written
    \/ pc[p] \in {"probe", "rename"} /\ lock = seen[p]
    \/ pc[p] = "compare" /\ quarantine[p] = seen[p] /\ lock = None
    \/ pc[p] \in {"link", "drop"} /\ after[p] = "failed"
    \/ pc[p] \in {"write", "unlink"}

(* It has ended, or is not alone any more.                                 *)
Settled(p) == pc[p] \in {"held", "failed", "crashed"} \/ ~Alone(p)

(* It is at most k calls away.                                             *)
Nearby(p, k) == Recovering(p) /\ CallsLeft(p) <= k

(* It stays on this way, and each call of it brings it nearer.             *)
LEMMA RecoveryStep ==
    ASSUME IInv, NEW p \in Procs, Recovering(p), ~Settled(p), [Next]_vars, ~Settled(p)'
    PROVE  /\ Recovering(p)'
           /\ UNCHANGED vars \/ CallsLeft(p)' < CallsLeft(p)
<1>1. CASE UNCHANGED vars
  BY <1>1 DEF vars, Recovering
<1>2. CASE Next
  <2>1. PICK q \in Procs :
            Start(q) \/ Acquire(q) \/ Release(q) \/ RemoveOwn(q) \/ GiveBack(q)
              \/ Exit(q) \/ Fails(q) \/ Crash(q)
    BY <1>2 DEF Next
  <2>2. Start(q) => q = p
    BY DEF Settled, Alone, Start, GoTo, Running, Steps, IInv, TypeOK
  <2>3. ~Start(q) => Running(q)
    BY <2>1 DEF Running, Steps, Acquire, Open, WriteOwner, Fails, AttemptFails,
         WriteFails, UnlinkFails, RecoveryFails, LeavesFile, Errs, Unlink, ReadOwner,
         ProbeOwner, QuarantineLock, DiscardStale, RestoreOther, LinkBack, DropCopy,
         Release, RemoveOwn, GiveBack, Exit, Crash
  <2>4. q = p
    BY <2>2, <2>3 DEF Settled, Alone
  <2>5. Acquire(p) \/ Fails(p)
    BY <2>1, <2>4 DEF Recovering, Settled, Start, Release, RemoveOwn, GiveBack, Exit,
         Crash, GoTo, IInv, TypeOK
  <2>6. CallsLeft(p)' < CallsLeft(p)
    BY <2>5, OwnStep
  <2>7. Recovering(p)'
    <3> USE DEF IInv, TypeOK, GoTo, Recovering
    <3>1. CASE Open(p)
      BY <3>1, NoneIsNoProcess DEF Open
    <3>2. CASE WriteOwner(p) \/ Unlink(p)
      BY <3>2 DEF WriteOwner, Unlink, TakesOff, Settled
    <3>3. CASE ReadOwner(p)
      BY <3>3, NoneIsNoProcess DEF ReadOwner
    <3>4. CASE ProbeOwner(p)
      <4>1. ~Running(seen[p])
        BY <3>4 DEF ProbeOwner, SeenIsDead, HasCreated, Settled, Alone
      <4> QED
        BY <3>4, <4>1 DEF ProbeOwner
    <3>5. CASE QuarantineLock(p)
      BY <3>5, NoneIsNoProcess DEF QuarantineLock, MovesAside, TakesOff
    <3>6. CASE DiscardStale(p)
      BY <3>6 DEF DiscardStale
    <3>7. CASE RestoreOther(p)
      BY <3>7 DEF RestoreOther
    <3>8. CASE LinkBack(p) \/ DropCopy(p)
      BY <3>8 DEF LinkBack, DropCopy, Settled
    <3>9. CASE Fails(p)
      BY <3>9 DEF Fails, AttemptFails, WriteFails, UnlinkFails, RecoveryFails, LeavesFile,
           Settled
    <3> QED
      BY <2>5, <3>1, <3>2, <3>3, <3>4, <3>5, <3>6, <3>7, <3>8, <3>9 DEF Acquire
  <2> QED
    BY <2>6, <2>7
<1> QED
  BY <1>1, <1>2

(* The same, by the number of calls.                                       *)
LEMMA Nearer ==
    ASSUME NEW p \in Procs, NEW k \in 1..12
    PROVE  /\ IInv /\ ~Settled(p) /\ Nearby(p, k) /\ [Next]_vars =>
                Nearby(p, k)' \/ Settled(p)'
           /\ IInv /\ ~Settled(p) /\ Nearby(p, k) /\ [Next]_vars /\ <<Acquire(p)>>_vars =>
                Nearby(p, k - 1)' \/ Settled(p)'
<1>1. ASSUME IInv, ~Settled(p), Nearby(p, k), [Next]_vars
      PROVE  Nearby(p, k)' \/ Settled(p)'
  <2>1. CallsLeft(p) \in Nat /\ CallsLeft(p)' \in Nat
    BY DEF CallsLeft
  <2>2. UNCHANGED vars => CallsLeft(p)' = CallsLeft(p)
    BY DEF vars, CallsLeft
  <2> QED
    BY <1>1, <2>1, <2>2, RecoveryStep DEF Nearby
<1>2. ASSUME IInv, ~Settled(p), Nearby(p, k), [Next]_vars, <<Acquire(p)>>_vars
      PROVE  Nearby(p, k - 1)' \/ Settled(p)'
  <2>1. CallsLeft(p) \in Nat /\ CallsLeft(p)' \in Nat
    BY DEF CallsLeft
  <2> QED
    BY <1>2, <2>1, RecoveryStep DEF Nearby
<1> QED
  BY <1>1, <1>2

(* The same, for one command that the system keeps running.                *)
Recovers(p) ==
    pc[p] = "open" /\ Alone(p) /\ lock \in written
        ~> pc[p] \in {"held", "failed", "crashed"} \/ ~Alone(p)

LEMMA OneRecovers ==
    ASSUME NEW p \in Procs
    PROVE  Spec /\ KeepsRunning(p) /\ []AcquisitionGoesOn => Recovers(p)
<1> DEFINE Start1 == pc[p] = "open" /\ Alone(p) /\ lock \in written
           End1 == Settled(p)
           P0 == Nearby(p, 0)
           P1 == Nearby(p, 1)
           P2 == Nearby(p, 2)
           P3 == Nearby(p, 3)
           P4 == Nearby(p, 4)
           P5 == Nearby(p, 5)
           P6 == Nearby(p, 6)
           P7 == Nearby(p, 7)
           P8 == Nearby(p, 8)
           P9 == Nearby(p, 9)
           P10 == Nearby(p, 10)
           P11 == Nearby(p, 11)
           P12 == Nearby(p, 12)
<1>1. /\ IInv /\ ~End1 /\ P12 /\ [Next]_vars => P12' \/ End1'
      /\ IInv /\ ~End1 /\ P12 /\ [Next]_vars /\ <<Acquire(p)>>_vars => P11' \/ End1'
  BY Nearer
<1>2. /\ IInv /\ ~End1 /\ P11 /\ [Next]_vars => P11' \/ End1'
      /\ IInv /\ ~End1 /\ P11 /\ [Next]_vars /\ <<Acquire(p)>>_vars => P10' \/ End1'
  BY Nearer
<1>3. /\ IInv /\ ~End1 /\ P10 /\ [Next]_vars => P10' \/ End1'
      /\ IInv /\ ~End1 /\ P10 /\ [Next]_vars /\ <<Acquire(p)>>_vars => P9' \/ End1'
  BY Nearer
<1>4. /\ IInv /\ ~End1 /\ P9 /\ [Next]_vars => P9' \/ End1'
      /\ IInv /\ ~End1 /\ P9 /\ [Next]_vars /\ <<Acquire(p)>>_vars => P8' \/ End1'
  BY Nearer
<1>5. /\ IInv /\ ~End1 /\ P8 /\ [Next]_vars => P8' \/ End1'
      /\ IInv /\ ~End1 /\ P8 /\ [Next]_vars /\ <<Acquire(p)>>_vars => P7' \/ End1'
  BY Nearer
<1>6. /\ IInv /\ ~End1 /\ P7 /\ [Next]_vars => P7' \/ End1'
      /\ IInv /\ ~End1 /\ P7 /\ [Next]_vars /\ <<Acquire(p)>>_vars => P6' \/ End1'
  BY Nearer
<1>7. /\ IInv /\ ~End1 /\ P6 /\ [Next]_vars => P6' \/ End1'
      /\ IInv /\ ~End1 /\ P6 /\ [Next]_vars /\ <<Acquire(p)>>_vars => P5' \/ End1'
  BY Nearer
<1>8. /\ IInv /\ ~End1 /\ P5 /\ [Next]_vars => P5' \/ End1'
      /\ IInv /\ ~End1 /\ P5 /\ [Next]_vars /\ <<Acquire(p)>>_vars => P4' \/ End1'
  BY Nearer
<1>9. /\ IInv /\ ~End1 /\ P4 /\ [Next]_vars => P4' \/ End1'
      /\ IInv /\ ~End1 /\ P4 /\ [Next]_vars /\ <<Acquire(p)>>_vars => P3' \/ End1'
  BY Nearer
<1>10. /\ IInv /\ ~End1 /\ P3 /\ [Next]_vars => P3' \/ End1'
       /\ IInv /\ ~End1 /\ P3 /\ [Next]_vars /\ <<Acquire(p)>>_vars => P2' \/ End1'
  BY Nearer
<1>11. /\ IInv /\ ~End1 /\ P2 /\ [Next]_vars => P2' \/ End1'
       /\ IInv /\ ~End1 /\ P2 /\ [Next]_vars /\ <<Acquire(p)>>_vars => P1' \/ End1'
  BY Nearer
<1>12. /\ IInv /\ ~End1 /\ P1 /\ [Next]_vars => P1' \/ End1'
       /\ IInv /\ ~End1 /\ P1 /\ [Next]_vars /\ <<Acquire(p)>>_vars => P0' \/ End1'
  BY Nearer
<1>13. ~P0
  BY DEF Nearby, Recovering, CallsLeft
<1>14. Start1 => P12
  BY NoneIsNoProcess DEF Nearby, Recovering, CallsLeft
<1>15. Recovering(p) /\ ~End1 /\ AcquisitionGoesOn => ENABLED <<Acquire(p)>>_vars
  BY DEF Recovering, AcquisitionGoesOn, Steps
<1>16. (P1 \/ P2 \/ P3 \/ P4 \/ P5 \/ P6 \/ P7 \/ P8 \/ P9 \/ P10 \/ P11 \/ P12)
         => Recovering(p)
  BY DEF Nearby
<1>17. pc[p] \in {"held", "failed", "crashed"} \/ ~Alone(p) <=> End1
  BY DEF Settled
<1>18. pc[p] = "open" /\ Alone(p) /\ lock \in written <=> Start1
  OBVIOUS
<1> HIDE DEF Start1, End1, P0, P1, P2, P3, P4, P5, P6, P7, P8, P9, P10, P11, P12
<1>19. Spec /\ KeepsRunning(p) /\ []AcquisitionGoesOn => (Start1 ~> End1)
  BY <1>1, <1>2, <1>3, <1>4, <1>5, <1>6, <1>7, <1>8, <1>9, <1>10, <1>11, <1>12,
     <1>13, <1>14, <1>15, <1>16, Invariant, PTL DEF Spec, KeepsRunning
<1> QED
  BY <1>17, <1>18, <1>19, PTL DEF Recovers

(* For any number of commands: the lock of a dead owner does not block one *)
(* that runs alone, if the system keeps running it (FairSpec), as it can   *)
(* at every point (AcquisitionGoesOn).                                     *)
THEOREM DeadLock == FairSpec /\ []AcquisitionGoesOn => DeadLockRecovered
<1>1. ASSUME NEW p \in Procs
      PROVE  Spec /\ KeepsRunning(p) /\ []AcquisitionGoesOn => Recovers(p)
  BY OneRecovers
<1>2. FairSpec => Spec
  BY DEF FairSpec
<1>3. FairSpec => \A p \in Procs : KeepsRunning(p)
  BY DEF FairSpec
<1>4. FairSpec /\ []AcquisitionGoesOn => \A p \in Procs : Recovers(p)
  BY <1>1, <1>2, <1>3
<1>5. (\A p \in Procs : Recovers(p)) => DeadLockRecovered
  BY DEF Recovers, DeadLockRecovered
<1> QED
  BY <1>4, <1>5
=============================================================================
