-------------------------- MODULE OpenedStorageProofs --------------------------
(* Theorems of OpenedStorage for every finite set of keys: its type        *)
(* invariant, all safety properties of its run, where the promise holds    *)
(* that its other run refutes, and that the lock is given back.            *)
EXTENDS OpenedStorage, Naturals, TLAPS

(* Where the process has the profile lock, and where its crypto store is   *)
(* the restored one.                                                       *)
Owning   == {"restore", "create", "op", "status", "waiting", "temporary", "link",
             "close", "persist", "release"}
Restored == {"create", "op", "status", "waiting", "temporary", "link", "close", "persist"}
Closing  == {"close", "persist", "release", "report"}
Bounded  == {"op", "status", "waiting", "temporary", "link"}

(* An SDK operation is on only while the command waits for it, or after    *)
(* the cut that has made the snapshot unsafe; a torn store is its work.    *)
OperationScope ==
    /\ store.torn => op = "changing" \/ pc = "idle"
    /\ op # "none" =>
         pc = "op" \/ (~snapshotSafe /\ pc \in {"close", "release", "report", "idle"})
    /\ op # "none" /\ pc = "idle" => said # "result"
    /\ pc \in Bounded \union {"persist"} => snapshotSafe
    /\ ~disk.torn

(* What the process knows is at least what was saved before, and what it   *)
(* will report is part of it.                                              *)
StoreGrows ==
    /\ pc \in Restored => disk.keys \subseteq store.keys
    /\ cmd = "upload" => made \subseteq store.keys
    /\ pc \in {"input", "open", "restore", "create"} => made = {} /\ op = "none"

(* A command without an error to report has saved its store before it      *)
(* gives the profile back, and knows nothing newer.                        *)
CleanEnd ==
    /\ pc \in Owning => lock = "held"
    /\ pc \in Closing /\ ~snapshotSafe => failed
    /\ pc \in {"persist", "release", "report"} /\ ~failed => ~client
    /\ pc \in {"release", "report"} /\ ~failed => store.keys \subseteq disk.keys
    /\ pc = "report" /\ ~failed => lock = "free"
    /\ pc \in {"restore", "create"} => ~failed
    /\ pc \in {"input", "open"} => ~failed
    /\ pc # "idle" => said = "none"
    /\ pc = "idle" /\ said = "result" => ~client

(* An engine that has been at work with this command and rests has said so *)
(* after all its other reports.                                            *)
RestSeen == pc \in {"op", "status", "waiting"} /\ worked /\ ~engine => zeroSeen

(* The inductive invariant.                                                *)
IInv ==
    /\ TypeOK
    /\ OperationScope
    /\ StoreGrows
    /\ CleanEnd
    /\ ReportedKept
    /\ SuccessMeans
    /\ WaitsForWork
    /\ RestSeen

-----------------------------------------------------------------------------
(* The end of a bounded wait by its deadline or a signal.                  *)
LEMMA CutStep ==
    ASSUME IInv, NEW aborted \in BOOLEAN, Cut(aborted), received' \in BOOLEAN,
           UNCHANGED <<outside, server, cmd, leftover, history>>
    PROVE  IInv'
<1>1. TypeOK'
  <2> USE DEF IInv, TypeOK, outside, server, opened, history, Cut, OpenCut, OperationCut,
              SettlementCut, StopsClient
  <2>1. (pc \in Steps /\ failed \in BOOLEAN)'
    BY DEF Fail, Steps
  <2>2. (client \in BOOLEAN /\ snapshotSafe \in BOOLEAN)'
    OBVIOUS
  <2>3. (/\ store \in Stores /\ op \in {"none", "running", "changing", "written"}
         /\ made \subseteq Keys /\ engine \in BOOLEAN /\ zeroSeen \in BOOLEAN)'
    OBVIOUS
  <2> QED
    BY <2>1, <2>2, <2>3
<1> USE DEF IInv, Cut, Fail, outside, server, opened, history
<1>2. CASE OpenCut
  BY <1>1, <1>2
     DEF OpenCut, OperationScope, StoreGrows, CleanEnd, ReportedKept, SuccessMeans,
         WaitsForWork, RestSeen, Owning, Restored, Closing, Bounded
<1>3. CASE OperationCut(aborted)
  BY <1>1, <1>3
     DEF OperationCut, StopsClient, OperationScope, StoreGrows, CleanEnd, ReportedKept,
         SuccessMeans, WaitsForWork, RestSeen, Owning, Restored, Closing, Bounded
<1>4. CASE SettlementCut(aborted)
  BY <1>1, <1>4
     DEF SettlementCut, StopsClient, OperationScope, StoreGrows, CleanEnd, ReportedKept,
         SuccessMeans, WaitsForWork, RestSeen, Owning, Restored, Closing, Bounded
<1> QED
  BY <1>2, <1>3, <1>4

-----------------------------------------------------------------------------
(* The types, of every other step; first of the two variables that all     *)
(* steps set by GoTo and Fail.                                             *)
LEMMA TypeStep ==
    ASSUME TypeOK, Next, ~Deadline, ~Signal
    PROVE  TypeOK'
<1>1. (pc \in Steps /\ failed \in BOOLEAN)'
  BY DEF TypeOK, Next, Program, Sdk, Environment, Steps, GoTo, Fail, Emits, opened,
         history, RestoreSnapshot, RestoreFails, CreateStorage, CreateFails,
         StatusKnown, StatusFails, InstallDownload, PersistSnapshot, PersistFails,
         PersistTimesOut, OpenProfile, OperationEnds, WriteTemporary, StopClient,
         Release, Report, OperationChanges, EngineRests, OperationWrites, SyncLearns,
         EngineUploads, Begin, ReadInput, Kill, DestinationChanges, LateExport
<1> USE <1>1 DEF TypeOK, outside, server, opened, history
<1>2. ASSUME RestoreSnapshot PROVE TypeOK'
  BY <1>2 DEF RestoreSnapshot
<1>3. ASSUME RestoreFails PROVE TypeOK'
  BY <1>3 DEF RestoreFails
<1>4. ASSUME NEW working \in BOOLEAN, CreateStorage(working) PROVE TypeOK'
  BY <1>4 DEF CreateStorage
<1>5. ASSUME CreateFails PROVE TypeOK'
  BY <1>5 DEF CreateFails
<1>6. ASSUME StatusKnown PROVE TypeOK'
  BY <1>6 DEF StatusKnown
<1>7. ASSUME StatusFails PROVE TypeOK'
  BY <1>7 DEF StatusFails
<1>8. ASSUME NEW linked \in BOOLEAN, NEW removed \in BOOLEAN, InstallDownload(linked, removed)
       PROVE  TypeOK'
  BY <1>8 DEF InstallDownload
<1>9. ASSUME PersistSnapshot PROVE TypeOK'
  BY <1>9 DEF PersistSnapshot
<1>10. ASSUME PersistFails PROVE TypeOK'
  BY <1>10 DEF PersistFails
<1>11. ASSUME PersistTimesOut PROVE TypeOK'
  BY <1>11 DEF PersistTimesOut
<1>12. ASSUME NEW ok \in BOOLEAN, OpenProfile(ok) PROVE TypeOK'
  BY <1>12 DEF OpenProfile
<1>13. ASSUME NEW ok \in BOOLEAN, OperationEnds(ok) PROVE TypeOK'
  BY <1>13 DEF OperationEnds
<1>14. ASSUME NEW ok \in BOOLEAN, WriteTemporary(ok) PROVE TypeOK'
  BY <1>14 DEF WriteTemporary
<1>15. ASSUME NEW ok \in BOOLEAN, StopClient(ok) PROVE TypeOK'
  BY <1>15 DEF StopClient
<1>16. ASSUME NEW ok \in BOOLEAN, Release(ok) PROVE TypeOK'
  BY <1>16 DEF Release
<1>17. ASSUME NEW ok \in BOOLEAN, Report(ok) PROVE TypeOK'
  BY <1>17 DEF Report
<1>18. ASSUME OperationChanges PROVE TypeOK'
  <2>1. (store \in Stores /\ cmd \in Commands)'
    BY <1>18 DEF OperationChanges, Stores
  <2> QED
    BY <1>18, <2>1 DEF OperationChanges
<1>19. ASSUME EngineRests PROVE TypeOK'
  BY <1>19 DEF EngineRests, Emits
<1>20. ASSUME NEW new \in SUBSET Keys, OperationWrites(new) PROVE TypeOK'
  <2>1. (store \in Stores)'
    BY <1>20 DEF OperationWrites, Stores
  <2>2. (recovery \in BOOLEAN /\ backup \subseteq Keys /\ made \subseteq Keys)'
    BY <1>20 DEF OperationWrites, Stores
  <2> QED
    BY <1>20, <2>1, <2>2 DEF OperationWrites
<1>21. ASSUME NEW k \in Keys, SyncLearns(k) PROVE TypeOK'
  <2>1. (store \in Stores /\ cmd \in Commands)'
    BY <1>21 DEF SyncLearns, Stores
  <2> QED
    BY <1>21, <2>1 DEF SyncLearns
<1>22. ASSUME NEW k \in Keys, EngineUploads(k) PROVE TypeOK'
  BY <1>22 DEF EngineUploads, Emits
<1>23. ASSUME NEW c \in Commands, Begin(c) PROVE TypeOK'
  <2>1. (store \in Stores /\ cmd \in Commands)'
    BY <1>23 DEF Begin, Commands, NoKeys, Stores
  <2> QED
    BY <1>23, <2>1 DEF Begin
<1>24. ASSUME NEW ok \in BOOLEAN, ReadInput(ok) PROVE TypeOK'
  BY <1>24 DEF ReadInput
<1>25. ASSUME Kill PROVE TypeOK'
  BY <1>25 DEF Kill
<1>26. ASSUME DestinationChanges PROVE TypeOK'
  BY <1>26 DEF DestinationChanges
<1>27. ASSUME LateExport PROVE TypeOK'
  BY <1>27 DEF LateExport
<1> QED
  BY <1>2, <1>3, <1>4, <1>5, <1>6, <1>7, <1>8, <1>9, <1>10, <1>11, <1>12, <1>13, <1>14,
     <1>15, <1>16, <1>17, <1>18, <1>19, <1>20, <1>21, <1>22, <1>23, <1>24, <1>25,
     <1>26, <1>27
     DEF Next, Program, Sdk, Environment

-----------------------------------------------------------------------------
(* Every step preserves the invariant.                                     *)
LEMMA StepInvariant == IInv /\ [Next]_vars => IInv'
<1> SUFFICES ASSUME IInv, [Next]_vars PROVE IInv'
  OBVIOUS
<1> DEFINE Typed == Next /\ ~Deadline /\ ~Signal => TypeOK'
<1>0. Typed
  BY TypeStep DEF IInv
<1>1. CASE Deadline
  BY <1>1, CutStep DEF Deadline, IInv, TypeOK
<1>2. CASE Signal
  <2>1. CASE Cut(TRUE)
    BY <1>2, <2>1, CutStep DEF Signal
  <2>2. CASE pc = "input" /\ Fail("report") /\ UNCHANGED opened
    <3>1. TypeOK'
      BY <1>2, <2>2 DEF Signal, IInv, TypeOK, Fail, Steps, outside, server, opened,
                        history
    <3> QED
      BY <1>2, <2>2, <3>1 DEF Signal, IInv, OperationScope, StoreGrows, CleanEnd,
                              ReportedKept, SuccessMeans, WaitsForWork, RestSeen, Owning,
                              Restored, Closing, Bounded, Fail, TypeOK, outside,
                              server, opened, history
  <2>3. CASE pc \in {"persist", "report"} /\ UNCHANGED <<pc, failed, opened>>
    BY <1>2, <2>3 DEF Signal, IInv, OperationScope, StoreGrows, CleanEnd, ReportedKept,
                      SuccessMeans, WaitsForWork, RestSeen, Owning, Restored, Closing,
                      Bounded, TypeOK, outside, server, opened, history
  <2> QED
    BY <1>2, <2>1, <2>2, <2>3 DEF Signal
<1> SUFFICES ASSUME ~Deadline, ~Signal PROVE IInv'
  BY <1>1, <1>2
<1> USE <1>0 DEF IInv, OperationScope, StoreGrows, CleanEnd, ReportedKept,
                 SuccessMeans, WaitsForWork, RestSeen, Owning, Restored, Closing,
                 Bounded, GoTo, Fail, outside, server, opened, history
<1> USE DEF TypeOK, Stores, NoKeys, Commands, Other, ReadsInput, MakesSessions
<1>3. ASSUME RestoreSnapshot, TypeOK' PROVE IInv'
  BY <1>3 DEF RestoreSnapshot
<1>4. ASSUME RestoreFails, TypeOK' PROVE IInv'
  BY <1>4 DEF RestoreFails
<1>5. ASSUME NEW working \in BOOLEAN, CreateStorage(working), TypeOK' PROVE IInv'
  BY <1>5 DEF CreateStorage
<1>6. ASSUME CreateFails, TypeOK' PROVE IInv'
  BY <1>6 DEF CreateFails
<1>7. ASSUME StatusKnown, TypeOK' PROVE IInv'
  BY <1>7 DEF StatusKnown
<1>8. ASSUME StatusFails, TypeOK' PROVE IInv'
  BY <1>8 DEF StatusFails
<1>9. ASSUME NEW linked \in BOOLEAN, NEW removed \in BOOLEAN, InstallDownload(linked, removed), TypeOK'
       PROVE  IInv'
  BY <1>9 DEF InstallDownload
<1>10. ASSUME PersistSnapshot, TypeOK' PROVE IInv'
  BY <1>10 DEF PersistSnapshot
<1>11. ASSUME PersistFails, TypeOK' PROVE IInv'
  BY <1>11 DEF PersistFails
<1>12. ASSUME PersistTimesOut, TypeOK' PROVE IInv'
  BY <1>12 DEF PersistTimesOut
<1>13. ASSUME NEW ok \in BOOLEAN, OpenProfile(ok), TypeOK' PROVE IInv'
  BY <1>13 DEF OpenProfile
<1>14. ASSUME NEW ok \in BOOLEAN, OperationEnds(ok), TypeOK' PROVE IInv'
  BY <1>14 DEF OperationEnds
<1>15. ASSUME NEW ok \in BOOLEAN, WriteTemporary(ok), TypeOK' PROVE IInv'
  BY <1>15 DEF WriteTemporary
<1>16. ASSUME NEW ok \in BOOLEAN, StopClient(ok), TypeOK' PROVE IInv'
  BY <1>16 DEF StopClient
<1>17. ASSUME NEW ok \in BOOLEAN, Release(ok), TypeOK' PROVE IInv'
  BY <1>17 DEF Release
<1>18. ASSUME NEW ok \in BOOLEAN, Report(ok), TypeOK' PROVE IInv'
  BY <1>18 DEF Report
<1>19. ASSUME OperationChanges, TypeOK' PROVE IInv'
  BY <1>19 DEF OperationChanges
<1>20. ASSUME EngineRests, TypeOK' PROVE IInv'
  BY <1>20 DEF EngineRests, Emits
<1>21. ASSUME NEW new \in SUBSET Keys, OperationWrites(new), TypeOK' PROVE IInv'
  BY <1>21 DEF OperationWrites
<1>22. ASSUME NEW k \in Keys, SyncLearns(k), TypeOK' PROVE IInv'
  BY <1>22 DEF SyncLearns
<1>23. ASSUME NEW k \in Keys, EngineUploads(k), TypeOK' PROVE IInv'
  BY <1>23 DEF EngineUploads, Emits
<1>24. ASSUME NEW c \in Commands, Begin(c), TypeOK' PROVE IInv'
  BY <1>24 DEF Begin
<1>25. ASSUME NEW ok \in BOOLEAN, ReadInput(ok), TypeOK' PROVE IInv'
  BY <1>25 DEF ReadInput
<1>26. ASSUME Kill, TypeOK' PROVE IInv'
  BY <1>26 DEF Kill
<1>27. ASSUME DestinationChanges, TypeOK' PROVE IInv'
  BY <1>27 DEF DestinationChanges
<1>28. ASSUME LateExport, TypeOK' PROVE IInv'
  BY <1>28 DEF LateExport
<1>29. CASE UNCHANGED vars
  BY <1>29 DEF vars
<1>30. CASE Next
  <2>1. TypeOK'
    BY <1>0, <1>30
  <2> QED
    BY <2>1, <1>30, <1>3, <1>4, <1>5, <1>6, <1>7, <1>8, <1>9, <1>10, <1>11, <1>12,
       <1>13, <1>14, <1>15, <1>16, <1>17, <1>18, <1>19, <1>20, <1>21, <1>22, <1>23,
       <1>24, <1>25, <1>26, <1>27, <1>28
       DEF Next, Program, Sdk, Environment
<1> QED
  BY <1>29, <1>30

-----------------------------------------------------------------------------
LEMMA InitInvariant == Init => IInv
<1> SUFFICES ASSUME Init PROVE IInv
  OBVIOUS
<1> USE DEF Init, NoKeys
<1>1. TypeOK
  BY DEF TypeOK, Stores, Steps, Commands, Other
<1>2. OperationScope /\ StoreGrows /\ CleanEnd
  BY DEF OperationScope, StoreGrows, CleanEnd, Owning, Restored, Closing, Bounded
<1>3. ReportedKept /\ SuccessMeans /\ WaitsForWork /\ RestSeen
  BY DEF ReportedKept, SuccessMeans, WaitsForWork, RestSeen
<1> QED
  BY <1>1, <1>2, <1>3 DEF IInv

LEMMA Invariant == Spec => []IInv
  BY InitInvariant, StepInvariant, PTL DEF Spec

-----------------------------------------------------------------------------
(* Every variable keeps its type, in every execution.                      *)
THEOREM TypeCorrect == Spec => []TypeOK
<1>1. IInv => TypeOK
  BY DEF IInv
<1> QED
  BY <1>1, Invariant, PTL

(* No torn crypto store is saved, in every execution: an operation that is *)
(* in the middle of a change when the store is exported was cut off, and   *)
(* the cut has made the snapshot unsafe.                                   *)
THEOREM Snapshots == Spec => []SnapshotWhole
<1>1. IInv => SnapshotWhole
  BY DEF IInv, OperationScope, SnapshotWhole
<1> QED
  BY <1>1, Invariant, PTL

(* The keys of reported uploads stay in the profile, in every execution:   *)
(* what a command saves contains what it has restored.                     *)
THEOREM Uploads == Spec => []ReportedKept
<1>1. IInv => ReportedKept
  BY DEF IInv
<1> QED
  BY <1>1, Invariant, PTL

(* A printed result means that the store is saved and the lock free, in    *)
(* every execution.                                                        *)
THEOREM Success == Spec => []SuccessMeans
<1>1. IInv => SuccessMeans
  BY DEF IInv
<1> QED
  BY <1>1, Invariant, PTL

(* The wait for the backup never goes on when the engine has ended its     *)
(* work, in every execution.                                               *)
THEOREM BackupWait == Spec => []WaitsForWork
<1>1. IInv => WaitsForWork
  BY DEF IInv
<1> QED
  BY <1>1, Invariant, PTL

(* Of all steps only PersistSnapshot writes the file, and it owns the lock.*)
LEMMA Writers == Spec => WrittenUnderLock
<1>1. IInv /\ [Next]_vars => [disk' # disk => lock = "held"]_vars
  <2> SUFFICES ASSUME IInv, Next, disk' # disk PROVE lock = "held"
    BY DEF vars
  <2>1. CASE PersistSnapshot
    BY <2>1 DEF PersistSnapshot, IInv, CleanEnd, Owning
  <2> QED
    BY <2>1
       DEF Next, Program, Sdk, Environment, outside, RestoreSnapshot, RestoreFails,
           CreateStorage, CreateFails, StatusKnown, StatusFails, InstallDownload,
           Deadline, PersistFails, PersistTimesOut, OpenProfile, OperationEnds,
           WriteTemporary, StopClient, Release, Report, OperationChanges, EngineRests,
           OperationWrites, SyncLearns, EngineUploads, Begin, ReadInput, Signal, Kill,
           DestinationChanges, LateExport
<1> QED
  BY <1>1, Invariant, PTL DEF Spec, WrittenUnderLock

(* A download takes only a path that is free, in every execution.          *)
LEMMA Downloads == Spec => DestinationUntouched
<1>1. [Next]_vars => [dest = "other" => dest' # "downloaded"]_vars
  <2> SUFFICES ASSUME Next, dest = "other" PROVE dest' # "downloaded"
    BY DEF vars
  <2> QED
    BY DEF Next, Program, Sdk, Environment, outside, RestoreSnapshot, RestoreFails,
           CreateStorage, CreateFails, StatusKnown, StatusFails, InstallDownload,
           Deadline, PersistSnapshot, PersistFails, PersistTimesOut, OpenProfile,
           OperationEnds, WriteTemporary, StopClient, Release, Report,
           OperationChanges, EngineRests, OperationWrites, SyncLearns, EngineUploads,
           Begin, ReadInput, Signal, Kill, DestinationChanges, LateExport
<1> QED
  BY <1>1, PTL DEF Spec, DestinationUntouched

(* A command replaces only what is its own, in every execution.            *)
THEOREM OwnWrites == Spec => WritesItsOwn
BY Writers, Downloads DEF WritesItsOwn

-----------------------------------------------------------------------------
(* No operation makes a key after the backup engine has reported, to this  *)
(* command, that nothing remains.                                          *)
NoKeyAfterZero ==
    [][zeroSeen /\ op = "changing" /\ op' = "written" => made' = {}]_vars

(* While that is so, the report of zero is about the keys of the operation,*)
(* and a command that goes on without an error has waited for them.        *)
BackedUp ==
    /\ made \subseteq store.keys
    /\ op \in {"running", "changing"} => made = {}
    /\ recovery /\ zeroSeen => made \subseteq backup
    /\ recovery /\ pc \in Closing /\ ~failed /\ cmd \in MakesSessions => made \subseteq backup
    /\ pc \in {"temporary", "link"} => cmd \notin MakesSessions
    /\ BackupBeforeReport

(* Only an operation whose command has failed changes the backup after     *)
(* its end; every other step adds to it.                                   *)
LEMMA BackedUpStep ==
    ASSUME IInv, IInv', BackedUp, [Next]_vars,
           zeroSeen /\ op = "changing" /\ op' = "written" => made' = {}
    PROVE  BackedUp'
<1> USE DEF IInv, TypeOK, OperationScope, StoreGrows, CleanEnd, BackedUp, BackupBeforeReport,
            Closing, Owning, Restored, Bounded, MakesSessions, GoTo, Fail, outside, server,
            opened, history
<1>1. ASSUME RestoreSnapshot PROVE BackedUp'
  BY <1>1 DEF RestoreSnapshot
<1>2. ASSUME RestoreFails PROVE BackedUp'
  BY <1>2 DEF RestoreFails
<1>3. ASSUME NEW working \in BOOLEAN, CreateStorage(working) PROVE BackedUp'
  BY <1>3 DEF CreateStorage
<1>4. ASSUME CreateFails PROVE BackedUp'
  BY <1>4 DEF CreateFails
<1>5. ASSUME StatusKnown PROVE BackedUp'
  BY <1>5 DEF StatusKnown
<1>6. ASSUME StatusFails PROVE BackedUp'
  BY <1>6 DEF StatusFails
<1>7. ASSUME NEW linked \in BOOLEAN, NEW removed \in BOOLEAN, InstallDownload(linked, removed)
       PROVE  BackedUp'
  BY <1>7 DEF InstallDownload
<1>8. ASSUME PersistSnapshot PROVE BackedUp'
  BY <1>8 DEF PersistSnapshot
<1>9. ASSUME PersistFails PROVE BackedUp'
  BY <1>9 DEF PersistFails
<1>10. ASSUME PersistTimesOut PROVE BackedUp'
  BY <1>10 DEF PersistTimesOut
<1>11. ASSUME NEW ok \in BOOLEAN, OpenProfile(ok) PROVE BackedUp'
  BY <1>11 DEF OpenProfile
<1>12. ASSUME NEW ok \in BOOLEAN, OperationEnds(ok) PROVE BackedUp'
  BY <1>12 DEF OperationEnds
<1>13. ASSUME NEW ok \in BOOLEAN, WriteTemporary(ok) PROVE BackedUp'
  BY <1>13 DEF WriteTemporary
<1>14. ASSUME NEW ok \in BOOLEAN, StopClient(ok) PROVE BackedUp'
  BY <1>14 DEF StopClient
<1>15. ASSUME NEW ok \in BOOLEAN, Release(ok) PROVE BackedUp'
  BY <1>15 DEF Release
<1>16. ASSUME NEW ok \in BOOLEAN, Report(ok) PROVE BackedUp'
  BY <1>16 DEF Report
<1>17. ASSUME OperationChanges PROVE BackedUp'
  BY <1>17 DEF OperationChanges
<1>18. ASSUME EngineRests PROVE BackedUp'
  BY <1>18 DEF EngineRests, Emits
<1>19. ASSUME NEW new \in SUBSET Keys, OperationWrites(new) PROVE BackedUp'
  BY <1>19 DEF OperationWrites
<1>20. ASSUME NEW k \in Keys, SyncLearns(k) PROVE BackedUp'
  BY <1>20 DEF SyncLearns
<1>21. ASSUME NEW k \in Keys, EngineUploads(k) PROVE BackedUp'
  BY <1>21 DEF EngineUploads, Emits
<1>22. ASSUME NEW c \in Commands, Begin(c) PROVE BackedUp'
  BY <1>22 DEF Begin, NoKeys
<1>23. ASSUME NEW ok \in BOOLEAN, ReadInput(ok) PROVE BackedUp'
  BY <1>23 DEF ReadInput
<1>24. ASSUME Kill PROVE BackedUp'
  BY <1>24 DEF Kill
<1>25. ASSUME DestinationChanges PROVE BackedUp'
  BY <1>25 DEF DestinationChanges
<1>26. ASSUME LateExport PROVE BackedUp'
  BY <1>26 DEF LateExport
<1>27. ASSUME NEW aborted \in BOOLEAN, Cut(aborted), UNCHANGED <<server, cmd, said>>
       PROVE BackedUp'
  BY <1>27 DEF Cut, OpenCut, OperationCut, SettlementCut
<1>28. ASSUME Deadline PROVE BackedUp'
  BY <1>28, <1>27 DEF Deadline
<1>29. ASSUME Signal PROVE BackedUp'
  <2>1. CASE Cut(TRUE)
    BY <1>29, <2>1, <1>27 DEF Signal
  <2>2. CASE pc \in {"input", "persist", "report"} /\ UNCHANGED opened
    BY <1>29, <2>2 DEF Signal, Cut, OpenCut, OperationCut, SettlementCut
  <2> QED
    BY <1>29, <2>1, <2>2 DEF Signal, Cut, OpenCut, OperationCut, SettlementCut
<1>30. CASE UNCHANGED vars
  BY <1>30 DEF vars
<1> QED
  BY <1>1, <1>2, <1>3, <1>4, <1>5, <1>6, <1>7, <1>8, <1>9, <1>10, <1>11, <1>12,
     <1>13, <1>14, <1>15, <1>16, <1>17, <1>18, <1>19, <1>20, <1>21, <1>22, <1>23,
     <1>24, <1>25, <1>26, <1>27, <1>28, <1>29, <1>30
     DEF Next, Program, Sdk, Environment

(* For any keys: the command does not report success while a key may still *)
(* be missing from the backup, in every execution in which the engine      *)
(* reports zero to it only after its operation has made its keys.  That    *)
(* early report is all there is to the finding.                            *)
THEOREM BackupIfNotEarly == Spec /\ NoKeyAfterZero => []BackupBeforeReport
<1> DEFINE Q == zeroSeen /\ op = "changing" /\ op' = "written" => made' = {}
<1>1. Init => BackedUp
  BY DEF Init, BackedUp, BackupBeforeReport, Closing, NoKeys
<1>2. IInv /\ IInv' /\ BackedUp /\ [Next]_vars /\ [Q]_vars => BackedUp'
  <2>1. ASSUME UNCHANGED vars PROVE Q
    BY <2>1 DEF vars, opened
  <2> QED
    BY <2>1, BackedUpStep
<1>3. BackedUp => BackupBeforeReport
  BY DEF BackedUp
<1>4. NoKeyAfterZero <=> [][Q]_vars
  BY DEF NoKeyAfterZero
<1> HIDE DEF Q
<1> QED
  BY <1>1, <1>2, <1>3, <1>4, Invariant, PTL DEF Spec

-----------------------------------------------------------------------------
(* How many steps of its own a process that has the lock is away from      *)
(* giving it back, at most.                                                *)
Place ==
    CASE pc = "restore" -> 8
      [] pc = "create" -> 7
      [] pc = "op" -> 6
      [] pc \in {"status", "temporary"} -> 5
      [] pc \in {"waiting", "link"} -> 4
      [] pc = "close" -> 3
      [] pc = "persist" -> 2
      [] pc = "release" -> 1
      [] OTHER -> 0
Within(k) == lock = "held" /\ Place <= k

(* The lock is held only at these places.                                  *)
Placed == lock = "held" => pc \in Owning

(* A process that gives the lock back, or is killed, does so at once.      *)
LEMMA PlacedStep == IInv /\ Placed /\ [Next]_vars => Placed'
<1> SUFFICES ASSUME IInv, Placed, [Next]_vars PROVE Placed'
  OBVIOUS
<1> USE DEF Placed, Owning, GoTo, Fail, outside, opened, history
<1>1. ASSUME Program PROVE Placed'
  BY <1>1 DEF Program, RestoreSnapshot, RestoreFails, CreateStorage, CreateFails,
       StatusKnown, StatusFails, InstallDownload, Deadline, Cut, OpenCut, OperationCut,
       SettlementCut, PersistSnapshot, PersistFails, PersistTimesOut, OpenProfile,
       OperationEnds, WriteTemporary, StopClient, Release, Report
<1>2. ASSUME Sdk PROVE Placed'
  BY <1>2
     DEF Sdk, OperationChanges, EngineRests, Emits, OperationWrites, SyncLearns,
         EngineUploads
<1>3. ASSUME Environment PROVE Placed'
  BY <1>3
     DEF Environment, Begin, ReadInput, Signal, Cut, OpenCut, OperationCut, SettlementCut,
         Kill, DestinationChanges, LateExport
<1>4. CASE UNCHANGED vars
  BY <1>4 DEF vars
<1> QED
  BY <1>1, <1>2, <1>3, <1>4 DEF Next

(* Every step of the program brings it nearer.                             *)
LEMMA ProgramStep ==
    IInv /\ Placed /\ lock = "held" /\ Program => lock' # "held" \/ Place' < Place
<1> SUFFICES ASSUME IInv, Placed, lock = "held", Program, lock' = "held"
             PROVE  Place' < Place
  OBVIOUS
<1>1. pc \in Owning
  BY DEF Placed
<1> QED
  BY <1>1 DEF Place, Owning, GoTo, Fail, outside, opened, history, Program,
       RestoreSnapshot, RestoreFails, CreateStorage, CreateFails, StatusKnown,
       StatusFails, InstallDownload, Deadline, Cut, OpenCut, OperationCut,
       SettlementCut, PersistSnapshot, PersistFails, PersistTimesOut, OpenProfile,
       OperationEnds, WriteTemporary, StopClient, Release, Report

(* No step, of the program, the SDK or a signal, takes a process that has  *)
(* the lock away from giving it back.                                      *)
LEMMA NoStepBack ==
    IInv /\ Placed /\ lock = "held" /\ [Next]_vars => lock' # "held" \/ Place' <= Place
<1> SUFFICES ASSUME IInv, Placed, lock = "held", [Next]_vars, lock' = "held"
             PROVE  Place' <= Place
  OBVIOUS
<1> USE DEF Place, GoTo, Fail, outside, opened, history
<1>1. ASSUME Program PROVE Place' <= Place
  BY <1>1, ProgramStep
<1>2. ASSUME Sdk PROVE Place' <= Place
  BY <1>2
     DEF Sdk, OperationChanges, EngineRests, Emits, OperationWrites, SyncLearns,
         EngineUploads
<1>3. ASSUME Environment PROVE Place' <= Place
  BY <1>3
     DEF Environment, Begin, ReadInput, Signal, Cut, OpenCut, OperationCut, SettlementCut,
         Kill, DestinationChanges, LateExport
<1>4. CASE UNCHANGED vars
  BY <1>4 DEF vars
<1> QED
  BY <1>1, <1>2, <1>3, <1>4 DEF Next

(* A program that takes its steps gets nearer, whatever happens meanwhile. *)
LEMMA Nearer ==
    ASSUME NEW k \in 1..8
    PROVE  /\ IInv /\ Placed /\ Within(k) /\ [Next]_vars => Within(k)' \/ lock' # "held"
           /\ IInv /\ Placed /\ Within(k) /\ <<Program>>_vars =>
                Within(k - 1)' \/ lock' # "held"
<1>1. IInv /\ Placed /\ Within(k) /\ [Next]_vars => Within(k)' \/ lock' # "held"
  BY NoStepBack DEF Within, Place
<1>2. IInv /\ Placed /\ Within(k) /\ <<Program>>_vars => Within(k - 1)' \/ lock' # "held"
  BY ProgramStep DEF Within, Place
<1> QED
  BY <1>1, <1>2

(* For any keys: a command gives the lock back, whatever fails or hangs,   *)
(* if its program goes on (LiveSpec), as it always can (NeverStuck).       *)
THEOREM LockGivenBack == LiveSpec /\ []NeverStuck => LockReleased
<1> DEFINE Free == lock # "held"
           Sure == IInv /\ Placed
           P1 == Within(1)
           P2 == Within(2)
           P3 == Within(3)
           P4 == Within(4)
           P5 == Within(5)
           P6 == Within(6)
           P7 == Within(7)
           P8 == Within(8)
<1>1. /\ Sure /\ P8 /\ [Next]_vars => P8' \/ Free'
      /\ Sure /\ P8 /\ <<Program>>_vars => P7' \/ Free'
  BY Nearer
<1>2. /\ Sure /\ P7 /\ [Next]_vars => P7' \/ Free'
      /\ Sure /\ P7 /\ <<Program>>_vars => P6' \/ Free'
  BY Nearer
<1>3. /\ Sure /\ P6 /\ [Next]_vars => P6' \/ Free'
      /\ Sure /\ P6 /\ <<Program>>_vars => P5' \/ Free'
  BY Nearer
<1>4. /\ Sure /\ P5 /\ [Next]_vars => P5' \/ Free'
      /\ Sure /\ P5 /\ <<Program>>_vars => P4' \/ Free'
  BY Nearer
<1>5. /\ Sure /\ P4 /\ [Next]_vars => P4' \/ Free'
      /\ Sure /\ P4 /\ <<Program>>_vars => P3' \/ Free'
  BY Nearer
<1>6. /\ Sure /\ P3 /\ [Next]_vars => P3' \/ Free'
      /\ Sure /\ P3 /\ <<Program>>_vars => P2' \/ Free'
  BY Nearer
<1>7. /\ Sure /\ P2 /\ [Next]_vars => P2' \/ Free'
      /\ Sure /\ P2 /\ <<Program>>_vars => P1' \/ Free'
  BY Nearer
<1>8. /\ Sure /\ P1 /\ [Next]_vars => P1' \/ Free'
      /\ Sure /\ P1 /\ Sure' /\ <<Program>>_vars => Free'
  <2>1. Placed' => ~Within(0)'
    BY DEF Placed, Within, Place, Owning
  <2> QED
    BY <2>1, Nearer
<1>9. Free \/ P8
  BY DEF Within, Place
<1>10. ~Free /\ NeverStuck => ENABLED <<Program>>_vars
  BY DEF NeverStuck
<1>11. Init => Placed
  BY DEF Init, Placed
<1>12. IInv /\ Placed /\ [Next]_vars => Placed'
  BY PlacedStep
<1>13. (lock = "held" <=> ~Free) /\ (lock # "held" <=> Free)
  OBVIOUS
<1> HIDE DEF P1, P2, P3, P4, P5, P6, P7, P8, Free
<1>14. Spec => []Sure
  BY <1>11, <1>12, Invariant, PTL DEF Spec
<1> HIDE DEF Sure
<1>15. LiveSpec /\ []NeverStuck => (~Free ~> Free)
  BY <1>1, <1>2, <1>3, <1>4, <1>5, <1>6, <1>7, <1>8, <1>9, <1>10, <1>14, PTL DEF Spec,
       LiveSpec
<1> QED
  BY <1>13, <1>15, PTL DEF LockReleased
=============================================================================
