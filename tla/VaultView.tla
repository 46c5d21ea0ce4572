------------------------------ MODULE VaultView ------------------------------
(***************************************************************************)
(* The file view of the web client: the vault list                         *)
(* (src/components/FileManager.tsx) and the panels that show the selected  *)
(* tree: its contents (VaultContents.tsx), its details (DetailsPanel.tsx)  *)
(* and its members (MembersPanel.tsx).  They share no state but the        *)
(* selection, so a behaviour follows one of them, the view; to a panel,    *)
(* the list is an environment that selects any tree at any time.           *)
(*                                                                         *)
(* Every view polls, runs one mutation at a time, and guards what it does  *)
(* after an await with counters, which are raised when its identity, the   *)
(* tree it shows, changes (generation) and when a newer request starts     *)
(* (request).  The code only compares a captured counter with the current  *)
(* one, so a request here carries whether the counter has been raised      *)
(* since.                                                                  *)
(*                                                                         *)
(* A panel is one component instance as long as some tree is selected:     *)
(* React renders it with the next tree at once and runs its identity       *)
(* effect later, but before a user event and before another render.  A     *)
(* tree is a vault or a folder in it: both are selected by a new treeId.   *)
(* The SDK and the homeserver are external; the end of the account session *)
(* makes requests fail and unmounts the view.                              *)
(***************************************************************************)
EXTENDS Naturals, FiniteSets

CONSTANTS
    Vaults,     \* trees that can be selected
    Ops,        \* bound: mutations in flight, stale ones included
    Slots,      \* bound: polls in flight, stale ones included
    MaxVer,     \* bound: changes at the server
    MaxFiles,   \* bound: files of an upload
    None

Reads == Ops \union Slots           \* refreshes: of a mutation, by a poll

Listing == [ver : 0..MaxVer, set : SUBSET Vaults]

Views(trees)     == [tree : trees, of : Listing]
Refreshes(trees) == [tree : trees, fresh : BOOLEAN, last : BOOLEAN, got : Listing \union {None}]
Mutations(kinds, trees) ==
    [kind : kinds, tree : trees, fresh : BOOLEAN, mounted : BOOLEAN,
     step : {"read", "lock", "list", "create", "put", "refresh"}, served : BOOLEAN,
     found : BOOLEAN, prev : Ops \union {None}, left : 0..MaxFiles - 1,
     vault : Vaults \union {None}, still : BOOLEAN]

ASSUME ViewConstants ==
    /\ MaxVer \in Nat /\ MaxFiles \in Nat \ {0}
    /\ None \notin Vaults \union Ops /\ "vaults" \notin Vaults
    /\ Ops \intersect Slots = {}

ASSUME NoneIsNothing ==
    LET kinds == {"folder", "files", "change", "new", "delete"}
        trees == Vaults \union {"vaults"}
    IN /\ None \notin Listing /\ None \notin trees
       /\ None \notin Views(trees) /\ None \notin Refreshes(trees)
       /\ None \notin Mutations(kinds, trees)

VARIABLES
    view,       \* the view followed
    \* the homeserver
    ver,        \* how often anything has changed
    exists,     \* the vaults of the account
    dirs,       \* trees with the subfolder an upload asks for
    \* the view
    at,         \* its identity, or None: not mounted
    seen,       \* the identity of its last effect
    shown,      \* its listing, or None while loading and after an error
    busy, inFlight,
    locks,      \* pathLocks: the last lock of the path in each tree, by its owner
    sel,        \* rootVault of the vault list
    \* requests
    reads, ops,
    mine        \* history: subfolders that exist in a tree and were made by the
                \* instance that is mounted

server == <<view, ver, exists, dirs>>
guards == <<busy, inFlight, locks, ops>>
vars   == <<server, at, seen, shown, guards, sel, reads, mine>>

(* What the vault list shows is a tree, too.                               *)
Trees == IF view = "list" THEN {"vaults"} ELSE Vaults

Init ==
    /\ view \in {"list", "contents", "details", "members"}
    /\ ver = 0
    /\ exists \in IF view = "list" THEN SUBSET Vaults ELSE {Vaults}
    /\ dirs = {} /\ mine = [t \in Vaults |-> 0]
    /\ at = None /\ seen = None /\ shown = None /\ sel = None
    /\ busy = FALSE /\ inFlight = FALSE /\ locks = [t \in Vaults |-> None]
    /\ reads = [r \in Reads |-> None] /\ ops = [o \in Ops |-> None]

(* Names with an underscore are faulty variants of the definition that     *)
(* follows them, plausible mistakes in the code.  They are not part of the *)
(* specification.                                                          *)

-----------------------------------------------------------------------------
(* Identity.                                                               *)
Settled == seen = at

\* Every counter is raised; the unmounted instance has its own locks.
Outdates(t) ==
    /\ reads' = [r \in Reads |-> IF reads[r] = None THEN None
                                 ELSE [reads[r] EXCEPT !.fresh = FALSE, !.last = FALSE]]
    /\ ops' = [o \in Ops |-> IF ops[o] = None THEN None
                 ELSE [ops[o] EXCEPT !.fresh = FALSE, !.mounted = @ /\ t # None]]
    /\ IF t = None THEN /\ locks' = [x \in Vaults |-> None]
                        /\ mine' = [x \in Vaults |-> 0]
                   ELSE UNCHANGED <<locks, mine>>

\* An effect that does not reset busy.
Settle_KeepsBusy(t) ==
    /\ seen' = t /\ shown' = None /\ inFlight' = FALSE /\ sel' = None
    /\ Outdates(t)
    /\ UNCHANGED busy

(* The clean-up of the last identity and the effect of the next one.  (The *)
(* list, whose effect keeps busy, is mounted anew: it starts like this.)   *)
Settle(t) ==
    /\ seen' = t /\ shown' = None /\ busy' = FALSE /\ inFlight' = FALSE /\ sel' = None
    /\ Outdates(t)

(* The identity changes: at once with its effect by a user event, before   *)
(* it by an answer to the list (a new vault is selected).  Of an unmount   *)
(* and of a first rendering, which have nothing else to show, the effect   *)
(* is not told apart.                                                      *)
Select(t) ==
    /\ Settled /\ t # at
    /\ at' = t
    /\ \/ Settle(t)
       \/ None \notin {t, at} /\ UNCHANGED <<seen, shown, guards, sel, reads, mine>>
    /\ UNCHANGED server

Effect ==
    /\ ~Settled
    /\ Settle(at)
    /\ UNCHANGED <<server, at>>

-----------------------------------------------------------------------------
(* Refreshes.                                                              *)

\* ++refreshRequestRef.current; the requests are sent.
StartRead(r, t) ==
    reads' = [x \in Reads |->
       IF x = r THEN [tree |-> t, fresh |-> TRUE, last |-> TRUE, got |-> None]
       ELSE IF reads[x] # None THEN [reads[x] EXCEPT !.last = FALSE]
       ELSE None]

(* One poll follows the other until the effect that ends the loop.  The    *)
(* details start another loop when their entry is selected once more; as   *)
(* they have no mutations, any name does for such a poll.                  *)
Polls == IF view = "details" THEN Reads ELSE Slots
Poll(s) ==
    /\ Settled /\ at # None /\ reads[s] = None
    /\ view = "details" \/ \A x \in Slots : reads[x] # None => ~reads[x].fresh
    /\ StartRead(s, at)
    /\ UNCHANGED <<server, at, seen, shown, guards, sel, mine>>

\* The server reads what it answers.
ReadServed(r) ==
    /\ reads[r] # None /\ reads[r].got = None
    /\ reads' = [reads EXCEPT ![r].got =
         [ver |-> ver, set |-> IF view = "list" THEN exists ELSE {}]]
    /\ UNCHANGED <<server, at, seen, shown, guards, sel, mine>>

\* refresh without its guard.
CurrentRead_Always(r) == TRUE

\* refresh without the comparison of requests.
CurrentRead_AnyRequest(r) == reads[r].fresh /\ at = reads[r].tree

(* isCurrentRefresh and the request.  Rendering has made the tree selected *)
(* the current one.  The contents give a refresh its mutation.             *)
CurrentRead(r) ==
    /\ reads[r].fresh /\ reads[r].last
    /\ at = reads[r].tree
    /\ view = "contents" /\ r \in Ops /\ ops[r] # None => ops[r].fresh

(* navigationGenerationRef is raised.                                      *)
Navigated == [o \in Ops |-> IF ops[o] = None THEN None ELSE [ops[o] EXCEPT !.still = FALSE]]

(* A selected vault that is gone, or a list that cannot be read, clears    *)
(* the selection.                                                          *)
RefreshSelection(ok, set) ==
    /\ sel' = (IF ok /\ sel \in set THEN sel ELSE None)
    /\ ops' = (IF ~ok \/ sel' # sel THEN Navigated ELSE ops)

\* A panel that shows what a failed request has left undefined.
ReadEnds_Undefined(r, ok) ==
    /\ reads[r] # None /\ (ok => reads[r].got # None)
    /\ reads' = [reads EXCEPT ![r] = None]
    /\ IF CurrentRead(r)
         THEN /\ shown' = [tree |-> reads[r].tree, of |-> reads[r].got]
              /\ UNCHANGED <<ops, sel>>
         ELSE UNCHANGED <<shown, ops, sel>>
    /\ UNCHANGED <<server, at, seen, busy, inFlight, locks, mine>>

ReadEnds(r, ok) ==
    /\ reads[r] # None /\ (ok => reads[r].got # None)
    /\ reads' = [reads EXCEPT ![r] = None]
    /\ IF CurrentRead(r)
         THEN /\ shown' = (IF ok THEN [tree |-> reads[r].tree, of |-> reads[r].got] ELSE None)
              /\ IF view = "list" THEN RefreshSelection(ok, reads[r].got.set)
                                  ELSE UNCHANGED <<ops, sel>>
         ELSE UNCHANGED <<shown, ops, sel>>
    /\ UNCHANGED <<server, at, seen, busy, inFlight, locks, mine>>

-----------------------------------------------------------------------------
(* Mutations.  An upload of files or of a folder reads each file and puts  *)
(* it; the others are one request: a change is a deletion, a rename, a new *)
(* subfolder or (members) a share.  A download, which is over with its     *)
(* answer, is like a change that fails.                                    *)
Uploads == {"folder", "files"}

Kinds == CASE view = "contents" -> Uploads \union {"change"}
           [] view = "members"  -> {"change"}
           [] view = "details"  -> {}
           [] view = "list"     -> {"new", "delete", "change"}

(* isCurrentMutation, isCurrentStorage.                                    *)
Current(o) == ops[o].fresh /\ at = ops[o].tree

(* ensurePath holds the lock of its path segment in these steps.           *)
Holds(x) == x # None /\ x.step \in {"lock", "list", "create"}

\* ensurePath that gives the lock back only when it has a folder.
Becomes_KeepsLock(o, x) ==
    IF Holds(ops[o]) /\ ~Holds(x) /\ x # None
      THEN /\ ops' = [p \in Ops |-> IF p = o THEN x
                        ELSE IF ops[p] # None /\ ops[p].prev = o
                        THEN [ops[p] EXCEPT !.prev = None] ELSE ops[p]]
           /\ locks' = [t \in Vaults |-> IF locks[t] = o THEN None ELSE locks[t]]
      ELSE ops' = [ops EXCEPT ![o] = x] /\ UNCHANGED locks

(* Its "finally" gives the lock to the next in line.                       *)
Becomes(o, x) ==
    IF Holds(ops[o]) /\ ~Holds(x)
      THEN /\ ops' = [p \in Ops |-> IF p = o THEN x
                        ELSE IF ops[p] # None /\ ops[p].prev = o
                        THEN [ops[p] EXCEPT !.prev = None] ELSE ops[p]]
           /\ locks' = [t \in Vaults |-> IF locks[t] = o THEN None ELSE locks[t]]
      ELSE ops' = [ops EXCEPT ![o] = x] /\ UNCHANGED locks

GoOn(o, step) ==
    /\ Becomes(o, [ops[o] EXCEPT !.step = step, !.served = FALSE, !.found = FALSE])
    /\ UNCHANGED <<busy, inFlight>>

NextFile(o) ==
    /\ Becomes(o, [ops[o] EXCEPT !.step = "read", !.served = FALSE, !.left = @ - 1])
    /\ UNCHANGED <<busy, inFlight>>

(* The "finally" of a handler: releaseMutation, then setBusy.              *)
Finish(o) ==
    /\ Becomes(o, None)
    /\ inFlight' = (inFlight /\ ~ops[o].fresh)
    /\ busy' = (busy /\ ~Current(o))

(* captureMutation, on a user event.  The vault to delete is one of the    *)
(* list.                                                                   *)
Capture(o, kind, n, v) ==
    /\ Settled /\ at # None /\ ~inFlight /\ ops[o] = None /\ reads[o] = None
    /\ kind \in Kinds
    /\ kind \notin Uploads => n = 1
    /\ IF kind = "delete" THEN shown # None /\ v \in shown.of.set ELSE v = None
    /\ inFlight' = TRUE /\ busy' = TRUE
    /\ ops' = [ops EXCEPT ![o] =
         [kind |-> kind, tree |-> at, fresh |-> TRUE, mounted |-> TRUE,
          step |-> IF kind \in Uploads THEN "read" ELSE "put", served |-> FALSE,
          found |-> FALSE, prev |-> None, left |-> n - 1, vault |-> v, still |-> TRUE]]
    /\ UNCHANGED <<server, at, seen, shown, locks, sel, reads, mine>>

\* ensurePath that does not wait for the lock before its own.
EnterPath_NoWait(o) ==
    /\ ops' = [ops EXCEPT ![o].step = "lock"]
    /\ locks' = [locks EXCEPT ![ops[o].tree] = o]
    /\ UNCHANGED <<busy, inFlight>>

\* The lock of the path is put behind the last one.
EnterPath(o) ==
    /\ ops' = [ops EXCEPT ![o].step = "lock", ![o].prev = locks[ops[o].tree]]
    /\ locks' = [locks EXCEPT ![ops[o].tree] = o]
    /\ UNCHANGED <<busy, inFlight>>

\* readFileBytes is done, or fails.
FileRead(o, ok) ==
    /\ ops[o] # None /\ ops[o].step = "read"
    /\ IF ~ok \/ ~Current(o) THEN Finish(o)
       ELSE IF ops[o].kind = "files" THEN GoOn(o, "put")
       ELSE EnterPath(o)
    /\ UNCHANGED <<server, at, seen, shown, sel, reads, mine>>

Locked(o) ==
    /\ ops[o] # None /\ ops[o].step = "lock" /\ ops[o].prev = None
    /\ IF Current(o) THEN GoOn(o, "list") ELSE Finish(o)
    /\ UNCHANGED <<server, at, seen, shown, sel, reads, mine>>

(* The server acts on a request: listSubfolders, createSubfolder, or the   *)
(* mutation itself.  It may make the account lose or gain a vault, or a    *)
(* tree lose the subfolder.                                                *)
Asks(o, step) == ops[o] # None /\ ops[o].step = step /\ ~ops[o].served
Serve(o, v) ==
    ops' = [ops EXCEPT ![o].served = TRUE, ![o].vault = v,
              ![o].found = ops[o].step = "list" /\ ops[o].tree \in dirs]
Bump == ver < MaxVer /\ ver' = ver + 1

ListServed(o) ==
    /\ Asks(o, "list")
    /\ Serve(o, None)
    /\ UNCHANGED <<server, at, seen, shown, busy, inFlight, locks, sel, reads, mine>>

CreateServed(o) ==
    /\ Asks(o, "create") /\ Serve(o, None) /\ Bump
    /\ dirs' = dirs \union {ops[o].tree}
    /\ mine' = [mine EXCEPT ![ops[o].tree] = IF ops[o].mounted THEN @ + 1 ELSE @]
    /\ UNCHANGED <<view, exists, at, seen, shown, busy, inFlight, locks, sel, reads>>

PutServed(o) ==
    /\ view # "list" /\ Asks(o, "put")
    /\ Serve(o, None) /\ Bump
    /\ \/ UNCHANGED <<dirs, mine>>
       \/ /\ ops[o].kind = "change"
          /\ dirs' = dirs \ {ops[o].tree} /\ mine' = [mine EXCEPT ![ops[o].tree] = 0]
    /\ UNCHANGED <<view, exists, at, seen, shown, busy, inFlight, locks, sel, reads>>

VaultServed(o, v) ==
    /\ Asks(o, "put") /\ view = "list"
    /\ Serve(o, v) /\ Bump
    /\ CASE ops[o].kind = "new"    -> v \notin exists /\ exists' = exists \union {v}
         [] ops[o].kind = "delete" -> v = ops[o].vault /\ exists' = exists \ {v}
         [] ops[o].kind = "change" -> exists' \in {exists, exists \union {v}}
    /\ UNCHANGED <<view, dirs, at, seen, shown, busy, inFlight, locks, sel, reads, mine>>

(* After every await a mutation is over when it is no longer current.      *)
PathAnswered(o, ok) ==
    /\ ops[o] # None /\ ops[o].step \in {"list", "create"} /\ (ok => ops[o].served)
    /\ IF ~ok \/ ~Current(o) THEN Finish(o)
       ELSE GoOn(o, IF ops[o].step = "list" /\ ~ops[o].found THEN "create" ELSE "put")
    /\ UNCHANGED <<server, at, seen, shown, sel, reads, mine>>

PutAnswered(o, ok) ==
    /\ view # "list" /\ ops[o] # None /\ ops[o].step = "put" /\ (ok => ops[o].served)
    /\ IF ~ok \/ ~Current(o) THEN Finish(o) /\ UNCHANGED reads
       ELSE IF ops[o].kind = "folder" /\ ops[o].left > 0 THEN NextFile(o) /\ UNCHANGED reads
       ELSE GoOn(o, "refresh") /\ StartRead(o, ops[o].tree)
    /\ UNCHANGED <<server, at, seen, shown, sel, mine>>

(* A new vault is listed, and selected unless the user has navigated       *)
(* meanwhile; a deleted one is not selected any more.  The refresh after a *)
(* deletion or an answer to an invitation is waited for, the one after a   *)
(* rename is not.                                                          *)
VaultAnswered(o, ok) ==
    /\ view = "list" /\ ops[o] # None /\ ops[o].step = "put" /\ (ok => ops[o].served)
    /\ LET x == ops[o] IN
         IF ~ok \/ ~Current(o) THEN Finish(o) /\ UNCHANGED <<reads, shown, sel>>
         ELSE /\ StartRead(o, "vaults")
              /\ IF x.kind = "new"
                   THEN /\ Finish(o)
                        /\ shown' = [tree |-> "vaults", of |->
                             IF shown = None THEN [ver |-> 0, set |-> {x.vault}]
                             ELSE [shown.of EXCEPT !.set = @ \union {x.vault}]]
                        /\ sel' = (IF x.still THEN x.vault ELSE sel)
                   ELSE /\ GoOn(o, "refresh") \/ (x.kind = "change" /\ Finish(o))
                        /\ sel' = (IF x.kind = "delete" /\ sel = x.vault THEN None ELSE sel)
                        /\ UNCHANGED shown
    /\ UNCHANGED <<server, at, seen, mine>>

\* The refresh of a mutation is over, whatever became of it.
Refreshed(o) ==
    /\ ops[o] # None /\ ops[o].step = "refresh" /\ reads[o] = None
    /\ IF Current(o) /\ ops[o].left > 0 THEN NextFile(o) ELSE Finish(o)
    /\ UNCHANGED <<server, at, seen, shown, sel, reads, mine>>

(* The user selects a vault of the list, a folder in it, or goes back.     *)
SelectVault(v) ==
    /\ view = "list" /\ shown # None /\ v \in shown.of.set \union {None}
    /\ sel' = v /\ ops' = Navigated
    /\ UNCHANGED <<server, at, seen, shown, busy, inFlight, locks, reads, mine>>

-----------------------------------------------------------------------------
(* Other clients of the same account and vaults.                           *)
OtherClient(t) ==
    /\ t \in Trees /\ Bump
    /\ IF view = "list" THEN exists' \in SUBSET Vaults /\ UNCHANGED dirs
                        ELSE dirs' \in {dirs, dirs \union {t}} /\ UNCHANGED exists
    /\ UNCHANGED <<view, at, seen, shown, guards, sel, reads, mine>>

-----------------------------------------------------------------------------
OpAdvances(o) ==
    \/ Locked(o) \/ Refreshed(o)
    \/ \E ok \in BOOLEAN :
         FileRead(o, ok) \/ PathAnswered(o, ok) \/ PutAnswered(o, ok) \/ VaultAnswered(o, ok)

Next ==
    \/ Effect
    \/ \E t \in Trees \union {None} : Select(t) \/ OtherClient(t)
    \/ \E v \in Vaults \union {None} : SelectVault(v)
    \/ \E s \in Polls : Poll(s)
    \/ \E r \in Reads : ReadServed(r) \/ \E ok \in BOOLEAN : ReadEnds(r, ok)
    \/ \E o \in Ops :
         \/ ListServed(o) \/ CreateServed(o) \/ PutServed(o) \/ OpAdvances(o)
         \/ \E v \in Vaults : VaultServed(o, v)
         \/ \E kind \in Kinds, n \in 1..MaxFiles, v \in Vaults \union {None} :
              Capture(o, kind, n, v)

Spec == Init /\ [][Next]_vars

-----------------------------------------------------------------------------
(* Every variable keeps its type.                                          *)
TypeOK ==
    /\ view \in {"list", "contents", "details", "members"}
    /\ ver \in 0..MaxVer
    /\ exists \subseteq Vaults /\ dirs \subseteq Vaults /\ mine \in [Vaults -> Nat]
    /\ at \in Trees \union {None} /\ seen \in Trees \union {None}
    /\ sel \in Vaults \union {None}
    /\ shown \in {None} \union Views(Trees)
    /\ busy \in BOOLEAN /\ inFlight \in BOOLEAN /\ locks \in [Vaults -> Ops \union {None}]
    /\ reads \in [Reads -> {None} \union Refreshes(Trees)]
    /\ ops \in [Ops -> {None} \union Mutations(Kinds, Trees)]

(* The vault selected is in the list: none stays open that is gone.        *)
SelectedIsListed == sel # None => shown # None /\ sel \in shown.of.set

(* A panel shows the tree that is selected: no listing, details or members *)
(* of the tree before, whose requests are still answered.  The list has    *)
(* the vault that is selected.                                             *)
ShowsTheSelected ==
    /\ Settled /\ shown # None => shown.tree = at
    /\ SelectedIsListed

(* What a view shows of a tree never goes back to an older state,          *)
(* whichever of a poll and a mutation's refresh is answered first.         *)
NeverGoesBack ==
    [][None \notin {shown, shown'} /\ shown'.tree = shown.tree
         => shown'.of.ver >= shown.of.ver]_vars

(* VaultContents.tsx: "concurrent folder uploads share one child instead   *)
(* of racing two createSubfolder calls for the same path segment".  True   *)
(* of the uploads of one instance, also after the user has left the folder *)
(* and come back while the first upload goes on.  Not counted is a folder  *)
(* whose request the client had given up: it appears like that of another  *)
(* client (OtherClient).                                                   *)
OneFolderPerPath == \A t \in Vaults : mine[t] <= 1

(* A view is busy exactly while a mutation of what it shows runs, and only *)
(* one does: none of an earlier tree blocks it or unblocks it.             *)
BusyTruthful ==
    /\ Cardinality({o \in Ops : ops[o] # None /\ ops[o].fresh}) <= 1
    /\ Settled => /\ busy = inFlight
                  /\ busy = (\E o \in Ops : ops[o] # None /\ ops[o].fresh)

(* An upload that waits for the lock of its path waits for one that runs   *)
(* and will give it back, also when the user has left that one: neither a  *)
(* failure nor an early return leaves a lock behind.                       *)
LocksAreHeld ==
    /\ \A t \in Vaults : locks[t] # None => Holds(ops[locks[t]]) /\ ops[locks[t]].tree = t
    /\ \A o \in Ops : ops[o] # None /\ ops[o].prev # None =>
         LET x == ops[ops[o].prev] IN
           Holds(x) /\ x.tree = ops[o].tree

(* Uploads never wait for each other in a circle, however many there are   *)
(* and whichever of them the user has left: of any set of them one waits   *)
(* for no other one of the set.                                            *)
NoCircularWait ==
    \A S \in (SUBSET Ops) \ {{}} :
        \E o \in S : ~(ops[o] # None /\ ops[o].prev \in S)

(* So whoever waits for the lock of a path waits, over the others in line, *)
(* for an upload that runs and does not wait itself.                       *)
UploadsGoOn == LocksAreHeld /\ NoCircularWait

=============================================================================
