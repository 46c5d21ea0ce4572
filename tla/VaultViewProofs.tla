---------------------------- MODULE VaultViewProofs ----------------------------
(* Theorems of VaultView for all sets of trees, mutations and polls and    *)
(* every bound: its type invariant and all properties of its run.          *)
EXTENDS VaultView, FiniteSetTheorems, WellFoundedInduction, TLAPS

Runs(o)    == ops[o] # None
Fresh(o)   == Runs(o) /\ ops[o].fresh
Reading(r) == reads[r] # None

(* Everything fresh is about the identity of the last effect, and at most  *)
(* one mutation is.                                                        *)
OneIdentity ==
    /\ \A o \in Ops : Fresh(o) => ops[o].tree = seen /\ ops[o].mounted
    /\ \A r \in Reads : Reading(r) /\ reads[r].fresh => reads[r].tree = seen
    /\ shown # None => shown.tree = seen
    /\ view # "list" => sel = None
    /\ \A o, p \in Ops : Fresh(o) /\ Fresh(p) => o = p
    /\ inFlight <=> \E o \in Ops : Fresh(o)
    /\ Settled => busy = inFlight

(* Only one refresh is the last one, and its answer is no older than what  *)
(* is shown.                                                               *)
Recent ==
    /\ shown # None => shown.of.ver <= ver
    /\ \A r \in Reads : Reading(r) /\ reads[r].got # None => reads[r].got.ver <= ver
    /\ \A r, s \in Reads :
         Reading(r) /\ Reading(s) /\ reads[r].last /\ reads[s].last => r = s
    /\ \A r \in Reads : Reading(r) /\ reads[r].last /\ reads[r].fresh =>
         (None \notin {reads[r].got, shown} => shown.of.ver <= reads[r].got.ver)

(* The server has made the vault that an answer is about.                  *)
NewVaults ==
    \A o \in Ops :
        Runs(o) /\ ops[o].kind = "new" /\ ops[o].step = "put" /\ ops[o].served =>
            ops[o].vault \in Vaults \/ view # "list"

(* Who waits for a lock belongs to the same instance as its owner.         *)
SameInstance ==
    /\ \A o \in Ops : Runs(o) /\ ops[o].prev # None =>
         ops[o].step = "lock" /\ ops[ops[o].prev].mounted = ops[o].mounted
    /\ \A t \in Vaults : locks[t] # None => ops[locks[t]].mounted

(* The mutations of a path are in line: each has its own place, the last   *)
(* lock has the last one, and the next lower is that of the one waited for.*)
InLine(o) == Runs(o) /\ ops[o].mounted /\ Holds(ops[o])
Ranks(rank, o) ==
    LET t == ops[o].tree IN
    /\ locks[t] # None /\ rank[o] <= rank[locks[t]]
    /\ \A p \in Ops : InLine(p) /\ ops[p].tree = t =>
         /\ p # o => rank[p] # rank[o]
         /\ IF ops[o].prev = None THEN rank[o] <= rank[p]
            ELSE /\ rank[ops[o].prev] < rank[o]
                 /\ rank[p] <= rank[ops[o].prev] \/ rank[p] >= rank[o]
Queue ==
    \E rank \in [Ops -> Nat], n \in Nat :
        \A o \in Ops : rank[o] < n /\ (InLine(o) => Ranks(rank, o))

(* Who waits has got in line later than the one it waits for, also in the  *)
(* lines of an instance that is gone.                                      *)
Waits(o) == Runs(o) /\ ops[o].prev # None
InOrder ==
    \E turn \in [Ops -> Nat], n \in Nat :
        \A o \in Ops : turn[o] < n /\ (Waits(o) => turn[ops[o].prev] < turn[o])

(* Only uploads read files and make folders, and only in vaults.           *)
IntoVaults ==
    \A o \in Ops :
        Runs(o) /\ (ops[o].step \notin {"put", "refresh"} \/ ops[o].left > 0) =>
            ops[o].tree \in Vaults

(* Who is about to make a subfolder is the first to do so.                 *)
Folders ==
    /\ \A t \in Vaults : mine[t] > 0 => mine[t] = 1 /\ t \in dirs
    /\ \A o \in Ops : Runs(o) /\ ops[o].mounted =>
         (\/ ops[o].step = "list" /\ ops[o].served /\ ~ops[o].found
          \/ ops[o].step = "create" /\ ~ops[o].served
          => mine[ops[o].tree] = 0)

(* The inductive invariant.                                                *)
IInv ==
    /\ TypeOK
    /\ OneIdentity
    /\ Recent
    /\ NewVaults
    /\ IntoVaults
    /\ SelectedIsListed
    /\ LocksAreHeld
    /\ SameInstance
    /\ Queue
    /\ InOrder
    /\ Folders

-----------------------------------------------------------------------------
(* The requests of a view are no less than all that NoneIsNothing is about.*)
LEMMA NotNone ==
    ASSUME TypeOK
    PROVE  /\ None \notin Listing /\ None \notin Trees
           /\ None \notin Views(Trees) /\ None \notin Refreshes(Trees)
           /\ None \notin Mutations(Kinds, Trees)
<1>1. Kinds \subseteq {"folder", "files", "change", "new", "delete"}
  BY DEF TypeOK, Kinds, Uploads
<1>2. Trees \subseteq Vaults \union {"vaults"}
  BY DEF Trees
<1>3. /\ Views(Trees) \subseteq Views(Vaults \union {"vaults"})
      /\ Refreshes(Trees) \subseteq Refreshes(Vaults \union {"vaults"})
  BY <1>2 DEF Views, Refreshes
<1>4. Mutations(Kinds, Trees) \subseteq
        Mutations({"folder", "files", "change", "new", "delete"}, Vaults \union {"vaults"})
  BY <1>1, <1>2 DEF Mutations
<1> QED
  BY <1>2, <1>3, <1>4, NoneIsNothing

(* The updates of a mutation.                                              *)
LEMMA Updates ==
    ASSUME NEW kinds, NEW trees, NEW x \in Mutations(kinds, trees)
    PROVE  /\ [x EXCEPT !.still = FALSE] \in Mutations(kinds, trees)
           /\ [x EXCEPT !.prev = None] \in Mutations(kinds, trees)
           /\ \A m \in BOOLEAN :
                [x EXCEPT !.fresh = FALSE, !.mounted = m] \in Mutations(kinds, trees)
           /\ \A p \in Ops \union {None} :
                [x EXCEPT !.step = "lock", !.prev = p] \in Mutations(kinds, trees)
           /\ \A v \in Vaults \union {None}, f \in BOOLEAN :
                [x EXCEPT !.served = TRUE, !.vault = v, !.found = f]
                  \in Mutations(kinds, trees)
           /\ \A s \in {"read", "lock", "list", "create", "put", "refresh"} :
                [x EXCEPT !.step = s, !.served = FALSE, !.found = FALSE]
                  \in Mutations(kinds, trees)
           /\ x.left > 0 =>
                [x EXCEPT !.step = "read", !.served = FALSE, !.left = x.left - 1]
                  \in Mutations(kinds, trees)
<1> USE DEF Mutations
<1>1. [x EXCEPT !.still = FALSE] \in Mutations(kinds, trees)
  OBVIOUS
<1>2. [x EXCEPT !.prev = None] \in Mutations(kinds, trees)
  OBVIOUS
<1>3. ASSUME NEW m \in BOOLEAN
      PROVE  [x EXCEPT !.fresh = FALSE, !.mounted = m] \in Mutations(kinds, trees)
  OBVIOUS
<1>4. ASSUME NEW p \in Ops \union {None}
      PROVE  [x EXCEPT !.step = "lock", !.prev = p] \in Mutations(kinds, trees)
  OBVIOUS
<1>5. ASSUME NEW v \in Vaults \union {None}, NEW f \in BOOLEAN
      PROVE  [x EXCEPT !.served = TRUE, !.vault = v, !.found = f] \in Mutations(kinds, trees)
  OBVIOUS
<1>6. ASSUME NEW s \in {"read", "lock", "list", "create", "put", "refresh"}
      PROVE  [x EXCEPT !.step = s, !.served = FALSE, !.found = FALSE]
               \in Mutations(kinds, trees)
  OBVIOUS
<1>7. ASSUME x.left > 0
      PROVE  [x EXCEPT !.step = "read", !.served = FALSE, !.left = x.left - 1]
               \in Mutations(kinds, trees)
  <2>1. x.left - 1 \in 0..MaxFiles - 1
    BY <1>7, ViewConstants
  <2> QED
    BY <2>1
<1> QED
  BY <1>1, <1>2, <1>3, <1>4, <1>5, <1>6, <1>7

-----------------------------------------------------------------------------
(* The types after a step, in terms of the view before it.                 *)
TypesAfter ==
    /\ view' = view /\ ver' \in 0..MaxVer
    /\ exists' \subseteq Vaults /\ dirs' \subseteq Vaults /\ mine' \in [Vaults -> Nat]
    /\ at' \in Trees \union {None} /\ seen' \in Trees \union {None}
    /\ sel' \in Vaults \union {None}
    /\ shown' \in {None} \union Views(Trees)
    /\ busy' \in BOOLEAN /\ inFlight' \in BOOLEAN
    /\ locks' \in [Vaults -> Ops \union {None}]
    /\ reads' \in [Reads -> {None} \union Refreshes(Trees)]
    /\ ops' \in [Ops -> {None} \union Mutations(Kinds, Trees)]

(* They are the type invariant of the view after it.                       *)
LEMMA TypesThen == TypeOK /\ TypesAfter => TypeOK'
<1> SUFFICES ASSUME TypeOK, TypesAfter PROVE TypeOK'
  OBVIOUS
<1>1. Trees' = Trees /\ Kinds' = Kinds
  BY DEF TypesAfter, Trees, Kinds
<1> QED
  BY <1>1 DEF TypeOK, TypesAfter

(* After the effect of an identity nothing is fresh.                       *)
LEMMA AfterSettle ==
    ASSUME TypeOK, NEW t, Outdates(t)
    PROVE  /\ reads' \in [Reads -> {None} \union Refreshes(Trees)]
           /\ ops' \in [Ops -> {None} \union Mutations(Kinds, Trees)]
           /\ \A r \in Reads : Reading(r)' =>
                Reading(r) /\ reads'[r] = [reads[r] EXCEPT !.fresh = FALSE, !.last = FALSE]
           /\ \A o \in Ops : Runs(o)' <=> Runs(o)
           /\ \A o \in Ops : Runs(o) =>
                ops'[o] = [ops[o] EXCEPT !.fresh = FALSE, !.mounted = @ /\ t # None]
<1>1. /\ reads \in [Reads -> {None} \union Refreshes(Trees)]
      /\ ops \in [Ops -> {None} \union Mutations(Kinds, Trees)]
      /\ None \notin Refreshes(Trees) /\ None \notin Mutations(Kinds, Trees)
  BY NotNone DEF TypeOK
<1>2. ASSUME NEW r \in Reads, Reading(r)
      PROVE  [reads[r] EXCEPT !.fresh = FALSE, !.last = FALSE] \in Refreshes(Trees)
  BY <1>1, <1>2 DEF Reading, Refreshes
<1>3. reads' \in [Reads -> {None} \union Refreshes(Trees)]
  BY <1>1, <1>2 DEF Outdates, Reading
<1>4. ASSUME NEW o \in Ops, Runs(o)
      PROVE  /\ ops[o] \in Mutations(Kinds, Trees)
             /\ [ops[o] EXCEPT !.fresh = FALSE, !.mounted = @ /\ t # None]
                   \in Mutations(Kinds, Trees)
  <2>1. ops[o] \in Mutations(Kinds, Trees)
    BY <1>1, <1>4 DEF Runs
  <2>2. (ops[o].mounted /\ t # None) \in BOOLEAN
    BY <2>1 DEF Mutations
  <2> QED
    BY <2>1, <2>2, Updates
<1>5. ops' \in [Ops -> {None} \union Mutations(Kinds, Trees)]
  BY <1>4 DEF Outdates, Runs
<1>6. \A o \in Ops : Runs(o)' <=> Runs(o)
  BY <1>1, <1>4 DEF Outdates, Runs
<1>7. \A o \in Ops : Runs(o) =>
        ops'[o] = [ops[o] EXCEPT !.fresh = FALSE, !.mounted = @ /\ t # None]
  BY DEF Outdates, Runs
<1>8. \A r \in Reads : Reading(r)' =>
        Reading(r) /\ reads'[r] = [reads[r] EXCEPT !.fresh = FALSE, !.last = FALSE]
  BY DEF Outdates, Reading
<1> QED
  BY <1>3, <1>5, <1>6, <1>7, <1>8

(* The same mutation, but for what it waits for and for navigation.        *)
Alike(x, y) ==
    /\ x.kind = y.kind /\ x.tree = y.tree /\ x.fresh = y.fresh /\ x.mounted = y.mounted
    /\ x.step = y.step /\ x.served = y.served /\ x.found = y.found /\ x.vault = y.vault
    /\ x.left = y.left

(* Navigation changes nothing else of the mutations.                       *)
LEMMA AfterNavigation ==
    ASSUME TypeOK, ops' = ops \/ ops' = Navigated
    PROVE  /\ ops' \in [Ops -> {None} \union Mutations(Kinds, Trees)]
           /\ \A o \in Ops :
                /\ Runs(o)' <=> Runs(o)
                /\ Runs(o) => Alike(ops'[o], ops[o]) /\ ops'[o].prev = ops[o].prev
<1>1. /\ ops \in [Ops -> {None} \union Mutations(Kinds, Trees)]
      /\ None \notin Mutations(Kinds, Trees)
  BY NotNone DEF TypeOK
<1>2. ASSUME NEW x \in Mutations(Kinds, Trees)
      PROVE  /\ [x EXCEPT !.still = FALSE] \in Mutations(Kinds, Trees)
             /\ Alike([x EXCEPT !.still = FALSE], x)
             /\ [x EXCEPT !.still = FALSE].prev = x.prev
  <2>1. [x EXCEPT !.still = FALSE] \in Mutations(Kinds, Trees)
    BY Updates
  <2>2. /\ Alike([x EXCEPT !.still = FALSE], x)
        /\ [x EXCEPT !.still = FALSE].prev = x.prev
    BY DEF Mutations, Alike
  <2> QED
    BY <2>1, <2>2
<1>3. CASE ops' = ops
  BY <1>1, <1>3 DEF Runs, Alike
<1>4. CASE ops' = Navigated
  <2>1. \A o \in Ops : ops'[o] = IF ops[o] = None THEN None ELSE [ops[o] EXCEPT !.still = FALSE]
    BY <1>4 DEF Navigated
  <2>2. ops' \in [Ops -> {None} \union Mutations(Kinds, Trees)]
    BY <1>1, <1>2, <1>4 DEF Navigated
  <2>3. ASSUME NEW o \in Ops
        PROVE  /\ Runs(o)' <=> Runs(o)
               /\ Runs(o) => Alike(ops'[o], ops[o]) /\ ops'[o].prev = ops[o].prev
    <3>1. CASE ops[o] = None
      BY <2>1, <3>1 DEF Runs
    <3>2. CASE ops[o] # None
      <4>1. ops[o] \in Mutations(Kinds, Trees) /\ ops'[o] = [ops[o] EXCEPT !.still = FALSE]
        BY <1>1, <2>1, <3>2
      <4> QED
        BY <1>1, <1>2, <4>1 DEF Runs
    <3> QED
      BY <3>1, <3>2
  <2> QED
    BY <2>2, <2>3
<1> QED
  BY <1>3, <1>4

(* A step of one mutation, which may give its lock back.                   *)
Releases(o, x) == Holds(ops[o]) /\ ~Holds(x)

(* It changes nothing of the others but what they wait for.                *)
LEMMA AfterBecomes ==
    ASSUME TypeOK, NEW o \in Ops, NEW x \in {None} \union Mutations(Kinds, Trees),
           Becomes(o, x)
    PROVE  /\ ops' \in [Ops -> {None} \union Mutations(Kinds, Trees)]
           /\ locks' \in [Vaults -> Ops \union {None}]
           /\ ops'[o] = x
           /\ \A p \in Ops \ {o} :
                /\ Runs(p)' <=> Runs(p)
                /\ Runs(p) =>
                     /\ Alike(ops'[p], ops[p])
                     /\ ops'[p].prev = IF Releases(o, x) /\ ops[p].prev = o
                                         THEN None ELSE ops[p].prev
           /\ \A t \in Vaults :
                locks'[t] = IF Releases(o, x) /\ locks[t] = o THEN None ELSE locks[t]
<1>1. /\ ops \in [Ops -> {None} \union Mutations(Kinds, Trees)]
      /\ locks \in [Vaults -> Ops \union {None}]
      /\ None \notin Mutations(Kinds, Trees)
  BY NotNone DEF TypeOK
<1>2. ASSUME NEW y \in Mutations(Kinds, Trees)
      PROVE  /\ [y EXCEPT !.prev = None] \in Mutations(Kinds, Trees)
             /\ Alike([y EXCEPT !.prev = None], y)
             /\ [y EXCEPT !.prev = None].prev = None
  <2>1. [y EXCEPT !.prev = None] \in Mutations(Kinds, Trees)
    BY Updates
  <2>2. /\ Alike([y EXCEPT !.prev = None], y)
        /\ [y EXCEPT !.prev = None].prev = None
    BY DEF Mutations, Alike
  <2> QED
    BY <2>1, <2>2
<1>3. CASE ~Releases(o, x)
  BY <1>1, <1>3 DEF Becomes, Releases, Runs, Alike
<1>4. CASE Releases(o, x)
  <2>1. /\ ops' = [p \in Ops |-> IF p = o THEN x
                    ELSE IF ops[p] # None /\ ops[p].prev = o
                    THEN [ops[p] EXCEPT !.prev = None] ELSE ops[p]]
        /\ locks' = [t \in Vaults |-> IF locks[t] = o THEN None ELSE locks[t]]
    BY <1>4 DEF Becomes, Releases
  <2>2. /\ ops' \in [Ops -> {None} \union Mutations(Kinds, Trees)]
        /\ locks' \in [Vaults -> Ops \union {None}]
    BY <1>1, <1>2, <2>1
  <2> QED
    BY <1>1, <1>2, <1>4, <2>1, <2>2 DEF Runs, Alike
<1> QED
  BY <1>3, <1>4

(* The server acts on the request of a mutation.                           *)
LEMMA AfterServe ==
    ASSUME TypeOK, NEW o \in Ops, Runs(o), NEW v \in Vaults \union {None}, Serve(o, v)
    PROVE  /\ ops' \in [Ops -> {None} \union Mutations(Kinds, Trees)]
           /\ \A p \in Ops : Runs(p)' <=> Runs(p)
           /\ \A p \in Ops \ {o} : ops'[p] = ops[p]
           /\ ops'[o].kind = ops[o].kind /\ ops'[o].tree = ops[o].tree
           /\ ops'[o].fresh = ops[o].fresh /\ ops'[o].mounted = ops[o].mounted
           /\ ops'[o].step = ops[o].step /\ ops'[o].prev = ops[o].prev
           /\ ops'[o].served = TRUE /\ ops'[o].vault = v /\ ops'[o].left = ops[o].left
           /\ ops'[o].found = (ops[o].step = "list" /\ ops[o].tree \in dirs)
<1>1. /\ ops \in [Ops -> {None} \union Mutations(Kinds, Trees)]
      /\ None \notin Mutations(Kinds, Trees)
      /\ ops[o] \in Mutations(Kinds, Trees)
  BY NotNone DEF TypeOK, Runs
<1> DEFINE f == ops[o].step = "list" /\ ops[o].tree \in dirs
           x == [ops[o] EXCEPT !.served = TRUE, !.vault = v, !.found = f]
<1>2. ops' = [ops EXCEPT ![o] = x]
  BY <1>1 DEF Serve, Mutations
<1>3. x \in Mutations(Kinds, Trees)
  BY <1>1, Updates
<1>4. /\ x.kind = ops[o].kind /\ x.tree = ops[o].tree /\ x.fresh = ops[o].fresh
      /\ x.mounted = ops[o].mounted /\ x.step = ops[o].step /\ x.prev = ops[o].prev
      /\ x.served = TRUE /\ x.vault = v /\ x.found = f /\ x.left = ops[o].left
  BY <1>1 DEF Mutations
<1> HIDE DEF x, f
<1>5. ops'[o] = x /\ \A p \in Ops \ {o} : ops'[p] = ops[p]
  BY <1>1, <1>2
<1> QED
  BY <1>1, <1>2, <1>3, <1>4, <1>5 DEF Runs, f

(* A mutation puts itself behind the last lock of its path.                *)
LEMMA AfterEnter ==
    ASSUME TypeOK, NEW o \in Ops, Runs(o), ops[o].tree \in Vaults, EnterPath(o)
    PROVE  /\ ops' \in [Ops -> {None} \union Mutations(Kinds, Trees)]
           /\ locks' \in [Vaults -> Ops \union {None}]
           /\ \A p \in Ops : Runs(p)' <=> Runs(p)
           /\ \A p \in Ops \ {o} : ops'[p] = ops[p]
           /\ ops'[o].kind = ops[o].kind /\ ops'[o].tree = ops[o].tree
           /\ ops'[o].fresh = ops[o].fresh /\ ops'[o].mounted = ops[o].mounted
           /\ ops'[o].step = "lock" /\ ops'[o].prev = locks[ops[o].tree]
           /\ ops'[o].left = ops[o].left
           /\ \A t \in Vaults : locks'[t] = IF t = ops[o].tree THEN o ELSE locks[t]
<1>1. /\ ops \in [Ops -> {None} \union Mutations(Kinds, Trees)]
      /\ locks \in [Vaults -> Ops \union {None}]
      /\ None \notin Mutations(Kinds, Trees)
      /\ ops[o] \in Mutations(Kinds, Trees)
  BY NotNone DEF TypeOK, Runs
<1> DEFINE q == locks[ops[o].tree]
           x == [ops[o] EXCEPT !.step = "lock", !.prev = q]
<1>2. ops' = [ops EXCEPT ![o] = x]
  BY <1>1 DEF EnterPath, Mutations
<1>3. x \in Mutations(Kinds, Trees)
  BY <1>1, Updates
<1>4. /\ x.kind = ops[o].kind /\ x.tree = ops[o].tree /\ x.fresh = ops[o].fresh
      /\ x.mounted = ops[o].mounted /\ x.step = "lock" /\ x.prev = q
      /\ x.left = ops[o].left
  BY <1>1 DEF Mutations
<1> HIDE DEF x, q
<1>5. ops'[o] = x /\ \A p \in Ops \ {o} : ops'[p] = ops[p]
  BY <1>1, <1>2
<1>6. /\ locks' \in [Vaults -> Ops \union {None}]
      /\ \A t \in Vaults : locks'[t] = IF t = ops[o].tree THEN o ELSE locks[t]
  BY <1>1 DEF EnterPath
<1> QED
  BY <1>1, <1>2, <1>3, <1>4, <1>5, <1>6 DEF Runs, q

(* A mutation starts.                                                      *)
LEMMA AfterCapture ==
    ASSUME TypeOK, NEW o \in Ops, NEW kind \in Kinds, NEW n \in 1..MaxFiles,
           NEW v \in Vaults \union {None}, Capture(o, kind, n, v)
    PROVE  /\ ops' \in [Ops -> {None} \union Mutations(Kinds, Trees)]
           /\ ~Runs(o) /\ Runs(o)'
           /\ \A p \in Ops \ {o} : ops'[p] = ops[p]
           /\ ops'[o].kind = kind /\ ops'[o].tree = at /\ ops'[o].fresh
           /\ ops'[o].mounted /\ ops'[o].step \in {"read", "put"} /\ ~ops'[o].served
           /\ ops'[o].prev = None
           /\ ops'[o].step = "read" \/ ops'[o].left > 0 => ops'[o].tree \in Vaults
<1>1. /\ ops \in [Ops -> {None} \union Mutations(Kinds, Trees)]
      /\ None \notin Mutations(Kinds, Trees)
      /\ at \in Trees
  BY NotNone DEF TypeOK, Capture
<1> DEFINE x == [kind |-> kind, tree |-> at, fresh |-> TRUE, mounted |-> TRUE,
                 step |-> IF kind \in Uploads THEN "read" ELSE "put", served |-> FALSE,
                 found |-> FALSE, prev |-> None, left |-> n - 1,
                 vault |-> v, still |-> TRUE]
<1>2. x \in Mutations(Kinds, Trees)
  <2>1. n - 1 \in 0..MaxFiles - 1
    BY ViewConstants
  <2> QED
    BY <1>1, <2>1 DEF Mutations
<1>3. ops' = [ops EXCEPT ![o] = x]
  BY DEF Capture
<1>4. /\ x.kind = kind /\ x.tree = at /\ x.fresh /\ x.mounted
      /\ x.step \in {"read", "put"} /\ ~x.served /\ x.prev = None
  OBVIOUS
<1>6. x.step = "read" \/ x.left > 0 => x.tree \in Vaults
  <2>1. kind \in Uploads => Trees = Vaults
    BY DEF TypeOK, Kinds, Uploads, Trees
  <2>2. kind \notin Uploads => x.step = "put" /\ x.left = 0
    BY DEF Capture
  <2> QED
    BY <1>1, <2>1, <2>2
<1> HIDE DEF x
<1>5. ops'[o] = x /\ \A p \in Ops \ {o} : ops'[p] = ops[p]
  BY <1>1, <1>3
<1> QED
  BY <1>1, <1>2, <1>3, <1>4, <1>5, <1>6 DEF Runs, Capture

-----------------------------------------------------------------------------
(* What the continuations of a mutation have in common: it is over, waits  *)
(* for the lock of its path, or goes on.                                   *)
Continues(o) ==
    /\ Runs(o) /\ UNCHANGED <<server, at, seen, mine>>
    /\ ops[o].step = "lock" => ops[o].prev = None

Over(o) == Continues(o) /\ Finish(o)

Enters(o) ==
    /\ Continues(o) /\ Current(o) /\ ops[o].step = "read" /\ ops[o].tree \in Vaults
    /\ EnterPath(o)

GoesOn(o, x) ==
    /\ Continues(o) /\ Current(o) /\ Becomes(o, x) /\ UNCHANGED <<busy, inFlight>>
    /\ x \in Mutations(Kinds, Trees)
    /\ x.kind = ops[o].kind /\ x.tree = ops[o].tree /\ x.fresh = ops[o].fresh
    /\ x.mounted = ops[o].mounted /\ x.prev = ops[o].prev /\ ~x.served
    /\ x.step = "read" \/ x.left > 0 => ops[o].left > 0
    /\ \/ x.step = "list" /\ ops[o].step = "lock"
       \/ x.step = "create" /\ ops[o].step = "list" /\ ops[o].served /\ ~ops[o].found
       \/ x.step \in {"read", "put", "refresh"}

\* The refreshes and the selection that the step of a mutation changes.
ListAfter(o) ==
    \/ UNCHANGED <<reads, shown, sel>>
    \/ /\ Current(o) /\ StartRead(o, ops[o].tree)
       /\ \/ UNCHANGED <<shown, sel>>
          \/ /\ view = "list"
             /\ \/ UNCHANGED shown /\ sel' \in {None, sel}
                \/ /\ ops[o].kind = "new" /\ ops[o].step = "put" /\ ops[o].served
                   /\ shown' = [tree |-> "vaults", of |->
                          IF shown = None THEN [ver |-> 0, set |-> {ops[o].vault}]
                          ELSE [shown.of EXCEPT !.set = @ \union {ops[o].vault}]]
                   /\ sel' \in {ops[o].vault, sel}

(* Every continuation of a mutation is one of these.                       *)
LEMMA Advances ==
    ASSUME TypeOK, IntoVaults, NEW o \in Ops, OpAdvances(o)
    PROVE  /\ Over(o) \/ Enters(o) \/ \E x : GoesOn(o, x)
           /\ ListAfter(o)
<1> DEFINE y(a) == [ops[o] EXCEPT !.step = a, !.served = FALSE, !.found = FALSE]
           z == [ops[o] EXCEPT !.step = "read", !.served = FALSE, !.left = @ - 1]
<1>1. ASSUME Runs(o) PROVE ops[o] \in Mutations(Kinds, Trees)
  BY <1>1 DEF TypeOK, Runs
<1>2. ASSUME Runs(o), Continues(o), Current(o), NEW s \in {"list", "create", "put", "refresh"},
             GoOn(o, s),
             s = "list" => ops[o].step = "lock",
             s = "create" => ops[o].step = "list" /\ ops[o].served /\ ~ops[o].found
      PROVE  GoesOn(o, y(s))
  <2>1. Becomes(o, y(s)) /\ UNCHANGED <<busy, inFlight>>
    BY <1>2 DEF GoOn
  <2>2. /\ y(s) \in Mutations(Kinds, Trees)
        /\ y(s).kind = ops[o].kind /\ y(s).tree = ops[o].tree
        /\ y(s).fresh = ops[o].fresh /\ y(s).mounted = ops[o].mounted
        /\ y(s).prev = ops[o].prev /\ ~y(s).served
        /\ y(s).step = s /\ y(s).left = ops[o].left
    <3>1. ops[o] \in Mutations(Kinds, Trees)
      BY <1>1, <1>2
    <3>2. y(s) \in Mutations(Kinds, Trees)
      BY <3>1, Updates
    <3> QED
      BY <3>1, <3>2 DEF Mutations
  <2> HIDE DEF y
  <2> QED
    BY <1>2, <2>1, <2>2 DEF GoesOn
<1>3. ASSUME Runs(o), Continues(o), Current(o), ops[o].left > 0, NextFile(o)
      PROVE  GoesOn(o, z)
  <2>1. Becomes(o, z) /\ UNCHANGED <<busy, inFlight>>
    BY <1>3 DEF NextFile
  <2>2. /\ z \in Mutations(Kinds, Trees)
        /\ z.kind = ops[o].kind /\ z.tree = ops[o].tree
        /\ z.fresh = ops[o].fresh /\ z.mounted = ops[o].mounted
        /\ z.prev = ops[o].prev /\ ~z.served
        /\ z.step = "read"
    <3>1. ops[o] \in Mutations(Kinds, Trees)
      BY <1>1, <1>3
    <3>2. z \in Mutations(Kinds, Trees)
      BY <1>3, <3>1, Updates
    <3> QED
      BY <3>1, <3>2 DEF Mutations
  <2> HIDE DEF z
  <2> QED
    BY <1>3, <2>1, <2>2 DEF GoesOn
<1> HIDE DEF y, z
<1>4. ASSUME Locked(o)
      PROVE  (Over(o) \/ \E x : GoesOn(o, x)) /\ ListAfter(o)
  <2>1. Continues(o) /\ ListAfter(o)
    BY <1>4 DEF Locked, Continues, Runs, ListAfter
  <2>2. CASE Current(o)
    BY <1>2, <1>4, <2>1, <2>2 DEF Locked, Continues
  <2>3. CASE ~Current(o)
    BY <1>4, <2>1, <2>3 DEF Locked, Over
  <2> QED
    BY <2>1, <2>2, <2>3
<1>5. ASSUME NEW ok \in BOOLEAN, FileRead(o, ok)
      PROVE  (Over(o) \/ Enters(o) \/ \E x : GoesOn(o, x)) /\ ListAfter(o)
  <2>1. Continues(o) /\ ListAfter(o) /\ ops[o].step = "read"
    BY <1>5 DEF FileRead, Continues, Runs, ListAfter
  <2>2. CASE ~ok \/ ~Current(o)
    BY <1>5, <2>1, <2>2 DEF FileRead, Over
  <2>3. CASE Current(o) /\ ops[o].kind = "files" /\ ok
    BY <1>2, <1>5, <2>1, <2>3 DEF FileRead, Continues
  <2>4. CASE Current(o) /\ ops[o].kind # "files" /\ ok
    BY <1>5, <2>1, <2>4 DEF FileRead, Enters, IntoVaults, Continues
  <2> QED
    BY <2>1, <2>2, <2>3, <2>4
<1>6. ASSUME NEW ok \in BOOLEAN, PathAnswered(o, ok)
      PROVE  (Over(o) \/ \E x : GoesOn(o, x)) /\ ListAfter(o)
  <2>1. Continues(o) /\ ListAfter(o) /\ ops[o].step \in {"list", "create"}
    BY <1>6 DEF PathAnswered, Continues, Runs, ListAfter
  <2>2. CASE ~ok \/ ~Current(o)
    BY <1>6, <2>1, <2>2 DEF PathAnswered, Over
  <2>3. CASE Current(o) /\ ok
    <3>1. CASE ops[o].step = "list" /\ ~ops[o].found
      BY <1>2, <1>6, <2>1, <2>3, <3>1 DEF PathAnswered, Continues
    <3>2. CASE ~(ops[o].step = "list" /\ ~ops[o].found)
      BY <1>2, <1>6, <2>1, <2>3, <3>2 DEF PathAnswered, Continues
    <3> QED
      BY <2>1, <3>1, <3>2
  <2> QED
    BY <2>1, <2>2, <2>3
<1>7. ASSUME NEW ok \in BOOLEAN, PutAnswered(o, ok)
      PROVE  (Over(o) \/ \E x : GoesOn(o, x)) /\ ListAfter(o)
  <2>1. Continues(o) /\ ops[o].step = "put"
    BY <1>7 DEF PutAnswered, Continues, Runs
  <2>2. CASE ~ok \/ ~Current(o)
    BY <1>7, <2>1, <2>2 DEF PutAnswered, Over, ListAfter
  <2>3. CASE Current(o) /\ ok /\ ops[o].kind = "folder" /\ ops[o].left > 0
    BY <1>3, <1>7, <2>1, <2>3 DEF PutAnswered, Continues, ListAfter
  <2>4. CASE Current(o) /\ ok /\ ~(ops[o].kind = "folder" /\ ops[o].left > 0)
    BY <1>2, <1>7, <2>1, <2>4 DEF PutAnswered, Continues, ListAfter
  <2> QED
    BY <2>2, <2>3, <2>4
<1>8. ASSUME NEW ok \in BOOLEAN, VaultAnswered(o, ok)
      PROVE  (Over(o) \/ \E x : GoesOn(o, x)) /\ ListAfter(o)
  <2>1. Continues(o) /\ ops[o].step = "put" /\ view = "list"
    BY <1>8 DEF VaultAnswered, Continues, Runs
  <2>2. CASE ~ok \/ ~Current(o)
    BY <1>8, <2>1, <2>2 DEF VaultAnswered, Over, ListAfter
  <2>3. CASE Current(o) /\ ok /\ ops[o].kind = "new"
    <3>1. ops[o].tree = "vaults"
      BY <1>1, <2>1 DEF Continues, Mutations, Trees
    <3> QED
      BY <1>8, <2>1, <2>3, <3>1 DEF VaultAnswered, Over, ListAfter
  <2>4. CASE Current(o) /\ ok /\ ops[o].kind # "new"
    <3>1. ops[o].tree = "vaults"
      BY <1>1, <2>1 DEF Continues, Mutations, Trees
    <3>2. ListAfter(o)
      BY <1>8, <2>1, <2>4, <3>1 DEF VaultAnswered, ListAfter
    <3>3. CASE GoOn(o, "refresh")
      BY <1>2, <1>8, <2>1, <2>4, <3>2, <3>3 DEF VaultAnswered, Continues
    <3>4. CASE Finish(o)
      BY <1>8, <2>1, <3>2, <3>4 DEF Over
    <3> QED
      BY <1>8, <2>4, <3>3, <3>4 DEF VaultAnswered
  <2> QED
    BY <2>2, <2>3, <2>4
<1>9. ASSUME Refreshed(o)
      PROVE  (Over(o) \/ \E x : GoesOn(o, x)) /\ ListAfter(o)
  <2>1. Continues(o) /\ ListAfter(o)
    BY <1>9 DEF Refreshed, Continues, Runs, ListAfter
  <2>2. CASE Current(o) /\ ops[o].left > 0
    BY <1>3, <1>9, <2>1, <2>2 DEF Refreshed, Continues
  <2>3. CASE ~(Current(o) /\ ops[o].left > 0)
    BY <1>9, <2>1, <2>3 DEF Refreshed, Over
  <2> QED
    BY <2>1, <2>2, <2>3
<1> QED
  BY <1>4, <1>5, <1>6, <1>7, <1>8, <1>9 DEF OpAdvances

-----------------------------------------------------------------------------
(* Only one refresh is the last one, after another has started.            *)
LEMMA AfterStart ==
    ASSUME TypeOK, NEW r \in Reads, NEW t \in Trees, StartRead(r, t)
    PROVE  /\ reads' \in [Reads -> {None} \union Refreshes(Trees)]
           /\ Reading(r)' /\ reads'[r].tree = t /\ reads'[r].got = None
           /\ \A x \in Reads \ {r} :
                /\ Reading(x)' <=> Reading(x)
                /\ Reading(x) =>
                     /\ reads'[x].tree = reads[x].tree /\ reads'[x].fresh = reads[x].fresh
                     /\ ~reads'[x].last /\ reads'[x].got = reads[x].got
<1>1. /\ reads \in [Reads -> {None} \union Refreshes(Trees)]
      /\ None \notin Refreshes(Trees)
  BY NotNone DEF TypeOK
<1> DEFINE y == [tree |-> t, fresh |-> TRUE, last |-> TRUE, got |-> None]
           z(x) == [reads[x] EXCEPT !.last = FALSE]
<1>2. y \in Refreshes(Trees) /\ y.tree = t /\ y.got = None
  BY DEF Refreshes
<1>3. ASSUME NEW x \in Reads, Reading(x)
      PROVE  /\ z(x) \in Refreshes(Trees)
             /\ z(x).tree = reads[x].tree /\ z(x).fresh = reads[x].fresh
             /\ ~z(x).last /\ z(x).got = reads[x].got
  <2>1. reads[x] \in Refreshes(Trees)
    BY <1>1, <1>3 DEF Reading
  <2> QED
    BY <2>1 DEF Refreshes
<1>4. reads' = [x \in Reads |-> IF x = r THEN y ELSE IF reads[x] # None THEN z(x) ELSE None]
  BY DEF StartRead
<1> HIDE DEF y, z
<1>5. reads' \in [Reads -> {None} \union Refreshes(Trees)]
  BY <1>2, <1>3, <1>4 DEF Reading
<1>6. Reading(r)' /\ reads'[r].tree = t /\ reads'[r].got = None
  BY <1>1, <1>2, <1>4 DEF Reading
<1> QED
  BY <1>1, <1>3, <1>4, <1>5, <1>6 DEF Reading

(* The server answers a refresh.                                           *)
LEMMA AfterServedRead ==
    ASSUME TypeOK, NEW r \in Reads, ReadServed(r)
    PROVE  /\ reads' \in [Reads -> {None} \union Refreshes(Trees)]
           /\ \A x \in Reads : Reading(x)' <=> Reading(x)
           /\ \A x \in Reads \ {r} : reads'[x] = reads[x]
           /\ reads'[r].tree = reads[r].tree /\ reads'[r].fresh = reads[r].fresh
           /\ reads'[r].last = reads[r].last
           /\ reads'[r].got \in Listing /\ reads'[r].got.ver = ver
<1>1. /\ reads \in [Reads -> {None} \union Refreshes(Trees)]
      /\ None \notin Refreshes(Trees) /\ reads[r] \in Refreshes(Trees)
  BY NotNone DEF TypeOK, ReadServed
<1> DEFINE g == [ver |-> ver, set |-> IF view = "list" THEN exists ELSE {}]
           x == [reads[r] EXCEPT !.got = g]
<1>2. g \in Listing /\ g.ver = ver
  BY DEF TypeOK, Listing
<1>3. reads' = [reads EXCEPT ![r] = x]
  BY <1>1 DEF ReadServed
<1> HIDE DEF g
<1>4. /\ x \in Refreshes(Trees)
      /\ x.tree = reads[r].tree /\ x.fresh = reads[r].fresh /\ x.last = reads[r].last
      /\ x.got = g
  BY <1>1, <1>2 DEF Refreshes
<1> HIDE DEF x
<1> QED
  BY <1>1, <1>2, <1>3, <1>4 DEF Reading

-----------------------------------------------------------------------------
(* Every step keeps the types.                                             *)
LEMMA TypeStep == TypeOK /\ IntoVaults /\ NewVaults /\ [Next]_vars => TypesAfter
<1> SUFFICES ASSUME TypeOK, IntoVaults, NewVaults, [Next]_vars PROVE TypesAfter
  OBVIOUS
<1> USE DEF TypesAfter
<1>0. CASE UNCHANGED vars
  BY <1>0 DEF vars, server, guards, TypeOK
<1>1. ASSUME NEW t \in Trees \union {None}, Settle(t), at' = t, UNCHANGED server
      PROVE  TypesAfter
  <2>1. locks' \in [Vaults -> Ops \union {None}] /\ mine' \in [Vaults -> Nat]
    <3>1. CASE t = None
      <4>1. locks' = [x \in Vaults |-> None] /\ mine' = [x \in Vaults |-> 0]
        BY <1>1, <3>1 DEF Settle, Outdates
      <4> QED
        BY <4>1
    <3>2. CASE t # None
      BY <1>1, <3>2 DEF TypeOK, Settle, Outdates
    <3> QED
      BY <3>1, <3>2
  <2> QED
    BY <1>1, <2>1, AfterSettle DEF TypeOK, Settle, server
<1>2. ASSUME NEW t \in Trees \union {None}, Select(t) PROVE TypesAfter
  <2>1. CASE Settle(t)
    BY <1>1, <1>2, <2>1 DEF Select
  <2>2. CASE UNCHANGED <<seen, shown, guards, sel, reads, mine>>
    BY <1>2, <2>2 DEF Select, TypeOK, server, guards
  <2> QED
    BY <1>2, <2>1, <2>2 DEF Select
<1>3. ASSUME Effect PROVE TypesAfter
  BY <1>1, <1>3 DEF Effect, TypeOK
<1>4. ASSUME NEW t \in Trees \union {None}, OtherClient(t) PROVE TypesAfter
  <2>1. exists' \subseteq Vaults /\ dirs' \subseteq Vaults /\ ver' \in 0..MaxVer
    BY <1>4, ViewConstants DEF OtherClient, TypeOK, Bump, Trees
  <2> QED
    BY <1>4, <2>1 DEF OtherClient, TypeOK, guards
<1>5. ASSUME NEW v \in Vaults \union {None}, SelectVault(v) PROVE TypesAfter
  BY <1>5, AfterNavigation DEF SelectVault, TypeOK, server
<1>6. ASSUME NEW s \in Polls, Poll(s) PROVE TypesAfter
  <2>1. at \in Trees /\ s \in Reads
    BY <1>6 DEF Poll, Polls, TypeOK, Reads
  <2> QED
    BY <1>6, <2>1, AfterStart DEF Poll, TypeOK, server, guards
<1>7. ASSUME NEW r \in Reads, ReadServed(r) PROVE TypesAfter
  BY <1>7, AfterServedRead DEF ReadServed, TypeOK, server, guards
<1>8. ASSUME NEW r \in Reads, NEW ok \in BOOLEAN, ReadEnds(r, ok) PROVE TypesAfter
  <2>1. /\ reads \in [Reads -> {None} \union Refreshes(Trees)]
        /\ reads[r] \in Refreshes(Trees)
    BY <1>8 DEF TypeOK, ReadEnds
  <2>2. reads' \in [Reads -> {None} \union Refreshes(Trees)]
    BY <1>8, <2>1 DEF ReadEnds
  <2>3. ops' = ops \/ ops' = Navigated
    BY <1>8 DEF ReadEnds, RefreshSelection
  <2>4. sel' \in Vaults \union {None}
    BY <1>8 DEF TypeOK, ReadEnds, RefreshSelection
  <2>5. ok => [tree |-> reads[r].tree, of |-> reads[r].got] \in Views(Trees)
    BY <1>8, <2>1 DEF ReadEnds, Refreshes, Views
  <2>6. shown' \in {None} \union Views(Trees)
    BY <1>8, <2>5 DEF ReadEnds, TypeOK
  <2> QED
    BY <1>8, <2>2, <2>3, <2>4, <2>6, AfterNavigation DEF ReadEnds, TypeOK, server
<1>9. ASSUME NEW o \in Ops, ListServed(o) PROVE TypesAfter
  BY <1>9, AfterServe DEF ListServed, Asks, Runs, TypeOK, server
<1>10. ASSUME NEW o \in Ops, CreateServed(o) PROVE TypesAfter
  <2>1. Runs(o) /\ ops[o] \in Mutations(Kinds, Trees)
    BY <1>10 DEF CreateServed, Asks, Runs, TypeOK
  <2>2. ops' \in [Ops -> {None} \union Mutations(Kinds, Trees)]
    BY <1>10, <2>1, AfterServe DEF CreateServed
  <2>3. ver' \in 0..MaxVer /\ mine' \in [Vaults -> Nat]
    <3>1. ver' \in 0..MaxVer
      BY <1>10, ViewConstants DEF CreateServed, Bump, TypeOK
    <3>2. ops[o].tree \in Vaults
      BY <1>10, <2>1 DEF CreateServed, Asks, IntoVaults
    <3>3. mine' = [mine EXCEPT ![ops[o].tree] =
                     IF ops[o].mounted THEN mine[ops[o].tree] + 1 ELSE mine[ops[o].tree]]
      BY <1>10 DEF CreateServed
    <3>4. mine \in [Vaults -> Nat] /\ mine[ops[o].tree] \in Nat
      BY <3>2 DEF TypeOK
    <3> DEFINE w == IF ops[o].mounted THEN mine[ops[o].tree] + 1 ELSE mine[ops[o].tree]
    <3>5. w \in Nat
      BY <3>4
    <3> HIDE DEF w
    <3> QED
      BY <3>1, <3>3, <3>4, <3>5 DEF w
  <2>4. dirs' \subseteq Vaults
    BY <1>10, <2>1 DEF CreateServed, Asks, IntoVaults, TypeOK
  <2> QED
    BY <1>10, <2>2, <2>3, <2>4 DEF CreateServed, TypeOK
<1>11. ASSUME NEW o \in Ops, PutServed(o) PROVE TypesAfter
  <2>1. Runs(o)
    BY <1>11 DEF PutServed, Asks, Runs
  <2>2. ops' \in [Ops -> {None} \union Mutations(Kinds, Trees)]
    BY <1>11, <2>1, AfterServe DEF PutServed
  <2>3. /\ ver' \in 0..MaxVer /\ mine' \in [Vaults -> Nat] /\ dirs' \subseteq Vaults
    BY <1>11, ViewConstants DEF PutServed, Bump, TypeOK
  <2> QED
    BY <1>11, <2>2, <2>3 DEF PutServed, TypeOK
<1>12. ASSUME NEW o \in Ops, NEW v \in Vaults, VaultServed(o, v) PROVE TypesAfter
  <2>1. Runs(o) /\ ops[o] \in Mutations(Kinds, Trees) /\ view = "list"
    BY <1>12 DEF VaultServed, Asks, Runs, TypeOK
  <2>2. ops' \in [Ops -> {None} \union Mutations(Kinds, Trees)]
    BY <1>12, <2>1, AfterServe DEF VaultServed
  <2>3. ver' \in 0..MaxVer
    BY <1>12, ViewConstants DEF VaultServed, Bump, TypeOK
  <2>4. ops[o].kind \in {"new", "delete", "change"}
    BY <2>1 DEF Mutations, Kinds
  <2>5. exists' \subseteq Vaults
    BY <1>12, <2>4 DEF VaultServed, TypeOK
  <2> QED
    BY <1>12, <2>2, <2>3, <2>5 DEF VaultServed, TypeOK
<1>13. ASSUME NEW o \in Ops, OpAdvances(o) PROVE TypesAfter
  <2>1. Over(o) \/ Enters(o) \/ \E x : GoesOn(o, x)
    BY <1>13, Advances
  <2>2. /\ ops' \in [Ops -> {None} \union Mutations(Kinds, Trees)]
        /\ locks' \in [Vaults -> Ops \union {None}]
        /\ busy' \in BOOLEAN /\ inFlight' \in BOOLEAN
        /\ UNCHANGED <<server, at, seen, mine>>
    <3>1. CASE Over(o)
      BY <3>1, AfterBecomes DEF Over, Continues, Finish, TypeOK, Mutations
    <3>2. CASE Enters(o)
      BY <3>2, AfterEnter DEF Enters, Continues, EnterPath, TypeOK
    <3>3. ASSUME NEW x, GoesOn(o, x) PROVE <2>2!1 /\ <2>2!2 /\ <2>2!3 /\ <2>2!4
      BY <3>3, AfterBecomes DEF GoesOn, Continues, TypeOK
    <3> QED
      BY <2>1, <3>1, <3>2, <3>3
  <2>3. reads' \in [Reads -> {None} \union Refreshes(Trees)]
    <3>1. CASE StartRead(o, ops[o].tree) /\ Current(o)
      <4>1. o \in Reads /\ ops[o].tree \in Trees
        BY <2>1 DEF Reads, Over, Enters, GoesOn, Continues, Runs, TypeOK, Mutations
      <4> QED
        BY <3>1, <4>1, AfterStart
    <3> QED
      BY <1>13, <3>1, Advances DEF ListAfter, TypeOK
  <2>4. shown' \in {None} \union Views(Trees) /\ sel' \in Vaults \union {None}
    <3>1. ListAfter(o)
      BY <1>13, Advances
    <3>2. CASE UNCHANGED shown /\ sel' \in {None, sel}
      BY <3>2 DEF TypeOK
    <3>3. CASE /\ view = "list" /\ sel' \in {ops[o].vault, sel}
               /\ ops[o].kind = "new" /\ ops[o].step = "put" /\ ops[o].served
               /\ shown' = [tree |-> "vaults", of |->
                     IF shown = None THEN [ver |-> 0, set |-> {ops[o].vault}]
                     ELSE [shown.of EXCEPT !.set = @ \union {ops[o].vault}]]
      <4>1. ops[o].vault \in Vaults
        BY <2>1, <3>3 DEF NewVaults, Over, Enters, GoesOn, Continues
      <4>2. shown # None => shown.of \in Listing
        BY DEF TypeOK, Views
      <4>3. (IF shown = None THEN [ver |-> 0, set |-> {ops[o].vault}]
             ELSE [shown.of EXCEPT !.set = @ \union {ops[o].vault}]) \in Listing
        BY <4>1, <4>2, ViewConstants DEF Listing
      <4>4. "vaults" \in Trees
        BY <3>3 DEF Trees
      <4> QED
        BY <3>3, <4>1, <4>3, <4>4 DEF Views, TypeOK
    <3> QED
      BY <3>1, <3>2, <3>3 DEF ListAfter
  <2> QED
    BY <2>2, <2>3, <2>4 DEF server, TypeOK
<1>14. ASSUME NEW o \in Ops, NEW kind \in Kinds, NEW n \in 1..MaxFiles,
              NEW v \in Vaults \union {None}, Capture(o, kind, n, v)
       PROVE  TypesAfter
  BY <1>14, AfterCapture DEF Capture, TypeOK, server
<1> QED
  BY <1>0, <1>2, <1>3, <1>4, <1>5, <1>6, <1>7, <1>8, <1>9, <1>10, <1>11, <1>12, <1>13,
     <1>14 DEF Next

-----------------------------------------------------------------------------
(* What mutations are about.                                               *)
LEMMA AboutStep == IInv /\ [Next]_vars => IntoVaults' /\ NewVaults'
<1> SUFFICES ASSUME IInv, [Next]_vars PROVE IntoVaults' /\ NewVaults'
  OBVIOUS
<1>0. TypeOK /\ IntoVaults /\ NewVaults
  BY DEF IInv
<1> USE DEF IntoVaults, NewVaults
<1>1. CASE UNCHANGED <<ops, view>>
  BY <1>0, <1>1 DEF Runs
<1>2. ASSUME NEW t, Outdates(t), view' = view PROVE IntoVaults' /\ NewVaults'
  <2> SUFFICES ASSUME NEW o \in Ops, Runs(o)'
               PROVE  /\ Runs(o) /\ ops'[o].step = ops[o].step /\ ops'[o].left = ops[o].left
                      /\ ops'[o].tree = ops[o].tree /\ ops'[o].kind = ops[o].kind
                      /\ ops'[o].served = ops[o].served /\ ops'[o].vault = ops[o].vault
    BY <1>0, <1>2
  <2>1. Runs(o) /\ ops'[o] = [ops[o] EXCEPT !.fresh = FALSE, !.mounted = @ /\ t # None]
    BY <1>0, <1>2, AfterSettle
  <2>2. ops[o] \in Mutations(Kinds, Trees)
    BY <1>0, <2>1 DEF TypeOK, Runs
  <2> QED
    BY <2>1, <2>2 DEF Mutations
<1>3. ASSUME ops' = ops \/ ops' = Navigated, view' = view PROVE IntoVaults' /\ NewVaults'
  BY <1>0, <1>3, AfterNavigation DEF Alike
<1>4. ASSUME NEW o \in Ops, Runs(o), NEW v \in Vaults \union {None}, Serve(o, v), view' = view,
             ops[o].step = "put" /\ view = "list" => v \in Vaults
      PROVE  IntoVaults' /\ NewVaults'
  <2>1. /\ \A p \in Ops : Runs(p)' <=> Runs(p)
        /\ \A p \in Ops \ {o} : ops'[p] = ops[p]
        /\ ops'[o].tree = ops[o].tree /\ ops'[o].step = ops[o].step
        /\ ops'[o].left = ops[o].left /\ ops'[o].vault = v
    BY <1>0, <1>4, AfterServe
  <2>2. IntoVaults'
    BY <1>0, <2>1
  <2>3. NewVaults'
    BY <1>0, <1>4, <2>1
  <2> QED
    BY <2>2, <2>3
<1>5. ASSUME NEW o \in Ops, OpAdvances(o) PROVE IntoVaults' /\ NewVaults'
  <2>1. CASE Over(o)
    BY <1>0, <2>1, AfterBecomes DEF Over, Continues, Finish, server, Alike, Runs
  <2>2. CASE Enters(o)
    BY <1>0, <2>2, AfterEnter DEF Enters, Continues, server
  <2>3. ASSUME NEW x, GoesOn(o, x) PROVE IntoVaults' /\ NewVaults'
    <3>1. /\ ops'[o] = x
          /\ \A p \in Ops \ {o} : (Runs(p)' <=> Runs(p)) /\ (Runs(p) => Alike(ops'[p], ops[p]))
      BY <1>0, <2>3, AfterBecomes DEF GoesOn
    <3>2. view' = view
      BY <2>3 DEF GoesOn, Continues, server
    <3>3. IntoVaults'
      BY <1>0, <2>3, <3>1 DEF GoesOn, Continues, Alike
    <3>4. NewVaults'
      BY <1>0, <2>3, <3>1, <3>2 DEF GoesOn, Alike
    <3> QED
      BY <3>3, <3>4
  <2> QED
    BY <1>0, <1>5, <2>1, <2>2, <2>3, Advances
<1>6. ASSUME NEW o \in Ops, NEW kind \in Kinds, NEW n \in 1..MaxFiles,
             NEW v \in Vaults \union {None}, Capture(o, kind, n, v)
      PROVE  IntoVaults' /\ NewVaults'
  <2>1. view' = view
    BY <1>6 DEF Capture, server
  <2>2. /\ \A p \in Ops \ {o} : ops'[p] = ops[p]
        /\ ops'[o].step \in {"read", "put"} /\ ~ops'[o].served
        /\ ops'[o].step = "read" \/ ops'[o].left > 0 => ops'[o].tree \in Vaults
    BY <1>0, <1>6, AfterCapture
  <2> QED
    BY <1>0, <2>1, <2>2 DEF Runs
<1>7. ASSUME NEW o \in Ops, ListServed(o) \/ CreateServed(o) \/ PutServed(o)
      PROVE  IntoVaults' /\ NewVaults'
  BY <1>4, <1>7 DEF ListServed, CreateServed, PutServed, Asks, Runs, server
<1>8. ASSUME NEW o \in Ops, NEW v \in Vaults, VaultServed(o, v)
      PROVE  IntoVaults' /\ NewVaults'
  BY <1>4, <1>8 DEF VaultServed, Asks, Runs
<1>9. ASSUME NEW t, Select(t) \/ Effect PROVE IntoVaults' /\ NewVaults'
  BY <1>1, <1>2, <1>9 DEF Select, Effect, Settle, server, guards
<1>10. ASSUME NEW v, SelectVault(v) PROVE IntoVaults' /\ NewVaults'
  BY <1>3, <1>10 DEF SelectVault, server
<1>11. ASSUME NEW r, NEW ok, ReadEnds(r, ok) PROVE IntoVaults' /\ NewVaults'
  BY <1>3, <1>11 DEF ReadEnds, RefreshSelection, server
<1>12. ASSUME NEW t, \/ OtherClient(t) \/ Poll(t) \/ ReadServed(t) PROVE UNCHANGED <<ops, view>>
  BY <1>12 DEF OtherClient, Poll, ReadServed, server, guards
<1>13. CASE UNCHANGED vars
  BY <1>1, <1>13 DEF vars, guards, server
<1> QED
  BY <1>1, <1>5, <1>6, <1>7, <1>8, <1>9, <1>10, <1>11, <1>12, <1>13 DEF Next

-----------------------------------------------------------------------------
(* Every step keeps to one identity.                                       *)
LEMMA IdentityStep == IInv /\ [Next]_vars => OneIdentity'
<1> SUFFICES ASSUME IInv, [Next]_vars PROVE OneIdentity'
  OBVIOUS
<1>0. /\ TypeOK /\ IntoVaults /\ OneIdentity
      /\ \A r \in Reads : Reading(r) => reads[r] \in Refreshes(Trees)
  BY DEF IInv, TypeOK, Reading
<1> DEFINE Ops0 == /\ \A o \in Ops : Fresh(o) => ops[o].tree = seen /\ ops[o].mounted
                   /\ \A o, p \in Ops : Fresh(o) /\ Fresh(p) => o = p
                   /\ inFlight <=> \E o \in Ops : Fresh(o)
                   /\ Settled => busy = inFlight
           Reads0 == \A r \in Reads : Reading(r) /\ reads[r].fresh => reads[r].tree = seen
           List0 == (shown # None => shown.tree = seen) /\ (view # "list" => sel = None)
<1>a. Ops0 /\ Reads0 /\ List0
  BY <1>0 DEF OneIdentity
<1> SUFFICES Ops0' /\ Reads0' /\ List0'
  BY DEF OneIdentity
<1>1. ASSUME ops' = ops, UNCHANGED <<seen, at, busy, inFlight>> PROVE Ops0'
  BY <1>a, <1>1 DEF Fresh, Runs, Settled
<1>2. ASSUME UNCHANGED <<reads, seen>> PROVE Reads0'
  BY <1>a, <1>2 DEF Reading
<1>3. ASSUME UNCHANGED <<shown, seen, view, sel>> PROVE List0'
  BY <1>a, <1>3
<1>4. ASSUME NEW t, Settle(t), at' = t PROVE Ops0' /\ Reads0' /\ List0'
  <2>1. \A o \in Ops : ~Fresh(o)'
    <3> SUFFICES ASSUME NEW o \in Ops, Runs(o)' PROVE ~ops'[o].fresh
      BY DEF Fresh
    <3>1. Runs(o) /\ ops'[o] = [ops[o] EXCEPT !.fresh = FALSE, !.mounted = @ /\ t # None]
      BY <1>0, <1>4, AfterSettle DEF Settle
    <3>2. ops[o] \in Mutations(Kinds, Trees)
      BY <1>0, <3>1 DEF TypeOK, Runs
    <3> QED
      BY <3>1, <3>2 DEF Mutations
  <2>2. \A r \in Reads : Reading(r)' => ~reads'[r].fresh
    <3> SUFFICES ASSUME NEW r \in Reads, Reading(r)' PROVE ~reads'[r].fresh
      OBVIOUS
    <3>1. Reading(r) /\ reads'[r] = [reads[r] EXCEPT !.fresh = FALSE, !.last = FALSE]
      BY <1>0, <1>4, AfterSettle DEF Settle
    <3> QED
      BY <1>0, <3>1 DEF Refreshes
  <2> QED
    BY <1>4, <2>1, <2>2 DEF Settle
<1>5. ASSUME NEW t, Select(t) PROVE Ops0' /\ Reads0' /\ List0'
  <2>1. CASE Settle(t)
    BY <1>4, <1>5, <2>1 DEF Select
  <2>2. CASE UNCHANGED <<seen, shown, guards, sel, reads, mine>>
    <3>1. ~Settled'
      BY <1>5, <2>2 DEF Select, Settled
    <3> QED
      BY <1>a, <1>2, <1>3, <1>5, <2>2, <3>1 DEF Select, guards, server, Fresh, Runs
  <2> QED
    BY <1>5, <2>1, <2>2 DEF Select
<1>6. ASSUME Effect PROVE Ops0' /\ Reads0' /\ List0'
  BY <1>4, <1>6 DEF Effect
<1>7. ASSUME NEW t, OtherClient(t) PROVE Ops0' /\ Reads0' /\ List0'
  BY <1>1, <1>2, <1>3, <1>7 DEF OtherClient, guards
<1>8. ASSUME ops' = ops \/ ops' = Navigated, UNCHANGED <<seen, at, busy, inFlight>> PROVE Ops0'
  <2>1. \A o \in Ops : /\ Fresh(o)' <=> Fresh(o)
                       /\ Fresh(o) => ops'[o].tree = ops[o].tree
                                        /\ ops'[o].mounted = ops[o].mounted
    BY <1>0, <1>8, AfterNavigation DEF Alike, Fresh
  <2> QED
    BY <1>a, <1>8, <2>1 DEF Settled
<1>9. ASSUME NEW v, SelectVault(v) PROVE Ops0' /\ Reads0' /\ List0'
  BY <1>a, <1>2, <1>8, <1>9 DEF SelectVault, server
<1>10. ASSUME NEW r \in Reads, NEW t \in Trees, StartRead(r, t), t = seen, seen' = seen
       PROVE  Reads0'
  BY <1>0, <1>a, <1>10, AfterStart
<1>11. ASSUME NEW s \in Polls, Poll(s) PROVE Ops0' /\ Reads0' /\ List0'
  <2>1. s \in Reads /\ at \in Trees /\ at = seen
    BY <1>0, <1>11 DEF Reads, Polls, Poll, Settled, TypeOK
  <2> QED
    BY <1>1, <1>3, <1>10, <1>11, <2>1 DEF Poll, guards, server
<1>12. ASSUME NEW r \in Reads, ReadServed(r) PROVE Ops0' /\ Reads0' /\ List0'
  <2>1. Reads0'
    BY <1>0, <1>a, <1>12, AfterServedRead DEF ReadServed
  <2> QED
    BY <1>1, <1>3, <1>12, <2>1 DEF ReadServed, guards, server
<1>13. ASSUME NEW r \in Reads, NEW ok \in BOOLEAN, ReadEnds(r, ok)
       PROVE  Ops0' /\ Reads0' /\ List0'
  <2>1. Ops0'
    BY <1>8, <1>13 DEF ReadEnds, RefreshSelection
  <2>2. Reads0'
    <3>1. \A x \in Reads : reads'[x] = IF x = r THEN None ELSE reads[x]
      BY <1>0, <1>13 DEF ReadEnds, TypeOK
    <3> QED
      BY <1>a, <1>13, <3>1 DEF ReadEnds, Reading
  <2>3. shown' # None => shown'.tree = seen
    BY <1>a, <1>13 DEF ReadEnds, CurrentRead, Reading
  <2>4. view # "list" => sel' = None
    BY <1>a, <1>13 DEF ReadEnds
  <2> QED
    BY <1>13, <2>1, <2>2, <2>3, <2>4 DEF ReadEnds, server
<1>14. ASSUME NEW o \in Ops, Runs(o), NEW v \in Vaults \union {None}, Serve(o, v),
              UNCHANGED <<seen, at, busy, inFlight>>
       PROVE  Ops0'
  <2>1. \A p \in Ops : /\ Fresh(p)' <=> Fresh(p)
                       /\ Fresh(p) => ops'[p].tree = ops[p].tree
                                        /\ ops'[p].mounted = ops[p].mounted
    BY <1>0, <1>14, AfterServe DEF Fresh
  <2> QED
    BY <1>a, <1>14, <2>1 DEF Settled
<1>15. ASSUME NEW o \in Ops,
              ListServed(o) \/ CreateServed(o) \/ PutServed(o)
                \/ \E v \in Vaults : VaultServed(o, v)
       PROVE  Ops0' /\ Reads0' /\ List0'
  BY <1>2, <1>3, <1>14, <1>15
     DEF ListServed, CreateServed, PutServed, VaultServed, Asks, Runs, server
<1>16. ASSUME NEW o \in Ops, OpAdvances(o) PROVE Ops0' /\ Reads0' /\ List0'
  <2>1. Ops0' /\ Runs(o) /\ UNCHANGED <<server, at, seen>>
    <3>1. CASE Over(o)
      <4>1. /\ ops'[o] = None
            /\ \A p \in Ops \ {o} :
                 (Runs(p)' <=> Runs(p)) /\ (Runs(p) => Alike(ops'[p], ops[p]))
        BY <1>0, <3>1, AfterBecomes DEF Over, Finish
      <4>2. /\ ~Fresh(o)'
            /\ \A p \in Ops \ {o} : /\ Fresh(p)' <=> Fresh(p)
                                    /\ Fresh(p) => ops'[p].tree = ops[p].tree
                                                     /\ ops'[p].mounted = ops[p].mounted
        BY <4>1 DEF Fresh, Runs, Alike
      <4>3. /\ Runs(o) /\ UNCHANGED <<server, at, seen>>
            /\ inFlight' = (inFlight /\ ~ops[o].fresh) /\ busy' = (busy /\ ~Current(o))
        BY <3>1 DEF Over, Continues, Finish
      <4>4. inFlight' <=> \E p \in Ops : Fresh(p)'
        BY <1>a, <4>2, <4>3 DEF Fresh
      <4>5. Settled' => busy' = inFlight'
        BY <1>a, <4>3 DEF Settled, Current, Fresh
      <4> QED
        BY <1>a, <4>2, <4>3, <4>4, <4>5
    <3>2. CASE Enters(o)
      <4>1. \A p \in Ops : /\ Fresh(p)' <=> Fresh(p)
                           /\ Fresh(p) => ops'[p].tree = ops[p].tree
                                            /\ ops'[p].mounted = ops[p].mounted
        BY <1>0, <3>2, AfterEnter DEF Enters, Continues, Fresh
      <4> QED
        BY <1>a, <3>2, <4>1 DEF Enters, Continues, EnterPath, Settled
    <3>3. ASSUME NEW x, GoesOn(o, x) PROVE Ops0' /\ Runs(o) /\ UNCHANGED <<server, at, seen>>
      <4>1. /\ ops'[o] = x /\ Runs(o)'
            /\ \A p \in Ops \ {o} :
                 (Runs(p)' <=> Runs(p)) /\ (Runs(p) => Alike(ops'[p], ops[p]))
        BY <1>0, <3>3, AfterBecomes, NotNone DEF GoesOn, Runs
      <4>2. \A p \in Ops : /\ Fresh(p)' <=> Fresh(p)
                           /\ Fresh(p) => ops'[p].tree = ops[p].tree
                                            /\ ops'[p].mounted = ops[p].mounted
        BY <3>3, <4>1 DEF GoesOn, Continues, Fresh, Alike
      <4> QED
        BY <1>a, <3>3, <4>2 DEF GoesOn, Continues, Settled
    <3> QED
      BY <1>0, <1>16, <3>1, <3>2, <3>3, Advances DEF Over, Enters, Continues
  <2>2. Reads0' /\ List0'
    <3>1. ListAfter(o) /\ o \in Reads
      BY <1>0, <1>16, Advances DEF Reads
    <3>2. CASE UNCHANGED <<reads, shown, sel>>
      BY <1>2, <1>3, <2>1, <3>2 DEF server
    <3>3. CASE Current(o) /\ StartRead(o, ops[o].tree)
      <4>1. ops[o].tree \in Trees /\ ops[o].tree = seen
        BY <1>0, <1>a, <2>1, <3>3 DEF Current, Fresh, TypeOK, Mutations, Runs
      <4>2. Reads0'
        BY <1>10, <2>1, <3>1, <3>3, <4>1
      <4>3. view = "list" => seen = "vaults"
        BY <4>1 DEF Trees
      <4>4. List0'
        <5>1. CASE UNCHANGED <<shown, sel>>
          BY <1>3, <2>1, <5>1 DEF server
        <5>2. CASE view = "list" /\ UNCHANGED shown
          BY <1>a, <2>1, <5>2 DEF server
        <5>3. CASE view = "list" /\ shown'.tree = "vaults"
          BY <2>1, <4>3, <5>3 DEF server
        <5> QED
          BY <3>1, <5>1, <5>2, <5>3 DEF ListAfter
      <4> QED
        BY <4>2, <4>4
    <3> QED
      BY <3>1, <3>2, <3>3 DEF ListAfter
  <2> QED
    BY <2>1, <2>2
<1>17. ASSUME NEW o \in Ops, NEW kind \in Kinds, NEW n \in 1..MaxFiles,
              NEW v \in Vaults \union {None}, Capture(o, kind, n, v)
       PROVE  Ops0' /\ Reads0' /\ List0'
  <2>1. /\ \A p \in Ops \ {o} : ops'[p] = ops[p]
        /\ Runs(o)' /\ ops'[o].tree = at /\ ops'[o].fresh /\ ops'[o].mounted
    BY <1>0, <1>17, AfterCapture
  <2>2. /\ Settled /\ ~inFlight /\ inFlight' /\ busy' = TRUE /\ inFlight' = TRUE
        /\ UNCHANGED <<at, seen, view, shown, sel, reads>>
    BY <1>17 DEF Capture, server
  <2>3. \A p \in Ops \ {o} : ~Fresh(p)'
    BY <1>a, <2>1, <2>2 DEF Fresh, Runs
  <2>4. Ops0'
    BY <2>1, <2>2, <2>3 DEF Fresh, Settled
  <2> QED
    BY <1>2, <1>3, <2>2, <2>4
<1>18. CASE UNCHANGED vars
  BY <1>1, <1>2, <1>3, <1>18 DEF vars, guards, server
<1> HIDE DEF Ops0, Reads0, List0
<1> QED
  BY <1>5, <1>6, <1>7, <1>9, <1>11, <1>12, <1>13, <1>15, <1>16, <1>17, <1>18
     DEF Next, Reads

-----------------------------------------------------------------------------
(* What is shown does not go back.                                         *)
Forward == None \notin {shown, shown'} /\ shown'.tree = shown.tree
             => shown'.of.ver >= shown.of.ver

(* In every step refreshes stay recent and what is shown goes forward.     *)
LEMMA RecentStep == IInv /\ [Next]_vars => Recent' /\ Forward
<1> SUFFICES ASSUME IInv, [Next]_vars PROVE Recent' /\ Forward
  OBVIOUS
<1>0. /\ TypeOK /\ IntoVaults /\ OneIdentity /\ Recent /\ TypesAfter
      /\ \A r \in Reads : Reading(r) => reads[r] \in Refreshes(Trees)
      /\ shown # None => shown \in Views(Trees)
  BY TypeStep DEF IInv, TypeOK, Reading
<1>a. /\ ver \in Nat /\ ver' \in Nat
      /\ shown # None => shown.of.ver \in Nat
      /\ shown' # None => shown'.of.ver \in Nat
      /\ \A r \in Reads : Reading(r) /\ reads[r].got # None => reads[r].got.ver \in Nat
  BY <1>0, ViewConstants DEF TypesAfter, TypeOK, Views, Refreshes, Listing
<1> USE DEF Recent, Forward
<1>1. ASSUME ver' >= ver, UNCHANGED <<shown, reads>> PROVE Recent' /\ Forward
  BY <1>0, <1>a, <1>1 DEF Reading
<1>2. ASSUME NEW t, Settle(t), UNCHANGED server PROVE Recent' /\ Forward
  <2>1. \A r \in Reads : Reading(r)' =>
          Reading(r) /\ reads'[r].got = reads[r].got /\ ~reads'[r].last
    <3> SUFFICES ASSUME NEW r \in Reads, Reading(r)'
                 PROVE  Reading(r) /\ reads'[r].got = reads[r].got /\ ~reads'[r].last
      OBVIOUS
    <3>1. Reading(r) /\ reads'[r] = [reads[r] EXCEPT !.fresh = FALSE, !.last = FALSE]
      BY <1>0, <1>2, AfterSettle DEF Settle
    <3> QED
      BY <1>0, <3>1 DEF Refreshes
  <2> QED
    BY <1>0, <1>2, <2>1 DEF Settle, server
<1>3. ASSUME NEW t, Select(t) \/ Effect PROVE Recent' /\ Forward
  BY <1>1, <1>2, <1>3, <1>a DEF Select, Effect, server
<1>4. ASSUME NEW t, OtherClient(t) PROVE Recent' /\ Forward
  BY <1>1, <1>4, <1>a DEF OtherClient, Bump
<1>5. ASSUME NEW t, SelectVault(t) PROVE Recent' /\ Forward
  BY <1>1, <1>5, <1>a DEF SelectVault, server
<1>6. ASSUME NEW r \in Reads, NEW t \in Trees, StartRead(r, t), ver' = ver,
             shown' # None /\ shown # None => shown'.of.ver = shown.of.ver,
             shown' # None => shown'.of.ver <= ver
      PROVE  Recent' /\ Forward
  <2>1. /\ Reading(r)' /\ reads'[r].got = None
        /\ \A x \in Reads \ {r} :
             /\ Reading(x)' <=> Reading(x)
             /\ Reading(x) => ~reads'[x].last /\ reads'[x].got = reads[x].got
    BY <1>0, <1>6, AfterStart
  <2> QED
    BY <1>0, <1>6, <1>a, <2>1
<1>7. ASSUME NEW s \in Polls, Poll(s) PROVE Recent' /\ Forward
  <2>1. s \in Reads /\ at \in Trees
    BY <1>0, <1>7 DEF Reads, Polls, Poll, TypeOK
  <2> QED
    BY <1>0, <1>6, <1>7, <2>1 DEF Poll, server
<1>8. ASSUME NEW r \in Reads, ReadServed(r) PROVE Recent' /\ Forward
  <2>1. /\ \A x \in Reads : Reading(x)' <=> Reading(x)
        /\ \A x \in Reads \ {r} : reads'[x] = reads[x]
        /\ reads'[r].last = reads[r].last /\ reads'[r].got.ver = ver
    BY <1>0, <1>8, AfterServedRead
  <2>2. Reading(r) /\ UNCHANGED <<shown, ver>>
    BY <1>8 DEF ReadServed, Reading, server
  <2> QED
    BY <1>0, <1>a, <2>1, <2>2
<1>9. ASSUME NEW r \in Reads, NEW ok \in BOOLEAN, ReadEnds(r, ok) PROVE Recent' /\ Forward
  <2>1. \A x \in Reads : reads'[x] = IF x = r THEN None ELSE reads[x]
    BY <1>0, <1>9 DEF ReadEnds, TypeOK
  <2>2. ver' = ver /\ Reading(r)
    BY <1>9 DEF ReadEnds, server, Reading
  <2>3. CASE UNCHANGED shown
    BY <1>0, <1>a, <2>1, <2>2, <2>3 DEF Reading
  <2>4. CASE CurrentRead(r)
    <3>1. reads[r].last /\ reads[r].fresh
      BY <2>4 DEF CurrentRead
    <3>2. shown' = None \/ (reads[r].got # None /\ shown'.of = reads[r].got)
      BY <1>9, <2>4 DEF ReadEnds
    <3>3. \A x \in Reads : Reading(x)' =>
            Reading(x) /\ x # r /\ reads'[x] = reads[x] /\ ~reads[x].last
      BY <1>0, <2>1, <2>2, <3>1 DEF Reading
    <3> QED
      BY <1>0, <1>a, <2>2, <3>1, <3>2, <3>3
  <2> QED
    BY <1>9, <2>3, <2>4 DEF ReadEnds
<1>10. ASSUME NEW o \in Ops, OpAdvances(o) PROVE Recent' /\ Forward
  <2>1. ListAfter(o) /\ o \in Reads /\ ver' = ver /\ Runs(o)
    BY <1>0, <1>10, Advances DEF Reads, Over, Enters, GoesOn, Continues, server
  <2>2. CASE UNCHANGED <<reads, shown, sel>>
    BY <1>1, <1>a, <2>1, <2>2
  <2>3. CASE StartRead(o, ops[o].tree)
    <3>1. ops[o].tree \in Trees
      BY <1>0, <2>1 DEF TypeOK, Mutations, Runs
    <3>2. CASE UNCHANGED shown
      BY <1>0, <1>6, <2>1, <2>3, <3>1, <3>2
    <3>3. CASE shown' = [tree |-> "vaults", of |->
                 IF shown = None THEN [ver |-> 0, set |-> {ops[o].vault}]
                 ELSE [shown.of EXCEPT !.set = @ \union {ops[o].vault}]]
      <4>1. CASE shown = None
        <5>1. shown'.of.ver = 0
          BY <3>3, <4>1
        <5> QED
          BY <1>6, <1>a, <2>1, <2>3, <3>1, <4>1, <5>1
      <4>2. CASE shown # None
        <5>1. shown.of \in Listing
          BY <1>0, <4>2 DEF Views
        <5>2. shown'.of = [shown.of EXCEPT !.set = @ \union {ops[o].vault}]
          BY <3>3, <4>2
        <5>3. shown'.of.ver = shown.of.ver
          BY <5>1, <5>2 DEF Listing
        <5> QED
          BY <1>0, <1>6, <2>1, <2>3, <3>1, <4>2, <5>3
      <4> QED
        BY <4>1, <4>2
    <3> QED
      BY <2>1, <2>3, <3>2, <3>3, <1>1, <1>a DEF ListAfter
  <2> QED
    BY <2>1, <2>2, <2>3 DEF ListAfter
<1>11. ASSUME NEW o \in Ops,
              \/ ListServed(o) \/ CreateServed(o) \/ PutServed(o)
              \/ \E v \in Vaults : VaultServed(o, v)
       PROVE  Recent' /\ Forward
  <2>1. (ver' = ver \/ ver' = ver + 1) /\ UNCHANGED <<shown, reads>>
    BY <1>11 DEF ListServed, CreateServed, PutServed, VaultServed, Bump, server
  <2> QED
    BY <1>1, <1>a, <2>1
<1>12. ASSUME NEW o, NEW kind, NEW n, NEW v, Capture(o, kind, n, v)
       PROVE  Recent' /\ Forward
  BY <1>1, <1>12, <1>a DEF Capture, server
<1>13. CASE UNCHANGED vars
  BY <1>1, <1>13, <1>a DEF vars, server
<1> QED
  BY <1>3, <1>4, <1>5, <1>7, <1>8, <1>9, <1>10, <1>11, <1>12, <1>13 DEF Next

-----------------------------------------------------------------------------
(* The vault selected stays listed in every step.                          *)
LEMMA SelectedStep == IInv /\ [Next]_vars => SelectedIsListed'
<1> SUFFICES ASSUME IInv, [Next]_vars PROVE SelectedIsListed'
  OBVIOUS
<1>0. TypeOK /\ IntoVaults /\ NewVaults /\ OneIdentity /\ SelectedIsListed
  BY DEF IInv
<1> USE DEF SelectedIsListed
<1>1. ASSUME UNCHANGED <<sel, shown>> \/ sel' = None PROVE SelectedIsListed'
  BY <1>0, <1>1
<1>2. ASSUME NEW t, Select(t) \/ Effect PROVE SelectedIsListed'
  BY <1>1, <1>2 DEF Select, Effect, Settle
<1>3. ASSUME NEW t, \/ OtherClient(t) \/ Poll(t) \/ ReadServed(t)
                    \/ ListServed(t) \/ CreateServed(t) \/ PutServed(t)
                    \/ \E v \in Vaults : VaultServed(t, v)
                    \/ \E kind, n, v : Capture(t, kind, n, v)
      PROVE  SelectedIsListed'
  BY <1>1, <1>3
     DEF OtherClient, Poll, ReadServed, ListServed, CreateServed, PutServed, VaultServed,
         Capture, guards
<1>4. ASSUME NEW v \in Vaults \union {None}, SelectVault(v) PROVE SelectedIsListed'
  BY <1>4 DEF SelectVault
<1>5. ASSUME NEW r \in Reads, NEW ok \in BOOLEAN, ReadEnds(r, ok) PROVE SelectedIsListed'
  <2>1. CASE ~CurrentRead(r)
    BY <1>1, <1>5, <2>1 DEF ReadEnds
  <2>2. CASE CurrentRead(r) /\ view # "list"
    BY <1>0, <1>1, <1>5, <2>2 DEF ReadEnds, OneIdentity
  <2>3. CASE CurrentRead(r) /\ view = "list" /\ ok
    <3>1. shown' = [tree |-> reads[r].tree, of |-> reads[r].got]
          /\ RefreshSelection(ok, reads[r].got.set)
      BY <1>5, <2>3 DEF ReadEnds
    <3>2. shown' # None
      <4>1. reads[r].tree \in Trees /\ reads[r].got \in Listing
        BY <1>0, <1>5, <2>3 DEF ReadEnds, TypeOK, Refreshes
      <4>2. shown' \in Views(Trees)
        BY <3>1, <4>1 DEF Views
      <4> QED
        BY <1>0, <4>2, NotNone
    <3> QED
      BY <3>1, <3>2 DEF RefreshSelection
  <2>4. CASE CurrentRead(r) /\ view = "list" /\ ~ok
    BY <1>1, <1>5, <2>4 DEF ReadEnds, RefreshSelection
  <2> QED
    BY <2>1, <2>2, <2>3, <2>4
<1>6. ASSUME NEW o \in Ops, OpAdvances(o) PROVE SelectedIsListed'
  <2>1. ListAfter(o)
    BY <1>0, <1>6, Advances
  <2>2. CASE UNCHANGED shown /\ sel' \in {None, sel}
    BY <1>1, <2>2
  <2>3. CASE /\ view = "list" /\ sel' \in {ops[o].vault, sel}
             /\ ops[o].kind = "new" /\ ops[o].step = "put" /\ ops[o].served
             /\ shown' = [tree |-> "vaults", of |->
                   IF shown = None THEN [ver |-> 0, set |-> {ops[o].vault}]
                   ELSE [shown.of EXCEPT !.set = @ \union {ops[o].vault}]]
    <3>1. shown' # None
      <4>1. shown' \in {None} \union Views(Trees) /\ TypesAfter
        BY <1>0, TypeStep DEF TypesAfter
      <4>2. ops[o].vault \in Vaults
        BY <1>0, <1>6, <2>3, Advances DEF NewVaults, Over, Enters, GoesOn, Continues
      <4>3. shown # None => shown.of \in Listing
        BY <1>0 DEF TypeOK, Views
      <4>4. (IF shown = None THEN [ver |-> 0, set |-> {ops[o].vault}]
             ELSE [shown.of EXCEPT !.set = @ \union {ops[o].vault}]) \in Listing
        BY <1>0, <4>2, <4>3, ViewConstants DEF Listing, TypeOK
      <4>5. shown' \in Views(Trees)
        BY <2>3, <4>4 DEF Views, Trees
      <4> QED
        BY <1>0, <4>5, NotNone
    <3>2. CASE shown = None
      <4>1. sel = None /\ shown'.of.set = {ops[o].vault}
        BY <1>0, <2>3, <3>2
      <4> QED
        BY <2>3, <3>1, <4>1
    <3>3. CASE shown # None
      <4>1. shown.of \in Listing
        BY <1>0, <3>3 DEF TypeOK, Views
      <4>2. shown'.of.set = shown.of.set \union {ops[o].vault}
        BY <2>3, <3>3, <4>1 DEF Listing
      <4> QED
        BY <1>0, <2>3, <3>1, <4>2
    <3> QED
      BY <3>2, <3>3
  <2> QED
    BY <1>1, <2>1, <2>2, <2>3 DEF ListAfter
<1>7. CASE UNCHANGED vars
  BY <1>1, <1>7 DEF vars
<1> QED
  BY <1>2, <1>3, <1>4, <1>5, <1>6, <1>7 DEF Next

-----------------------------------------------------------------------------
(* The locks of the paths.                                                 *)
LockInv == LocksAreHeld /\ SameInstance /\ Queue

(* Locks and those who wait for them.                                      *)
LEMMA LockTypes ==
    ASSUME TypeOK
    PROVE  /\ \A t \in Vaults : locks[t] \in Ops \union {None}
           /\ \A o \in Ops : Runs(o) =>
                ops[o].prev \in Ops \union {None} /\ ops[o].mounted \in BOOLEAN
  BY DEF TypeOK, Mutations, Runs

(* Two mutations of one path do not both have its lock.                    *)
LEMMA OneOwner ==
    ASSUME TypeOK, LockInv, NEW o \in Ops, NEW p \in Ops, InLine(o), InLine(p),
           ops[p].tree = ops[o].tree, ops[o].prev = None, ops[p].prev = None
    PROVE  o = p
<1>1. PICK rank \in [Ops -> Nat] : \A x \in Ops : InLine(x) => Ranks(rank, x)
  BY DEF LockInv, Queue
<1>2. rank[o] <= rank[p] /\ rank[p] <= rank[o] /\ rank[o] \in Nat /\ rank[p] \in Nat
  BY <1>1 DEF Ranks
<1>3. p # o => rank[p] # rank[o]
  BY <1>1 DEF Ranks
<1> QED
  BY <1>2, <1>3

(* A mutation that waits has the lock ahead of it in its own line.         *)
LEMMA Waiting ==
    ASSUME TypeOK, LockInv, NEW o \in Ops, Runs(o), ops[o].prev # None
    PROVE  /\ ops[o].prev \in Ops /\ Holds(ops[o]) /\ ops[o].step = "lock"
           /\ Runs(ops[o].prev) /\ Holds(ops[ops[o].prev])
           /\ ops[ops[o].prev].tree = ops[o].tree
           /\ ops[ops[o].prev].mounted = ops[o].mounted
<1>1. ops[o].prev \in Ops
  BY LockTypes
<1>2. Holds(ops[o]) /\ ops[o].step = "lock" /\ ops[ops[o].prev].mounted = ops[o].mounted
  BY DEF LockInv, SameInstance, Holds, Runs
<1>3. LET x == ops[ops[o].prev] IN Holds(x) /\ x.tree = ops[o].tree
  BY DEF LockInv, LocksAreHeld, Runs
<1> QED
  BY <1>1, <1>2, <1>3 DEF Runs, Holds

(* A step that enters no line and leaves none.                             *)
LEMMA LocksQuiet ==
    ASSUME TypeOK, LockInv, locks' = locks,
           \A o \in Ops :
             /\ Holds(ops'[o]) <=> Holds(ops[o])
             /\ Holds(ops[o]) =>
                  /\ ops'[o].tree = ops[o].tree /\ ops'[o].mounted = ops[o].mounted
                  /\ ops'[o].prev = ops[o].prev
             /\ Runs(o)' /\ ops'[o].prev # None =>
                  Runs(o) /\ ops[o].prev # None /\ ops'[o].step = ops[o].step
    PROVE  LockInv'
<1>1. ASSUME NEW o \in Ops, Runs(o)', ops'[o].prev # None
      PROVE  /\ ops'[o].step = "lock" /\ ops'[o].prev = ops[o].prev
             /\ ops[o].prev \in Ops /\ Holds(ops'[ops[o].prev])
             /\ ops'[ops[o].prev].tree = ops'[o].tree
             /\ ops'[ops[o].prev].mounted = ops'[o].mounted
  <2>1. Runs(o) /\ ops[o].prev # None /\ ops'[o].step = ops[o].step
    BY <1>1
  <2>2. /\ ops[o].prev \in Ops /\ Holds(ops[o]) /\ ops[o].step = "lock"
        /\ Holds(ops[ops[o].prev])
        /\ ops[ops[o].prev].tree = ops[o].tree
        /\ ops[ops[o].prev].mounted = ops[o].mounted
    BY <2>1, Waiting
  <2> QED
    BY <2>1, <2>2
<1>2. ASSUME NEW t \in Vaults, locks[t] # None
      PROVE  /\ locks[t] \in Ops /\ Holds(ops'[locks[t]])
             /\ ops'[locks[t]].tree = t /\ ops'[locks[t]].mounted
  BY <1>2, LockTypes DEF LockInv, LocksAreHeld, SameInstance
<1>3. LocksAreHeld'
  BY <1>1, <1>2 DEF LocksAreHeld, Runs
<1>4. SameInstance'
  BY <1>1, <1>2 DEF SameInstance
<1>5. Queue'
  <2>1. PICK rank \in [Ops -> Nat], n \in Nat :
           \A o \in Ops : rank[o] < n /\ (InLine(o) => Ranks(rank, o))
    BY DEF LockInv, Queue
  <2>2. \A o \in Ops : /\ InLine(o)' <=> InLine(o)
                       /\ InLine(o) => /\ ops'[o].tree = ops[o].tree
                                       /\ ops'[o].prev = ops[o].prev
    BY DEF InLine, Runs, Holds
  <2>3. \A o \in Ops : InLine(o)' => Ranks(rank, o)'
    BY <2>1, <2>2 DEF Ranks
  <2> QED
    BY <2>1, <2>3 DEF Queue
<1> QED
  BY <1>3, <1>4, <1>5 DEF LockInv

(* A mutation gets in line behind the others.                              *)
LEMMA LocksEnter ==
    ASSUME TypeOK, IntoVaults, LockInv, NEW o \in Ops, Enters(o), ops[o].mounted
    PROVE  LockInv'
<1> DEFINE t0 == ops[o].tree
           q == locks[t0]
<1>1. /\ Runs(o) /\ ~Holds(ops[o]) /\ t0 \in Vaults /\ q \in Ops \union {None}
  BY LockTypes DEF Enters, Continues, Holds
<1>2. /\ Runs(o)' /\ ops'[o].tree = t0 /\ ops'[o].mounted /\ ops'[o].step = "lock"
      /\ ops'[o].prev = q /\ Holds(ops'[o])
      /\ \A p \in Ops \ {o} : ops'[p] = ops[p]
      /\ \A t \in Vaults : locks'[t] = IF t = t0 THEN o ELSE locks[t]
  BY <1>1, AfterEnter DEF Enters, Holds, Runs
<1> HIDE DEF t0, q
<1>3. q # None => q \in Ops \ {o} /\ Holds(ops[q]) /\ ops[q].tree = t0 /\ ops[q].mounted
  BY <1>1 DEF LockInv, LocksAreHeld, SameInstance, q
<1>4. \A p \in Ops : Runs(p) /\ ops[p].prev # None => ops[p].prev # o
  BY <1>1, Waiting
<1>5. LocksAreHeld'
  <2>1. ASSUME NEW t \in Vaults, locks'[t] # None
        PROVE  Holds(ops'[locks'[t]]) /\ ops'[locks'[t]].tree = t
    <3>1. CASE t = t0
      BY <1>2, <3>1
    <3>2. CASE t # t0
      <4>1. locks[t] # None /\ Holds(ops[locks[t]]) /\ ops[locks[t]].tree = t
        BY <1>2, <2>1, <3>2 DEF LockInv, LocksAreHeld
      <4>2. locks[t] \in Ops \ {o}
        BY <1>1, <4>1, LockTypes
      <4> QED
        BY <1>2, <3>2, <4>1, <4>2
    <3> QED
      BY <3>1, <3>2
  <2>2. ASSUME NEW p \in Ops, ops'[p] # None, ops'[p].prev # None
        PROVE  /\ Holds(ops'[ops'[p].prev]) /\ ops'[ops'[p].prev].tree = ops'[p].tree
    <3>1. CASE p = o
      BY <1>2, <1>3, <2>2, <3>1
    <3>2. CASE p # o
      <4>1. Runs(p) /\ ops[p].prev # None /\ ops'[p] = ops[p]
        BY <1>2, <2>2, <3>2 DEF Runs
      <4>2. /\ ops[p].prev \in Ops \ {o} /\ Holds(ops[ops[p].prev])
            /\ ops[ops[p].prev].tree = ops[p].tree
        BY <1>4, <4>1, Waiting
      <4> QED
        BY <1>2, <4>1, <4>2
    <3> QED
      BY <3>1, <3>2
  <2> QED
    BY <2>1, <2>2 DEF LocksAreHeld
<1>6. SameInstance'
  <2>1. ASSUME NEW t \in Vaults, locks'[t] # None PROVE ops'[locks'[t]].mounted
    <3>1. CASE t = t0
      BY <1>2, <3>1
    <3>2. CASE t # t0
      <4>1. /\ locks[t] # None /\ Holds(ops[locks[t]]) /\ ops[locks[t]].mounted
        BY <1>2, <2>1, <3>2 DEF LockInv, LocksAreHeld, SameInstance
      <4>2. locks[t] \in Ops \ {o}
        BY <1>1, <4>1, LockTypes
      <4> QED
        BY <1>2, <3>2, <4>1, <4>2
    <3> QED
      BY <3>1, <3>2
  <2>2. ASSUME NEW p \in Ops, Runs(p)', ops'[p].prev # None
        PROVE  ops'[p].step = "lock" /\ ops'[ops'[p].prev].mounted = ops'[p].mounted
    <3>1. CASE p = o
      <4>1. q # None /\ ops[q].mounted \in BOOLEAN /\ ops[o].mounted \in BOOLEAN
        BY <1>1, <1>2, <1>3, <2>2, <3>1, LockTypes DEF Runs, Holds
      <4>2. ops'[o].mounted = ops[o].mounted
        BY <1>1, AfterEnter DEF Enters
      <4> QED
        BY <1>2, <1>3, <3>1, <4>1, <4>2
    <3>2. CASE p # o
      <4>1. Runs(p) /\ ops[p].prev # None /\ ops'[p] = ops[p]
        BY <1>2, <2>2, <3>2 DEF Runs
      <4>2. /\ ops[p].prev \in Ops \ {o} /\ ops[p].step = "lock"
            /\ ops[ops[p].prev].mounted = ops[p].mounted
        BY <1>4, <4>1, Waiting
      <4> QED
        BY <1>2, <4>1, <4>2
    <3> QED
      BY <3>1, <3>2
  <2> QED
    BY <2>1, <2>2 DEF SameInstance
<1>7. Queue'
  <2>1. PICK rank \in [Ops -> Nat], n \in Nat :
           \A p \in Ops : rank[p] < n /\ (InLine(p) => Ranks(rank, p))
    BY DEF LockInv, Queue
  <2> DEFINE new == [rank EXCEPT ![o] = n]
  <2>2. /\ new \in [Ops -> Nat] /\ new[o] = n /\ n + 1 \in Nat
        /\ \A p \in Ops \ {o} : new[p] = rank[p]
        /\ \A p \in Ops : new[p] < n + 1
    BY <2>1
  <2>3. /\ InLine(o)' /\ ~InLine(o)
        /\ \A p \in Ops \ {o} : InLine(p)' <=> InLine(p)
    BY <1>1, <1>2 DEF InLine, Runs
  <2>4. \A p \in Ops : InLine(p) /\ ops[p].tree = t0 => q # None /\ rank[p] <= rank[q]
    BY <2>1 DEF Ranks, q
  <2> HIDE DEF new
  <2>5. Ranks(new, o)'
    <3>1. ASSUME NEW p \in Ops, InLine(p)', ops'[p].tree = t0
          PROVE  /\ p # o => new[p] # new[o]
                 /\ q = None => new[o] <= new[p]
                 /\ q # None => /\ new[q] < new[o]
                                /\ new[p] <= new[q] \/ new[p] >= new[o]
      <4>1. CASE p = o
        BY <1>3, <2>1, <2>2, <4>1
      <4>2. CASE p # o
        <5>1. InLine(p) /\ ops[p].tree = t0 /\ new[p] = rank[p] /\ rank[p] < n
          BY <1>2, <2>1, <2>2, <2>3, <3>1, <4>2
        <5>2. q # None /\ rank[p] <= rank[q] /\ q \in Ops \ {o} /\ new[q] = rank[q]
          BY <1>3, <2>2, <2>4, <5>1
        <5> QED
          BY <2>1, <2>2, <5>1, <5>2
      <4> QED
        BY <4>1, <4>2
    <3>2. locks'[t0] = o /\ new[o] <= new[o] /\ o # None
      BY <1>1, <1>2, <2>2, ViewConstants
    <3> QED
      BY <1>2, <3>1, <3>2 DEF Ranks
  <2>6. ASSUME NEW p \in Ops \ {o}, InLine(p) PROVE Ranks(new, p)'
    <3>1. Ranks(rank, p) /\ ops'[p] = ops[p]
      BY <1>2, <2>1, <2>6
    <3>2. ops[p].prev # None => ops[p].prev \in Ops \ {o}
      BY <1>4, <2>6, Waiting DEF InLine
    <3> DEFINE t == ops[p].tree
               l == locks[t]
    <3>3. t \in Vaults /\ l # None /\ l \in Ops \ {o} /\ rank[p] <= rank[l]
      <4>1. t \in Vaults
        BY <2>6 DEF InLine, Runs, Holds, IntoVaults
      <4>2. l # None /\ rank[p] <= rank[l]
        BY <3>1 DEF Ranks
      <4>3. Holds(ops[l])
        BY <4>1, <4>2 DEF LockInv, LocksAreHeld
      <4> QED
        BY <1>1, <4>1, <4>2, <4>3, LockTypes
    <3>4. locks'[t] # None /\ new[p] <= new[locks'[t]]
      <4>1. CASE t = t0
        BY <1>2, <2>1, <2>2, <3>3, <4>1, ViewConstants
      <4>2. CASE t # t0
        BY <1>2, <2>2, <3>3, <4>2
      <4> QED
        BY <4>1, <4>2
    <3>5. ASSUME NEW x \in Ops, InLine(x)', ops'[x].tree = t
          PROVE  /\ x # p => new[x] # new[p]
                 /\ IF ops[p].prev = None THEN new[p] <= new[x]
                    ELSE /\ new[ops[p].prev] < new[p]
                         /\ new[x] <= new[ops[p].prev] \/ new[x] >= new[p]
      <4>1. CASE x # o
        <5>1. InLine(x) /\ ops[x].tree = t
          BY <1>2, <2>3, <3>5, <4>1
        <5>2. /\ x # p => rank[x] # rank[p]
              /\ IF ops[p].prev = None THEN rank[p] <= rank[x]
                 ELSE /\ rank[ops[p].prev] < rank[p]
                      /\ rank[x] <= rank[ops[p].prev] \/ rank[x] >= rank[p]
          BY <3>1, <5>1 DEF Ranks
        <5> QED
          BY <2>2, <3>2, <4>1, <5>2
      <4>2. CASE x = o
        <5>1. new[x] = n /\ new[p] = rank[p] /\ rank[p] < n /\ rank[p] \in Nat
          BY <2>1, <2>2, <4>2
        <5>2. ops[p].prev # None => rank[ops[p].prev] < rank[p]
          BY <2>6, <3>1 DEF Ranks
        <5> QED
          BY <2>2, <3>2, <4>2, <5>1, <5>2
      <4> QED
        BY <4>1, <4>2
    <3> QED
      BY <3>1, <3>4, <3>5 DEF Ranks
  <2> QED
    BY <2>1, <2>2, <2>3, <2>5, <2>6 DEF Queue
<1> QED
  BY <1>5, <1>6, <1>7 DEF LockInv


(* The owner of a lock gives it to the next in line.                       *)
LEMMA LocksRelease ==
    ASSUME TypeOK, IntoVaults, LockInv, NEW o \in Ops, Runs(o), ops[o].prev = None,
           NEW x \in {None} \union Mutations(Kinds, Trees), Becomes(o, x), Releases(o, x),
           x # None => x.prev = None
    PROVE  LockInv'
<1>1. /\ ops'[o] = x /\ Holds(ops[o]) /\ ~Holds(x)
      /\ \A p \in Ops \ {o} :
           /\ Runs(p)' <=> Runs(p)
           /\ Runs(p) => /\ Alike(ops'[p], ops[p])
                         /\ ops'[p].prev = IF ops[p].prev = o THEN None ELSE ops[p].prev
      /\ \A t \in Vaults : locks'[t] = IF locks[t] = o THEN None ELSE locks[t]
  BY AfterBecomes DEF Releases
<1>2. ASSUME NEW p \in Ops \ {o}
      PROVE  /\ Holds(ops'[p]) <=> Holds(ops[p])
             /\ Holds(ops[p]) => /\ ops'[p].tree = ops[p].tree
                                 /\ ops'[p].mounted = ops[p].mounted
  BY <1>1 DEF Holds, Runs, Alike
<1>3. ASSUME NEW p \in Ops, Runs(p)', ops'[p].prev # None
      PROVE  /\ p # o /\ Runs(p) /\ ops'[p].prev = ops[p].prev
             /\ ops[p].prev \in Ops \ {o} /\ Alike(ops'[p], ops[p])
  <2>1. p # o
    BY <1>1, <1>3 DEF Runs
  <2> QED
    BY <1>1, <1>3, <2>1, LockTypes
<1>4. ASSUME NEW t \in Vaults, locks'[t] # None
      PROVE  /\ locks'[t] = locks[t] /\ locks[t] \in Ops \ {o}
             /\ Holds(ops[locks[t]]) /\ ops[locks[t]].tree = t /\ ops[locks[t]].mounted
  BY <1>1, <1>4, LockTypes DEF LockInv, LocksAreHeld, SameInstance
<1>5. LocksAreHeld'
  <2>1. ASSUME NEW t \in Vaults, locks'[t] # None
        PROVE  Holds(ops'[locks'[t]]) /\ ops'[locks'[t]].tree = t
    BY <1>2, <1>4, <2>1
  <2>2. ASSUME NEW p \in Ops, ops'[p] # None, ops'[p].prev # None
        PROVE  /\ Holds(ops'[ops'[p].prev]) /\ ops'[ops'[p].prev].tree = ops'[p].tree
    <3> DEFINE l == ops[p].prev
    <3>1. /\ p # o /\ Runs(p) /\ ops'[p].prev = l /\ l \in Ops \ {o} /\ l # None
          /\ ops'[p].tree = ops[p].tree
      BY <1>3, <2>2 DEF Runs, Alike
    <3>2. Holds(ops[l]) /\ ops[l].tree = ops[p].tree
      BY <3>1, Waiting
    <3> HIDE DEF l
    <3> QED
      BY <1>2, <3>1, <3>2
  <2> QED
    BY <2>1, <2>2 DEF LocksAreHeld
<1>6. SameInstance'
  <2>1. ASSUME NEW t \in Vaults, locks'[t] # None PROVE ops'[locks'[t]].mounted
    BY <1>2, <1>4, <2>1
  <2>2. ASSUME NEW p \in Ops, Runs(p)', ops'[p].prev # None
        PROVE  ops'[p].step = "lock" /\ ops'[ops'[p].prev].mounted = ops'[p].mounted
    <3> DEFINE l == ops[p].prev
    <3>1. /\ p # o /\ Runs(p) /\ ops'[p].prev = l /\ l \in Ops \ {o} /\ l # None
          /\ ops'[p].step = ops[p].step /\ ops'[p].mounted = ops[p].mounted
      BY <1>3, <2>2 DEF Alike
    <3>2. Holds(ops[l]) /\ ops[p].step = "lock" /\ ops[l].mounted = ops[p].mounted
      BY <3>1, Waiting
    <3> HIDE DEF l
    <3> QED
      BY <1>2, <3>1, <3>2
  <2> QED
    BY <2>1, <2>2 DEF SameInstance
<1>7. Queue'
  <2>1. PICK rank \in [Ops -> Nat], n \in Nat :
           \A p \in Ops : rank[p] < n /\ (InLine(p) => Ranks(rank, p))
    BY DEF LockInv, Queue
  <2>2. ~InLine(o)' /\ \A p \in Ops \ {o} : InLine(p)' <=> InLine(p)
    BY <1>1, <1>2 DEF InLine, Runs, Holds
  <2>3. ASSUME NEW p \in Ops \ {o}, InLine(p), InLine(o), ops[p].tree = ops[o].tree
        PROVE  rank[o] < rank[p]
    <3>1. rank[o] <= rank[p] /\ rank[p] # rank[o]
      BY <2>1, <2>3 DEF Ranks
    <3> QED
      BY <3>1
  <2>4. ASSUME NEW p \in Ops \ {o}, InLine(p) PROVE Ranks(rank, p)'
    <3> DEFINE t == ops[p].tree
    <3>1. /\ Ranks(rank, p) /\ Runs(p) /\ ops[p].mounted /\ ops'[p].tree = t
          /\ ops'[p].prev = IF ops[p].prev = o THEN None ELSE ops[p].prev
      BY <1>1, <2>1, <2>4 DEF InLine, Alike
    <3>2. t \in Vaults /\ locks[t] # None /\ rank[p] <= rank[locks[t]]
      BY <2>4, <3>1 DEF Ranks, InLine, Runs, Holds, IntoVaults
    <3>3. locks[t] # o
      <4> SUFFICES ASSUME locks[t] = o PROVE FALSE
        OBVIOUS
      <4>1. InLine(o) /\ ops[o].tree = t
        BY <1>1, <3>2 DEF LockInv, LocksAreHeld, SameInstance, InLine
      <4>2. rank[o] < rank[p]
        BY <2>3, <2>4, <4>1
      <4> QED
        BY <2>1, <3>2, <4>2
    <3>4. locks'[t] = locks[t]
      BY <1>1, <3>2, <3>3
    <3>5. ASSUME NEW y \in Ops \ {o}, InLine(y), ops[y].tree = t
          PROVE  /\ y # p => rank[y] # rank[p]
                 /\ IF ops'[p].prev = None THEN rank[p] <= rank[y]
                    ELSE /\ rank[ops'[p].prev] < rank[p]
                         /\ rank[y] <= rank[ops'[p].prev] \/ rank[y] >= rank[p]
      <4>1. /\ y # p => rank[y] # rank[p]
            /\ IF ops[p].prev = None THEN rank[p] <= rank[y]
               ELSE /\ rank[ops[p].prev] < rank[p]
                    /\ rank[y] <= rank[ops[p].prev] \/ rank[y] >= rank[p]
        BY <3>1, <3>5 DEF Ranks
      <4>2. CASE ops[p].prev # o
        BY <3>1, <4>1, <4>2
      <4>3. CASE ops[p].prev = o
        <5>1. ops'[p].prev = None /\ ops[p].prev # None
          BY <3>1, <4>3, ViewConstants
        <5>2. InLine(o) /\ ops[o].tree = t
          BY <3>1, <4>3, <5>1, Waiting DEF InLine
        <5>3. rank[o] < rank[y]
          BY <2>3, <3>5, <5>2
        <5>4. rank[p] <= rank[y]
          BY <2>1, <4>1, <4>3, <5>1, <5>3
        <5> QED
          BY <4>1, <5>1, <5>4
      <4> QED
        BY <4>2, <4>3
    <3>6. ASSUME NEW y \in Ops, InLine(y)', ops'[y].tree = t
          PROVE  y # o /\ InLine(y) /\ ops[y].tree = t
      BY <1>2, <2>2, <3>6 DEF InLine
    <3> QED
      BY <3>1, <3>2, <3>4, <3>5, <3>6 DEF Ranks
  <2>5. \A p \in Ops : rank[p] < n /\ (InLine(p)' => Ranks(rank, p)')
    BY <2>1, <2>2, <2>4
  <2> QED
    BY <2>1, <2>5 DEF Queue
<1> QED
  BY <1>5, <1>6, <1>7 DEF LockInv

(* The effect of an identity leaves the lines alone; an unmounted instance *)
(* takes its own with it.                                                  *)
LEMMA LocksSettle ==
    ASSUME TypeOK, LockInv, NEW t, Outdates(t)
    PROVE  LockInv'
<1>1. \A o \in Ops :
        /\ Runs(o)' <=> Runs(o)
        /\ Runs(o) =>
             /\ ops'[o].tree = ops[o].tree /\ ops'[o].step = ops[o].step
             /\ ops'[o].prev = ops[o].prev
             /\ ops'[o].mounted = (ops[o].mounted /\ t # None)
  <2> SUFFICES ASSUME NEW o \in Ops
               PROVE  /\ Runs(o)' <=> Runs(o)
                      /\ Runs(o) =>
                           /\ ops'[o].tree = ops[o].tree /\ ops'[o].step = ops[o].step
                           /\ ops'[o].prev = ops[o].prev
                           /\ ops'[o].mounted = (ops[o].mounted /\ t # None)
    OBVIOUS
  <2>1. /\ Runs(o)' <=> Runs(o)
        /\ Runs(o) => ops'[o] = [ops[o] EXCEPT !.fresh = FALSE, !.mounted = @ /\ t # None]
    BY AfterSettle
  <2>2. Runs(o) => ops[o] \in Mutations(Kinds, Trees)
    BY DEF TypeOK, Runs
  <2> QED
    BY <2>1, <2>2 DEF Mutations
<1>2. \A o \in Ops : Holds(ops'[o]) <=> Holds(ops[o])
  BY <1>1 DEF Holds, Runs
<1>3. CASE t # None
  <2>1. locks' = locks
    BY <1>3 DEF Outdates
  <2>2. \A o \in Ops : Runs(o) => ops'[o].mounted = ops[o].mounted
    BY <1>1, <1>3, LockTypes
  <2>3. \A o \in Ops : Holds(ops[o]) =>
          /\ ops'[o].tree = ops[o].tree /\ ops'[o].mounted = ops[o].mounted
          /\ ops'[o].prev = ops[o].prev
    BY <1>1, <2>2 DEF Holds, Runs
  <2>4. \A o \in Ops : Runs(o)' /\ ops'[o].prev # None =>
          Runs(o) /\ ops[o].prev # None /\ ops'[o].step = ops[o].step
    BY <1>1
  <2> QED
    BY <1>2, <2>1, <2>3, <2>4, LocksQuiet
<1>4. CASE t = None
  <2>1. \A x \in Vaults : locks'[x] = None
    BY <1>4 DEF Outdates
  <2>2. \A o \in Ops : Runs(o) => ops'[o].mounted = FALSE
    BY <1>1, <1>4
  <2>3. ASSUME NEW o \in Ops, Runs(o)', ops'[o].prev # None
        PROVE  /\ ops'[o].step = "lock"
               /\ Holds(ops'[ops'[o].prev]) /\ ops'[ops'[o].prev].tree = ops'[o].tree
               /\ ops'[ops'[o].prev].mounted = ops'[o].mounted
    <3>1. Runs(o) /\ ops[o].prev # None /\ ops'[o].prev = ops[o].prev
      BY <1>1, <2>3
    <3>2. /\ ops[o].prev \in Ops /\ ops[o].step = "lock"
          /\ Runs(ops[o].prev) /\ Holds(ops[ops[o].prev])
          /\ ops[ops[o].prev].tree = ops[o].tree
      BY <3>1, Waiting
    <3> QED
      BY <1>1, <1>2, <2>2, <3>1, <3>2
  <2>4. LocksAreHeld'
    BY <2>1, <2>3 DEF LocksAreHeld, Runs
  <2>5. SameInstance'
    BY <2>1, <2>3 DEF SameInstance
  <2>6. Queue'
    <3>1. PICK rank \in [Ops -> Nat], n \in Nat :
             \A o \in Ops : rank[o] < n /\ (InLine(o) => Ranks(rank, o))
      BY DEF LockInv, Queue
    <3>2. \A o \in Ops : ~InLine(o)'
      BY <1>1, <2>2 DEF InLine
    <3> QED
      BY <3>1, <3>2 DEF Queue
  <2> QED
    BY <2>4, <2>5, <2>6 DEF LockInv
<1> QED
  BY <1>3, <1>4

(* Every step keeps the lines.                                             *)
LEMMA LockStep == IInv /\ [Next]_vars => LockInv'
<1> SUFFICES ASSUME IInv, [Next]_vars PROVE LockInv'
  OBVIOUS
<1>0. TypeOK /\ IntoVaults /\ OneIdentity /\ LockInv
  BY DEF IInv, LockInv
<1>1. ASSUME UNCHANGED <<ops, locks>> PROVE LockInv'
  BY <1>0, <1>1, LocksQuiet DEF Runs
<1>2. ASSUME locks' = locks, ops' = ops \/ ops' = Navigated PROVE LockInv'
  <2>1. \A o \in Ops : /\ Runs(o)' <=> Runs(o)
                       /\ Runs(o) => Alike(ops'[o], ops[o]) /\ ops'[o].prev = ops[o].prev
    BY <1>0, <1>2, AfterNavigation
  <2>2. \A o \in Ops : Holds(ops'[o]) <=> Holds(ops[o])
    BY <2>1 DEF Holds, Runs, Alike
  <2> QED
    BY <1>0, <1>2, <2>1, <2>2, LocksQuiet DEF Holds, Runs, Alike
<1>3. ASSUME NEW o \in Ops, Runs(o), NEW v \in Vaults \union {None}, Serve(o, v), locks' = locks
      PROVE  LockInv'
  <2>1. /\ \A p \in Ops : Runs(p)' <=> Runs(p)
        /\ \A p \in Ops \ {o} : ops'[p] = ops[p]
        /\ ops'[o].tree = ops[o].tree /\ ops'[o].mounted = ops[o].mounted
        /\ ops'[o].step = ops[o].step /\ ops'[o].prev = ops[o].prev
    BY <1>0, <1>3, AfterServe
  <2>2. \A p \in Ops : Holds(ops'[p]) <=> Holds(ops[p])
    BY <2>1 DEF Holds, Runs
  <2> QED
    BY <1>0, <1>3, <2>1, <2>2, LocksQuiet
<1>4. ASSUME NEW o \in Ops, OpAdvances(o) PROVE LockInv'
  <2>1. ops[o].prev # None /\ Runs(o) => ops[o].step = "lock"
    BY <1>0 DEF LockInv, SameInstance
  <2>2. ASSUME NEW x \in {None} \union Mutations(Kinds, Trees), Continues(o), Becomes(o, x),
               x # None => /\ x.prev = ops[o].prev /\ x.tree = ops[o].tree
                           /\ x.mounted = ops[o].mounted,
               Holds(x) => Holds(ops[o])
        PROVE  LockInv'
    <3>1. Runs(o) /\ ops[o].prev = None
      BY <2>1, <2>2 DEF Continues
    <3>2. CASE Releases(o, x)
      BY <1>0, <2>2, <3>1, <3>2, LocksRelease
    <3>3. CASE ~Releases(o, x)
      <4>1. locks' = locks /\ ops' = [ops EXCEPT ![o] = x]
        BY <2>2, <3>3 DEF Becomes, Releases
      <4>2. ops'[o] = x /\ \A p \in Ops \ {o} : ops'[p] = ops[p]
        BY <1>0, <4>1 DEF TypeOK
      <4>3. Holds(x) <=> Holds(ops[o])
        BY <2>2, <3>3 DEF Releases
      <4>4. \A p \in Ops :
              /\ Holds(ops'[p]) <=> Holds(ops[p])
              /\ Holds(ops[p]) =>
                   /\ ops'[p].tree = ops[p].tree /\ ops'[p].mounted = ops[p].mounted
                   /\ ops'[p].prev = ops[p].prev
        BY <2>2, <4>2, <4>3 DEF Holds
      <4>5. \A p \in Ops : Runs(p)' /\ ops'[p].prev # None =>
              Runs(p) /\ ops[p].prev # None /\ ops'[p].step = ops[p].step
        BY <2>2, <3>1, <4>2 DEF Runs
      <4> QED
        BY <1>0, <4>1, <4>4, <4>5, LocksQuiet
    <3> QED
      BY <3>2, <3>3
  <2>3. CASE Over(o)
    <3>1. ~Holds(None)
      BY DEF Holds
    <3> QED
      BY <2>2, <2>3, <3>1 DEF Over, Finish
  <2>4. CASE Enters(o)
    <3>1. ops[o].mounted
      BY <1>0, <2>4 DEF OneIdentity, Enters, Continues, Current, Fresh
    <3> QED
      BY <1>0, <2>4, <3>1, LocksEnter
  <2>5. ASSUME NEW x, GoesOn(o, x) PROVE LockInv'
    <3>1. Holds(x) => Holds(ops[o])
      BY <2>5 DEF GoesOn, Continues, Runs, Holds
    <3> QED
      BY <2>2, <2>5, <3>1 DEF GoesOn
  <2> QED
    BY <1>0, <1>4, <2>3, <2>4, <2>5, Advances
<1>5. ASSUME NEW o \in Ops, NEW kind \in Kinds, NEW n \in 1..MaxFiles,
             NEW v \in Vaults \union {None}, Capture(o, kind, n, v)
      PROVE  LockInv'
  <2>1. locks' = locks
    BY <1>5 DEF Capture
  <2>2. /\ ~Runs(o) /\ \A p \in Ops \ {o} : ops'[p] = ops[p]
        /\ ops'[o].step \in {"read", "put"} /\ ops'[o].prev = None
    BY <1>0, <1>5, AfterCapture
  <2>3. ~Holds(ops[o]) /\ ~Holds(ops'[o])
    BY <2>2 DEF Holds, Runs
  <2> QED
    BY <1>0, <2>1, <2>2, <2>3, LocksQuiet DEF Runs
<1>6. ASSUME NEW o \in Ops, ListServed(o) \/ CreateServed(o) \/ PutServed(o)
      PROVE  LockInv'
  BY <1>3, <1>6 DEF ListServed, CreateServed, PutServed, Asks, Runs
<1>7. ASSUME NEW o \in Ops, NEW v \in Vaults, VaultServed(o, v)
      PROVE  LockInv'
  BY <1>3, <1>7 DEF VaultServed, Asks, Runs
<1>8. ASSUME NEW t, Select(t) \/ Effect PROVE LockInv'
  BY <1>0, <1>1, <1>8, LocksSettle DEF Select, Effect, Settle, guards
<1>9. ASSUME NEW v, SelectVault(v) PROVE LockInv'
  BY <1>2, <1>9 DEF SelectVault
<1>10. ASSUME NEW r, NEW ok, ReadEnds(r, ok) PROVE LockInv'
  BY <1>2, <1>10 DEF ReadEnds, RefreshSelection
<1>11. ASSUME NEW t, OtherClient(t) \/ Poll(t) \/ ReadServed(t) PROVE LockInv'
  BY <1>1, <1>11 DEF OtherClient, Poll, ReadServed, guards
<1>12. CASE UNCHANGED vars
  BY <1>1, <1>12 DEF vars, guards
<1> QED
  BY <1>4, <1>5, <1>6, <1>7, <1>8, <1>9, <1>10, <1>11, <1>12 DEF Next

-----------------------------------------------------------------------------
(* Who waits after a step has waited for the same one before.              *)
NobodyWaitsAnew ==
    \A o \in Ops : Waits(o)' => Waits(o) /\ ops'[o].prev = ops[o].prev

(* Only a mutation that gets in line waits for another one than before.    *)
LEMMA WaitingStep ==
    IInv /\ [Next]_vars => NobodyWaitsAnew \/ \E o \in Ops : Enters(o)
<1> SUFFICES ASSUME IInv, [Next]_vars, ~(\E o \in Ops : Enters(o)) PROVE NobodyWaitsAnew
  OBVIOUS
<1>0. TypeOK /\ IntoVaults
  BY DEF IInv
<1> USE DEF NobodyWaitsAnew, Waits
<1>1. ASSUME UNCHANGED ops PROVE NobodyWaitsAnew
  BY <1>1 DEF Runs
<1>2. ASSUME ops' = ops \/ ops' = Navigated PROVE NobodyWaitsAnew
  BY <1>0, <1>2, AfterNavigation
<1>3. ASSUME NEW o \in Ops, Runs(o), NEW v \in Vaults \union {None}, Serve(o, v)
      PROVE  NobodyWaitsAnew
  <2>1. \A p \in Ops : (Runs(p)' <=> Runs(p)) /\ (p # o => ops'[p] = ops[p])
    BY <1>0, <1>3, AfterServe
  <2>2. ops'[o].prev = ops[o].prev
    BY <1>0, <1>3, AfterServe
  <2> QED
    BY <2>1, <2>2
<1>4. ASSUME NEW o \in Ops, OpAdvances(o) PROVE NobodyWaitsAnew
  <2>1. ASSUME NEW x \in {None} \union Mutations(Kinds, Trees), Runs(o), Becomes(o, x),
               x # None => x.prev = ops[o].prev
        PROVE  NobodyWaitsAnew
    <3>1. /\ ops'[o] = x
          /\ \A p \in Ops \ {o} :
               /\ Runs(p)' <=> Runs(p)
               /\ Runs(p) => ops'[p].prev \in {None, ops[p].prev}
      BY <1>0, <2>1, AfterBecomes
    <3> QED
      BY <2>1, <3>1 DEF Runs
  <2>2. CASE Over(o)
    BY <2>1, <2>2 DEF Over, Continues, Finish
  <2>3. ASSUME NEW x, GoesOn(o, x) PROVE NobodyWaitsAnew
    BY <2>1, <2>3 DEF GoesOn, Continues
  <2> QED
    BY <1>0, <1>4, <2>2, <2>3, Advances
<1>5. ASSUME NEW o \in Ops, NEW kind \in Kinds, NEW n \in 1..MaxFiles,
             NEW v \in Vaults \union {None}, Capture(o, kind, n, v)
      PROVE  NobodyWaitsAnew
  <2>1. ops'[o].prev = None /\ \A p \in Ops \ {o} : ops'[p] = ops[p]
    BY <1>0, <1>5, AfterCapture
  <2> QED
    BY <2>1 DEF Runs
<1>6. ASSUME NEW o \in Ops, ListServed(o) \/ CreateServed(o) \/ PutServed(o)
      PROVE  NobodyWaitsAnew
  BY <1>3, <1>6 DEF ListServed, CreateServed, PutServed, Asks, Runs
<1>7. ASSUME NEW o \in Ops, NEW v \in Vaults, VaultServed(o, v) PROVE NobodyWaitsAnew
  BY <1>3, <1>7 DEF VaultServed, Asks, Runs
<1>8. ASSUME NEW t, Outdates(t) PROVE NobodyWaitsAnew
  <2> SUFFICES ASSUME NEW o \in Ops, Waits(o)'
               PROVE  Waits(o) /\ ops'[o].prev = ops[o].prev
    OBVIOUS
  <2>1. Runs(o) /\ ops'[o] = [ops[o] EXCEPT !.fresh = FALSE, !.mounted = @ /\ t # None]
    BY <1>0, <1>8, AfterSettle
  <2>2. ops[o] \in Mutations(Kinds, Trees)
    BY <1>0, <2>1 DEF TypeOK, Runs
  <2>3. ops'[o].prev = ops[o].prev
    BY <2>1, <2>2 DEF Mutations
  <2> QED
    BY <2>1, <2>3
<1>9. ASSUME NEW t, Select(t) \/ Effect PROVE NobodyWaitsAnew
  BY <1>1, <1>8, <1>9 DEF Select, Effect, Settle, guards
<1>10. ASSUME NEW v, SelectVault(v) PROVE NobodyWaitsAnew
  BY <1>2, <1>10 DEF SelectVault
<1>11. ASSUME NEW r, NEW ok, ReadEnds(r, ok) PROVE NobodyWaitsAnew
  BY <1>2, <1>11 DEF ReadEnds, RefreshSelection
<1>12. ASSUME NEW t, OtherClient(t) \/ Poll(t) \/ ReadServed(t) PROVE NobodyWaitsAnew
  BY <1>1, <1>12 DEF OtherClient, Poll, ReadServed, guards
<1>13. CASE UNCHANGED vars
  BY <1>1, <1>13 DEF vars, guards
<1> QED
  BY <1>4, <1>5, <1>6, <1>7, <1>9, <1>10, <1>11, <1>12, <1>13 DEF Next

(* Who gets in line takes the next turn; nobody waits for it yet.          *)
LEMMA OrderStep == IInv /\ [Next]_vars => InOrder'
<1> SUFFICES ASSUME IInv, [Next]_vars PROVE InOrder'
  OBVIOUS
<1>0. TypeOK /\ IntoVaults /\ LockInv
  BY DEF IInv, LockInv
<1>1. PICK turn \in [Ops -> Nat], n \in Nat :
         \A o \in Ops : turn[o] < n /\ (Waits(o) => turn[ops[o].prev] < turn[o])
  BY DEF IInv, InOrder
<1>2. CASE NobodyWaitsAnew
  <2>1. \A o \in Ops : turn[o] < n /\ (Waits(o)' => turn[ops'[o].prev] < turn[o])
    BY <1>1, <1>2 DEF NobodyWaitsAnew
  <2> QED
    BY <1>1, <2>1 DEF InOrder
<1>3. ASSUME NEW o \in Ops, Enters(o) PROVE InOrder'
  <2> DEFINE new == [turn EXCEPT ![o] = n]
  <2>1. /\ new \in [Ops -> Nat] /\ n + 1 \in Nat /\ new[o] = n
        /\ \A p \in Ops \ {o} : new[p] = turn[p] /\ new[p] < n
    BY <1>1
  <2>2. Runs(o) /\ ~Holds(ops[o]) /\ locks[ops[o].tree] \in Ops \union {None}
    BY <1>0, <1>3, LockTypes DEF Enters, Continues, Holds
  <2>3. /\ ops'[o].prev = locks[ops[o].tree]
        /\ \A p \in Ops \ {o} : ops'[p] = ops[p]
    BY <1>0, <1>3, <2>2, AfterEnter DEF Enters
  <2>4. ops'[o].prev # None => ops'[o].prev \in Ops \ {o}
    BY <1>0, <1>3, <2>2, <2>3 DEF LockInv, LocksAreHeld, Enters
  <2>5. \A p \in Ops \ {o} : Waits(p)' => Waits(p) /\ ops[p].prev \in Ops \ {o}
    BY <1>0, <2>2, <2>3, Waiting DEF Waits, Runs
  <2> HIDE DEF new
  <2>6. \A p \in Ops : new[p] < n + 1 /\ (Waits(p)' => new[ops'[p].prev] < new[p])
    BY <1>1, <2>1, <2>3, <2>4, <2>5 DEF Waits
  <2> QED
    BY <2>1, <2>6 DEF InOrder
<1> QED
  BY <1>2, <1>3, WaitingStep

-----------------------------------------------------------------------------
(* A mutation that has found no subfolder and has not made one yet.        *)
Makes(x) ==
    /\ x # None /\ x.mounted
    /\ \/ x.step = "list" /\ x.served /\ ~x.found
       \/ x.step = "create" /\ ~x.served

(* In every step, who is about to make a subfolder is the first to do so.  *)
LEMMA FoldersStep == IInv /\ [Next]_vars => Folders'
<1> SUFFICES ASSUME IInv, [Next]_vars PROVE Folders'
  OBVIOUS
<1>0. /\ TypeOK /\ IntoVaults /\ LockInv /\ mine \in [Vaults -> Nat]
      /\ \A t \in Vaults : mine[t] > 0 => mine[t] = 1 /\ t \in dirs
      /\ \A o \in Ops : Makes(ops[o]) => mine[ops[o].tree] = 0 /\ ops[o].tree \in Vaults
  BY DEF IInv, LockInv, TypeOK, Folders, Makes, Runs, IntoVaults
<1>1. ASSUME \A t \in Vaults : mine'[t] > 0 => mine'[t] = 1 /\ t \in dirs',
             \A o \in Ops : Makes(ops'[o]) => mine'[ops'[o].tree] = 0
      PROVE  Folders'
  BY <1>1 DEF Folders, Makes, Runs
<1>2. ASSUME mine' = mine, dirs' \in {dirs} \union {dirs \union {t} : t \in Trees},
             \A o \in Ops : Makes(ops'[o]) => Makes(ops[o]) /\ ops'[o].tree = ops[o].tree
      PROVE  Folders'
  BY <1>0, <1>1, <1>2
<1>4. ASSUME NEW t, Outdates(t), dirs' = dirs PROVE Folders'
  <2>1. \A o \in Ops :
          /\ Runs(o)' <=> Runs(o)
          /\ Runs(o) => /\ ops[o] \in Mutations(Kinds, Trees)
                        /\ ops'[o] = [ops[o] EXCEPT !.fresh = FALSE, !.mounted = @ /\ t # None]
    BY <1>0, <1>4, AfterSettle DEF TypeOK, Runs
  <2>2. ASSUME NEW o \in Ops, Makes(ops'[o])
        PROVE  t # None /\ Makes(ops[o]) /\ ops'[o].tree = ops[o].tree
    <3>1. /\ Runs(o) /\ ops[o] \in Mutations(Kinds, Trees)
          /\ ops'[o] = [ops[o] EXCEPT !.fresh = FALSE, !.mounted = @ /\ t # None]
      BY <2>1, <2>2 DEF Makes, Runs
    <3>2. /\ ops'[o].mounted = (ops[o].mounted /\ t # None) /\ ops'[o].tree = ops[o].tree
          /\ ops'[o].step = ops[o].step /\ ops'[o].served = ops[o].served
          /\ ops'[o].found = ops[o].found
      BY <3>1 DEF Mutations
    <3> QED
      BY <2>2, <3>1, <3>2 DEF Makes, Runs
  <2>3. CASE t # None
    BY <1>2, <1>4, <2>2, <2>3 DEF Outdates
  <2>4. CASE t = None
    <3>1. mine' = [x \in Vaults |-> 0]
      BY <1>4, <2>4 DEF Outdates
    <3> QED
      BY <1>1, <2>2, <2>4, <3>1
  <2> QED
    BY <2>3, <2>4
<1>5. ASSUME mine' = mine, dirs' = dirs, ops' = ops \/ ops' = Navigated PROVE Folders'
  <2>1. \A o \in Ops : /\ Runs(o)' <=> Runs(o)
                       /\ Runs(o) => Alike(ops'[o], ops[o])
    BY <1>0, <1>5, AfterNavigation
  <2>2. \A o \in Ops : Makes(ops'[o]) => Makes(ops[o]) /\ ops'[o].tree = ops[o].tree
    BY <2>1 DEF Alike, Makes, Runs
  <2> QED
    BY <1>2, <1>5, <2>2
<1>6. ASSUME NEW o \in Ops, Runs(o), NEW v \in Vaults \union {None}, Serve(o, v)
      PROVE  /\ \A p \in Ops \ {o} : ops'[p] = ops[p]
             /\ ops'[o].tree = ops[o].tree /\ ops'[o].mounted = ops[o].mounted
             /\ ops'[o].step = ops[o].step /\ ops'[o].served
             /\ ops'[o].found = (ops[o].step = "list" /\ ops[o].tree \in dirs)
  BY <1>0, <1>6, AfterServe
<1>7. ASSUME NEW o \in Ops, ListServed(o) PROVE Folders'
  <2>1. Runs(o) /\ ops[o].step = "list" /\ Serve(o, None) /\ mine' = mine /\ dirs' = dirs
    BY <1>7 DEF ListServed, Asks, Runs, server
  <2>2. ops[o].tree \in Vaults
    BY <1>0, <2>1 DEF IntoVaults
  <2>3. ASSUME NEW p \in Ops, Makes(ops'[p]) PROVE mine'[ops'[p].tree] = 0
    <3>1. CASE p # o
      BY <1>0, <1>6, <2>1, <2>3, <3>1
    <3>2. CASE p = o
      <4>1. ops[o].tree \notin dirs /\ ops'[o].tree = ops[o].tree
        BY <1>6, <2>1, <2>3, <3>2 DEF Makes
      <4>2. ~(mine[ops[o].tree] > 0) /\ mine[ops[o].tree] \in Nat
        BY <1>0, <2>2, <4>1
      <4> QED
        BY <2>1, <3>2, <4>1, <4>2
    <3> QED
      BY <3>1, <3>2
  <2> QED
    BY <1>0, <1>1, <2>1, <2>3
<1>8. ASSUME NEW o \in Ops, CreateServed(o) PROVE Folders'
  <2>1. Runs(o) /\ ops[o].step = "create" /\ ~ops[o].served /\ Serve(o, None)
    BY <1>8 DEF CreateServed, Asks, Runs
  <2> DEFINE t == ops[o].tree
  <2>2. t \in Vaults
    BY <1>0, <2>1 DEF IntoVaults
  <2>3. dirs' = dirs \union {t}
    BY <1>8 DEF CreateServed
  <2>4. CASE ~ops[o].mounted
    <3>1. mine' = mine
      BY <1>0, <1>8, <2>2, <2>4 DEF CreateServed
    <3>2. \A p \in Ops : Makes(ops'[p]) => Makes(ops[p]) /\ ops'[p].tree = ops[p].tree
      BY <1>6, <2>1, <2>4 DEF Makes
    <3> QED
      BY <1>0, <1>1, <2>3, <3>1, <3>2
  <2>5. CASE ops[o].mounted
    <3>1. Makes(ops[o])
      BY <2>1, <2>5 DEF Makes, Runs
    <3>2. \A x \in Vaults : mine'[x] = IF x = t THEN 1 ELSE mine[x]
      BY <1>0, <1>8, <2>2, <2>5, <3>1 DEF CreateServed
    <3>3. ASSUME NEW p \in Ops, Makes(ops'[p])
          PROVE  p # o /\ Makes(ops[p]) /\ ops'[p].tree = ops[p].tree /\ ops[p].tree # t
      <4>1. p # o /\ ops'[p] = ops[p] /\ Makes(ops[p])
        BY <1>6, <2>1, <3>3 DEF Makes
      <4>2. InLine(o) /\ InLine(p) /\ ops[o].prev = None /\ ops[p].prev = None
        BY <1>0, <2>1, <2>5, <4>1 DEF InLine, Holds, Makes, Runs, LockInv, SameInstance
      <4>3. ops[p].tree # t
        BY <1>0, <4>1, <4>2, OneOwner
      <4> QED
        BY <4>1, <4>3
    <3>4. \A x \in Vaults : mine'[x] > 0 => mine'[x] = 1 /\ x \in dirs'
      BY <1>0, <2>3, <3>2
    <3>5. \A p \in Ops : Makes(ops'[p]) => mine'[ops'[p].tree] = 0
      BY <1>0, <3>2, <3>3
    <3> QED
      BY <1>1, <3>4, <3>5
  <2> QED
    BY <2>4, <2>5
<1>9. ASSUME NEW o \in Ops, NEW v \in Vaults \union {None}, Runs(o), ops[o].step = "put",
             Serve(o, v)
      PROVE  \A p \in Ops : Makes(ops'[p]) => Makes(ops[p]) /\ ops'[p].tree = ops[p].tree
  BY <1>6, <1>9 DEF Makes
<1>10. ASSUME NEW o \in Ops, PutServed(o) PROVE Folders'
  <2>1. Runs(o) /\ ops[o].step = "put" /\ Serve(o, None)
    BY <1>10 DEF PutServed, Asks, Runs
  <2>2. CASE UNCHANGED <<dirs, mine>>
    BY <1>2, <1>9, <2>1, <2>2
  <2>3. CASE dirs' = dirs \ {ops[o].tree} /\ mine' = [mine EXCEPT ![ops[o].tree] = 0]
    <3>1. \A x \in Vaults : mine'[x] = IF x = ops[o].tree THEN 0 ELSE mine[x]
      BY <1>0, <2>3
    <3>2. \A p \in Ops : Makes(ops'[p]) => Makes(ops[p]) /\ ops'[p].tree = ops[p].tree
      BY <1>9, <2>1
    <3>3. \A x \in Vaults : mine'[x] > 0 => mine'[x] = 1 /\ x \in dirs'
      BY <1>0, <2>3, <3>1
    <3>4. \A p \in Ops : Makes(ops'[p]) => mine'[ops'[p].tree] = 0
      BY <1>0, <3>1, <3>2
    <3> QED
      BY <1>1, <3>3, <3>4
  <2> QED
    BY <1>10, <2>2, <2>3 DEF PutServed
<1>11. ASSUME NEW o \in Ops, NEW v \in Vaults, VaultServed(o, v) PROVE Folders'
  BY <1>2, <1>9, <1>11 DEF VaultServed, Asks, Runs
<1>12. ASSUME NEW o \in Ops, OpAdvances(o) PROVE Folders'
  <2>1. mine' = mine /\ dirs' = dirs
    BY <1>0, <1>12, Advances DEF Over, Enters, GoesOn, Continues, server
  <2>2. CASE Over(o)
    <3>1. /\ ops'[o] = None
          /\ \A p \in Ops \ {o} : (Runs(p)' <=> Runs(p)) /\ (Runs(p) => Alike(ops'[p], ops[p]))
      BY <1>0, <2>2, AfterBecomes DEF Over, Finish
    <3>2. \A p \in Ops : Makes(ops'[p]) => Makes(ops[p]) /\ ops'[p].tree = ops[p].tree
      BY <3>1 DEF Makes, Alike, Runs
    <3> QED
      BY <1>2, <2>1, <3>2
  <2>3. CASE Enters(o)
    <3>1. ops'[o].step = "lock" /\ \A p \in Ops \ {o} : ops'[p] = ops[p]
      BY <1>0, <2>3, AfterEnter DEF Enters, Continues
    <3>2. \A p \in Ops : Makes(ops'[p]) => Makes(ops[p]) /\ ops'[p].tree = ops[p].tree
      BY <3>1 DEF Makes
    <3> QED
      BY <1>2, <2>1, <3>2
  <2>4. ASSUME NEW x, GoesOn(o, x) PROVE Folders'
    <3>1. /\ ops'[o] = x
          /\ \A p \in Ops \ {o} : (Runs(p)' <=> Runs(p)) /\ (Runs(p) => Alike(ops'[p], ops[p]))
      BY <1>0, <2>4, AfterBecomes DEF GoesOn
    <3>2. Makes(x) => Makes(ops[o]) /\ x.tree = ops[o].tree
      BY <2>4 DEF GoesOn, Continues, Makes, Runs
    <3>3. \A p \in Ops : Makes(ops'[p]) => Makes(ops[p]) /\ ops'[p].tree = ops[p].tree
      BY <3>1, <3>2 DEF Makes, Alike, Runs
    <3> QED
      BY <1>2, <2>1, <3>3
  <2> QED
    BY <1>0, <1>12, <2>2, <2>3, <2>4, Advances
<1>13. ASSUME NEW o \in Ops, NEW kind \in Kinds, NEW n \in 1..MaxFiles,
              NEW v \in Vaults \union {None}, Capture(o, kind, n, v)
       PROVE  Folders'
  <2>1. mine' = mine /\ dirs' = dirs
    BY <1>13 DEF Capture, server
  <2>2. ops'[o].step \in {"read", "put"} /\ \A p \in Ops \ {o} : ops'[p] = ops[p]
    BY <1>0, <1>13, AfterCapture
  <2>3. \A p \in Ops : Makes(ops'[p]) => Makes(ops[p]) /\ ops'[p].tree = ops[p].tree
    BY <2>2 DEF Makes
  <2> QED
    BY <1>2, <2>1, <2>3
<1>14. ASSUME NEW t, Select(t) \/ Effect PROVE Folders'
  BY <1>4, <1>5, <1>14 DEF Select, Effect, Settle, guards, server
<1>15. ASSUME NEW v, SelectVault(v) PROVE Folders'
  BY <1>5, <1>15 DEF SelectVault, server
<1>16. ASSUME NEW r, NEW ok, ReadEnds(r, ok) PROVE Folders'
  BY <1>5, <1>16 DEF ReadEnds, RefreshSelection, server
<1>17. ASSUME NEW t, Poll(t) \/ ReadServed(t) PROVE Folders'
  BY <1>5, <1>17 DEF Poll, ReadServed, guards, server
<1>18. ASSUME NEW t, OtherClient(t) PROVE Folders'
  BY <1>2, <1>18 DEF OtherClient, guards
<1>19. CASE UNCHANGED vars
  BY <1>5, <1>19 DEF vars, guards, server
<1> QED
  BY <1>7, <1>8, <1>10, <1>11, <1>12, <1>13, <1>14, <1>15, <1>16, <1>17, <1>18, <1>19 DEF Next

-----------------------------------------------------------------------------
(* The invariant holds at first, in every step and so always.              *)
LEMMA InitInvariant == Init => IInv
<1> SUFFICES ASSUME Init PROVE IInv
  OBVIOUS
<1> USE DEF Init
<1>1. TypeOK
  <2>1. ver \in 0..MaxVer /\ exists \subseteq Vaults
    BY ViewConstants
  <2> QED
    BY <2>1 DEF TypeOK
<1>2. \A o \in Ops : ~Runs(o)
  BY DEF Runs
<1>3. \A r \in Reads : ~Reading(r)
  BY DEF Reading
<1>4. OneIdentity /\ Recent /\ NewVaults /\ IntoVaults /\ SelectedIsListed
  BY <1>2, <1>3 DEF OneIdentity, Recent, NewVaults, IntoVaults, SelectedIsListed, Fresh
<1>5. LocksAreHeld /\ SameInstance
  BY <1>2 DEF LocksAreHeld, SameInstance, Runs
<1>6. Queue
  <2>1. [o \in Ops |-> 0] \in [Ops -> Nat] /\ 1 \in Nat
    OBVIOUS
  <2>2. \A o \in Ops : [p \in Ops |-> 0][o] < 1 /\ ~InLine(o)
    BY <1>2 DEF InLine
  <2> QED
    BY <2>1, <2>2 DEF Queue
<1>7. Folders
  BY <1>2 DEF Folders
<1>8. InOrder
  <2>1. [o \in Ops |-> 0] \in [Ops -> Nat] /\ 1 \in Nat
    OBVIOUS
  <2>2. \A o \in Ops : [p \in Ops |-> 0][o] < 1 /\ ~Waits(o)
    BY <1>2 DEF Waits
  <2> QED
    BY <2>1, <2>2 DEF InOrder
<1> QED
  BY <1>1, <1>4, <1>5, <1>6, <1>7, <1>8 DEF IInv

(* No step breaks it.                                                      *)
LEMMA StepInvariant == IInv /\ [Next]_vars => IInv'
<1> SUFFICES ASSUME IInv, [Next]_vars PROVE IInv'
  OBVIOUS
<1>1. TypeOK'
  BY TypeStep, TypesThen DEF IInv
<1>2. LocksAreHeld' /\ SameInstance' /\ Queue'
  BY LockStep DEF LockInv
<1> QED
  BY <1>1, <1>2, AboutStep, IdentityStep, RecentStep, SelectedStep, OrderStep, FoldersStep
     DEF IInv

(* So it holds in every run.                                               *)
LEMMA Invariant == Spec => []IInv
  BY InitInvariant, StepInvariant, PTL DEF Spec

(* In every run with any trees, mutations and polls the variables keep     *)
(* their types.                                                            *)
THEOREM TypeCorrect == Spec => []TypeOK
<1>1. IInv => TypeOK
  BY DEF IInv
<1> QED
  BY <1>1, Invariant, PTL

(* A panel never shows a listing, details or members of another tree than  *)
(* the one selected, however many requests of earlier trees are answered,  *)
(* and no vault stays selected that the list shown does not have.          *)
THEOREM PanelsShowTheSelected == Spec => []ShowsTheSelected
<1>1. IInv => ShowsTheSelected
  BY DEF IInv, OneIdentity, ShowsTheSelected, Settled
<1> QED
  BY <1>1, Invariant, PTL

(* A view is busy exactly while one mutation of what it shows runs.        *)
THEOREM BusyIsTruthful == Spec => []BusyTruthful
<1>1. ASSUME IInv PROVE BusyTruthful
  <2> DEFINE F == {o \in Ops : ops[o] # None /\ ops[o].fresh}
  <2>1. \A o, p \in F : o = p
    BY <1>1 DEF IInv, OneIdentity, Fresh, Runs
  <2>2. Cardinality(F) <= 1
    <3>1. CASE F = {}
      BY <3>1, FS_EmptySet
    <3>2. ASSUME NEW o \in F PROVE Cardinality(F) <= 1
      <4>1. F = {o} /\ Cardinality({o}) = 1
        BY <2>1, <3>2, FS_Singleton
      <4> HIDE DEF F
      <4> QED
        BY <4>1
    <3> QED
      BY <3>1, <3>2
  <2>3. Settled => /\ busy = inFlight
                   /\ busy = (\E o \in Ops : ops[o] # None /\ ops[o].fresh)
    BY <1>1 DEF IInv, TypeOK, OneIdentity, Fresh, Runs
  <2> QED
    BY <2>2, <2>3 DEF BusyTruthful
<1> QED
  BY <1>1, Invariant, PTL

(* What a view shows of a tree is never replaced by an older state of it,  *)
(* in whatever order polls and refreshes are answered.                     *)
THEOREM ViewsNeverGoBack == Spec => NeverGoesBack
<1>1. IInv /\ [Next]_vars =>
        [None \notin {shown, shown'} /\ shown'.tree = shown.tree
           => shown'.of.ver >= shown.of.ver]_vars
  BY RecentStep DEF Forward
<1> QED
  BY <1>1, Invariant, PTL DEF Spec, NeverGoesBack

(* However many uploads there are, every one that waits waits for one that *)
(* runs, and they never wait in a circle: in every set of them the one     *)
(* with the lowest turn waits for none of the set.                         *)
THEOREM NoUploadsDeadlock == Spec => []UploadsGoOn
<1>1. ASSUME IInv PROVE NoCircularWait
  <2> SUFFICES ASSUME NEW S \in SUBSET Ops, S # {}
               PROVE  \E o \in S : ~(ops[o] # None /\ ops[o].prev \in S)
    BY DEF NoCircularWait
  <2>1. PICK turn \in [Ops -> Nat] : \A o \in Ops : Waits(o) => turn[ops[o].prev] < turn[o]
    BY <1>1 DEF IInv, InOrder
  <2> DEFINE T == {turn[o] : o \in S}
  <2>2. T \subseteq Nat /\ T # {}
    OBVIOUS
  <2>3. PICK x \in T : \A y \in T : ~(<<y, x>> \in OpToRel(<, Nat))
    <3> HIDE DEF T
    <3> QED
      BY <2>2, WFMin, NatLessThanWellFounded
  <2>4. \A y \in T : ~(y < x)
    BY <2>2, <2>3 DEF OpToRel
  <2>5. PICK o \in S : x = turn[o]
    OBVIOUS
  <2>6. ASSUME ops[o] # None, ops[o].prev \in S PROVE FALSE
    <3>1. Waits(o)
      BY <2>6, ViewConstants DEF Waits, Runs
    <3>2. turn[ops[o].prev] < x /\ turn[ops[o].prev] \in T
      BY <2>1, <2>5, <2>6, <3>1
    <3> QED
      BY <2>4, <3>2
  <2> QED
    BY <2>6
<1>2. IInv => UploadsGoOn
  BY <1>1 DEF IInv, UploadsGoOn
<1> QED
  BY <1>2, Invariant, PTL

(* The uploads of one instance make one subfolder for a path, however many *)
(* there are and in whatever order they go on.                             *)
THEOREM UploadsShareAFolder == Spec => []OneFolderPerPath
<1>1. ASSUME IInv PROVE OneFolderPerPath
  <2>1. \A t \in Vaults : mine[t] \in Nat /\ (mine[t] > 0 => mine[t] = 1)
    BY <1>1 DEF IInv, TypeOK, Folders
  <2> QED
    BY <2>1 DEF OneFolderPerPath
<1> QED
  BY <1>1, Invariant, PTL
=============================================================================
