----------------------------- MODULE GrantCustody -----------------------------
(***************************************************************************)
(* What a TeleCrypt client promises about the server sessions ("grants")   *)
(* it is given: once the credentials of a session are stored, they stay    *)
(* usable until the server has ended the session, so the user can always   *)
(* retry the logout.                                                       *)
(*                                                                         *)
(* CLI.md: "Logout revokes the server session before removing local        *)
(* credentials. If the server cannot be reached or rejects the request,    *)
(* the profile is retained so logout can be retried."                      *)
(***************************************************************************)
CONSTANT Grants

VARIABLES
    issued,  \* grants the server has issued for the client
    live,    \* grants the server still accepts
    held,    \* grants a running operation has in memory
    kept     \* grants whose stored credentials a logout would present

custodyVars == <<issued, live, held, kept>>

CustodyTypeOK ==
    /\ issued \subseteq Grants
    /\ live \subseteq issued
    /\ held \subseteq issued
    /\ kept \subseteq issued

CustodyInit ==
    /\ issued = {}
    /\ live = {}
    /\ held = {}
    /\ kept = {}

Issue(g) ==
    /\ g \notin issued
    /\ issued' = issued \union {g}
    /\ live' = live \union {g}
    /\ held' = held \union {g}
    /\ UNCHANGED kept

(* The server issues a grant and the client never gets its tokens.         *)
Miss(g) ==
    /\ g \notin issued
    /\ issued' = issued \union {g}
    /\ live' = live \union {g}
    /\ UNCHANGED <<held, kept>>

Keep(g) ==
    /\ g \in held
    /\ kept' = kept \union {g}
    /\ UNCHANGED <<issued, live, held>>

End(g) ==
    /\ live' = live \ {g}
    /\ UNCHANGED <<issued, held, kept>>

(* Stored credentials are given up only when the grant has ended.          *)
Discharge(g) ==
    /\ g \notin live
    /\ kept' = kept \ {g}
    /\ UNCHANGED <<issued, live, held>>

(* The operation that has the grant in memory returns, fails or is killed. *)
LetGo(g) ==
    /\ held' = held \ {g}
    /\ UNCHANGED <<issued, live, kept>>

CustodyNext ==
    \E g \in Grants : Issue(g) \/ Miss(g) \/ Keep(g) \/ End(g) \/ Discharge(g) \/ LetGo(g)

CustodySpec == CustodyInit /\ [][CustodyNext]_custodyVars

-----------------------------------------------------------------------------
(* Credentials of a grant that is still live are never given up.           *)
KeptUntilEnded == [][\A g \in kept : g \in live' => g \in kept']_custodyVars
=============================================================================
