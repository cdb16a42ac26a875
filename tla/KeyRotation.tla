---------------------------- MODULE KeyRotation ----------------------------
(***************************************************************************)
(* What a deployment promises about the provider's keys: the key in use on *)
(* the target is one that was issued and is still accepted.  A key is      *)
(* issued once, put in use only while it is live, and retired only when it *)
(* is not in use.                                                          *)
(***************************************************************************)
CONSTANTS Leases, NoLease

VARIABLES inUse, issued, revoked

rotationVars == <<inUse, issued, revoked>>

Init == inUse = NoLease /\ issued = {} /\ revoked = {}

Issue(l) ==
    /\ l \notin issued
    /\ issued' = issued \cup {l}
    /\ UNCHANGED <<inUse, revoked>>

Use(l) ==
    /\ l = NoLease \/ l \in issued \ revoked
    /\ inUse' = l
    /\ UNCHANGED <<issued, revoked>>

Retire(l) ==
    /\ l \in issued \ revoked
    /\ l # inUse
    /\ revoked' = revoked \cup {l}
    /\ UNCHANGED <<inUse, issued>>

Next == \/ \E l \in Leases: Issue(l) \/ Retire(l)
        \/ \E l \in Leases \cup {NoLease}: Use(l)

Spec == Init /\ [][Next]_rotationVars
=============================================================================
