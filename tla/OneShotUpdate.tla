---------------------------- MODULE OneShotUpdate ----------------------------
(***************************************************************************)
(* What an offline package replay promises, without files or boots: a      *)
(* transaction is armed, started at most once, and is either installed on  *)
(* top of exactly its baseline or given up; nothing is armed behind a      *)
(* started transaction whose outcome is open.                              *)
(***************************************************************************)
CONSTANTS Txs, Baseline, Base, Damaged

VARIABLES use, pkgs

updateVars == <<use, pkgs>>

Init == /\ use = [t \in Txs |-> "ready"]
        /\ pkgs = Base

Arm(t) == /\ use[t] = "ready"
          /\ \A u \in Txs: use[u] \notin {"armed", "running"}
          /\ use' = [use EXCEPT ![t] = "armed"]
          /\ UNCHANGED pkgs

Disarm(t) == /\ use[t] = "armed"
             /\ use' = [use EXCEPT ![t] = "ready"]
             /\ UNCHANGED pkgs

Start(t) == /\ use[t] = "armed"
            /\ use' = [use EXCEPT ![t] = "running"]
            /\ UNCHANGED pkgs

Install(t) == /\ use[t] = "running"
              /\ pkgs = Baseline[t]
              /\ use' = [use EXCEPT ![t] = "installed"]
              /\ pkgs' = t

GiveUp(t) == /\ use[t] \in {"running", "installed"}
             /\ use' = [use EXCEPT ![t] = "failed"]
             /\ UNCHANGED pkgs

Complete(t) == /\ use[t] = "installed"
               /\ use' = [use EXCEPT ![t] = "done"]
               /\ UNCHANGED pkgs

(* The replay stops half way, or someone else changes the packages.        *)
Damage == /\ pkgs' = Damaged
          /\ UNCHANGED use

Next == \/ \E t \in Txs: \/ Arm(t) \/ Disarm(t) \/ Start(t) \/ Install(t)
                         \/ GiveUp(t) \/ Complete(t)
        \/ Damage

Spec == Init /\ [][Next]_updateVars
=============================================================================
