------------------------------ MODULE MCBroker ------------------------------
(* Model-checking instance of Broker: one lease that both roles ask for,   *)
(* and three accounts, two more than it should ever have.  BrokerProofs    *)
(* covers any number of leases for the safety properties.                  *)
(* What owner and project say of an account that is still unused, and the  *)
(* last request of a broker that has had none, mean nothing: one value of  *)
(* each is enough.                                                         *)
EXTENDS Broker

MCInit ==
    /\ Init
    /\ \A a \in Accounts :
        owner[a] = (CHOOSE l \in Leases : TRUE) /\ project[a] = (CHOOSE p \in Roles : TRUE)
    /\ work = [step |-> "idle", op |-> "read", uid |-> CHOOSE p \in Roles : TRUE,
               lease |-> CHOOSE l \in Leases : TRUE, key |-> NoAccount]

MCSpec == MCInit /\ [][Next]_vars /\ PersistentCleanup
=============================================================================
