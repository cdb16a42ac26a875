---------------------------- MODULE BrokerProofs ----------------------------
(***************************************************************************)
(* Leases and what is certified with them.  First the safety properties of *)
(* the broker, for any set of leases, accounts and roles; then those of    *)
(* the certification, a run of which draws one lease and has to see it     *)
(* revoked, for any number of faults.  The two models share no variable.   *)
(***************************************************************************)
EXTENDS Broker, Certification, TLAPS

USE BrokerAssumption

(* An abandoned request leaves files, provider and replies alone, so the   *)
(* invariant survives it.                                                  *)
LEMMA AbandonKeepsIInv ==
    ASSUME IInv, Abandon, UNCHANGED <<providerVars, replyVars>>
    PROVE  IInv'
<1> USE DEF providerVars, replyVars, Abandon
<1>1. TypeOK'
  BY DEF IInv, TypeOK, Steps
<1>2. WorkInv'
  BY DEF IInv, TypeOK, WorkInv, At, r0, l0
<1>3. RecordInv' /\ ProviderInv' /\ GrantInv' /\ OneAccountPerLease' /\ LiveAccountsAreRecorded'
  BY DEF IInv, RecordInv, ProviderInv, GrantInv, OneAccountPerLease, LiveAccountsAreRecorded
<1> QED BY <1>1, <1>2, <1>3 DEF IInv

(* A step that only moves the handler on, between "begin" and its first    *)
(* effect or after a probe, keeps every part that does not mention it.     *)
LEMMA MoveKeepsFiles ==
    ASSUME IInv, UNCHANGED <<rec, cred, providerVars, replyVars>>
    PROVE  RecordInv' /\ ProviderInv' /\ GrantInv' /\ OneAccountPerLease' /\ LiveAccountsAreRecorded'
BY DEF IInv, RecordInv, ProviderInv, GrantInv, OneAccountPerLease, LiveAccountsAreRecorded,
       providerVars, replyVars

LEMMA InitIInv == Init => IInv
<1> SUFFICES ASSUME Init PROVE IInv
  OBVIOUS
<1>1. TypeOK
  BY DEF Init, TypeOK, NoRecord, States, Steps, Operations
<1>2. OneAccountPerLease /\ ProviderInv /\ LiveAccountsAreRecorded /\ GrantInv
  BY DEF Init, OneAccountPerLease, ProviderInv, LiveAccountsAreRecorded, GrantInv
<1>3. WorkInv
  BY DEF Init, WorkInv, At
<1>4. RecordInv
  BY DEF Init, RecordInv, NoRecord
<1> QED BY <1>1, <1>2, <1>3, <1>4 DEF IInv

(* A creation by the provider, for the handler that waits in "post".       *)
LEMMA CreatedKeepsProvider ==
    ASSUME IInv, NEW a \in Accounts, At("post"), Created(a),
           UNCHANGED <<rec, cred, replyVars>>
    PROVE  /\ OneAccountPerLease' /\ RecordInv' /\ ProviderInv'
           /\ LiveAccountsAreRecorded' /\ GrantInv'
<1> USE DEF Created, replyVars
<1>0. /\ TypeOK /\ account' \in [Accounts -> {"unused", "live", "deleted"}]
      /\ owner' \in [Accounts -> Leases] /\ l0 \in Leases
  BY DEF IInv, TypeOK, l0
<1>1. OneAccountPerLease'
  BY <1>0 DEF IInv, TypeOK, WorkInv, OneAccountPerLease, At, l0
<1>2. RecordInv'
  BY <1>0 DEF IInv, TypeOK, WorkInv, RecordInv, At, r0, l0
<1>3. ProviderInv'
  BY <1>0 DEF IInv, TypeOK, WorkInv, ProviderInv, At, r0, l0
<1>4. LiveAccountsAreRecorded'
  BY <1>0 DEF IInv, TypeOK, WorkInv, LiveAccountsAreRecorded, At, r0, l0
<1>5. GrantInv'
  BY <1>0 DEF IInv, TypeOK, WorkInv, GrantInv, At, r0, l0
<1> QED BY <1>1, <1>2, <1>3, <1>4, <1>5

(* A deletion by the provider, for the handler that waits in "delete".     *)
LEMMA DeletedKeepsProvider ==
    ASSUME IInv, DeleteApplied, UNCHANGED <<rec, cred, replyVars>>
    PROVE  /\ OneAccountPerLease' /\ RecordInv' /\ ProviderInv'
           /\ LiveAccountsAreRecorded' /\ GrantInv'
           /\ account' \in [Accounts -> {"unused", "live", "deleted"}]
           /\ account'[work.key] = "deleted"
<1> USE DEF DeleteApplied, replyVars
<1>0. /\ TypeOK /\ l0 \in Leases /\ work.key \in Accounts /\ work.key = r0.account
      /\ account' = [account EXCEPT ![work.key] = "deleted"]
  BY DEF IInv, TypeOK, WorkInv, At, l0, r0
<1>1. OneAccountPerLease'
  BY <1>0 DEF IInv, TypeOK, OneAccountPerLease
<1>2. RecordInv'
  BY <1>0 DEF IInv, TypeOK, RecordInv
<1>3. ProviderInv'
  BY <1>0 DEF IInv, TypeOK, ProviderInv
<1>4. LiveAccountsAreRecorded' /\ GrantInv'
  BY <1>0 DEF IInv, TypeOK, LiveAccountsAreRecorded, GrantInv
<1> QED BY <1>0, <1>1, <1>2, <1>3, <1>4 DEF TypeOK

LEMMA NextIInv == IInv /\ [Next]_vars => IInv'
<1> SUFFICES ASSUME IInv, [Next]_vars PROVE IInv'
  OBVIOUS
<1>t. TypeOK
  BY DEF IInv
<1>0. l0 \in Leases /\ r0 = rec[l0] /\ l0 = work.lease
  BY <1>t DEF TypeOK, l0, r0
<1>1. ASSUME NEW uid \in Roles, NEW op \in Operations, NEW l \in Leases, Receive(uid, op, l)
      PROVE  IInv'
  <2>1. TypeOK'
    BY <1>1, <1>t DEF Receive, TypeOK, providerVars, replyVars, Steps
  <2>2. WorkInv'
    BY <1>1 DEF Receive, WorkInv, At
  <2> QED BY <1>1, <2>1, <2>2, MoveKeepsFiles DEF IInv, Receive
<1>2. CASE Refuse
  BY <1>2, AbandonKeepsIInv DEF Refuse
<1>3. CASE ReturnStored
  <2>1. TypeOK'
    BY <1>3, <1>t, <1>0 DEF ReturnStored, TypeOK, providerVars, replyVars, Steps
  <2>2. WorkInv'
    <3>1. /\ cred[l0] # NoAccount /\ cred[l0] \in Accounts /\ cred[l0] = r0.account
          /\ r0.role = work.uid
      BY <1>3, <1>t, <1>0 DEF ReturnStored, Admitted, SecretReadable, IInv, RecordInv, TypeOK
    <3> QED BY <1>3, <1>t, <1>0, <3>1
            DEF ReturnStored, WorkInv, At, l0, r0, TypeOK
  <2> QED BY <1>3, <2>1, <2>2, MoveKeepsFiles DEF IInv, ReturnStored
<1>4. CASE IssueBegin
  <2> USE <1>4 DEF IssueBegin, Goto, providerVars, replyVars
  <2>1. TypeOK'
    BY <1>t, <1>0 DEF TypeOK, States, Steps
  <2>2. \A a \in Accounts: account[a] # "unused" => owner[a] # l0
    BY <1>0 DEF IInv, ProviderInv
  <2>3. r0.account = NoAccount /\ cred[l0] = NoAccount /\ l0 \notin confirmed
    BY <1>0 DEF IInv, RecordInv
  <2>4. WorkInv'
    BY <1>t, <1>0, <2>2 DEF TypeOK, WorkInv, At, l0, r0
  <2>5. RecordInv'
    BY <1>t, <1>0, <2>3 DEF IInv, TypeOK, RecordInv
  <2>6. ProviderInv' /\ LiveAccountsAreRecorded'
    BY <1>t, <1>0, <2>2 DEF IInv, TypeOK, ProviderInv, LiveAccountsAreRecorded
  <2>7. OneAccountPerLease' /\ GrantInv'
    BY DEF IInv, OneAccountPerLease, GrantInv
  <2> QED BY <2>1, <2>4, <2>5, <2>6, <2>7 DEF IInv
<1>5. ASSUME NEW a \in Accounts, Post(a) PROVE IInv'
  <2>1. TypeOK'
    BY <1>5, <1>t, <1>0 DEF Post, Created, TypeOK, replyVars, Steps
  <2>2. WorkInv'
    BY <1>5, <1>t, <1>0 DEF IInv, Post, Created, TypeOK, WorkInv, At, l0, r0
  <2> QED BY <1>5, <2>1, <2>2, CreatedKeepsProvider DEF IInv, Post
<1>6. ASSUME NEW a \in Accounts, PostAnswerLost(a) PROVE IInv'
  <2>1. TypeOK'
    BY <1>6, <1>t, <1>0 DEF PostAnswerLost, Abandon, Created, TypeOK, replyVars, Steps
  <2>2. WorkInv'
    BY <1>6, <1>t DEF PostAnswerLost, Abandon, TypeOK, WorkInv, At
  <2> QED BY <1>6, <2>1, <2>2, CreatedKeepsProvider DEF IInv, PostAnswerLost, Abandon
<1>7. CASE CallFails
  BY <1>7, AbandonKeepsIInv DEF CallFails
<1>8. CASE SaveAccount
  <2> USE <1>8 DEF SaveAccount, Goto, providerVars, replyVars
  <2>a. rec' = [rec EXCEPT ![l0] = [r0 EXCEPT !.account = work.key]] /\ r0 \in [state: States,
            role: Roles \cup {NoRole}, account: Accounts \cup {NoAccount}]
    BY <1>t, <1>0 DEF TypeOK
  <2>b. work' \in [step: Steps, op: Operations, uid: Roles, lease: Leases,
                  key: Accounts \cup {NoAccount}]
    BY <1>t DEF TypeOK, Steps
  <2>1. TypeOK'
    BY <1>t, <1>0, <2>a, <2>b DEF TypeOK
  <2>2. /\ r0.state = "issuing" /\ r0.role = work.uid /\ r0.account = NoAccount
        /\ work.key \in Accounts /\ account[work.key] = "live" /\ owner[work.key] = l0
        /\ cred[l0] = NoAccount /\ l0 \notin confirmed
    BY <1>0 DEF IInv, WorkInv, RecordInv, At
  <2>3. rec' = [rec EXCEPT ![l0] = [r0 EXCEPT !.account = work.key]]
    BY <1>0
  <2>4. WorkInv'
    BY <1>t, <1>0, <2>2, <2>3 DEF TypeOK, WorkInv, At, l0, r0
  <2>5. RecordInv'
    BY <1>t, <1>0, <2>2, <2>3 DEF IInv, TypeOK, RecordInv
  <2>6. ProviderInv' /\ LiveAccountsAreRecorded'
    BY <1>t, <1>0, <2>3 DEF IInv, TypeOK, ProviderInv, LiveAccountsAreRecorded
  <2>7. OneAccountPerLease' /\ GrantInv'
    BY DEF IInv, OneAccountPerLease, GrantInv
  <2> QED BY <2>1, <2>4, <2>5, <2>6, <2>7 DEF IInv
<1>9. CASE SaveSecret
  <2> USE <1>9 DEF SaveSecret, Goto, providerVars, replyVars
  <2>1. TypeOK'
    BY <1>t, <1>0 DEF TypeOK, Steps
  <2>2. r0.state = "issuing" /\ r0.role = work.uid /\ work.key \in Accounts /\ work.key = r0.account
    BY <1>0 DEF IInv, WorkInv, At
  <2>4. WorkInv'
    BY <1>t, <1>0, <2>2 DEF TypeOK, WorkInv, At, l0, r0
  <2>5. RecordInv'
    BY <1>t, <1>0, <2>2 DEF IInv, TypeOK, RecordInv
  <2>7. OneAccountPerLease' /\ GrantInv' /\ ProviderInv' /\ LiveAccountsAreRecorded'
    BY DEF IInv, OneAccountPerLease, GrantInv, ProviderInv, LiveAccountsAreRecorded
  <2> QED BY <2>1, <2>4, <2>5, <2>7 DEF IInv
<1>10. CASE SaveSecretFails
  BY <1>10, AbandonKeepsIInv DEF SaveSecretFails
<1>11. CASE SaveReady
  <2> USE <1>11 DEF SaveReady, Goto, providerVars, replyVars
  <2>a. rec' = [rec EXCEPT ![l0] = [r0 EXCEPT !.state = "ready"]] /\ r0 \in [state: States,
            role: Roles \cup {NoRole}, account: Accounts \cup {NoAccount}]
    BY <1>t, <1>0 DEF TypeOK
  <2>b. work' \in [step: Steps, op: Operations, uid: Roles, lease: Leases,
                  key: Accounts \cup {NoAccount}]
    BY <1>t DEF TypeOK, Steps
  <2>c. [r0 EXCEPT !.state = "ready"] \in [state: States,
            role: Roles \cup {NoRole}, account: Accounts \cup {NoAccount}]
    BY <2>a DEF States
  <2>1. TypeOK'
    BY <1>t, <1>0, <2>a, <2>b, <2>c DEF TypeOK
  <2>2. r0.state = "issuing" /\ r0.role = work.uid /\ work.key \in Accounts /\ work.key = r0.account
    BY <1>0 DEF IInv, WorkInv, At
  <2>3. rec' = [rec EXCEPT ![l0] = [r0 EXCEPT !.state = "ready"]]
    BY <1>0
  <2>4. WorkInv'
    BY <1>t, <1>0, <2>2, <2>3 DEF TypeOK, WorkInv, At, l0, r0
  <2>5. RecordInv'
    BY <1>t, <1>0, <2>2, <2>3 DEF IInv, TypeOK, RecordInv
  <2>6. ProviderInv' /\ LiveAccountsAreRecorded'
    BY <1>t, <1>0, <2>3 DEF IInv, TypeOK, ProviderInv, LiveAccountsAreRecorded
  <2>7. OneAccountPerLease' /\ GrantInv'
    BY DEF IInv, OneAccountPerLease, GrantInv
  <2> QED BY <2>1, <2>4, <2>5, <2>6, <2>7 DEF IInv
<1>12. CASE ReplyKey
  <2> USE <1>12 DEF ReplyKey, Abandon, providerVars
  <2>0. /\ r0.role = work.uid /\ work.key \in Accounts
        /\ account[work.key] # "unused" /\ project[work.key] = work.uid
    BY <1>t, <1>0 DEF IInv, WorkInv, RecordInv, ProviderInv, At, TypeOK
  <2>b. work' \in [step: Steps, op: Operations, uid: Roles, lease: Leases,
                  key: Accounts \cup {NoAccount}]
    BY <1>t DEF TypeOK, Steps
  <2>c. granted' \subseteq Roles \X Accounts
    BY <1>t, <2>0 DEF TypeOK
  <2>1. TypeOK'
    BY <1>t, <2>b, <2>c DEF TypeOK
  <2>2. WorkInv'
    BY <1>t DEF TypeOK, WorkInv, At
  <2>3. GrantInv'
    BY <2>0 DEF IInv, GrantInv
  <2>4. OneAccountPerLease' /\ RecordInv' /\ ProviderInv' /\ LiveAccountsAreRecorded'
    BY DEF IInv, OneAccountPerLease, RecordInv, ProviderInv, LiveAccountsAreRecorded
  <2> QED BY <2>1, <2>2, <2>3, <2>4 DEF IInv
<1>13. CASE RevokeBegin
  <2> USE <1>13 DEF RevokeBegin
  <2>1. TypeOK'
    BY <1>t, <1>0 DEF TypeOK, providerVars, replyVars, Steps
  <2>2. r0.state # "none" /\ r0.role = work.uid
    BY <1>0 DEF Admitted
  <2>3. r0.state # "revoked" => cred[l0] \in Accounts /\ cred[l0] = r0.account
    BY <1>t, <1>0 DEF Admitted, SecretReadable, IInv, RecordInv, TypeOK
  <2>4. r0.state \in {"issuing", "ready", "deleted", "revoked"}
    BY <1>t, <1>0, <2>2 DEF TypeOK, States
  <2>5. WorkInv'
    BY <1>t, <1>0, <2>2, <2>3, <2>4 DEF WorkInv, At, l0, r0, TypeOK, providerVars, replyVars
  <2> QED BY <2>1, <2>5, MoveKeepsFiles DEF IInv
<1>14. CASE Delete
  <2> USE <1>14 DEF Delete, Goto
  <2>1. TypeOK'
    BY <1>t, <1>0, DeletedKeepsProvider DEF TypeOK, DeleteApplied, replyVars, Steps
  <2>2. WorkInv'
    BY <1>t, <1>0, DeletedKeepsProvider DEF IInv, TypeOK, DeleteApplied, WorkInv, At, l0, r0
  <2> QED BY <2>1, <2>2, DeletedKeepsProvider DEF IInv
<1>15. CASE DeleteAnswerLost
  <2> USE <1>15 DEF DeleteAnswerLost, Abandon
  <2>1. TypeOK'
    BY <1>t, <1>0, DeletedKeepsProvider DEF TypeOK, DeleteApplied, replyVars, Steps
  <2>2. WorkInv'
    BY <1>t DEF TypeOK, WorkInv, At
  <2> QED BY <2>1, <2>2, DeletedKeepsProvider DEF IInv
<1>16. CASE SaveDeleted
  <2> USE <1>16 DEF SaveDeleted, Goto, providerVars, replyVars
  <2>a. rec' = [rec EXCEPT ![l0] = [r0 EXCEPT !.state = "deleted"]] /\ r0 \in [state: States,
            role: Roles \cup {NoRole}, account: Accounts \cup {NoAccount}]
    BY <1>t, <1>0 DEF TypeOK
  <2>b. work' \in [step: Steps, op: Operations, uid: Roles, lease: Leases,
                  key: Accounts \cup {NoAccount}]
    BY <1>t DEF TypeOK, Steps
  <2>c. [r0 EXCEPT !.state = "deleted"] \in [state: States,
            role: Roles \cup {NoRole}, account: Accounts \cup {NoAccount}]
    BY <2>a DEF States
  <2>1. TypeOK'
    BY <1>t, <1>0, <2>a, <2>b, <2>c DEF TypeOK
  <2>2. /\ r0.state \in {"issuing", "ready"}
        /\ work.key \in Accounts /\ work.key = r0.account /\ account[work.key] = "deleted"
        /\ owner[work.key] = l0 /\ l0 \notin confirmed
    BY <1>t, <1>0 DEF IInv, WorkInv, RecordInv, At
  <2>3. rec' = [rec EXCEPT ![l0] = [r0 EXCEPT !.state = "deleted"]]
    BY <1>0
  <2>4. WorkInv'
    BY <1>t, <1>0, <2>2, <2>3 DEF TypeOK, WorkInv, At, l0, r0
  <2>5. RecordInv'
    BY <1>t, <1>0, <2>2, <2>3 DEF IInv, TypeOK, RecordInv
  <2>6. ProviderInv'
    BY <1>t, <1>0, <2>3 DEF IInv, TypeOK, ProviderInv
  <2>7. LiveAccountsAreRecorded'
    BY <1>t, <1>0, <2>2, <2>3 DEF IInv, TypeOK, OneAccountPerLease, LiveAccountsAreRecorded
  <2>8. OneAccountPerLease' /\ GrantInv'
    BY DEF IInv, OneAccountPerLease, GrantInv
  <2> QED BY <2>1, <2>4, <2>5, <2>6, <2>7, <2>8 DEF IInv
<1>17. CASE ProbeRejected
  <2> USE <1>17 DEF ProbeRejected, Goto
  <2>1. TypeOK'
    BY <1>t, <1>0 DEF TypeOK, providerVars, replyVars, Steps
  <2>2. WorkInv'
    BY <1>t, <1>0 DEF IInv, WorkInv, At, l0, r0, TypeOK, providerVars, replyVars
  <2> QED BY <2>1, <2>2, MoveKeepsFiles DEF IInv
<1>18. CASE SaveRevoked
  <2> USE <1>18 DEF SaveRevoked, Goto, providerVars, replyVars
  <2>a. rec' = [rec EXCEPT ![l0] = [r0 EXCEPT !.state = "revoked"]] /\ r0 \in [state: States,
            role: Roles \cup {NoRole}, account: Accounts \cup {NoAccount}]
    BY <1>t, <1>0 DEF TypeOK
  <2>b. work' \in [step: Steps, op: Operations, uid: Roles, lease: Leases,
                  key: Accounts \cup {NoAccount}]
    BY <1>t DEF TypeOK, Steps
  <2>c. [r0 EXCEPT !.state = "revoked"] \in [state: States,
            role: Roles \cup {NoRole}, account: Accounts \cup {NoAccount}]
    BY <2>a DEF States
  <2>1. TypeOK'
    BY <1>t, <1>0, <2>a, <2>b, <2>c DEF TypeOK
  <2>2. /\ r0.state = "deleted" /\ work.key \in Accounts /\ work.key = r0.account
        /\ work.key \notin accepted
    BY <1>t, <1>0 DEF IInv, WorkInv, At
  <2>3. rec' = [rec EXCEPT ![l0] = [r0 EXCEPT !.state = "revoked"]]
    BY <1>0
  <2>4. WorkInv'
    BY <1>t, <1>0, <2>2, <2>3 DEF TypeOK, WorkInv, At, l0, r0
  <2>5. RecordInv'
    BY <1>t, <1>0, <2>2, <2>3 DEF IInv, TypeOK, RecordInv
  <2>6. ProviderInv'
    BY <1>t, <1>0, <2>3 DEF IInv, TypeOK, ProviderInv
  <2>7. LiveAccountsAreRecorded'
    BY <1>t, <1>0, <2>2, <2>3 DEF IInv, TypeOK, LiveAccountsAreRecorded
  <2>8. OneAccountPerLease' /\ GrantInv'
    BY DEF IInv, OneAccountPerLease, GrantInv
  <2> QED BY <2>1, <2>4, <2>5, <2>6, <2>7, <2>8 DEF IInv
<1>19. CASE UnlinkSecret
  <2> USE <1>19 DEF UnlinkSecret, Goto, providerVars, replyVars
  <2>1. TypeOK'
    BY <1>t, <1>0 DEF TypeOK, Steps
  <2>2. WorkInv'
    BY <1>t, <1>0 DEF IInv, TypeOK, WorkInv, At, l0, r0
  <2>3. RecordInv'
    BY <1>t, <1>0 DEF IInv, TypeOK, RecordInv
  <2>4. OneAccountPerLease' /\ GrantInv' /\ ProviderInv' /\ LiveAccountsAreRecorded'
    BY DEF IInv, OneAccountPerLease, GrantInv, ProviderInv, LiveAccountsAreRecorded
  <2> QED BY <2>1, <2>2, <2>3, <2>4 DEF IInv
<1>20. CASE ReplyRevoked
  <2> USE <1>20 DEF ReplyRevoked, Abandon, providerVars
  <2>1. TypeOK'
    BY <1>t, <1>0 DEF TypeOK, Steps
  <2>2. WorkInv'
    BY <1>t DEF TypeOK, WorkInv, At
  <2>3. RecordInv'
    BY <1>t, <1>0 DEF IInv, WorkInv, RecordInv, At
  <2>4. OneAccountPerLease' /\ GrantInv' /\ ProviderInv' /\ LiveAccountsAreRecorded'
    BY DEF IInv, OneAccountPerLease, GrantInv, ProviderInv, LiveAccountsAreRecorded
  <2> QED BY <2>1, <2>2, <2>3, <2>4 DEF IInv
<1>21. ASSUME NEW a \in Accounts, KeyRejected(a) PROVE IInv'
  <2> USE <1>21 DEF KeyRejected, brokerVars, replyVars
  <2>1. TypeOK'
    BY <1>t DEF TypeOK
  <2>2. WorkInv'
    BY <1>t DEF IInv, TypeOK, WorkInv, At, l0, r0
  <2>3. RecordInv' /\ ProviderInv'
    BY DEF IInv, RecordInv, ProviderInv
  <2>4. OneAccountPerLease' /\ GrantInv' /\ LiveAccountsAreRecorded'
    BY DEF IInv, OneAccountPerLease, GrantInv, LiveAccountsAreRecorded
  <2> QED BY <2>1, <2>2, <2>3, <2>4 DEF IInv
<1>22. CASE Crash
  BY <1>22, AbandonKeepsIInv DEF Crash
<1>23. CASE UNCHANGED vars
  <2>1. TypeOK' /\ WorkInv'
    BY <1>23 DEF vars, IInv, TypeOK, WorkInv, At, l0, r0
  <2> QED BY <1>23, <2>1, MoveKeepsFiles DEF vars, providerVars, replyVars, IInv
<1> QED
  BY <1>1, <1>2, <1>3, <1>4, <1>5, <1>6, <1>7, <1>8, <1>9, <1>10, <1>11, <1>12, <1>13,
     <1>14, <1>15, <1>16, <1>17, <1>18, <1>19, <1>20, <1>21, <1>22, <1>23
  DEF Next, HandlerStep

LEMMA SpecIInv == Spec => []IInv
BY InitIInv, NextIInv, PTL DEF Spec

(* The durable records, the key files, the provider's accounts and the     *)
(* running request of credentials.py always have their types.              *)
THEOREM BrokerTypeOK == Spec => []TypeOK
<1>1. IInv => TypeOK
  BY DEF IInv
<1> QED BY <1>1, SpecIInv, PTL

(* Broker.handle never creates a second account for a lease, whatever      *)
(* requests, crashes and lost answers come before.                         *)
THEOREM BrokerOneAccount == Spec => []OneAccountPerLease
<1>1. IInv => OneAccountPerLease
  BY DEF IInv
<1> QED BY <1>1, SpecIInv, PTL

(* No account is live behind a record that is closed or missing.           *)
THEOREM BrokerAccountsRecorded == Spec => []LiveAccountsAreRecorded
<1>1. IInv => LiveAccountsAreRecorded
  BY DEF IInv
<1> QED BY <1>1, SpecIInv, PTL

(* A revocation that was recorded or reported is final at the provider.    *)
THEOREM BrokerRevocationSound == Spec => []RevokedKeysAreRejected
<1>1. IInv => RevokedKeysAreRejected
  <2> SUFFICES ASSUME IInv, NEW a \in Accounts, account[a] # "unused",
                      rec[owner[a]].state = "revoked" \/ owner[a] \in confirmed
               PROVE  a \notin accepted
    BY DEF RevokedKeysAreRejected
  <2>1. owner[a] \in Leases /\ rec[owner[a]].state = "revoked"
    BY DEF IInv, TypeOK, RecordInv
  <2>2. /\ rec[owner[a]].account \in Accounts
        /\ account[rec[owner[a]].account] = "deleted"
        /\ owner[rec[owner[a]].account] = owner[a]
        /\ rec[owner[a]].account \notin accepted
    BY <2>1 DEF IInv, TypeOK, RecordInv
  <2>3. rec[owner[a]].account = a
    BY <2>2 DEF IInv, OneAccountPerLease
  <2> QED BY <2>2, <2>3
<1> QED BY <1>1, SpecIInv, PTL

(* A peer never holds a key of the other role's project.                   *)
THEOREM BrokerRolesSeparate == Spec => []KeysStayInProject
<1>1. IInv => KeysStayInProject
  BY DEF IInv, GrantInv, KeysStayInProject
<1> QED BY <1>1, SpecIInv, PTL
(* The five writes of a record: each finds the state its handler step      *)
(* tells, which comes before the state it writes.                          *)
LEMMA RecordWrites ==
    ASSUME IInv, [Next]_vars
    PROVE  \/ UNCHANGED rec
           \/ \E s \in States, r \in Roles \cup {NoRole}, a \in Accounts \cup {NoAccount} :
                /\ rec' = [rec EXCEPT ![l0] = [state |-> s, role |-> r, account |-> a]]
                /\ Rank(s) >= Rank(r0.state)
                /\ r0.role # NoRole => r = r0.role
                /\ r0.account # NoAccount => a = r0.account
<1>0. l0 \in Leases /\ r0 = rec[l0] /\ work.key \in Accounts \cup {NoAccount} /\ work.uid \in Roles
      /\ r0 \in [state: States, role: Roles \cup {NoRole}, account: Accounts \cup {NoAccount}]
  BY DEF IInv, TypeOK, l0, r0
<1>1. CASE IssueBegin
  <2>1. r0.state = "none" /\ r0.account = NoAccount /\ r0.role = NoRole
    BY <1>0, <1>1 DEF IssueBegin, IInv, RecordInv
  <2>2. Rank("issuing") >= Rank(r0.state)
    BY <2>1 DEF Rank
  <2>3. rec' = [rec EXCEPT ![l0] = [state |-> "issuing", role |-> work.uid, account |-> NoAccount]]
    BY <1>1 DEF IssueBegin
  <2>4. "issuing" \in States
    BY DEF States
  <2> QED BY <1>0, <2>1, <2>2, <2>3, <2>4
<1>2. CASE SaveAccount
  <2>1. r0.account = NoAccount
    BY <1>2 DEF SaveAccount, IInv, WorkInv
  <2>2. rec' = [rec EXCEPT ![l0] = [state |-> r0.state, role |-> r0.role, account |-> work.key]]
    <3>1. [r0 EXCEPT !.account = work.key] = [state |-> r0.state, role |-> r0.role, account |-> work.key]
      BY <1>0
    <3>2. rec' = [rec EXCEPT ![l0] = [r0 EXCEPT !.account = work.key]]
      BY <1>0, <1>2 DEF SaveAccount
    <3> QED BY <3>1, <3>2
  <2>3. Rank(r0.state) >= Rank(r0.state)
    BY <1>0 DEF Rank, States
  <2> QED BY <1>0, <2>1, <2>2, <2>3
<1>3. CASE SaveReady \/ SaveDeleted \/ SaveRevoked
  <2>1. PICK s \in States : rec' = [rec EXCEPT ![l0].state = s] /\ Rank(s) >= Rank(r0.state)
    <3>1. CASE SaveReady
      BY <3>1 DEF SaveReady, IInv, WorkInv, At, Rank, States
    <3>2. CASE SaveDeleted
      BY <3>2 DEF SaveDeleted, IInv, WorkInv, At, Rank, States
    <3>3. CASE SaveRevoked
      BY <3>3 DEF SaveRevoked, IInv, WorkInv, At, Rank, States
    <3> QED BY <1>3, <3>1, <3>2, <3>3
  <2>2. rec' = [rec EXCEPT ![l0] = [state |-> s, role |-> r0.role, account |-> r0.account]]
    <3>1. [r0 EXCEPT !.state = s] = [state |-> s, role |-> r0.role, account |-> r0.account]
      BY <1>0
    <3>2. rec' = [rec EXCEPT ![l0] = [r0 EXCEPT !.state = s]]
      BY <1>0, <2>1
    <3> QED BY <3>1, <3>2
  <2> QED BY <1>0, <2>1, <2>2
<1>4. CASE ~(IssueBegin \/ SaveAccount \/ SaveReady \/ SaveDeleted \/ SaveRevoked)
  BY <1>4 DEF Next, HandlerStep, vars, Abandon, Receive, Refuse, ReturnStored, SaveSecret, SaveSecretFails,
              ReplyKey, RevokeBegin, Delete, DeleteAnswerLost, ProbeRejected, UnlinkSecret, ReplyRevoked,
              CallFails, Post, PostAnswerLost, KeyRejected, Crash, brokerVars
<1> QED BY <1>1, <1>2, <1>3, <1>4

(* The record of a lease only advances, and never changes its role or its  *)
(* account, across retries of issue and revoke and across crashes.         *)
THEOREM BrokerRecordsAdvance == Spec => RecordsOnlyAdvance
<1> DEFINE Advances == \A l \in Leases:
        /\ Rank(rec'[l].state) >= Rank(rec[l].state)
        /\ rec[l].role # NoRole => rec'[l].role = rec[l].role
        /\ rec[l].account # NoAccount => rec'[l].account = rec[l].account
<1>1. IInv /\ [Next]_vars => [Advances]_rec
  <2> SUFFICES ASSUME IInv, [Next]_vars, rec' # rec, NEW l \in Leases
               PROVE  /\ Rank(rec'[l].state) >= Rank(rec[l].state)
                      /\ rec[l].role # NoRole => rec'[l].role = rec[l].role
                      /\ rec[l].account # NoAccount => rec'[l].account = rec[l].account
    OBVIOUS
  <2>1. rec \in [Leases -> [state: States, role: Roles \cup {NoRole}, account: Accounts \cup {NoAccount}]]
        /\ r0 = rec[l0]
    BY DEF IInv, TypeOK, r0
  <2>2. PICK s \in States, r \in Roles \cup {NoRole}, a \in Accounts \cup {NoAccount} :
            /\ rec' = [rec EXCEPT ![l0] = [state |-> s, role |-> r, account |-> a]]
            /\ Rank(s) >= Rank(r0.state)
            /\ r0.role # NoRole => r = r0.role
            /\ r0.account # NoAccount => a = r0.account
    BY RecordWrites
  <2>3. CASE l = l0
    BY <2>1, <2>2, <2>3
  <2>4. CASE l # l0
    <3>1. rec'[l] = rec[l]
      BY <2>1, <2>2, <2>4
    <3>2. Rank(rec[l].state) >= Rank(rec[l].state)
      BY <2>1 DEF Rank, States
    <3> QED BY <3>1, <3>2
  <2> QED BY <2>3, <2>4
<1> QED BY <1>1, SpecIInv, PTL DEF Spec, RecordsOnlyAdvance

-----------------------------------------------------------------------------
(***************************************************************************)
(* The certification of the candidate, whose lease the broker keeps, for   *)
(* every bound of the faults.                                              *)
(*                                                                         *)
(* What has to hold is that every gate is true of the guest and that a     *)
(* journal that says complete has all of them.  Both follow from how far   *)
(* the run has come: RunInv says which gates a position of the plan has    *)
(* behind it, SeenInv that the observations are of boots in their order,   *)
(* WaitInv whose job the guest runs, BootInv which boots the deployment's  *)
(* phase proves, and AfterInv what the cleanup may rely on.                *)
(***************************************************************************)
HIDE BrokerAssumption
USE CertificationAssumption

(* The positions of the plan's requests.                                   *)
Now == Plan[cert.at]
OnPlan == cert.step = "run"

(* A process of the certifier runs under the scheduler, the run itself     *)
(* before it is reaped and only a cleanup after that; nothing is done      *)
(* before the state file is there.                                         *)
ProcessInv ==
    /\ cert.step # "idle" <=> sched.step \in {"child", "reaping"}
    /\ sched.step = "child" => ~cert.only
    /\ sched.step = "reaping" => cert.only \/ cert.step = "done"
    /\ cert.step \notin {"idle", "done"} => state.stage # "none"
    /\ state.stage = "none" => evidence = {} /\ lease = "none" /\ job.op = "none"
    /\ OnPlan => ~cert.only /\ ~cert.failed /\ ~cert.bad
    /\ cert.step = "gate" => lease = "revoked"

Deployment == guest.phase = "closed"

(* While the certifier waits for a request, its job runs; a reply comes    *)
(* when the job has ended.  A job that is not waited for is left from a    *)
(* request whose reply was lost, or that outlived its certifier; none is   *)
(* left once there is a record of the restore.  The data is damaged after  *)
(* the closure only, so that no snapshot is taken of it.                   *)
WaitInv ==
    /\ cert.wait => cert.reply = "none" /\ cert.step \in {"run", "guest"}
    /\ cert.step = "guest" /\ cert.wait => job.op = "cleanup-credential"
    /\ OnPlan /\ cert.wait => job.op = Now
    /\ cert.reply \notin {"none", "lost"} => job.op = "none"
    /\ OnPlan => job.op \in {"none", Now}
    /\ job.op \notin Local
    /\ "restore" \in evidence => job.op \in {"none", "cleanup-credential"}
    /\ job.op = "damage" \/ guest.data = "damaged" => Deployment

(* How far the run has come.                                               *)
Count(at) == IF at <= 9 THEN 0 ELSE IF at <= 12 THEN 1 ELSE IF at <= 16 THEN 2 ELSE IF at <= 20 THEN 3
             ELSE IF at <= 21 THEN 4 ELSE IF at <= 23 THEN 5 ELSE 6
RunInv == OnPlan =>
    /\ cert.at > 5 => cert.attempted
    /\ lease = IF cert.at <= 6 THEN "none" ELSE "live"
    /\ cert.at > 8 \/ cert.reply = "closed" => Deployment
    /\ Len(cert.seen) = Count(cert.at) + (IF Now \in Observations /\ cert.reply = "ok" THEN 1 ELSE 0)
    /\ "credential_revocation" \notin evidence
    /\ "restore" \in evidence => cert.at > 26
    /\ cert.at > 9 => {"package_replay", "inference"} \subseteq evidence
    /\ cert.at > 12 => {"boot", "runtime"} \subseteq evidence
    /\ cert.at > 20 => "previous_boot" \in evidence
    /\ cert.at > 26 => "restore" \in evidence
    /\ Now = "restore-check" /\ cert.reply = "ok" => guest.data = "seeded"
    /\ Now = "deploy" => cert.reply # "ok"
    /\ Now \in Local => cert.reply = "none"

(* What a lease is before anything has asked for its revocation.           *)
Unrevoked == {"none", "stuck", "kept", "live"}

(* What was observed happened, in this order, after the closure.           *)
SeenInv == OnPlan =>
    \A i \in 1..Len(cert.seen) :
        /\ cert.seen[i].boot \in guest.since..Boot
        /\ guest.boots[cert.seen[i].boot] = cert.seen[i].entry
        /\ i <= 4 => cert.seen[i].entry = IF i = 3 THEN "previous" ELSE "updated"
        /\ \A k \in 1..i : cert.seen[k].boot <= cert.seen[i].boot

(* A run that has not failed only has to give the credential back.         *)
AllEarned == evidence = Gates /\ lease = "revoked" /\ guest.key = "prior" /\ Deployment
AfterInv == cert.step \in {"guest", "revoke", "gate", "end", "done"} /\ sched.step = "child"
     /\ ~cert.failed =>
    /\ Deployment /\ Gates \ {"credential_revocation"} \subseteq evidence
    /\ cert.step = "guest" /\ cert.reply = "ok" => guest.key = "prior"
    /\ cert.step # "guest" /\ ~cert.bad => guest.key = "prior"
    /\ cert.step \in {"end", "done"} /\ ~cert.bad => AllEarned
CloseInv ==
    /\ sched.step \in {"reap", "reaping"} /\ sched.mode # "cleanup" /\ ~sched.failed => AllEarned
    /\ journal = "complete" => AllEarned

(* The updated image is booted once its packages were replayed, and after  *)
(* that until another entry is selected, which needs the closure.          *)
Deploying == {"reboot-pending", "persistence-reboot", "closed", "rolled-back"}
BootInv ==
    /\ Boot \in Nat \ {0} /\ guest.since \in 1..Boot
    /\ ~Deployment => guest.once = "none"
    /\ guest.default = "updated" => guest.phase \in Deploying
    /\ guest.phase = "reboot-pending" /\ guest.default = "updated" =>
          Boot > guest.since /\ Entry = "updated"
    /\ guest.phase \in {"persistence-reboot", "closed"} =>
          guest.default = "updated" /\ guest.boots[guest.since] = "updated"
    /\ guest.phase = "persistence-reboot" => Entry = "updated"
    /\ Deployment => \E i \in 1..(guest.since - 1) : guest.boots[i] = "updated"

(* The gates, with the boots in their order.                               *)
Booted(a, b, c) ==
    \E i, j, k \in 1..Boot : i < j /\ j < k /\ guest.boots[i] = a /\ guest.boots[j] = b
         /\ guest.boots[k] = c
EarnedInv ==
    /\ "boot" \in evidence => Booted("updated", "updated", "updated")
    /\ "previous_boot" \in evidence => Booted("updated", "previous", "updated")
    /\ "restore" \in evidence => guest.data = "seeded" /\ Deployment
    /\ "credential_revocation" \in evidence => lease = "revoked"

CInv ==
    /\ CertTypeOK /\ GuestRunsFrozen
    /\ ProcessInv /\ WaitInv /\ RunInv /\ SeenInv /\ AfterInv /\ CloseInv /\ BootInv /\ EarnedInv

-----------------------------------------------------------------------------
(* The plan, by the positions of its requests.                             *)
LEMMA PlanIs ==
    /\ Len(Plan) = 27 /\ DOMAIN Plan = 1..27
    /\ \A i \in 1..27 :
          /\ Plan[i] # "none" /\ Plan[i] # "cleanup-credential"
          /\ (Plan[i] = "stage" <=> i = 1) /\ (Plan[i] = "seed" <=> i = 2)
          /\ (Plan[i] = "snapshot" <=> i = 3) /\ (Plan[i] = "backup" <=> i = 4)
          /\ (Plan[i] = "name" <=> i = 5) /\ (Plan[i] = "issue" <=> i = 6)
          /\ (Plan[i] = "credential" <=> i = 7) /\ (Plan[i] = "deploy" <=> i = 8)
          /\ (Plan[i] = "observe" <=> i \in {9, 12, 21, 23})
              /\ (Plan[i] = "observe-previous" <=> i = 16)
          /\ (Plan[i] = "observe-returned" <=> i = 20)
          /\ (Plan[i] = "off" <=> i \in {10, 14, 18}) /\ (Plan[i] = "on" <=> i \in {11, 15, 19})
          /\ (Plan[i] = "damage" <=> i = 24) /\ (Plan[i] = "restore" <=> i = 25)
          /\ (Plan[i] = "restore-check" <=> i = 26) /\ (Plan[i] = "scan" <=> i = 27)
<1>1. Len(Plan) = 27 /\ DOMAIN Plan = 1..27
  BY DEF Plan
<1>2. ASSUME NEW i \in 1..27 PROVE i \in {1,2,3,4,5,6,7,8,9,10,11,12,13,14,15,16,17,18,19,20,21,22,23,24,25,26,27}
  OBVIOUS
<1>3. /\ Plan[1] = "stage" /\ Plan[2] = "seed" /\ Plan[3] = "snapshot"
          /\ Plan[4] = "backup" /\ Plan[5] = "name"
      /\ Plan[6] = "issue" /\ Plan[7] = "credential" /\ Plan[8] = "deploy"
          /\ Plan[9] = "observe"
      /\ Plan[10] = "off" /\ Plan[11] = "on" /\ Plan[12] = "observe"
          /\ Plan[13] = "select-previous"
      /\ Plan[14] = "off" /\ Plan[15] = "on" /\ Plan[16] = "observe-previous"
          /\ Plan[17] = "select-updated"
      /\ Plan[18] = "off" /\ Plan[19] = "on" /\ Plan[20] = "observe-returned"
          /\ Plan[21] = "observe"
      /\ Plan[22] = "rerun" /\ Plan[23] = "observe" /\ Plan[24] = "damage"
          /\ Plan[25] = "restore"
      /\ Plan[26] = "restore-check" /\ Plan[27] = "scan"
  BY DEF Plan
<1>4. QED BY <1>1, <1>2, <1>3

(* What the certifier does to its own record.                              *)
LEMMA RunFails ==
    ASSUME NEW c \in Cert
    PROVE  /\ Failed(c) \in Cert /\ Failed(c).failed /\ ~Failed(c).wait
               /\ Failed(c).reply = "none"
           /\ Failed(c).step \in {"guest", "end"}
           /\ Failed(c).at = c.at /\ Failed(c).seen = c.seen /\ Failed(c).only = c.only
               /\ Failed(c).bad = c.bad
BY DEF Failed, Cert, CertSteps, Replies

(* A request is done, and it was not the last.                             *)
LEMMA Advances ==
    ASSUME NEW c \in Cert, c.at < 27
    PROVE  /\ Advanced(c) \in Cert /\ Advanced(c).at = c.at + 1
               /\ Advanced(c).reply = "none"
           /\ Advanced(c).step = c.step /\ Advanced(c).wait = c.wait
               /\ Advanced(c).seen = c.seen
           /\ Advanced(c).attempted = c.attempted /\ Advanced(c).only = c.only
           /\ Advanced(c).failed = c.failed /\ Advanced(c).bad = c.bad
<1>1. c.at \in 1..27 /\ Len(Plan) = 27 /\ c.at + 1 \in 1..27 /\ c.at # Len(Plan)
  <2>1. Len(Plan) = 27 /\ c.at \in 1..Len(Plan)
    BY PlanIs DEF Cert
  <2>2. QED BY <2>1
<1>2. Advanced(c) = [c EXCEPT !.at = c.at + 1, !.reply = "none"]
  BY <1>1 DEF Advanced, Cert
<1>3. QED BY <1>1, <1>2 DEF Cert, Replies

(* The last one is done.                                                   *)
LEMMA Ends ==
    ASSUME NEW c \in Cert, c.at = 27, c.attempted
    PROVE  /\ Advanced(c) \in Cert /\ Advanced(c).step = "guest"
               /\ Advanced(c).reply = c.reply
           /\ Advanced(c).wait = c.wait /\ Advanced(c).only = c.only
           /\ Advanced(c).failed = c.failed /\ Advanced(c).bad = c.bad
<1>1. Advanced(c) = [c EXCEPT !.step = "guest"]
  BY PlanIs DEF Advanced
<1>2. QED BY <1>1 DEF Cert, CertSteps

(* A reply is received, or its loss noticed.                               *)
LEMMA Answered ==
    ASSUME NEW c \in Cert, NEW v \in Replies
    PROVE  LET d == [c EXCEPT !.wait = FALSE, !.reply = v] IN
           /\ d \in Cert /\ ~d.wait /\ d.reply = v
           /\ d.step = c.step /\ d.at = c.at /\ d.seen = c.seen /\ d.attempted = c.attempted
           /\ d.only = c.only /\ d.failed = c.failed /\ d.bad = c.bad
BY DEF Cert

(* A request is made.                                                      *)
LEMMA Asks ==
    ASSUME NEW c \in Cert
    PROVE  LET d == [c EXCEPT !.wait = TRUE] IN
           /\ d \in Cert /\ d.wait /\ d.reply = c.reply
           /\ d.step = c.step /\ d.at = c.at /\ d.seen = c.seen /\ d.attempted = c.attempted
           /\ d.only = c.only /\ d.failed = c.failed /\ d.bad = c.bad
BY DEF Cert

LEMMA Booleans == TRUE \in BOOLEAN /\ FALSE \in BOOLEAN
OBVIOUS

(* No process, with what the record of a new one starts from.              *)
LEMMA NoCertType ==
    /\ NoCert \in Cert /\ NoCert.step = "idle" /\ ~NoCert.wait
        /\ NoCert.reply = "none" /\ ~NoCert.only
    /\ ~NoCert.failed /\ ~NoCert.bad /\ NoCert.seen = <<>> /\ NoCert.at = 1
        /\ ~NoCert.attempted
BY PlanIs DEF NoCert, Cert, CertSteps, Replies, Observation

(* The faults are counted.                                                 *)
LEMMA FaultType == ASSUME CInv, Fault PROVE faults' \in 0..MaxFaults
BY DEF CInv, Fault, CertTypeOK

(* The scheduler ends.                                                     *)
LEMMA ExitType ==
    ASSUME NEW mode, Exit(mode)
    PROVE  sched' \in Sched /\ sched'.step = "idle" /\ owed' \in BOOLEAN
<1>1. sched' \in Sched /\ sched'.step = "idle"
  BY Booleans DEF Exit, NoSched, Sched
<1>2. (mode = "run" \/ owed) \in BOOLEAN
  OBVIOUS
<1>3. QED BY <1>1, <1>2 DEF Exit

-----------------------------------------------------------------------------
(* Steps of the scheduler that leave the certifier, the guest and their    *)
(* records alone.                                                          *)
LEMMA QuietKeeps ==
    ASSUME CInv, CertTypeOK', UNCHANGED <<state, evidence, lease, cert, guest, job>>,
           \/ UNCHANGED <<sched, journal>>
           \/ /\ cert.step = "idle" /\ sched'.step \notin {"child", "reap", "reaping"}
              /\ journal' \in {journal, "preparing", "prepared", "certifying", "failed"}
    PROVE  CInv'
<1>1. ProcessInv'
  BY DEF CInv, ProcessInv, OnPlan
<1>2. WaitInv'
  BY DEF CInv, WaitInv, OnPlan, Now, Deployment
<1>3. RunInv' /\ SeenInv'
  BY DEF CInv, RunInv, SeenInv, OnPlan, Now, Deployment, Boot
<1>4. AfterInv'
  BY DEF CInv, AfterInv, AllEarned, Deployment
<1>5. CloseInv'
  BY DEF CInv, CloseInv, AllEarned, Deployment
<1>6. BootInv' /\ EarnedInv' /\ GuestRunsFrozen'
  BY DEF CInv, BootInv, EarnedInv, Booted, Deployment, Boot, Entry, GuestRunsFrozen
<1>7. QED BY <1>1, <1>2, <1>3, <1>4, <1>5, <1>6 DEF CInv

(* The timer, the preparation, the dispatch and the edits of the           *)
(* candidate.                                                              *)
LEMMA QuietStepsKeep ==
    ASSUME CInv,
           Timer \/ Operator \/ Copy \/ Freeze \/ RecordPrepared
           \/ PreparationFails \/ Dispatch \/ Edit \/ PutBack
    PROVE  CInv'
<1>1. CertTypeOK /\ sched \in Sched /\ (cert.step # "idle" <=> sched.step \in {"child", "reaping"})
  BY DEF CInv, ProcessInv, CertTypeOK
<1>2. CASE Edit \/ PutBack
  <2>1. /\ UNCHANGED <<journal, state, evidence, lease, sched, cert, guest, job, owed>>
        /\ cand' \in {"edited", "frozen"} /\ faults' \in 0..MaxFaults
    BY <1>1, <1>2, FaultType DEF Edit, PutBack, world, CertTypeOK
  <2>2. CertTypeOK'
    BY <1>1, <2>1 DEF CertTypeOK
  <2>3. QED BY <2>1, <2>2, QuietKeeps
<1>3. CASE Timer \/ Operator
  <2>1. PICK mode \in {"run", "prepare"} : Invoke(mode)
    BY <1>3 DEF Timer, Operator
  <2>2. /\ sched.step = "idle" /\ UNCHANGED <<cand, state, evidence, lease, cert, guest, job,
            faults>>
        /\ journal' \in {journal, "preparing"}
    BY <2>1 DEF Invoke, world
  <2>3. \/ Exit(mode)
        \/ UNCHANGED owed /\ \E s \in {"window", "copy"} : sched' = [step |-> s, mode |-> mode,
            failed |-> FALSE]
    BY <2>1 DEF Invoke
  <2>4. sched' \in Sched /\ sched'.step \in {"idle", "window", "copy"} /\ owed' \in BOOLEAN
    <3>1. CASE Exit(mode)
      BY <3>1, ExitType
    <3>2. CASE UNCHANGED owed /\ \E s \in {"window", "copy"} : sched' = [step |-> s, mode |-> mode,
         failed |-> FALSE]
      <4>1. owed' \in BOOLEAN
        BY <1>1, <3>2, Zenon DEF CertTypeOK
      <4>2. mode \in {"run", "prepare", "cleanup"}
        BY <2>1
      <4>3. sched' \in Sched /\ sched'.step \in {"idle", "window", "copy"}
        BY <3>2, <4>2, Booleans DEF Sched
      <4>4. QED BY <4>1, <4>3
    <3>3. QED BY <2>3, <3>1, <3>2
  <2>5. CertTypeOK'
    BY <1>1, <2>2, <2>4 DEF CertTypeOK
  <2>6. QED BY <1>1, <2>2, <2>4, <2>5, QuietKeeps
<1>4. CASE Copy \/ Freeze
  <2>1. /\ UNCHANGED <<journal, state, evidence, lease, cert, guest, job, owed, faults>>
        /\ cand' \in {"partial", "frozen"} /\ sched' \in Sched
        /\ sched'.step \in {"freeze", "record"} /\ sched.step \in {"copy", "freeze"}
    BY <1>1, <1>4 DEF Copy, Freeze, world, Sched
  <2>2. CertTypeOK'
    BY <1>1, <2>1 DEF CertTypeOK
  <2>3. QED BY <1>1, <2>1, <2>2, QuietKeeps
<1>5. CASE RecordPrepared \/ PreparationFails \/ Dispatch
  <2>1. /\ UNCHANGED <<cand, state, evidence, lease, cert, guest, job>>
        /\ journal' \in {journal, "prepared", "failed", "certifying"}
        /\ sched.step \in {"copy", "freeze", "record", "window"}
    BY <1>5 DEF RecordPrepared, PreparationFails, Dispatch, world
  <2>2. /\ faults' \in 0..MaxFaults
    BY <1>1, <1>5, FaultType DEF RecordPrepared, PreparationFails, Dispatch, CertTypeOK
  <2>3. sched' \in Sched /\ sched'.step \in {"idle", "window", "start"} /\ owed' \in BOOLEAN
    BY <1>1, <1>5, ExitType DEF RecordPrepared, PreparationFails, Dispatch, CertTypeOK,
         Sched
  <2>4. CertTypeOK'
    BY <1>1, <2>1, <2>2, <2>3 DEF CertTypeOK
  <2>5. QED BY <1>1, <2>1, <2>3, <2>4, QuietKeeps
<1>6. QED BY <1>2, <1>3, <1>4, <1>5

-----------------------------------------------------------------------------
(* The processes of the certifier begin and end.                           *)
LEMMA ProcessesKeep ==
    ASSUME CInv, CertTypeOK', UNCHANGED <<evidence, lease, guest, job>>,
           cert'.step \notin {"run", "gate"}, ~cert'.wait, cert'.reply = "none",
           ProcessInv', AfterInv', CloseInv'
    PROVE  CInv'
<1>1. WaitInv' /\ RunInv' /\ SeenInv'
  BY DEF CInv, WaitInv, RunInv, SeenInv, OnPlan, Deployment
<1>2. BootInv' /\ EarnedInv' /\ GuestRunsFrozen'
  BY DEF CInv, BootInv, EarnedInv, Booted, Deployment, Boot, Entry, GuestRunsFrozen
<1>3. QED BY <1>1, <1>2 DEF CInv

(* A run begins only where none has begun.                                 *)
LEMMA StartChildKeeps == ASSUME CInv, StartChild PROVE CInv'
<1>1. /\ sched.step = "start" /\ sched' = [sched EXCEPT !.step = "child"]
      /\ UNCHANGED <<cand, journal, evidence, lease, guest, job, owed, faults>>
  BY DEF StartChild, world
<1>2. sched' \in Sched /\ sched'.step = "child"
  BY <1>1 DEF CInv, CertTypeOK, Sched
<1>3. cert.step = "idle"
  BY <1>1 DEF CInv, ProcessInv
<1>4. CASE cert' = [NoCert EXCEPT !.step = "done", !.failed = TRUE] /\ UNCHANGED state
  <2>1. /\ cert' \in Cert /\ cert'.step = "done" /\ cert'.failed /\ ~cert'.wait
            /\ cert'.reply = "none" /\ ~cert'.only
    BY <1>4, NoCertType, Booleans DEF Cert, CertSteps
  <2>2. CertTypeOK'
    BY <1>1, <1>2, <1>4, <2>1 DEF CInv, CertTypeOK
  <2>3. ProcessInv' /\ AfterInv' /\ CloseInv'
    BY <1>1, <1>2, <1>4, <2>1 DEF CInv, ProcessInv, AfterInv, CloseInv, AllEarned, Deployment, OnPlan
  <2>4. QED BY <1>1, <2>1, <2>2, <2>3, ProcessesKeep
<1>5. CASE /\ cert' = [NoCert EXCEPT !.step = "run"] /\ state' = [state EXCEPT !.stage = "open"]
           /\ state.stage = "none"
  <2>1. /\ cert' \in Cert /\ cert'.step = "run" /\ ~cert'.failed /\ ~cert'.wait
            /\ cert'.reply = "none"
        /\ ~cert'.only /\ ~cert'.bad /\ cert'.at = 1 /\ cert'.seen = <<>>
    BY <1>5, NoCertType DEF Cert, CertSteps
  <2>2. state' \in [stage: {"none", "open", "failed", "complete"}, lease: BOOLEAN]
       /\ state'.stage = "open"
    BY <1>5 DEF CInv, CertTypeOK
  <2>3. CertTypeOK'
    BY <1>1, <1>2, <2>1, <2>2 DEF CInv, CertTypeOK
  <2>4. evidence = {} /\ lease = "none" /\ job.op = "none"
    BY <1>5 DEF CInv, ProcessInv
  <2>5. ProcessInv' /\ WaitInv'
    BY <1>1, <1>2, <2>1, <2>2, <2>4 DEF CInv, ProcessInv, WaitInv, OnPlan, Local, Deployment
  <2>6. RunInv' /\ SeenInv'
    <3>1. Len(cert'.seen) = 0 /\ Now' = "stage"
      BY <2>1, PlanIs DEF Now
    <3>2. QED BY <1>1, <2>1, <2>4, <3>1 DEF RunInv, SeenInv, OnPlan, Count, Observations
  <2>7. AfterInv' /\ CloseInv' /\ BootInv' /\ EarnedInv' /\ GuestRunsFrozen'
    BY <1>1, <1>2, <2>1 DEF CInv, AfterInv, CloseInv, AllEarned, BootInv, EarnedInv, Booted, Deployment,
         Boot, Entry,
         GuestRunsFrozen
  <2>8. QED BY <1>1, <2>3, <2>5, <2>6, <2>7 DEF CInv
<1>6. QED BY <1>4, <1>5 DEF StartChild

(* The scheduler believes a run that did not fail.                         *)
LEMMA ChildDoneKeeps == ASSUME CInv, ChildDone PROVE CInv'
<1>1. /\ sched.step = "child" /\ cert.step = "done" /\ cert' = NoCert
      /\ sched' = [sched EXCEPT !.step = "reap", !.failed = cert.failed \/ cert.bad \/ ~Intact]
      /\ UNCHANGED <<cand, journal, state, evidence, lease, guest, job, owed, faults>>
  BY DEF ChildDone, world, files
<1>2. (cert.failed \/ cert.bad \/ ~Intact) \in BOOLEAN
  OBVIOUS
<1>3. /\ sched' \in Sched /\ sched'.step = "reap" /\ (sched'.failed <=>
          cert.failed \/ cert.bad \/ ~Intact)
  BY <1>1, <1>2 DEF CInv, CertTypeOK, Sched
<1>4. CertTypeOK'
  BY <1>1, <1>3, NoCertType DEF CInv, CertTypeOK
<1>5. ProcessInv' /\ AfterInv'
  BY <1>1, <1>3, NoCertType DEF CInv, ProcessInv, AfterInv, OnPlan
<1>6. ~sched'.failed => AllEarned
  BY <1>1, <1>3 DEF CInv, AfterInv
<1>7. CloseInv'
  BY <1>1, <1>6 DEF CInv, CloseInv, AllEarned, Deployment
<1>8. QED BY <1>1, <1>4, <1>5, <1>7, NoCertType, ProcessesKeep

(* The certifier with --cleanup-only.                                      *)
LEMMA CleanupChildType ==
    /\ CleanupChild \in Cert /\ CleanupChild.step \in {"guest", "done"}
        /\ CleanupChild.only
    /\ ~CleanupChild.wait /\ CleanupChild.reply = "none"
<1>1. (~Intact) \in BOOLEAN
  OBVIOUS
<1>2. QED BY <1>1, NoCertType, Booleans DEF CleanupChild, Cert, CertSteps

(* The cleanup begins, after a run or later.                               *)
LEMMA ReapKeeps == ASSUME CInv, CleanupOnly \/ ReapChild PROVE CInv'
<1>1. PICK from \in {"idle", "reap"} :
        /\ sched.step = from
        /\ cert' = IF state.stage = "none" THEN [NoCert EXCEPT !.step = "done"] ELSE CleanupChild
        /\ sched' = [sched EXCEPT !.step = "reaping",
            !.mode = IF from = "idle" THEN "cleanup" ELSE sched.mode]
        /\ UNCHANGED <<cand, journal, state, evidence, lease, guest, job, faults>>
        /\ (from = "idle" /\ owed' = FALSE) \/ (from = "reap" /\ UNCHANGED owed)
  BY DEF CleanupOnly, ReapChild, Reap, world, files
<1>2. /\ sched' \in Sched /\ sched'.step = "reaping" /\ sched'.failed = sched.failed
      /\ sched'.mode # "cleanup" => sched.step = "reap" /\ sched'.mode = sched.mode
  BY <1>1 DEF CInv, CertTypeOK, Sched
<1>3. /\ cert' \in Cert /\ cert'.step \in {"guest", "done"} /\ ~cert'.wait /\ cert'.reply = "none"
      /\ cert'.only \/ cert'.step = "done"
      /\ cert'.step = "guest" => state.stage # "none"
  <2>1. [NoCert EXCEPT !.step = "done"] \in Cert
    BY NoCertType DEF Cert, CertSteps
  <2>2. QED BY <1>1, <2>1, NoCertType, CleanupChildType
<1>4. CertTypeOK'
  <2>1. owed' \in BOOLEAN
    BY <1>1, Zenon DEF CInv, CertTypeOK
  <2>2. QED BY <1>1, <1>2, <1>3, <2>1 DEF CInv, CertTypeOK
<1>5. ProcessInv' /\ AfterInv' /\ CloseInv'
  BY <1>1, <1>2, <1>3 DEF CInv, ProcessInv, AfterInv, CloseInv, AllEarned, Deployment, OnPlan
<1>6. QED BY <1>1, <1>3, <1>4, <1>5, ProcessesKeep

(* Only a run that was certified closes the journal as complete.           *)
LEMMA CloseKeeps == ASSUME CInv, Close PROVE CInv'
<1>1. /\ sched.step = "reaping" /\ cert' = NoCert /\ \E mode : Exit(mode)
      /\ UNCHANGED <<cand, state, evidence, lease, guest, job, faults>>
      /\ \/ sched.mode = "cleanup" /\ UNCHANGED journal
         \/ sched.mode # "cleanup" /\ journal' = "failed"
         \/ sched.mode # "cleanup" /\ ~sched.failed /\ journal' = "complete"
  BY DEF Close, world
<1>2. sched' \in Sched /\ sched'.step = "idle" /\ owed' \in BOOLEAN
  BY <1>1, ExitType
<1>3. journal' \in {journal, "failed", "complete"}
  BY <1>1
<1>4. CertTypeOK'
  BY <1>1, <1>2, <1>3, NoCertType DEF CInv, CertTypeOK
<1>5. ProcessInv' /\ AfterInv' /\ CloseInv'
  BY <1>1, <1>2, NoCertType DEF CInv, ProcessInv, AfterInv, CloseInv, AllEarned, Deployment, OnPlan
<1>6. QED BY <1>1, <1>4, <1>5, NoCertType, ProcessesKeep

(* A stopped service ends with its certifier.                              *)
LEMMA StoppedKeeps == ASSUME CInv, Stopped PROVE CInv'
<1>1. /\ cert' = NoCert /\ Exit("run")
      /\ UNCHANGED <<cand, journal, state, evidence, lease, guest, job, faults>>
  BY DEF Stopped, files, world
<1>2. sched' \in Sched /\ sched'.step = "idle" /\ owed' \in BOOLEAN
  BY <1>1, ExitType
<1>3. CertTypeOK'
  BY <1>1, <1>2, NoCertType DEF CInv, CertTypeOK
<1>4. ProcessInv' /\ AfterInv' /\ CloseInv'
  BY <1>1, <1>2, NoCertType DEF CInv, ProcessInv, AfterInv, CloseInv, AllEarned, Deployment, OnPlan
<1>5. QED BY <1>1, <1>3, <1>4, NoCertType, ProcessesKeep

(* What is killed leaves its files and its job.                            *)
LEMMA KillsKeep == ASSUME CInv,
     ChildKilled \/ ServiceKilled \/ WorkstationLosesPower PROVE CInv'
<1>1. faults' \in 0..MaxFaults
  BY FaultType DEF ChildKilled, ServiceKilled, WorkstationLosesPower, Die
<1>2. CASE ChildKilled
  <2>1. /\ cert.step \notin {"idle", "done"}
        /\ cert' = [NoCert EXCEPT !.step = "done", !.failed = TRUE, !.bad = TRUE]
        /\ UNCHANGED <<cand, journal, state, evidence, lease, sched, guest, job, owed>>
    BY <1>2 DEF ChildKilled, world, files
  <2>2. /\ cert' \in Cert /\ cert'.step = "done" /\ cert'.failed /\ ~cert'.wait
            /\ cert'.reply = "none" /\ ~cert'.only
    BY <2>1, NoCertType, Booleans DEF Cert, CertSteps
  <2>3. CertTypeOK'
    BY <1>1, <2>1, <2>2 DEF CInv, CertTypeOK, ProcessInv
  <2>4. ProcessInv' /\ AfterInv' /\ CloseInv'
    BY <2>1, <2>2 DEF CInv, ProcessInv, AfterInv, CloseInv, AllEarned, Deployment, OnPlan
  <2>5. QED BY <2>1, <2>2, <2>3, <2>4, ProcessesKeep
<1>3. CASE ServiceKilled \/ WorkstationLosesPower
  <2>1. /\ sched' = NoSched /\ cert' = NoCert /\ owed' \in BOOLEAN
        /\ UNCHANGED <<cand, journal, state, evidence, lease, guest, job>>
    <3>1. (sched.mode \in {"run", "stopped"}) \in BOOLEAN /\ FALSE \in BOOLEAN
      OBVIOUS
    <3>2. QED BY <1>3, <3>1 DEF ServiceKilled, WorkstationLosesPower, Die, world,
         files
  <2>2. sched' \in Sched /\ sched'.step = "idle"
    BY <2>1, Booleans DEF NoSched, Sched
  <2>3. CertTypeOK'
    BY <1>1, <2>1, <2>2, NoCertType DEF CInv, CertTypeOK
  <2>4. ProcessInv' /\ AfterInv' /\ CloseInv'
    BY <2>1, <2>2, NoCertType DEF CInv, ProcessInv, AfterInv, CloseInv, AllEarned, Deployment, OnPlan
  <2>5. QED BY <2>1, <2>3, <2>4, NoCertType, ProcessesKeep
<1>4. QED BY <1>2, <1>3

-----------------------------------------------------------------------------
(* The run.                                                                *)
LEMMA Going ==
    ASSUME CInv, OnPlan
    PROVE  /\ cert \in Cert /\ cert.at \in 1..27 /\ sched.step = "child" /\ state.stage # "none"
           /\ ~cert.only /\ ~cert.failed /\ ~cert.bad /\ journal # "complete"
           /\ "credential_revocation" \notin evidence
<1>1. cert \in Cert /\ cert.at \in 1..27
  <2>1. cert \in Cert
    BY DEF CInv, CertTypeOK
  <2>2. QED BY <2>1, PlanIs DEF Cert
<1>2. sched.step = "child" /\ state.stage # "none" /\ ~cert.only /\ ~cert.failed /\ ~cert.bad
  BY DEF CInv, ProcessInv, OnPlan
<1>3. "credential_revocation" \notin evidence
  BY DEF CInv, RunInv
<1>4. journal # "complete"
  BY <1>3 DEF CInv, CloseInv, AllEarned, Gates
<1>5. QED BY <1>1, <1>2, <1>3, <1>4

(* A run that fails goes on with its cleanup.                              *)
LEMMA FailKeeps ==
    ASSUME CInv, OnPlan, NEW c \in Cert, ~c.only, cert' = Failed(c),
         evidence \subseteq evidence',
           evidence' \subseteq evidence \cup {"vulnerability_scan"},
           lease' \in Unrevoked, faults' \in 0..MaxFaults,
           job' \in {job, NoJob}, UNCHANGED <<cand, journal, state, owed>>,
           sched' = sched \/ (sched.step = "child" /\ sched' = [sched EXCEPT !.mode = "stopped"]),
           guest' \in Guest, guest'.boots = guest.boots, guest'.since = guest.since,
                guest'.once = guest.once,
           guest'.phase = guest.phase, guest'.default = guest.default, guest'.data = guest.data,
           guest'.cand = guest.cand
    PROVE  CInv'
<1>0. sched' \in Sched /\ sched'.step = sched.step
  BY DEF CInv, CertTypeOK, Sched
<1>1. /\ cert' \in Cert /\ cert'.failed /\ ~cert'.wait /\ cert'.reply = "none"
          /\ cert'.step \in {"guest", "end"}
      /\ ~cert'.only
  BY RunFails
<1>2. job'.op \in {job.op, "none"}
  BY DEF NoJob
<1>3. CertTypeOK'
  <2>1. evidence' \subseteq Gates
    BY DEF CInv, CertTypeOK, Gates
  <2>2. job'.op \in {"none", "cleanup-credential"} \cup
            ({Plan[i] : i \in DOMAIN Plan} \ Local)
    BY <1>2 DEF CInv, CertTypeOK
  <2>3. QED BY <1>0, <1>1, <2>1, <2>2, Going DEF CInv, CertTypeOK, Unrevoked
<1>4. ProcessInv' /\ WaitInv'
  BY <1>0, <1>1, <1>2, Going DEF CInv, ProcessInv, WaitInv, OnPlan, Local, Deployment
<1>5. RunInv' /\ SeenInv' /\ AfterInv'
  BY <1>1 DEF RunInv, SeenInv, AfterInv, OnPlan
<1>6. CloseInv'
  BY <1>0, Going DEF CInv, CloseInv
<1>7. BootInv' /\ EarnedInv' /\ GuestRunsFrozen'
  BY Going DEF CInv, BootInv, EarnedInv, Booted, Deployment, Boot, Entry, GuestRunsFrozen
<1>8. QED BY <1>3, <1>4, <1>5, <1>6, <1>7 DEF CInv

(* A run that goes on.                                                     *)
LEMMA GoOnKeeps ==
    ASSUME CInv, CertTypeOK', OnPlan, OnPlan', RunInv', SeenInv', ~cert'.wait,
         cert'.only = cert.only, cert'.failed = cert.failed,
           cert'.bad = cert.bad,
           cert'.reply = "none", evidence \subseteq evidence',
           evidence' \subseteq evidence \cup GatesOf(Len(cert.seen)) \cup {"restore",
                "vulnerability_scan"},
           "restore" \in evidence' => job'.op = "none" /\ guest'.data = "seeded" /\ Deployment',
           "boot" \in evidence' => "boot" \in evidence \/ Booted("updated", "updated", "updated"),
           "previous_boot" \in evidence' => "previous_boot" \in evidence \/ Booted("updated",
                "previous", "updated"),
           job'.op = "none" \/ (job' = job /\ cert'.at = cert.at),
           UNCHANGED <<journal, sched>>, state'.stage # "none",
           guest'.boots = guest.boots, guest'.since = guest.since, guest'.once = guest.once,
           guest'.phase = guest.phase, guest'.default = guest.default, guest'.cand = guest.cand,
                guest'.data = guest.data
    PROVE  CInv'
<1>1. /\ cert' \in Cert /\ cert'.step = "run" /\ cert.step = "run"
  BY DEF CertTypeOK, OnPlan
<1>2. "credential_revocation" \notin evidence'
  BY Going DEF GatesOf
<1>3. ProcessInv'
  BY <1>1, Going DEF CInv, ProcessInv, OnPlan
<1>4. WaitInv'
  BY <1>1, Going DEF CInv, WaitInv, OnPlan, Now, Local, Deployment
<1>5. AfterInv' /\ CloseInv'
  BY <1>1, Going DEF CInv, CloseInv, AfterInv
<1>6. BootInv' /\ GuestRunsFrozen'
  BY DEF CInv, BootInv, Deployment, Boot, Entry, GuestRunsFrozen
<1>7. EarnedInv'
  <2>1. \A a, b, c : Booted(a, b, c) => Booted(a, b, c)'
    BY DEF Booted, Boot
  <2>2. QED BY <1>2, <2>1 DEF CInv, EarnedInv
<1>8. QED BY <1>3, <1>4, <1>5, <1>6, <1>7 DEF CInv

(* What has been observed stays as it was.                                 *)
LEMMA SameSeen ==
    ASSUME CInv, OnPlan, cert'.seen = cert.seen, guest'.boots = guest.boots, guest'.since = guest.since
    PROVE  SeenInv'
BY DEF CInv, SeenInv, Boot

(* A request is refused.                                                   *)
LEMMA RefusedKeeps == ASSUME CInv, Refused PROVE CInv'
<1>1. OnPlan /\ cert' = Failed(cert) /\ UNCHANGED <<cand, journal, state, evidence, lease, sched,
     guest, job, owed, faults>>
  BY DEF Refused, OnPlan, files, world
<1>2. lease \in Unrevoked /\ guest \in Guest /\ faults \in 0..MaxFaults
  BY <1>1 DEF CInv, CertTypeOK, RunInv, Unrevoked
<1>3. QED BY <1>1, <1>2, Going, FailKeeps

(* There is no answer; the request is made again, or the run fails.        *)
LEMMA UnreachableKeeps == ASSUME CInv, Unreachable PROVE CInv'
<1>1. OnPlan /\ UNCHANGED <<cand, journal, state, evidence, lease, sched, guest, job, owed, faults>>
  BY DEF Unreachable, OnPlan, files, world
<1>2. lease \in Unrevoked /\ guest \in Guest /\ faults \in 0..MaxFaults
  BY <1>1 DEF CInv, CertTypeOK, RunInv, Unrevoked
<1>3. CASE cert' = Failed(cert)
  BY <1>1, <1>2, <1>3, Going, FailKeeps
<1>4. CASE cert' = [cert EXCEPT !.reply = "none"] /\ cert.reply = "lost"
  <2>1. /\ cert' \in Cert /\ cert'.reply = "none" /\ cert'.wait = cert.wait /\ cert'.step = cert.step
        /\ cert'.at = cert.at /\ cert'.seen = cert.seen /\ cert'.attempted = cert.attempted
        /\ cert'.only = cert.only /\ cert'.failed = cert.failed /\ cert'.bad = cert.bad
    BY <1>1, <1>4, Going DEF Cert, Replies
  <2>2. CertTypeOK'
    BY <1>1, <2>1 DEF CInv, CertTypeOK
  <2>3. OnPlan' /\ ~cert'.wait
    BY <1>1, <1>4, <2>1 DEF CInv, WaitInv, OnPlan, Deployment
  <2>4. RunInv'
    BY <1>1, <1>4, <2>1 DEF CInv, RunInv, OnPlan, Now, Deployment
  <2>5. "restore" \in evidence => job.op = "none" /\ guest.data = "seeded" /\ Deployment
    <3>1. "restore" \in evidence => cert.at = 27
      <4>1. cert.at \in 1..27 /\ ("restore" \in evidence => cert.at > 26)
        BY <1>1, Going DEF CInv, RunInv
      <4>2. QED BY <4>1
    <3>2. cert.at = 27 => Now = "scan"
      BY PlanIs DEF Now
    <3>3. QED BY <1>1, <3>1, <3>2 DEF CInv, EarnedInv, WaitInv, Local, Deployment
  <2>6. QED BY <1>1, <2>1, <2>2, <2>3, <2>4, <2>5, SameSeen, Going, GoOnKeeps DEF Deployment
<1>5. QED BY <1>1, <1>3, <1>4 DEF Unreachable, Retries

(* A run that advances: the records of the gates come with the requests    *)
(* that complete them.                                                     *)
LEMMA CountIs == \A at \in 1..26 : Count(at + 1) = Count(at) + (IF Plan[at] \in Observations THEN 1 ELSE 0)
BY PlanIs DEF Count, Observations

(* What is known of a run that advances.                                   *)
LEMMA AdvanceIs ==
    ASSUME CInv, OnPlan, cert.at \in 1..26, cert'.step = "run", cert'.at = cert.at + 1,
         cert'.reply = "none",
           cert'.seen = cert.seen, Now \in Observations => cert.reply = "ok",
           cert'.attempted \/ (~cert.attempted /\ cert.at # 5), guest'.phase = guest.phase,
           lease' = IF cert.at < 6 THEN "none" ELSE "live", cert.at = 8 => Deployment,
           evidence \subseteq evidence', "credential_revocation" \notin evidence',
           "restore" \in evidence' => "restore" \in evidence \/ cert.at = 26,
           cert.at = 9 => {"package_replay", "inference"} \subseteq evidence',
           cert.at = 12 => {"boot", "runtime"} \subseteq evidence',
           cert.at = 20 => "previous_boot" \in evidence',
           cert.at = 26 => "restore" \in evidence'
    PROVE  RunInv'
<1>1. RunInv /\ OnPlan'
  BY DEF CInv, OnPlan
<1>2. Len(cert'.seen) = Count(cert'.at)
  <2>1. Len(cert.seen) = Count(cert.at) + (IF Now \in Observations THEN 1 ELSE 0)
    BY <1>1 DEF RunInv
  <2>2. QED BY <2>1, CountIs DEF Now
<1>3. Len(cert'.seen) = Count(cert'.at) + (IF Now' \in Observations
     /\ cert'.reply = "ok" THEN 1 ELSE 0)
  <2>1. Count(cert'.at) \in Nat
    BY DEF Count
  <2>2. QED BY <1>2, <2>1
<1>4. /\ cert'.at > 5 => cert.at > 5 \/ cert.at = 5
      /\ cert'.at > 8 => cert.at > 8 \/ cert.at = 8
      /\ cert'.at > 9 => cert.at > 9 \/ cert.at = 9
      /\ cert'.at > 12 => cert.at > 12 \/ cert.at = 12
      /\ cert'.at > 20 => cert.at > 20 \/ cert.at = 20
      /\ cert'.at > 26 => cert.at > 26 \/ cert.at = 26
      /\ cert'.at <= 6 <=> cert.at < 6
      /\ cert.at > 26 \/ cert.at = 26 => cert'.at > 26
  OBVIOUS
<1>5. /\ cert'.at > 5 => cert'.attempted
      /\ lease' = IF cert'.at <= 6 THEN "none" ELSE "live"
      /\ cert'.at > 8 \/ cert'.reply = "closed" => Deployment'
  <2>1. /\ cert.at > 5 => cert.attempted
        /\ cert.at > 8 => Deployment
    BY <1>1 DEF RunInv
  <2>2. Deployment => Deployment'
    BY DEF Deployment
  <2>3. QED BY <1>4, <2>1, <2>2
<1>6. /\ "restore" \in evidence' => cert'.at > 26
      /\ cert'.at > 9 => {"package_replay", "inference"} \subseteq evidence'
      /\ cert'.at > 12 => {"boot", "runtime"} \subseteq evidence'
      /\ cert'.at > 20 => "previous_boot" \in evidence'
      /\ cert'.at > 26 => "restore" \in evidence'
  <2>1. /\ "restore" \in evidence => cert.at > 26
        /\ cert.at > 9 => {"package_replay", "inference"} \subseteq evidence
        /\ cert.at > 12 => {"boot", "runtime"} \subseteq evidence
        /\ cert.at > 20 => "previous_boot" \in evidence
        /\ cert.at > 26 => "restore" \in evidence
    BY <1>1 DEF RunInv
  <2>2. QED BY <1>4, <2>1
<1>7. QED BY <1>3, <1>5, <1>6 DEF RunInv

(* A request that was answered plainly; restore-check completes its gate.  *)
LEMMA AcceptedKeeps == ASSUME CInv, Accepted PROVE CInv'
<1>1. /\ OnPlan /\ cert.reply = "ok" /\ Now \notin Observations /\ cert' = Advanced(cert)
      /\ evidence' = evidence \cup (IF Now = "restore-check" THEN {"restore"} ELSE {})
      /\ UNCHANGED <<cand, journal, state, lease, sched, guest, job, owed, faults>>
  BY DEF Accepted, OnPlan, Op, Now, world
<1>2. cert.at \in 1..26 /\ cert.at # 5 /\ cert.at # 6 /\ cert.at # 8
     /\ (Now = "restore-check" <=> cert.at = 26)
  <2>1. cert.at \in 1..27 /\ Now \notin Local /\ Now # "deploy"
    BY <1>1, Going DEF CInv, RunInv
  <2>2. QED BY <2>1, PlanIs DEF Now, Local
<1>3. /\ cert' \in Cert /\ cert'.at = cert.at + 1 /\ cert'.reply = "none" /\ cert'.step = "run"
          /\ ~cert'.wait
      /\ cert'.seen = cert.seen /\ cert'.attempted = cert.attempted
      /\ cert'.only = cert.only /\ cert'.failed = cert.failed /\ cert'.bad = cert.bad
  BY <1>1, <1>2, Going, Advances DEF CInv, WaitInv, OnPlan, Deployment
<1>4. job.op = "none"
  BY <1>1 DEF CInv, WaitInv, Deployment
<1>5. CertTypeOK'
  BY <1>1, <1>3, Going DEF CInv, CertTypeOK, Gates
<1>6. RunInv'
  <2>1. cert.attempted \/ (~cert.attempted /\ cert.at # 5)
    BY <1>2
  <2>2. lease = IF cert.at < 6 THEN "none" ELSE "live"
    <3>1. lease = IF cert.at <= 6 THEN "none" ELSE "live"
      BY <1>1 DEF CInv, RunInv
    <3>2. cert.at <= 6 <=> cert.at < 6
      BY <1>2
    <3>3. QED BY <3>1, <3>2
  <2>3. cert.at # 9 /\ cert.at # 12 /\ cert.at # 20
    BY <1>1, <1>2, PlanIs DEF Now, Observations
  <2>4. QED BY <1>1, <1>2, <1>3, <2>1, <2>2, <2>3, Going, AdvanceIs
<1>7. "restore" \in evidence' => guest.data = "seeded" /\ Deployment
  <2>1. CASE Now = "restore-check"
    <3>1. cert.at > 8
      BY <1>2, <2>1
    <3>2. QED BY <1>1, <2>1, <3>1 DEF CInv, RunInv
  <2>2. CASE Now # "restore-check"
    BY <1>1, <2>2 DEF CInv, EarnedInv
  <2>3. QED BY <2>1, <2>2
<1>8. QED BY <1>1, <1>3, <1>4, <1>5, <1>6, <1>7, SameSeen, Going, GoOnKeeps DEF OnPlan, Deployment

(* The lease is named before it is asked for.                              *)
LEMMA NameLeaseKeeps == ASSUME CInv, NameLease PROVE CInv'
<1> DEFINE c == [cert EXCEPT !.attempted = TRUE]
<1>1. /\ OnPlan /\ cert.reply = "none" /\ ~cert.wait /\ Now = "name" /\ cert' = Advanced(c)
      /\ state' = [state EXCEPT !.lease = TRUE]
      /\ UNCHANGED <<cand, journal, evidence, lease, sched, guest, job, owed, faults>>
  BY DEF NameLease, Running, OnPlan, Op, Now, world
<1>2. cert.at = 5
  BY <1>1, Going, PlanIs DEF Now
<1>3. /\ c \in Cert /\ c.at = 5 /\ c.step = "run" /\ ~c.wait /\ c.seen = cert.seen /\ c.attempted
      /\ c.only = cert.only /\ c.failed = cert.failed /\ c.bad = cert.bad
  BY <1>1, <1>2, Going, Booleans DEF Cert, OnPlan
<1> HIDE DEF c
<1>4. /\ cert' \in Cert /\ cert'.at = 6 /\ cert'.reply = "none" /\ cert'.step = "run" /\ ~cert'.wait
      /\ cert'.seen = cert.seen /\ cert'.attempted
      /\ cert'.only = cert.only /\ cert'.failed = cert.failed /\ cert'.bad = cert.bad
  BY <1>1, <1>3, Advances
<1>5. state' \in [stage: {"none", "open", "failed", "complete"}, lease: BOOLEAN]
     /\ state'.stage = state.stage
  BY <1>1, Booleans DEF CInv, CertTypeOK
<1>6. CertTypeOK'
  BY <1>1, <1>4, <1>5, Going DEF CInv, CertTypeOK
<1>7. RunInv'
  <2>1. lease = "none" /\ Now \notin Observations
    BY <1>1, <1>2 DEF CInv, RunInv, Observations
  <2>2. QED BY <1>1, <1>2, <1>4, <2>1, Going, AdvanceIs
<1>8. job.op = "none" /\ "restore" \notin evidence
  BY <1>1, <1>2 DEF CInv, WaitInv, RunInv, Local, Deployment
<1>9. QED BY <1>1, <1>4, <1>5, <1>6, <1>7, <1>8, SameSeen, Going, GoOnKeeps DEF OnPlan

(* A job starts only when no other runs.                                   *)
LEMMA AskKeeps == ASSUME CInv, Ask PROVE CInv'
<1>1. /\ OnPlan /\ ~cert.wait /\ cert.reply = "none" /\ Now \notin Local
      /\ UNCHANGED <<cand, journal, state, evidence, lease, sched, guest, owed, faults>>
  BY DEF Ask, OnPlan, Op, Now, files
<1>2. CASE job' = job /\ cert' = Failed(cert)
  <2>1. lease \in Unrevoked /\ guest \in Guest /\ faults \in 0..MaxFaults
    BY <1>1 DEF CInv, CertTypeOK, RunInv, Unrevoked
  <2>2. QED BY <1>1, <1>2, <2>1, Going, FailKeeps
<1>3. CASE job'.op = Now /\ cert' = [cert EXCEPT !.wait = TRUE]
  <2>1. /\ cert' \in Cert /\ cert'.wait /\ cert'.reply = "none" /\ cert'.step = "run"
        /\ cert'.at = cert.at /\ cert'.seen = cert.seen /\ cert'.attempted = cert.attempted
        /\ cert'.only = cert.only /\ cert'.failed = cert.failed /\ cert'.bad = cert.bad
    BY <1>1, <1>3, Going, Asks DEF OnPlan
  <2>2. CertTypeOK'
    <3>1. job'.op \in {Plan[i] : i \in DOMAIN Plan} \ Local
      BY <1>1, <1>3, Going, PlanIs DEF Now
    <3>2. QED BY <1>1, <2>1, <3>1, Going DEF CInv, CertTypeOK
  <2>3. "restore" \notin evidence
    <3>1. "restore" \in evidence => cert.at > 26
      BY <1>1 DEF CInv, RunInv
    <3>2. cert.at \in 1..27 /\ cert.at # 27
      BY <1>1, Going, PlanIs DEF Now, Local
    <3>3. QED BY <3>1, <3>2
  <2>4. Now = "damage" => Deployment
    <3>1. Now = "damage" => cert.at = 24
      BY Going, PlanIs, <1>1 DEF Now
    <3>2. QED BY <1>1, <3>1 DEF CInv, RunInv
  <2>5. ProcessInv' /\ WaitInv'
    BY <1>1, <1>3, <2>1, <2>3, <2>4, Going DEF CInv, ProcessInv, WaitInv, OnPlan, Now, Deployment
  <2>6. RunInv'
    BY <1>1, <2>1 DEF CInv, RunInv, OnPlan, Now, Deployment
  <2>7. AfterInv' /\ CloseInv'
    BY <1>1, <2>1, Going DEF CInv, AfterInv, CloseInv
  <2>8. BootInv' /\ EarnedInv' /\ GuestRunsFrozen'
    BY <1>1 DEF CInv, BootInv, EarnedInv, Booted, Deployment, Boot, Entry, GuestRunsFrozen
  <2>9. QED BY <1>1, <2>1, <2>2, <2>5, <2>6, <2>7, <2>8, SameSeen DEF CInv
<1>4. QED BY <1>2, <1>3 DEF Ask, Op, Now

(* The deployment loop, which ends with the closure.                       *)
LEMMA DeployedKeeps == ASSUME CInv, Deployed PROVE CInv'
<1> DEFINE n == Len(cert.stages)
           s == IF n > 0 /\ cert.stages[n] = cert.reply THEN cert.stages ELSE Append(cert.stages,
                cert.reply)
           c == [cert EXCEPT !.stages = s, !.reply = "none"]
<1>1. /\ OnPlan /\ Now = "deploy" /\ cert.reply \in {"reboot-pending", "persistence-reboot", "closed"}
      /\ \/ cert' = c
         \/ cert.reply = "closed" /\ cert' = Advanced(c)
         \/ cert' = Failed(c)
      /\ UNCHANGED <<cand, journal, state, evidence, lease, sched, guest, job, owed, faults>>
  BY DEF Deployed, OnPlan, Op, Now, files, world
<1>2. cert.at = 8
  BY <1>1, Going, PlanIs DEF Now
<1>3. ~cert.wait /\ job.op = "none" /\ "restore" \notin evidence
  BY <1>1, <1>2 DEF CInv, WaitInv, RunInv, Deployment
<1>4. s \in Seq({"reboot-pending", "persistence-reboot", "closed"})
  BY <1>1, Going DEF Cert
<1> HIDE DEF s
<1>5. /\ c \in Cert /\ c.step = "run" /\ ~c.wait /\ c.reply = "none"
      /\ c.at = 8 /\ c.seen = cert.seen /\ c.attempted = cert.attempted
      /\ c.only = cert.only /\ c.failed = cert.failed /\ c.bad = cert.bad
  BY <1>1, <1>2, <1>3, <1>4, Going DEF Cert, Replies, OnPlan
<1> HIDE DEF c
<1>6. CASE cert' = Failed(c)
  <2>1. lease \in Unrevoked /\ guest \in Guest /\ faults \in 0..MaxFaults
    BY <1>1 DEF CInv, CertTypeOK, RunInv, Unrevoked
  <2>2. QED BY <1>1, <1>5, <1>6, <2>1, Going, FailKeeps
<1>7. CASE cert' = c
  <2>1. CertTypeOK'
    BY <1>1, <1>5, <1>7, Going DEF CInv, CertTypeOK
  <2>2. RunInv'
    BY <1>1, <1>2, <1>5, <1>7 DEF CInv, RunInv, OnPlan, Now, Deployment, Observations
  <2>3. QED BY <1>1, <1>2, <1>3, <1>5, <1>7, <2>1, <2>2, SameSeen, Going, GoOnKeeps DEF OnPlan
<1>8. CASE cert.reply = "closed" /\ cert' = Advanced(c)
  <2>1. /\ cert' \in Cert /\ cert'.at = 9 /\ cert'.reply = "none" /\ cert'.step = "run"
            /\ ~cert'.wait
        /\ cert'.seen = cert.seen /\ cert'.attempted = cert.attempted
        /\ cert'.only = cert.only /\ cert'.failed = cert.failed /\ cert'.bad = cert.bad
    BY <1>5, <1>8, Advances
  <2>2. CertTypeOK'
    BY <1>1, <2>1, Going DEF CInv, CertTypeOK
  <2>3. RunInv'
    <3>1. lease = "live" /\ Now \notin Observations /\ Deployment /\ cert.attempted
      BY <1>1, <1>2, <1>8 DEF CInv, RunInv, Observations
    <3>2. QED BY <1>1, <1>2, <1>3, <2>1, <3>1, Going, AdvanceIs
  <2>4. QED BY <1>1, <1>3, <2>1, <2>2, <2>3, SameSeen, Going, GoOnKeeps DEF OnPlan
<1>9. QED BY <1>1, <1>6, <1>7, <1>8

(* The lease is issued, or the run fails.                                  *)
LEMMA IssueLeaseKeeps == ASSUME CInv, IssueLease PROVE CInv'
<1>1. /\ OnPlan /\ cert.reply = "none" /\ ~cert.wait /\ Now = "issue"
      /\ UNCHANGED <<cand, journal, state, evidence, sched, guest, job, owed>>
      /\ \/ lease' = "live" /\ cert' = Advanced(cert) /\ UNCHANGED faults
         \/ lease' \in Unrevoked /\ cert' = Failed(cert) /\ Fault
  BY DEF IssueLease, Running, OnPlan, Op, Now, files, world, Unrevoked
<1>2. cert.at = 6
  BY <1>1, Going, PlanIs DEF Now
<1>3. CASE cert' = Failed(cert) /\ Fault /\ lease' \in Unrevoked
  <2>1. guest \in Guest /\ faults' \in 0..MaxFaults
    BY <1>3, FaultType DEF CInv, CertTypeOK
  <2>2. QED BY <1>1, <1>3, <2>1, Going, FailKeeps
<1>4. CASE lease' = "live" /\ cert' = Advanced(cert) /\ UNCHANGED faults
  <2>1. /\ cert' \in Cert /\ cert'.at = 7 /\ cert'.reply = "none" /\ cert'.step = "run"
            /\ ~cert'.wait
        /\ cert'.seen = cert.seen /\ cert'.attempted = cert.attempted
        /\ cert'.only = cert.only /\ cert'.failed = cert.failed /\ cert'.bad = cert.bad
    BY <1>1, <1>2, <1>4, Going, Advances DEF OnPlan
  <2>2. CertTypeOK'
    BY <1>1, <1>4, <2>1, Going DEF CInv, CertTypeOK
  <2>3. cert.attempted /\ "restore" \notin evidence /\ job.op = "none"
    BY <1>1, <1>2 DEF CInv, RunInv, WaitInv, Local, Deployment
  <2>4. RunInv'
    BY <1>1, <1>2, <1>4, <2>1, <2>3, Going, AdvanceIs DEF Observations
  <2>5. QED BY <1>1, <2>1, <2>2, <2>3, <2>4, SameSeen, Going, GoOnKeeps DEF OnPlan
<1>5. QED BY <1>1, <1>3, <1>4

(* A power cycle.                                                          *)
LEMMA PowerKeeps == ASSUME CInv, PowerOff \/ PowerOn PROVE CInv'
<1>1. /\ OnPlan /\ cert.reply = "none" /\ ~cert.wait /\ Now \in {"off", "on"}
          /\ cert' \in {Advanced(cert), Failed(cert)}
      /\ \E p \in {"on", "rebooting", "booting", "off"} : guest' = [guest EXCEPT !.power = p]
      /\ job' \in {job, NoJob}
      /\ UNCHANGED <<cand, journal, state, evidence, lease, sched, owed, faults>>
  BY DEF PowerOff, PowerOn, Running, OnPlan, Op, Now, files, CInv, CertTypeOK,
       Guest
<1>2. cert.at \in {10, 11, 14, 15, 18, 19}
  BY <1>1, Going, PlanIs DEF Now
<1>3. /\ guest' \in Guest /\ guest'.boots = guest.boots /\ guest'.since = guest.since
          /\ guest'.once = guest.once
      /\ guest'.phase = guest.phase /\ guest'.default = guest.default /\ guest'.data = guest.data
      /\ guest'.cand = guest.cand
  BY <1>1 DEF CInv, CertTypeOK, Guest
<1>4. CASE cert' = Failed(cert)
  <2>1. lease \in Unrevoked /\ faults \in 0..MaxFaults
    BY <1>1 DEF CInv, CertTypeOK, RunInv, Unrevoked
  <2>2. QED BY <1>1, <1>3, <1>4, <2>1, Going, FailKeeps
<1>5. CASE cert' = Advanced(cert)
  <2>1. /\ cert' \in Cert /\ cert'.at = cert.at + 1 /\ cert'.reply = "none" /\ cert'.step = "run"
            /\ ~cert'.wait
        /\ cert'.seen = cert.seen /\ cert'.attempted = cert.attempted
        /\ cert'.only = cert.only /\ cert'.failed = cert.failed /\ cert'.bad = cert.bad
    BY <1>1, <1>2, <1>5, Going, Advances DEF OnPlan
  <2>2. cert.attempted /\ "restore" \notin evidence /\ job.op = "none" /\ lease = "live"
       /\ Now \notin Observations
    BY <1>1, <1>2 DEF CInv, RunInv, WaitInv, Local, Observations, Deployment
  <2>3. CertTypeOK'
    BY <1>1, <1>3, <2>1, <2>2, Going DEF CInv, CertTypeOK, NoJob
  <2>4. RunInv'
    BY <1>1, <1>2, <1>3, <2>1, <2>2, Going, AdvanceIs
  <2>5. QED BY <1>1, <1>3, <2>1, <2>2, <2>3, <2>4, SameSeen, Going, GoOnKeeps DEF OnPlan, NoJob
<1>6. QED BY <1>1, <1>4, <1>5

(* Which observation it is.                                                *)
LEMMA ObservedAt ==
    ASSUME CInv, OnPlan, Now \in Observations, cert.reply = "ok"
    PROVE  /\ cert.at \in {9, 12, 16, 20, 21, 23}
           /\ Len(cert.seen) = IF cert.at = 9 THEN 1 ELSE IF cert.at = 12 THEN 2 ELSE IF cert.at = 16 THEN 3
                               ELSE IF cert.at = 20 THEN 4 ELSE IF cert.at = 21 THEN 5 ELSE 6
<1>1. cert.at \in {9, 12, 16, 20, 21, 23}
  BY Going, PlanIs DEF Now, Observations
<1>2. Len(cert.seen) = Count(cert.at) + 1
  BY DEF CInv, RunInv
<1>3. QED BY <1>1, <1>2 DEF Count

(* What an observation says of the boots.                                  *)
LEMMA Seen ==
    ASSUME CInv, OnPlan, NEW i \in 1..Len(cert.seen)
    PROVE  /\ cert.seen[i].boot \in 1..Boot /\ guest.since <= cert.seen[i].boot
           /\ guest.boots[cert.seen[i].boot] = cert.seen[i].entry
           /\ i <= 4 => cert.seen[i].entry = IF i = 3 THEN "previous" ELSE "updated"
           /\ \A k \in 1..i : cert.seen[k].boot <= cert.seen[i].boot
<1>1. guest.since \in 1..Boot /\ Boot \in Nat
  BY DEF CInv, BootInv
<1>2. /\ cert.seen[i].boot \in guest.since..Boot
      /\ guest.boots[cert.seen[i].boot] = cert.seen[i].entry
      /\ i <= 4 => cert.seen[i].entry = IF i = 3 THEN "previous" ELSE "updated"
      /\ \A k \in 1..i : cert.seen[k].boot <= cert.seen[i].boot
  BY DEF CInv, SeenInv
<1>3. QED BY <1>1, <1>2

(* The gates of an observation: the boots they speak of are in order.      *)
LEMMA ObservedKeeps == ASSUME CInv, Observed PROVE CInv'
<1>1. /\ OnPlan /\ cert.reply = "ok" /\ Now \in Observations
      /\ UNCHANGED <<cand, journal, state, lease, sched, guest, job, owed, faults>>
  BY DEF Observed, OnPlan, Op, Now, world
<1>2. CASE evidence' = evidence /\ cert' = Failed(cert)
  <2>1. lease \in Unrevoked /\ guest \in Guest /\ faults \in 0..MaxFaults
    BY <1>1 DEF CInv, CertTypeOK, RunInv, Unrevoked
  <2>2. QED BY <1>1, <1>2, <2>1, Going, FailKeeps
<1>3. CASE Consistent(cert.seen) /\ evidence' = evidence \cup GatesOf(Len(cert.seen))
     /\ cert' = Advanced(cert)
  <2>1. /\ cert.at \in {9, 12, 16, 20, 21, 23}
        /\ cert.at = 9 <=> Len(cert.seen) = 1
        /\ cert.at = 12 <=> Len(cert.seen) = 2
        /\ cert.at = 20 <=> Len(cert.seen) = 4
        /\ Len(cert.seen) \in 1..6
    <3>1. /\ cert.at \in {9, 12, 16, 20, 21, 23}
          /\ Len(cert.seen) = IF cert.at = 9 THEN 1 ELSE IF cert.at = 12 THEN 2 ELSE IF cert.at = 16 THEN 3
                              ELSE IF cert.at = 20 THEN 4 ELSE IF cert.at = 21 THEN 5 ELSE 6
      BY <1>1, ObservedAt
    <3>2. QED BY <3>1
  <2>2. /\ cert' \in Cert /\ cert'.at = cert.at + 1 /\ cert'.reply = "none" /\ cert'.step = "run"
            /\ ~cert'.wait
        /\ cert'.seen = cert.seen /\ cert'.attempted = cert.attempted
        /\ cert'.only = cert.only /\ cert'.failed = cert.failed /\ cert'.bad = cert.bad
    BY <1>1, <1>3, <2>1, Going, Advances DEF CInv, WaitInv, OnPlan, Deployment
  <2>3. GatesOf(Len(cert.seen)) = IF cert.at = 9 THEN {"package_replay", "inference"}
                                  ELSE IF cert.at = 12 THEN {"boot", "runtime"}
                                  ELSE IF cert.at = 20 THEN {"previous_boot"} ELSE {}
    BY <2>1 DEF GatesOf
  <2>4. CertTypeOK'
    BY <1>1, <1>3, <2>2, <2>3, Going DEF CInv, CertTypeOK, Gates
  <2>5. job.op = "none" /\ "restore" \notin evidence'
    BY <1>1, <1>3, <2>1, <2>3 DEF CInv, WaitInv, RunInv, Deployment
  <2>6. Deployment /\ cert.attempted /\ lease = "live"
    BY <1>1, <2>1 DEF CInv, RunInv
  <2>7. RunInv'
    BY <1>1, <1>3, <2>1, <2>2, <2>3, <2>5, <2>6, Going, AdvanceIs
  <2>8. CASE cert.at = 12
    <3>1. PICK i \in 1..(guest.since - 1) : guest.boots[i] = "updated"
      BY <2>6 DEF CInv, BootInv
    <3>2. cert.seen[2].boot # cert.seen[1].boot /\ 1 \in 1..Len(cert.seen) /\ 2 \in 1..Len(cert.seen)
      BY <1>3, <2>1, <2>8 DEF Consistent
    <3>3. /\ cert.seen[1].boot \in 1..Boot /\ cert.seen[2].boot \in 1..Boot
              /\ guest.since <= cert.seen[1].boot
          /\ cert.seen[1].boot <= cert.seen[2].boot
          /\ guest.boots[cert.seen[1].boot] = "updated" /\ guest.boots[cert.seen[2].boot] = "updated"
      BY <1>1, <3>2, Seen
    <3>4. i \in 1..Boot /\ i < cert.seen[1].boot /\ cert.seen[1].boot < cert.seen[2].boot
      BY <3>1, <3>2, <3>3 DEF CInv, BootInv
    <3>5. Booted("updated", "updated", "updated")
      BY <3>1, <3>3, <3>4 DEF Booted
    <3>6. QED BY <1>1, <1>3, <2>2, <2>3, <2>4, <2>5, <2>7, <2>8, <3>5, SameSeen, Going,
         GoOnKeeps DEF OnPlan
  <2>9. CASE cert.at = 20
    <3>1. 2 \in 1..Len(cert.seen) /\ 3 \in 1..Len(cert.seen) /\ 4 \in 1..Len(cert.seen)
      <4>1. Len(cert.seen) = 4
        BY <2>1, <2>9
      <4>2. QED BY <4>1
    <3>2. /\ cert.seen[2].boot \in 1..Boot /\ cert.seen[3].boot \in 1..Boot
              /\ cert.seen[4].boot \in 1..Boot
          /\ cert.seen[2].boot <= cert.seen[3].boot /\ cert.seen[3].boot <= cert.seen[4].boot
          /\ guest.boots[cert.seen[2].boot] = "updated" /\ guest.boots[cert.seen[3].boot] = "previous"
          /\ guest.boots[cert.seen[4].boot] = "updated"
      BY <1>1, <3>1, Seen
    <3>3. cert.seen[2].boot # cert.seen[3].boot /\ cert.seen[3].boot # cert.seen[4].boot
      BY <3>2
    <3>4. cert.seen[2].boot < cert.seen[3].boot /\ cert.seen[3].boot < cert.seen[4].boot
      BY <3>2, <3>3 DEF CInv, BootInv
    <3>5. Booted("updated", "previous", "updated")
      BY <3>2, <3>4 DEF Booted
    <3>6. QED BY <1>1, <1>3, <2>2, <2>3, <2>4, <2>5, <2>7, <2>9, <3>5, SameSeen, Going,
         GoOnKeeps DEF OnPlan
  <2>10. CASE cert.at \notin {12, 20}
    BY <1>1, <1>3, <2>2, <2>3, <2>4, <2>5, <2>7, <2>10, SameSeen, Going, GoOnKeeps DEF OnPlan
  <2>11. QED BY <2>8, <2>9, <2>10
<1>4. QED BY <1>1, <1>2, <1>3 DEF Observed

-----------------------------------------------------------------------------
(* The cleanup.                                                            *)
LEMMA CleanupKeeps ==
    ASSUME CInv, CertTypeOK', UNCHANGED <<journal, guest>>, cert.step \notin {"idle", "done"},
           sched' = sched \/ (sched.step = "child" /\ sched' = [sched EXCEPT !.mode = "stopped"]),
           cert'.step \notin {"idle", "run"}, cert'.only = cert.only, state'.stage # "none",
           evidence \subseteq evidence', "credential_revocation" \in evidence' => lease' = "revoked",
           evidence' \subseteq evidence \cup {"vulnerability_scan", "credential_revocation"},
           lease = "revoked" => lease' = "revoked", cert'.step = "gate" => lease' = "revoked",
           WaitInv', AfterInv'
    PROVE  CInv'
<1>0. sched' = sched \/ (sched'.step = "child" /\ sched.step = "child")
  <2>1. sched \in Sched
    BY DEF CInv, CertTypeOK
  <2>2. QED BY <2>1 DEF Sched
<1>1. ProcessInv'
  BY <1>0 DEF CInv, ProcessInv, OnPlan
<1>2. RunInv' /\ SeenInv'
  BY DEF RunInv, SeenInv, OnPlan
<1>3. CloseInv'
  <2>1. AllEarned => AllEarned'
    BY DEF AllEarned, Deployment, CertTypeOK
  <2>2. QED BY <1>0, <2>1 DEF CInv, CloseInv
<1>4. BootInv' /\ GuestRunsFrozen'
  BY DEF CInv, BootInv, Deployment, Boot, Entry, GuestRunsFrozen
<1>5. EarnedInv'
  <2>1. \A a, b, c : Booted(a, b, c) => Booted(a, b, c)'
    BY DEF Booted, Boot
  <2>2. Deployment => Deployment'
    BY DEF Deployment
  <2>3. QED BY <2>1, <2>2 DEF CInv, EarnedInv
<1>6. QED BY <1>1, <1>2, <1>3, <1>4, <1>5 DEF CInv

(* The scan is the last request; then there is only the cleanup.           *)
LEMMA ScanKeeps == ASSUME CInv, Scan PROVE CInv'
<1>1. /\ OnPlan /\ cert.reply = "none" /\ ~cert.wait /\ Now = "scan"
      /\ UNCHANGED <<cand, journal, state, lease, sched, guest, job, owed>>
      /\ evidence \subseteq evidence' /\ evidence' \subseteq evidence \cup {"vulnerability_scan"}
      /\ \/ cert' = Failed(cert)
         \/ cert' = Advanced(cert) /\ evidence' = evidence \cup {"vulnerability_scan"}
  BY DEF Scan, Running, OnPlan, Op, Now, world
<1>2. cert.at = 27
  BY <1>1, Going, PlanIs DEF Now
<1>3. lease = "live" /\ guest \in Guest /\ faults' \in 0..MaxFaults
  BY <1>1, <1>2, FaultType DEF Scan, CInv, CertTypeOK, RunInv
<1>4. CASE cert' = Failed(cert)
  BY <1>1, <1>3, <1>4, Going, FailKeeps DEF Unrevoked
<1>5. CASE cert' = Advanced(cert) /\ evidence' = evidence \cup {"vulnerability_scan"}
  <2>1. /\ cert' \in Cert /\ cert'.step = "guest" /\ cert'.reply = "none" /\ ~cert'.wait
        /\ cert'.only = cert.only /\ cert'.failed = cert.failed /\ cert'.bad = cert.bad
    BY <1>1, <1>2, <1>5, Going, Ends DEF CInv, RunInv
  <2>2. CertTypeOK'
    BY <1>1, <1>3, <1>5, <2>1, Going DEF CInv, CertTypeOK, Gates
  <2>3. WaitInv'
    BY <1>1, <1>5, <2>1 DEF CInv, WaitInv, OnPlan, Deployment
  <2>4. AfterInv'
    <3>1. /\ Deployment
          /\ {"package_replay", "inference", "boot", "runtime", "previous_boot",
              "restore"} \subseteq evidence
      BY <1>1, <1>2 DEF CInv, RunInv
    <3>2. QED BY <1>1, <1>5, <2>1, <3>1 DEF AfterInv, Gates, Deployment
  <2>5. QED BY <1>1, <1>5, <2>1, <2>2, <2>3, <2>4, Going, CleanupKeeps DEF OnPlan
<1>6. QED BY <1>1, <1>4, <1>5

(* The guest is asked to give the credential back.                         *)
LEMMA AskCleanupKeeps == ASSUME CInv, AskCleanup PROVE CInv'
<1>1. /\ cert.step = "guest" /\ ~cert.wait /\ cert.reply = "none" /\ cert \in Cert
      /\ UNCHANGED <<cand, journal, state, evidence, lease, sched, guest, owed, faults>>
      /\ state.stage # "none"
  BY DEF AskCleanup, files, CInv, CertTypeOK, ProcessInv
<1>2. CASE job' = [op |-> "cleanup-credential", body |-> "none"]
     /\ cert' = [cert EXCEPT !.wait = TRUE]
  <2>1. /\ cert' \in Cert /\ cert'.step = "guest" /\ cert'.wait /\ cert'.reply = "none"
            /\ cert'.only = cert.only
        /\ cert'.failed = cert.failed /\ cert'.bad = cert.bad /\ job'.op = "cleanup-credential"
    BY <1>1, <1>2, Asks
  <2>2. CertTypeOK' /\ WaitInv' /\ AfterInv'
    BY <1>1, <2>1 DEF CInv, CertTypeOK, WaitInv, AfterInv, OnPlan, Deployment, Local
  <2>3. QED BY <1>1, <2>1, <2>2, CleanupKeeps DEF CInv, EarnedInv
<1>3. CASE job' = job /\ cert' = [cert EXCEPT !.step = "revoke", !.bad = TRUE]
  <2>1. /\ cert' \in Cert /\ cert'.step = "revoke" /\ ~cert'.wait /\ cert'.reply = "none"
            /\ cert'.only = cert.only
        /\ cert'.failed = cert.failed /\ cert'.bad
    BY <1>1, <1>3, Booleans DEF Cert, CertSteps
  <2>2. CertTypeOK' /\ WaitInv' /\ AfterInv'
    BY <1>1, <1>3, <2>1 DEF CInv, CertTypeOK, WaitInv, AfterInv, OnPlan, Deployment
  <2>3. QED BY <1>1, <2>1, <2>2, CleanupKeeps DEF CInv, EarnedInv
<1>4. QED BY <1>2, <1>3 DEF AskCleanup

(* It has, or the cleanup has failed.                                      *)
LEMMA GuestCleanedKeeps == ASSUME CInv, GuestCleaned PROVE CInv'
<1>1. /\ cert.step = "guest" /\ cert.reply # "none" /\ cert \in Cert /\ ~cert.wait
      /\ cert' = [cert EXCEPT !.step = "revoke", !.reply = "none", !.bad = cert.bad \/ cert.reply # "ok"]
      /\ UNCHANGED <<cand, journal, state, evidence, lease, sched, guest, job, owed, faults>>
      /\ state.stage # "none"
  BY DEF GuestCleaned, files, world, CInv, CertTypeOK, ProcessInv, WaitInv, Deployment
<1>2. (cert.bad \/ cert.reply # "ok") \in BOOLEAN
  OBVIOUS
<1>3. /\ cert' \in Cert /\ cert'.step = "revoke" /\ ~cert'.wait /\ cert'.reply = "none"
          /\ cert'.only = cert.only
      /\ cert'.failed = cert.failed /\ (cert'.bad <=> cert.bad \/ cert.reply # "ok")
  BY <1>1, <1>2 DEF Cert, CertSteps, Replies
<1>4. CertTypeOK' /\ WaitInv' /\ AfterInv'
  BY <1>1, <1>3 DEF CInv, CertTypeOK, WaitInv, AfterInv, OnPlan, Deployment
<1>5. QED BY <1>1, <1>3, <1>4, CleanupKeeps DEF CInv, EarnedInv

(* The broker revokes the lease.                                           *)
LEMMA RevokeKeeps == ASSUME CInv, Revoke PROVE CInv'
<1>1. /\ cert.step = "revoke" /\ cert \in Cert /\ ~cert.wait
      /\ UNCHANGED <<cand, journal, state, evidence, sched, guest, job, owed>>
      /\ state.stage # "none"
      /\ \/ lease' = "revoked" /\ cert' = [cert EXCEPT !.step = "gate"]
         \/ RevokeStops /\ cert' = [cert EXCEPT !.step = "end", !.bad = TRUE]
  BY DEF Revoke, files, world, CInv, CertTypeOK, ProcessInv, WaitInv, Deployment
<1>2. faults' \in 0..MaxFaults
  BY FaultType DEF Revoke, CInv, CertTypeOK
<1>3. /\ cert' \in Cert /\ cert'.step \in {"gate", "end"} /\ ~cert'.wait /\ cert'.reply = cert.reply
      /\ cert'.only = cert.only /\ cert'.failed = cert.failed
      /\ cert'.step = "gate" => lease' = "revoked" /\ cert'.bad = cert.bad
      /\ cert'.step = "end" => cert'.bad
      /\ lease' \in {lease, "lost", "revoked"} /\ (lease = "revoked" => lease' = "revoked")
  BY <1>1, Booleans DEF Cert, CertSteps, RevokeStops
<1>4. CertTypeOK' /\ WaitInv' /\ AfterInv'
  BY <1>1, <1>2, <1>3 DEF CInv, CertTypeOK, WaitInv, AfterInv, OnPlan, Deployment
<1>5. QED BY <1>1, <1>3, <1>4, CleanupKeeps DEF CInv, EarnedInv

(* Its gate is recorded, the last of them.                                 *)
LEMMA RecordRevocationKeeps == ASSUME CInv, RecordRevocation PROVE CInv'
<1>1. /\ cert.step = "gate" /\ cert \in Cert /\ ~cert.wait /\ lease = "revoked"
      /\ evidence' = evidence \cup {"credential_revocation"} /\ cert' = [cert EXCEPT !.step = "end"]
      /\ UNCHANGED <<cand, journal, state, lease, sched, guest, job, owed, faults>>
      /\ state.stage # "none"
  BY DEF RecordRevocation, world, CInv, CertTypeOK, ProcessInv, WaitInv, Deployment
<1>2. /\ cert' \in Cert /\ cert'.step = "end" /\ ~cert'.wait /\ cert'.reply = cert.reply
      /\ cert'.only = cert.only /\ cert'.failed = cert.failed /\ cert'.bad = cert.bad
  BY <1>1 DEF Cert, CertSteps
<1>3. CertTypeOK' /\ WaitInv'
  BY <1>1, <1>2 DEF CInv, CertTypeOK, WaitInv, OnPlan, Gates, Deployment
<1>4. AfterInv'
  BY <1>1, <1>2, <1>3 DEF CInv, CertTypeOK, AfterInv, AllEarned, Deployment
<1>5. QED BY <1>1, <1>2, <1>3, <1>4, CleanupKeeps

(* The outcome of the run is saved.                                        *)
LEMMA FinishKeeps == ASSUME CInv, Finish PROVE CInv'
<1>1. /\ cert.step = "end" /\ cert \in Cert /\ ~cert.wait /\ cert' = [cert EXCEPT !.step = "done"]
      /\ UNCHANGED <<cand, journal, evidence, lease, sched, guest, job, owed, faults>>
      /\ state.stage # "none"
  BY DEF Finish, world, CInv, CertTypeOK, ProcessInv, WaitInv, Deployment
<1>2. /\ cert' \in Cert /\ cert'.step = "done" /\ ~cert'.wait /\ cert'.reply = cert.reply
      /\ cert'.only = cert.only /\ cert'.failed = cert.failed /\ cert'.bad = cert.bad
  BY <1>1 DEF Cert, CertSteps
<1>3. state' \in [stage: {"none", "open", "failed", "complete"}, lease: BOOLEAN] /\ state'.stage # "none"
  BY <1>1 DEF Finish, CInv, CertTypeOK
<1>4. CertTypeOK' /\ WaitInv'
  BY <1>1, <1>2, <1>3 DEF CInv, CertTypeOK, WaitInv, OnPlan, Deployment
<1>5. AfterInv'
  BY <1>1, <1>2 DEF CInv, AfterInv, AllEarned, Deployment
<1>6. QED BY <1>1, <1>2, <1>3, <1>4, <1>5, CleanupKeeps DEF CInv, EarnedInv

(* A certifier that is told to end, alone or with the service: what it is  *)
(* doing has failed.                                                       *)
LEMMA TerminatedKeeps == ASSUME CInv, ChildTerminated \/ ServiceStopped PROVE CInv'
<1>1. /\ sched.step = "child" /\ Terminated
      /\ sched' = sched \/ sched' = [sched EXCEPT !.mode = "stopped"]
  BY DEF ChildTerminated, ServiceStopped
<1>2. /\ cert.step \in {"run", "guest", "revoke", "gate", "end"} /\ ~cert.only /\ cert \in Cert
      /\ UNCHANGED <<cand, journal, state, evidence, guest, job, owed>>
      /\ faults' \in 0..MaxFaults /\ state.stage # "none" /\ guest \in Guest
      /\ sched \in Sched
  BY <1>1, FaultType DEF Terminated, world, files, CInv, CertTypeOK, ProcessInv, Cert, CertSteps
<1>3. CASE cert.step = "run"
  <2>1. OnPlan /\ cert' = Failed(cert) /\ lease' = lease
    BY <1>1, <1>3 DEF Terminated, OnPlan
  <2>2. lease \in Unrevoked
    BY <2>1 DEF CInv, RunInv, Unrevoked
  <2>3. QED BY <1>1, <1>2, <2>1, <2>2, FailKeeps
<1>4. CASE cert.step # "run"
  <2>1. /\ cert' \in Cert /\ cert'.step \in {"revoke", "end", "done"} /\ cert'.bad
        /\ cert'.only = cert.only /\ cert'.failed = cert.failed
    <3>1. CASE cert.step = "guest"
      <4>1. cert' = [cert EXCEPT !.step = "revoke", !.bad = TRUE, !.wait = FALSE, !.reply = "none"]
        BY <1>1, <3>1 DEF Terminated
      <4>2. QED BY <1>2, <4>1, Booleans DEF Cert, CertSteps, Replies
    <3>2. CASE cert.step \in {"revoke", "gate"}
      <4>1. cert' = [cert EXCEPT !.step = "end", !.bad = TRUE]
        BY <1>1, <3>2 DEF Terminated
      <4>2. QED BY <1>2, <4>1, Booleans DEF Cert, CertSteps
    <3>3. CASE cert.step = "end"
      <4>1. cert' = [cert EXCEPT !.step = "done", !.bad = TRUE]
        BY <1>1, <3>3 DEF Terminated
      <4>2. QED BY <1>2, <4>1, Booleans DEF Cert, CertSteps
    <3>4. QED BY <1>2, <1>4, <3>1, <3>2, <3>3
  <2>2. ~cert'.wait /\ cert'.reply \in {cert.reply, "none"}
    <3>1. cert.step # "guest" => ~cert.wait
      BY <1>4 DEF CInv, WaitInv, Deployment
    <3>2. QED BY <1>1, <1>2, <1>4, <3>1 DEF Terminated, Cert
  <2>3. lease' \in {lease, "lost", "revoked"} /\ (lease = "revoked" => lease' = "revoked")
    BY <1>1 DEF Terminated, RevokeStops
  <2>4. sched' \in Sched /\ sched'.step = "child"
    BY <1>1, <1>2 DEF Sched
  <2>5. CertTypeOK'
    BY <1>2, <2>1, <2>2, <2>3, <2>4 DEF CInv, CertTypeOK
  <2>6. WaitInv' /\ AfterInv'
    BY <1>1, <1>2, <1>4, <2>1, <2>2 DEF CInv, WaitInv, AfterInv, OnPlan, Deployment
  <2>7. QED BY <1>1, <1>2, <1>4, <2>1, <2>3, <2>5, <2>6, CleanupKeeps DEF CInv, EarnedInv
<1>5. QED BY <1>3, <1>4

-----------------------------------------------------------------------------
(* The guest: it boots, its data is changed by its jobs only, and once the *)
(* deployment is closed it stays closed and takes no test credential.      *)
Ages ==
    /\ guest' \in Guest /\ guest'.cand # "edited"
    /\ Boot' >= Boot /\ \A i \in 1..Boot : guest'.boots[i] = guest.boots[i]
    /\ Deployment => /\ Deployment' /\ guest'.since = guest.since
                     /\ guest.key = "prior" => guest'.key = "prior"
    /\ guest'.data = guest.data \/ job.op \notin {"none", "cleanup-credential"}
    /\ guest'.data = "damaged" => guest.data = "damaged" \/ job.op = "damage"
    /\ BootInv'

(* What the certifier is told is so.                                       *)
Answers(v) ==
    /\ v \in Replies \ {"none"}
    /\ cert' = IF cert.wait THEN [cert EXCEPT !.wait = FALSE, !.reply = v] ELSE cert
    /\ job' = NoJob \/ (job' = job /\ v = "lost")
    /\ v = "closed" => Deployment'
    /\ v = "ok" => /\ job.op \notin Observations \cup {"deploy"}
                   /\ job.op = "restore-check" => guest'.data = "seeded"
                   /\ job.op = "cleanup-credential" => guest'.key = "prior"

(* Nothing is observed before the closure.                                 *)
LEMMA SeenClosed ==
    ASSUME CInv, OnPlan, NEW i \in 1..Len(cert.seen)
    PROVE  Deployment
<1>1. cert.at \in 1..27
  BY Going
<1>2. CASE cert.at \in 1..8
  <2>1. Now \notin Observations
    <3>1. Now \in Observations => cert.at \in {9, 12, 16, 20, 21, 23}
      BY <1>1, PlanIs DEF Now, Observations
    <3>2. QED BY <1>2, <3>1
  <2>2. Len(cert.seen) = Count(cert.at) /\ Count(cert.at) = 0
    BY <1>2, <2>1 DEF CInv, RunInv, Count
  <2>3. QED BY <2>2
<1>3. CASE cert.at \in 9..27
  BY <1>3 DEF CInv, RunInv
<1>4. QED BY <1>1, <1>2, <1>3

(* What the guest's steps cannot undo.                                     *)
LEMMA AgesKeeps ==
    ASSUME CInv, Ages, UNCHANGED <<journal, evidence, lease, sched>>,
           cert'.step = cert.step, cert'.seen = cert.seen, cert'.at = cert.at
    PROVE  /\ Deployment => Deployment'
           /\ SeenInv' /\ CloseInv' /\ BootInv' /\ EarnedInv' /\ GuestRunsFrozen'
<1>1. Deployment => Deployment'
  BY DEF Ages
<1>2. Boot \in Nat /\ Boot' \in Nat /\ guest.since \in 1..Boot
  BY DEF CInv, Ages, BootInv
<1>3. SeenInv'
  <2>1. SUFFICES ASSUME OnPlan', NEW i \in 1..Len(cert'.seen)
                 PROVE  /\ cert'.seen[i].boot \in guest'.since..Boot'
                        /\ guest'.boots[cert'.seen[i].boot] = cert'.seen[i].entry
                        /\ i <= 4 => cert'.seen[i].entry = IF i = 3 THEN "previous" ELSE "updated"
                        /\ \A k \in 1..i : cert'.seen[k].boot <= cert'.seen[i].boot
    BY DEF SeenInv
  <2>2. OnPlan /\ i \in 1..Len(cert.seen)
    BY <2>1 DEF OnPlan
  <2>3. Deployment
    BY <2>2, SeenClosed
  <2>4. /\ cert.seen[i].boot \in 1..Boot /\ guest.since <= cert.seen[i].boot
        /\ guest.boots[cert.seen[i].boot] = cert.seen[i].entry
        /\ i <= 4 => cert.seen[i].entry = IF i = 3 THEN "previous" ELSE "updated"
        /\ \A k \in 1..i : cert.seen[k].boot <= cert.seen[i].boot
    BY <2>2, Seen
  <2>5. guest'.since = guest.since
       /\ guest'.boots[cert.seen[i].boot] = guest.boots[cert.seen[i].boot] /\ Boot' >= Boot
    BY <2>3, <2>4 DEF Ages
  <2>6. cert.seen[i].boot \in guest'.since..Boot'
    BY <1>2, <2>4, <2>5
  <2>7. QED BY <2>4, <2>5, <2>6
<1>4. CloseInv'
  <2>1. AllEarned => AllEarned'
    BY <1>1 DEF Ages, AllEarned
  <2>2. QED BY <2>1 DEF CInv, CloseInv
<1>5. EarnedInv'
  <2>1. ASSUME NEW a, NEW b, NEW c, Booted(a, b, c)
        PROVE  Booted(a, b, c)'
    <3>1. PICK i, j, k \in 1..Boot : i < j /\ j < k /\ guest.boots[i] = a /\ guest.boots[j] = b
         /\ guest.boots[k] = c
      BY <2>1 DEF Booted
    <3>2. /\ i \in 1..Boot' /\ j \in 1..Boot' /\ k \in 1..Boot'
          /\ guest'.boots[i] = a /\ guest'.boots[j] = b /\ guest'.boots[k] = c
      BY <1>2, <3>1 DEF Ages
    <3>3. QED BY <3>1, <3>2 DEF Booted
  <2>2. "restore" \in evidence => guest'.data = guest.data
    BY DEF CInv, WaitInv, Ages, Deployment
  <2>3. QED BY <1>1, <2>1, <2>2 DEF CInv, EarnedInv
<1>6. QED BY <1>1, <1>3, <1>4, <1>5 DEF Ages, GuestRunsFrozen

(* A step of the guest that answers the certifier.                         *)
LEMMA GuestKeeps ==
    ASSUME CInv, Ages, NEW v, Answers(v), UNCHANGED <<cand, journal, state, evidence, lease, sched,
         owed>>,
           faults' \in 0..MaxFaults
    PROVE  CInv'
<1>1. cert \in Cert
  BY DEF CInv, CertTypeOK
<1>2. /\ cert' \in Cert /\ cert'.step = cert.step /\ cert'.at = cert.at /\ cert'.seen = cert.seen
      /\ cert'.attempted = cert.attempted /\ cert'.only = cert.only /\ cert'.failed = cert.failed
      /\ cert'.bad = cert.bad
      /\ \/ ~cert.wait /\ ~cert'.wait /\ cert'.reply = cert.reply
         \/ cert.wait /\ ~cert'.wait /\ cert'.reply = v
  BY <1>1, Answered DEF Answers
<1>3. job'.op = "none" \/ (job'.op = job.op /\ v = "lost")
  BY DEF Answers, NoJob
<1>4. Deployment => Deployment'
  BY DEF Ages
<1>5. CertTypeOK'
  BY <1>2, <1>3 DEF CInv, CertTypeOK, Ages
<1>6. ProcessInv'
  BY <1>2, <1>3 DEF CInv, ProcessInv, OnPlan
<1>7. WaitInv'
  <2>1. cert'.reply \notin {"none", "lost"} => job'.op = "none"
    BY <1>2, <1>3 DEF CInv, WaitInv, Deployment
  <2>2. OnPlan' => OnPlan /\ Now' = Now
    BY <1>2 DEF OnPlan, Now
  <2>3. job'.op = "damage" \/ guest'.data = "damaged" => Deployment'
    BY <1>3, <1>4 DEF CInv, WaitInv, Ages
  <2>4. QED BY <1>2, <1>3, <2>1, <2>2, <2>3 DEF CInv, WaitInv, Local
<1>8. RunInv'
  <2>1. SUFFICES ASSUME OnPlan, OnPlan' PROVE RunInv'
    BY <1>2 DEF RunInv, OnPlan
  <2>2. Now' = Now
    BY <1>2 DEF Now
  <2>3. CASE cert'.reply = cert.reply
    <3>1. cert.reply = "ok" => job.op = "none"
      BY DEF CInv, WaitInv, Deployment
    <3>2. Now = "restore-check" /\ cert.reply = "ok" => guest'.data = "seeded"
      BY <2>1, <3>1 DEF CInv, RunInv, Ages
    <3>3. QED BY <1>2, <1>4, <2>1, <2>2, <2>3, <3>2 DEF CInv, RunInv
  <2>4. CASE cert.wait /\ cert'.reply = v
    <3>1. job.op = Now /\ Now \notin Local /\ cert.reply = "none"
      BY <2>1, <2>4 DEF CInv, WaitInv, Deployment
    <3>2. QED BY <1>2, <1>4, <2>1, <2>2, <2>4, <3>1 DEF CInv, RunInv, Answers
  <2>5. QED BY <1>2, <2>3, <2>4
<1>9. AfterInv'
  <2>1. SUFFICES ASSUME cert.step \in {"guest", "revoke", "gate", "end", "done"},
       sched.step = "child", ~cert.failed
                 PROVE  /\ Deployment' /\ Gates \ {"credential_revocation"} \subseteq evidence
                        /\ cert.step = "guest" /\ cert'.reply = "ok" => guest'.key = "prior"
                        /\ cert.step # "guest" /\ ~cert.bad => guest'.key = "prior"
                        /\ cert.step \in {"end", "done"} /\ ~cert.bad => AllEarned'
    BY <1>2 DEF AfterInv
  <2>2. Deployment /\ (guest.key = "prior" => guest'.key = "prior") /\ Deployment'
    BY <2>1 DEF CInv, AfterInv, Ages
  <2>3. cert.step = "guest" /\ cert'.reply = "ok" => guest'.key = "prior"
    BY <1>2, <2>1, <2>2 DEF CInv, AfterInv, WaitInv, Answers, Deployment
  <2>4. QED BY <2>1, <2>2, <2>3 DEF CInv, AfterInv, AllEarned
<1>10. QED BY <1>2, <1>5, <1>6, <1>7, <1>8, <1>9, AgesKeeps DEF CInv

(* A job that leaves the boots and the deployment alone.                   *)
LEMMA SameBoots ==
    ASSUME CInv, guest' \in Guest, guest'.boots = guest.boots, guest'.since = guest.since,
         guest'.once = guest.once,
           guest'.phase = guest.phase, guest'.default = guest.default, guest'.cand # "edited",
           Deployment => (guest.key = "prior" => guest'.key = "prior"),
           guest'.data = guest.data \/ job.op \notin {"none", "cleanup-credential"},
           guest'.data = "damaged" => guest.data = "damaged" \/ job.op = "damage"
    PROVE  Ages
<1>1. Boot' = Boot /\ Boot \in Nat
  BY DEF Boot, CInv, BootInv
<1>2. BootInv'
  BY DEF CInv, BootInv, Deployment, Boot, Entry
<1>3. QED BY <1>1, <1>2 DEF Ages, Deployment

(* What the guest is.                                                      *)
LEMMA GuestTypes ==
    ASSUME CInv
    PROVE  /\ guest \in Guest /\ guest.cand \in {"none", "frozen"} /\ Boot \in Nat \ {0}
               /\ Boot = Len(guest.boots)
           /\ guest.boots \in Seq(Entries) /\ guest.since \in 1..Boot
               /\ faults \in 0..MaxFaults
BY DEF CInv, CertTypeOK, GuestRunsFrozen, BootInv, Guest, Boot

(* A job that only changes what has to do with the application.            *)
LEMMA SameBootsKeep ==
    ASSUME CInv, guest' \in Guest, guest'.boots = guest.boots, guest'.since = guest.since,
         guest'.once = guest.once,
           guest'.phase = guest.phase, guest'.default = guest.default, guest'.cand # "edited",
           Deployment => (guest.key = "prior" => guest'.key = "prior"),
           guest'.data = guest.data \/ job.op \notin {"none", "cleanup-credential"},
           guest'.data = "damaged" => guest.data = "damaged" \/ job.op = "damage",
           NEW v, Answers(v), UNCHANGED <<cand, journal, state, evidence, lease, sched, owed>>,
           faults' \in 0..MaxFaults
    PROVE  CInv'
BY SameBoots, GuestKeeps

(* Staging, the marker, the restore, the second deployment and the         *)
(* credential.                                                             *)
LEMMA GuestFilesKeep ==
    ASSUME CInv, GuestStage \/ GuestData \/ GuestRestore \/ GuestRerun \/ GuestCleanup,
           UNCHANGED <<cand, journal, state, evidence, lease, sched, owed, faults>>
    PROVE  CInv'
<1> USE GuestTypes
<1>1. CASE GuestStage
  <2>1. PICK v \in {"ok", "no"} :
          /\ Reply(v) /\ job.op = "stage"
          /\ guest' = [guest EXCEPT !.cand = IF v = "ok"
              /\ ~Staged THEN job.body ELSE guest.cand]
          /\ v = "ok" => job.body = "frozen"
    BY <1>1 DEF GuestStage, Serving
  <2>2. Answers(v)
    BY <2>1 DEF Reply, Answers, Replies, Observations
  <2>3. /\ guest' \in Guest /\ guest'.boots = guest.boots /\ guest'.since = guest.since
            /\ guest'.once = guest.once
        /\ guest'.phase = guest.phase /\ guest'.default = guest.default /\ guest'.cand # "edited"
        /\ guest'.key = guest.key /\ guest'.data = guest.data
    BY <2>1 DEF Guest
  <2>4. QED BY <2>2, <2>3, SameBootsKeep
<1>2. CASE GuestData
  <2>1. PICK v \in {"ok", "no"}, d \in {"plain", "seeded", "damaged"} :
          /\ Reply(v) /\ guest' = [guest EXCEPT !.data = d]
              /\ job.op \in {"seed", "damage", "restore-check"}
          /\ v = "ok" /\ job.op = "restore-check" => d = "seeded"
          /\ d = "damaged" => guest.data = "damaged" \/ job.op = "damage"
    <3>1. CASE Serving("restore-check") /\ UNCHANGED guest
         /\ Reply(IF guest.data = "seeded" THEN "ok" ELSE "no")
      <4>1. guest.data \in {"plain", "seeded", "damaged"} /\ guest = [guest EXCEPT !.data = guest.data]
        BY DEF Guest
      <4>2. QED BY <3>1, <4>1 DEF Serving
    <3>2. CASE Serving("seed") /\ guest' = [guest EXCEPT !.data = "seeded"] /\ Reply("ok")
      BY <3>2 DEF Serving
    <3>3. CASE Serving("damage") /\ guest' = [guest EXCEPT !.data = "damaged"] /\ Reply("ok")
      BY <3>3 DEF Serving
    <3>4. QED BY <1>2, <3>1, <3>2, <3>3 DEF GuestData
  <2>2. /\ guest' \in Guest /\ guest'.boots = guest.boots /\ guest'.since = guest.since
            /\ guest'.once = guest.once
        /\ guest'.phase = guest.phase /\ guest'.default = guest.default /\ guest'.cand = guest.cand
        /\ guest'.key = guest.key /\ guest'.data = d
    BY <2>1 DEF Guest
  <2>3. Answers(v)
    BY <2>1, <2>2 DEF Reply, Answers, Replies, Observations
  <2>4. QED BY <2>1, <2>2, <2>3, SameBootsKeep
<1>3. CASE GuestRestore
  <2>1. /\ Reply("ok") /\ guest' = [guest EXCEPT !.data = guest.saved] /\ job.op = "restore"
        /\ guest.saved \in {"plain", "seeded"}
    BY <1>3 DEF GuestRestore, Serving, Guest
  <2>2. /\ guest' \in Guest /\ guest'.boots = guest.boots /\ guest'.since = guest.since
            /\ guest'.once = guest.once
        /\ guest'.phase = guest.phase /\ guest'.default = guest.default /\ guest'.cand = guest.cand
        /\ guest'.key = guest.key
    BY <2>1 DEF Guest
  <2>3. Answers("ok")
    BY <2>1 DEF Reply, Answers, Replies, Observations
  <2>4. QED BY <2>1, <2>2, <2>3, SameBootsKeep
<1>4. CASE GuestRerun
  <2>1. PICK v \in {"ok", "no"} : Reply(v) /\ job.op = "rerun" /\ UNCHANGED guest
    BY <1>4 DEF GuestRerun, Serving
  <2>2. Answers(v)
    BY <2>1 DEF Reply, Answers, Replies, Observations
  <2>3. QED BY <2>1, <2>2, SameBootsKeep
<1>5. CASE GuestCleanup
  <2>1. /\ job.op = "cleanup-credential"
        /\ \/ Reply("ok") /\ guest' = [guest EXCEPT !.key = "prior"]
           \/ Reply("no") /\ UNCHANGED guest
    BY <1>5 DEF GuestCleanup, Serving
  <2>2. CASE Reply("ok") /\ guest' = [guest EXCEPT !.key = "prior"]
    <3>1. /\ guest' \in Guest /\ guest'.boots = guest.boots /\ guest'.since = guest.since
              /\ guest'.once = guest.once
          /\ guest'.phase = guest.phase /\ guest'.default = guest.default /\ guest'.cand = guest.cand
          /\ guest'.key = "prior" /\ guest'.data = guest.data
      BY <2>2 DEF Guest
    <3>2. Answers("ok")
      BY <2>1, <2>2, <3>1 DEF Reply, Answers, Replies, Observations
    <3>3. QED BY <3>1, <3>2, SameBootsKeep
  <2>3. CASE Reply("no") /\ UNCHANGED guest
    <3>1. Answers("no")
      BY <2>3 DEF Reply, Answers, Replies
    <3>2. QED BY <2>3, <3>1, SameBootsKeep
  <2>4. QED BY <2>1, <2>2, <2>3
<1>6. QED BY <1>1, <1>2, <1>3, <1>4, <1>5

(* A stage of the deployment is saved with the boot it was saved in.       *)
LEMMA Saves ==
    ASSUME CInv, NEW p \in Phases
    PROVE  LET g == Save(p) IN
           /\ g \in Guest /\ g.phase = p /\ g.since = Boot /\ g.boots = guest.boots
               /\ g.once = guest.once
           /\ g.default = guest.default /\ g.cand = guest.cand /\ g.key = guest.key
               /\ g.data = guest.data
BY GuestTypes DEF Save, Guest

(* The stages before the deployment.                                       *)
LEMMA GuestSnapshotKeeps ==
    ASSUME CInv, GuestSnapshot, UNCHANGED <<cand, journal, state, evidence, lease, sched, owed,
         faults>>
    PROVE  CInv'
<1>1. PICK p \in {"snapshot-ready", "backup-verified", "credential-ready"} :
        /\ Reply("ok") /\ guest.phase \notin Deploying /\ job.op \in {"snapshot", "backup",
            "credential"}
        /\ \/ guest.data # "damaged" /\ guest' = [Save(p) EXCEPT !.saved = guest.data]
           \/ guest' = Save(p)
           \/ guest' = [Save(p) EXCEPT !.key = "test"]
  <2>1. guest.phase = "new" => guest.data # "damaged"
    BY DEF CInv, WaitInv, Deployment
  <2>2. QED BY <2>1 DEF GuestSnapshot, Serving, Deploying
<1>2. p \in Phases /\ p \notin Deploying
  BY DEF Phases, Deploying
<1>3. /\ guest'.phase = p /\ guest'.since = Boot /\ guest'.boots = guest.boots
          /\ guest'.once = guest.once
      /\ guest'.default = guest.default /\ guest'.cand = guest.cand /\ guest'.data = guest.data
      /\ guest' \in Guest
  <2>1. guest.data \in {"plain", "seeded", "damaged"}
    BY GuestTypes DEF Guest
  <2>2. QED BY <1>1, <1>2, <2>1, Saves DEF Guest
<1>4. Ages
  <2>1. ~Deployment /\ ~Deployment' /\ guest.default # "updated" /\ guest.once = "none"
    BY <1>1, <1>2, <1>3 DEF CInv, BootInv, Deployment, Deploying
  <2>2. Boot' = Boot
    BY <1>3 DEF Boot
  <2>3. BootInv'
    BY <1>2, <1>3, <2>1, <2>2, GuestTypes DEF BootInv, Deploying
  <2>4. QED BY <1>3, <2>1, <2>2, <2>3, GuestTypes DEF Ages
<1>5. Answers("ok")
  BY <1>1 DEF Reply, Answers, Replies, Observations
<1>6. QED BY <1>4, <1>5, GuestTypes, GuestKeeps

(* Another entry is selected, after the closure only.                      *)
LEMMA GuestSelectKeeps ==
    ASSUME CInv, GuestSelect, UNCHANGED <<cand, journal, state, evidence, lease, sched, owed,
         faults>>
    PROVE  CInv'
<1>1. CASE UNCHANGED guest /\ Reply("no")
  <2>1. Answers("no")
    BY <1>1 DEF Reply, Answers, Replies
  <2>2. QED BY <1>1, <2>1, GuestTypes, SameBootsKeep
<1>2. CASE /\ Deployment /\ Reply("ok") /\ job.op \in {"select-previous", "select-updated"}
           /\ \E e \in Entries : guest' = [guest EXCEPT !.once = e]
  <2>1. /\ guest' \in Guest /\ guest'.boots = guest.boots /\ guest'.since = guest.since
        /\ guest'.phase = guest.phase /\ guest'.default = guest.default /\ guest'.cand = guest.cand
        /\ guest'.key = guest.key /\ guest'.data = guest.data
    BY <1>2, GuestTypes DEF Guest
  <2>2. BootInv'
    BY <1>2, <2>1 DEF CInv, BootInv, Deployment, Boot, Entry
  <2>3. Ages
    BY <2>1, <2>2, GuestTypes DEF Ages, Deployment, Boot
  <2>4. Answers("ok")
    BY <1>2 DEF Reply, Answers, Replies, Observations
  <2>5. QED BY <2>3, <2>4, GuestTypes, GuestKeeps
<1>3. QED BY <1>1, <1>2 DEF GuestSelect, Deployment, Entries

(* The deployment goes through its stages; a stage saved in the updated    *)
(* image stays saved in it.                                                *)
LEMMA GuestDeployKeeps ==
    ASSUME CInv, GuestDeploy, UNCHANGED <<cand, journal, state, evidence, lease, sched, owed>>
    PROVE  CInv'
<1>1. job.op = "deploy" /\ faults' \in 0..MaxFaults
  BY FaultType, GuestTypes DEF GuestDeploy, Serving
<1>2. ASSUME NEW v \in Replies \ {"none", "ok"}, Reply(v), v = "closed" => Deployment'
      PROVE  Answers(v)
  BY <1>2 DEF Reply, Answers
<1>3. CASE /\ UNCHANGED guest
           /\ \E v \in {"no", "reboot-pending", "persistence-reboot", "closed"} :
                Reply(v) /\ (v = "closed" => guest.phase = "closed")
  <2>1. PICK v \in {"no", "reboot-pending", "persistence-reboot", "closed"} :
                Reply(v) /\ (v = "closed" => guest.phase = "closed")
    BY <1>3
  <2>2. Answers(v)
    BY <1>2, <1>3, <2>1 DEF Replies, Deployment
  <2>3. QED BY <1>1, <1>3, <2>2, GuestTypes, SameBootsKeep
<1>4. CASE /\ guest.phase = "credential-ready" /\ Reply("reboot-pending")
           /\ guest' = [Save("reboot-pending") EXCEPT !.power = "rebooting"]
  <2>1. /\ guest' \in Guest /\ guest'.phase = "reboot-pending" /\ guest'.since = Boot
            /\ guest'.boots = guest.boots
        /\ guest'.once = guest.once /\ guest'.default = guest.default /\ guest'.cand = guest.cand
        /\ guest'.key = guest.key /\ guest'.data = guest.data
    <3>1. "reboot-pending" \in Phases
      BY DEF Phases
    <3>2. QED BY <1>4, <3>1, Saves DEF Guest
  <2>2. ~Deployment /\ ~Deployment' /\ guest.default # "updated" /\ guest.once = "none"
       /\ Boot' = Boot
    BY <1>4, <2>1 DEF CInv, BootInv, Deployment, Deploying, Boot
  <2>3. BootInv'
    BY <2>1, <2>2, GuestTypes DEF BootInv, Deploying
  <2>4. Ages
    BY <2>1, <2>2, <2>3, GuestTypes DEF Ages
  <2>5. Answers("reboot-pending")
    BY <1>2, <1>4 DEF Replies
  <2>6. QED BY <1>1, <2>4, <2>5, GuestKeeps
<1>5. CASE /\ guest.phase = "reboot-pending" /\ guest.default = "updated"
               /\ Reply("persistence-reboot")
           /\ guest' = [Save("persistence-reboot") EXCEPT !.power = "rebooting"]
  <2>1. /\ guest' \in Guest /\ guest'.phase = "persistence-reboot" /\ guest'.since = Boot
        /\ guest'.boots = guest.boots
        /\ guest'.once = guest.once /\ guest'.default = "updated" /\ guest'.cand = guest.cand
        /\ guest'.key = guest.key /\ guest'.data = guest.data
    <3>1. "persistence-reboot" \in Phases
      BY DEF Phases
    <3>2. QED BY <1>5, <3>1, Saves DEF Guest
  <2>2. /\ ~Deployment /\ ~Deployment' /\ guest.once = "none" /\ Boot' = Boot
        /\ Entry = "updated" /\ Entry' = "updated" /\ guest'.boots[guest'.since] = "updated"
    BY <1>5, <2>1 DEF CInv, BootInv, Deployment, Boot, Entry
  <2>3. BootInv'
    BY <2>1, <2>2, GuestTypes DEF BootInv, Deploying
  <2>4. Ages
    BY <2>1, <2>2, <2>3, GuestTypes DEF Ages
  <2>5. Answers("persistence-reboot")
    BY <1>2, <1>5 DEF Replies
  <2>6. QED BY <1>1, <2>4, <2>5, GuestKeeps
<1>6. CASE /\ guest.phase = "persistence-reboot" /\ Boot > guest.since /\ Reply("closed")
           /\ guest' = Save("closed")
  <2>1. /\ guest' \in Guest /\ guest'.phase = "closed" /\ guest'.since = Boot
            /\ guest'.boots = guest.boots
        /\ guest'.once = guest.once /\ guest'.default = guest.default /\ guest'.cand = guest.cand
        /\ guest'.key = guest.key /\ guest'.data = guest.data
    <3>1. "closed" \in Phases
      BY DEF Phases
    <3>2. QED BY <1>6, <3>1, Saves
  <2>2. /\ ~Deployment /\ Deployment' /\ Boot' = Boot /\ guest.default = "updated"
        /\ guest.boots[guest.since] = "updated" /\ guest'.boots[guest'.since] = "updated"
        /\ guest.since \in 1..(guest'.since - 1)
    BY <1>6, <2>1, GuestTypes DEF CInv, BootInv, Deployment, Boot, Entry
  <2>3. BootInv'
    BY <2>1, <2>2, GuestTypes DEF BootInv, Deploying
  <2>4. Ages
    BY <2>1, <2>2, <2>3, GuestTypes DEF Ages
  <2>5. Answers("closed")
    BY <1>2, <1>6, <2>2 DEF Replies
  <2>6. QED BY <1>1, <2>4, <2>5, GuestKeeps
<1>7. CASE /\ guest.phase \in {"reboot-pending", "persistence-reboot"} /\ Reply("no")
           /\ guest' = [Save("rolled-back") EXCEPT !.key = "prior"]
  <2>1. /\ guest' \in Guest /\ guest'.phase = "rolled-back" /\ guest'.since = Boot
            /\ guest'.boots = guest.boots
        /\ guest'.once = guest.once /\ guest'.default = guest.default /\ guest'.cand = guest.cand
        /\ guest'.data = guest.data
    <3>1. "rolled-back" \in Phases
      BY DEF Phases
    <3>2. QED BY <1>7, <3>1, Saves DEF Guest
  <2>2. ~Deployment /\ ~Deployment' /\ guest.once = "none" /\ Boot' = Boot
    BY <1>7, <2>1 DEF CInv, BootInv, Deployment, Boot
  <2>3. BootInv'
    BY <2>1, <2>2, GuestTypes DEF BootInv, Deploying
  <2>4. Ages
    BY <2>1, <2>2, <2>3, GuestTypes DEF Ages
  <2>5. Answers("no")
    BY <1>2, <1>7 DEF Replies
  <2>6. QED BY <1>1, <2>4, <2>5, GuestKeeps
<1>8. QED BY <1>3, <1>4, <1>5, <1>6, <1>7 DEF GuestDeploy

(* A job that fails, a reply that is lost, a guest that goes down.         *)
LEMMA MishapsKeep == ASSUME CInv, JobFails \/ ReplyLost \/ GuestReboots PROVE CInv'
<1>1. /\ UNCHANGED <<cand, journal, state, evidence, lease, sched, owed>> /\ faults' \in 0..MaxFaults
  BY FaultType, GuestTypes DEF JobFails, ReplyLost, GuestReboots, Goes, files,
       world
<1>2. \E v \in {"no", "lost"} : Answers(v)
  <2>1. CASE JobFails
    BY <2>1 DEF JobFails, Reply, Answers, Replies
  <2>2. CASE ReplyLost
    BY <2>2 DEF ReplyLost, Answers, Replies, world
  <2>3. CASE GuestReboots
    BY <2>3 DEF GuestReboots, Goes, Answers, Replies
  <2>4. QED BY <2>1, <2>2, <2>3
<1>3. /\ guest' \in Guest /\ guest'.boots = guest.boots /\ guest'.since = guest.since
          /\ guest'.once = guest.once
      /\ guest'.phase = guest.phase /\ guest'.default = guest.default /\ guest'.cand = guest.cand
      /\ guest'.key = guest.key /\ guest'.data = guest.data
  BY GuestTypes DEF JobFails, ReplyLost, GuestReboots, Goes, world, Guest
<1>4. QED BY <1>1, <1>2, <1>3, GuestTypes, SameBootsKeep

(* A power loss, which may leave the packages half staged.                 *)
LEMMA GuestLosesPowerKeeps == ASSUME CInv, GuestLosesPower PROVE CInv'
<1> DEFINE p == IF job.op = "deploy"
     /\ guest.phase = "credential-ready" THEN "package-staging" ELSE guest.phase
<1>1. /\ UNCHANGED <<cand, journal, state, evidence, lease, sched, owed>> /\ faults' \in 0..MaxFaults
      /\ guest' = [guest EXCEPT !.power = "booting", !.phase = p]
  BY FaultType DEF GuestLosesPower, Goes, files
<1>2. Answers("lost")
  BY DEF GuestLosesPower, Goes, Answers, Replies
<1>3. p \in Phases /\ (p = guest.phase \/ (guest.phase = "credential-ready"
     /\ p = "package-staging"))
  BY GuestTypes DEF Guest, Phases
<1> HIDE DEF p
<1>4. /\ guest' \in Guest /\ guest'.boots = guest.boots /\ guest'.since = guest.since
          /\ guest'.once = guest.once
      /\ guest'.phase = p /\ guest'.default = guest.default /\ guest'.cand = guest.cand
      /\ guest'.key = guest.key /\ guest'.data = guest.data
  BY <1>1, <1>3, GuestTypes DEF Guest
<1>5. CASE p = guest.phase
  BY <1>1, <1>2, <1>4, <1>5, GuestTypes, SameBootsKeep
<1>6. CASE guest.phase = "credential-ready" /\ p = "package-staging"
  <2>1. ~Deployment /\ ~Deployment' /\ guest.default # "updated" /\ guest.once = "none"
       /\ Boot' = Boot
    BY <1>4, <1>6 DEF CInv, BootInv, Deployment, Deploying, Boot
  <2>2. BootInv'
    BY <1>4, <1>6, <2>1, GuestTypes DEF BootInv, Deploying
  <2>3. Ages
    BY <1>4, <2>1, <2>2, GuestTypes DEF Ages
  <2>4. QED BY <1>1, <1>2, <2>3, GuestKeeps
<1>7. QED BY <1>3, <1>5, <1>6

(* A boot is of the entry that was selected, or of the default.            *)
LEMMA GuestBootsKeeps == ASSUME CInv, GuestBoots PROVE CInv'
<1>1. /\ UNCHANGED <<cand, journal, state, evidence, lease, sched, cert, job, owed>>
          /\ faults' \in 0..MaxFaults
  BY FaultType, GuestTypes DEF GuestBoots, files
<1>2. PICK e \in Entries :
        /\ guest'.boots = Append(guest.boots, e) /\ guest' \in Guest
        /\ guest'.since = guest.since /\ guest'.phase = guest.phase /\ guest'.cand = guest.cand
        /\ guest'.key = guest.key /\ guest'.data = guest.data
        /\ \/ /\ e = "updated" /\ guest'.default = "updated" /\ guest'.once = guest.once
              /\ guest.phase = "reboot-pending"
           \/ /\ e = IF guest.once # "none" THEN guest.once ELSE guest.default
              /\ guest'.default = guest.default /\ guest'.once = "none"
  <2>1. CASE /\ guest.phase = "reboot-pending"
             /\ guest' = [guest EXCEPT !.power = "on", !.default = "updated",
                 !.boots = Append(guest.boots, "updated")]
    <3>1. "updated" \in Entries /\ Append(guest.boots, "updated") \in Seq(Entries)
      BY GuestTypes DEF Entries
    <3>2. QED BY <2>1, <3>1, GuestTypes DEF Guest, Entries
  <2>2. CASE LET entry == IF guest.once # "none" THEN guest.once ELSE guest.default
             IN  guest' = [guest EXCEPT !.power = "on", !.once = "none",
                  !.boots = Append(guest.boots, entry)]
    <3>1. PICK e \in Entries : e = IF guest.once # "none" THEN guest.once ELSE guest.default
      BY GuestTypes DEF Guest
    <3>2. Append(guest.boots, e) \in Seq(Entries)
      BY <3>1, GuestTypes
    <3>3. guest' = [guest EXCEPT !.power = "on", !.once = "none", !.boots = Append(guest.boots, e)]
      BY <2>2, <3>1
    <3>4. QED BY <3>1, <3>2, <3>3, GuestTypes DEF Guest
  <2>3. QED BY <2>1, <2>2 DEF GuestBoots
<1>3. /\ Boot' = Boot + 1 /\ Entry' = e /\ guest'.boots[Boot + 1] = e
      /\ \A i \in 1..Boot : guest'.boots[i] = guest.boots[i]
  BY <1>2, GuestTypes DEF Boot, Entry
<1>4. Deployment' <=> Deployment
  BY <1>2 DEF Deployment
<1>5. BootInv'
  <2>1. /\ Boot' \in Nat \ {0} /\ guest'.since \in 1..Boot'
            /\ guest'.boots[guest'.since] = guest.boots[guest.since]
    BY <1>2, <1>3, GuestTypes
  <2>2. ~Deployment => guest.once = "none" /\ guest'.once = "none"
    BY <1>2 DEF CInv, BootInv
  <2>3. guest'.default = "updated" => guest.phase \in Deploying
    BY <1>2 DEF CInv, BootInv, Deploying
  <2>4. guest.phase = "reboot-pending" /\ guest'.default = "updated" => Boot' > guest'.since
       /\ Entry' = "updated"
    BY <1>2, <1>3, <2>2, GuestTypes DEF Deployment
  <2>5. guest.phase \in {"persistence-reboot", "closed"} =>
            guest'.default = "updated" /\ guest.boots[guest.since] = "updated"
    BY <1>2 DEF CInv, BootInv
  <2>6. guest.phase = "persistence-reboot" => Entry' = "updated"
    BY <1>2, <1>3, <2>2, <2>5 DEF Deployment
  <2>7. Deployment => \E i \in 1..(guest'.since - 1) : guest'.boots[i] = "updated"
    <3>1. SUFFICES ASSUME Deployment PROVE \E i \in 1..(guest.since - 1) : guest'.boots[i] = "updated"
      BY <1>2
    <3>2. PICK i \in 1..(guest.since - 1) : guest.boots[i] = "updated"
      BY <3>1 DEF CInv, BootInv
    <3>3. guest'.boots[i] = "updated"
      BY <1>3, <3>2, GuestTypes
    <3>4. QED BY <3>2, <3>3
  <2>8. QED BY <1>2, <1>4, <2>1, <2>2, <2>3, <2>4, <2>5, <2>6, <2>7 DEF BootInv
<1>6. Ages
  BY <1>2, <1>3, <1>4, <1>5, GuestTypes DEF Ages
<1>7. CertTypeOK' /\ ProcessInv' /\ WaitInv'
  BY <1>1, <1>2, <1>4 DEF CInv, CertTypeOK, ProcessInv, WaitInv, OnPlan, Now
<1>8. RunInv' /\ AfterInv'
  BY <1>1, <1>2, <1>4 DEF CInv, RunInv, AfterInv, AllEarned, OnPlan, Now
<1>9. QED BY <1>1, <1>6, <1>7, <1>8, AgesKeeps DEF CInv

(* An observation is of the running boot, which is of the wanted entry.    *)
LEMMA GuestObserveKeeps ==
    ASSUME CInv, GuestObserve, UNCHANGED <<cand, journal, state, evidence, lease, sched, owed,
         faults>>
    PROVE  CInv'
<1> DEFINE o == [boot |-> Boot, entry |-> Entry, key |-> guest.key]
           c == [cert EXCEPT !.wait = FALSE, !.reply = "ok", !.seen = Append(cert.seen, o)]
<1>1. CASE Reply("no")
  <2>1. Answers("no") /\ UNCHANGED guest
    BY <1>1 DEF GuestObserve, Reply, Answers, Replies
  <2>2. QED BY <2>1, GuestTypes, SameBootsKeep
<1>2. CASE cert.wait /\ Entry = Wanted(job.op) /\ job' = NoJob /\ cert' = c
  <2>1. job.op \in Observations /\ UNCHANGED guest /\ job'.op = "none"
    BY <1>2 DEF GuestObserve, NoJob
  <2>2. OnPlan /\ Now = job.op /\ cert.reply = "none"
    BY <1>2, <2>1 DEF CInv, WaitInv, Observations, OnPlan
  <2>3. cert.at \in {9, 12, 16, 20, 21, 23} /\ (Now = "observe-previous" <=> cert.at = 16)
    BY <2>1, <2>2, Going, PlanIs DEF Now, Observations
  <2>4. /\ Count(cert.at) \in 0..5 /\ (Count(cert.at) = 2 <=> cert.at = 16)
    BY <2>3 DEF Count
  <2>5. Len(cert.seen) = Count(cert.at) /\ Deployment
    <3>1. Len(cert.seen) = Count(cert.at) + 0
      BY <2>2 DEF CInv, RunInv
    <3>2. cert.at > 8
      BY <2>3
    <3>3. QED BY <2>2, <2>4, <3>1, <3>2 DEF CInv, RunInv
  <2>6. o \in Observation
    BY GuestTypes DEF Entry, Observation, Guest
  <2>7. /\ cert' \in Cert /\ cert'.step = "run" /\ cert'.at = cert.at /\ ~cert'.wait
            /\ cert'.reply = "ok"
        /\ cert'.seen = Append(cert.seen, o) /\ cert'.attempted = cert.attempted
        /\ cert'.only = cert.only /\ cert'.failed = cert.failed /\ cert'.bad = cert.bad
    <3>1. cert \in Cert /\ Append(cert.seen, o) \in Seq(Observation)
      BY <2>2, <2>6, Going DEF Cert
    <3>2. QED BY <1>2, <2>2, <3>1 DEF Cert, Replies, OnPlan
  <2> HIDE DEF c
  <2>8. cert.seen \in Seq(Observation)
    BY <2>2, Going DEF Cert
  <2>9. Len(cert'.seen) = Len(cert.seen) + 1
    BY <2>7, <2>8
  <2>10. CertTypeOK'
    BY <2>1, <2>2, <2>7, Going DEF CInv, CertTypeOK
  <2>11. ProcessInv' /\ WaitInv'
    BY <2>1, <2>2, <2>5, <2>7, Going DEF CInv, ProcessInv, WaitInv, OnPlan, Now, Local, Deployment
  <2>12. RunInv'
    <3>1. Now' = Now /\ Now \in Observations
      BY <2>1, <2>2, <2>7 DEF Now
    <3>2. Now # "deploy" /\ Now # "restore-check" /\ Now \notin Local
      BY <3>1 DEF Observations, Local
    <3>3. QED BY <2>1, <2>2, <2>4, <2>5, <2>7, <2>9, <3>1, <3>2 DEF CInv, RunInv, OnPlan, Deployment
  <2>13. SeenInv'
    <3>1. SUFFICES ASSUME NEW i \in 1..Len(cert'.seen)
                   PROVE  /\ cert'.seen[i].boot \in guest.since..Boot
                          /\ guest.boots[cert'.seen[i].boot] = cert'.seen[i].entry
                          /\ i <= 4 => cert'.seen[i].entry = IF i = 3 THEN "previous" ELSE "updated"
                          /\ \A k \in 1..i : cert'.seen[k].boot <= cert'.seen[i].boot
      BY <2>1 DEF SeenInv, Boot
    <3>2. \A k \in 1..Len(cert.seen) : cert'.seen[k] = cert.seen[k]
      BY <2>7, <2>8
    <3>3. cert'.seen[Len(cert.seen) + 1] = o
      BY <2>7, <2>8
    <3>4. Len(cert.seen) \in Nat
      BY <2>4, <2>5
    <3>5. CASE i \in 1..Len(cert.seen)
      <4>1. cert'.seen[i] = cert.seen[i] /\ \A k \in 1..i : cert'.seen[k] = cert.seen[k]
        BY <3>2, <3>4, <3>5
      <4>2. QED BY <2>2, <3>5, <4>1 DEF CInv, SeenInv
    <3>6. CASE i = Len(cert.seen) + 1
      <4>1. cert'.seen[i].boot = Boot /\ cert'.seen[i].entry = Entry
        BY <3>3, <3>6
      <4>2. Boot \in guest.since..Boot /\ guest.boots[Boot] = Entry
        BY GuestTypes DEF Entry
      <4>3. i <= 4 => Entry = IF i = 3 THEN "previous" ELSE "updated"
        <5>1. i = 3 <=> Now = "observe-previous"
          BY <2>3, <2>4, <2>5, <3>6
        <5>2. QED BY <1>2, <2>2, <5>1 DEF Wanted
      <4>4. \A k \in 1..i : cert'.seen[k].boot <= Boot
        <5>1. ASSUME NEW k \in 1..i PROVE cert'.seen[k].boot <= Boot
          <6>1. CASE k = i
            BY <4>1, <6>1, GuestTypes
          <6>2. CASE k # i
            <7>1. k \in 1..Len(cert.seen)
              BY <3>4, <3>6, <6>2
            <7>2. cert'.seen[k] = cert.seen[k] /\ cert.seen[k].boot \in 1..Boot
              BY <2>2, <3>2, <7>1, Seen
            <7>3. QED BY <7>2, GuestTypes
          <6>3. QED BY <6>1, <6>2
        <5>2. QED BY <5>1
      <4>5. QED BY <4>1, <4>2, <4>3, <4>4
    <3>7. QED BY <2>9, <3>1, <3>4, <3>5, <3>6
  <2>14. AfterInv' /\ CloseInv'
    BY <2>1, <2>2, <2>7, Going DEF CInv, AfterInv, CloseInv
  <2>15. BootInv' /\ EarnedInv' /\ GuestRunsFrozen'
    BY <2>1 DEF CInv, BootInv, EarnedInv, Booted, Deployment, Boot, Entry, GuestRunsFrozen
  <2>16. QED BY <2>10, <2>11, <2>12, <2>13, <2>14, <2>15 DEF CInv
<1>3. QED BY <1>1, <1>2 DEF GuestObserve

-----------------------------------------------------------------------------
(* The first state.                                                        *)
LEMMA CertInitKeeps == CertInit => CInv
<1> SUFFICES ASSUME CertInit PROVE CInv
  OBVIOUS
<1>1. cert = NoCert /\ sched = NoSched /\ job = NoJob /\ guest.boots = <<"previous">>
  BY DEF CertInit
<1>2. sched \in Sched /\ sched.step = "idle"
  BY <1>1, Booleans DEF NoSched, Sched
<1>3. guest \in Guest /\ guest.cand = "none" /\ guest.phase = "new" /\ guest.since = 1
     /\ guest.default = "previous"
      /\ guest.once = "none" /\ guest.data = "plain"
  <2>1. <<"previous">> \in Seq(Entries)
    BY DEF Entries
  <2>2. QED BY <2>1 DEF CertInit, Guest, Phases, Entries
<1>4. Boot = 1
  BY <1>1 DEF Boot
<1>5. CertTypeOK
  <2>1. state \in [stage: {"none", "open", "failed", "complete"}, lease: BOOLEAN]
    BY Booleans DEF CertInit
  <2>2. faults \in 0..MaxFaults /\ job.op = "none"
    BY <1>1 DEF CertInit, NoJob
  <2>3. owed \in BOOLEAN
    BY Zenon DEF CertInit
  <2>4. QED BY <1>1, <1>2, <1>3, <2>1, <2>2, <2>3, NoCertType DEF CertInit, CertTypeOK
<1>6. ProcessInv /\ WaitInv /\ RunInv /\ SeenInv /\ AfterInv /\ CloseInv
  BY <1>1, <1>2, <1>3, NoCertType
  DEF CertInit, ProcessInv, WaitInv, RunInv, SeenInv, AfterInv, CloseInv, OnPlan, NoJob, Local
<1>7. BootInv /\ EarnedInv /\ GuestRunsFrozen
  BY <1>3, <1>4 DEF CertInit, BootInv, EarnedInv, Deployment, Deploying, GuestRunsFrozen
<1>8. QED BY <1>5, <1>6, <1>7 DEF CInv

(* Every step.                                                             *)
LEMMA CertStepKeeps == ASSUME CInv, [CertNext]_certVars PROVE CInv'
<1>1. CASE Timer \/ Operator \/ Copy \/ Freeze \/ RecordPrepared
           \/ PreparationFails \/ Dispatch \/ Edit \/ PutBack
  BY <1>1, QuietStepsKeep
<1>2. CASE StopPost \/ OperatorCleanup \/ ReapChild
  BY <1>2, ReapKeeps DEF StopPost, OperatorCleanup
<1>3. CASE StartChild \/ ChildDone \/ Close \/ Stopped \/ ChildTerminated \/ ServiceStopped
           \/ ChildKilled \/ ServiceKilled \/ WorkstationLosesPower
  BY <1>3, StartChildKeeps, ChildDoneKeeps, CloseKeeps, StoppedKeeps, TerminatedKeeps, KillsKeep
<1>4. CASE Certifier
  BY <1>4, AskKeeps, UnreachableKeeps, RefusedKeeps, AcceptedKeeps, DeployedKeeps, ObservedKeeps,
       NameLeaseKeeps,
     IssueLeaseKeeps, PowerKeeps, ScanKeeps, AskCleanupKeeps, GuestCleanedKeeps, RevokeKeeps,
          RecordRevocationKeeps,
     FinishKeeps
  DEF Certifier
<1>5. CASE GuestJob
  <2>1. UNCHANGED <<cand, journal, state, evidence, lease, sched, owed>>
    BY <1>5 DEF GuestJob, files
  <2>2. CASE GuestDeploy
    BY <2>1, <2>2, GuestDeployKeeps
  <2>3. CASE /\ GuestStage \/ GuestData \/ GuestRestore \/ GuestSnapshot \/ GuestObserve \/ GuestRerun
                \/ GuestSelect \/ GuestCleanup
             /\ UNCHANGED faults
    BY <2>1, <2>3, GuestFilesKeep, GuestSnapshotKeeps, GuestObserveKeeps, GuestSelectKeeps
  <2>4. QED BY <1>5, <2>2, <2>3 DEF GuestJob
<1>6. CASE GuestReboots \/ GuestBoots \/ JobFails \/ ReplyLost \/ GuestLosesPower
  BY <1>6, MishapsKeep, GuestBootsKeeps, GuestLosesPowerKeeps
<1>7. CASE UNCHANGED certVars
  <2>1. UNCHANGED <<cand, journal, state, evidence, lease, sched, cert, guest, job, owed, faults>>
    BY <1>7 DEF certVars
  <2>2. CertTypeOK'
    BY <2>1 DEF CInv, CertTypeOK
  <2>3. QED BY <2>1, <2>2, QuietKeeps
<1>8. QED BY <1>1, <1>2, <1>3, <1>4, <1>5, <1>6, <1>7 DEF CertNext, Scheduler, Faults

(* The invariant holds always.                                             *)
LEMMA CertInductive == CertSpec => []CInv
<1>1. CInv /\ [CertNext]_certVars => CInv'
  BY CertStepKeeps
<1>2. QED BY CertInitKeeps, <1>1, PTL DEF CertSpec

(* A journal that says complete has every gate behind it, a revoked lease  *)
(* and a guest with its own credential, and the guest never runs anything  *)
(* but the frozen candidate (schedule.py execute, certify.py cleanup,      *)
(* certify_guest.py receive).                                              *)
THEOREM CertSafe == CertSpec => []CertInv
<1>1. CInv => CertInv
  BY DEF CInv, CertInv, CompleteMeansCertified, CloseInv, AllEarned
<1>2. QED BY <1>1, CertInductive, PTL

(* Every gate record is true of the guest: its boots, in their order, its  *)
(* data, and the lease that was revoked (certify.py Certifier.execute and  *)
(* cleanup).                                                               *)
THEOREM CertEarned == CertSpec => []EvidenceIsEarned
<1> DEFINE Ran(entries) == \E f \in [DOMAIN entries -> DOMAIN guest.boots] :
                              /\ \A i, k \in DOMAIN entries : i < k => f[i] < f[k]
                              /\ \A i \in DOMAIN entries : guest.boots[f[i]] = entries[i]
<1>1. ASSUME CInv, NEW a, NEW b, NEW c, Booted(a, b, c)
      PROVE  Ran(<<a, b, c>>)
  <2>1. PICK i, j, k \in 1..Boot : i < j /\ j < k /\ guest.boots[i] = a /\ guest.boots[j] = b
       /\ guest.boots[k] = c
    BY <1>1 DEF Booted
  <2>2. DOMAIN guest.boots = 1..Boot /\ DOMAIN <<a, b, c>> = {1, 2, 3}
    <3>1. DOMAIN <<a, b, c>> = 1..3 /\ 1..3 = {1, 2, 3}
      OBVIOUS
    <3>2. QED BY <1>1, <3>1, GuestTypes
  <2> DEFINE f == [n \in {1, 2, 3} |-> IF n = 1 THEN i ELSE IF n = 2 THEN j ELSE k]
  <2>3. f \in [DOMAIN <<a, b, c>> -> DOMAIN guest.boots] /\ f[1] = i /\ f[2] = j /\ f[3] = k
    BY <2>2
  <2> HIDE DEF f
  <2>4. \A m, n \in {1, 2, 3} : m < n => f[m] < f[n]
    BY <1>1, <2>1, <2>3, GuestTypes
  <2>5. \A m \in {1, 2, 3} : guest.boots[f[m]] = <<a, b, c>>[m]
    BY <2>1, <2>3
  <2>6. QED BY <2>2, <2>3, <2>4, <2>5
<1>2. CInv => EvidenceIsEarned
  <2> HIDE DEF Ran
  <2>1. ASSUME CInv
        PROVE  /\ "boot" \in evidence => Ran(<<"updated", "updated", "updated">>)
               /\ "previous_boot" \in evidence => Ran(<<"updated", "previous", "updated">>)
               /\ "restore" \in evidence => guest.data = "seeded" /\ guest.phase = "closed"
               /\ "credential_revocation" \in evidence => lease = "revoked"
    BY <1>1, <2>1 DEF CInv, EarnedInv, Deployment
  <2>2. QED BY <2>1 DEF EvidenceIsEarned, Ran
<1>3. QED BY <1>2, CertInductive, PTL
=============================================================================
