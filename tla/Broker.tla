------------------------------- MODULE Broker -------------------------------
(***************************************************************************)
(* The fixed-project credential broker, scripts/hermes/unattended/         *)
(* credentials.py, together with the provider it administers.              *)
(*                                                                         *)
(* One request at a time is handled (UnixStreamServer is not threaded and  *)
(* broker.lock is held), but the broker may die between any two of its     *)
(* durable writes and provider calls, and a provider call may be lost on   *)
(* the way out or on the way back.  Each durable write and each provider   *)
(* call is one action; `work` is what the running handler holds in memory. *)
(*                                                                         *)
(* An API key is identified with the service account it belongs to.        *)
(* The operation "check" changes no state and is left out; a request that  *)
(* a require() refuses before the lock changes nothing either.             *)
(***************************************************************************)
EXTENDS Naturals, FiniteSets

CONSTANTS
    Leases,         \* the 128-bit lease names clients may send
    Accounts,       \* service account identifiers the provider may assign
    Roles,          \* enabled roles; each has one project and one peer uid
    NoRole, NoAccount

ASSUME BrokerAssumption ==
    /\ NoRole \notin Roles
    /\ NoAccount \notin Accounts

VARIABLES
    rec,        \* <lease>.json: the durable record
    cred,       \* <lease>.cred: the account whose key is stored, or NoAccount
    work,       \* the request being handled
    account,    \* provider: state of each service account
    owner,      \* provider: the lease in the account's name "hermes-<lease>"
    project,    \* provider: the project the account was created in
    accepted,   \* provider: accounts whose key still authenticates
    granted,    \* <<uid, account>>: keys that were sent to a peer
    confirmed   \* leases whose revocation was reported to a peer

brokerVars   == <<rec, cred, work>>
providerVars == <<account, owner, project, accepted>>
replyVars    == <<granted, confirmed>>
vars == <<rec, cred, work, account, owner, project, accepted, granted, confirmed>>

States == {"none", "issuing", "ready", "deleted", "revoked"}
Steps  == {"idle", "begin", "post", "saveAccount", "saveSecret", "saveReady",
           "delete", "saveDeleted", "probe", "saveRevoked", "unlink",
           "replyKey", "replyRevoked"}
Operations == {"issue", "read", "revoke"}

NoRecord == [state |-> "none", role |-> NoRole, account |-> NoAccount]

TypeOK ==
    /\ rec \in [Leases -> [state: States, role: Roles \cup {NoRole},
                           account: Accounts \cup {NoAccount}]]
    /\ cred \in [Leases -> Accounts \cup {NoAccount}]
    /\ work \in [step: Steps, op: Operations, uid: Roles, lease: Leases,
                 key: Accounts \cup {NoAccount}]
    /\ account \in [Accounts -> {"unused", "live", "deleted"}]
    /\ owner \in [Accounts -> Leases]
    /\ project \in [Accounts -> Roles]
    /\ accepted \subseteq Accounts
    /\ granted \subseteq Roles \X Accounts
    /\ confirmed \subseteq Leases

(* `owner` and `project` say nothing of an account that is still unused.   *)
Init ==
    /\ rec = [l \in Leases |-> NoRecord]
    /\ cred = [l \in Leases |-> NoAccount]
    /\ work \in [step: {"idle"}, op: Operations, uid: Roles, lease: Leases,
                 key: {NoAccount}]
    /\ account = [a \in Accounts |-> "unused"]
    /\ owner \in [Accounts -> Leases]
    /\ project \in [Accounts -> Roles]
    /\ accepted = {}
    /\ granted = {}
    /\ confirmed = {}

-----------------------------------------------------------------------------
(* The request in progress.                                                *)

l0 == work.lease
r0 == rec[l0]

At(step)   == work.step = step
Goto(step) == work' = [work EXCEPT !.step = step]

(* An exception ends the request with "credential-operation-failed"; the   *)
(* next request starts with nothing in memory.  A crash looks the same     *)
(* from the durable state.                                                 *)
Abandon == /\ work' = [work EXCEPT !.step = "idle", !.key = NoAccount]
           /\ UNCHANGED <<rec, cred>>

(* The role in the message must be that of the connecting uid, so one      *)
(* value stands for both.                                                  *)
Receive(uid, op, l) ==
    /\ At("idle")
    /\ work' = [step |-> "begin", op |-> op, uid |-> uid, lease |-> l, key |-> NoAccount]
    /\ UNCHANGED <<rec, cred, providerVars, replyVars>>

(* self.secret(lease): decrypting fails when the file is missing.          *)
SecretReadable == cred[l0] # NoAccount

(* Mutant of Admitted: only a ready lease can be revoked.                  *)
AdmittedReadyOnly ==
    /\ r0.state # "none" => r0.role = work.uid
    /\ work.op = "issue"  => r0.state = "none" \/ (r0.state = "ready" /\ SecretReadable)
    /\ work.op = "read"   => r0.state = "ready" /\ SecretReadable
    /\ work.op = "revoke" => r0.state \in {"ready", "deleted", "revoked"}

(* Mutant of Admitted: the record's role is not compared with the peer's.  *)
AdmittedAnyRole ==
    /\ work.op = "issue"  => r0.state = "none" \/ (r0.state = "ready" /\ SecretReadable)
    /\ work.op = "read"   => r0.state = "ready" /\ SecretReadable
    /\ work.op = "revoke" => r0.state = "revoked" \/ (r0.account # NoAccount /\ SecretReadable)

(* The require()s between taking the lock and the first effect.            *)
Admitted ==
    /\ r0.state # "none" => r0.role = work.uid
    /\ work.op = "issue"  => r0.state = "none" \/ (r0.state = "ready" /\ SecretReadable)
    /\ work.op = "read"   => r0.state = "ready" /\ SecretReadable
    /\ work.op = "revoke" => \/ r0.state = "revoked"
                             \/ /\ r0.state # "none"
                                /\ r0.account # NoAccount
                                /\ SecretReadable

Refuse ==
    /\ At("begin")
    /\ ~Admitted
    /\ Abandon
    /\ UNCHANGED <<providerVars, replyVars>>

(* A ready lease gives its stored key to "issue" and to "read".            *)
ReturnStored ==
    /\ At("begin")
    /\ Admitted
    /\ work.op \in {"issue", "read"}
    /\ r0.state = "ready"
    /\ work' = [work EXCEPT !.step = "replyKey", !.key = cred[l0]]
    /\ UNCHANGED <<rec, cred, providerVars, replyVars>>

-----------------------------------------------------------------------------
(* issue                                                                   *)

(* Mutants of IssueBegin: an unfinished issue is tried again, and the      *)
(* record is only written after the call.                                  *)
IssueRetriesBlindly ==
    /\ At("begin")
    /\ work.op = "issue"
    /\ r0.state \in {"none", "issuing"}
    /\ rec' = [rec EXCEPT ![l0] = [state |-> "issuing", role |-> work.uid,
                                   account |-> NoAccount]]
    /\ Goto("post")
    /\ UNCHANGED <<cred, providerVars, replyVars>>

IssueRecordsLate ==
    /\ At("begin")
    /\ Admitted
    /\ work.op = "issue"
    /\ r0.state = "none"
    /\ Goto("post")
    /\ UNCHANGED <<rec, cred, providerVars, replyVars>>

(* The record is written before the network mutation.                      *)
IssueBegin ==
    /\ At("begin")
    /\ Admitted
    /\ work.op = "issue"
    /\ r0.state = "none"
    /\ rec' = [rec EXCEPT ![l0] = [state |-> "issuing", role |-> work.uid,
                                   account |-> NoAccount]]
    /\ Goto("post")
    /\ UNCHANGED <<cred, providerVars, replyVars>>

Created(a) ==
    /\ account[a] = "unused"
    /\ account' = [account EXCEPT ![a] = "live"]
    /\ owner' = [owner EXCEPT ![a] = l0]
    /\ project' = [project EXCEPT ![a] = work.uid]
    /\ accepted' = accepted \cup {a}

Post(a) ==
    /\ At("post")
    /\ Created(a)
    /\ work' = [work EXCEPT !.step = "saveAccount", !.key = a]
    /\ UNCHANGED <<rec, cred, replyVars>>

(* The account was created, but its answer was lost or carried no usable   *)
(* identifier.                                                             *)
PostAnswerLost(a) ==
    /\ At("post")
    /\ Created(a)
    /\ Abandon
    /\ UNCHANGED replyVars

(* A provider call that never had an effect: timeout, reset, non-2xx.      *)
CallFails ==
    /\ work.step \in {"post", "delete", "probe"}
    /\ Abandon
    /\ UNCHANGED <<providerVars, replyVars>>

SaveAccount ==
    /\ At("saveAccount")
    /\ rec' = [rec EXCEPT ![l0].account = work.key]
    /\ Goto("saveSecret")
    /\ UNCHANGED <<cred, providerVars, replyVars>>

SaveSecret ==
    /\ At("saveSecret")
    /\ cred' = [cred EXCEPT ![l0] = work.key]
    /\ Goto("saveReady")
    /\ UNCHANGED <<rec, providerVars, replyVars>>

(* The answer held no key, or systemd-creds encrypt failed.                *)
SaveSecretFails ==
    /\ At("saveSecret")
    /\ Abandon
    /\ UNCHANGED <<providerVars, replyVars>>

SaveReady ==
    /\ At("saveReady")
    /\ rec' = [rec EXCEPT ![l0].state = "ready"]
    /\ Goto("replyKey")
    /\ UNCHANGED <<cred, providerVars, replyVars>>

ReplyKey ==
    /\ At("replyKey")
    /\ granted' = granted \cup {<<work.uid, work.key>>}
    /\ Abandon
    /\ UNCHANGED <<providerVars, confirmed>>

-----------------------------------------------------------------------------
(* revoke                                                                  *)

RevokeBegin ==
    /\ At("begin")
    /\ Admitted
    /\ work.op = "revoke"
    /\ work' = [work EXCEPT !.step = CASE r0.state = "revoked" -> "replyRevoked"
                                       [] r0.state = "deleted" -> "probe"
                                       [] OTHER -> "delete",
                            !.key  = IF r0.state = "revoked" THEN NoAccount ELSE cred[l0]]
    /\ UNCHANGED <<rec, cred, providerVars, replyVars>>

(* Deleting an account stops its key only after some time (KeyRejected).   *)
DeleteApplied ==
    /\ At("delete")
    /\ account[r0.account] = "live"
    /\ account' = [account EXCEPT ![r0.account] = "deleted"]
    /\ UNCHANGED <<owner, project, accepted>>

Delete ==
    /\ DeleteApplied
    /\ Goto("saveDeleted")
    /\ UNCHANGED <<rec, cred, replyVars>>

DeleteAnswerLost ==
    /\ DeleteApplied
    /\ Abandon
    /\ UNCHANGED replyVars

SaveDeleted ==
    /\ At("saveDeleted")
    /\ rec' = [rec EXCEPT ![l0].state = "deleted"]
    /\ Goto("probe")
    /\ UNCHANGED <<cred, providerVars, replyVars>>

(* Mutant of ProbeRejected: any answer of the probe counts as rejection.   *)
ProbeUnchecked ==
    /\ At("probe")
    /\ Goto("saveRevoked")
    /\ UNCHANGED <<rec, cred, providerVars, replyVars>>

(* Only a 401 answer counts; while the key still works the call succeeds   *)
(* and the request fails (CallFails).                                      *)
ProbeRejected ==
    /\ At("probe")
    /\ work.key \notin accepted
    /\ Goto("saveRevoked")
    /\ UNCHANGED <<rec, cred, providerVars, replyVars>>

SaveRevoked ==
    /\ At("saveRevoked")
    /\ rec' = [rec EXCEPT ![l0].state = "revoked"]
    /\ Goto("unlink")
    /\ UNCHANGED <<cred, providerVars, replyVars>>

UnlinkSecret ==
    /\ At("unlink")
    /\ cred' = [cred EXCEPT ![l0] = NoAccount]
    /\ Goto("replyRevoked")
    /\ UNCHANGED <<rec, providerVars, replyVars>>

ReplyRevoked ==
    /\ At("replyRevoked")
    /\ confirmed' = confirmed \cup {l0}
    /\ Abandon
    /\ UNCHANGED <<providerVars, granted>>

-----------------------------------------------------------------------------
(* The environment.                                                        *)

KeyRejected(a) ==
    /\ account[a] = "deleted"
    /\ a \in accepted
    /\ accepted' = accepted \ {a}
    /\ UNCHANGED <<brokerVars, account, owner, project, replyVars>>

(* The broker dies (or the answer cannot be written): only files survive.  *)
Crash ==
    /\ ~At("idle")
    /\ Abandon
    /\ UNCHANGED <<providerVars, replyVars>>

HandlerStep ==
    \/ Refuse \/ ReturnStored
    \/ IssueBegin \/ SaveAccount \/ SaveSecret \/ SaveSecretFails \/ SaveReady \/ ReplyKey
    \/ RevokeBegin \/ Delete \/ DeleteAnswerLost \/ SaveDeleted \/ ProbeRejected
    \/ SaveRevoked \/ UnlinkSecret \/ ReplyRevoked
    \/ CallFails

Next ==
    \/ \E uid \in Roles, op \in Operations, l \in Leases: Receive(uid, op, l)
    \/ HandlerStep
    \/ \E a \in Accounts: Post(a) \/ PostAnswerLost(a) \/ KeyRejected(a)
    \/ Crash

Spec == Init /\ [][Next]_vars

-----------------------------------------------------------------------------
(* Properties.                                                             *)

(* "An uncertain response never triggers blind reissuance": however often  *)
(* a lease is requested, and wherever the broker dies or an answer is      *)
(* lost, the provider holds at most one account named after it.            *)
OneAccountPerLease ==
    \A a, b \in Accounts:
        /\ account[a] # "unused"
        /\ account[b] # "unused"
        /\ owner[a] = owner[b]
        => a = b

(* Whatever the provider still honours is named by a record the broker has *)
(* not closed: no account lives on behind a lease marked deleted, revoked  *)
(* or never recorded.                                                      *)
LiveAccountsAreRecorded ==
    \A a \in Accounts:
        account[a] = "live" => rec[owner[a]].state \in {"issuing", "ready"}

(* A lease that is recorded as revoked, or whose revocation a peer was     *)
(* told of, has no account whose key the provider still accepts.           *)
RevokedKeysAreRejected ==
    \A a \in Accounts:
        account[a] # "unused" /\ (rec[owner[a]].state = "revoked" \/ owner[a] \in confirmed)
        => a \notin accepted

(* Role separation: a peer only ever holds keys of accounts in the project *)
(* of its own role, also when two roles name the same lease.               *)
KeysStayInProject ==
    \A g \in granted: project[g[2]] = g[1]

(* A durable record only moves forward, and neither the role nor the       *)
(* account identifier it names is ever replaced, by retries after crashes  *)
(* included.                                                               *)
Rank(s) == CASE s = "none" -> 0 [] s = "issuing" -> 1 [] s = "ready" -> 2
             [] s = "deleted" -> 3 [] s = "revoked" -> 4
RecordsOnlyAdvance ==
    [][\A l \in Leases:
        /\ Rank(rec'[l].state) >= Rank(rec[l].state)
        /\ rec[l].role # NoRole => rec'[l].role = rec[l].role
        /\ rec[l].account # NoAccount => rec'[l].account = rec[l].account]_rec

-----------------------------------------------------------------------------
(* The inductive invariant behind the properties above.                    *)

(* What the running handler knows at each of its steps.                    *)
WorkInv ==
    /\ At("post") =>
        /\ r0.state = "issuing" /\ r0.role = work.uid /\ r0.account = NoAccount
        /\ \A a \in Accounts: account[a] # "unused" => owner[a] # l0
    /\ At("saveAccount") =>
        /\ r0.state = "issuing" /\ r0.role = work.uid /\ r0.account = NoAccount
        /\ work.key \in Accounts /\ account[work.key] = "live" /\ owner[work.key] = l0
    /\ work.step \in {"saveSecret", "saveReady"} =>
        /\ r0.state = "issuing" /\ r0.role = work.uid
        /\ work.key \in Accounts /\ work.key = r0.account
    /\ At("replyKey") =>
        r0.role = work.uid /\ work.key \in Accounts /\ work.key = r0.account
    /\ At("delete") =>
        /\ r0.state \in {"issuing", "ready"}
        /\ work.key \in Accounts /\ work.key = r0.account
    /\ At("saveDeleted") =>
        /\ r0.state \in {"issuing", "ready"}
        /\ work.key \in Accounts /\ work.key = r0.account /\ account[work.key] = "deleted"
    /\ work.step \in {"probe", "saveRevoked"} =>
        /\ r0.state = "deleted"
        /\ work.key \in Accounts /\ work.key = r0.account
    /\ At("saveRevoked") => work.key \notin accepted
    /\ work.step \in {"unlink", "replyRevoked"} => r0.state = "revoked"

(* How the files describe the provider's accounts.                         *)
RecordInv ==
    \A l \in Leases:
        /\ rec[l].state = "none" => rec[l].account = NoAccount /\ rec[l].role = NoRole
        /\ rec[l].account # NoAccount =>
            account[rec[l].account] # "unused" /\ owner[rec[l].account] = l
        /\ cred[l] # NoAccount => cred[l] = rec[l].account
        /\ rec[l].state \in {"deleted", "revoked"} =>
            rec[l].account # NoAccount /\ account[rec[l].account] = "deleted"
        /\ rec[l].state = "revoked" => rec[l].account \notin accepted
        /\ l \in confirmed => rec[l].state = "revoked"

ProviderInv ==
    \A a \in Accounts:
        /\ account[a] # "unused" =>
            /\ rec[owner[a]].state # "none"
            /\ project[a] = rec[owner[a]].role
        /\ a \in accepted => account[a] # "unused"

GrantInv ==
    \A g \in granted: account[g[2]] # "unused" /\ project[g[2]] = g[1]

IInv == /\ TypeOK
        /\ OneAccountPerLease
        /\ WorkInv
        /\ RecordInv
        /\ ProviderInv
        /\ LiveAccountsAreRecorded
        /\ GrantInv

-----------------------------------------------------------------------------
(* Fairness for the clean-up question: a request that is being handled is  *)
(* carried on, the peer of every role keeps asking for the revocation of   *)
(* every lease (the programs that hold one do so until it is confirmed),   *)
(* and neither a crash nor a lost call meets every one of these attempts   *)
(* before the account is deleted.                                          *)
PersistentCleanup ==
    /\ WF_vars(HandlerStep)
    /\ \A l \in Leases :
        /\ \A uid \in Roles : SF_vars(Receive(uid, "revoke", l))
        /\ SF_vars(RevokeBegin /\ l0 = l) /\ SF_vars(Delete /\ l0 = l)

FairSpec == Spec /\ PersistentCleanup

(* An account whose key was stored is removed from the provider in the     *)
(* end, whatever was lost, repeated or cut off before, as long as peers    *)
(* repeat revoke.  (Without the stored key it is not: revoke decrypts it   *)
(* first, credentials.py:111.)                                             *)
StoredAccountsAreCleanedUp ==
    \A l \in Leases, a \in Accounts :
        (rec[l].account = a /\ cred[l] = a) ~> account[a] # "live"
=============================================================================
