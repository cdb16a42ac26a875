------------------------------ MODULE Lifecycle ------------------------------
(***************************************************************************)
(* The disposable certification lifecycle                                  *)
(* (scripts/hermes/unattended/lifecycle.py), its fixture driver            *)
(* (lifecycle_fixture.py) and the certifier it dispatches (schedule.py and *)
(* certify.py): once per maintenance date a fresh virtual machine is       *)
(* provisioned, a candidate is certified in it with a temporary provider   *)
(* credential, and everything is destroyed again.                          *)
(*                                                                         *)
(* The journal of every run, the pointer to the active one and the fixture *)
(* (the pool directory, the libvirt domain with its NVRAM and TPM, the     *)
(* run's private keys, the certifier's inputs, the credential lease) are   *)
(* separate pieces of state, written in separate steps.  The process can   *)
(* fail (an exception, which a SIGTERM is too), be killed, or lose power   *)
(* between any two of them; after all but a power loss systemd runs the    *)
(* entrypoint again with --cleanup-only (ExecStopPost).                    *)
(*                                                                         *)
(* What the guest's programs compute, and whether the window is open on a  *)
(* given clock, is left to the environment.  The lock makes a second       *)
(* invocation fail without effect, so there is one process at a time.      *)
(***************************************************************************)
EXTENDS Naturals, FiniteSets

CONSTANTS
    Runs,       \* run identifiers
    Grants,     \* those named by a lab window grant; the others are random tokens
    NoRun,
    MaxDay,     \* maintenance dates
    MaxFaults   \* failures, kills and power losses, together

ASSUME LifecycleAssumption ==
    /\ Grants \subseteq Runs
    /\ NoRun \notin Runs
    /\ MaxDay \in Nat \ {0}
    /\ MaxFaults \in Nat

VARIABLES
    journal,    \* lifecycle.json of every run directory
    active,     \* active.json
    proc,       \* the process that holds .lifecycle.lock
    owed,       \* systemd has yet to run ExecStopPost
    day,        \* the current maintenance date
    open,       \* maintenance_open()
    valid,      \* lab grants that have not expired
    pool,       \* the dedicated storage directory
    domain,     \* the libvirt domain, with its NVRAM, TPM state and disk
    private,    \* runs that have their directory of private keys
    inputs,     \* runs that have the certifier's keys and backup
    lease,      \* the certifier's record of its lease, and the broker's
    faults

clock == <<day, open, valid>>
fixture == <<pool, domain, private, inputs, lease>>
vars == <<journal, active, proc, owed, day, open, valid, pool, domain, private, inputs, lease, faults>>

Terminal == {"complete", "failed-cleaned", "deferred-cleaned"}
Stages == Terminal \cup {"none", "dir", "starting", "provisioning", "enrolled", "certifying", "cleaning",
                         "cleanup-failed"}
Checkpoints == {"pool_owned", "guest_ready", "scheduler_ready", "credentials_cleaned", "guest_purged",
                "certifier_secrets_purged", "domain_destroyed", "storage_purge_started", "vm_destroyed"}
(* The lease: not named by the certifier; named in its state file; being   *)
(* issued by the broker; left without a usable account; usable; lost, its  *)
(* account deleted by a request whose answer the broker never got, and     *)
(* which the provider refuses to repeat; revoked.                          *)
LeaseStates == {"none", "named", "issuing", "stuck", "live", "lost", "revoked"}

Journal == [stage: Stages, slot: 0..MaxDay, certified: BOOLEAN, failure: BOOLEAN, done: SUBSET Checkpoints]
Blank == [stage |-> "none", slot |-> 0, certified |-> FALSE, failure |-> FALSE, done |-> {}]

ProvisionSteps == {"preflight", "pool", "mark", "own", "install", "offline", "boot", "ready", "manager", "managerOff",
                   "bootstrap", "store", "copy", "replay", "export", "download", "aside", "restore", "observe", "inputs",
                   "scheduler", "approve", "enroll", "enrolled", "window", "certify"}
ChildSteps == {"issue", "post", "accept", "coldOff"}
RunSteps == ProvisionSteps \cup ChildSteps \cup {"record", "name", "retire", "recheck", "evidence", "certified", "cleaning"}
CleanSteps == {"credentials", "resume", "guestPurge", "secrets", "destroy", "gone", "storage", "unlink",
               "rmdir", "purged", "private", "close"}

(* `bad` is the certifier's failure, `deferred` the lifecycle's local.      *)
Process == [step: RunSteps \cup CleanSteps \cup {"idle"}, run: Runs \cup {NoRun}, slot: 0..MaxDay,
            cleanup: BOOLEAN, deferred: BOOLEAN, bad: BOOLEAN]
Idle == [step |-> "idle", run |-> NoRun, slot |-> 0, cleanup |-> FALSE, deferred |-> FALSE, bad |-> FALSE]
NoPool == [owner |-> NoRun, marked |-> FALSE]

TypeOK ==
    /\ journal \in [Runs -> Journal]
    /\ active \in Runs \cup {NoRun}
    /\ proc \in Process
    /\ owed \in BOOLEAN
    /\ day \in 1..MaxDay
    /\ open \in BOOLEAN
    /\ valid \in SUBSET Grants
    /\ pool \in [owner: Runs \cup {NoRun}, marked: BOOLEAN]
    /\ domain \in {"none", "off", "on", "torn"}
    /\ private \in SUBSET Runs
    /\ inputs \in SUBSET Runs
    /\ lease \in [Runs -> LeaseStates]
    /\ faults \in 0..MaxFaults

Init ==
    /\ journal = [r \in Runs |-> Blank]
    /\ active = NoRun
    /\ proc = Idle
    /\ owed = FALSE
    /\ day = 1
    /\ open = TRUE
    /\ valid = Grants
    /\ pool = NoPool
    /\ domain = "none"
    /\ private = {}
    /\ inputs = {}
    /\ lease = [r \in Runs |-> "none"]
    /\ faults = 0

-----------------------------------------------------------------------------
r0 == proc.run
done0 == journal[r0].done
At(step) == proc.step = step
Goto(step) == proc' = [proc EXCEPT !.step = step]
Fault == faults < MaxFaults /\ faults' = faults + 1
Settled == \A r \in Runs : r = active => journal[r].stage \in Terminal
DateTaken == \E r \in Runs : r = active /\ journal[r].slot = day

(* save: the journal of the run is replaced on disk.                       *)
SaveStage(stage) == journal' = [journal EXCEPT ![r0].stage = stage]
Checkpoint(flag) == journal' = [journal EXCEPT ![r0].done = @ \cup {flag}]

(* The process ends; systemd runs ExecStopPost after the service's own.    *)
End == proc' = Idle /\ owed' = ~proc.cleanup

-----------------------------------------------------------------------------
(* lifecycle.execute: choosing a run.                                      *)

(* A scheduled run: in the window, no unfinished run, and not the date of  *)
(* the active one.  Its identifier is a random token; mkdir consumes it.   *)
BeginScheduled(r) ==
    /\ At("idle") /\ ~owed /\ Settled
    /\ r \notin Grants
    /\ open
    /\ ~DateTaken
    /\ journal[r].stage = "none"
    /\ journal' = [journal EXCEPT ![r].stage = "dir"]
    /\ proc' = [Idle EXCEPT !.step = "record", !.run = r, !.slot = day]
    /\ UNCHANGED <<active, owed, clock, fixture, faults>>

(* A run under a lab grant: at any time until the grant expires, once.     *)
BeginGranted(r) ==
    /\ At("idle") /\ ~owed /\ Settled
    /\ r \in valid
    /\ journal[r].stage = "none"
    /\ journal' = [journal EXCEPT ![r].stage = "dir"]
    /\ proc' = [Idle EXCEPT !.step = "record", !.run = r, !.slot = day]
    /\ UNCHANGED <<active, owed, clock, fixture, faults>>

(* The invocations that allocate nothing: an unfinished run, a closed      *)
(* window, a finished date, a grant consumed or expired.  ExecStopPost     *)
(* follows.                                                                *)
BeginNothing ==
    /\ At("idle") /\ ~owed
    /\ \/ ~Settled
       \/ ~open
       \/ DateTaken
       \/ \E r \in Grants : r \notin valid \/ journal[r].stage # "none"
    /\ owed' = TRUE
    /\ UNCHANGED <<journal, active, proc, clock, fixture, faults>>

(* lifecycle.json, then active.json.  Until the pointer is written a run   *)
(* directory is never read again: the two writes are one step.             *)
RecordRun ==
    /\ At("record")
    /\ journal' = [journal EXCEPT ![r0].stage = "starting", ![r0].slot = proc.slot]
    /\ active' = r0
    /\ Goto("preflight")
    /\ UNCHANGED <<owed, clock, fixture, faults>>

-----------------------------------------------------------------------------
(* Fixture.prepare.                                                        *)

(* preflight refuses any remains of a fixture, before it makes a directory.*)
Preflight ==
    /\ At("preflight")
    /\ pool = NoPool /\ domain = "none"
    /\ SaveStage("provisioning")
    /\ private' = private \cup {r0}
    /\ Goto("pool")
    /\ UNCHANGED <<active, owed, clock, pool, domain, inputs, lease, faults>>

PreflightRefused ==
    /\ At("preflight")
    /\ pool # NoPool \/ domain # "none"
    /\ journal' = [journal EXCEPT ![r0].stage = "provisioning", ![r0].failure = TRUE]
    /\ Goto("cleaning")
    /\ UNCHANGED <<active, owed, clock, fixture, faults>>

(* inputs: the keys, POOL.mkdir, the owner file, and only then the         *)
(* checkpoint that lets cleanup touch the pool.                            *)
MakePool ==
    /\ At("pool")
    /\ pool' = [owner |-> r0, marked |-> FALSE]
    /\ Goto("mark")
    /\ UNCHANGED <<journal, active, owed, clock, domain, private, inputs, lease, faults>>

MarkPool ==
    /\ At("mark")
    /\ pool' = [pool EXCEPT !.marked = TRUE]
    /\ Goto("own")
    /\ UNCHANGED <<journal, active, owed, clock, domain, private, inputs, lease, faults>>

OwnPool ==
    /\ At("own")
    /\ Checkpoint("pool_owned")
    /\ Goto("install")
    /\ UNCHANGED <<active, owed, clock, fixture, faults>>

(* The steps that change the journal no further than its details, and of   *)
(* the fixture at most the domain.                                         *)
Provision(step, next, state) ==
    /\ At(step)
    /\ domain' = state
    /\ Goto(next)
    /\ UNCHANGED <<journal, active, owed, clock, pool, private, inputs, lease, faults>>

(* The installer defines the domain; the host writes the keys and the code *)
(* of this run to the disk, replaces the boot image and starts the guest.  *)
Install == Provision("install", "offline", "off")
OfflineEnrollment == Provision("offline", "boot", domain)
FirstBoot == Provision("boot", "ready", "on")

GuestReady ==
    /\ At("ready")
    /\ Checkpoint("guest_ready")
    /\ Goto("manager")
    /\ UNCHANGED <<active, owed, clock, fixture, faults>>

(* The boot manager is put on the disk of a guest that is powered off.     *)
PowerOff == Provision("manager", "managerOff", "off")
BootManager == Provision("managerOff", "bootstrap", "on")

(* The guest gets a canary runtime and stores the package transaction; its *)
(* disk is copied as the baseline; the transaction is replayed through two *)
(* reboots; the new kernel is exported, downloaded and made a boot image.  *)
Bootstrap == Provision("bootstrap", "store", domain)
Store == Provision("store", "copy", domain)
CopyBaseline == Provision("copy", "replay", "off")
Replay == Provision("replay", "export", "on")
Export == Provision("export", "download", domain)
Download == Provision("download", "aside", domain)

(* The updated disk is renamed, and until the copy of the baseline is      *)
(* complete the domain is without a disk that boots.                       *)
SetAside == Provision("aside", "restore", "torn")
RestoreBaseline == Provision("restore", "observe", "off")
Observe == Provision("observe", "inputs", "on")

(* enroll_candidate: the certifier's inputs, then the checkpoint from      *)
(* which cleanup reconciles credentials; candidate and guest enrollment.   *)
MakeInputs ==
    /\ At("inputs")
    /\ inputs' = inputs \cup {r0}
    /\ Goto("scheduler")
    /\ UNCHANGED <<journal, active, owed, clock, pool, domain, private, lease, faults>>

SchedulerReady ==
    /\ At("scheduler")
    /\ Checkpoint("scheduler_ready")
    /\ Goto("approve")
    /\ UNCHANGED <<active, owed, clock, fixture, faults>>

(* The certifier prepares the candidate; it is compared with one prepared  *)
(* from the root-owned inputs, and frozen.  The guest learns its digest    *)
(* and the certifier's key.                                                *)
ApproveCandidate == Provision("approve", "enroll", domain)
EnrollGuest == Provision("enroll", "enrolled", domain)

Enrolled ==
    /\ At("enrolled")
    /\ SaveStage("enrolled")
    /\ Goto("window")
    /\ UNCHANGED <<active, owed, clock, fixture, faults>>

(* Preparation can outlast the window: a scheduled run is then deferred,   *)
(* a granted one fails.                                                    *)
WindowHolds == IF r0 \in Grants THEN r0 \in valid ELSE open
WindowCheck ==
    /\ At("window")
    /\ IF WindowHolds
       THEN SaveStage("certifying") /\ Goto("certify")
       ELSE /\ journal' = [journal EXCEPT ![r0].failure = r0 \in Grants]
            /\ proc' = [proc EXCEPT !.step = "cleaning", !.deferred = r0 \notin Grants]
    /\ UNCHANGED <<active, owed, clock, fixture, faults>>

(* Fixture.certify: the certifier looks at the window or the grant again,  *)
(* and a run that has missed it by now is a failed one.                    *)
StartCertifier ==
    /\ At("certify")
    /\ IF WindowHolds THEN Goto("name") /\ UNCHANGED journal
       ELSE journal' = [journal EXCEPT ![r0].failure = TRUE] /\ Goto("cleaning")
    /\ UNCHANGED <<active, owed, clock, fixture, faults>>

-----------------------------------------------------------------------------
(* schedule.execute and certify.main, the certifier's process.             *)

(* The candidate is staged and backed up; the lease is named in the        *)
(* certifier's state file before it is asked for.                          *)
NameLease ==
    /\ At("name")
    /\ lease' = [lease EXCEPT ![r0] = "named"]
    /\ Goto("issue")
    /\ UNCHANGED <<journal, active, owed, clock, pool, domain, private, inputs, faults>>

(* The broker takes the request: it records the lease and asks the         *)
(* provider for an account.                                                *)
Issue ==
    /\ At("issue")
    /\ lease' = [lease EXCEPT ![r0] = "issuing"]
    /\ Goto("post")
    /\ UNCHANGED <<journal, active, owed, clock, pool, domain, private, inputs, faults>>

(* The broker serves one request at a time, with or without its caller.    *)
BrokerIssues(r) ==
    /\ lease[r] = "issuing"
    /\ lease' = [lease EXCEPT ![r] = "live"]
    /\ UNCHANGED <<journal, active, proc, owed, clock, pool, domain, private, inputs, faults>>

BrokerLosesAccount(r) ==
    /\ lease[r] = "issuing"
    /\ Fault
    /\ lease' = [lease EXCEPT ![r] = "stuck"]
    /\ UNCHANGED <<journal, active, proc, owed, clock, pool, domain, private, inputs>>

(* The key reaches the guest, the candidate is deployed and observed.      *)
Deploy ==
    /\ At("post")
    /\ lease[r0] = "live"
    /\ Goto("accept")
    /\ UNCHANGED <<journal, active, owed, clock, fixture, faults>>

(* cold_boot, and the boots of the previous image and back.                *)
ColdOff ==
    /\ At("accept")
    /\ domain' = "off"
    /\ Goto("coldOff")
    /\ UNCHANGED <<journal, active, owed, clock, pool, private, inputs, lease, faults>>

ColdOn ==
    /\ At("coldOff")
    /\ domain' = "on"
    /\ Goto("retire")
    /\ UNCHANGED <<journal, active, owed, clock, pool, private, inputs, lease, faults>>

(* Any failure of Certifier.execute goes on to Certifier.cleanup.          *)
CertifierFails ==
    /\ proc.step \in ChildSteps
    /\ Fault \/ (At("post") /\ lease[r0] = "stuck" /\ UNCHANGED faults)
    /\ proc' = [proc EXCEPT !.step = "retire", !.bad = TRUE]
    /\ UNCHANGED <<journal, active, owed, clock, fixture>>

(* Certifier.cleanup: restore the guest's credential, which takes a guest  *)
(* that answers, and revoke the lease, which takes one the broker knows by *)
(* its account; the second is tried even when the first has failed.        *)
Reconciled == lease[r0] = "none" \/ (lease[r0] \in {"live", "revoked"} /\ domain = "on")

Revoke == lease' = [lease EXCEPT ![r0] = IF @ = "live" THEN "revoked" ELSE @]

(* It fails before the key is deleted, with the answer of the deletion     *)
(* lost, or afterwards (revoke_test_credential asks three times).          *)
RevokeStops ==
    \/ UNCHANGED lease
    \/ lease[r0] = "live" /\ \E left \in {"lost", "revoked"} : lease' = [lease EXCEPT ![r0] = left]

Retire ==
    /\ At("retire")
    /\ lease[r0] # "issuing"
    /\ Revoke
    /\ proc' = [proc EXCEPT !.step = "recheck", !.bad = @ \/ ~Reconciled]
    /\ UNCHANGED <<journal, active, owed, clock, pool, domain, private, inputs, faults>>

RetireFails ==
    /\ At("retire")
    /\ Fault
    /\ RevokeStops
    /\ proc' = [proc EXCEPT !.step = "recheck", !.bad = TRUE]
    /\ UNCHANGED <<journal, active, owed, clock, pool, domain, private, inputs>>

(* The scheduler's own cleanup (certify.py --cleanup-only) follows the     *)
(* certifier, whatever its result.                                         *)
Recheck ==
    /\ At("recheck")
    /\ Revoke
    /\ LET ok == ~proc.bad /\ Reconciled
       IN  /\ journal' = [journal EXCEPT ![r0].failure = ~ok]
           /\ Goto(IF ok THEN "evidence" ELSE "cleaning")
    /\ UNCHANGED <<active, owed, clock, pool, domain, private, inputs, faults>>

RecheckFails ==
    /\ At("recheck")
    /\ Fault
    /\ RevokeStops
    /\ journal' = [journal EXCEPT ![r0].failure = TRUE]
    /\ Goto("cleaning")
    /\ UNCHANGED <<active, owed, clock, pool, domain, private, inputs>>

(* Every gate's evidence, of this run and this candidate, is read again    *)
(* for acceptance.json; then the verdict goes to the journal.              *)
Evidence == Provision("evidence", "certified", domain)
Certified ==
    /\ At("certified")
    /\ journal' = [journal EXCEPT ![r0].certified = TRUE]
    /\ Goto("cleaning")
    /\ UNCHANGED <<active, owed, clock, fixture, faults>>

-----------------------------------------------------------------------------
(* Fixture.cleanup, at the end of a run or in a recovery.                  *)

(* Mutant of BeginCleanup: the recovery keeps the run's own verdict.       *)
BeginCleanupKeepsVerdict ==
    /\ At("idle")
    /\ ~Settled
    /\ proc' = [Idle EXCEPT !.step = "cleaning", !.run = active, !.cleanup = TRUE]
    /\ owed' = FALSE
    /\ UNCHANGED <<journal, active, clock, fixture, faults>>

(* --cleanup-only, from ExecStopPost or an operator: the interrupted run   *)
(* has failed whatever it had reached.                                     *)
BeginCleanup ==
    /\ At("idle")
    /\ ~Settled
    /\ journal' = [journal EXCEPT ![active].failure = TRUE]
    /\ proc' = [Idle EXCEPT !.step = "cleaning", !.run = active, !.cleanup = TRUE]
    /\ owed' = FALSE
    /\ UNCHANGED <<active, clock, fixture, faults>>

NothingToClean ==
    /\ At("idle")
    /\ owed
    /\ Settled
    /\ owed' = FALSE
    /\ UNCHANGED <<journal, active, proc, clock, fixture, faults>>

StartCleaning ==
    /\ At("cleaning")
    /\ SaveStage("cleaning")
    /\ Goto("credentials")
    /\ UNCHANGED <<active, owed, clock, fixture, faults>>

(* Mutant of CleanCredentials: a failed reconciliation does not stop it.   *)
CleanCredentialsRegardless ==
    /\ At("credentials")
    /\ lease[r0] # "issuing"
    /\ IF "scheduler_ready" \notin done0 \/ "credentials_cleaned" \in done0
       THEN UNCHANGED <<journal, lease>>
       ELSE Revoke /\ Checkpoint("credentials_cleaned")
    /\ Goto("resume")
    /\ UNCHANGED <<active, owed, clock, pool, domain, private, inputs, faults>>

(* Credentials first: nothing is removed until the lease is reconciled.    *)
CleanCredentials ==
    /\ At("credentials")
    /\ lease[r0] # "issuing"
    /\ IF "scheduler_ready" \notin done0 \/ "credentials_cleaned" \in done0
       THEN UNCHANGED <<journal, lease, owed>> /\ Goto("resume")
       ELSE /\ Revoke
            /\ IF Reconciled
               THEN Checkpoint("credentials_cleaned") /\ Goto("resume") /\ UNCHANGED owed
               ELSE SaveStage("cleanup-failed") /\ End
    /\ UNCHANGED <<active, clock, pool, domain, private, inputs, faults>>

(* Mutant of Resume: a destroyed domain is taken for a destroyed fixture.  *)
ResumeTooFar ==
    /\ At("resume")
    /\ Goto(IF "domain_destroyed" \in done0 THEN "private"
            ELSE IF "pool_owned" \in done0 THEN "guestPurge"
            ELSE "private")
    /\ UNCHANGED <<journal, active, owed, clock, fixture, faults>>

(* An earlier cleanup may have got as far as the domain, or the storage.   *)
Resume ==
    /\ At("resume")
    /\ Goto(IF "vm_destroyed" \in done0 THEN "private"
            ELSE IF "domain_destroyed" \in done0 THEN "storage"
            ELSE IF "pool_owned" \in done0 THEN "guestPurge"
            ELSE "private")
    /\ UNCHANGED <<journal, active, owed, clock, fixture, faults>>

(* check_owned, then the data in a guest that ever came up; a guest that   *)
(* is powered off is started for it, which takes a disk.                   *)
CheckOwned == pool = [owner |-> r0, marked |-> TRUE]
ToPurge == "guest_ready" \in done0 /\ "guest_purged" \notin done0
Purge == domain \in {"off", "on"} /\ domain' = "on" /\ Checkpoint("guest_purged")
PurgeGuest ==
    /\ At("guestPurge")
    /\ CheckOwned
    /\ IF ToPurge THEN Purge ELSE UNCHANGED <<journal, domain>>
    /\ Goto("secrets")
    /\ UNCHANGED <<active, owed, clock, pool, private, inputs, lease, faults>>

GuestCannotStart ==
    /\ At("guestPurge") /\ ToPurge /\ domain = "torn"
    /\ SaveStage("cleanup-failed")
    /\ End
    /\ UNCHANGED <<active, clock, fixture, faults>>

PurgeSecrets ==
    /\ At("secrets")
    /\ inputs' = inputs \ {r0}
    /\ Checkpoint("certifier_secrets_purged")
    /\ Goto("destroy")
    /\ UNCHANGED <<active, owed, clock, pool, domain, private, lease, faults>>

(* virsh destroy and undefine --nvram --tpm.                               *)
Destroy ==
    /\ At("destroy")
    /\ CheckOwned
    /\ domain' = "none"
    /\ Goto("gone")
    /\ UNCHANGED <<journal, active, owed, clock, pool, private, inputs, lease, faults>>

(* verify_destroyed_domain.                                                *)
Destroyed ==
    /\ At("gone")
    /\ domain = "none"
    /\ Checkpoint("domain_destroyed")
    /\ Goto("storage")
    /\ UNCHANGED <<active, owed, clock, fixture, faults>>

(* Mutant of PurgeStorage: the owner file is always required.              *)
PurgeStorageNeedsOwner ==
    /\ At("storage")
    /\ pool = [owner |-> r0, marked |-> TRUE]
    /\ Checkpoint("storage_purge_started")
    /\ Goto("unlink")
    /\ UNCHANGED <<active, owed, clock, fixture, faults>>

(* purge_storage: an absent pool, or one without its owner file, is only   *)
(* accepted after the checkpoint that this run began to delete it.         *)
PurgeStorage ==
    /\ At("storage")
    /\ IF pool = NoPool
       THEN "storage_purge_started" \in done0 /\ Goto("purged") /\ UNCHANGED journal
       ELSE /\ pool.owner = r0
            /\ IF pool.marked
               THEN domain = "none" /\ Checkpoint("storage_purge_started") /\ Goto("unlink")
               ELSE "storage_purge_started" \in done0 /\ Goto("rmdir") /\ UNCHANGED journal
    /\ UNCHANGED <<active, owed, clock, fixture, faults>>

UnlinkPool ==
    /\ At("unlink")
    /\ pool' = [pool EXCEPT !.marked = FALSE]
    /\ Goto("rmdir")
    /\ UNCHANGED <<journal, active, owed, clock, domain, private, inputs, lease, faults>>

RemovePool ==
    /\ At("rmdir")
    /\ pool' = NoPool
    /\ Goto("purged")
    /\ UNCHANGED <<journal, active, owed, clock, domain, private, inputs, lease, faults>>

StoragePurged ==
    /\ At("purged")
    /\ Checkpoint("vm_destroyed")
    /\ Goto("private")
    /\ UNCHANGED <<active, owed, clock, fixture, faults>>

(* rmtree of the private keys, and cleanup.json.                           *)
PurgePrivate ==
    /\ At("private")
    /\ private' = private \ {r0}
    /\ Goto("close")
    /\ UNCHANGED <<journal, active, owed, clock, pool, domain, inputs, lease, faults>>

FinalStage == IF journal[r0].failure THEN "failed-cleaned"
              ELSE IF proc.deferred THEN "deferred-cleaned" ELSE "complete"
CloseRun ==
    /\ At("close")
    /\ FinalStage = "complete" => journal[r0].certified
    /\ SaveStage(FinalStage)
    /\ End
    /\ UNCHANGED <<active, clock, fixture, faults>>

-----------------------------------------------------------------------------
(* Failures.                                                               *)

(* An exception in prepare or certify: recorded, and cleanup follows.      *)
StepFails ==
    /\ proc.step \in ProvisionSteps \cup {"name", "evidence", "certified"}
    /\ Fault
    /\ journal' = [journal EXCEPT ![r0].failure = TRUE]
    /\ Goto("cleaning")
    /\ UNCHANGED <<active, owed, clock, fixture>>

(* An exception in cleanup: recorded, and the process ends.                *)
CleanupFails ==
    /\ proc.step \in CleanSteps \ {"close"}
    /\ Fault
    /\ UNCHANGED lease \/ (At("credentials") /\ RevokeStops)
    /\ SaveStage("cleanup-failed")
    /\ End
    /\ UNCHANGED <<active, clock, pool, domain, private, inputs>>

(* SIGKILL, or an exception that no handler records.                       *)
Killed ==
    /\ ~At("idle")
    /\ Fault
    /\ End
    /\ UNCHANGED <<journal, active, clock, fixture>>

(* The workstation loses power: guests are not started again by themselves.*)
PowerLost ==
    /\ Fault
    /\ proc' = Idle
    /\ owed' = FALSE
    /\ domain' = IF domain = "on" THEN "off" ELSE domain
    /\ lease' = [r \in Runs |-> IF lease[r] = "issuing" THEN "stuck" ELSE lease[r]]
    /\ UNCHANGED <<journal, active, clock, pool, private, inputs>>

(* The window closes, and opens on the next date; grants expire.           *)
WindowCloses ==
    /\ open
    /\ open' = FALSE
    /\ UNCHANGED <<journal, active, proc, owed, day, valid, fixture, faults>>

NextDate ==
    /\ ~open
    /\ day < MaxDay
    /\ day' = day + 1
    /\ open' = TRUE
    /\ UNCHANGED <<journal, active, proc, owed, valid, fixture, faults>>

GrantExpires(r) ==
    /\ r \in valid
    /\ valid' = valid \ {r}
    /\ UNCHANGED <<journal, active, proc, owed, day, open, fixture, faults>>

Prepare == \/ RecordRun \/ Preflight \/ PreflightRefused \/ MakePool \/ MarkPool \/ OwnPool \/ Install
           \/ OfflineEnrollment \/ FirstBoot \/ GuestReady \/ PowerOff \/ BootManager \/ Bootstrap \/ Store \/ CopyBaseline
           \/ Replay \/ Export \/ Download \/ SetAside \/ RestoreBaseline \/ Observe
           \/ MakeInputs \/ SchedulerReady \/ ApproveCandidate \/ EnrollGuest \/ Enrolled \/ WindowCheck
Certify == \/ StartCertifier \/ NameLease \/ Issue \/ Deploy \/ ColdOff \/ ColdOn \/ Retire \/ Recheck \/ Evidence \/ Certified
Cleanup == \/ StartCleaning \/ CleanCredentials \/ Resume \/ PurgeGuest \/ GuestCannotStart \/ PurgeSecrets \/ Destroy \/ Destroyed
           \/ PurgeStorage \/ UnlinkPool \/ RemovePool \/ StoragePurged \/ PurgePrivate \/ CloseRun
Recover == BeginCleanup \/ NothingToClean
Fails == StepFails \/ CertifierFails \/ RetireFails \/ RecheckFails \/ CleanupFails \/ Killed \/ PowerLost
Clock == WindowCloses \/ NextDate \/ \E r \in Grants : GrantExpires(r)

Next ==
    \/ \E r \in Runs : BeginScheduled(r) \/ BeginGranted(r)
    \/ BeginNothing
    \/ Prepare \/ Certify \/ Cleanup \/ Recover
    \/ \E r \in Runs : BrokerIssues(r) \/ BrokerLosesAccount(r)
    \/ Fails
    \/ Clock

Spec == Init /\ [][Next]_vars

(* A started process runs on; the broker answers, since its calls to the   *)
(* provider are bounded in time; and ExecStopPost, the service of the next *)
(* maintenance date or an operator runs --cleanup-only again.              *)
FairSpec ==
    /\ Spec
    /\ WF_vars(Prepare \/ Certify \/ Cleanup)
    /\ WF_vars(\E r \in Runs : BrokerIssues(r))
    /\ WF_vars(CertifierFails /\ UNCHANGED faults)
    /\ WF_vars(Recover)

-----------------------------------------------------------------------------
(* As long as a credential of a run may exist at the provider, everything  *)
(* cleanup needs to retire it is there: the run is the active one and not  *)
(* finished, and its guest, storage, keys and certifier inputs exist       *)
(* ("Credential reconciliation must succeed before removing recovery paths *)
(* or the VM", Fixture.cleanup).                                           *)
LeaseKeepsFixture ==
    \A r \in Runs : lease[r] \in {"issuing", "stuck", "live", "lost"} =>
        /\ r = active
        /\ journal[r].stage \notin Terminal
        /\ domain # "none"
        /\ pool = [owner |-> r, marked |-> TRUE]
        /\ r \in private
        /\ r \in inputs

(* A finished run has left no key, no certifier input and no credential    *)
(* behind, no domain if it is the last one, and no pool it had recorded.   *)
FinishedRunIsGone ==
    \A r \in Runs : journal[r].stage \in Terminal =>
        /\ r \notin private
        /\ r \notin inputs
        /\ lease[r] \in {"none", "revoked"}
        /\ r = active /\ At("idle") => domain = "none"
        /\ pool.owner = r => "pool_owned" \notin journal[r].done

(* A run is complete only if it was certified without a failure, with its  *)
(* credential revoked, its guest purged and its machine destroyed.         *)
CompleteMeansCertified ==
    \A r \in Runs : journal[r].stage = "complete" =>
        /\ journal[r].certified /\ ~journal[r].failure
        /\ lease[r] = "revoked"
        /\ {"credentials_cleaned", "guest_purged", "vm_destroyed"} \subseteq journal[r].done

(* "A cleanup-only recovery never upgrades interrupted acceptance into a   *)
(* pass" (lifecycle.execute): a run that no process is working on and that *)
(* is not finished never becomes complete.                                 *)
InterruptedNeverPasses ==
    \A r \in Runs : [](At("idle") /\ active = r /\ ~Settled => [](journal[r].stage # "complete"))

(* Two scheduled runs never share a maintenance date, whatever was         *)
(* interrupted in between (lifecycle.execute's slot check).                *)
OneRunPerDate ==
    \A r, s \in Runs \ Grants :
        /\ r # s
        /\ {journal[r].stage, journal[s].stage} \cap {"none", "dir"} = {}
        => journal[r].slot # journal[s].slot

(* No run stays unfinished, unless its credential cannot be reconciled for *)
(* good: the broker has no account for the lease, or none any more; or the *)
(* guest that holds the credential is powered off; or it was interrupted   *)
(* while the disk was being restored, and the guest that cleanup wants to  *)
(* purge cannot start.                                                     *)
Finished(r) == active # r \/ journal[r].stage \in Terminal
Unreconcilable(r) == lease[r] \in {"named", "stuck", "lost"} \/ (lease[r] = "revoked" /\ domain = "off")
UnfinishedRunIsCleaned == \A r \in Runs : []<>Finished(r) \/ <>[]Unreconcilable(r) \/ <>[](domain = "torn")

(* The lifecycle's invariant: the type of its state, nothing left behind   *)
(* by a finished run, complete only when certified, one run per date.      *)
LifecycleInv == TypeOK /\ FinishedRunIsGone /\ CompleteMeansCertified /\ OneRunPerDate
=============================================================================
