# A TLA+ model of the Hermes deployment

This directory models the control logic of the Hermes host repository: the
programs that certify a host release, sign and publish it, deploy it to one Fedora
target over SSH and undo it when something fails, the simple installer, and the
disposable laboratory that all of this is rehearsed in. The modules are checked
with TLC on small instances, and the safety properties that matter most are proved
with TLAPS for all instances. Paths are relative to the repository; `unattended/`
stands for `src/scripts/hermes/unattended/`, other paths for `src/scripts/hermes/`
or `src/vm/`.

## 1. Inventory

The system is a set of short-lived programs that share durable files. Nothing
stays in memory: each program reads a journal, takes a `flock`, does one thing,
writes the journal with write-temporary/fsync/rename, and may be killed or cut
off by a reboot between any two of these. What makes it hard is therefore not
shared memory but crashes, lost replies, reboots, timers that fire beside the
operator's commands, journals read before the lock that protects them, and jobs
in a guest that outlive the connection which started them.

| Part | State it keeps | Operations | Talks to | Module |
|---|---|---|---|---|
| Credential broker (`credentials.py`) | one record and one encrypted key per lease | check, issue, read, revoke | OpenAI administration API; controller and certifier over a unix socket | `Broker` |
| Target host installer (`host.py`) | phase journal, snapshot, saved application files, credential, guard timer | snapshot, backup-verified, credential, deploy/upgrade, rollback, backup-guard | offline replay, systemd, application | `HostRelease` |
| Root dispatcher (`dispatcher.py`) | staged release trees, bindings, `status.json`, `target.lock` | status, check, stage, bound, backup, and the host actions | controller (SSH), `host.py` (child) | `HostRelease`, `Promotion` |
| Offline replay (`offline.py`) | replay state, `/system-update` marker, unit and wants link | stage, execute (at boot), cleanup, require_complete | dnf, systemd, boot artefacts | `OfflineReplay` |
| Controller (`controller.py`) | per-target state: fingerprint, lease, previous lease, backups | check, deploy, upgrade, rollback | dispatcher, broker, restic | `Controller`, `Promotion` |
| Maintenance events (`maintenance.py`, `notify.py`) | `latest.json`, the notifier's last delivered event | publish, service-failed, deliver | controller, desktop | `Maintenance` |
| Lifecycle (`lifecycle.py`, `lifecycle_fixture.py`) | `active.json` pointer, run state | execute, cleanup-only | fixture guest, schedule | `Lifecycle` |
| Candidate schedule (`schedule.py`), certifier (`certify.py`) and its guest endpoint (`certify_guest.py`) | run journal, certifier state, gate evidence, candidate directory | prepare, certify, cleanup | lab target, broker, power helper | `Certification` |
| Signer (`signer.py`, `finalize.py`) | signed archives, `selected.tar` | sign | certifier's evidence, maintenance | `Promotion` |
| Release format (`release.py`, `gates.py`, `transaction.py`) | none | validate, unpack, expected_inventory, retain_backups | all of the above | operators of `Promotion` |
| Application-only installer (`simple/`) | phase journal, backup, recovery timer, boot unit | prepare, confirm-access, deploy, recover, rollback | administrators' workstations | `SimpleInstall` |
| Labs on the host (`lab.py`, `lab_runtime.py`, `hermes-disposable.py`) | instance directories, libvirt domains, prepared caches | up, suite, deploy, clean, prepare | libvirt | `LabInstances` |
| Labs in the guest (`profile-deploy.py`, `live-guest.py`, `lab_guest.py`) | profile environment, units, state trees, archive | apply, live, backup, restore | host commands over SSH | `LabGuest` |
| One-command controller (`deploy-lib.sh`, `remote-state.sh`) | remote stage files | stages of the interactive deployment | target | not modelled |
| Manual profile (`manual/`) | operator-run steps, grants | m01 to m05, TPM enrolment | operator, target | not modelled |

What makes each part correct, in a sentence each:

* broker: never two accounts for one lease; a reported revocation is real; every
  account that is live is still on record;
* host: no step is taken out of order, application files are saved before the
  first change, whatever fails can be rolled back to exactly those files, and a
  timer never undoes a release that has moved on;
* offline replay: a staged transaction is tried at most once and only completes
  on the boot after it was staged;
* controller: the old credential is revoked only after the new one is in use, and
  what was reported complete stays complete;
* certifier: a gate record stands for something that happened in the guest, and the
  test credential of a run is always revoked;
* signer and target: what is bound on the target passed one certification run, and
  a binding never changes;
* lifecycle: whatever a run created is destroyed before the next run begins, and
  clean-up never turns a failure into a pass;
* events: `completed` is only said of what is completed, a failure is never covered
  by an older success, and the last outcome reaches the desktop;
* simple installer: rolled back means restored, closed means used by an administrator,
  and a late request does not undo what was kept;
* labs: no command touches what is not its own, a prepared base was audited, a live
  credential stays in memory and no service runs on half restored state.

## 2. Plan

The order put first what can damage a target or leak a credential. Done:

1. `Broker` with the provider, crashes and lost calls; proofs in `BrokerProofs`.
2. `OfflineReplay`, which implements the abstract `OneShotUpdate`; both facts proved in
   `OfflineReplayProofs`.
3. `HostRelease`: the phase journal of `host.py` behind the dispatcher's lock, with the
   backup guard, reboots and losses of power; proofs in `HostReleaseProofs`.
4. `Controller`, which composes the controller with the target and the broker at the
   level of their promises, and implements the abstract `KeyRotation`; both facts proved in
   `ControllerProofs`.
5. `Lifecycle`: a certification run, its fixture, its lease and its recovery; proofs in
   `LifecycleProofs`.
6. `Certification`: the scheduler, the certifier and the guest endpoint, request by request;
   proofs in `BrokerProofs`, beside those of the broker it draws its lease from.
7. `Promotion`: from the certifier's evidence to what is bound on the target; proofs in
   `PromotionProofs`.
8. `Maintenance`: events, failure unit and notifier; proofs in `HostReleaseProofs`, beside
   those of the release the events report on.
9. `SimpleInstall`: the application-only installer with its controllers; proofs in
   `SimpleInstallProofs`.
10. `LabInstances` and `LabGuest`: the disposable laboratory, outside and inside; proofs
    in `PromotionProofs` and in `LabGuestProofs`.

Left, most useful first: the remote stage files of the one-command controller
(`remote-state.sh`); the pure functions `retain_backups` and `expected_inventory`
against reference definitions.

## 3. Modules and how they correspond to the code

Every durable write, every external call that changes something and every
scheduled effect is one action; what a program does between two of them in memory is
part of the action that follows. Programs appear as a record (`proc`, `work`, `main`, ...)
that says where the running program is and what it has read; a kill sets it back to idle
and leaves the files. A request that a `require` refuses before its first write
changes nothing and is no action. Names of actions follow the functions of the code;
`PROJECT.json` maps each definition to its lines. A definition that begins with
"Mutant of" in its comment, or whose name says so, is not part of the specification: it
is a changed copy of an action, used to see that a property can fail.

### Broker (`credentials.py`)

State: the record `<lease>.json` (`rec`), the encrypted key `<lease>.cred` (`cred`),
the request being handled (`work`), and the provider's accounts (`account`, `owner`,
`project`, `accepted`). `Receive` is the socket handler; `IssueBegin`, `Post`,
`SaveAccount`, `SaveSecret`, `SaveReady` are `issue`; `RevokeBegin`, `Delete`,
`SaveDeleted`, `ProbeRejected`, `SaveRevoked`, `UnlinkSecret` are `revoke`. The
provider may lose a call or its answer, and goes on accepting the key of a deleted
account until `KeyRejected`. A key is identified with its account.

### OfflineReplay (`offline.py`, the update gates of `gates.py`)

State: the replay's status file (`st`), the generated unit and its wants link, the
`/system-update` symlink as processes see it (`marker`) and as it is at worst after a
loss of power (`disk`), the RPM set, the default boot entry and the boot mode. `Stage*`
is `stage`, `Exec*` is `execute` in the update boot. The environment kills, loses
power, changes packages with dnf, and runs another update manager that uses the same
marker without the lock. Instead of boot identifiers a status keeps whether its boot is
the current one, so boots are not bounded.

### HostRelease (`host.py`, the dispatcher's gates)

State of one release: the phase journal (`j`), the saved application files (`prev`), the
snapshot, the application files (`old` or `new`), the service, the replay at the level
of `OneShotUpdate`, the boot counter, the scheduled reboot, `target.lock`, its holder,
and the guard's timer with the journal it read. `Request*`, `Acknowledge*` and `Advance*`
are what the dispatcher admits; `Guard*` is `backup-guard` started by its transient
timer. The model keeps that `main()` builds `Host`, and reads the journal, before it
takes the lock: for a request of the dispatcher this is harmless, since the dispatcher
holds the lock around it, and for the guard it is not.

### Controller (`controller.py`)

State: the target's state file (`ctl`), the running controller with its own copy of it
(`proc.mem`), and, at the level of their promises, the target's phases, saved credentials,
guards and reboot, and the broker's leases. Each request to the dispatcher and each
call of the broker is a step, which may also fail with or without effect, to be recovered
from or with the controller (`CallFails`). An issue that stops half-way leaves a lease that
can be revoked only if its key was stored (`kept`, `stuck`). `Recover`,
`RecoverRollback` and `RecoverRevoke` are the handler of `Failure` in `main`. The constant
`RollsBackClosed` says whether the operator rolls back a release that had closed, and
`RunsOlder` whether he runs an earlier release again after a later one was bound. Findings 3
and 20 of section 6 are about that, and everything checked and proved is about operators who
do neither.

### Lifecycle (`lifecycle.py`, `lifecycle_fixture.py`)

State: every run's `lifecycle.json` (`journal`) with its checkpoints, `active.json`, the
storage pool and its owner file, the libvirt domain, the run's private keys, the
certifier's inputs and its lease. `Prepare`, `Certify` and `Cleanup` are the three parts
of `execute`; `Recover` is `--cleanup-only`. The domain is on, off, torn while its disk is
replaced, or gone: what is installed in the guest either works or fails, and the
certifier it starts appears only through what it does to the lease and the fixture
(`Certification` has it in detail). A revocation may stop before the key is deleted, with
the answer of the deletion lost (`lost`: the broker would delete again, and the provider
refuses), or afterwards (`RevokeStops`); `Controller` leaves the second out and takes a key
that the provider has deleted to be revocable.

### Certification (`schedule.py`, `certify.py`, `certify_guest.py`, `certify_observe.py`, `lab_previous.py`)

State: the candidate directory, `schedule.json` (`journal`), the certifier's `state.json`,
the gate records (`evidence`), the lease at the broker, the scheduler (`sched`), its child
(`cert`), the guest, and the request that holds `endpoint.lock` (`job`). The certifier's
fixed sequence of requests is the constant sequence `Plan`; `Ask`, the guest's jobs and
the receipt of an answer are separate steps, so that a job outlives a certifier that was
killed. An issue that stops half-way leaves a lease without its account's
number or its key (`stuck`) or with both and a record that is not ready (`kept`); only the
second can be revoked, and a deletion whose answer was lost (`lost`) cannot be revoked again.
When the service is stopped, the scheduler is gone at once, while the certifier handles
SIGTERM: what it does fails and its own cleanup follows (`Terminated`, `ServiceStopped`,
`Stopped`). `owed` is systemd's `ExecStopPost=... --cleanup-only`, which is lost only with the
workstation's power. systemd is taken to wait for that cleanup before it starts `ExecStopPost`.
The guest keeps the entries of all its boots, so that a gate record can be compared with
what really booted. The gates of observation (SELinux, TPM, the external power proof) are
outcomes.

### Promotion (`signer.py`, `finalize.py`, `build_release.py`, `release.py`, `dispatcher.py`, `controller.py`)

State: days, the day of every gate record of every run (`made`), the directories handed
over by the operator (`hand`), the signing service, the signed archives, `.selected.pending`
and `selected.tar`, the target's trees (`staged`) and bindings (`bound`), the running stage
operation, and the controller. An archive is its candidate, the run its evidence is of and
the day it was issued, which is what its signature binds. `ReadCandidate`, `ReadGate`,
`CheckEvidence`, `CopyHandoff`, `Build`, `LinkPending` and `Select` are the signer;
`Unpack`, `Place` and `Bind` are `stage`; `Upload` opens `selected.tar` a second time.

### Maintenance (`maintenance.py`, `notify.py`)

State: `latest.json` (`event`), the maintenance service (`main`), the unit that systemd
starts when it or the signer fails (`unit`), `.event.lock`, which nobody waits for, and
the notifier with its record of what was seen. Event identifiers are not bounded: the
notifier keeps whether what it read, and what it has seen, is the latest event. How a
maintenance run really ended (`last`) and what has really closed (`closed`) are history.

### SimpleInstall (`simple/host.py`, `simple/controller.py`, `simple/data.py`)

State: `state.json`, the managed parts of the target (units, access, data, key, account,
running service), the recovery timer, the process that holds the lock, and the
controllers that wait for answers. A deployment is its token. `Prepare*`, `Confirm*`,
`Deploy*` and `Recover*` are the four requests step by step; `GuardFires` and
`BootRecovers` are the timer and the boot unit. Restoring data empties it first
(`Torn`), as `data.py` does.

### LabInstances (`lab.py`, `lab_runtime.py`, `hermes-disposable.py`)

State: for every instance its directory with the marker (`dir`), the libvirt domain of the
same name (`dom`) and what its disk holds; for every cache key the stage and the
published base; the processes, which hold instance, cache and port locks while they run;
and the version of the sources on the host. `Boot`, `Mark`, `Install`, `Confirm` are
`Instance.boot`, `Clean`, `Undefine`, `Remove` are `clean`, and `LockCache` to `Publish`
are `prepare`.

### LabGuest (`profile-deploy.py`, `live-guest.py`, `lab_guest.py`)

State: the guest's mounts, environment, services and installed units (`guest`), the schema
of every state tree, the trees a restore has set aside (`moved`), the archive, the
deployment lock, the jobs in the guest and the host command that sends them. What may fail
between two changes is a step of its own (`MountFails`: the memory is mounted and `prepare` fails;
`TarFails`: there is an archive already, or tar fails, and the services come back). A host
command that is interrupted leaves its job running beside those of the next.

### Abstract specifications

`OneShotUpdate`: a transaction is armed, started at most once, and either installed on
exactly its baseline or given up. `KeyRotation`: the key in use was issued and is not
revoked. Both are implemented under a refinement mapping given in the module that
implements them (`OfflineReplay!OneShot`, `Controller!Rotation`).

## 4. Runs

| Run | Instance (distinct states) | What it shows |
|---|---|---|
| `broker` | 1 lease, 3 accounts, 2 roles (1,982) | one account per lease, every live account on record, a reported revocation is real, keys stay in their project; an account whose key was stored is deleted in the end |
| `offline_replay` | 2 transactions, 2 losses of power (2,013) | a marker only points at a ready update, a kernel never runs ahead of its packages, the other manager's marker stays, an update boot ends, the replay is a one-shot update |
| `host_release` | 3 files, 2 faults (65,010) | files are saved before they change, rolled-back means restored, closed means proved over three boots, packages wait for the backup, a staged release settles |
| `host_guard_race` | no faults | violation: finding 1 |
| `controller` | 3 releases, 3 leases, 1 fault (443,313) | the deployment is a rotation of keys, what was reported complete stays closed, a closed release is reported by a later run |
| `lifecycle` | 2 scheduled runs and a grant, 2 dates, 1 fault (205,998) | a lease keeps its fixture, a finished run is gone, complete means certified, one run per date, an interrupted run is cleaned up and never passes |
| `certification` | 1 candidate, 3 faults (299,867) | complete means certified, every gate record is earned in the guest, only the frozen candidate runs, an issued lease whose key was stored is revoked |
| `promotion` | 2 candidates with one identifier, 3 runs, 3 days, 2 hand-overs, 1 fault (2,156,104) | what is bound passed one run of its own candidate, what closes is what is bound, a binding stays |
| `maintenance` | 2 releases, 3 starts, 2 faults (268,877) | completed is true, a failure is reported although nobody waits for the lock, the latest event is shown |
| `simple_install` | 2 controllers, 3 deployments, 1 fault (981,120) | data is saved before it changes, rolled-back means restored, closed means proved and stays, a deployment settles |
| `lab_instances` | 2 processes, 3 names, 4 commands, 2 versions of the sources, 1 fault (about 700,000: the count varies a little under symmetry) | a published base is audited and of its key, ports differ, domains can be identified, no command touches another's domain or guest |
| `lab_guest` | 2 trees, 3 host commands, 2 faults (248,475) | a live credential stays in memory, a failed live start leaves none, no service runs on half restored or newer state |

Every property of a passing run has a mutant in `PROJECT.json`: a changed copy of one action
or guard, the way a plausible bug would change it, under which TLC finds the property violated.

### Bounds

* Faults (`MaxFaults`, in `Maintenance` and `LabInstances` `MaxMishaps`: kills, failed calls, lost answers, losses of power) are two together
  where the state allows it: one to leave a journal half written and one to hit its
  recovery. `controller`, `lifecycle`, `promotion`, `simple_install` and `lab_instances`
  have one; what two would do there is not checked. `certification` has three, because
  its cleanup can itself be cut off twice. In `offline_replay` kills are not bounded
  at all, and losses of power are two.
* `broker`: one lease and three accounts leave one for a second and a third creation;
  that leases do not mix is proved for any number of them. `MCInit` fixes what `owner`,
  `project` and the idle handler's record hold before they mean anything.
* `offline_replay`: two transactions, the second computed on the result of the first, let a
  stale baseline and a replay of the wrong transaction happen.
* `host_release`: one release is enough, since releases have separate files, and what one
  does to the next is in `Controller`. Three files stand for the three ways a file is
  saved: the credential, a captured file, a file tracked when it is installed.
* `controller`: one release in use, one that fails and one that follows, run in this order.
* `lifecycle`: a run meets another on the same date, on the next date and as a grant.
* `certification`: one candidate with one run; runs do not share a directory, and what one
  leaves for the next is in `Lifecycle`.
* `promotion`: two candidates with the same release identifier are the case in which a
  binding could be replaced; of three runs two certify the same candidate (they are
  symmetric), so evidence can be mixed within and across candidates; three days let
  evidence and an unbound release expire. No day ends while a bounded service is at
  work, and certification runs follow one another.
* `maintenance`: three runs are a success, a failure and what follows. The window does not
  close during a run, which it would not interrupt.
* `simple_install`: a first deployment, one on top of it, and one after a rollback; two
  controllers meet in one transaction.
* `lab_instances`: four commands are what it takes to clean an instance and make it again
  while a fifth step of an older command waits with its port. The sources change only
  while a base is prepared and never back; the builder's and the probe's names are
  used by the operator only to clean; `hermes-disposable.py` run by hand, which takes no
  lock, is left out. The two processes are symmetric.
* `lab_guest`: three host commands are a live start, its undo, and one beside its orphan.

Deadlock is checked except in four runs. In `HostRelease` (`host_release`,
`host_guard_race`) a release that is rolled back, or one left by a kill waiting for a
reboot, really has no next step; in `LabGuest` and `LabInstances` the commands are
bounded, and nothing goes on by itself once the last one has ended.

### Fairness

* `Broker`: a request that is being handled is carried on, peers repeat `revoke`, and a
  provider call that is repeated often enough is made (`PersistentCleanup`: strong fairness
  of `revoke`'s steps for each lease, since crashes disable them again and again).
* `OfflineReplay`: the update service runs on, a machine that shuts down boots, and
  another manager finishes its update; systemd starts each of them and bounds it in time.
* `HostRelease`: a started request runs on, a reboot scheduled with `systemd-run` happens,
  an update boot ends (shown by `offline_replay`), and the controller keeps asking to
  advance (`controller.py` polls). Kills and power losses are not fair.
* `Controller`: the maintenance timer starts a run again and again, and a run goes on to
  its end or fails (every call has a timeout).
* `Lifecycle`: a started process runs on, the broker answers because its provider calls
  have timeouts, and cleanup is started again by `ExecStopPost`, by the service of the next
  date or by the operator.
* `Certification`: the timer, the end of a stopped service, `ExecStopPost`, the
  scheduler, its child and the guest's jobs
  and boots go on; each is started or restarted by systemd or has a timeout.
* `Maintenance`: the failure unit that systemd owes runs, and the notifier's timer fires.
* `SimpleInstall`: the running request goes on or raises, the armed timer fires, and the
  boot unit runs.

`Promotion`, `LabGuest` and `LabInstances` are checked for safety only and state none.

## 5. Proofs

The proof modules prove, for all constants that satisfy the named assumptions, that the
properties below hold of every behaviour. Each follows the same argument: `Init => IInv`,
`IInv /\ [Next]_vars => IInv'` with a step or a lemma per action, and `IInv =>` the property.
Three proof modules extend two models each. The models share no variable and no definition
(those of `Certification`, `Maintenance` and `LabInstances` carry a prefix for this: `certVars`,
`EventInit`, `LabNext`), so that each theorem is about one specification and one assumption.

Assumptions. `BrokerAssumption`: the two null values are no role and no account.
`HostAssumption`: the captured files are among the files, the credential is captured, and
`MaxFaults` is a natural number. `OfflineAssumption` and `MaintenanceAssumption`: the null
values are none of the transactions or releases, and bounds are natural numbers.
`PromotionAssumption`: every candidate has an identifier, every run a candidate, and
there is a first day. `ControllerAssumption`: releases and leases are positive natural
numbers, and `MaxFaults` is a natural number. `LifecycleAssumption`: grants name runs,
`NoRun` is none of them, there is a first maintenance date, and `MaxFaults` is a natural
number. `SimpleAssumption`: `MaxDeploys` and `MaxFaults` are natural numbers. `LabGuestAssumption`:
the gateway's state is among the state trees, and the bounds are natural numbers.
`LabInstancesAssumption`: there are finitely many names, the builder and the probe are two
of them, at most one other instance is up at first, there is a version of the sources, and
bounds are natural numbers. `CertificationAssumption`: `MaxFaults` is a natural number. The
bounds are thus arbitrary: nothing proved depends on how many faults, days, hand-overs,
deployments or starts there are.

`BrokerProofs` (all four invariants of `broker`, and `RecordsOnlyAdvance`). The properties
speak of the provider and of records at rest; they are not inductive, because a handler
acts on what it read some steps before. `WorkInv` says what it still knows at each step
(for example: while it waits in `post`, no account is named after its lease; after
`delete`, the account in memory is the recorded one), `RecordInv` how files describe
accounts, `ProviderInv` that every account belongs to a recorded lease of the same project,
`GrantInv` the same of keys that were handed out.

The second part of `BrokerProofs` is about the certification, in which the lease that the
broker hands out is used (`CertSafe`: `CertInv`; `CertEarned`: `EvidenceIsEarned`). No gate is
checked when it is relied on; the certifier trusts its own place in the plan, and the guest
may have been killed, rebooted or left with the job of an earlier request. `RunInv` says which gates
and which lease each place of the plan has behind it. `WaitInv` says whose job the guest
runs: a leftover job makes the next request fail, so an answer is never that of another
request, and none is left that could change the data once the restore has been recorded.
`BootInv` says which boots the phase of the deployment proves: it is closed only after two
boots of the updated image. `SeenInv` says that the observations are of boots from then on,
in their order, each of the entry that was asked for; together with the comparison of boot
identifiers (`Consistent`) they give the boots that the gates claim. `AfterInv` and
`CloseInv` carry all this through the cleanup and its second process to the journal: a
cleanup that reports no error has given the key back and has seen the lease revoked, and a
guest whose deployment is closed takes no test credential again.

`HostReleaseProofs` (the four invariants of `host_release`). `LockInv`: a dispatcher's
request works on the current journal and its step determines the phase, while the guard's
copy may be stale and only allows it to roll back. `SavedInv`: saved content is the old one
and complete before any step that changes a file is reachable. `RestoreInv`: a running
rollback has every changed file ahead of it. `BackupInv`: a digest in the journal is that
of a complete archive, and later phases were acknowledged. `BootInv`: staging, replay,
installation and acceptance happened in successive boots. `LockInv` makes the rest go
through: the stale guard is the only process that writes a journal it has not just read,
and what it writes is `rolled-back` or `recovery-required`, about which only `RestoreInv`
says anything.

The second part of `HostReleaseProofs` is about `Maintenance`, whose events report what
became of a release (`MaintenanceEventInv`: `EventInv`). One conjunct more makes the invariant
inductive: what a run is about to say of a release is already true of it (`WordIsTrue`).

`OfflineReplayProofs` (`ReplayInv`, `KernelFollowsPackages`, `OtherMarkerKept`,
`ImplementsOneShot`). `StageInv` and `ExecInv` say what `stage` and `execute` have
established before each step, `JournalInv` what a killed process leaves (a transaction that
was started and not installed keeps its unit, so that it cannot be armed again),
`PackageInv` that what was applied is what is installed, `OtherInv` where the other manager
is. The refinement then goes step by step: every action arms, disarms, starts, installs,
gives up or completes one transaction, or stutters; a loss of power may bring back a
marker, which re-arms a transaction that was never started.

`PromotionProofs` (`BoundIsCertified`, `DeployedIsBound`, `BindingIsKept`). A binding comes
from the archive of a stage, this from what is published, and this from evidence that was
validated while its directories could still change. `PInv` says at every station what the
next one relies on: `Past` (no record is of a later day), `Issued` (every published archive
is certified), `SignerInv` (from the check on, what the signer has read is of one run in
order), `LinksInv`, `JobInv`, `MainInv`, `BoundInv` and `DeployInv`.

The second part of `PromotionProofs` is about the other thing that is published, the bases of
the labs (`LabAudited`: `PublishedIsAudited`; `LabSafe`: `InstancesInv`; `LabOwn`: the action
property `OnlyOwnIsChanged`). `Locks` says that every instance lock, cache lock and the lock of
the ports has one holder. `InstanceInv` is
what a process knows of the instance it has locked: where it is going to install or to
remove, the name has no domain of the lab, where it confirms, the marker already names the
domain, and while it boots, no other marker has its port. `StageInv` follows a stage: its
sources are not older than its key once it is built, it is clean once it is sanitized, and
audited before it is published; the key that is computed again before the rename then makes
key and sources equal, because sources are only followed by newer ones. `StepKeeps` shows
once that a step which changes only what its process holds keeps all this for the others.
That a UUID is always free (`FreshUuid`) is a counting argument: names have at most two each.

`ControllerProofs` (`ControllerInv`, `ImplementsRotation`), under the hypothesis
`RollsBackClosed = FALSE` and `RunsOlder = FALSE`, which findings 3 and 20 show to be
needed. A rollback installs what a
release saved and a retirement revokes what the state file names; the invariant says why
neither meets the other. `MemInv`: the running controller's copy agrees with the state
file. `StepInv`: what is established before each step. `FileInv`: no release after the
bound one was touched, and a lease is drawn only after its release has saved the key before
it. `KeyInv`: no release has saved the bound release's own lease, only the bound one may
have saved the previous lease, and that one is out of use from the delivery on. `AcceptInv`:
the key in use and every key a rollback can restore is accepted. The refinement follows: a
step that changes a lease issues or retires one, and any other keeps an accepted key in use.

`LifecycleProofs` (`LifecycleInv`, `LeaseKeepsFixture`, `InterruptedNeverPasses`). A recovery
knows nothing but the journal, so the invariant says for every run what each checkpoint in
it stands for (`Checkpointed`: for example, `certifier_secrets_purged` was saved before the
domain was destroyed, and an existing domain has a recorded pool), what a run nobody has
recorded is without (`Untouched`), what a finished one has lost (`Cleaned`), and that all a
credential needs exists while it may (`Reachable`). `ProvisionInv`, `LeaseInv` and `CleanInv`
say what is established before each step of a run and of a cleanup, `SlotInv` that dates are
used in order, which is why comparing with the active run only suffices for one run per
date. A step changes nothing of another run (`StepIsLocal`), so every action is looked at for
its own run. `InterruptedNeverPasses` has a temporal operator under an implication; it follows
from a predicate, `Doomed`, that an interrupted run satisfies and no step ends.

`SimpleInstallProofs` (`SimpleInv`, `ClosedMeansProved`, `ClosedStays`). `state.json` is saved
before the effect it describes, and a recovery can be cut off anywhere and be followed by a
deploy with the old token. `TrackInv`: an original that is not tracked is unchanged on the
host, and a tracked one is what the deployment found; the service ran under a recorded uid.
`BaseInv`: what it found was a running previous deployment with its account, or no data at
all. `BackupInv`: with a previous deployment the backup is complete before access is
touched. `RestoreInv`: what is already put back before each step of a recovery. `DeployInv`:
outside a recovery, and unless one was cut off, the narrowed access is still in place.
`ClosedStays` also needs that a process which means to prepare after its recovery finds the
phase `rolled-back` (`PhaseInv`), since its controller may have given up by then.

`LabGuestProofs` (`GuestInv`, `LiveSecretStaysInMemory`, `FailedMeansCleared`). What holds of
the guest depends on how much has gone wrong. `MemoryInv` holds always: the exclusive
creation of the secret never succeeds on the disk, and only `prepare`, with swap off, mounts
the memory. `CalmInv` holds until a job outlives its host command: then one job runs at a
time, it is a request that its program makes at that place (`Dues`), and the place says what
the guest looks like, for example that a `restore` finds both services stopped and an
`inject` a mounted memory. `FaultlessInv` adds, before the first fault, which image and which
schema of the state belong together at each place of a rehearsal. `JobStep` has once and for
all what a step of a job leaves to these invariants, so that every action only adds what it
changes itself.

Every invariant and every action property of the passing runs is stated by one of these
theorems. Only model-checked: liveness (`StoredAccountsAreCleanedUp`, `UpdateBootEnds`,
`StagedReleaseSettles`, `ClosedIsReported`,
`UnfinishedRunIsCleaned`, `IssuedLeaseIsRevoked`, `LatestIsShown`, `DeploymentSettles`), which
is out of the prover's reach.

## 6. Findings

1. The backup guard reads the journal before it takes the lock (`host.py:451`). If a
   deploy request stages the packages in between, the guard rolls back the
   application and writes `rolled-back` over `reboot-pending`, with the update armed. The
   run `host_guard_race` shows it.

The rest was met while modelling. A property of a passing run excepts the case, where it
has one, and names it in its comment; a hazard that a property excepts is listed in
`PROJECT.json` without one. `IssuedLeaseIsRevoked` excepts findings 2, 7 and 18.

2. An account whose identifier was saved but whose key was not can never be revoked:
   `revoke` decrypts the key first (`credentials.py:111`), although the comment at line 95
   promises that cleanup can identify it.
3. A second rollback of a release that had closed restores the revoked credential
   (`host.py:390`, `controller.py:176`); with `RollsBackClosed = TRUE` the controller does
   not implement `KeyRotation`.
4. A release that fails before or after drawing its lease makes the next one forget the
   lease in use, which is never revoked (`controller.py:166`).
5. The storage pool is made before `pool_owned` is saved (`lifecycle_fixture.py:209`); a
   failure in between leaves it for good, and every later run fails its preflight.
6. A run stopped while the fixture's disk is replaced (`lifecycle_fixture.py:430`) leaves a
   disk that does not boot, and cleanup wants to purge the guest before it removes it.
7. Cleanup of a certification reads the candidate before the lease (`certify.py:337`): a
   candidate that was changed keeps its credential from being revoked.
8. `docs/HERMES_UNATTENDED_DEPLOYMENT.md:335-336` keeps the evidence of a failed run from the
   signer; a run that fails in its last cleanup leaves a directory of gate records that
   the signer accepts (`certify.py:311`, `314-326`).
9. The certifier names its lease before it asks for it. Stopped in between, cleanup asks the
   broker to revoke a lease it does not know and fails each time.
10. Recovery of a redeployment by the simple installer raises `KeyError` when its uid was not
    saved (`simple/host.py:403`), as does every later one.
11. A recovery of the simple installer that ends early leaves the phase `access-confirmed`.
    A deploy with the same token then closes on a host whose access was restored, or whose
    data `data.py:66` had emptied and not yet filled.
12. The guard's timer is one-shot and its lock non-blocking: when it meets a request that
    holds `target.lock` it gives up, and a service stopped for a backup can stay stopped
    (`HostRelease!GuardEnds`).
13. `rollback` restores files before it changes the journal. A rollback in the seconds
    before the scheduled update reboot is cut off with the old credential restored under
    `reboot-pending`, and later requests close the release on that credential.
14. A kill between journalling `reboot-pending` or `persistence-reboot` and scheduling the
    reboot leaves a release that waits for an operator's reboot; one in
    `package-staging` needs OS recovery. `StagedReleaseSettles` shows there is no other way
    to be stuck after staging.
15. `finish()` cannot report completion while the broker has no usable record of the previous
    lease; `ClosedIsReported` excepts exactly that. An error of the broker's socket is an
    `OSError`, which `main` does not handle: the controller ends without its recovery
    (`Controller!CallFails`).
16. The answer to the certifier's deploy request is lost when the persistence reboot cuts
    the connection; the run then fails, safely.
17. The signer looks for a pending selection after the candidate was built, so a publication
    cut off in between uses up each later candidate until it is recovered.
18. The broker records a deletion when its answer arrives (`credentials.py:113-116`). When that
    answer is lost and the provider answers a second deletion with an error, as `Broker`
    takes it to, every later `revoke` of the lease fails: a run's cleanup never ends
    (`Lifecycle!RevokeStops`, `Certification!RevokeStops`), although the key is already dead.
19. The dispatcher starts `host.py` in a session of its own and without the lock's descriptor
    (`common.py:100-102`, `lock` at 86). A dispatcher that is killed alone frees `target.lock`
    while its `host.py` goes on, and the next request starts a second one beside it: of two in
    `install_runtime`, one can record a file that the other has just replaced as the previous
    one. The commands a killed `host.py` had started go on in the same way. This is read from
    the code and not modelled (`HostRelease!Die` ends both).
20. An earlier release can be run again until it expires (`release.py:53-57`). When its image
    is that of the release in use, the target finds it healthy and still says `closed`
    (`host.py:267-269`), so nothing is deployed and `finish()` revokes the key in use. With `RunsOlder = TRUE` and no fault the controller does not
    implement `KeyRotation`.

## 7. Not modelled

* The report and candidate bundle of the labs, `doctor`, profile validation, the rendering of
  units, `retire-legacy-labs.py` and `deepseek-test-grant.py`: they compare or move files
  and keep no control state of their own, or are one-off tools.
* The pure algorithms `expected_inventory` and `retain_backups`, and the field checks of
  `release.validate`.
* `lab_stage.py` and `lab_session.py`, which move files and open sessions; the gates of
  observation (SELinux, TPM, the external power proof), which are outcomes.
* A dispatcher killed alone and the commands that outlive a killed `host.py` (finding 19); two
  cleanups of the certifier at once, or an operator's command beside the one of a stopped
  service; the rollback of a closed release and the re-run of an older one (findings 3, 20).
* The boot chain and TPM enrolment, where what matters is what firmware and TPM do; the
  fault injection of the lab, whose faults are the failure actions of the modules.
* The one-command controller: the interactive predecessor of the unattended one.
* The manual profile, whose order is a runbook followed by an operator; SELinux and
  configuration tooling; toolbox, hypervisor and host set-up.

Signatures, digests and encryption are taken to work: a file that verifies is the file that
was signed. Operations that change nothing (`check`, `status`) are left out.
