---------------------------- MODULE HostRelease ----------------------------
(***************************************************************************)
(* One release on the target: the phase journal of scripts/hermes/         *)
(* unattended/host.py, run by the root dispatcher under target.lock, and   *)
(* the backup guard timer that runs beside it.                             *)
(*                                                                         *)
(* Every durable write is an action.  A running request can be killed, and *)
(* power lost, between any two (MaxFaults together).  A request whose      *)
(* require()s fail before its first write changes nothing and is not an    *)
(* action.  The package replay is taken at the level of OneShotUpdate: it  *)
(* is armed by staging and settles in the next boot.                       *)
(*                                                                         *)
(* A file's content is "old" (before this release; possibly absent) or     *)
(* "new".  `mem` is Host.state, the journal as the process read it.        *)
(***************************************************************************)
EXTENDS Naturals, FiniteSets

CONSTANTS
    Paths,          \* the installer-owned application files
    Captured,       \* those capture_application always saves
    Cred,           \* CREDENTIAL, one of the captured files
    MaxFaults       \* bound on kills and losses of power

ASSUME HostAssumption ==
    /\ Captured \subseteq Paths
    /\ Cred \in Captured
    /\ MaxFaults \in Nat

VARIABLES
    j,          \* <release>.state.json
    prev,       \* <release>.previous: the saved application files
    snapshot,   \* <release>.snapshot.tar
    files,      \* the application files
    active,     \* is hermes.service running
    replay,     \* the staged package transaction
    packages,
    boot, mode, \* number of the current boot; "normal" or "update"
    reboot,     \* a delayed `systemctl reboot` is scheduled
    lock,       \* holder of target.lock
    proc,       \* the process that holds it
    guard,      \* the backup guard: its timer, and what it read
    acked, installedBoot, acceptedBoot, everClosed,  \* history
    faults

journalVars == <<j, prev, snapshot>>
systemVars  == <<files, active, replay, packages, boot, mode, reboot>>
histVars    == <<acked, installedBoot, acceptedBoot, everClosed>>
vars == <<j, prev, snapshot, files, active, replay, packages, boot, mode, reboot,
          lock, proc, guard, acked, installedBoot, acceptedBoot, everClosed, faults>>

PrePackage == {"snapshot-creating", "snapshot-ready", "backup-verified", "credential-ready"}
Phases == PrePackage \cup
    {"new", "package-staging", "reboot-pending", "runtime-pending", "runtime-installed",
     "persistence-reboot", "closed", "rolled-back", "recovery-required"}
Steps == {"none", "stream", "mkdir", "copy", "mark", "journal", "arm", "stop", "tar", "tarEnd", "ready",
          "encrypt", "credential", "stage", "staged", "scheduleUpdate",
          "track", "write", "installed", "accept", "persist", "schedulePersist", "unlinkSnapshot", "close",
          "rbStop", "rbRestore"}

Journal == [phase: Phases, prevActive: BOOLEAN, bootBefore: Nat, runtimeBoot: Nat,
            sha: {"none", "partial", "full"}]
NewJournal == [phase |-> "new", prevActive |-> FALSE, bootBefore |-> 0, runtimeBoot |-> 0,
               sha |-> "none"]
Process == [step: Steps, mem: Journal, todo: SUBSET Paths, path: Paths]
SavedFiles == [made: BOOLEAN, complete: BOOLEAN, saved: [Paths -> {"none", "old", "new"}]]
NoProc == [step |-> "none", mem |-> NewJournal, todo |-> {}, path |-> Cred]

TypeOK ==
    /\ j \in Journal
    /\ prev \in SavedFiles
    /\ snapshot \in {"none", "partial", "full"}
    /\ files \in [Paths -> {"old", "new"}]
    /\ active \in BOOLEAN
    /\ replay \in [status: {"none", "armed", "complete", "failed"}, boot: Nat]
    /\ packages \in {"base", "after", "damaged"}
    /\ boot \in Nat /\ mode \in {"normal", "update"} /\ reboot \in BOOLEAN
    /\ lock \in {"free", "dispatcher", "guard"}
    /\ proc \in Process
    /\ guard \in [timer: {"none", "armed", "read"}, mem: Journal]
    /\ acked \in {"none", "partial", "full"}
    /\ installedBoot \in Nat /\ acceptedBoot \in Nat /\ everClosed \in BOOLEAN
    /\ faults \in 0..MaxFaults

(* Boot numbers start at 1; 0 stands for "not recorded".                   *)
Init ==
    /\ j = NewJournal
    /\ prev = [made |-> FALSE, complete |-> FALSE, saved |-> [p \in Paths |-> "none"]]
    /\ snapshot = "none"
    /\ files = [p \in Paths |-> "old"]
    /\ active \in BOOLEAN
    /\ replay = [status |-> "none", boot |-> 0]
    /\ packages = "base"
    /\ boot = 1 /\ mode = "normal" /\ reboot = FALSE
    /\ lock = "free"
    /\ proc = NoProc
    /\ guard = [timer |-> "none", mem |-> NewJournal]
    /\ acked = "none" /\ installedBoot = 0 /\ acceptedBoot = 0 /\ everClosed = FALSE
    /\ faults = 0

-----------------------------------------------------------------------------
(* The process under the lock.                                             *)

At(step) == proc.step = step
Goto(step) == proc' = [proc EXCEPT !.step = step]
Release == proc' = NoProc /\ lock' = "free"

(* Host.save: update the memory copy and replace the journal.              *)
Saved(m) == j' = m
SaveGoto(step, m) == Saved(m) /\ proc' = [proc EXCEPT !.step = step, !.mem = m]
SaveRelease(m) == Saved(m) /\ Release

(* The dispatcher takes the lock, verifies the tree and starts host.py,    *)
(* which reads the journal under the lock.                                 *)
Request(step) ==
    /\ lock = "free" /\ mode = "normal"
    /\ lock' = "dispatcher"
    /\ proc' = [step |-> step, mem |-> j, todo |-> {}, path |-> Cred]
    /\ UNCHANGED <<journalVars, systemVars, guard, histVars, faults>>

-----------------------------------------------------------------------------
(* snapshot_data, with capture_application                                 *)

(* A complete set of saved files is kept; an incomplete one is refused.    *)
RequestSnapshot ==
    /\ j.phase = "new"
    /\ prev.made => prev.complete
    /\ Request(IF prev.made THEN "journal" ELSE "mkdir")

CaptureMkdir ==
    /\ At("mkdir")
    /\ prev' = [prev EXCEPT !.made = TRUE]
    /\ Goto("copy")
    /\ UNCHANGED <<j, snapshot, systemVars, lock, guard, histVars, faults>>

CaptureCopy ==
    /\ At("copy")
    /\ prev' = [prev EXCEPT !.saved = [p \in Paths |-> IF p \in Captured THEN files[p] ELSE @[p]]]
    /\ Goto("mark")
    /\ UNCHANGED <<j, snapshot, systemVars, lock, guard, histVars, faults>>

CaptureMark ==
    /\ At("mark")
    /\ prev' = [prev EXCEPT !.complete = TRUE]
    /\ Goto("journal")
    /\ UNCHANGED <<j, snapshot, systemVars, lock, guard, histVars, faults>>

SnapshotJournal ==
    /\ At("journal")
    /\ SaveGoto("arm", [proc.mem EXCEPT !.phase = "snapshot-creating", !.prevActive = active])
    /\ UNCHANGED <<prev, snapshot, systemVars, lock, guard, histVars, faults>>

SnapshotArmGuard ==
    /\ At("arm")
    /\ guard' = [guard EXCEPT !.timer = "armed"]
    /\ Goto("stop")
    /\ UNCHANGED <<journalVars, systemVars, lock, histVars, faults>>

SnapshotStop ==
    /\ At("stop")
    /\ active' = FALSE
    /\ Goto("tar")
    /\ UNCHANGED <<journalVars, files, replay, packages, boot, mode, reboot, lock, guard, histVars, faults>>

(* open(..., "xb") refuses an existing file.                               *)
SnapshotTar ==
    /\ At("tar")
    /\ snapshot = "none"
    /\ snapshot' = "partial"
    /\ Goto("tarEnd")
    /\ UNCHANGED <<j, prev, systemVars, lock, guard, histVars, faults>>

SnapshotTarEnd ==
    /\ At("tarEnd")
    /\ snapshot' = "full"
    /\ Goto("ready")
    /\ UNCHANGED <<j, prev, systemVars, lock, guard, histVars, faults>>

SnapshotReady ==
    /\ At("ready")
    /\ SaveRelease([proc.mem EXCEPT !.phase = "snapshot-ready", !.sha = snapshot])
    /\ UNCHANGED <<prev, snapshot, systemVars, guard, histVars, faults>>

(* acknowledge_backup: a single write.  The digest in the message is that  *)
(* of whatever the controller fetched.                                     *)
AcknowledgeBackup(sha) ==
    /\ lock = "free" /\ mode = "normal"
    /\ j.phase \in {"snapshot-ready", "backup-verified"}
    /\ sha = j.sha
    /\ j' = [j EXCEPT !.phase = "backup-verified"]
    /\ acked' = sha
    /\ UNCHANGED <<prev, snapshot, systemVars, lock, proc, guard, installedBoot, acceptedBoot,
                   everClosed, faults>>

(* The dispatcher streams the snapshot to the controller, under the lock.  *)
RequestBackup ==
    /\ snapshot # "none"
    /\ Request("stream")

StreamEnds ==
    /\ At("stream")
    /\ Release
    /\ UNCHANGED <<journalVars, systemVars, guard, histVars, faults>>

(* Mutant of RequestCredential: it does not wait for the backup.           *)
RequestCredentialEarly ==
    /\ j.phase \in {"snapshot-ready", "backup-verified", "credential-ready"}
    /\ Request("encrypt")

(* credential                                                              *)
RequestCredential ==
    /\ j.phase \in {"backup-verified", "credential-ready"}
    /\ Request("encrypt")

CredentialWrite ==
    /\ At("encrypt")
    /\ files' = [files EXCEPT ![Cred] = "new"]
    /\ Goto("credential")
    /\ UNCHANGED <<journalVars, active, replay, packages, boot, mode, reboot, lock, guard, histVars, faults>>

CredentialReady ==
    /\ At("credential")
    /\ SaveRelease([proc.mem EXCEPT !.phase = "credential-ready"])
    /\ UNCHANGED <<prev, snapshot, systemVars, guard, histVars, faults>>

-----------------------------------------------------------------------------
(* advance (deploy, upgrade)                                               *)

(* phase credential-ready: preflight, baseline, boot image; then the write *)
(* that makes the release irreversible by application means.               *)
AdvancePackages ==
    /\ lock = "free" /\ mode = "normal"
    /\ j.phase = "credential-ready"
    /\ packages = "base"
    /\ LET m == [j EXCEPT !.phase = "package-staging", !.bootBefore = boot]
       IN  j' = m /\ proc' = [step |-> "stage", mem |-> m, todo |-> {}, path |-> Cred]
    /\ lock' = "dispatcher"
    /\ UNCHANGED <<prev, snapshot, systemVars, guard, histVars, faults>>

StagePackages ==
    /\ At("stage")
    /\ replay.status = "none"
    /\ replay' = [replay EXCEPT !.status = "armed"]
    /\ Goto("staged")
    /\ UNCHANGED <<journalVars, files, active, packages, boot, mode, reboot, lock, guard, histVars, faults>>

RebootPending ==
    /\ At("staged")
    /\ SaveGoto("scheduleUpdate", [proc.mem EXCEPT !.phase = "reboot-pending"])
    /\ UNCHANGED <<prev, snapshot, systemVars, lock, guard, histVars, faults>>

(* Mutant of ScheduleReboot: the request ends without scheduling it.       *)
ScheduleRebootForgotten ==
    /\ proc.step \in {"scheduleUpdate", "schedulePersist"}
    /\ Release
    /\ UNCHANGED <<journalVars, systemVars, guard, histVars, faults>>

ScheduleReboot ==
    /\ proc.step \in {"scheduleUpdate", "schedulePersist"}
    /\ reboot' = TRUE
    /\ Release
    /\ UNCHANGED <<journalVars, files, active, replay, packages, boot, mode, guard, histVars, faults>>

(* phase reboot-pending: a changed boot is not enough.                     *)
AdvanceAfterUpdate ==
    /\ lock = "free" /\ mode = "normal"
    /\ j.phase = "reboot-pending"
    /\ boot # j.bootBefore
    /\ packages = "after"
    /\ replay.status = "complete" /\ replay.boot # boot
    /\ LET m == [j EXCEPT !.phase = "runtime-pending"]
       IN  j' = m /\ proc' = [step |-> "track", mem |-> m, todo |-> Paths \ {Cred}, path |-> Cred]
    /\ lock' = "dispatcher"
    /\ UNCHANGED <<prev, snapshot, systemVars, guard, histVars, faults>>

(* Mutant of AdvanceRuntime: the persistence reboot is not waited for.     *)
AdvanceRuntimeSameBoot ==
    /\ lock = "free" /\ mode = "normal"
    /\ j.phase \in {"runtime-pending", "runtime-installed", "persistence-reboot"}
    /\ lock' = "dispatcher"
    /\ proc' = [step |-> IF j.phase = "runtime-pending" THEN "track" ELSE "accept", mem |-> j,
                todo |-> IF j.phase = "runtime-pending" THEN Paths \ {Cred} ELSE {}, path |-> Cred]
    /\ UNCHANGED <<journalVars, systemVars, guard, histVars, faults>>

AdvanceRuntime ==
    /\ lock = "free" /\ mode = "normal"
    /\ \/ j.phase \in {"runtime-pending", "runtime-installed"}
       \/ j.phase = "persistence-reboot" /\ boot # j.runtimeBoot
    /\ lock' = "dispatcher"
    /\ proc' = IF j.phase = "runtime-pending"
                 THEN [step |-> "track", mem |-> j, todo |-> Paths \ {Cred}, path |-> Cred]
                 ELSE [step |-> "accept", mem |-> j, todo |-> {}, path |-> Cred]
    /\ UNCHANGED <<journalVars, systemVars, guard, histVars, faults>>

(* Mutant of TrackPath: a file is tracked each time it is installed.       *)
TrackPathAgain(p) ==
    /\ At("track")
    /\ p \in proc.todo
    /\ prev' = [prev EXCEPT !.saved[p] = files[p]]
    /\ proc' = [proc EXCEPT !.step = "write", !.todo = @ \ {p}, !.path = p]
    /\ UNCHANGED <<j, snapshot, systemVars, lock, guard, histVars, faults>>

(* install_runtime: each file is tracked once, before it is replaced.      *)
TrackPath(p) ==
    /\ At("track")
    /\ p \in proc.todo
    /\ prev' = IF prev.saved[p] = "none" THEN [prev EXCEPT !.saved[p] = files[p]] ELSE prev
    /\ proc' = [proc EXCEPT !.step = "write", !.todo = @ \ {p}, !.path = p]
    /\ UNCHANGED <<j, snapshot, systemVars, lock, guard, histVars, faults>>

WritePath ==
    /\ At("write")
    /\ files' = [files EXCEPT ![proc.path] = "new"]
    /\ Goto(IF proc.todo = {} THEN "installed" ELSE "track")
    /\ UNCHANGED <<journalVars, active, replay, packages, boot, mode, reboot, lock, guard, histVars, faults>>

RuntimeInstalled ==
    /\ At("installed")
    /\ active' = TRUE
    /\ installedBoot' = boot
    /\ SaveGoto("accept", [proc.mem EXCEPT !.phase = "runtime-installed"])
    /\ UNCHANGED <<prev, snapshot, files, replay, packages, boot, mode, reboot, lock, guard,
                   acked, acceptedBoot, everClosed, faults>>

(* acceptance (and, after the persistence reboot, wait_health before and   *)
(* preflight after it) passed.                                             *)
Accept ==
    /\ At("accept")
    /\ acceptedBoot' = boot
    /\ Goto(IF proc.mem.phase = "persistence-reboot" THEN "unlinkSnapshot" ELSE "persist")
    /\ UNCHANGED <<journalVars, systemVars, lock, guard, acked, installedBoot, everClosed, faults>>

PersistenceReboot ==
    /\ At("persist")
    /\ SaveGoto("schedulePersist", [proc.mem EXCEPT !.phase = "persistence-reboot", !.runtimeBoot = boot])
    /\ UNCHANGED <<prev, snapshot, systemVars, lock, guard, histVars, faults>>

UnlinkSnapshot ==
    /\ At("unlinkSnapshot")
    /\ snapshot' = "none"
    /\ Goto("close")
    /\ UNCHANGED <<j, prev, systemVars, lock, guard, histVars, faults>>

Close ==
    /\ At("close")
    /\ SaveRelease([proc.mem EXCEPT !.phase = "closed"])
    /\ everClosed' = TRUE
    /\ UNCHANGED <<prev, snapshot, systemVars, guard, acked, installedBoot, acceptedBoot, faults>>

(* A Failure in the runtime part of advance rolls the application back.    *)
RuntimeFails ==
    /\ proc.step \in {"track", "write", "installed", "accept", "schedulePersist"}
    /\ Goto("rbStop")
    /\ UNCHANGED <<journalVars, systemVars, lock, guard, histVars, faults>>

-----------------------------------------------------------------------------
(* rollback                                                                *)

(* The dispatcher serves it in any phase and outside the window.           *)
RequestRollback ==
    /\ prev.complete
    /\ Request("rbStop")

SavedPaths == {p \in Paths: prev.saved[p] # "none"}

(* Mutant of RollbackStop: files tracked after the capture are forgotten.  *)
RollbackStopCaptured ==
    /\ At("rbStop")
    /\ prev.complete
    /\ active' = FALSE
    /\ proc' = [proc EXCEPT !.step = "rbRestore",
                            !.todo = Captured \ (IF proc.mem.phase = "closed" THEN {Cred} ELSE {})]
    /\ UNCHANGED <<journalVars, files, replay, packages, boot, mode, reboot, lock, guard, histVars, faults>>

RollbackStop ==
    /\ At("rbStop")
    /\ prev.complete
    /\ active' = FALSE
    /\ proc' = [proc EXCEPT !.step = "rbRestore",
                            !.todo = SavedPaths \ (IF proc.mem.phase = "closed" THEN {Cred} ELSE {})]
    /\ UNCHANGED <<journalVars, files, replay, packages, boot, mode, reboot, lock, guard, histVars, faults>>

RollbackRestore(p) ==
    /\ At("rbRestore")
    /\ p \in proc.todo
    /\ files' = [files EXCEPT ![p] = prev.saved[p]]
    /\ proc' = [proc EXCEPT !.todo = @ \ {p}]
    /\ UNCHANGED <<journalVars, active, replay, packages, boot, mode, reboot, lock, guard, histVars, faults>>

(* Restart what ran before; the old image must become healthy.             *)
RollbackDone ==
    /\ At("rbRestore") /\ proc.todo = {}
    /\ active' = proc.mem.prevActive
    /\ SaveRelease([proc.mem EXCEPT !.phase = "rolled-back"])
    /\ UNCHANGED <<prev, snapshot, files, replay, packages, boot, mode, reboot, guard, histVars, faults>>

RollbackUnhealthy ==
    /\ At("rbRestore") /\ proc.todo = {}
    /\ active' \in {FALSE, proc.mem.prevActive}
    /\ SaveRelease([proc.mem EXCEPT !.phase = "recovery-required"])
    /\ UNCHANGED <<prev, snapshot, files, replay, packages, boot, mode, reboot, guard, histVars, faults>>

-----------------------------------------------------------------------------
(* The backup guard: main() builds Host, and with it reads the journal,    *)
(* before it takes the lock.                                               *)

GuardRead ==
    /\ mode = "normal"
    /\ guard.timer = "armed"
    /\ guard' = [timer |-> "read", mem |-> j]
    /\ UNCHANGED <<journalVars, systemVars, lock, proc, histVars, faults>>

GuardRollback ==
    /\ guard.timer = "read"
    /\ lock = "free"
    /\ guard.mem.phase \in PrePackage
    /\ lock' = "guard"
    /\ proc' = [step |-> "rbStop", mem |-> guard.mem, todo |-> {}, path |-> Cred]
    /\ guard' = [guard EXCEPT !.timer = "none"]
    /\ UNCHANGED <<journalVars, systemVars, histVars, faults>>

(* Nothing to undo, or the lock is busy: the one-shot timer is spent.      *)
GuardEnds ==
    /\ guard.timer = "read"
    /\ lock # "free" \/ guard.mem.phase \notin PrePackage
    /\ guard' = [guard EXCEPT !.timer = "none"]
    /\ UNCHANGED <<journalVars, systemVars, lock, proc, histVars, faults>>

-----------------------------------------------------------------------------
(* The environment.                                                        *)

(* A command fails outside advance's try, or host.py outlasts the          *)
(* dispatcher's 1500 s and is killed by it: the request is over and the    *)
(* lock is free.  A dispatcher killed alone is not modelled: host.py, in a *)
(* session of its own, would go on without target.lock.                    *)
Die ==
    /\ lock # "free"
    /\ faults < MaxFaults
    /\ faults' = faults + 1
    /\ Release
    /\ UNCHANGED <<journalVars, systemVars, guard, histVars>>

(* Transient units do not survive; enabled services may start.             *)
Restart ==
    /\ boot' = boot + 1
    /\ mode' = IF replay.status = "armed" THEN "update" ELSE "normal"
    /\ reboot' = FALSE
    /\ active' \in BOOLEAN
    /\ Release
    /\ guard' = [timer |-> "none", mem |-> NewJournal]
    /\ UNCHANGED <<journalVars, files, replay, packages, histVars>>

ScheduledReboot ==
    /\ reboot
    /\ Restart
    /\ UNCHANGED faults

PowerLoss ==
    /\ faults < MaxFaults
    /\ faults' = faults + 1
    /\ mode = "normal"
    /\ Restart

(* The offline replay settles, and the machine reboots into normal mode.   *)
UpdateBoot ==
    /\ mode = "update"
    /\ \/ packages' = "after" /\ replay' = [status |-> "complete", boot |-> boot]
       \/ packages' \in {"base", "damaged"} /\ replay' = [status |-> "failed", boot |-> boot]
    /\ boot' = boot + 1
    /\ mode' = "normal"
    /\ active' \in BOOLEAN
    /\ UNCHANGED <<journalVars, files, reboot, lock, proc, guard, histVars, faults>>

-----------------------------------------------------------------------------
SnapshotStep == \/ CaptureMkdir \/ CaptureCopy \/ CaptureMark \/ SnapshotJournal \/ SnapshotArmGuard
                \/ SnapshotStop \/ SnapshotTar \/ SnapshotTarEnd \/ SnapshotReady
AdvanceStep  == \/ StagePackages \/ RebootPending \/ ScheduleReboot
                \/ WritePath \/ (\E p \in Paths: TrackPath(p))
                \/ RuntimeInstalled \/ Accept \/ PersistenceReboot \/ UnlinkSnapshot \/ Close
                \/ RuntimeFails
RollbackStep == \/ RollbackStop \/ (\E p \in Paths: RollbackRestore(p))
                \/ RollbackDone \/ RollbackUnhealthy
HostStep == SnapshotStep \/ StreamEnds \/ CredentialWrite \/ CredentialReady \/ AdvanceStep \/ RollbackStep
Advance  == AdvancePackages \/ AdvanceAfterUpdate \/ AdvanceRuntime

Next ==
    \/ RequestSnapshot \/ RequestBackup \/ RequestCredential \/ RequestRollback \/ Advance
    \/ \E sha \in {"none", "partial", "full"}: AcknowledgeBackup(sha)
    \/ HostStep
    \/ GuardRead \/ GuardRollback \/ GuardEnds
    \/ Die \/ ScheduledReboot \/ PowerLoss \/ UpdateBoot

Spec == Init /\ [][Next]_vars

(* A started request goes on, a scheduled reboot and an update boot        *)
(* happen, and the controller keeps polling with `upgrade`.                *)
Fairness == /\ WF_vars(HostStep) /\ WF_vars(ScheduledReboot) /\ WF_vars(UpdateBoot)
            /\ SF_vars(Advance)
PollingSpec == Spec /\ Fairness

-----------------------------------------------------------------------------
(* Properties.                                                             *)

(* No application file is changed unless its earlier content is saved in   *)
(* a complete set of saved files, so whatever happens next can be undone.  *)
(* A repeated install_runtime must not take the new content for the old.   *)
SavedBeforeChanged ==
    \A p \in Paths: files[p] = "new" => prev.complete /\ prev.saved[p] = "old"

(* A journal that says rolled-back means every file is back, except that a *)
(* release that was once closed keeps the credential it was accepted with. *)
RolledBackMeansRestored ==
    j.phase = "rolled-back" /\ lock = "free" =>
        \A p \in Paths: files[p] = "old" \/ (p = Cred /\ everClosed)

(* "A changed boot ID alone does not prove RPM transaction success" and an *)
(* independent persistence reboot is required: a release is closed only if *)
(* its replay ran in a boot after staging, the runtime was installed in a  *)
(* later one, and it was accepted in a boot later still, from a verified   *)
(* full backup.                                                            *)
ClosedMeansProved ==
    j.phase = "closed" =>
        /\ acked = "full"
        /\ packages = "after"
        /\ j.bootBefore < replay.boot
        /\ replay.boot < installedBoot
        /\ installedBoot < acceptedBoot

(* Packages are not touched before a full backup was acknowledged, and the *)
(* journal never calls a cut-off archive a snapshot.                       *)
BackupBeforePackages ==
    /\ replay.status # "none" => acked = "full"
    /\ j.sha \in {"none", "full"}

(* While the controller polls, a release whose packages were staged ends   *)
(* closed or rolled back, or its replay failed.  The only other way out is *)
(* a request that was killed before it had scheduled the reboot its        *)
(* journal waits for: that is left to the operator.                        *)
Settled == \/ j.phase \in {"closed", "rolled-back", "recovery-required"}
           \/ replay.status = "failed"
CutOff  == /\ faults > 0 /\ lock = "free" /\ mode = "normal" /\ ~reboot
           /\ \/ j.phase = "package-staging"
              \/ j.phase = "reboot-pending" /\ boot = j.bootBefore
              \/ j.phase = "persistence-reboot" /\ boot = j.runtimeBoot
StagedReleaseSettles == (replay.status = "armed") ~> (Settled \/ CutOff)

(* "Once package staging starts, retain state and require OS recovery      *)
(* instead of guessing rollback": the guard never overwrites the journal   *)
(* of a release that is past the credential.                               *)
GuardSparesPackages ==
    [][lock = "guard" /\ j' # j => j.phase \in PrePackage \cup {"rolled-back", "recovery-required"}]_vars

-----------------------------------------------------------------------------
(* The inductive invariant behind the safety properties above.             *)

Staged  == {"package-staging", "reboot-pending"}
Runtime == {"runtime-pending", "runtime-installed", "persistence-reboot", "closed"}

(* A request of the dispatcher owns the journal, so its copy is current,   *)
(* and its step tells the phase it was admitted in.  Only the guard works  *)
(* from a copy that may be stale, and it does nothing but roll back.       *)
LockInv ==
    /\ lock = "free" => proc.step = "none"
    /\ lock = "guard" => proc.step \in {"rbStop", "rbRestore"} /\ proc.mem.phase \in PrePackage
    /\ lock = "dispatcher" =>
        /\ proc.mem = j /\ mode = "normal"
        /\ At("mkdir") \/ At("copy") \/ At("mark") \/ At("journal") => j.phase = "new"
        /\ At("arm") \/ At("stop") \/ At("tar") \/ At("tarEnd") \/ At("ready") =>
              j.phase = "snapshot-creating"
        /\ At("encrypt") \/ At("credential") => j.phase \in {"backup-verified", "credential-ready"}
        /\ At("stage") \/ At("staged") => j.phase = "package-staging"
        /\ At("scheduleUpdate") => j.phase = "reboot-pending"
        /\ At("track") \/ At("write") \/ At("installed") => j.phase = "runtime-pending"
        /\ At("accept") => j.phase \in {"runtime-installed", "persistence-reboot"}
        /\ At("persist") => j.phase = "runtime-installed"
        /\ At("schedulePersist") \/ At("unlinkSnapshot") \/ At("close") => j.phase = "persistence-reboot"

(* What is saved is the old content, and is complete before anything that  *)
(* could change a file is reachable.                                       *)
SavedInv ==
    /\ prev.complete => prev.made
    /\ \A p \in Paths: prev.saved[p] # "new"
    /\ prev.complete \/ At("mark") => \A p \in Captured: prev.saved[p] = "old"
    /\ At("mkdir") \/ At("copy") \/ At("mark") => ~prev.complete
    /\ At("copy") \/ At("mark") => prev.made
    /\ lock # "free" /\ proc.step \notin {"stream", "mkdir", "copy", "mark"} => prev.complete
    /\ At("write") => prev.saved[proc.path] = "old"
    /\ j.phase # "new" => prev.complete
    /\ guard.mem.phase # "new" => prev.complete
    /\ SavedBeforeChanged

(* A running rollback has only saved files, and every changed one, ahead   *)
(* of it.                                                                  *)
RestoreInv ==
    /\ j.phase = "closed" => everClosed
    /\ At("rbRestore") => \A p \in proc.todo: prev.saved[p] = "old"
    /\ At("rbRestore") =>
         \A p \in Paths: files[p] = "new" => p \in proc.todo \/ (p = Cred /\ everClosed)
    /\ j.phase = "rolled-back" => \A p \in Paths: files[p] = "old" \/ (p = Cred /\ everClosed)

(* A digest in the journal is that of a whole archive, and a phase past    *)
(* backup-verified means it was acknowledged.                              *)
BackupInv ==
    /\ j.sha # "partial" /\ guard.mem.sha # "partial" /\ proc.mem.sha # "partial"
    /\ j.phase \notin {"new", "snapshot-creating", "rolled-back", "recovery-required"} => j.sha = "full"
    /\ At("ready") => snapshot = "full"
    /\ j.phase \in {"backup-verified", "credential-ready"} \cup Staged \cup Runtime => acked = "full"
    /\ replay.status # "none" => acked = "full"

(* The order of the boots: staging, replay, installation, acceptance.      *)
BootInv ==
    /\ replay.status # "none" => j.phase \notin PrePackage \cup {"new"}
    /\ mode = "update" => replay.status = "armed"
    /\ replay.status = "complete" => packages = "after" /\ replay.boot < boot
    /\ j.phase \in Staged =>
         /\ j.bootBefore <= boot
         /\ mode = "update" => j.bootBefore < boot
         /\ replay.status = "complete" => j.bootBefore < replay.boot
    /\ j.phase \in Runtime => replay.status = "complete" /\ j.bootBefore < replay.boot
    /\ j.phase \in Runtime \ {"runtime-pending"} => replay.boot < installedBoot /\ installedBoot <= boot
    /\ j.phase = "persistence-reboot" => installedBoot <= j.runtimeBoot /\ j.runtimeBoot <= boot
    /\ lock = "dispatcher" /\ At("accept") /\ j.phase = "persistence-reboot" => j.runtimeBoot < boot
    /\ At("unlinkSnapshot") \/ At("close") => acceptedBoot = boot /\ installedBoot < boot
    /\ j.phase = "closed" => installedBoot < acceptedBoot

(* Every action keeps the conjunction (HostReleaseProofs).                 *)
IInv == TypeOK /\ LockInv /\ SavedInv /\ RestoreInv /\ BackupInv /\ BootInv
=============================================================================
