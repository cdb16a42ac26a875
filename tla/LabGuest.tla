------------------------------ MODULE LabGuest ------------------------------
(***************************************************************************)
(* One disposable lab guest: what scripts/hermes/profile-deploy.py,        *)
(* live-guest.py and lab_guest.py do inside it, and the host commands of   *)
(* vm/hermes-disposable.py and scripts/hermes/lab.py that send them.       *)
(*                                                                         *)
(* The host runs one command at a time (the instance lock), and a command  *)
(* is a few guest jobs, one after the other.  A host command that is       *)
(* interrupted, or whose transport times out, leaves its job running: the  *)
(* next command's jobs run beside it.  In the guest only profile-deploy,   *)
(* backup and restore take the deployment lock; live-guest does not.       *)
(*                                                                         *)
(* The gateway's state directory is on the guest's disk, or hidden under a *)
(* tmpfs that holds the live credentials.  A state tree has the schema of  *)
(* the newest image that ran on it.                                        *)
(***************************************************************************)
EXTENDS Naturals, Sequences, FiniteSets

CONSTANTS
    Trees,          \* the state trees that backup and restore handle
    StateTree,      \* the gateway's own
    MaxScripts,     \* host commands
    MaxFaults       \* interruptions, failures and power losses

ASSUME LabGuestAssumption == StateTree \in Trees /\ MaxScripts \in Nat /\ MaxFaults \in Nat

VARIABLES
    guest,      \* the guest's mounts, profile environment, services and units
    tree,       \* the schema of every state tree
    moved,      \* the trees a restore has set aside, with what they held
    archive,    \* /var/tmp/hermes-lab-state.tar
    holder,     \* the job with the deployment lock, or 0
    job,        \* the guest jobs
    host,       \* the host command
    scripts,    \* commands begun
    orphaned,   \* history: a job outlived its host command
    abandoned,  \* history: a boot or a new command found trees set aside
    faults

vars == <<guest, tree, moved, archive, holder, job, host, scripts, orphaned, abandoned, faults>>

Jobs == {1, 2}
Images == {1, 2}                \* the baseline's and the candidate's
Schemas == {0} \cup Images
Newer(a, b) == IF a > b THEN a ELSE b
Untaken == [taken |-> FALSE, schemas |-> [t \in Trees |-> 0], secret |-> FALSE]

(* env is the profile environment on disk, tmp the one on the tmpfs; unit  *)
(* and image are those of the installed Quadlets, running the gateway's.   *)
Guest == [mounted: BOOLEAN, tmp: {"none", "live"}, env: {"none", "synthetic", "live"}, swap: BOOLEAN,
          gateway: BOOLEAN, worker: BOOLEAN, running: Schemas, unit: {"none", "synthetic", "live"}, image: Schemas]

Ops == {"apply", "prepare", "inject", "clear", "backup", "stop", "restore", "none"}
Command == [op: Ops \cup {"reboot"}, mode: {"synthetic", "live"}, image: Images]
Job == [op: Ops,
        step: {"idle", "lock", "instance", "configure", "units", "restart", "verify", "mount", "umount", "write",
               "stop", "tar", "swap", "undo", "end"},
        mode: {"synthetic", "live"}, image: Images,
        prior: SUBSET {"gateway", "worker"}, ok: {"yes", "no", "open"}]
NoJob == [op |-> "none", step |-> "idle", mode |-> "synthetic", image |-> 1, prior |-> {}, ok |-> "open"]

Programs == {"none", "deploy", "live-start", "live-undo", "live-stop", "candidate", "isolated"}
NoScript == [name |-> "none", rest |-> <<>>, job |-> 0, result |-> "none"]

TypeOK ==
    /\ guest \in Guest
    /\ tree \in [Trees -> Schemas]
    /\ moved \in [Trees -> Schemas \cup {9}]
    /\ archive \in [taken: BOOLEAN, schemas: [Trees -> Schemas], secret: BOOLEAN]
    /\ holder \in Jobs \cup {0}
    /\ job \in [Jobs -> Job]
    /\ host.name \in Programs /\ host.job \in Jobs \cup {0}
    /\ \A i \in DOMAIN host.rest : host.rest[i] \in Command
    /\ host.result \in {"none", "ready", "failed", "undone", "inspect"}
    /\ scripts \in 0..MaxScripts /\ faults \in 0..MaxFaults
    /\ orphaned \in BOOLEAN /\ abandoned \in BOOLEAN
    /\ holder # 0 => job[holder].op \in {"apply", "backup", "restore"} /\ job[holder].step \notin {"lock", "end"}

(* A guest that was brought up with the baseline.                          *)
Init ==
    /\ guest = [mounted |-> FALSE, tmp |-> "none", env |-> "synthetic", swap |-> TRUE, gateway |-> TRUE,
                worker |-> TRUE, running |-> 1, unit |-> "synthetic", image |-> 1]
    /\ tree = [t \in Trees |-> 1]
    /\ moved = [t \in Trees |-> 9]
    /\ archive = Untaken
    /\ holder = 0
    /\ job = [n \in Jobs |-> NoJob]
    /\ host = NoScript
    /\ scripts = 0
    /\ orphaned = FALSE
    /\ abandoned = FALSE
    /\ faults = 0

-----------------------------------------------------------------------------
At(n, op, step) == job[n].op = op /\ job[n].step = step
To(n, step) == job' = [job EXCEPT ![n].step = step]
Finish(n, ok) == job' = [job EXCEPT ![n].step = "end", ![n].ok = ok]
Fault == faults < MaxFaults /\ faults' = faults + 1
rest == <<host, scripts, orphaned, abandoned, faults>>

Env == IF guest.mounted THEN guest.tmp ELSE guest.env
Synthetic == ~guest.mounted /\ guest.env = "synthetic"
Whole == \A t \in Trees : moved[t] = 9

(* The gateway comes up with the installed units; what it keeps on disk is *)
(* brought to its image's schema.                                          *)
Started(g) == [g EXCEPT !.gateway = TRUE, !.running = g.image]
Upgraded(g, image) == IF g.mounted THEN tree ELSE [tree EXCEPT ![StateTree] = Newer(@, image)]

(* flock(LOCK_NB): a job that does not get the lock fails.                 *)
Lock(n, step) ==
    /\ IF holder = 0 THEN holder' = n /\ To(n, step) ELSE Finish(n, "no") /\ UNCHANGED holder
    /\ UNCHANGED <<guest, tree, moved, archive, rest>>

Unlock(n) == holder' = IF holder = n THEN 0 ELSE holder

-----------------------------------------------------------------------------
(* profile-deploy.py apply.                                                *)
ApplyLock(n) == At(n, "apply", "lock") /\ Lock(n, "instance")

(* prepare, ensure_user, ensure_instance: synthetic mode makes its own     *)
(* environment and refuses a live one; live mode wants it on tmpfs with    *)
(* swap off.                                                               *)
InstanceAllowed(mode) ==
    IF mode = "synthetic" THEN Env # "live" ELSE guest.mounted /\ ~guest.swap /\ Env = "live"
EnsureInstance(n) ==
    /\ At(n, "apply", "instance")
    /\ InstanceAllowed(job[n].mode)
    /\ guest' = [guest EXCEPT !.env = IF Env = "none" /\ ~guest.mounted THEN "synthetic" ELSE @]
    /\ job' = [job EXCEPT ![n].step = "configure", ![n].prior = IF guest.gateway THEN {"gateway"} ELSE {}]
    /\ UNCHANGED <<tree, moved, archive, holder, rest>>
RefuseInstance(n) ==
    /\ At(n, "apply", "instance")
    /\ ~InstanceAllowed(job[n].mode)
    /\ Finish(n, "no")
    /\ Unlock(n)
    /\ UNCHANGED <<guest, tree, moved, archive, rest>>

(* A gateway whose configuration is current is left running; any other is  *)
(* stopped, and configured with the new image run on its state.            *)
Configure(n) ==
    /\ At(n, "apply", "configure")
    /\ \/ guest.gateway /\ UNCHANGED <<guest, tree>>
       \/ /\ guest' = [guest EXCEPT !.gateway = FALSE]
          /\ tree' = Upgraded(guest, job[n].image)
    /\ To(n, "units")
    /\ UNCHANGED <<moved, archive, holder, rest>>

InstallQuadlets(n) ==
    /\ At(n, "apply", "units")
    /\ guest' = [guest EXCEPT !.unit = job[n].mode, !.image = job[n].image]
    /\ To(n, "restart")
    /\ UNCHANGED <<tree, moved, archive, holder, rest>>

(* What changed, or does not run, is restarted.                            *)
Restart(n) ==
    /\ At(n, "apply", "restart")
    /\ guest' = [Started(guest) EXCEPT !.worker = TRUE]
    /\ tree' = Upgraded(guest, guest.image)
    /\ To(n, "verify")
    /\ UNCHANGED <<moved, archive, holder, rest>>

(* verify: both services run, with this mode's network and this image.     *)
Verified(n) ==
    /\ guest.gateway /\ guest.worker
    /\ guest.unit = job[n].mode /\ guest.running = job[n].image
Verify(n) ==
    /\ At(n, "apply", "verify")
    /\ Verified(n)
    /\ Finish(n, "yes")
    /\ Unlock(n)
    /\ UNCHANGED <<guest, tree, moved, archive, rest>>

(* An exception: a gateway that ran before and does not now is started.    *)
ApplyFails(n) ==
    /\ job[n].op = "apply" /\ job[n].step \in {"configure", "units", "restart", "verify"}
    /\ IF job[n].step = "verify" /\ ~Verified(n) THEN UNCHANGED faults ELSE Fault
    /\ IF "gateway" \in job[n].prior /\ ~guest.gateway
       THEN guest' = Started(guest) /\ tree' = Upgraded(guest, guest.image)
       ELSE UNCHANGED <<guest, tree>>
    /\ Finish(n, "no")
    /\ Unlock(n)
    /\ UNCHANGED <<moved, archive, host, scripts, orphaned, abandoned>>

-----------------------------------------------------------------------------
(* live-guest.py: no lock.                                                 *)

(* prepare refuses a mounted state and anything but the synthetic profile, *)
(* turns swap off, stops the gateway and mounts the tmpfs.                 *)
Prepare(n) ==
    /\ At(n, "prepare", "lock")
    /\ IF Synthetic
       THEN guest' = [guest EXCEPT !.swap = FALSE, !.gateway = FALSE] /\ To(n, "mount")
       ELSE Finish(n, "no") /\ UNCHANGED guest
    /\ UNCHANGED <<tree, moved, archive, holder, rest>>
Mount(n) ==
    /\ At(n, "prepare", "mount")
    /\ guest' = [guest EXCEPT !.mounted = TRUE, !.tmp = "none"]
    /\ Finish(n, "yes")
    /\ UNCHANGED <<tree, moved, archive, holder, rest>>

(* It is mounted, but cannot be given to the gateway or be confirmed.      *)
MountFails(n) ==
    /\ At(n, "prepare", "mount")
    /\ Fault
    /\ guest' = [guest EXCEPT !.mounted = TRUE, !.tmp = "none"]
    /\ Finish(n, "no")
    /\ UNCHANGED <<tree, moved, archive, holder, host, scripts, orphaned, abandoned>>

(* inject: an empty tmpfs and no swap; the file is created exclusively.    *)
Inject(n) ==
    /\ At(n, "inject", "lock")
    /\ IF ~guest.swap /\ guest.mounted /\ guest.tmp = "none" THEN To(n, "write") ELSE Finish(n, "no")
    /\ UNCHANGED <<guest, tree, moved, archive, holder, rest>>

(* Mutant of WriteSecret: an existing file is opened and written.          *)
WriteSecretOver(n) ==
    /\ At(n, "inject", "write")
    /\ guest' = IF guest.mounted THEN [guest EXCEPT !.tmp = "live"] ELSE [guest EXCEPT !.env = "live"]
    /\ Finish(n, "yes")
    /\ UNCHANGED <<tree, moved, archive, holder, rest>>

WriteSecret(n) ==
    /\ At(n, "inject", "write")
    /\ IF Env = "none"
       THEN /\ guest' = IF guest.mounted THEN [guest EXCEPT !.tmp = "live"] ELSE [guest EXCEPT !.env = "live"]
            /\ Finish(n, "yes")
       ELSE Finish(n, "no") /\ UNCHANGED guest
    /\ UNCHANGED <<tree, moved, archive, holder, rest>>

(* clear: the gateway is stopped, then the tmpfs unmounted, which a        *)
(* gateway that was started in between prevents.                           *)
Clear(n) ==
    /\ At(n, "clear", "lock")
    /\ guest' = [guest EXCEPT !.gateway = FALSE]
    /\ To(n, "umount")
    /\ UNCHANGED <<tree, moved, archive, holder, rest>>
Umount(n) ==
    /\ At(n, "clear", "umount")
    /\ IF guest.mounted /\ guest.gateway
       THEN Finish(n, "no") /\ UNCHANGED guest
       ELSE Finish(n, "yes") /\ guest' = [guest EXCEPT !.mounted = FALSE, !.tmp = "none"]
    /\ UNCHANGED <<tree, moved, archive, holder, rest>>

-----------------------------------------------------------------------------
(* lab_guest.py: backup, stop and restore of the synthetic state.  Only    *)
(* restore looks at its archive before it asks for the lock.               *)
ArchiveUsable(op) == op = "restore" => archive.taken
CheckSynthetic(n) ==
    /\ job[n].op \in {"backup", "stop", "restore"} /\ job[n].step = "lock"
    /\ IF Synthetic /\ ArchiveUsable(job[n].op)
       THEN To(n, IF job[n].op = "stop" THEN "stop" ELSE "instance")
       ELSE Finish(n, "no")
    /\ UNCHANGED <<guest, tree, moved, archive, holder, rest>>
TakeLock(n) == job[n].op \in {"backup", "restore"} /\ job[n].step = "instance" /\ Lock(n, "stop")

(* stop_writers: both services, and what ran is remembered.                *)
Services == (IF guest.gateway THEN {"gateway"} ELSE {}) \cup (IF guest.worker THEN {"worker"} ELSE {})
StopWriters(n) ==
    /\ job[n].op \in {"backup", "stop", "restore"} /\ job[n].step = "stop"
    /\ guest' = [guest EXCEPT !.gateway = FALSE, !.worker = FALSE]
    /\ job' = [job EXCEPT ![n].step = CASE job[n].op = "backup" -> "tar" [] job[n].op = "restore" -> "swap"
                                        [] OTHER -> "end",
                          ![n].prior = Services, ![n].ok = IF job[n].op = "stop" THEN "yes" ELSE "open"]
    /\ UNCHANGED <<tree, moved, archive, holder, rest>>

Restarted(prior) ==
    [guest EXCEPT !.gateway = @ \/ "gateway" \in prior, !.worker = @ \/ "worker" \in prior,
                  !.running = IF "gateway" \in prior THEN guest.image ELSE @]
RestartPrior(n) ==
    /\ guest' = Restarted(job[n].prior)
    /\ tree' = IF "gateway" \in job[n].prior THEN Upgraded(guest, guest.image) ELSE tree

(* tar follows the path: whatever is mounted there is archived.            *)
Tar(n) ==
    /\ At(n, "backup", "tar")
    /\ ~archive.taken
    /\ archive' = [taken |-> TRUE, schemas |-> tree, secret |-> Env = "live"]
    /\ RestartPrior(n)
    /\ Finish(n, "yes")
    /\ Unlock(n)
    /\ UNCHANGED <<moved, rest>>

(* There is an archive already, or tar fails; the services come back.      *)
TarFails(n) ==
    /\ At(n, "backup", "tar")
    /\ IF archive.taken THEN UNCHANGED faults ELSE Fault
    /\ RestartPrior(n)
    /\ Finish(n, "no")
    /\ Unlock(n)
    /\ UNCHANGED <<moved, archive, host, scripts, orphaned, abandoned>>

(* Every tree is set aside and replaced, one after the other.  A mounted   *)
(* tree cannot be renamed.                                                 *)
Movable(t) == ~(t = StateTree /\ guest.mounted)
Replace(n) ==
    /\ At(n, "restore", "swap")
    /\ \E t \in Trees :
          /\ moved[t] = 9 /\ Movable(t)
          /\ moved' = [moved EXCEPT ![t] = tree[t]]
          /\ tree' = [tree EXCEPT ![t] = archive.schemas[t]]
    /\ UNCHANGED <<guest, archive, holder, job, rest>>

(* Mutant of Restored: the services are started with the trees set aside.  *)
RestoreRestartsEarly(n) ==
    /\ At(n, "restore", "swap")
    /\ ~Whole
    /\ guest' = Restarted(job[n].prior)
    /\ UNCHANGED <<tree, moved, archive, holder, job, rest>>

Restored(n) ==
    /\ At(n, "restore", "swap")
    /\ \A t \in Trees : moved[t] # 9
    /\ moved' = [t \in Trees |-> 9]
    /\ RestartPrior(n)
    /\ Finish(n, "yes")
    /\ Unlock(n)
    /\ UNCHANGED <<archive, rest>>

(* A failure in between: everything is put back, then the services are     *)
(* started.  If that fails too, they stay stopped.                         *)
ReplaceFails(n) ==
    /\ At(n, "restore", "swap")
    /\ IF \A t \in Trees : moved[t] = 9 => ~Movable(t) THEN UNCHANGED faults ELSE Fault
    /\ To(n, "undo")
    /\ UNCHANGED <<guest, tree, moved, archive, holder, host, scripts, orphaned, abandoned>>
Undo(n) ==
    /\ At(n, "restore", "undo")
    /\ guest' = Restarted(job[n].prior)
    /\ tree' = [t \in Trees |-> LET s == IF moved[t] = 9 THEN tree[t] ELSE moved[t] IN
                    IF t = StateTree /\ "gateway" \in job[n].prior /\ ~guest.mounted THEN Newer(s, guest.image) ELSE s]
    /\ moved' = [t \in Trees |-> 9]
    /\ Finish(n, "no")
    /\ Unlock(n)
    /\ UNCHANGED <<archive, rest>>
UndoFails(n) ==
    /\ At(n, "restore", "undo")
    /\ Fault
    /\ Finish(n, "no")
    /\ Unlock(n)
    /\ UNCHANGED <<guest, tree, moved, archive, host, scripts, orphaned, abandoned>>

-----------------------------------------------------------------------------
(* The host's commands.                                                    *)
Run(op, mode, image) == [op |-> op, mode |-> mode, image |-> image]

Program(name) ==
    CASE name = "deploy" -> <<Run("apply", "synthetic", guest.image)>>
      [] name = "live-start" -> <<Run("prepare", "live", 1), Run("inject", "live", 1),
                                  Run("apply", "live", guest.image)>>
      [] name = "live-undo" -> <<Run("clear", "live", 1), Run("apply", "synthetic", guest.image)>>
      [] name = "live-stop" -> <<Run("clear", "live", 1), Run("apply", "synthetic", guest.image)>>
      [] name = "candidate" -> <<Run("backup", "synthetic", 1), Run("apply", "synthetic", 2),
                                 Run("reboot", "synthetic", 1), Run("stop", "synthetic", 1),
                                 Run("restore", "synthetic", 1), Run("apply", "synthetic", 1)>>
      [] name = "isolated" -> <<Run("restore", "synthetic", 1), Run("apply", "synthetic", 1)>>

(* A command begins: most want an unmounted state, the rehearsal also      *)
(* one that still has the baseline; an isolated restore brings an archived *)
(* state to a guest that runs the baseline; live-start and live-stop do    *)
(* nothing when there is nothing to do.                                    *)
Begin(name) ==
    /\ host.name = "none" /\ scripts < MaxScripts
    /\ name \in {"deploy", "candidate", "isolated"} => ~guest.mounted
    /\ name = "candidate" => guest.image = 1 /\ ~archive.taken
    /\ name = "isolated" => guest.image = 1 /\ archive.taken
    /\ name = "live-start" => ~guest.mounted /\ guest.gateway /\ guest.worker /\ guest.unit = "synthetic"
    /\ name = "live-stop" => guest.mounted
    /\ scripts' = scripts + 1
    /\ host' = [name |-> name, rest |-> Program(name), job |-> 0, result |-> "none"]
    /\ abandoned' = (abandoned \/ ~Whole)
    /\ UNCHANGED <<guest, tree, moved, archive, holder, job, orphaned, faults>>

(* The next job is sent over SSH.                                          *)
Send(n) ==
    /\ host.name # "none" /\ host.rest # <<>> /\ host.job = 0
    /\ Head(host.rest).op # "reboot"
    /\ job[n].op = "none"
    /\ job' = [job EXCEPT ![n] = [op |-> Head(host.rest).op, step |-> "lock", mode |-> Head(host.rest).mode,
                                  image |-> Head(host.rest).image, prior |-> {}, ok |-> "open"]]
    /\ host' = [host EXCEPT !.rest = Tail(@), !.job = n]
    /\ UNCHANGED <<guest, tree, moved, archive, holder, scripts, orphaned, abandoned, faults>>

(* The command ends with success, or live-start undoes what it did; a      *)
(* failure of that says to inspect the guest unless only the final         *)
(* deployment of synthetic mode failed.                                    *)
(* Mutant of AfterFailure: only the deployment is undone.                  *)
AfterFailureNoClear ==
    CASE host.name = "live-start" -> [host EXCEPT !.name = "live-undo", !.rest = Tail(Program("live-undo")), !.job = 0]
      [] OTHER -> [NoScript EXCEPT !.result = "undone"]
AfterFailure ==
    CASE host.name = "live-start" -> [host EXCEPT !.name = "live-undo", !.rest = Program("live-undo"), !.job = 0]
      [] host.name = "live-undo" -> [NoScript EXCEPT !.result = IF host.rest = <<>> THEN "undone" ELSE "inspect"]
      [] OTHER -> [NoScript EXCEPT !.result = "failed"]
AfterSuccess ==
    IF host.rest # <<>> THEN [host EXCEPT !.job = 0]
    ELSE [NoScript EXCEPT !.result = CASE host.name = "live-start" -> "ready"
                                       [] host.name = "live-undo" -> "undone" [] OTHER -> "none"]

Receive(n) ==
    /\ host.job = n /\ job[n].step = "end"
    /\ host' = IF job[n].ok = "yes" THEN AfterSuccess ELSE AfterFailure
    /\ job' = [job EXCEPT ![n] = NoJob]
    /\ UNCHANGED <<guest, tree, moved, archive, holder, scripts, orphaned, abandoned, faults>>

(* The guest comes back with another boot: no jobs, no tmpfs, swap on, and *)
(* lingering units started if their directories exist.                     *)
Boot ==
    /\ guest' = [guest EXCEPT !.mounted = FALSE, !.tmp = "none", !.swap = TRUE, !.gateway = TRUE, !.worker = TRUE,
                              !.running = guest.image]
    /\ tree' = [tree EXCEPT ![StateTree] = Newer(@, guest.image)]
    /\ holder' = 0
    /\ job' = [n \in Jobs |-> NoJob]
    /\ abandoned' = (abandoned \/ ~Whole)
    /\ UNCHANGED <<moved, archive, scripts, orphaned>>
Reboot ==
    /\ host.name # "none" /\ host.rest # <<>> /\ host.job = 0
    /\ Head(host.rest).op = "reboot"
    /\ host' = [host EXCEPT !.rest = Tail(@)]
    /\ Boot
    /\ UNCHANGED faults

(* The host command is interrupted, or its transport times out and it goes *)
(* on as after a failure; the job in the guest runs on.                    *)
Interrupted ==
    /\ host.name # "none"
    /\ Fault
    /\ host' = NoScript
    /\ orphaned' = (orphaned \/ host.job # 0)
    /\ UNCHANGED <<guest, tree, moved, archive, holder, job, scripts, abandoned>>
TimedOut ==
    /\ host.job # 0
    /\ Fault
    /\ host' = IF host.name = "live-undo" THEN [NoScript EXCEPT !.result = "inspect"] ELSE AfterFailure
    /\ orphaned' = TRUE
    /\ UNCHANGED <<guest, tree, moved, archive, holder, job, scripts, abandoned>>
OrphanEnds(n) ==
    /\ host.job # n /\ job[n].step = "end"
    /\ job' = [job EXCEPT ![n] = NoJob]
    /\ UNCHANGED <<guest, tree, moved, archive, holder, rest>>

(* A job of live-guest, a backup or a stop of the services fails where it  *)
(* stands, the restart of the services included.                           *)
JobFails(n) ==
    /\ job[n].op \in {"prepare", "inject", "clear", "backup", "stop"} /\ job[n].step # "end"
    /\ Fault
    /\ Finish(n, "no")
    /\ Unlock(n)
    /\ UNCHANGED <<guest, tree, moved, archive, host, scripts, orphaned, abandoned>>

PowerLost ==
    /\ Fault
    /\ host' = NoScript
    /\ Boot

Apply(n) == \/ ApplyLock(n) \/ EnsureInstance(n) \/ RefuseInstance(n) \/ Configure(n) \/ InstallQuadlets(n)
            \/ Restart(n) \/ Verify(n)
Live(n) == Prepare(n) \/ Mount(n) \/ Inject(n) \/ WriteSecret(n) \/ Clear(n) \/ Umount(n)
Lab(n) == CheckSynthetic(n) \/ TakeLock(n) \/ StopWriters(n) \/ Tar(n) \/ Replace(n) \/ Restored(n) \/ Undo(n)

Next ==
    \/ \E name \in Programs \ {"none", "live-undo"} : Begin(name)
    \/ \E n \in Jobs : Send(n) \/ Receive(n) \/ OrphanEnds(n)
    \/ \E n \in Jobs : Apply(n) \/ Live(n) \/ Lab(n)
    \/ \E n \in Jobs : ApplyFails(n) \/ MountFails(n) \/ TarFails(n) \/ ReplaceFails(n) \/ UndoFails(n) \/ JobFails(n)
    \/ Reboot \/ Interrupted \/ TimedOut \/ PowerLost

Spec == Init /\ [][Next]_vars

-----------------------------------------------------------------------------
(* "The guest's unencrypted disk receives no live secret file"             *)
(* (live-guest.py): the environment on disk is never the live one, and the *)
(* archive holds it only if a job outlived its host command (backup checks *)
(* for live state before it takes the lock, which prepare does not take);  *)
(* while it is in memory there is no swap.                                 *)
LiveSecretStaysInMemory ==
    /\ guest.env # "live"
    /\ archive.secret => orphaned
    /\ guest.mounted /\ guest.tmp = "live" => ~guest.swap

(* A live start that failed, and does not say to inspect the guest, has    *)
(* left no credential in it.                                               *)
FailedMeansCleared == host.result = "undone" /\ ~orphaned => ~guest.mounted

(* No service runs while a restore has trees set aside, whole or failed    *)
(* half way ("do not restart partial state"), until the guest is rebooted  *)
(* or another command begun on it.                                         *)
PartialStateNeverRuns == ~Whole /\ ~orphaned /\ ~abandoned => ~guest.gateway /\ ~guest.worker

(* "Never start an old image against upgraded state" (the candidate's      *)
(* RECOVERY.md): the rehearsal's rollback pairs the image with the state.  *)
OldImageNeverOnNewState ==
    guest.gateway /\ ~guest.mounted /\ ~orphaned /\ faults = 0 => tree[StateTree] <= guest.running

(* The guest's invariant: the type of its state, no service on a state     *)
(* that is half restored, and no image on a state newer than itself.       *)
GuestInv == TypeOK /\ PartialStateNeverRuns /\ OldImageNeverOnNewState
=============================================================================
