---------------------------- MODULE SimpleInstall ----------------------------
(***************************************************************************)
(* The application-only installer: the request handler that                *)
(* scripts/hermes/simple/host.py runs as root on the target, its recovery  *)
(* timer and boot unit, and the controllers (simple/controller.py) that    *)
(* send it check, prepare, confirm-access, deploy, recover and rollback    *)
(* over separate SSH transports.                                           *)
(*                                                                         *)
(* A deployment is its token.  Of the host we keep what the transaction    *)
(* changes: the service units, the access configuration (sshd and the      *)
(* firewall zone), the application data, the provider key, the account and *)
(* the running service; each holds the deployment that wrote it, or 0.     *)
(* state.json is always saved before the effect it describes, so the       *)
(* process's copy and the file's are one variable.  A process can meet an  *)
(* exception or be killed after every step, and an answer can be lost.     *)
(***************************************************************************)
EXTENDS Integers, FiniteSets

CONSTANTS
    Controllers,    \* administrators' workstations
    MaxDeploys,     \* tokens drawn
    MaxFaults       \* exceptions, kills, power losses and lost answers

ASSUME SimpleAssumption == MaxDeploys \in Nat /\ MaxFaults \in Nat

VARIABLES
    state,      \* state.json
    host,       \* the managed parts of the target
    timer,      \* the deployment whose recovery timer is armed, or 0
    proc,       \* the process that holds the lock
    ctl,        \* the controllers
    token,      \* last token drawn
    base,       \* history: the host when the current deployment began
    proved,     \* history: deployments whose new access was used
    cut,        \* history: deployments with an unfinished recovery
    faults

vars == <<state, host, timer, proc, ctl, token, base, proved, cut, faults>>

None == -1
Torn == -2      \* data that a restore has emptied or half written
Ids == 0..MaxDeploys
Settled == {"closed", "rolled-back"}
Phases == Settled \cup {"none", "preparing", "backup-verified", "awaiting-access", "access-confirmed",
                        "installing", "rolling-back"}

(* `previous` is the state of the last closed deployment, of which recover *)
(* reads the configuration; `units` and `access` are the saved originals.  *)
State == [phase: Phases, d: Ids, previous: Ids, account: BOOLEAN, uid: BOOLEAN, credential: BOOLEAN,
          backup: Ids \cup {None, Torn}, units: Ids \cup {None}, access: Ids \cup {None}]
Fresh(d, previous) ==
    [phase |-> "preparing", d |-> d, previous |-> previous, account |-> FALSE, uid |-> FALSE,
     credential |-> FALSE, backup |-> None, units |-> None, access |-> None]

Host == [units: Ids, access: Ids, data: Ids \cup {None, Torn}, key: BOOLEAN, account: BOOLEAN, running: Ids]

PrepareSteps == {"arm", "packages", "useradd", "uid", "credential", "encrypt", "snapshot", "access", "awaiting",
                 "rearm"}
DeploySteps == {"units", "start", "close"}
RecoverSteps == {"stop", "data", "extract", "files", "previous", "userdel", "key", "done"}
Steps == {"idle", "confirm", "confirmed", "rollback", "answer"} \cup PrepareSteps \cup DeploySteps \cup RecoverSteps

(* `who` waits for the answer (None: nobody, or the timer or boot unit);   *)
(* `then` is what follows recovery: nothing, an error, or a new prepare.   *)
Process == [step: Steps, who: Controllers \cup {None}, key: BOOLEAN, then: {"end", "fail", "prepare"}]
Idle == [step |-> "idle", who |-> None, key |-> FALSE, then |-> "end"]
Controller == [at: {"idle", "prepare", "confirm", "deploy", "recover", "rollback"}, waits: BOOLEAN, d: Ids]

TypeOK ==
    /\ state \in State
    /\ host \in Host
    /\ timer \in Ids
    /\ proc \in Process
    /\ ctl \in [Controllers -> Controller]
    /\ token \in Ids
    /\ base \in Host
    /\ proved \in SUBSET Ids
    /\ cut \in SUBSET Ids
    /\ faults \in 0..MaxFaults

(* A new host, perhaps with an account named hermes and no data.           *)
Init ==
    /\ state = [Fresh(0, 0) EXCEPT !.phase = "none"]
    /\ host \in {[units |-> 0, access |-> 0, data |-> None, key |-> FALSE, account |-> a, running |-> 0] :
                    a \in BOOLEAN}
    /\ timer = 0
    /\ proc = Idle
    /\ ctl = [c \in Controllers |-> [at |-> "idle", waits |-> FALSE, d |-> 0]]
    /\ token = 0
    /\ base = host
    /\ proved = {}
    /\ cut = {}
    /\ faults = 0

-----------------------------------------------------------------------------
At(step) == proc.step = step
Goto(step) == proc' = [proc EXCEPT !.step = step]
Save(phase) == state' = [state EXCEPT !.phase = phase]
Set(field, value) == host' = [host EXCEPT ![field] = value]
Fault == faults < MaxFaults /\ faults' = faults + 1
Interrupt ==
    /\ cut' = IF proc.step \in RecoverSteps THEN cut \cup {state.d} ELSE cut
    /\ UNCHANGED <<token, base, proved>>
history == <<token, base, proved, cut>>

(* What controller.main does with an answer: the next request, recover     *)
(* when confirm-access or deploy failed, or the end of the command.        *)
Succeeded(c) ==
    [at |-> CASE ctl[c].at = "prepare" -> "confirm" [] ctl[c].at = "confirm" -> "deploy" [] OTHER -> "idle",
     waits |-> FALSE, d |-> IF ctl[c].at = "prepare" THEN state.d ELSE ctl[c].d]
Failed(c) ==
    [at |-> IF ctl[c].at \in {"confirm", "deploy"} THEN "recover" ELSE "idle", waits |-> FALSE, d |-> ctl[c].d]
Answer(outcome(_)) ==
    ctl' = [c \in Controllers |-> IF c = proc.who /\ ctl[c].waits THEN outcome(c) ELSE ctl[c]]
End(outcome(_)) == proc' = Idle /\ Answer(outcome)

(* The command line: deploy, with or without a key, or rollback.           *)
Command(c) ==
    /\ ctl[c].at = "idle"
    /\ \E command \in {"prepare", "rollback"} : ctl' = [ctl EXCEPT ![c].at = command]
    /\ UNCHANGED <<state, host, timer, proc, history, faults>>

(* request: a process that gets the lock, without waiting for it.          *)
Request(c, at) == ctl[c].at = at /\ ~ctl[c].waits /\ At("idle")
Begin(c, step, key, then) ==
    /\ proc' = [step |-> step, who |-> c, key |-> key, then |-> then]
    /\ ctl' = [ctl EXCEPT ![c].waits = TRUE]

(* preflight, the lock, and the requirements before the first write refuse *)
(* a request that then has changed nothing.                                *)
Refuse(c) ==
    /\ ctl[c].at # "idle" /\ ~ctl[c].waits
    /\ ctl' = [ctl EXCEPT ![c] = Failed(c)]
    /\ UNCHANGED <<state, host, timer, proc, history, faults>>

-----------------------------------------------------------------------------
(* prepare.                                                                *)

(* An unsettled deployment is recovered first.                             *)
Unsettled == state.phase \notin Settled \cup {"none"}
PrepareRecovers(c, key) ==
    /\ Request(c, "prepare")
    /\ Unsettled
    /\ Begin(c, "stop", key, "prepare")
    /\ UNCHANGED <<state, host, timer, history, faults>>

(* The previous deployment is the closed one or the one rolled back to;    *)
(* without one, existing data is refused.  A key is given exactly when the *)
(* host has none.  The payload replaces the handler's own files.           *)
PrepareAllowed(key) ==
    /\ token < MaxDeploys
    /\ ~Unsettled
    /\ (state.phase # "closed" /\ state.previous = 0) => host.data = None
    /\ key # host.key
JournalPrepare ==
    /\ state' = Fresh(token + 1, IF state.phase = "closed" THEN state.d ELSE state.previous)
    /\ token' = token + 1
    /\ base' = host

Prepare(c, key) ==
    /\ Request(c, "prepare")
    /\ PrepareAllowed(key)
    /\ JournalPrepare
    /\ Begin(c, "arm", key, "end")
    /\ UNCHANGED <<host, timer, proved, cut, faults>>

PrepareAfterRecovery ==
    /\ At("answer") /\ proc.then = "prepare"
    /\ IF PrepareAllowed(proc.key)
       THEN JournalPrepare /\ proc' = [proc EXCEPT !.step = "arm", !.then = "end"] /\ UNCHANGED ctl
       ELSE End(Failed) /\ UNCHANGED <<state, token, base>>
    /\ UNCHANGED <<host, timer, proved, cut, faults>>

(* The same configuration again: only the health is looked at.             *)
PrepareUnchanged(c) ==
    /\ Request(c, "prepare")
    /\ state.phase = "closed" /\ host.running = state.d
    /\ ctl' = [ctl EXCEPT ![c].at = "idle"]
    /\ UNCHANGED <<state, host, timer, proc, history, faults>>

(* setup_recovery and arm: the boot unit, then the timer.                  *)
Arm(next) ==
    /\ timer' = state.d
    /\ Goto(next)
    /\ UNCHANGED <<state, host, ctl, history, faults>>
ArmPrepare == At("arm") /\ Arm("packages")

Packages ==
    /\ At("packages")
    /\ state' = [state EXCEPT !.account = ~host.account]
    /\ Goto("useradd")
    /\ UNCHANGED <<host, timer, ctl, history, faults>>

(* identity: that the account is ours to make is saved before it is made;  *)
(* its uid after it is locked and has its data directory.                  *)
Useradd ==
    /\ At("useradd")
    /\ host' = [host EXCEPT !.account = TRUE, !.data = IF @ = None THEN 0 ELSE @]
    /\ Goto("uid")
    /\ UNCHANGED <<state, timer, ctl, history, faults>>

SaveUid ==
    /\ At("uid")
    /\ state' = [state EXCEPT !.uid = TRUE]
    /\ Goto(IF proc.key THEN "credential" ELSE IF state.previous # 0 THEN "snapshot" ELSE "access")
    /\ UNCHANGED <<host, timer, ctl, history, faults>>

(* credentials: only ever a new key, and that it is new is saved first.    *)
SaveCredential ==
    /\ At("credential")
    /\ state' = [state EXCEPT !.credential = TRUE]
    /\ Goto("encrypt")
    /\ UNCHANGED <<host, timer, ctl, history, faults>>

Encrypt ==
    /\ At("encrypt")
    /\ Set("key", TRUE)
    /\ Goto(IF state.previous # 0 THEN "snapshot" ELSE "access")
    /\ UNCHANGED <<state, timer, ctl, history, faults>>

(* The image is pulled; the previous service is stopped, and snapshot      *)
(* stores its data and reads it back.                                      *)
Snapshot ==
    /\ At("snapshot")
    /\ Set("running", 0)
    /\ state' = [state EXCEPT !.phase = "backup-verified", !.backup = host.data]
    /\ Goto("access")
    /\ UNCHANGED <<timer, ctl, history, faults>>

(* Mutant of ConfigureAccess: the files are changed and not tracked.       *)
ConfigureUntracked ==
    /\ At("access")
    /\ Set("access", state.d)
    /\ Goto("awaiting")
    /\ UNCHANGED <<state, timer, ctl, history, faults>>

(* configure_access: the originals are saved, then the zone and sshd are   *)
(* narrowed to the administrator and reloaded.                             *)
ConfigureAccess ==
    /\ At("access")
    /\ state' = [state EXCEPT !.access = host.access]
    /\ Set("access", state.d)
    /\ Goto("awaiting")
    /\ UNCHANGED <<timer, ctl, history, faults>>

AwaitAccess ==
    /\ At("awaiting")
    /\ Save("awaiting-access")
    /\ timer' = 0
    /\ Goto("rearm")
    /\ UNCHANGED <<host, ctl, history, faults>>

Rearm == At("rearm") /\ Arm("answer")

-----------------------------------------------------------------------------
(* confirm-access and deploy, bound to the token.                          *)
Bound(c, at, phase) == Request(c, at) /\ state.d = ctl[c].d /\ state.phase = phase

(* A request that arrives shows the new access works; the timer is stopped *)
(* and armed again.                                                        *)
Confirm(c) ==
    /\ Bound(c, "confirm", "awaiting-access")
    /\ Save("access-confirmed")
    /\ timer' = 0
    /\ proved' = proved \cup {state.d}
    /\ Begin(c, "confirmed", FALSE, "end")
    /\ UNCHANGED <<host, token, base, cut, faults>>

Confirmed == At("confirmed") /\ Arm("answer")

Deploy(c) ==
    /\ Bound(c, "deploy", "access-confirmed")
    /\ Save("installing")
    /\ Begin(c, "units", FALSE, "end")
    /\ UNCHANGED <<host, timer, history, faults>>

(* runtime: the data is configured, which does not bring back what a       *)
(* restore has removed, and every unit is tracked and written.             *)
WriteUnits ==
    /\ At("units")
    /\ host.account
    /\ state' = [state EXCEPT !.units = host.units]
    /\ host' = [host EXCEPT !.data = IF @ = Torn THEN Torn ELSE state.d, !.units = state.d]
    /\ Goto("start")
    /\ UNCHANGED <<timer, ctl, history, faults>>

(* Mutant of StartRuntime: the service is not waited for.                  *)
StartUnchecked ==
    /\ At("start")
    /\ Goto("close")
    /\ UNCHANGED <<state, host, timer, ctl, history, faults>>

(* The service comes up and answers (wait_health, healthy).                *)
StartRuntime ==
    /\ At("start")
    /\ host.key
    /\ Set("running", host.units)
    /\ Goto("close")
    /\ UNCHANGED <<state, timer, ctl, history, faults>>

Close ==
    /\ At("close")
    /\ Save("closed")
    /\ timer' = 0
    /\ Goto("answer")
    /\ UNCHANGED <<host, ctl, history, faults>>

-----------------------------------------------------------------------------
(* recover and rollback.                                                   *)

(* Mutant of StartRecover: a settled deployment is not left alone.         *)
StartRecoverAlways(c) ==
    /\ Request(c, "recover")
    /\ Begin(c, "stop", FALSE, "end")
    /\ UNCHANGED <<state, host, timer, history, faults>>

(* recover has no token: it is for whatever deployment is open.            *)
StartRecover(c) ==
    /\ Request(c, "recover")
    /\ Begin(c, IF state.phase \in Settled THEN "answer" ELSE "stop", FALSE, "end")
    /\ UNCHANGED <<state, host, timer, history, faults>>

Rollback(c) ==
    /\ Request(c, "rollback")
    /\ state.phase = "closed" /\ state.previous # 0
    /\ Save("rolling-back")
    /\ Begin(c, "rollback", FALSE, "end")
    /\ UNCHANGED <<host, timer, history, faults>>
ArmRollback == At("rollback") /\ Arm("stop")

(* The timer fires once: it finds the lock free, or is spent.  The boot    *)
(* unit runs at every boot.                                                *)
RecoverAlone ==
    proc' = IF state.phase \in Settled \cup {"none"} THEN Idle ELSE [Idle EXCEPT !.step = "stop"]
GuardFires ==
    /\ timer # 0
    /\ timer' = 0
    /\ IF At("idle") THEN RecoverAlone ELSE UNCHANGED proc
    /\ UNCHANGED <<state, host, ctl, history, faults>>
BootRecovers ==
    /\ At("idle") /\ Unsettled
    /\ RecoverAlone
    /\ UNCHANGED <<state, host, timer, ctl, history, faults>>

(* Mutant of Stop: the account is always expected.                         *)
StopAlways ==
    /\ At("stop")
    /\ host.account
    /\ Set("running", 0)
    /\ Goto("data")
    /\ UNCHANGED <<state, timer, ctl, history, faults>>

(* With a uid recorded the service is stopped as that account.             *)
Stop ==
    /\ At("stop")
    /\ state.uid => host.account
    /\ host' = [host EXCEPT !.running = IF state.uid THEN 0 ELSE @]
    /\ Goto("data")
    /\ UNCHANGED <<state, timer, ctl, history, faults>>

(* data.restore empties the directory of all but the credentials, and then *)
(* writes the files of the backup.                                         *)
EmptyData ==
    /\ At("data")
    /\ IF state.backup = None THEN UNCHANGED host /\ Goto("files")
       ELSE Set("data", Torn) /\ Goto("extract")
    /\ UNCHANGED <<state, timer, ctl, history, faults>>
RestoreData ==
    /\ At("extract")
    /\ Set("data", state.backup)
    /\ Goto("files")
    /\ UNCHANGED <<state, timer, ctl, history, faults>>

RestoreFiles ==
    /\ At("files")
    /\ host' = [host EXCEPT !.units = IF state.units = None THEN @ ELSE state.units,
                            !.access = IF state.access = None THEN @ ELSE state.access]
    /\ Goto("previous")
    /\ UNCHANGED <<state, timer, ctl, history, faults>>

(* The previous deployment is started and must answer; or the account this *)
(* one made is removed.  Either takes the recorded uid.                    *)
StartPrevious ==
    /\ At("previous") /\ state.previous # 0
    /\ state.uid
    /\ host.key
    /\ Set("running", host.units)
    /\ Goto("done")
    /\ UNCHANGED <<state, timer, ctl, history, faults>>
KeepAccount ==
    /\ At("previous") /\ state.previous = 0
    /\ Goto(IF state.account THEN "userdel" ELSE "done")
    /\ UNCHANGED <<state, host, timer, ctl, history, faults>>
Userdel ==
    /\ At("userdel")
    /\ host.account /\ state.uid
    /\ host' = [host EXCEPT !.account = FALSE, !.data = None]
    /\ Goto("key")
    /\ UNCHANGED <<state, timer, ctl, history, faults>>
RemoveKey ==
    /\ At("key")
    /\ host' = [host EXCEPT !.key = @ /\ ~state.credential]
    /\ Goto("done")
    /\ UNCHANGED <<state, timer, ctl, history, faults>>

RolledBack ==
    /\ At("done")
    /\ timer' = 0
    /\ Save("rolled-back")
    /\ Goto("answer")
    /\ UNCHANGED <<host, ctl, history, faults>>

(* A KeyError: the uid was never saved, or the account is gone.            *)
RecoverRaises ==
    /\ \/ At("stop") /\ state.uid /\ ~host.account
       \/ At("previous") /\ state.previous # 0 /\ ~state.uid
       \/ At("userdel") /\ (~host.account \/ ~state.uid)
    /\ End(Failed)
    /\ Interrupt
    /\ UNCHANGED <<state, host, timer, faults>>

Reply ==
    /\ At("answer") /\ proc.then # "prepare"
    /\ IF proc.then = "fail" THEN End(Failed) ELSE End(Succeeded)
    /\ UNCHANGED <<state, host, timer, history, faults>>

-----------------------------------------------------------------------------
(* Failures.                                                               *)

(* prepare and deploy recover from any exception, then report it; runtime  *)
(* raises one itself when the account or the key is gone.                  *)
RuntimeCannot == (At("units") /\ ~host.account) \/ (At("start") /\ ~host.key)
StepFails ==
    /\ proc.step \in (PrepareSteps \ {"arm"}) \cup DeploySteps
    /\ IF RuntimeCannot THEN UNCHANGED faults ELSE Fault
    /\ proc' = [proc EXCEPT !.step = IF state.phase \in Settled THEN "answer" ELSE "stop", !.then = "fail"]
    /\ UNCHANGED <<state, host, timer, ctl, history>>

(* recover, confirm-access and the arming of prepare only report it.       *)
RequestFails ==
    /\ proc.step \in RecoverSteps \cup {"arm", "confirmed", "rollback"}
    /\ Fault
    /\ End(Failed)
    /\ Interrupt
    /\ UNCHANGED <<state, host, timer>>

Killed ==
    /\ ~At("idle")
    /\ Fault
    /\ End(Failed)
    /\ Interrupt
    /\ UNCHANGED <<state, host, timer>>

(* The transport is lost, or the controller is interrupted: the process on *)
(* the host runs on.                                                       *)
TransportLost(c) ==
    /\ ctl[c].waits
    /\ Fault
    /\ ctl' = [ctl EXCEPT ![c] = Failed(c)]
    /\ proc' = IF proc.who = c THEN [proc EXCEPT !.who = None] ELSE proc
    /\ UNCHANGED <<state, host, timer, history>>

(* Timers and processes are lost; units that were running start again.     *)
PowerLost ==
    /\ Fault
    /\ timer' = 0
    /\ End(Failed)
    /\ Interrupt
    /\ UNCHANGED <<state, host>>

PrepareStep == \/ PrepareAfterRecovery \/ ArmPrepare \/ Packages \/ Useradd \/ SaveUid \/ SaveCredential
               \/ Encrypt \/ Snapshot \/ ConfigureAccess \/ AwaitAccess \/ Rearm
DeployStep == Confirmed \/ WriteUnits \/ StartRuntime \/ Close
RecoverStep == \/ ArmRollback \/ Stop \/ EmptyData \/ RestoreData \/ RestoreFiles \/ StartPrevious \/ KeepAccount
               \/ Userdel \/ RemoveKey \/ RolledBack \/ RecoverRaises
Step == PrepareStep \/ DeployStep \/ RecoverStep \/ Reply

Next ==
    \/ \E c \in Controllers :
          \/ Command(c) \/ Refuse(c) \/ PrepareUnchanged(c)
          \/ \E key \in BOOLEAN : PrepareRecovers(c, key) \/ Prepare(c, key)
          \/ Confirm(c) \/ Deploy(c) \/ StartRecover(c) \/ Rollback(c)
          \/ TransportLost(c)
    \/ Step
    \/ GuardFires \/ BootRecovers
    \/ StepFails \/ RequestFails \/ Killed \/ PowerLost

Spec == Init /\ [][Next]_vars

(* A process runs on, a timer fires, and an unsettled host is booted, or   *)
(* sent a request that recovers it, in the end.                            *)
FairSpec == Spec /\ WF_vars(Step \/ (RuntimeCannot /\ StepFails)) /\ WF_vars(GuardFires) /\ WF_vars(BootRecovers)

-----------------------------------------------------------------------------
(* A deployment that says rolled-back has left the host as it found it:    *)
(* units, access, data and running service, and, when it made the account, *)
(* no account and no key of its own.                                       *)
RolledBackMeansRestored ==
    state.phase = "rolled-back" =>
        /\ host.units = base.units /\ host.access = base.access
        /\ state.previous # 0 => host.data = base.data /\ host.running = base.running
        /\ state.previous = 0 => host.running = 0
        /\ state.account => host = base

(* A closed deployment is what is configured and running, with a key, and  *)
(* its narrowed access was used by an administrator before it was kept.    *)
(* (A recovery that ends early leaves the phase as it was: a deploy with   *)
(* the same token can then close a deployment whose access is restored, or *)
(* whose data was emptied to be restored.)                                 *)
ClosedMeansProved ==
    state.phase = "closed" =>
        /\ host.units = state.d /\ host.running = state.d
        /\ state.d \notin cut => host.access = state.d /\ (host.data = Torn => base.data = Torn)
        /\ host.key /\ host.account
        /\ state.d \in proved

(* The data of the previous deployment is in the backup before any step    *)
(* of the new one writes to it.                                            *)
BackupBeforeData ==
    (Unsettled /\ state.previous # 0 /\ host.data # base.data) => state.backup = base.data

(* Only a rollback the operator asked for, or a new prepare, opens a       *)
(* closed deployment: a late recover request, timer or boot does not.      *)
ClosedStays ==
    [][state.phase = "closed" /\ state'.phase # "closed" =>
          \E c \in Controllers : ctl[c].at \in {"rollback", "prepare"} /\ ctl'[c].waits]_vars

(* Every open deployment is settled in the end, but for those whose        *)
(* recovery raises for good: no uid was saved and there is a previous      *)
(* deployment or an account to remove, or the account is removed already.  *)
Unrecoverable ==
    \/ ~state.uid /\ (state.previous # 0 \/ state.account)
    \/ state.uid /\ ~host.account
DeploymentSettles == []<>(~Unsettled \/ Unrecoverable)

(* The installer's invariant: the type of its state, data saved before it  *)
(* changes, and rolled-back only when restored.                            *)
SimpleInv == TypeOK /\ BackupBeforeData /\ RolledBackMeansRestored
=============================================================================
