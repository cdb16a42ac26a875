---------------------------- MODULE OfflineReplay ----------------------------
(***************************************************************************)
(* Strict package replay in systemd's offline-update boot, from            *)
(* scripts/hermes/unattended/offline.py, with gates.verify_packages.       *)
(*                                                                         *)
(* Each file operation is an action; the staging process and the offline   *)
(* service can be killed, and power lost, between any two.  The marker     *)
(* symlink is durable only once `sync -f` returned.  Boot identifiers are  *)
(* never reused, so instead of identifiers the journal keeps whether a     *)
(* recorded boot is the current one: reboots are unbounded, only losses of *)
(* power are counted (MaxLosses).                                          *)
(***************************************************************************)
EXTENDS Naturals, FiniteSets

CONSTANTS
    Txs,            \* stored transactions: one (directory, baseline) each
    Baseline,       \* [Txs -> package set the transaction was computed for]
    Base, Damaged,  \* package sets; a transaction names the set it produces
    None, Other,    \* no marker; the marker of another update manager
    MaxLosses

ASSUME OfflineAssumption ==
    /\ Baseline \in [Txs -> Txs \cup {Base}]
    /\ \A t \in Txs: Baseline[t] # t
    /\ Base \notin Txs /\ Damaged \notin Txs \cup {Base}
    /\ None \notin Txs /\ Other \notin Txs \cup {None}
    /\ MaxLosses \in Nat

VARIABLES
    st,         \* ROOT/<hash>.json per transaction
    unit, want, \* the transaction of the generated unit; its wants link
    marker,     \* /system-update as a process sees it
    disk,       \* /system-update as it is after a loss of power, at worst
    packages,   \* the installed RPM set
    uki,        \* the transaction whose boot entry is the default
    mode,       \* "normal", "update", "rebooting"
    proc,       \* the running stage() or execute()
    losses

vars == <<st, unit, want, marker, disk, packages, uki, mode, proc, losses>>

Statuses == {"none", "staging", "staged", "running", "complete", "failed"}
StageSteps == {"writeUnit", "verifyUnit", "link", "markStaged", "setMarker", "syncMarker"}
ExecSteps  == {"syncUnlink", "checkState", "verify", "replay", "compare", "unlinkWant",
               "unlinkUnit", "markComplete"}
Idle == [step |-> "none", tx |-> None]

TypeOK ==
    /\ st \in [Txs -> [status: Statuses, stagedNow: BOOLEAN, updatedNow: BOOLEAN,
                       applied: BOOLEAN]]
    /\ unit \in Txs \cup {None} /\ want \in BOOLEAN
    /\ marker \in Txs \cup {None, Other} /\ disk \in Txs \cup {None, Other}
    /\ packages \in Txs \cup {Base, Damaged}
    /\ uki \in Txs \cup {None}
    /\ mode \in {"normal", "update", "rebooting"}
    /\ proc \in [step: StageSteps \cup ExecSteps \cup {"none"}, tx: Txs \cup {None}]
    /\ losses \in 0..MaxLosses

Init ==
    /\ st = [t \in Txs |-> [status |-> "none", stagedNow |-> FALSE, updatedNow |-> FALSE,
                            applied |-> FALSE]]
    /\ unit = None /\ want = FALSE
    /\ marker = None /\ disk = None
    /\ packages = Base
    /\ uki = None
    /\ mode = "normal"
    /\ proc = Idle
    /\ losses = 0

x == proc.tx
At(step) == proc.step = step
Goto(step) == proc' = [proc EXCEPT !.step = step]
Stop == proc' = Idle

-----------------------------------------------------------------------------
(* stage(): under stage.lock, called by host.py in a normal boot.          *)

(* verify_packages of replay_packages, then the checks under the lock and  *)
(* the first write.                                                        *)
StageBegin(t) ==
    /\ mode = "normal" /\ At("none")
    /\ packages = Baseline[t]
    /\ marker = None /\ unit = None /\ ~want
    /\ st[t].status = "none"
    /\ st' = [st EXCEPT ![t].status = "staging", ![t].stagedNow = TRUE]
    /\ proc' = [step |-> "writeUnit", tx |-> t]
    /\ UNCHANGED <<unit, want, marker, disk, packages, uki, mode, losses>>

StageUnit ==
    /\ At("writeUnit")
    /\ unit' = x
    /\ Goto("verifyUnit")
    /\ UNCHANGED <<st, want, marker, disk, packages, uki, mode, losses>>

(* systemd-analyze verify passes, or stage() raises and leaves its files.  *)
StageVerify ==
    /\ At("verifyUnit")
    /\ Goto("link") \/ Stop
    /\ UNCHANGED <<st, unit, want, marker, disk, packages, uki, mode, losses>>

(* Mutant of StageLink: the marker is set before the journal says staged.  *)
StageLinkThenMarker ==
    /\ At("link")
    /\ want' = TRUE
    /\ Goto("setMarker")
    /\ UNCHANGED <<st, unit, marker, disk, packages, uki, mode, losses>>

StageLink ==
    /\ At("link")
    /\ want' = TRUE
    /\ Goto("markStaged")
    /\ UNCHANGED <<st, unit, marker, disk, packages, uki, mode, losses>>

StageMark ==
    /\ At("markStaged")
    /\ st' = [st EXCEPT ![x].status = "staged"]
    /\ Goto("setMarker")
    /\ UNCHANGED <<unit, want, marker, disk, packages, uki, mode, losses>>

(* symlink_to refuses to replace a marker that appeared meanwhile.         *)
StageMarker ==
    /\ At("setMarker")
    /\ IF marker = None
         THEN marker' = x /\ Goto("syncMarker")
         ELSE UNCHANGED marker /\ Stop
    /\ UNCHANGED <<st, unit, want, disk, packages, uki, mode, losses>>

StageSync ==
    /\ At("syncMarker")
    /\ disk' = marker
    /\ Stop
    /\ UNCHANGED <<st, unit, want, marker, packages, uki, mode, losses>>

-----------------------------------------------------------------------------
(* execute(): the offline service in an update boot.                       *)

(* Mutants of ExecSelect: any marker is taken for ours; the marker is left *)
(* for the end, where nobody removes it.                                   *)
ExecSelectAny ==
    /\ mode = "update" /\ At("none")
    /\ unit # None /\ want
    /\ marker' = None
    /\ proc' = [step |-> "syncUnlink", tx |-> unit]
    /\ UNCHANGED <<st, unit, want, disk, packages, uki, mode, losses>>
ExecSelectKeeps ==
    /\ mode = "update" /\ At("none")
    /\ unit # None /\ want /\ marker = unit
    /\ proc' = [step |-> "syncUnlink", tx |-> unit]
    /\ UNCHANGED <<st, unit, want, marker, disk, packages, uki, mode, losses>>

(* The service runs when its unit is wanted; it takes the marker down      *)
(* before anything else, or leaves another manager's marker alone.         *)
ExecSelect ==
    /\ mode = "update" /\ At("none")
    /\ unit # None /\ want /\ marker = unit
    /\ marker' = None
    /\ proc' = [step |-> "syncUnlink", tx |-> unit]
    /\ UNCHANGED <<st, unit, want, disk, packages, uki, mode, losses>>

ExecSync ==
    /\ At("syncUnlink")
    /\ disk' = marker
    /\ Goto("checkState")
    /\ UNCHANGED <<st, unit, want, marker, packages, uki, mode, losses>>

(* A mismatch raises outside the try: FailureAction reboots.               *)
ExecCheck ==
    /\ At("checkState")
    /\ IF st[x].status = "staged" /\ ~st[x].stagedNow
         THEN /\ st' = [st EXCEPT ![x].status = "running", ![x].updatedNow = TRUE]
              /\ Goto("verify")
              /\ UNCHANGED mode
         ELSE UNCHANGED st /\ Stop /\ mode' = "rebooting"
    /\ UNCHANGED <<unit, want, marker, disk, packages, uki, losses>>

(* Any failure inside the try records "failed" and reboots.                *)
ExecFails ==
    /\ proc.step \in {"verify", "replay", "compare", "unlinkWant"}
    /\ st' = [st EXCEPT ![x].status = "failed"]
    /\ Stop
    /\ mode' = "rebooting"
    /\ UNCHANGED <<unit, want, marker, disk, packages, uki, losses>>

(* Mutant of ExecVerify: the baseline is only checked when staging.        *)
ExecVerifyTrusts ==
    /\ At("verify")
    /\ Goto("replay")
    /\ UNCHANGED <<st, unit, want, marker, disk, packages, uki, mode, losses>>

ExecVerify ==
    /\ At("verify")
    /\ packages = Baseline[x]
    /\ Goto("replay")
    /\ UNCHANGED <<st, unit, want, marker, disk, packages, uki, mode, losses>>

(* dnf5 replay: it succeeds, or stops half way.                            *)
ExecReplay ==
    /\ At("replay")
    /\ \/ packages' = x /\ st' = [st EXCEPT ![x].applied = TRUE]
       \/ packages' = Damaged /\ UNCHANGED st
    /\ Goto("compare")
    /\ UNCHANGED <<unit, want, marker, disk, uki, mode, losses>>

(* Mutant of ExecBootDefault: the resulting inventory is not compared.     *)
ExecBootDefaultUnchecked ==
    /\ At("compare")
    /\ uki' = x
    /\ Goto("unlinkWant")
    /\ UNCHANGED <<st, unit, want, marker, disk, packages, mode, losses>>

(* The inventory and the boot artefact match; the new kernel is selected.  *)
ExecBootDefault ==
    /\ At("compare")
    /\ packages = x
    /\ uki' = x
    /\ Goto("unlinkWant")
    /\ UNCHANGED <<st, unit, want, marker, disk, packages, mode, losses>>

ExecUnlinkWant ==
    /\ At("unlinkWant")
    /\ want' = FALSE
    /\ Goto("unlinkUnit")
    /\ UNCHANGED <<st, unit, marker, disk, packages, uki, mode, losses>>

ExecUnlinkUnit ==
    /\ At("unlinkUnit")
    /\ unit' = None
    /\ Goto("markComplete")
    /\ UNCHANGED <<st, want, marker, disk, packages, uki, mode, losses>>

ExecComplete ==
    /\ At("markComplete")
    /\ st' = [st EXCEPT ![x].status = "complete"]
    /\ Stop
    /\ mode' = "rebooting"
    /\ UNCHANGED <<unit, want, marker, disk, packages, uki, losses>>

(* require_complete(), as host.py asks it after the reboot.                *)
ReplayComplete(t) == st[t].status = "complete" /\ ~st[t].updatedNow

-----------------------------------------------------------------------------
(* The environment.                                                        *)

(* TimeoutStartSec ends the service, or the staging process dies.          *)
Killed ==
    /\ ~At("none")
    /\ Stop
    /\ mode' = IF mode = "update" THEN "rebooting" ELSE mode
    /\ UNCHANGED <<st, unit, want, marker, disk, packages, uki, losses>>

Shutdown ==
    /\ mode = "normal"
    /\ mode' = "rebooting"
    /\ Stop
    /\ disk' = marker
    /\ UNCHANGED <<st, unit, want, marker, packages, uki, losses>>

PowerLoss ==
    /\ losses < MaxLosses
    /\ mode # "rebooting"
    /\ losses' = losses + 1
    /\ mode' = "rebooting"
    /\ Stop
    /\ marker' \in {marker, disk}
    /\ disk' = marker'
    /\ UNCHANGED <<st, unit, want, packages, uki>>

(* systemd enters system-update.target while the marker exists.            *)
Boot ==
    /\ mode = "rebooting"
    /\ mode' = IF marker = None THEN "normal" ELSE "update"
    /\ st' = [t \in Txs |-> [st[t] EXCEPT !.stagedNow = FALSE, !.updatedNow = FALSE]]
    /\ UNCHANGED <<unit, want, marker, disk, packages, uki, proc, losses>>

(* dnf outside the replay, by an operator.                                 *)
PackagesChange ==
    /\ mode = "normal"
    /\ packages' = Damaged
    /\ UNCHANGED <<st, unit, want, marker, disk, uki, mode, proc, losses>>

OtherStages ==
    /\ mode = "normal"
    /\ marker = None
    /\ marker' = Other /\ disk' = Other
    /\ UNCHANGED <<st, unit, want, packages, uki, mode, proc, losses>>

OtherUpdates ==
    /\ mode = "update" /\ marker = Other
    /\ marker' = None /\ disk' = None
    /\ packages' \in {packages, Damaged}
    /\ mode' = "rebooting"
    /\ UNCHANGED <<st, unit, want, uki, proc, losses>>

StageStep == StageUnit \/ StageVerify \/ StageLink \/ StageMark \/ StageMarker \/ StageSync
ExecStep  == ExecSelect \/ ExecSync \/ ExecCheck \/ ExecFails \/ ExecVerify \/ ExecReplay
             \/ ExecBootDefault \/ ExecUnlinkWant \/ ExecUnlinkUnit \/ ExecComplete

Next == \/ \E t \in Txs: StageBegin(t)
        \/ StageStep \/ ExecStep
        \/ Killed \/ Shutdown \/ PowerLoss \/ Boot
        \/ PackagesChange \/ OtherStages \/ OtherUpdates

Spec == Init /\ [][Next]_vars

(* The offline service runs to its end or its timeout, the machine comes   *)
(* back up, and another manager finishes what it staged.                   *)
Fairness == WF_vars(ExecStep) /\ WF_vars(Boot) /\ WF_vars(OtherUpdates)
FairSpec == Spec /\ Fairness

-----------------------------------------------------------------------------
(* Properties.                                                             *)

(* While our marker can bring up an update boot, now or after a loss of    *)
(* power, everything that boot needs is in place: the journal says staged, *)
(* and the unit and its link exist.  The marker is set last, removed first.*)
MarkerMeansReady ==
    \A t \in Txs: t \in {marker, disk} =>
        st[t].status = "staged" /\ unit = t /\ want

(* "Select the new signed UKI only once its matching packages are          *)
(* installed": the default boot entry changes only to the one whose        *)
(* packages are installed, and only in an update boot.                     *)
KernelFollowsPackages ==
    [][uki' # uki => packages = uki' /\ mode = "update"]_vars

(* A replay that reports completion installed its packages, selected its   *)
(* kernel and left no boot hook of its own behind.                         *)
CompleteMeansInstalled ==
    \A t \in Txs: st[t].status = "complete" =>
        /\ st[t].applied
        /\ uki = t \/ \E u \in Txs: Baseline[u] = t /\ st[u].applied
        /\ unit # t
        /\ t \notin {marker, disk}

(* "Other update managers may have services on the same target. Leave      *)
(* their marker alone": only the other manager takes its marker down.      *)
OtherMarkerKept ==
    [][marker = Other /\ marker' # Other => OtherUpdates]_vars

(* "FailureAction=reboot returns to normal boot without repeating the      *)
(* update": every update boot, successful or not, leads back to a normal   *)
(* one.                                                                    *)
UpdateBootEnds == (mode # "normal") ~> (mode = "normal")

(* The replay implements the one-shot update.                              *)
UseOf(t) ==
    CASE st[t].status = "complete" -> "done"
      [] st[t].status = "failed"   -> "failed"
      [] st[t].status = "running"  -> IF st[t].applied THEN "installed" ELSE "running"
      [] OTHER -> IF marker = t \/ (x = t /\ proc.step \in ExecSteps) THEN "armed" ELSE "ready"

OneShot == INSTANCE OneShotUpdate WITH use <- [t \in Txs |-> UseOf(t)], pkgs <- packages

ImplementsOneShot == OneShot!Spec

(* The replay's invariant: the type of its state, a marker only where the  *)
(* update boot is ready for it, and complete only when installed.          *)
ReplayInv == TypeOK /\ MarkerMeansReady /\ CompleteMeansInstalled
=============================================================================
