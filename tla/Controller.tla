----------------------------- MODULE Controller -----------------------------
(***************************************************************************)
(* The unattended controller (scripts/hermes/unattended/controller.py)     *)
(* promoting a series of releases to one target, with the credential       *)
(* broker that issues a key for each and the target's own backup guard.    *)
(*                                                                         *)
(* The target and the broker appear at the level of their promises: a      *)
(* request of the dispatcher is one step, by the release's phase           *)
(* (HostRelease has its inside), and a lease is what the broker answers    *)
(* about it (Broker has its inside): unknown, live or revoked, or one whose*)
(* issue stopped half-way, kept if its key was stored and can be revoked,  *)
(* and stuck if not.  What the controller adds is the order of the calls,  *)
(* the state file they leave behind when one of them fails, and what the   *)
(* next run makes of that file.                                            *)
(*                                                                         *)
(* Releases are numbered in the order they are first run.  RunsOlder says  *)
(* whether an earlier one may be run again after a later one was bound,    *)
(* which release.py allows until it expires, a day after it was signed.    *)
(* Fresh leases (uuid4) are numbered in the order they are drawn.  Every   *)
(* failure of the environment is counted, MaxFaults together.              *)
(***************************************************************************)
EXTENDS Naturals, FiniteSets

CONSTANTS
    Releases,       \* 1..n
    Leases,         \* 1..n
    RollsBackClosed,    \* may an operator run `rollback` on a closed release too
    RunsOlder,      \* may an operator run a release again after a later one
    MaxFaults

NoLease   == 0
NoRelease == 0

ASSUME ControllerAssumption ==
    /\ Releases \subseteq Nat \ {NoRelease}
    /\ Leases \subseteq Nat \ {NoLease}
    /\ RollsBackClosed \in BOOLEAN
    /\ RunsOlder \in BOOLEAN
    /\ MaxFaults \in Nat

VARIABLES
    ctl,        \* the state file of the target, on the controller
    proc,       \* the running controller
    phase,      \* the target's journals
    captured,   \* which releases have a complete set of saved files
    saved,      \* the credential among them
    installed,  \* the credential in use on the target
    guards,     \* armed backup guards
    rebooted,   \* the reboot a release scheduled has happened
    lease,      \* the broker's records
    drawn,      \* number of leases drawn so far
    reported,   \* releases whose deployment was reported complete
    faults

targetVars == <<phase, captured, saved, installed, guards, rebooted>>
vars == <<ctl, proc, phase, captured, saved, installed, guards, rebooted, lease, drawn, reported, faults>>

PrePackage == {"snapshot-creating", "snapshot-ready", "backup-verified", "credential-ready"}
Rebooting  == {"reboot-pending", "persistence-reboot"}
Phases == PrePackage \cup Rebooting \cup
    {"new", "package-staging", "runtime-pending", "closed", "rolled-back", "recovery-required"}

SomeLease == Leases \cup {NoLease}
LeaseStates == {"unknown", "stuck", "kept", "live", "revoked"}
StateFile == [fp: Releases \cup {NoRelease}, lease: SomeLease, prev: SomeLease, stage: Phases]
NoState == [fp |-> NoRelease, lease |-> NoLease, prev |-> NoLease, stage |-> "new"]
Steps == {"idle", "upload", "bound", "snapshot", "acknowledge", "draw", "issue", "deliver", "advance",
          "confirm", "finish", "rollback", "recover", "recoverRollback", "recoverRevoke"}
Idle == [step |-> "idle", op |-> "upgrade", rel |-> NoRelease, mem |-> NoState]

TypeOK ==
    /\ ctl \in StateFile
    /\ proc \in [step: Steps, op: {"upgrade", "rollback"}, rel: Releases \cup {NoRelease}, mem: StateFile]
    /\ phase \in [Releases -> Phases]
    /\ captured \in SUBSET Releases
    /\ saved \in [Releases -> SomeLease]
    /\ installed \in SomeLease
    /\ guards \in SUBSET Releases
    /\ rebooted \in BOOLEAN
    /\ lease \in [Leases -> LeaseStates]
    /\ drawn \in Nat
    /\ reported \in SUBSET Releases
    /\ faults \in 0..MaxFaults

Init ==
    /\ ctl = NoState
    /\ proc = Idle
    /\ phase = [r \in Releases |-> "new"]
    /\ captured = {}
    /\ saved = [r \in Releases |-> NoLease]
    /\ installed = NoLease
    /\ guards = {}
    /\ rebooted = FALSE
    /\ lease = [l \in Leases |-> "unknown"]
    /\ drawn = 0
    /\ reported = {}
    /\ faults = 0

-----------------------------------------------------------------------------
At(step) == proc.step = step
Goto(step) == proc' = [proc EXCEPT !.step = step]
r0 == proc.rel
Fault == faults < MaxFaults /\ faults' = faults + 1

(* A call fails: main handles a Failure, but neither a kill nor an error   *)
(* of the broker's socket.                                                 *)
CallFails == Fault /\ (Goto("recover") \/ proc' = Idle)

(* atomic(state_path, canonical(state)).                                   *)
SaveGoto(step, m) == ctl' = m /\ proc' = [proc EXCEPT !.step = step, !.mem = m]
SaveEnd(m) == ctl' = m /\ proc' = Idle

(* main, up to the lock and the read of the state file under it.  What is  *)
(* checked before changes nothing.                                         *)
Start(op, r) ==
    /\ At("idle")
    /\ op = "rollback" => RollsBackClosed \/ phase[r] # "closed"
    /\ RunsOlder \/ r >= ctl.fp
    /\ proc' = [step |-> IF ctl.fp = r THEN "bound" ELSE "upload", op |-> op, rel |-> r, mem |-> ctl]
    /\ UNCHANGED <<ctl, targetVars, lease, drawn, reported, faults>>

(* Mutant of Upload: the lease of the release before is forgotten.         *)
UploadForgets ==
    /\ At("upload")
    /\ SaveGoto("bound", [NoState EXCEPT !.fp = r0])
    /\ UNCHANGED <<targetVars, lease, drawn, reported, faults>>

(* A new release: stage it, and begin a state file that remembers the      *)
(* lease of the one before as the previous lease.                          *)
Upload ==
    /\ At("upload")
    /\ SaveGoto("bound", [NoState EXCEPT !.fp = r0, !.prev = proc.mem.lease])
    /\ UNCHANGED <<targetVars, lease, drawn, reported, faults>>

(* Mutant of Bound: a closed release is not taken to finish.               *)
BoundNeverConfirms ==
    /\ At("bound")
    /\ Goto(IF phase[r0] \in {"new", "snapshot-ready"} THEN "snapshot"
            ELSE IF phase[r0] = "backup-verified" THEN "draw"
            ELSE "recover")
    /\ UNCHANGED <<ctl, targetVars, lease, drawn, reported, faults>>

(* converge: the dispatcher's `bound` answers with the release's phase.    *)
Bound ==
    /\ At("bound")
    /\ Goto(IF proc.op = "rollback" THEN "rollback"
            ELSE IF phase[r0] = "closed" THEN "confirm"
            ELSE IF phase[r0] \in {"new", "snapshot-ready"} THEN "snapshot"
            ELSE IF phase[r0] = "backup-verified" THEN "draw"
            ELSE "advance")
    /\ UNCHANGED <<ctl, targetVars, lease, drawn, reported, faults>>

BoundFails ==
    /\ At("bound")
    /\ CallFails
    /\ UNCHANGED <<ctl, targetVars, lease, drawn, reported>>

(* snapshot: captures the application files, arms the guard, stops the     *)
(* service; anything but a new release just returns its digest.            *)
Snapshot ==
    /\ At("snapshot")
    /\ IF phase[r0] = "new"
         THEN /\ captured' = captured \cup {r0}
              /\ saved' = IF r0 \in captured THEN saved ELSE [saved EXCEPT ![r0] = installed]
              /\ guards' = guards \cup {r0}
              /\ phase' = [phase EXCEPT ![r0] = "snapshot-ready"]
         ELSE UNCHANGED <<captured, saved, guards, phase>>
    /\ Goto("acknowledge")
    /\ UNCHANGED <<ctl, installed, rebooted, lease, drawn, reported, faults>>

(* The target fails in it: before or after the guard is armed.             *)
SnapshotFails ==
    /\ At("snapshot")
    /\ CallFails
    /\ \/ /\ phase[r0] = "new"
          /\ captured' = captured \cup {r0}
          /\ saved' = IF r0 \in captured THEN saved ELSE [saved EXCEPT ![r0] = installed]
          /\ \/ UNCHANGED <<phase, guards>>
             \/ phase' = [phase EXCEPT ![r0] = "snapshot-creating"] /\ guards' \in {guards, guards \cup {r0}}
       \/ UNCHANGED <<captured, saved, phase, guards>>
    /\ UNCHANGED <<ctl, installed, rebooted, lease, drawn, reported>>

(* Fetch, encrypt, verify the restore, save the receipt, acknowledge.      *)
Acknowledge ==
    /\ At("acknowledge")
    /\ IF phase[r0] \in {"snapshot-ready", "backup-verified"}
         THEN phase' = [phase EXCEPT ![r0] = "backup-verified"] /\ Goto("draw")
         ELSE UNCHANGED phase /\ Goto("recover")
    /\ UNCHANGED <<ctl, captured, saved, installed, guards, rebooted, lease, drawn, reported, faults>>

(* The backup fails on the way, or the answer to its digest is lost.       *)
AcknowledgeFails ==
    /\ At("acknowledge")
    /\ CallFails
    /\ \/ UNCHANGED phase
       \/ phase[r0] = "snapshot-ready" /\ phase' = [phase EXCEPT ![r0] = "backup-verified"]
    /\ UNCHANGED <<ctl, captured, saved, installed, guards, rebooted, lease, drawn, reported>>

-----------------------------------------------------------------------------
(* The lease.                                                              *)

(* A lease is drawn once per release, and saved before it is asked for.    *)
DrawLease ==
    /\ At("draw")
    /\ IF proc.mem.lease = NoLease
         THEN /\ drawn + 1 \in Leases
              /\ drawn' = drawn + 1
              /\ SaveGoto("issue", [proc.mem EXCEPT !.lease = drawn + 1])
         ELSE Goto("issue") /\ UNCHANGED <<ctl, drawn>>
    /\ UNCHANGED <<targetVars, lease, reported, faults>>

(* The broker's issue: creates, or returns a ready lease again.            *)
Issue ==
    /\ At("issue")
    /\ IF lease[proc.mem.lease] \in {"unknown", "live"}
         THEN lease' = [lease EXCEPT ![proc.mem.lease] = "live"] /\ Goto("deliver")
         ELSE UNCHANGED lease /\ Goto("recover")
    /\ UNCHANGED <<ctl, targetVars, drawn, reported, faults>>

(* It answers with a refusal, having done nothing or stopped half-way, or  *)
(* the answer is lost.                                                     *)
IssueFails ==
    /\ At("issue")
    /\ CallFails
    /\ \/ UNCHANGED lease
       \/ /\ lease[proc.mem.lease] = "unknown"
          /\ \E made \in {"stuck", "kept", "live"}: lease' = [lease EXCEPT ![proc.mem.lease] = made]
    /\ UNCHANGED <<ctl, targetVars, drawn, reported>>

(* credential: the key is encrypted and installed.                         *)
Deliver ==
    /\ At("deliver")
    /\ IF phase[r0] \in {"backup-verified", "credential-ready"}
         THEN /\ phase' = [phase EXCEPT ![r0] = "credential-ready"]
              /\ installed' = proc.mem.lease
              /\ Goto("advance")
         ELSE UNCHANGED <<phase, installed>> /\ Goto("recover")
    /\ UNCHANGED <<ctl, captured, saved, guards, rebooted, lease, drawn, reported, faults>>

(* The request fails before or after the file is written, or its answer    *)
(* is lost.                                                                *)
DeliverFails ==
    /\ At("deliver")
    /\ CallFails
    /\ \/ UNCHANGED <<phase, installed>>
       \/ /\ phase[r0] \in {"backup-verified", "credential-ready"}
          /\ installed' = proc.mem.lease
          /\ phase' \in {phase, [phase EXCEPT ![r0] = "credential-ready"]}
    /\ UNCHANGED <<ctl, captured, saved, guards, rebooted, lease, drawn, reported>>

-----------------------------------------------------------------------------
(* The target's answer to deploy and upgrade.                              *)

(* rollback on the target: the credential is restored unless the release   *)
(* is closed.                                                              *)
RestoredKey(r) == IF phase[r] = "closed" THEN installed ELSE saved[r]
TargetRollback(r) ==
    /\ r \in captured
    /\ installed' = RestoredKey(r)
    /\ \/ phase' = [phase EXCEPT ![r] = "rolled-back"]
       \/ phase' = [phase EXCEPT ![r] = "recovery-required"]

(* The phases one request can take the release through, without a failure. *)
AdvancesTo(p) ==
    \/ phase[r0] = "credential-ready" /\ p = "reboot-pending"
    \/ phase[r0] = "reboot-pending" /\ p = IF rebooted THEN "persistence-reboot" ELSE "reboot-pending"
    \/ phase[r0] = "runtime-pending" /\ p = "persistence-reboot"
    \/ phase[r0] = "persistence-reboot" /\ p = IF rebooted THEN "closed" ELSE "persistence-reboot"
    \/ phase[r0] = "closed" /\ p = "closed"

Advanced(p) ==
    /\ AdvancesTo(p)
    /\ phase' = [phase EXCEPT ![r0] = p]
    /\ rebooted' = (rebooted /\ p = phase[r0])

(* The answer arrives, is saved, and decides how the loop goes on.         *)
Advance ==
    /\ At("advance")
    /\ \E p \in Rebooting \cup {"closed"}:
         /\ Advanced(p)
         /\ SaveGoto(IF p = "closed" THEN "finish" ELSE "advance", [proc.mem EXCEPT !.stage = p])
    /\ UNCHANGED <<captured, saved, installed, guards, lease, drawn, reported, faults>>

(* A Failure is retried only while a reboot is recorded.                   *)
RetryOrRecover == Goto(IF proc.mem.stage \in Rebooting THEN "advance" ELSE "recover")

(* The phase admits no advance.                                            *)
AdvanceRefused ==
    /\ At("advance")
    /\ \A p \in Phases: ~AdvancesTo(p)
    /\ RetryOrRecover
    /\ UNCHANGED <<ctl, targetVars, lease, drawn, reported, faults>>

(* A failure on the way: a refused check, an interrupted staging, a lost   *)
(* answer, an interrupted installation, or a failed acceptance, which      *)
(* rolls the application back on the target.                               *)
AdvanceFails ==
    /\ At("advance")
    /\ Fault
    /\ RetryOrRecover \/ proc' = Idle
    /\ \/ UNCHANGED <<phase, installed, rebooted>>
       \/ /\ phase[r0] = "credential-ready"
          /\ phase' = [phase EXCEPT ![r0] = "package-staging"]
          /\ UNCHANGED <<installed, rebooted>>
       \/ (\E p \in Phases: Advanced(p)) /\ UNCHANGED installed
       \/ /\ phase[r0] = "reboot-pending" /\ rebooted
          /\ phase' = [phase EXCEPT ![r0] = "runtime-pending"]
          /\ UNCHANGED <<installed, rebooted>>
       \/ /\ (phase[r0] \in Rebooting /\ rebooted) \/ phase[r0] = "runtime-pending"
          /\ TargetRollback(r0)
          /\ UNCHANGED rebooted
    /\ UNCHANGED <<ctl, captured, saved, guards, lease, drawn, reported>>

(* 3000 seconds have passed.                                               *)
AdvanceDeadline ==
    /\ At("advance")
    /\ proc.mem.stage \in Rebooting
    /\ Goto("recover")
    /\ UNCHANGED <<ctl, targetVars, lease, drawn, reported, faults>>

(* The release is closed already: the target checks its health again.      *)
Confirm ==
    /\ At("confirm")
    /\ \/ phase[r0] = "closed" /\ Goto("finish") /\ UNCHANGED faults
       \/ Fault /\ Goto("recover")
    /\ UNCHANGED <<ctl, targetVars, lease, drawn, reported>>

-----------------------------------------------------------------------------
(* finish, with the broker's revoke of the previous lease.                 *)

Revocable(l) == lease[l] \in {"kept", "live", "revoked"}
MustRetire == proc.mem.prev # NoLease /\ proc.mem.prev # proc.mem.lease

(* Mutant of FinishRetire: it retires the lease of this release.           *)
FinishRetireWrong ==
    /\ At("finish")
    /\ MustRetire
    /\ IF Revocable(proc.mem.prev) /\ proc.mem.lease # NoLease
         THEN /\ lease' = [lease EXCEPT ![proc.mem.lease] = "revoked"]
              /\ SaveGoto("finish", [proc.mem EXCEPT !.prev = NoLease])
         ELSE Goto("recover") /\ UNCHANGED <<ctl, lease>>
    /\ UNCHANGED <<targetVars, drawn, reported, faults>>

FinishRetire ==
    /\ At("finish")
    /\ MustRetire
    /\ IF Revocable(proc.mem.prev)
         THEN /\ lease' = [lease EXCEPT ![proc.mem.prev] = "revoked"]
              /\ SaveGoto("finish", [proc.mem EXCEPT !.prev = NoLease])
         ELSE Goto("recover") /\ UNCHANGED <<ctl, lease>>
    /\ UNCHANGED <<targetVars, drawn, reported, faults>>

(* The broker refuses, with or without having revoked the key.             *)
FinishRetireFails ==
    /\ At("finish")
    /\ MustRetire
    /\ CallFails
    /\ \/ UNCHANGED lease
       \/ Revocable(proc.mem.prev) /\ lease' = [lease EXCEPT ![proc.mem.prev] = "revoked"]
    /\ UNCHANGED <<ctl, targetVars, drawn, reported>>

(* Mutant of FinishDone: success is reported before the key is retired.    *)
FinishDoneEarly ==
    /\ At("finish")
    /\ reported' = reported \cup {r0}
    /\ proc' = Idle
    /\ UNCHANGED <<ctl, targetVars, lease, drawn, faults>>

(* Backup retention follows; it touches nothing modelled here.             *)
FinishDone ==
    /\ At("finish")
    /\ ~MustRetire
    /\ reported' = reported \cup {r0}
    /\ proc' = Idle
    /\ UNCHANGED <<ctl, targetVars, lease, drawn, faults>>

-----------------------------------------------------------------------------
(* The operator's rollback.                                                *)
Rollback ==
    /\ At("rollback")
    /\ IF r0 \in captured
         THEN /\ TargetRollback(r0)
              /\ SaveEnd([proc.mem EXCEPT !.stage = phase'[r0]])
         ELSE Goto("recover") /\ UNCHANGED <<ctl, phase, installed>>
    /\ UNCHANGED <<captured, saved, guards, rebooted, lease, drawn, reported, faults>>

RollbackFails ==
    /\ At("rollback")
    /\ CallFails
    /\ UNCHANGED <<phase, installed>> \/ TargetRollback(r0)
    /\ UNCHANGED <<ctl, captured, saved, guards, rebooted, lease, drawn, reported>>

-----------------------------------------------------------------------------
(* The handler of a Failure in main.                                       *)

(* Mutant of Recover: a closed release is rolled back too.                 *)
RecoverAny ==
    /\ At("recover")
    /\ proc' = [proc EXCEPT !.step = "recoverRollback"]
    /\ UNCHANGED <<ctl, targetVars, lease, drawn, reported, faults>>

(* Past package staging the state is kept for an operator.                 *)
Recover ==
    /\ At("recover")
    /\ IF phase[r0] \in PrePackage \cup {"new", "rolled-back"}
         THEN Goto("recoverRollback") /\ UNCHANGED ctl
         ELSE SaveEnd(proc.mem)
    /\ UNCHANGED <<targetVars, lease, drawn, reported, faults>>

RecoverRollback ==
    /\ At("recoverRollback")
    /\ IF r0 \in captured
         THEN /\ TargetRollback(r0)
              /\ LET m == [proc.mem EXCEPT !.stage = phase'[r0]]
                 IN  IF phase'[r0] = "rolled-back" /\ m.lease # NoLease
                       THEN proc' = [proc EXCEPT !.step = "recoverRevoke", !.mem = m] /\ UNCHANGED ctl
                       ELSE SaveEnd(m)
         ELSE proc' = Idle /\ UNCHANGED <<ctl, phase, installed>>
    /\ UNCHANGED <<captured, saved, guards, rebooted, lease, drawn, reported, faults>>

(* The key of the failed release is revoked; a refusal is swallowed.       *)
RecoverRevoke ==
    /\ At("recoverRevoke")
    /\ IF Revocable(proc.mem.lease)
         THEN lease' = [lease EXCEPT ![proc.mem.lease] = "revoked"] /\ SaveEnd(proc.mem)
         ELSE proc' = Idle /\ UNCHANGED <<ctl, lease>>
    /\ UNCHANGED <<targetVars, drawn, reported, faults>>

(* The controller is killed between two calls, or fails in the handler: it *)
(* ends where it is, though the handler's rollback or revocation may have  *)
(* been applied.                                                           *)
Dies ==
    /\ ~At("idle")
    /\ Fault
    /\ proc' = Idle
    /\ \/ UNCHANGED <<phase, installed, lease>>
       \/ At("recoverRollback") /\ TargetRollback(r0) /\ UNCHANGED lease
       \/ /\ At("recoverRevoke") /\ Revocable(proc.mem.lease)
          /\ lease' = [lease EXCEPT ![proc.mem.lease] = "revoked"]
          /\ UNCHANGED <<phase, installed>>
    /\ UNCHANGED <<ctl, captured, saved, guards, rebooted, drawn, reported>>

-----------------------------------------------------------------------------
(* The target on its own.                                                  *)

GuardFires(r) ==
    /\ r \in guards
    /\ guards' = guards \ {r}
    /\ IF phase[r] \in PrePackage
         THEN TargetRollback(r)
         ELSE UNCHANGED <<phase, installed>>
    /\ UNCHANGED <<ctl, proc, captured, saved, rebooted, lease, drawn, reported, faults>>

(* A scheduled reboot: transient timers are gone after it.                 *)
TargetReboots ==
    /\ \E r \in Releases: phase[r] \in Rebooting
    /\ ~rebooted
    /\ rebooted' = TRUE
    /\ guards' = {}
    /\ UNCHANGED <<ctl, proc, phase, captured, saved, installed, lease, drawn, reported, faults>>

Run == \E op \in {"upgrade", "rollback"}, r \in Releases: Start(op, r)
ControllerStep ==
    \/ Upload \/ Bound \/ Snapshot \/ Acknowledge \/ DrawLease \/ Issue \/ Deliver
    \/ Advance \/ AdvanceRefused \/ Confirm \/ FinishRetire \/ FinishDone
    \/ Rollback \/ Recover \/ RecoverRollback \/ RecoverRevoke
Failures ==
    \/ BoundFails \/ SnapshotFails \/ AcknowledgeFails \/ IssueFails \/ DeliverFails
    \/ AdvanceFails \/ FinishRetireFails \/ RollbackFails \/ Dies

Next ==
    \/ Run \/ ControllerStep \/ Failures \/ AdvanceDeadline
    \/ \E r \in Releases: GuardFires(r)
    \/ TargetReboots

Spec == Init /\ [][Next]_vars

(* The maintenance timer starts a run again and again; a run goes on to    *)
(* its end.                                                                *)
Fairness ==
    /\ WF_vars(\E r \in Releases: Start("upgrade", r))
    /\ WF_vars(ControllerStep)
FairSpec == Spec /\ Fairness

-----------------------------------------------------------------------------
(* Properties.                                                             *)

(* The deployment implements the rotation of keys: whatever fails, is      *)
(* retried or rolled back, the key on the target is one the broker issued  *)
(* and has not revoked.                                                    *)
Rotation == INSTANCE KeyRotation WITH
    inUse <- installed,
    issued <- {l \in Leases: lease[l] \in {"kept", "live", "revoked"}},
    revoked <- {l \in Leases: lease[l] = "revoked"}
ImplementsRotation == Rotation!Spec

(* A deployment that was reported complete stays closed on the target, and *)
(* no earlier lease is left for it to retire.  Recovery from a failure in  *)
(* a later confirmation must not undo it.                                  *)
ReportedMeansDone ==
    \A r \in reported: phase[r] = "closed" /\ (ctl.fp = r => ctl.prev = NoLease)

(* A release that closed on the target is reported complete by a later run *)
(* even if the answer was lost or the controller died, unless a newer one  *)
(* replaces it, the operator rolls it back, or the broker has no usable    *)
(* record of the previous lease.                                           *)
ClosedIsReported ==
    \A r \in Releases:
        (phase[r] = "closed" /\ ctl.fp = r) ~>
            \/ r \in reported \/ ctl.fp # r \/ phase[r] # "closed"
            \/ ctl.prev # NoLease /\ ~Revocable(ctl.prev)

(* The controller's invariant: the type of its state, and what has been    *)
(* reported stays done.                                                    *)
ControllerInv == TypeOK /\ ReportedMeansDone
=============================================================================
