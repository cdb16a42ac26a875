-------------------------- MODULE ControllerProofs --------------------------
(***************************************************************************)
(* The controller for every set of releases and of leases and any number   *)
(* of faults: what it has reported stays done, and it implements the       *)
(* rotation of keys, when nobody rolls back a release that has closed.     *)
(*                                                                         *)
(* A rollback installs what was saved, and a retirement revokes what the   *)
(* state file names: CInv says why neither meets the other.  A lease that  *)
(* may still be revoked is saved by no release but one that has closed,    *)
(* because a release saves the key in use before its own lease is drawn.   *)
(***************************************************************************)
EXTENDS Controller, TLAPS

(* The phases before a lease is drawn, and those from its delivery on.     *)
Early == {"new", "snapshot-creating", "snapshot-ready"}
Later == {"credential-ready", "package-staging", "reboot-pending", "runtime-pending",
          "persistence-reboot", "closed"}

(* The running controller works on the state file as it is, of its own     *)
(* release from the upload on.                                             *)
MemInv ==
    /\ ~At("idle") =>
         /\ r0 \in Releases
         /\ proc.mem.fp = ctl.fp /\ proc.mem.lease = ctl.lease /\ proc.mem.prev = ctl.prev
    /\ At("upload") => r0 > ctl.fp
    /\ proc.step \notin {"idle", "upload"} => r0 = ctl.fp

(* What it has established before each of its steps.                       *)
RollbackSteps == {"upload", "bound", "rollback", "recover", "recoverRollback", "recoverRevoke"}
StepInv ==
    /\ At("draw") \/ At("issue") \/ At("deliver") => phase[r0] \notin Early
    /\ At("issue") \/ At("deliver") \/ At("recoverRevoke") => proc.mem.lease # NoLease
    /\ At("deliver") => lease[proc.mem.lease] = "live"
    /\ At("finish") => phase[r0] = "closed"
    /\ At("recoverRollback") => phase[r0] # "closed"
    /\ At("recoverRevoke") => installed # proc.mem.lease
    /\ ~At("idle") /\ proc.op = "rollback" => phase[r0] # "closed" /\ proc.step \in RollbackSteps
    /\ At("rollback") => proc.op = "rollback"

(* Releases after the bound one are untouched; a lease is drawn once its   *)
(* release has saved the key before it, and leases are fresh.              *)
FileInv ==
    /\ \A r \in Releases : r > ctl.fp => phase[r] = "new"
    /\ ctl.lease # NoLease =>
         ctl.fp \in Releases /\ phase[ctl.fp] \notin Early /\ ctl.lease # ctl.prev
    /\ ctl.lease <= drawn /\ ctl.prev <= drawn /\ installed <= drawn
    /\ \A r \in Releases : saved[r] <= drawn

(* No rollback brings back the lease of the bound release, none but its    *)
(* own the lease before; that one is out of use once the next is in.       *)
KeyInv ==
    /\ ctl.lease # NoLease => \A r \in Releases : saved[r] # ctl.lease
    /\ ctl.prev # NoLease => \A r \in Releases : r # ctl.fp => saved[r] # ctl.prev
    /\ ctl.prev # NoLease /\ ctl.fp \in Releases /\ phase[ctl.fp] \in Later => installed # ctl.prev

(* The key in use, and those that a rollback can bring back, are accepted. *)
Accepted(l) == l = NoLease \/ (l \in Leases /\ lease[l] = "live")
AcceptInv ==
    /\ Accepted(installed)
    /\ \A r \in Releases : phase[r] # "closed" => Accepted(saved[r])

CInv == TypeOK /\ MemInv /\ StepInv /\ FileInv /\ KeyInv /\ AcceptInv /\ ReportedMeansDone

USE ControllerAssumption DEF ControllerAssumption, NoLease, NoRelease
USE DEF At, Goto, r0, Fault, targetVars, PrePackage, Rebooting

-----------------------------------------------------------------------------
(* What the controller is after it has moved on, saved its state file or   *)
(* ended, and the state files it saves.                                    *)
Process == [step: Steps, op: {"upgrade", "rollback"}, rel: Releases \cup {NoRelease}, mem: StateFile]
Same == proc'.op = proc.op /\ proc'.rel = proc.rel

LEMMA Moves ==
    ASSUME proc \in Process, NEW step \in Steps, Goto(step)
    PROVE  proc' \in Process /\ proc'.step = step /\ Same /\ proc'.mem = proc.mem
BY DEF Process, Same

LEMMA Saves ==
    ASSUME proc \in Process, NEW step \in Steps, NEW m \in StateFile, SaveGoto(step, m)
    PROVE  /\ proc' \in Process /\ proc'.step = step /\ Same /\ proc'.mem = m
           /\ ctl' = m
BY DEF Process, Same, SaveGoto

LEMMA Ends == Idle \in Process /\ Idle.step = "idle"
BY DEF Idle, Process, Steps, NoState, StateFile, SomeLease, Phases

(* A call that may fail: the controller goes on, recovers, or has ended.   *)
LEMMA FailsOrMoves ==
    ASSUME proc \in Process, NEW S \in SUBSET Steps,
           proc' = Idle \/ \E step \in S : Goto(step)
    PROVE  /\ proc' \in Process /\ proc'.step \in S \cup {"idle"}
           /\ proc'.step # "idle" => Same /\ proc'.mem = proc.mem
BY Moves, Ends

LEMMA Files ==
    ASSUME NEW m \in StateFile
    PROVE  /\ \A p \in Phases : LET n == [m EXCEPT !.stage = p] IN
                n \in StateFile /\ n.fp = m.fp /\ n.lease = m.lease /\ n.prev = m.prev /\ n.stage = p
           /\ \A l \in SomeLease : LET n == [m EXCEPT !.lease = l] IN
                n \in StateFile /\ n.fp = m.fp /\ n.lease = l /\ n.prev = m.prev /\ n.stage = m.stage
           /\ LET n == [m EXCEPT !.prev = NoLease] IN
                n \in StateFile /\ n.fp = m.fp /\ n.lease = m.lease /\ n.prev = NoLease /\ n.stage = m.stage
BY DEF StateFile, SomeLease

LEMMA NewFile ==
    ASSUME NEW r \in Releases, NEW l \in SomeLease
    PROVE  LET n == [NoState EXCEPT !.fp = r, !.prev = l] IN
           n \in StateFile /\ n.fp = r /\ n.lease = NoLease /\ n.prev = l /\ n.stage = "new"
BY DEF StateFile, SomeLease, NoState, Phases

LEMMA Numbers ==
    ASSUME NEW f \in Releases \cup {NoRelease}
    PROVE  /\ f \in Nat /\ f <= f
           /\ \A q, r \in Releases : q > f /\ r <= f => q # r
<1>1. Releases \subseteq Nat /\ f \in Nat
  OBVIOUS
<1>2. ASSUME NEW q \in Releases, NEW r \in Releases, q > f, r <= f PROVE q # r
  <2>1. q \in Nat /\ r \in Nat
    BY <1>1
  <2> QED
    BY <1>1, <1>2, <2>1
<1> QED
  BY <1>1, <1>2

LEMMA ControllerInit == Init => CInv
<1> SUFFICES ASSUME Init PROVE CInv
  OBVIOUS
<1>1. NoState \in StateFile /\ NoState.fp = NoRelease /\ NoState.lease = NoLease /\ NoState.prev = NoLease
  BY DEF NoState, StateFile, SomeLease, Phases
<1>2. TypeOK
  <2>1. proc \in Process /\ ctl \in StateFile
    BY <1>1, Ends DEF Init
  <2>2. /\ phase \in [Releases -> Phases] /\ saved \in [Releases -> SomeLease]
        /\ lease \in [Leases -> LeaseStates]
    BY DEF Init, Phases, SomeLease, LeaseStates
  <2>3. captured \in SUBSET Releases /\ guards \in SUBSET Releases /\ reported \in SUBSET Releases
    BY DEF Init
  <2>4. rebooted \in BOOLEAN
    BY DEF Init
  <2>5. installed \in SomeLease /\ drawn \in Nat /\ faults \in 0..MaxFaults
    BY DEF Init, SomeLease
  <2> QED
    BY <2>1, <2>2, <2>3, <2>4, <2>5 DEF TypeOK, Process
<1>3. MemInv /\ StepInv
  BY Ends DEF Init, MemInv, StepInv
<1>4. FileInv /\ KeyInv /\ AcceptInv /\ ReportedMeansDone
  BY <1>1 DEF Init, FileInv, KeyInv, AcceptInv, Accepted, ReportedMeansDone
<1> QED
  BY <1>2, <1>3, <1>4 DEF CInv

-----------------------------------------------------------------------------
(* Steps that only decide how to go on.                                    *)
LEMMA DecisionsKeepInv ==
    CInv /\ (Bound \/ BoundFails \/ AdvanceRefused \/ AdvanceDeadline \/ Confirm) => CInv'
<1> SUFFICES ASSUME CInv, Bound \/ BoundFails \/ AdvanceRefused \/ AdvanceDeadline \/ Confirm PROVE CInv'
  OBVIOUS
<1> USE DEF CInv
<1>1. UNCHANGED <<ctl, targetVars, lease, drawn, reported>> /\ faults' \in 0..MaxFaults
  BY DEF Bound, BoundFails, CallFails, AdvanceRefused, AdvanceDeadline, Confirm, TypeOK
<1>2. FileInv' /\ KeyInv' /\ AcceptInv' /\ ReportedMeansDone'
  BY <1>1 DEF FileInv, KeyInv, AcceptInv, Accepted, ReportedMeansDone
<1>3. CASE proc' = Idle
  BY <1>1, <1>2, <1>3, Ends DEF TypeOK, Process, MemInv, StepInv
<1>4. CASE proc' # Idle
  <2>1. PICK step \in Steps : /\ Goto(step)
                             /\ proc' \in Process /\ proc'.step = step /\ Same /\ proc'.mem = proc.mem
    BY <1>4, Moves
       DEF Bound, BoundFails, CallFails, AdvanceRefused, AdvanceDeadline, Confirm, RetryOrRecover, TypeOK,
            Process, Steps
  <2>2. /\ ~At("idle") /\ ~At("upload")
        /\ step \notin {"idle", "upload", "issue", "deliver", "recoverRollback", "recoverRevoke"}
        /\ step = "draw" => phase[r0] \notin Early
        /\ step = "finish" => phase[r0] = "closed"
        /\ step = "rollback" => proc.op = "rollback"
        /\ proc.op = "rollback" => step \in {"rollback", "recover"}
    BY <1>4, <2>1 DEF Bound, BoundFails, CallFails, AdvanceRefused, AdvanceDeadline, Confirm, RetryOrRecover,
       TypeOK, StepInv, RollbackSteps, Early
  <2>3. TypeOK'
    BY <1>1, <2>1 DEF TypeOK, Process
  <2>4. MemInv' /\ StepInv'
    BY <1>1, <2>1, <2>2 DEF MemInv, StepInv, RollbackSteps, Same
  <2> QED
    BY <1>2, <2>3, <2>4
<1> QED
  BY <1>3, <1>4

(* A run begins.                                                           *)
LEMMA StartKeepsInv ==
    ASSUME CInv, RollsBackClosed = FALSE, RunsOlder = FALSE,
           NEW op \in {"upgrade", "rollback"}, NEW r \in Releases, Start(op, r)
    PROVE  CInv'
<1> USE DEF CInv
<1>0. /\ proc' \in Process /\ proc'.step \in {"bound", "upload"} /\ proc'.op = op /\ proc'.rel = r
      /\ proc'.mem = ctl /\ (proc'.step = "bound" <=> ctl.fp = r)
  BY DEF Start, TypeOK, Process, Steps
<1>a. r \in Nat /\ ctl.fp \in Nat /\ (ctl.fp # r => r > ctl.fp)
  <2>1. ctl.fp \in Releases \cup {NoRelease} /\ r >= ctl.fp
    BY DEF Start, TypeOK, StateFile
  <2>2. r \in Nat /\ ctl.fp \in Nat
    BY <2>1, Numbers
  <2> QED
    BY <2>1, <2>2
<1>1. TypeOK'
  BY <1>0 DEF Start, TypeOK, Process
<1>2. MemInv'
  BY <1>0, <1>a DEF Start, MemInv
<1>3. StepInv'
  BY <1>0 DEF Start, TypeOK, MemInv, StepInv, Same, RollbackSteps
<1>4. FileInv'
  BY <1>0 DEF Start, TypeOK, MemInv, StepInv, FileInv
<1>5. KeyInv'
  BY <1>0 DEF Start, TypeOK, MemInv, StepInv, FileInv, KeyInv
<1>6. AcceptInv'
  BY <1>0 DEF Start, TypeOK, MemInv, StepInv, KeyInv, AcceptInv, Accepted
<1>7. ReportedMeansDone'
  BY <1>0 DEF Start, TypeOK, MemInv, StepInv, FileInv, ReportedMeansDone
<1> QED
  BY <1>1, <1>2, <1>3, <1>4, <1>5, <1>6, <1>7

(* The state file of a new release.                                        *)
LEMMA UploadKeepsInv == CInv /\ Upload => CInv'
<1> SUFFICES ASSUME CInv, Upload PROVE CInv'
  OBVIOUS
<1> USE DEF CInv
<1> DEFINE m == [NoState EXCEPT !.fp = r0, !.prev = proc.mem.lease]
<1>a. m \in StateFile /\ m.fp = r0 /\ m.lease = NoLease /\ m.prev = proc.mem.lease
  BY NewFile DEF Upload, TypeOK, MemInv, StateFile
<1>0. /\ ctl' = m /\ proc' \in Process /\ proc'.step = "bound" /\ Same /\ proc'.mem = m
      /\ m \in StateFile /\ m.fp = r0 /\ m.lease = NoLease /\ m.prev = proc.mem.lease
      /\ r0 \in Releases /\ phase[r0] = "new"
  <2>1. proc \in Process /\ "bound" \in Steps /\ SaveGoto("bound", m)
    BY DEF Upload, TypeOK, Process, Steps
  <2> HIDE DEF m
  <2> QED
    BY <1>a, <2>1, Saves DEF Upload, MemInv, FileInv
<1> HIDE DEF m
<1>1. TypeOK'
  BY <1>0 DEF Upload, TypeOK, Process
<1>2. MemInv'
  BY <1>0 DEF Upload, TypeOK, MemInv, Same
<1>3. StepInv'
  BY <1>0 DEF Upload, TypeOK, MemInv, StepInv, Same, RollbackSteps
<1>4. FileInv'
  BY <1>0 DEF Upload, TypeOK, MemInv, StepInv, FileInv, StateFile, SomeLease
<1>5. KeyInv'
  BY <1>0 DEF Upload, TypeOK, MemInv, StepInv, FileInv, KeyInv, Later
<1>6. AcceptInv'
  BY <1>0 DEF Upload, TypeOK, MemInv, StepInv, KeyInv, AcceptInv, Accepted
<1>7. ReportedMeansDone'
  BY <1>0 DEF Upload, TypeOK, MemInv, StepInv, FileInv, ReportedMeansDone
<1> QED
  BY <1>1, <1>2, <1>3, <1>4, <1>5, <1>6, <1>7

(* The saved key, before the lease.                                        *)
LEMMA SnapshotKeepsInv ==
    CInv /\ (Snapshot \/ SnapshotFails \/ Acknowledge \/ AcknowledgeFails) => CInv'
<1> SUFFICES ASSUME CInv, Snapshot \/ SnapshotFails \/ Acknowledge \/ AcknowledgeFails PROVE CInv'
  OBVIOUS
<1> USE DEF CInv
<1>0. /\ proc' \in Process /\ proc'.step \in {"acknowledge", "recover", "draw", "idle"}
      /\ proc'.step # "idle" => Same /\ proc'.mem = proc.mem
      /\ proc'.step = "draw" => phase'[r0] \notin Early
      /\ r0 \in Releases
  <2>1. proc' = Idle \/ \E step \in {"acknowledge", "recover", "draw"} : Goto(step)
    BY DEF Snapshot, SnapshotFails, Acknowledge, AcknowledgeFails, CallFails
  <2>2. proc \in Process /\ {"acknowledge", "recover", "draw"} \in SUBSET Steps
    BY DEF TypeOK, Process, Steps
  <2>3. r0 \in Releases
    BY DEF Snapshot, SnapshotFails, Acknowledge, AcknowledgeFails, MemInv
  <2>4. proc'.step = "draw" => phase'[r0] \notin Early
    BY <2>3, Moves, Ends
       DEF Snapshot, SnapshotFails, Acknowledge, AcknowledgeFails, CallFails, TypeOK, Process, Steps, Early
  <2> QED
    BY <2>1, <2>2, <2>3, <2>4, FailsOrMoves
<1>1. TypeOK'
  <2>1. /\ phase' \in [Releases -> Phases] /\ saved' \in [Releases -> SomeLease]
        /\ captured' \in SUBSET Releases /\ guards' \in SUBSET Releases
    BY DEF Snapshot, SnapshotFails, Acknowledge, AcknowledgeFails, CallFails, TypeOK, MemInv, Phases
  <2> QED
    BY <1>0, <2>1 DEF Snapshot, SnapshotFails, Acknowledge, AcknowledgeFails, CallFails, TypeOK, Process
<1>2. MemInv'
  BY <1>0 DEF Snapshot, SnapshotFails, Acknowledge, AcknowledgeFails, CallFails, TypeOK, MemInv, Same
<1>3. StepInv'
  BY <1>0 DEF Snapshot, SnapshotFails, Acknowledge, AcknowledgeFails, CallFails, TypeOK, MemInv, StepInv,
       Same, Early, RollbackSteps
<1>4. FileInv'
  BY <1>0 DEF Snapshot, SnapshotFails, Acknowledge, AcknowledgeFails, CallFails, TypeOK, MemInv, StepInv,
       FileInv, Early
<1>5. KeyInv'
  BY <1>0 DEF Snapshot, SnapshotFails, Acknowledge, AcknowledgeFails, CallFails, TypeOK, MemInv, StepInv,
       FileInv, KeyInv, Early, Later
<1>6. AcceptInv'
  BY <1>0 DEF Snapshot, SnapshotFails, Acknowledge, AcknowledgeFails, CallFails, TypeOK, MemInv, StepInv,
       KeyInv, AcceptInv, Accepted
<1>7. ReportedMeansDone'
  BY <1>0 DEF Snapshot, SnapshotFails, Acknowledge, AcknowledgeFails, CallFails, TypeOK, MemInv, StepInv,
       FileInv, ReportedMeansDone
<1> QED
  BY <1>1, <1>2, <1>3, <1>4, <1>5, <1>6, <1>7

(* The lease is drawn.                                                     *)
LEMMA DrawKeepsInv == CInv /\ DrawLease => CInv'
<1> SUFFICES ASSUME CInv, DrawLease PROVE CInv'
  OBVIOUS
<1> USE DEF CInv
<1>0. /\ ctl' \in StateFile /\ proc' \in Process /\ proc'.step = "issue" /\ Same
      /\ ctl'.fp = ctl.fp /\ ctl'.prev = ctl.prev /\ r0 = ctl.fp /\ r0 \in Releases
      /\ proc'.mem.fp = ctl.fp /\ proc'.mem.prev = ctl.prev /\ proc'.mem.lease = ctl'.lease
      /\ \/ ctl.lease = NoLease /\ drawn + 1 \in Leases /\ drawn' = drawn + 1 /\ ctl'.lease = drawn + 1
         \/ ctl.lease # NoLease /\ UNCHANGED <<ctl, drawn>>
  <2>1. ctl \in StateFile /\ proc \in Process /\ proc.mem \in StateFile /\ "issue" \in Steps
    BY DEF TypeOK, Process, Steps
  <2>2. CASE proc.mem.lease = NoLease
    <3> DEFINE m == [proc.mem EXCEPT !.lease = drawn + 1]
    <3>1. drawn + 1 \in SomeLease /\ SaveGoto("issue", m) /\ drawn' = drawn + 1 /\ drawn + 1 \in Leases
      BY <2>2 DEF DrawLease, SomeLease
    <3>2. m \in StateFile /\ m.fp = proc.mem.fp /\ m.prev = proc.mem.prev /\ m.lease = drawn + 1
      BY <2>1, <3>1, Files
    <3> HIDE DEF m
    <3> QED
      BY <2>1, <2>2, <3>1, <3>2, Saves DEF MemInv, DrawLease
  <2>3. CASE proc.mem.lease # NoLease
    BY <2>1, <2>3, Moves DEF MemInv, DrawLease, Same
  <2> QED
    BY <2>2, <2>3
<1>1. TypeOK'
  BY <1>0 DEF DrawLease, TypeOK, Process
<1>2. MemInv'
  BY <1>0 DEF DrawLease, TypeOK, MemInv, Same
<1>3. StepInv'
  BY <1>0 DEF DrawLease, TypeOK, MemInv, StepInv, Same, RollbackSteps
<1>4. FileInv'
  BY <1>0 DEF DrawLease, TypeOK, MemInv, StepInv, FileInv, StateFile, SomeLease
<1>5. KeyInv'
  BY <1>0 DEF DrawLease, TypeOK, MemInv, StepInv, FileInv, KeyInv
<1>6. AcceptInv'
  BY <1>0 DEF DrawLease, TypeOK, MemInv, StepInv, KeyInv, AcceptInv, Accepted
<1>7. ReportedMeansDone'
  BY <1>0 DEF DrawLease, TypeOK, MemInv, StepInv, FileInv, ReportedMeansDone
<1> QED
  BY <1>1, <1>2, <1>3, <1>4, <1>5, <1>6, <1>7

(* The broker issues it.                                                   *)
LEMMA IssueKeepsInv == CInv /\ (Issue \/ IssueFails) => CInv'
<1> SUFFICES ASSUME CInv, Issue \/ IssueFails PROVE CInv'
  OBVIOUS
<1> USE DEF CInv
<1>0. /\ proc' \in Process /\ proc'.step \in {"deliver", "recover", "idle"}
      /\ proc'.step # "idle" => Same /\ proc'.mem = proc.mem
      /\ proc'.step = "deliver" => lease'[proc.mem.lease] = "live"
      /\ proc.mem.lease \in Leases
  <2>1. proc' = Idle \/ \E step \in {"deliver", "recover"} : Goto(step)
    BY DEF Issue, IssueFails, CallFails
  <2>2. proc \in Process /\ {"deliver", "recover"} \in SUBSET Steps
    BY DEF TypeOK, Process, Steps
  <2>3. proc.mem.lease \in Leases
    BY DEF Issue, IssueFails, TypeOK, StepInv, StateFile, SomeLease
  <2>4. proc'.step = "deliver" => lease'[proc.mem.lease] = "live"
    BY <2>2, <2>3, Moves, Ends DEF Issue, IssueFails, CallFails, TypeOK
  <2> QED
    BY <2>1, <2>2, <2>3, <2>4, FailsOrMoves
<1>1. TypeOK'
  BY <1>0 DEF Issue, IssueFails, CallFails, TypeOK, Process, LeaseStates
<1>2. MemInv'
  BY <1>0 DEF Issue, IssueFails, CallFails, TypeOK, MemInv, Same
<1>3. StepInv'
  BY <1>0 DEF Issue, IssueFails, CallFails, TypeOK, MemInv, StepInv, Same, RollbackSteps
<1>4. FileInv'
  BY <1>0 DEF Issue, IssueFails, CallFails, TypeOK, MemInv, StepInv, FileInv
<1>5. KeyInv'
  BY <1>0 DEF Issue, IssueFails, CallFails, TypeOK, MemInv, StepInv, FileInv, KeyInv
<1>6. AcceptInv'
  BY <1>0 DEF Issue, IssueFails, CallFails, TypeOK, MemInv, StepInv, KeyInv, AcceptInv, Accepted
<1>7. ReportedMeansDone'
  BY <1>0 DEF Issue, IssueFails, CallFails, TypeOK, MemInv, StepInv, FileInv, ReportedMeansDone
<1> QED
  BY <1>1, <1>2, <1>3, <1>4, <1>5, <1>6, <1>7

(* The target takes its key in use.                                        *)
LEMMA DeliverKeepsInv == CInv /\ (Deliver \/ DeliverFails) => CInv'
<1> SUFFICES ASSUME CInv, Deliver \/ DeliverFails PROVE CInv'
  OBVIOUS
<1> USE DEF CInv
<1>0. /\ proc' \in Process /\ proc'.step \in {"advance", "recover", "idle"}
      /\ proc'.step # "idle" => Same /\ proc'.mem = proc.mem
      /\ proc.mem.lease \in Leases
  <2>1. proc' = Idle \/ \E step \in {"advance", "recover"} : Goto(step)
    BY DEF Deliver, DeliverFails, CallFails
  <2>2. proc \in Process /\ {"advance", "recover"} \in SUBSET Steps
    BY DEF TypeOK, Process, Steps
  <2>3. proc.mem.lease \in Leases
    BY DEF Deliver, DeliverFails, TypeOK, StepInv, StateFile, SomeLease
  <2> QED
    BY <2>1, <2>2, <2>3, FailsOrMoves
<1>1. TypeOK'
  BY <1>0 DEF Deliver, DeliverFails, CallFails, TypeOK, Process, Phases, SomeLease
<1>2. MemInv'
  BY <1>0 DEF Deliver, DeliverFails, CallFails, TypeOK, MemInv, Same
<1>3. StepInv'
  BY <1>0 DEF Deliver, DeliverFails, CallFails, TypeOK, MemInv, StepInv, Same, RollbackSteps
<1>4. FileInv'
  BY <1>0 DEF Deliver, DeliverFails, CallFails, TypeOK, MemInv, StepInv, FileInv, Early
<1>5. KeyInv'
  BY <1>0 DEF Deliver, DeliverFails, CallFails, TypeOK, MemInv, StepInv, FileInv, KeyInv, Early, Later
<1>6. AcceptInv'
  BY <1>0 DEF Deliver, DeliverFails, CallFails, TypeOK, MemInv, StepInv, KeyInv, AcceptInv, Accepted
<1>7. ReportedMeansDone'
  BY <1>0 DEF Deliver, DeliverFails, CallFails, TypeOK, MemInv, StepInv, FileInv, ReportedMeansDone
<1> QED
  BY <1>1, <1>2, <1>3, <1>4, <1>5, <1>6, <1>7

(* The target goes on.                                                     *)
LEMMA AdvanceKeepsInv == CInv /\ Advance => CInv'
<1> SUFFICES ASSUME CInv, Advance PROVE CInv'
  OBVIOUS
<1> USE DEF CInv
<1>0. PICK p \in Rebooting \cup {"closed"} :
         /\ Advanced(p)
         /\ LET m == [proc.mem EXCEPT !.stage = p] IN
              SaveGoto(IF p = "closed" THEN "finish" ELSE "advance", m)
  BY DEF Advance
<1> DEFINE m == [proc.mem EXCEPT !.stage = p]
<1>a. m \in StateFile /\ m.fp = ctl.fp /\ m.prev = ctl.prev /\ m.lease = ctl.lease /\ ctl' = m
      /\ proc' \in Process /\ proc'.step = (IF p = "closed" THEN "finish" ELSE "advance") /\ Same /\ proc'.mem = m
  <2>1. proc.mem \in StateFile /\ p \in Phases /\ proc \in Process
    BY DEF TypeOK, Process, Phases
  <2>2. m \in StateFile /\ m.fp = proc.mem.fp /\ m.prev = proc.mem.prev /\ m.lease = proc.mem.lease
    BY <2>1, Files
  <2>3. SaveGoto(IF p = "closed" THEN "finish" ELSE "advance", m)
    BY <1>0
  <2> HIDE DEF m
  <2> QED
    BY <2>1, <2>2, <2>3, Saves DEF Advance, MemInv, Steps
<1> HIDE DEF m
<1>b. /\ r0 \in Releases /\ r0 = ctl.fp /\ phase[r0] \in Later /\ phase' = [phase EXCEPT ![r0] = p] /\ p \in Later
      /\ (phase[r0] = "closed" => p = "closed")
  BY <1>0 DEF Advance, Advanced, AdvancesTo, MemInv, Later
<1>1. TypeOK'
  <2>1. phase' \in [Releases -> Phases] /\ p \in Phases
    BY <1>b DEF TypeOK, Phases, Later
  <2>2. rebooted' \in BOOLEAN
    BY <1>0 DEF Advanced
  <2> QED
    BY <1>a, <2>1, <2>2 DEF Advance, TypeOK, Process
<1>2. MemInv'
  BY <1>0, <1>a, <1>b DEF Advance, TypeOK, MemInv, Same
<1>3. StepInv'
  BY <1>0, <1>a, <1>b DEF Advance, TypeOK, MemInv, StepInv, Same, RollbackSteps
<1>4. FileInv'
  BY <1>0, <1>a, <1>b DEF Advance, TypeOK, MemInv, StepInv, FileInv, Early, Later
<1>5. KeyInv'
  BY <1>0, <1>a, <1>b DEF Advance, TypeOK, MemInv, StepInv, FileInv, KeyInv, Later
<1>6. AcceptInv'
  BY <1>0, <1>a, <1>b DEF Advance, TypeOK, MemInv, StepInv, KeyInv, AcceptInv, Accepted
<1>7. ReportedMeansDone'
  BY <1>0, <1>a, <1>b DEF Advance, TypeOK, MemInv, StepInv, FileInv, ReportedMeansDone
<1> QED
  BY <1>1, <1>2, <1>3, <1>4, <1>5, <1>6, <1>7

(* A rollback on the target, by a request or by a guard, of a release that *)
(* has not closed.                                                         *)
LEMMA RollsBack ==
    ASSUME CInv, NEW r \in Releases, phase[r] # "closed", TargetRollback(r)
    PROVE  /\ installed' = saved[r] /\ r \in captured
           /\ \E p \in {"rolled-back", "recovery-required"} :
                phase' = [phase EXCEPT ![r] = p] /\ phase'[r] = p
           /\ phase' \in [Releases -> Phases] /\ installed' \in SomeLease
BY DEF CInv, TypeOK, TargetRollback, RestoredKey, Phases

(* What it leaves of the invariant, whoever asked for it.                  *)
LEMMA RolledBackKeeps ==
    ASSUME CInv, NEW r \in Releases, phase[r] # "closed", TargetRollback(r),
           ctl'.fp = ctl.fp, ctl'.lease = ctl.lease, ctl'.prev = ctl.prev,
           r <= ctl.fp, UNCHANGED <<saved, lease, drawn, reported>>
    PROVE  FileInv' /\ KeyInv' /\ AcceptInv' /\ ReportedMeansDone'
<1>0. PICK p \in {"rolled-back", "recovery-required"} :
        /\ phase' = [phase EXCEPT ![r] = p] /\ phase'[r] = p /\ p \notin Later /\ p \notin Early /\ p # "closed"
        /\ installed' = saved[r] /\ phase \in [Releases -> Phases]
  BY RollsBack DEF Later, Early, CInv, TypeOK
<1>1. FileInv'
  <2>1. ctl.fp \in Releases \cup {NoRelease}
    BY DEF CInv, TypeOK, StateFile
  <2>2. \A q \in Releases : q > ctl.fp => q # r
    BY <2>1, Numbers
  <2>3. \A q \in Releases : phase'[q] = IF q = r THEN p ELSE phase[q]
    BY <1>0
  <2> QED
    BY <1>0, <2>2, <2>3 DEF CInv, FileInv
<1>2. KeyInv'
  BY <1>0 DEF CInv, KeyInv
<1>3. AcceptInv'
  BY <1>0 DEF CInv, AcceptInv, Accepted
<1>4. ReportedMeansDone'
  BY <1>0 DEF CInv, ReportedMeansDone, TypeOK
<1> QED
  BY <1>1, <1>2, <1>3, <1>4

(* The target fails on the way.                                            *)
LEMMA AdvanceFailsKeepsInv == CInv /\ AdvanceFails => CInv'
<1> SUFFICES ASSUME CInv, AdvanceFails PROVE CInv'
  OBVIOUS
<1> USE DEF CInv
<1>0. /\ proc' \in Process /\ proc'.step \in {"advance", "recover", "idle"}
      /\ proc'.step # "idle" => Same /\ proc'.mem = proc.mem
      /\ r0 \in Releases /\ r0 = ctl.fp /\ proc.op # "rollback" /\ At("advance")
  <2>1. proc' = Idle \/ \E step \in {"advance", "recover"} : Goto(step)
    BY DEF AdvanceFails, RetryOrRecover
  <2>2. proc \in Process /\ {"advance", "recover"} \in SUBSET Steps
    BY DEF TypeOK, Process, Steps
  <2>3. r0 \in Releases /\ r0 = ctl.fp /\ proc.op # "rollback" /\ At("advance")
    BY DEF AdvanceFails, MemInv, StepInv, RollbackSteps
  <2> QED
    BY <2>1, <2>2, <2>3, FailsOrMoves
<1>1. faults' \in 0..MaxFaults /\ UNCHANGED <<ctl, captured, saved, guards, lease, drawn, reported>>
  BY DEF AdvanceFails, TypeOK
<1>2. MemInv' /\ StepInv'
  BY <1>0, <1>1 DEF MemInv, StepInv, RollbackSteps, Same
<1>3. CASE phase[r0] # "closed" /\ TargetRollback(r0) /\ UNCHANGED rebooted
  <2>1. TypeOK'
    BY <1>0, <1>1, <1>3, RollsBack DEF TypeOK, Process
  <2>2. r0 <= ctl.fp
    BY <1>0, Numbers
  <2> QED
    BY <1>0, <1>1, <1>2, <1>3, <2>1, <2>2, RolledBackKeeps
<1>4. CASE installed' = installed /\ rebooted' \in BOOLEAN /\ \E p \in Later :
             phase' = [phase EXCEPT ![r0] = p] /\ phase[r0] \in Later /\ (phase[r0] = "closed" => p = "closed")
  <2>1. PICK p \in Later :
             phase' = [phase EXCEPT ![r0] = p] /\ phase[r0] \in Later /\ (phase[r0] = "closed" => p = "closed")
    BY <1>4
  <2>2. phase' \in [Releases -> Phases]
    BY <2>1 DEF TypeOK, Later, Phases
  <2>3. TypeOK'
    BY <1>0, <1>1, <1>4, <2>2 DEF TypeOK, Process
  <2>4. FileInv' /\ KeyInv'
    BY <1>0, <1>1, <1>4, <2>1 DEF TypeOK, StateFile, FileInv, KeyInv, Early, Later
  <2>5. AcceptInv' /\ ReportedMeansDone'
    BY <1>0, <1>1, <1>4, <2>1 DEF TypeOK, AcceptInv, Accepted, ReportedMeansDone
  <2> QED
    BY <1>2, <2>3, <2>4, <2>5
<1>5. CASE UNCHANGED <<phase, installed, rebooted>>
  BY <1>0, <1>1, <1>2, <1>5 DEF TypeOK, Process, FileInv, KeyInv, AcceptInv, Accepted, ReportedMeansDone
<1>6. \/ UNCHANGED <<phase, installed, rebooted>>
      \/ phase[r0] # "closed" /\ TargetRollback(r0) /\ UNCHANGED rebooted
      \/ /\ installed' = installed /\ rebooted' \in BOOLEAN
         /\ \E p \in Later :
              phase' = [phase EXCEPT ![r0] = p] /\ phase[r0] \in Later /\ (phase[r0] = "closed" => p = "closed")
  <2>1. rebooted \in BOOLEAN
    BY DEF TypeOK
  <2>2. (\E p \in Phases : Advanced(p)) => rebooted' \in BOOLEAN /\ \E p \in Later :
              phase' = [phase EXCEPT ![r0] = p] /\ phase[r0] \in Later /\ (phase[r0] = "closed" => p = "closed")
    BY DEF Advanced, AdvancesTo, Later
  <2> QED
    BY <2>1, <2>2 DEF AdvanceFails, Later
<1> QED
  BY <1>3, <1>4, <1>5, <1>6

(* The previous lease is retired.                                          *)
LEMMA FinishKeepsInv == CInv /\ (FinishRetire \/ FinishRetireFails \/ FinishDone) => CInv'
<1> SUFFICES ASSUME CInv, FinishRetire \/ FinishRetireFails \/ FinishDone PROVE CInv'
  OBVIOUS
<1> USE DEF CInv
<1>0. /\ proc' \in Process /\ ctl' \in StateFile /\ proc'.step \in {"finish", "recover", "idle"}
      /\ proc'.step # "idle" => Same /\ proc'.mem.fp = ctl'.fp /\ proc'.mem.lease = ctl'.lease /\ proc'.mem.prev = ctl'.prev
      /\ ctl'.fp = ctl.fp /\ ctl'.lease = ctl.lease /\ ctl'.prev \in {ctl.prev, NoLease}
      /\ r0 \in Releases /\ r0 = ctl.fp /\ phase[r0] = "closed" /\ proc.op # "rollback"
      /\ proc.mem.prev \in SomeLease /\ proc.mem.prev = ctl.prev /\ proc.mem.lease = ctl.lease
  <2>1. ctl \in StateFile /\ proc \in Process /\ proc.mem \in StateFile /\ Steps \cap {"finish", "recover"} = {"finish", "recover"}
    BY DEF TypeOK, Process, Steps
  <2>2. /\ r0 \in Releases /\ r0 = ctl.fp /\ phase[r0] = "closed" /\ proc.op # "rollback"
        /\ proc.mem.fp = ctl.fp /\ proc.mem.prev = ctl.prev /\ proc.mem.lease = ctl.lease /\ proc.mem.prev \in SomeLease
    BY <2>1 DEF FinishRetire, FinishRetireFails, FinishDone, MemInv, StepInv, RollbackSteps, StateFile
  <2>3. CASE FinishRetire /\ Revocable(proc.mem.prev)
    <3> DEFINE m == [proc.mem EXCEPT !.prev = NoLease]
    <3>1. SaveGoto("finish", m)
      BY <2>3 DEF FinishRetire
    <3>2. m \in StateFile /\ m.fp = proc.mem.fp /\ m.prev = NoLease /\ m.lease = proc.mem.lease
      BY <2>1, Files
    <3> HIDE DEF m
    <3> QED
      BY <2>1, <2>2, <3>1, <3>2, Saves
  <2>4. CASE (FinishRetire /\ ~Revocable(proc.mem.prev)) \/ FinishRetireFails
    <3>1. ctl' = ctl /\ (Goto("recover") \/ proc' = Idle)
      BY <2>4 DEF FinishRetire, FinishRetireFails, CallFails
    <3> QED
      BY <2>1, <2>2, <3>1, Moves, Ends
  <2>5. CASE FinishDone
    BY <2>1, <2>2, <2>5, Ends DEF FinishDone
  <2> QED
    BY <2>3, <2>4, <2>5
<1>a. \A l \in Leases : lease'[l] = lease[l] \/ (l = ctl.prev /\ l # NoLease)
  BY <1>0 DEF FinishRetire, FinishRetireFails, FinishDone, MustRetire, TypeOK
<1>1. TypeOK'
  BY <1>0 DEF FinishRetire, FinishRetireFails, CallFails, FinishDone, TypeOK, Process, LeaseStates
<1>2. MemInv'
  BY <1>0 DEF FinishRetire, FinishRetireFails, CallFails, FinishDone, TypeOK, MemInv, Same
<1>3. StepInv'
  BY <1>0 DEF FinishRetire, FinishRetireFails, CallFails, FinishDone, TypeOK, MemInv, StepInv, Same
<1>4. FileInv'
  BY <1>0 DEF FinishRetire, FinishRetireFails, CallFails, FinishDone, TypeOK, MemInv, StepInv, FileInv,
       StateFile
<1>5. KeyInv'
  BY <1>0 DEF FinishRetire, FinishRetireFails, CallFails, FinishDone, TypeOK, MemInv, StepInv, FileInv, KeyInv
<1>6. AcceptInv'
  BY <1>0, <1>a
     DEF FinishRetire, FinishRetireFails, CallFails, FinishDone, TypeOK, MemInv, StepInv, KeyInv,
          AcceptInv, Accepted, Later
<1>7. ReportedMeansDone'
  BY <1>0
     DEF FinishRetire, FinishRetireFails, CallFails, FinishDone, TypeOK, MemInv, StepInv, FileInv,
          ReportedMeansDone, MustRetire
<1> QED
  BY <1>1, <1>2, <1>3, <1>4, <1>5, <1>6, <1>7

-----------------------------------------------------------------------------
(* The operator's rollback and the handler of Failure: where the process   *)
(* is afterwards, and what the state file is.                              *)
LEMMA RollbacksMove ==
    ASSUME CInv, Rollback \/ RollbackFails \/ Recover \/ RecoverRollback
    PROVE  /\ proc' \in Process /\ ctl' \in StateFile
           /\ proc'.step \in {"idle", "recover", "recoverRollback", "recoverRevoke"}
           /\ proc'.step # "idle" =>
                /\ Same /\ proc'.mem.fp = ctl'.fp /\ proc'.mem.lease = ctl'.lease /\ proc'.mem.prev = ctl'.prev
           /\ ctl'.fp = ctl.fp /\ ctl'.lease = ctl.lease /\ ctl'.prev = ctl.prev
           /\ r0 \in Releases /\ r0 = ctl.fp
<1>1. /\ ctl \in StateFile /\ proc \in Process /\ proc.mem \in StateFile
      /\ Steps \cap {"recover", "recoverRollback", "recoverRevoke"} = {"recover", "recoverRollback", "recoverRevoke"}
  BY DEF CInv, TypeOK, Process, Steps
<1>2. /\ r0 \in Releases /\ r0 = ctl.fp
      /\ proc.mem.fp = ctl.fp /\ proc.mem.prev = ctl.prev /\ proc.mem.lease = ctl.lease
  BY DEF Rollback, RollbackFails, Recover, RecoverRollback, CInv, MemInv
<1>3. \/ \E step \in {"recover", "recoverRollback"} : Goto(step) /\ UNCHANGED ctl
      \/ SaveEnd(proc.mem)
      \/ proc' = Idle /\ UNCHANGED ctl
      \/ \E p \in Phases : LET m == [proc.mem EXCEPT !.stage = p] IN
            \/ SaveEnd(m)
            \/ proc' = [proc EXCEPT !.step = "recoverRevoke", !.mem = m] /\ UNCHANGED ctl
  <2>1. TargetRollback(r0) => phase'[r0] \in Phases
    BY <1>2 DEF TargetRollback, CInv, TypeOK, Phases
  <2> QED
    BY <2>1 DEF Rollback, RollbackFails, CallFails, Recover, RecoverRollback
<1>4. CASE \E step \in {"recover", "recoverRollback"} : Goto(step) /\ UNCHANGED ctl
  BY <1>1, <1>2, <1>4, Moves
<1>5. CASE SaveEnd(proc.mem)
  BY <1>1, <1>2, <1>5, Ends DEF SaveEnd
<1>6. CASE proc' = Idle /\ UNCHANGED ctl
  BY <1>1, <1>2, <1>6, Ends
<1>7. ASSUME NEW p \in Phases, LET m == [proc.mem EXCEPT !.stage = p] IN
            \/ SaveEnd(m)
            \/ proc' = [proc EXCEPT !.step = "recoverRevoke", !.mem = m] /\ UNCHANGED ctl
      PROVE /\ proc' \in Process /\ ctl' \in StateFile
            /\ proc'.step \in {"idle", "recoverRevoke"}
            /\ proc'.step # "idle" =>
                /\ Same /\ proc'.mem.fp = ctl'.fp /\ proc'.mem.lease = ctl'.lease /\ proc'.mem.prev = ctl'.prev
            /\ ctl'.fp = ctl.fp /\ ctl'.lease = ctl.lease /\ ctl'.prev = ctl.prev
  <2> DEFINE m == [proc.mem EXCEPT !.stage = p]
  <2>1. m \in StateFile /\ m.fp = proc.mem.fp /\ m.lease = proc.mem.lease /\ m.prev = proc.mem.prev
    BY <1>1, Files
  <2>2. SaveEnd(m) \/ (proc' = [proc EXCEPT !.step = "recoverRevoke", !.mem = m] /\ UNCHANGED ctl)
    BY <1>7
  <2> HIDE DEF m
  <2> QED
    BY <1>1, <1>2, <2>1, <2>2, Ends DEF SaveEnd, Process, Same
<1> QED
  BY <1>2, <1>3, <1>4, <1>5, <1>6, <1>7

LEMMA RollbackKeepsInv == CInv /\ (Rollback \/ RollbackFails \/ Recover \/ RecoverRollback) => CInv'
<1> SUFFICES ASSUME CInv, Rollback \/ RollbackFails \/ Recover \/ RecoverRollback PROVE CInv'
  OBVIOUS
<1>0. UNCHANGED <<captured, saved, guards, rebooted, lease, drawn, reported>> /\ faults' \in 0..MaxFaults
  BY DEF Rollback, RollbackFails, CallFails, Recover, RecoverRollback, CInv, TypeOK
<1>1. \/ UNCHANGED <<phase, installed>> /\ proc'.step # "recoverRevoke"
      \/ phase[r0] # "closed" /\ TargetRollback(r0)
  <2>1. /\ At("rollback") => phase[r0] # "closed"
        /\ At("recoverRollback") => phase[r0] # "closed"
    BY DEF CInv, StepInv
  <2> QED
    BY <2>1, Ends, Moves
       DEF Rollback, RollbackFails, CallFails, Recover, RecoverRollback, CInv, TypeOK, Process, Steps, SaveEnd
<1>2. TypeOK'
  <2>1. phase' \in [Releases -> Phases] /\ installed' \in SomeLease
    BY <1>1, RollbacksMove, RollsBack DEF CInv, TypeOK
  <2> QED
    BY <1>0, <2>1, RollbacksMove DEF CInv, TypeOK, Process
<1>3. MemInv'
  BY RollbacksMove DEF MemInv, Same
<1>4. StepInv'
  <2>1. CASE phase[r0] # "closed" /\ TargetRollback(r0)
    <3>1. PICK p \in {"rolled-back", "recovery-required"} : phase'[r0] = p
      BY <2>1, RollbacksMove, RollsBack
    <3>2. installed' = saved[r0]
      BY <2>1, RollbacksMove, RollsBack
    <3>3. proc'.step = "recoverRevoke" => proc'.mem.lease # NoLease
      BY RollbacksMove, Ends, Moves
         DEF Rollback, RollbackFails, CallFails, Recover, RecoverRollback, SaveEnd, CInv, TypeOK, Process,
              Steps
    <3> QED
      BY <1>0, <3>1, <3>2, <3>3, RollbacksMove DEF CInv, StepInv, KeyInv, Same, RollbackSteps
  <2>2. CASE UNCHANGED <<phase, installed>> /\ proc'.step # "recoverRevoke"
    <3>1. proc'.step = "recoverRollback" => phase[r0] # "closed"
      BY <2>2, Ends, Moves
         DEF Rollback, RollbackFails, CallFails, Recover, RecoverRollback, SaveEnd, CInv, TypeOK, Process,
              Steps
    <3> QED
      BY <1>0, <2>2, <3>1, RollbacksMove DEF CInv, StepInv, Same, RollbackSteps,
         Rollback, RollbackFails, CallFails, Recover, RecoverRollback
  <2> QED
    BY <1>1, <2>1, <2>2
<1>5. FileInv' /\ KeyInv' /\ AcceptInv' /\ ReportedMeansDone'
  <2>1. CASE UNCHANGED <<phase, installed>>
    BY <1>0, <2>1, RollbacksMove DEF CInv, FileInv, KeyInv, AcceptInv, Accepted, ReportedMeansDone
  <2>2. CASE phase[r0] # "closed" /\ TargetRollback(r0)
    <3>1. r0 <= ctl.fp
      BY RollbacksMove, Numbers
    <3> QED
      BY <1>0, <2>2, <3>1, RollbacksMove, RolledBackKeeps
  <2> QED
    BY <1>1, <2>1, <2>2
<1> QED
  BY <1>2, <1>3, <1>4, <1>5 DEF CInv

(* A lease that is neither in use nor saved by a release that may yet be   *)
(* rolled back can be revoked.                                             *)
LEMMA RevokedKeeps ==
    ASSUME CInv, NEW l \in Leases, lease' = [lease EXCEPT ![l] = "revoked"], UNCHANGED <<phase, installed, saved>>,
           installed # l, \A r \in Releases : phase[r] # "closed" => saved[r] # l
    PROVE  AcceptInv' /\ lease' \in [Leases -> LeaseStates]
BY DEF CInv, TypeOK, AcceptInv, Accepted, LeaseStates

(* The handler's own lease is such a one, once its release is rolled back. *)
LEMMA OwnLeaseIsFree ==
    ASSUME CInv, At("recoverRevoke")
    PROVE  /\ proc.mem.lease \in Leases /\ proc.mem.lease = ctl.lease
           /\ installed # proc.mem.lease /\ \A r \in Releases : saved[r] # proc.mem.lease
<1>1. proc.mem \in StateFile /\ proc.mem.lease # NoLease /\ proc.mem.lease = ctl.lease
  BY DEF CInv, TypeOK, MemInv, StepInv
<1>2. installed # proc.mem.lease
  BY DEF CInv, StepInv
<1> QED
  BY <1>1, <1>2 DEF CInv, KeyInv, StateFile, SomeLease

LEMMA RevokeKeepsInv == CInv /\ RecoverRevoke => CInv'
<1> SUFFICES ASSUME CInv, RecoverRevoke PROVE CInv'
  OBVIOUS
<1>0. /\ proc' = Idle /\ ctl' \in StateFile
      /\ ctl'.fp = ctl.fp /\ ctl'.lease = ctl.lease /\ ctl'.prev = ctl.prev
      /\ UNCHANGED <<targetVars, drawn, reported, faults>>
      /\ \/ lease' = [lease EXCEPT ![proc.mem.lease] = "revoked"]
         \/ lease' = lease
  BY DEF RecoverRevoke, SaveEnd, CInv, TypeOK, MemInv
<1>1. AcceptInv' /\ lease' \in [Leases -> LeaseStates]
  <2>1. CASE lease' = lease
    BY <1>0, <2>1 DEF CInv, TypeOK, AcceptInv, Accepted
  <2>2. CASE lease' = [lease EXCEPT ![proc.mem.lease] = "revoked"]
    BY <1>0, <2>2, OwnLeaseIsFree, RevokedKeeps DEF RecoverRevoke
  <2> QED
    BY <1>0, <2>1, <2>2
<1>2. TypeOK' /\ MemInv' /\ StepInv'
  BY <1>0, <1>1, Ends DEF CInv, TypeOK, Process, MemInv, StepInv
<1>3. FileInv' /\ KeyInv' /\ ReportedMeansDone'
  BY <1>0 DEF CInv, FileInv, KeyInv, ReportedMeansDone
<1> QED
  BY <1>1, <1>2, <1>3 DEF CInv

LEMMA DiesKeepsInv == CInv /\ Dies => CInv'
<1> SUFFICES ASSUME CInv, Dies PROVE CInv'
  OBVIOUS
<1>0. /\ proc' = Idle /\ faults' \in 0..MaxFaults
      /\ UNCHANGED <<ctl, captured, saved, guards, rebooted, drawn, reported>>
  BY DEF Dies, CInv, TypeOK
<1>1. MemInv' /\ StepInv'
  BY <1>0, Ends DEF MemInv, StepInv
<1>2. CASE UNCHANGED <<phase, installed, lease>>
  BY <1>0, <1>1, <1>2, Ends DEF CInv, TypeOK, Process, FileInv, KeyInv, AcceptInv, Accepted, ReportedMeansDone
<1>3. CASE At("recoverRollback") /\ TargetRollback(r0) /\ UNCHANGED lease
  <2>1. r0 \in Releases /\ r0 = ctl.fp /\ phase[r0] # "closed"
    BY <1>3 DEF CInv, MemInv, StepInv
  <2>2. r0 <= ctl.fp
    BY <2>1, Numbers
  <2>3. phase' \in [Releases -> Phases] /\ installed' \in SomeLease
    BY <1>3, <2>1, RollsBack
  <2>4. TypeOK'
    BY <1>0, <1>3, <2>3, Ends DEF CInv, TypeOK, Process
  <2>5. FileInv' /\ KeyInv' /\ AcceptInv' /\ ReportedMeansDone'
    BY <1>0, <1>3, <2>1, <2>2, RolledBackKeeps
  <2> QED
    BY <1>1, <2>4, <2>5 DEF CInv
<1>4. CASE /\ At("recoverRevoke") /\ lease' = [lease EXCEPT ![proc.mem.lease] = "revoked"]
           /\ UNCHANGED <<phase, installed>>
  <2>1. AcceptInv' /\ lease' \in [Leases -> LeaseStates]
    BY <1>0, <1>4, OwnLeaseIsFree, RevokedKeeps
  <2>2. TypeOK'
    BY <1>0, <1>4, <2>1, Ends DEF CInv, TypeOK, Process
  <2>3. FileInv' /\ KeyInv' /\ ReportedMeansDone'
    BY <1>0, <1>4 DEF CInv, FileInv, KeyInv, ReportedMeansDone
  <2> QED
    BY <1>1, <2>1, <2>2, <2>3 DEF CInv
<1> QED
  BY <1>2, <1>3, <1>4 DEF Dies

-----------------------------------------------------------------------------
(* The target on its own.                                                  *)
LEMMA GuardKeepsInv == ASSUME CInv, NEW r \in Releases, GuardFires(r) PROVE CInv'
<1>0. /\ UNCHANGED <<ctl, proc, captured, saved, rebooted, lease, drawn, reported, faults>>
      /\ guards' \in SUBSET Releases
      /\ \/ phase[r] \in PrePackage /\ TargetRollback(r)
         \/ UNCHANGED <<phase, installed>>
  BY DEF GuardFires, CInv, TypeOK
<1>1. MemInv'
  BY <1>0 DEF CInv, MemInv
<1>2. CASE UNCHANGED <<phase, installed>>
  <2>1. TypeOK'
    BY <1>0, <1>2 DEF CInv, TypeOK
  <2> QED
    BY <1>0, <1>1, <1>2, <2>1 DEF CInv, StepInv, FileInv, KeyInv, AcceptInv, Accepted, ReportedMeansDone
<1>3. CASE phase[r] \in PrePackage /\ TargetRollback(r)
  <2>1. PICK p \in {"rolled-back", "recovery-required"} : phase' = [phase EXCEPT ![r] = p]
    BY <1>3, RollsBack
  <2>2. installed' = saved[r] /\ phase' \in [Releases -> Phases] /\ installed' \in SomeLease
    BY <1>3, RollsBack
  <2>3. TypeOK'
    BY <1>0, <2>2 DEF CInv, TypeOK
  <2>4. r <= ctl.fp
    <3>1. ~(r > ctl.fp)
      BY <1>3 DEF CInv, FileInv
    <3>2. ctl.fp \in Releases \cup {NoRelease}
      BY DEF CInv, TypeOK, StateFile
    <3>3. r \in Nat /\ ctl.fp \in Nat
      BY <3>2, Numbers
    <3> QED
      BY <3>1, <3>3
  <2>5. StepInv'
    BY <1>0, <1>3, <2>1, <2>2 DEF CInv, TypeOK, MemInv, StepInv, KeyInv, Early
  <2> QED
    BY <1>0, <1>1, <1>3, <2>3, <2>4, <2>5, RolledBackKeeps DEF CInv
<1> QED
  BY <1>0, <1>2, <1>3

LEMMA RebootKeepsInv == CInv /\ (TargetReboots \/ UNCHANGED vars) => CInv'
<1> SUFFICES ASSUME CInv, TargetReboots \/ UNCHANGED vars PROVE CInv'
  OBVIOUS
<1>0. /\ UNCHANGED <<ctl, proc, phase, captured, saved, installed, lease, drawn, reported, faults>>
      /\ guards' \in SUBSET Releases /\ rebooted' \in BOOLEAN
  BY DEF TargetReboots, vars, CInv, TypeOK
<1>1. TypeOK'
  BY <1>0 DEF CInv, TypeOK
<1>2. MemInv' /\ StepInv' /\ FileInv' /\ KeyInv'
  BY <1>0 DEF CInv, MemInv, StepInv, FileInv, KeyInv
<1>3. AcceptInv' /\ ReportedMeansDone'
  BY <1>0 DEF CInv, AcceptInv, Accepted, ReportedMeansDone
<1> QED
  BY <1>1, <1>2, <1>3 DEF CInv

-----------------------------------------------------------------------------
LEMMA ControllerNext == RollsBackClosed = FALSE /\ RunsOlder = FALSE /\ CInv /\ [Next]_vars => CInv'
BY StartKeepsInv, UploadKeepsInv, DecisionsKeepInv, SnapshotKeepsInv, DrawKeepsInv, IssueKeepsInv,
     DeliverKeepsInv,
   AdvanceKeepsInv, AdvanceFailsKeepsInv, FinishKeepsInv, RollbackKeepsInv, RevokeKeepsInv, DiesKeepsInv,
   GuardKeepsInv, RebootKeepsInv
   DEF Next, Run, ControllerStep, Failures

LEMMA ControllerInvariant == ASSUME RollsBackClosed = FALSE, RunsOlder = FALSE PROVE Spec => []CInv
<1>1. CInv /\ [Next]_vars => CInv'
  BY ControllerNext
<1> QED
  BY <1>1, ControllerInit, PTL DEF Spec

(* When no operator rolls back a closed release, a deployment that was     *)
(* reported complete stays closed, with no earlier lease left to retire    *)
(* (controller.finish and the handler in main).                            *)
THEOREM ControllerInvHolds == ASSUME RollsBackClosed = FALSE, RunsOlder = FALSE PROVE Spec => []ControllerInv
<1>1. CInv => ControllerInv
  BY DEF CInv, ControllerInv
<1> QED
  BY <1>1, ControllerInvariant, PTL

-----------------------------------------------------------------------------
(* The refinement: every step issues, uses or retires one lease, or none.  *)
Issued == {l \in Leases : lease[l] \in {"kept", "live", "revoked"}}
Revoked == {l \in Leases : lease[l] = "revoked"}

LEMMA RotationInit == Init => Rotation!Init
BY DEF Init, Rotation!Init

LEMMA SameKeys == UNCHANGED <<installed, lease>> => UNCHANGED Rotation!rotationVars
BY DEF Rotation!rotationVars

(* A key that is accepted is put in use.                                   *)
LEMMA Uses ==
    ASSUME TypeOK, Accepted(installed'), installed' \in SomeLease, UNCHANGED lease
    PROVE  Rotation!Next
<1>1. installed' = NoLease \/ installed' \in Issued \ Revoked
  BY DEF Accepted, Issued, Revoked
<1>2. PICK k \in SomeLease : k = installed'
  OBVIOUS
<1>3. Rotation!Use(k)
  BY <1>1, <1>2 DEF Rotation!Use, Issued, Revoked
<1> QED
  BY <1>3 DEF Rotation!Next, SomeLease

(* A lease is issued, once; what of it the broker has recorded is enough.  *)
LEMMA Issues ==
    ASSUME TypeOK, NEW l \in Leases, lease[l] = "unknown", NEW made \in {"stuck", "kept", "live"},
           lease' = [lease EXCEPT ![l] = made], UNCHANGED installed
    PROVE  [Rotation!Next]_(Rotation!rotationVars)
<1>1. CASE made = "stuck"
  <2>1. Issued' = Issued /\ Revoked' = Revoked
    BY <1>1 DEF Issued, Revoked, TypeOK
  <2> QED
    BY <2>1 DEF Rotation!rotationVars, Issued, Revoked
<1>2. CASE made # "stuck"
  <2>1. Rotation!Issue(l)
    BY <1>2 DEF Rotation!Issue, TypeOK
  <2> QED
    BY <2>1 DEF Rotation!Next
<1> QED
  BY <1>1, <1>2

(* A lease that is not in use is retired, once.                            *)
LEMMA Retires ==
    ASSUME TypeOK, NEW l \in Leases, Revocable(l), l # installed, lease' = [lease EXCEPT ![l] = "revoked"],
           UNCHANGED installed
    PROVE  [Rotation!Next]_(Rotation!rotationVars)
<1>1. CASE lease[l] = "revoked"
  BY <1>1, SameKeys DEF TypeOK
<1>2. CASE lease[l] \in {"kept", "live"}
  <2>1. Rotation!Retire(l)
    BY <1>2 DEF Rotation!Retire, TypeOK
  <2> QED
    BY <2>1 DEF Rotation!Next
<1> QED
  BY <1>1, <1>2 DEF Revocable

(* Every step that leaves the leases alone: the key in use after it is     *)
(* still accepted (CInv), so it may have been put in use by it.            *)
LEMMA UsesAreAccepted == CInv /\ CInv' /\ UNCHANGED lease => Rotation!Next
<1> SUFFICES ASSUME CInv, CInv', UNCHANGED lease PROVE Rotation!Next
  OBVIOUS
<1>1. Accepted(installed)' /\ installed' \in SomeLease
  BY DEF CInv, AcceptInv, TypeOK
<1>2. Accepted(installed')
  BY <1>1 DEF Accepted
<1> QED
  BY <1>1, <1>2, Uses DEF CInv

(* The steps that change a lease.                                          *)
LEMMA LeaseStepsRefine ==
    ASSUME CInv, CInv', Next, lease' # lease
    PROVE  [Rotation!Next]_(Rotation!rotationVars)
<1>1. CASE Issue \/ IssueFails
  <2>1. proc.mem.lease \in Leases /\ UNCHANGED installed
    BY <1>1 DEF Issue, IssueFails, CInv, StepInv, TypeOK, StateFile, SomeLease
  <2>2. PICK made \in {"stuck", "kept", "live"} : lease' = [lease EXCEPT ![proc.mem.lease] = made]
    BY <1>1 DEF Issue, IssueFails
  <2>3. lease[proc.mem.lease] = "unknown"
    BY <1>1, <2>1 DEF Issue, IssueFails, CInv, TypeOK
  <2> QED
    BY <2>1, <2>2, <2>3, Issues DEF CInv
<1>2. CASE FinishRetire \/ FinishRetireFails
  <2>1. /\ proc.mem.prev \in Leases /\ Revocable(proc.mem.prev) /\ UNCHANGED installed
        /\ lease' = [lease EXCEPT ![proc.mem.prev] = "revoked"]
    BY <1>2 DEF FinishRetire, FinishRetireFails, MustRetire, CInv, TypeOK, StateFile, SomeLease
  <2>2. proc.mem.prev # installed
    BY <1>2 DEF FinishRetire, FinishRetireFails, MustRetire, CInv, MemInv, StepInv, KeyInv, Later
  <2> QED
    BY <2>1, <2>2, Retires DEF CInv
<1>3. CASE RecoverRevoke \/ Dies
  <2>1. /\ At("recoverRevoke") /\ Revocable(proc.mem.lease) /\ UNCHANGED installed
        /\ lease' = [lease EXCEPT ![proc.mem.lease] = "revoked"]
    BY <1>3 DEF RecoverRevoke, Dies
  <2> QED
    BY <2>1, OwnLeaseIsFree, Retires DEF CInv
<1> QED
  BY <1>1, <1>2, <1>3 DEF Next, Run, ControllerStep, Failures, Start, Upload, Bound, BoundFails, Snapshot,
     SnapshotFails, Acknowledge, AcknowledgeFails, DrawLease, Deliver, DeliverFails, Advance, AdvanceRefused,
     AdvanceFails, AdvanceDeadline, Confirm, FinishDone, Rollback, RollbackFails, Recover, RecoverRollback, GuardFires, TargetReboots

(* Promotions, failures, retries and rollbacks together rotate the keys as *)
(* KeyRotation says, when no operator rolls back a closed release: the key *)
(* on the target was issued and is not revoked (controller.main, finish).  *)
THEOREM ControllerImplementsRotation == ASSUME RollsBackClosed = FALSE, RunsOlder = FALSE PROVE Spec => ImplementsRotation
<1>1. CInv /\ CInv' /\ [Next]_vars => [Rotation!Next]_(Rotation!rotationVars)
  BY LeaseStepsRefine, UsesAreAccepted, SameKeys DEF vars
<1>2. Spec => []CInv
  BY ControllerInvariant
<1> QED
  BY <1>1, <1>2, RotationInit, PTL DEF Spec, ImplementsRotation, Rotation!Spec
=============================================================================
