------------------------- MODULE SimpleInstallProofs -------------------------
(***************************************************************************)
(* The application-only installer for every set of controllers and any     *)
(* number of deployments and failures: a rolled-back host is as it was     *)
(* found, a closed one runs what was proved, and no late request reopens   *)
(* it.                                                                     *)
(*                                                                         *)
(* SInv relates three things a step can separate: state.json, which is     *)
(* saved first, the host it describes, and the host as the deployment      *)
(* found it (base).  TrackInv says that what is not tracked is unchanged   *)
(* and what is tracked is the original; RestoreInv, what a recovery has    *)
(* put back before each of its steps; DeployInv, what a deployment has     *)
(* earned before it is closed.                                             *)
(***************************************************************************)
EXTENDS SimpleInstall, TLAPS

-----------------------------------------------------------------------------
(* Which phase each step of a process works in.                            *)
Early == {"arm", "packages", "useradd", "uid"}
Opened == {"awaiting-access", "access-confirmed", "installing", "closed"}
Backed == Opened \cup {"backup-verified", "rolling-back"}
Unwritten == {"none", "preparing", "backup-verified", "awaiting-access", "access-confirmed"}
Stopped == RecoverSteps \ {"stop"}
Restored == {"previous", "userdel", "key", "done"}

PhaseInv ==
    /\ state.phase = "none" => state.previous = 0 /\ ~state.uid
    /\ state.phase \notin {"none", "rolled-back"} => state.d # 0
    /\ proc.step \in PrepareSteps \ {"access", "awaiting", "rearm"} => state.phase = "preparing"
    /\ proc.step \in {"access", "awaiting"} =>
          state.phase = IF state.previous = 0 THEN "preparing" ELSE "backup-verified"
    /\ At("snapshot") => state.previous # 0
    /\ At("rearm") => state.phase = "awaiting-access"
    /\ At("confirmed") => state.phase = "access-confirmed"
    /\ proc.step \in DeploySteps => state.phase = "installing"
    /\ At("rollback") => state.phase = "rolling-back"
    /\ proc.step \in RecoverSteps => state.phase \notin Settled
    /\ proc.then = "prepare" => \/ proc.step \in RecoverSteps
                                \/ At("answer") /\ state.phase = "rolled-back"

(* What the deployment found: with a previous deployment, its data, its    *)
(* account and its running service; without one, no data and no service.   *)
BaseInv ==
    /\ state.previous # 0 => base.data # None /\ base.running = base.units /\ base.account /\ host.account
    /\ state.previous = 0 => base.data = None /\ base.running = 0
    /\ proc.step \in {"arm", "packages"} => host = base

(* What state.json tracks is what recovery needs to restore it.            *)
TrackInv ==
    /\ state.units = None => host.units = base.units
    /\ state.units # None => state.units = base.units
    /\ state.access = None => host.access = base.access
    /\ state.access # None => state.access = base.access
    /\ state.phase \in Unwritten => state.units = None
    /\ At("units") => state.units = None
    /\ proc.step \in PrepareSteps \ {"awaiting", "rearm"} => state.access = None
    /\ state.account => state.previous = 0 /\ ~base.account
    /\ state.credential => ~base.key
    /\ ~state.credential => host.key = base.key
    /\ proc.step \in Early /\ proc.key => ~base.key
    /\ At("credential") => ~base.key
    /\ At("encrypt") => state.credential
    /\ state.phase \in Backed \/ proc.step \in PrepareSteps \ Early => state.uid
    /\ ~state.uid /\ state.previous = 0 => host.running = 0

BackupInv ==
    /\ state.previous = 0 => state.backup = None
    /\ state.phase = "preparing" => state.backup = None
    /\ state.previous # 0 /\ state.phase = "preparing" => host.data = base.data
    /\ state.previous # 0 /\ state.phase \in Backed => state.backup = base.data

(* What a recovery has restored before each of its steps.                  *)
RestoreInv ==
    /\ proc.step \in Stopped /\ state.previous = 0 => host.running = 0
    /\ At("extract") => state.backup # None
    /\ proc.step \in {"files"} \cup Restored /\ state.previous # 0 => host.data = base.data
    /\ proc.step \in Restored => host.units = base.units /\ host.access = base.access
    /\ proc.step \in {"userdel", "key"} => state.previous = 0 /\ state.account
    /\ At("key") => ~host.account /\ host.data = None
    /\ At("done") /\ state.previous # 0 => host.running = base.running
    /\ At("done") /\ state.account => ~host.account /\ host.data = None /\ host.key = base.key

(* What a deployment has done before it is closed.                         *)
DeployInv ==
    /\ state.phase \in {"access-confirmed", "installing", "closed"} => state.d \in proved
    /\ At("awaiting") => host.access = state.d
    /\ state.phase \in Opened /\ state.d \notin cut /\ proc.step \notin RecoverSteps => host.access = state.d
    /\ state.phase \notin {"rolled-back", "rolling-back"} /\ state.d \notin cut /\ proc.step \notin RecoverSteps =>
          (host.data = Torn => base.data = Torn)
    /\ proc.step \in {"start", "close"} => host.units = state.d /\ host.account /\ host.data # None
    /\ At("close") => host.running = state.d /\ host.key
    /\ state.phase = "closed" => host.data # None

SInv ==
    /\ TypeOK
    /\ PhaseInv
    /\ BaseInv
    /\ TrackInv
    /\ BackupInv
    /\ RestoreInv
    /\ DeployInv
    /\ RolledBackMeansRestored
    /\ ClosedMeansProved

(* prepare: each original is saved before it is changed.                   *)
LEMMA PrepareKeepsInv ==
    ASSUME SInv, ArmPrepare \/ Packages \/ Useradd \/ SaveUid \/ SaveCredential
    PROVE  SInv'
<1> USE DEF SInv, TypeOK, Ids, State, Host, Process, At, Goto, history, Early, Opened, Unwritten, Backed, Stopped,
            Restored, PrepareSteps, DeploySteps, RecoverSteps, Settled, None, Torn
<1>1. CASE ArmPrepare
  <2> USE DEF ArmPrepare, Arm
  <2>1. TypeOK'
    BY <1>1, SimpleAssumption DEF Phases, Steps
  <2>2. PhaseInv'
    BY <1>1, <2>1 DEF PhaseInv, RestoreInv
  <2>3. BaseInv'
    BY <1>1, <2>1 DEF BaseInv, PhaseInv, RestoreInv
  <2>4. TrackInv'
    BY <1>1, <2>1 DEF TrackInv, PhaseInv, BaseInv
  <2>5. BackupInv'
    BY <1>1, <2>1 DEF BackupInv, BaseInv, PhaseInv, RestoreInv
  <2>6. RestoreInv'
    BY <1>1, <2>1 DEF RestoreInv, PhaseInv, BaseInv, TrackInv, BackupInv, Phases
  <2>7. DeployInv'
    BY <1>1, <2>1 DEF DeployInv, PhaseInv
  <2>8. RolledBackMeansRestored'
    BY <1>1, <2>1 DEF RolledBackMeansRestored, PhaseInv, RestoreInv, BaseInv, TrackInv
  <2>9. ClosedMeansProved'
    BY <1>1, <2>1 DEF ClosedMeansProved, PhaseInv, DeployInv
  <2> QED BY <2>1, <2>2, <2>3, <2>4, <2>5, <2>6, <2>7, <2>8, <2>9
<1>2. CASE Packages
  <2> USE DEF Packages
  <2>1. TypeOK'
    <3>1. PICK b \in BOOLEAN : state' = [state EXCEPT !.account = b]
      <4> DEFINE made == ~host.account
      <4>1. state' = [state EXCEPT !.account = made] /\ made \in BOOLEAN
        BY <1>2
      <4> HIDE DEF made
      <4>2. QED BY <4>1
    <3>2. QED BY <1>2, <3>1 DEF Steps
  <2>2. PhaseInv'
    BY <1>2, <2>1 DEF PhaseInv, RestoreInv
  <2>3. BaseInv'
    BY <1>2, <2>1 DEF BaseInv, PhaseInv, RestoreInv
  <2>4. TrackInv'
    BY <1>2, <2>1 DEF TrackInv, PhaseInv, BaseInv
  <2>5. BackupInv'
    BY <1>2, <2>1 DEF BackupInv, BaseInv, PhaseInv, RestoreInv
  <2>6. RestoreInv'
    BY <1>2, <2>1 DEF RestoreInv, PhaseInv, BaseInv, TrackInv, BackupInv, Phases
  <2>7. DeployInv'
    BY <1>2, <2>1 DEF DeployInv, PhaseInv
  <2>8. RolledBackMeansRestored'
    BY <1>2, <2>1 DEF RolledBackMeansRestored, PhaseInv, RestoreInv, BaseInv, TrackInv
  <2>9. ClosedMeansProved'
    BY <1>2, <2>1 DEF ClosedMeansProved, PhaseInv, DeployInv
  <2> QED BY <2>1, <2>2, <2>3, <2>4, <2>5, <2>6, <2>7, <2>8, <2>9
<1>3. CASE Useradd
  <2> USE DEF Useradd
  <2>1. TypeOK'
    <3>1. \A b \in BOOLEAN, x \in Ids \cup {None, Torn} : [host EXCEPT !.account = b, !.data = x] \in Host
      OBVIOUS
    <3>2. (IF host.data = None THEN 0 ELSE host.data) \in Ids \cup {None, Torn}
      BY SimpleAssumption
    <3>3. host' \in Host
      BY <1>3, <3>1, <3>2
    <3>4. QED BY <1>3, <3>3 DEF Steps
  <2>2. PhaseInv'
    BY <1>3, <2>1 DEF PhaseInv, RestoreInv
  <2>3. BaseInv'
    BY <1>3, <2>1 DEF BaseInv, PhaseInv, RestoreInv
  <2>4. TrackInv'
    BY <1>3, <2>1 DEF TrackInv, PhaseInv, BaseInv
  <2>5. BackupInv'
    BY <1>3, <2>1 DEF BackupInv, BaseInv, PhaseInv, RestoreInv
  <2>6. RestoreInv'
    BY <1>3, <2>1 DEF RestoreInv, PhaseInv, BaseInv, TrackInv, BackupInv, Phases
  <2>7. DeployInv'
    BY <1>3, <2>1 DEF DeployInv, PhaseInv
  <2>8. RolledBackMeansRestored'
    BY <1>3, <2>1 DEF RolledBackMeansRestored, PhaseInv, RestoreInv, BaseInv, TrackInv
  <2>9. ClosedMeansProved'
    BY <1>3, <2>1 DEF ClosedMeansProved, PhaseInv, DeployInv
  <2> QED BY <2>1, <2>2, <2>3, <2>4, <2>5, <2>6, <2>7, <2>8, <2>9
<1>4. CASE SaveUid
  <2> USE DEF SaveUid
  <2>1. TypeOK'
    <3>1. state' \in State
      BY <1>4
    <3>2. QED BY <1>4, <3>1 DEF Steps
  <2>2. PhaseInv'
    BY <1>4, <2>1 DEF PhaseInv, RestoreInv
  <2>3. BaseInv'
    BY <1>4, <2>1 DEF BaseInv, PhaseInv, RestoreInv
  <2>4. TrackInv'
    BY <1>4, <2>1 DEF TrackInv, PhaseInv, BaseInv
  <2>5. BackupInv'
    BY <1>4, <2>1 DEF BackupInv, BaseInv, PhaseInv, RestoreInv
  <2>6. RestoreInv'
    BY <1>4, <2>1 DEF RestoreInv, PhaseInv, BaseInv, TrackInv, BackupInv, Phases
  <2>7. DeployInv'
    BY <1>4, <2>1 DEF DeployInv, PhaseInv
  <2>8. RolledBackMeansRestored'
    BY <1>4, <2>1 DEF RolledBackMeansRestored, PhaseInv, RestoreInv, BaseInv, TrackInv
  <2>9. ClosedMeansProved'
    BY <1>4, <2>1 DEF ClosedMeansProved, PhaseInv, DeployInv
  <2> QED BY <2>1, <2>2, <2>3, <2>4, <2>5, <2>6, <2>7, <2>8, <2>9
<1>5. CASE SaveCredential
  <2> USE DEF SaveCredential
  <2>1. TypeOK'
    BY <1>5, SimpleAssumption DEF Phases, Steps
  <2>2. PhaseInv'
    BY <1>5, <2>1 DEF PhaseInv, RestoreInv
  <2>3. BaseInv'
    BY <1>5, <2>1 DEF BaseInv, PhaseInv, RestoreInv
  <2>4. TrackInv'
    BY <1>5, <2>1 DEF TrackInv, PhaseInv, BaseInv
  <2>5. BackupInv'
    BY <1>5, <2>1 DEF BackupInv, BaseInv, PhaseInv, RestoreInv
  <2>6. RestoreInv'
    BY <1>5, <2>1 DEF RestoreInv, PhaseInv, BaseInv, TrackInv, BackupInv, Phases
  <2>7. DeployInv'
    BY <1>5, <2>1 DEF DeployInv, PhaseInv
  <2>8. RolledBackMeansRestored'
    BY <1>5, <2>1 DEF RolledBackMeansRestored, PhaseInv, RestoreInv, BaseInv, TrackInv
  <2>9. ClosedMeansProved'
    BY <1>5, <2>1 DEF ClosedMeansProved, PhaseInv, DeployInv
  <2> QED BY <2>1, <2>2, <2>3, <2>4, <2>5, <2>6, <2>7, <2>8, <2>9
<1> QED BY <1>1, <1>2, <1>3, <1>4, <1>5

(* prepare, from the key to the narrowed access.                           *)
LEMMA AccessKeepsInv ==
    ASSUME SInv, Encrypt \/ Snapshot \/ ConfigureAccess \/ AwaitAccess \/ Rearm
    PROVE  SInv'
<1> USE DEF SInv, TypeOK, Ids, State, Host, Process, At, Goto, history, Early, Opened, Unwritten, Backed, Stopped,
            Restored, PrepareSteps, DeploySteps, RecoverSteps, Settled, None, Torn
<1>1. CASE Encrypt
  <2> USE DEF Encrypt, Set
  <2>1. TypeOK'
    <3>1. \A b \in BOOLEAN : [host EXCEPT !.key = b] \in Host
      OBVIOUS
    <3>2. host' \in Host
      BY <1>1, <3>1
    <3>3. QED BY <1>1, <3>2 DEF Steps
  <2>2. PhaseInv'
    BY <1>1, <2>1 DEF PhaseInv, RestoreInv
  <2>3. BaseInv'
    BY <1>1, <2>1 DEF BaseInv, PhaseInv, RestoreInv
  <2>4. TrackInv'
    BY <1>1, <2>1 DEF TrackInv, PhaseInv, BaseInv
  <2>5. BackupInv'
    BY <1>1, <2>1 DEF BackupInv, BaseInv, PhaseInv, RestoreInv
  <2>6. RestoreInv'
    BY <1>1, <2>1 DEF RestoreInv, PhaseInv, BaseInv, TrackInv, BackupInv, Phases
  <2>7. DeployInv'
    BY <1>1, <2>1 DEF DeployInv, PhaseInv
  <2>8. RolledBackMeansRestored'
    BY <1>1, <2>1 DEF RolledBackMeansRestored, PhaseInv, RestoreInv, BaseInv, TrackInv
  <2>9. ClosedMeansProved'
    BY <1>1, <2>1 DEF ClosedMeansProved, PhaseInv, DeployInv
  <2> QED BY <2>1, <2>2, <2>3, <2>4, <2>5, <2>6, <2>7, <2>8, <2>9
<1>2. CASE Snapshot
  <2> USE DEF Snapshot, Set
  <2>1. TypeOK'
    <3>1. state' \in State
      BY <1>2 DEF Phases
    <3>2. host' \in Host
      BY <1>2, SimpleAssumption
    <3>3. QED BY <1>2, <3>1, <3>2 DEF Steps
  <2>2. PhaseInv'
    BY <1>2, <2>1 DEF PhaseInv, RestoreInv
  <2>3. BaseInv'
    BY <1>2, <2>1 DEF BaseInv, PhaseInv, RestoreInv
  <2>4. TrackInv'
    BY <1>2, <2>1 DEF TrackInv, PhaseInv, BaseInv
  <2>5. BackupInv'
    BY <1>2, <2>1 DEF BackupInv, BaseInv, PhaseInv, RestoreInv
  <2>6. RestoreInv'
    BY <1>2, <2>1 DEF RestoreInv, PhaseInv, BaseInv, TrackInv, BackupInv, Phases
  <2>7. DeployInv'
    BY <1>2, <2>1 DEF DeployInv, PhaseInv
  <2>8. RolledBackMeansRestored'
    BY <1>2, <2>1 DEF RolledBackMeansRestored, PhaseInv, RestoreInv, BaseInv, TrackInv
  <2>9. ClosedMeansProved'
    BY <1>2, <2>1 DEF ClosedMeansProved, PhaseInv, DeployInv
  <2> QED BY <2>1, <2>2, <2>3, <2>4, <2>5, <2>6, <2>7, <2>8, <2>9
<1>3. CASE ConfigureAccess
  <2> USE DEF ConfigureAccess, Set
  <2>1. TypeOK'
    BY <1>3, SimpleAssumption DEF Phases, Steps
  <2>2. PhaseInv'
    BY <1>3, <2>1 DEF PhaseInv, RestoreInv
  <2>3. BaseInv'
    BY <1>3, <2>1 DEF BaseInv, PhaseInv, RestoreInv
  <2>4. TrackInv'
    BY <1>3, <2>1 DEF TrackInv, PhaseInv, BaseInv
  <2>5. BackupInv'
    BY <1>3, <2>1 DEF BackupInv, BaseInv, PhaseInv, RestoreInv
  <2>6. RestoreInv'
    BY <1>3, <2>1 DEF RestoreInv, PhaseInv, BaseInv, TrackInv, BackupInv, Phases
  <2>7. DeployInv'
    BY <1>3, <2>1 DEF DeployInv, PhaseInv
  <2>8. RolledBackMeansRestored'
    BY <1>3, <2>1 DEF RolledBackMeansRestored, PhaseInv, RestoreInv, BaseInv, TrackInv
  <2>9. ClosedMeansProved'
    BY <1>3, <2>1 DEF ClosedMeansProved, PhaseInv, DeployInv
  <2> QED BY <2>1, <2>2, <2>3, <2>4, <2>5, <2>6, <2>7, <2>8, <2>9
<1>4. CASE AwaitAccess
  <2> USE DEF AwaitAccess, Save
  <2>1. TypeOK'
    BY <1>4, SimpleAssumption DEF Phases, Steps
  <2>2. PhaseInv'
    BY <1>4, <2>1 DEF PhaseInv, RestoreInv
  <2>3. BaseInv'
    BY <1>4, <2>1 DEF BaseInv, PhaseInv, RestoreInv
  <2>4. TrackInv'
    BY <1>4, <2>1 DEF TrackInv, PhaseInv, BaseInv
  <2>5. BackupInv'
    BY <1>4, <2>1 DEF BackupInv, BaseInv, PhaseInv, RestoreInv
  <2>6. RestoreInv'
    BY <1>4, <2>1 DEF RestoreInv, PhaseInv, BaseInv, TrackInv, BackupInv, Phases
  <2>7. DeployInv'
    BY <1>4, <2>1 DEF DeployInv, PhaseInv
  <2>8. RolledBackMeansRestored'
    BY <1>4, <2>1 DEF RolledBackMeansRestored, PhaseInv, RestoreInv, BaseInv, TrackInv
  <2>9. ClosedMeansProved'
    BY <1>4, <2>1 DEF ClosedMeansProved, PhaseInv, DeployInv
  <2> QED BY <2>1, <2>2, <2>3, <2>4, <2>5, <2>6, <2>7, <2>8, <2>9
<1>5. CASE Rearm
  <2> USE DEF Rearm, Arm
  <2>1. TypeOK'
    BY <1>5, SimpleAssumption DEF Phases, Steps
  <2>2. PhaseInv'
    BY <1>5, <2>1 DEF PhaseInv, RestoreInv
  <2>3. BaseInv'
    BY <1>5, <2>1 DEF BaseInv, PhaseInv, RestoreInv
  <2>4. TrackInv'
    BY <1>5, <2>1 DEF TrackInv, PhaseInv, BaseInv
  <2>5. BackupInv'
    BY <1>5, <2>1 DEF BackupInv, BaseInv, PhaseInv, RestoreInv
  <2>6. RestoreInv'
    BY <1>5, <2>1 DEF RestoreInv, PhaseInv, BaseInv, TrackInv, BackupInv, Phases
  <2>7. DeployInv'
    BY <1>5, <2>1 DEF DeployInv, PhaseInv
  <2>8. RolledBackMeansRestored'
    BY <1>5, <2>1 DEF RolledBackMeansRestored, PhaseInv, RestoreInv, BaseInv, TrackInv
  <2>9. ClosedMeansProved'
    BY <1>5, <2>1 DEF ClosedMeansProved, PhaseInv, DeployInv
  <2> QED BY <2>1, <2>2, <2>3, <2>4, <2>5, <2>6, <2>7, <2>8, <2>9
<1> QED BY <1>1, <1>2, <1>3, <1>4, <1>5

(* confirm-access, deploy and rollback.                                    *)
LEMMA DeployKeepsInv ==
    ASSUME SInv, NEW c \in Controllers, ctl' \in [Controllers -> Controller], Confirm(c) \/ Deploy(c) \/ Rollback(c)
    PROVE  SInv'
<1> USE DEF SInv, TypeOK, Ids, State, Host, Process, At, Goto, history, Early, Opened, Unwritten, Backed, Stopped,
            Restored, PrepareSteps, DeploySteps, RecoverSteps, Settled, None, Torn
<1>1. CASE Confirm(c)
  <2> USE DEF Confirm, Begin, Bound, Request, Save
  <2>1. TypeOK'
    BY <1>1, SimpleAssumption DEF Phases, Steps
  <2>2. PhaseInv'
    BY <1>1, <2>1 DEF PhaseInv, RestoreInv
  <2>3. BaseInv'
    BY <1>1, <2>1 DEF BaseInv, PhaseInv, RestoreInv
  <2>4. TrackInv'
    BY <1>1, <2>1 DEF TrackInv, PhaseInv, BaseInv
  <2>5. BackupInv'
    BY <1>1, <2>1 DEF BackupInv, BaseInv, PhaseInv, RestoreInv
  <2>6. RestoreInv'
    BY <1>1, <2>1 DEF RestoreInv, PhaseInv, BaseInv, TrackInv, BackupInv, Phases
  <2>7. DeployInv'
    BY <1>1, <2>1 DEF DeployInv, PhaseInv
  <2>8. RolledBackMeansRestored'
    BY <1>1, <2>1 DEF RolledBackMeansRestored, PhaseInv, RestoreInv, BaseInv, TrackInv
  <2>9. ClosedMeansProved'
    BY <1>1, <2>1 DEF ClosedMeansProved, PhaseInv, DeployInv
  <2> QED BY <2>1, <2>2, <2>3, <2>4, <2>5, <2>6, <2>7, <2>8, <2>9
<1>2. CASE Deploy(c)
  <2> USE DEF Deploy, Begin, Bound, Request, Save
  <2>1. TypeOK'
    BY <1>2, SimpleAssumption DEF Phases, Steps
  <2>2. PhaseInv'
    BY <1>2, <2>1 DEF PhaseInv, RestoreInv
  <2>3. BaseInv'
    BY <1>2, <2>1 DEF BaseInv, PhaseInv, RestoreInv
  <2>4. TrackInv'
    BY <1>2, <2>1 DEF TrackInv, PhaseInv, BaseInv
  <2>5. BackupInv'
    BY <1>2, <2>1 DEF BackupInv, BaseInv, PhaseInv, RestoreInv
  <2>6. RestoreInv'
    BY <1>2, <2>1 DEF RestoreInv, PhaseInv, BaseInv, TrackInv, BackupInv, Phases
  <2>7. DeployInv'
    BY <1>2, <2>1 DEF DeployInv, PhaseInv
  <2>8. RolledBackMeansRestored'
    BY <1>2, <2>1 DEF RolledBackMeansRestored, PhaseInv, RestoreInv, BaseInv, TrackInv
  <2>9. ClosedMeansProved'
    BY <1>2, <2>1 DEF ClosedMeansProved, PhaseInv, DeployInv
  <2> QED BY <2>1, <2>2, <2>3, <2>4, <2>5, <2>6, <2>7, <2>8, <2>9
<1>3. CASE Rollback(c)
  <2> USE DEF Rollback, Begin, Request, Save
  <2>1. TypeOK'
    BY <1>3, SimpleAssumption DEF Phases, Steps
  <2>2. PhaseInv'
    BY <1>3, <2>1 DEF PhaseInv, RestoreInv
  <2>3. BaseInv'
    BY <1>3, <2>1 DEF BaseInv, PhaseInv, RestoreInv
  <2>4. TrackInv'
    BY <1>3, <2>1 DEF TrackInv, PhaseInv, BaseInv
  <2>5. BackupInv'
    BY <1>3, <2>1 DEF BackupInv, BaseInv, PhaseInv, RestoreInv
  <2>6. RestoreInv'
    BY <1>3, <2>1 DEF RestoreInv, PhaseInv, BaseInv, TrackInv, BackupInv, Phases
  <2>7. DeployInv'
    BY <1>3, <2>1 DEF DeployInv, PhaseInv
  <2>8. RolledBackMeansRestored'
    BY <1>3, <2>1 DEF RolledBackMeansRestored, PhaseInv, RestoreInv, BaseInv, TrackInv
  <2>9. ClosedMeansProved'
    BY <1>3, <2>1 DEF ClosedMeansProved, PhaseInv, DeployInv
  <2> QED BY <2>1, <2>2, <2>3, <2>4, <2>5, <2>6, <2>7, <2>8, <2>9
<1> QED BY <1>1, <1>2, <1>3

(* The units and the service of the new deployment.                        *)
LEMMA RuntimeKeepsInv ==
    ASSUME SInv, Confirmed \/ WriteUnits \/ StartRuntime \/ Close
    PROVE  SInv'
<1> USE DEF SInv, TypeOK, Ids, State, Host, Process, At, Goto, history, Early, Opened, Unwritten, Backed, Stopped,
            Restored, PrepareSteps, DeploySteps, RecoverSteps, Settled, None, Torn
<1>1. CASE Confirmed
  <2> USE DEF Confirmed, Arm
  <2>1. TypeOK'
    BY <1>1, SimpleAssumption DEF Phases, Steps
  <2>2. PhaseInv'
    BY <1>1, <2>1 DEF PhaseInv, RestoreInv
  <2>3. BaseInv'
    BY <1>1, <2>1 DEF BaseInv, PhaseInv, RestoreInv
  <2>4. TrackInv'
    BY <1>1, <2>1 DEF TrackInv, PhaseInv, BaseInv
  <2>5. BackupInv'
    BY <1>1, <2>1 DEF BackupInv, BaseInv, PhaseInv, RestoreInv
  <2>6. RestoreInv'
    BY <1>1, <2>1 DEF RestoreInv, PhaseInv, BaseInv, TrackInv, BackupInv, Phases
  <2>7. DeployInv'
    BY <1>1, <2>1 DEF DeployInv, PhaseInv
  <2>8. RolledBackMeansRestored'
    BY <1>1, <2>1 DEF RolledBackMeansRestored, PhaseInv, RestoreInv, BaseInv, TrackInv
  <2>9. ClosedMeansProved'
    BY <1>1, <2>1 DEF ClosedMeansProved, PhaseInv, DeployInv
  <2> QED BY <2>1, <2>2, <2>3, <2>4, <2>5, <2>6, <2>7, <2>8, <2>9
<1>2. CASE WriteUnits
  <2> USE DEF WriteUnits
  <2>1. TypeOK'
    BY <1>2, SimpleAssumption DEF Phases, Steps
  <2>2. PhaseInv'
    BY <1>2, <2>1 DEF PhaseInv, RestoreInv
  <2>3. BaseInv'
    BY <1>2, <2>1 DEF BaseInv, PhaseInv, RestoreInv
  <2>4. TrackInv'
    BY <1>2, <2>1 DEF TrackInv, PhaseInv, BaseInv
  <2>5. BackupInv'
    BY <1>2, <2>1 DEF BackupInv, BaseInv, PhaseInv, RestoreInv
  <2>6. RestoreInv'
    BY <1>2, <2>1 DEF RestoreInv, PhaseInv, BaseInv, TrackInv, BackupInv, Phases
  <2>7. DeployInv'
    BY <1>2, <2>1 DEF DeployInv, PhaseInv
  <2>8. RolledBackMeansRestored'
    BY <1>2, <2>1 DEF RolledBackMeansRestored, PhaseInv, RestoreInv, BaseInv, TrackInv
  <2>9. ClosedMeansProved'
    BY <1>2, <2>1 DEF ClosedMeansProved, PhaseInv, DeployInv
  <2> QED BY <2>1, <2>2, <2>3, <2>4, <2>5, <2>6, <2>7, <2>8, <2>9
<1>3. CASE StartRuntime
  <2> USE DEF StartRuntime, Set
  <2>1. TypeOK'
    BY <1>3, SimpleAssumption DEF Phases, Steps
  <2>2. PhaseInv'
    BY <1>3, <2>1 DEF PhaseInv, RestoreInv
  <2>3. BaseInv'
    BY <1>3, <2>1 DEF BaseInv, PhaseInv, RestoreInv
  <2>4. TrackInv'
    BY <1>3, <2>1 DEF TrackInv, PhaseInv, BaseInv
  <2>5. BackupInv'
    BY <1>3, <2>1 DEF BackupInv, BaseInv, PhaseInv, RestoreInv
  <2>6. RestoreInv'
    BY <1>3, <2>1 DEF RestoreInv, PhaseInv, BaseInv, TrackInv, BackupInv, Phases
  <2>7. DeployInv'
    BY <1>3, <2>1 DEF DeployInv, PhaseInv
  <2>8. RolledBackMeansRestored'
    BY <1>3, <2>1 DEF RolledBackMeansRestored, PhaseInv, RestoreInv, BaseInv, TrackInv
  <2>9. ClosedMeansProved'
    BY <1>3, <2>1 DEF ClosedMeansProved, PhaseInv, DeployInv
  <2> QED BY <2>1, <2>2, <2>3, <2>4, <2>5, <2>6, <2>7, <2>8, <2>9
<1>4. CASE Close
  <2> USE DEF Close, Save
  <2>1. TypeOK'
    BY <1>4, SimpleAssumption DEF Phases, Steps
  <2>2. PhaseInv'
    BY <1>4, <2>1 DEF PhaseInv, RestoreInv
  <2>3. BaseInv'
    BY <1>4, <2>1 DEF BaseInv, PhaseInv, RestoreInv
  <2>4. TrackInv'
    BY <1>4, <2>1 DEF TrackInv, PhaseInv, BaseInv
  <2>5. BackupInv'
    BY <1>4, <2>1 DEF BackupInv, BaseInv, PhaseInv, RestoreInv
  <2>6. RestoreInv'
    BY <1>4, <2>1 DEF RestoreInv, PhaseInv, BaseInv, TrackInv, BackupInv, Phases
  <2>7. DeployInv'
    BY <1>4, <2>1 DEF DeployInv, PhaseInv
  <2>8. RolledBackMeansRestored'
    BY <1>4, <2>1 DEF RolledBackMeansRestored, PhaseInv, RestoreInv, BaseInv, TrackInv
  <2>9. ClosedMeansProved'
    BY <1>4, <2>1 DEF ClosedMeansProved, PhaseInv, DeployInv
  <2> QED BY <2>1, <2>2, <2>3, <2>4, <2>5, <2>6, <2>7, <2>8, <2>9
<1> QED BY <1>1, <1>2, <1>3, <1>4

(* recover: the service, the data and the files.                           *)
LEMMA RestoreKeepsInv ==
    ASSUME SInv, ArmRollback \/ Stop \/ EmptyData \/ RestoreData \/ RestoreFiles
    PROVE  SInv'
<1> USE DEF SInv, TypeOK, Ids, State, Host, Process, At, Goto, history, Early, Opened, Unwritten, Backed, Stopped,
            Restored, PrepareSteps, DeploySteps, RecoverSteps, Settled, None, Torn
<1>1. CASE ArmRollback
  <2> USE DEF ArmRollback, Arm
  <2>1. TypeOK'
    BY <1>1, SimpleAssumption DEF Phases, Steps
  <2>2. PhaseInv'
    BY <1>1, <2>1 DEF PhaseInv, RestoreInv
  <2>3. BaseInv'
    BY <1>1, <2>1 DEF BaseInv, PhaseInv, RestoreInv
  <2>4. TrackInv'
    BY <1>1, <2>1 DEF TrackInv, PhaseInv, BaseInv
  <2>5. BackupInv'
    BY <1>1, <2>1 DEF BackupInv, BaseInv, PhaseInv, RestoreInv
  <2>6. RestoreInv'
    BY <1>1, <2>1 DEF RestoreInv, PhaseInv, BaseInv, TrackInv, BackupInv, Phases
  <2>7. DeployInv'
    BY <1>1, <2>1 DEF DeployInv, PhaseInv
  <2>8. RolledBackMeansRestored'
    BY <1>1, <2>1 DEF RolledBackMeansRestored, PhaseInv, RestoreInv, BaseInv, TrackInv
  <2>9. ClosedMeansProved'
    BY <1>1, <2>1 DEF ClosedMeansProved, PhaseInv, DeployInv
  <2> QED BY <2>1, <2>2, <2>3, <2>4, <2>5, <2>6, <2>7, <2>8, <2>9
<1>2. CASE Stop
  <2> USE DEF Stop
  <2>1. TypeOK'
    BY <1>2, SimpleAssumption DEF Phases, Steps
  <2>2. PhaseInv'
    BY <1>2, <2>1 DEF PhaseInv, RestoreInv
  <2>3. BaseInv'
    BY <1>2, <2>1 DEF BaseInv, PhaseInv, RestoreInv
  <2>4. TrackInv'
    BY <1>2, <2>1 DEF TrackInv, PhaseInv, BaseInv
  <2>5. BackupInv'
    BY <1>2, <2>1 DEF BackupInv, BaseInv, PhaseInv, RestoreInv
  <2>6. RestoreInv'
    BY <1>2, <2>1 DEF RestoreInv, PhaseInv, BaseInv, TrackInv, BackupInv, Phases
  <2>7. DeployInv'
    BY <1>2, <2>1 DEF DeployInv, PhaseInv
  <2>8. RolledBackMeansRestored'
    BY <1>2, <2>1 DEF RolledBackMeansRestored, PhaseInv, RestoreInv, BaseInv, TrackInv
  <2>9. ClosedMeansProved'
    BY <1>2, <2>1 DEF ClosedMeansProved, PhaseInv, DeployInv
  <2> QED BY <2>1, <2>2, <2>3, <2>4, <2>5, <2>6, <2>7, <2>8, <2>9
<1>3. CASE EmptyData
  <2> USE DEF EmptyData, Set
  <2>1. TypeOK'
    BY <1>3, SimpleAssumption DEF Phases, Steps
  <2>2. PhaseInv'
    BY <1>3, <2>1 DEF PhaseInv, RestoreInv
  <2>3. BaseInv'
    BY <1>3, <2>1 DEF BaseInv, PhaseInv, RestoreInv
  <2>4. TrackInv'
    BY <1>3, <2>1 DEF TrackInv, PhaseInv, BaseInv
  <2>5. BackupInv'
    BY <1>3, <2>1 DEF BackupInv, BaseInv, PhaseInv, RestoreInv
  <2>6. RestoreInv'
    BY <1>3, <2>1 DEF RestoreInv, PhaseInv, BaseInv, TrackInv, BackupInv, Phases
  <2>7. DeployInv'
    BY <1>3, <2>1 DEF DeployInv, PhaseInv
  <2>8. RolledBackMeansRestored'
    BY <1>3, <2>1 DEF RolledBackMeansRestored, PhaseInv, RestoreInv, BaseInv, TrackInv
  <2>9. ClosedMeansProved'
    BY <1>3, <2>1 DEF ClosedMeansProved, PhaseInv, DeployInv
  <2> QED BY <2>1, <2>2, <2>3, <2>4, <2>5, <2>6, <2>7, <2>8, <2>9
<1>4. CASE RestoreData
  <2> USE DEF RestoreData, Set
  <2>1. TypeOK'
    BY <1>4, SimpleAssumption DEF Phases, Steps
  <2>2. PhaseInv'
    BY <1>4, <2>1 DEF PhaseInv, RestoreInv
  <2>3. BaseInv'
    BY <1>4, <2>1 DEF BaseInv, PhaseInv, RestoreInv
  <2>4. TrackInv'
    BY <1>4, <2>1 DEF TrackInv, PhaseInv, BaseInv
  <2>5. BackupInv'
    BY <1>4, <2>1 DEF BackupInv, BaseInv, PhaseInv, RestoreInv
  <2>6. RestoreInv'
    BY <1>4, <2>1 DEF RestoreInv, PhaseInv, BaseInv, TrackInv, BackupInv, Phases
  <2>7. DeployInv'
    BY <1>4, <2>1 DEF DeployInv, PhaseInv
  <2>8. RolledBackMeansRestored'
    BY <1>4, <2>1 DEF RolledBackMeansRestored, PhaseInv, RestoreInv, BaseInv, TrackInv
  <2>9. ClosedMeansProved'
    BY <1>4, <2>1 DEF ClosedMeansProved, PhaseInv, DeployInv
  <2> QED BY <2>1, <2>2, <2>3, <2>4, <2>5, <2>6, <2>7, <2>8, <2>9
<1>5. CASE RestoreFiles
  <2> USE DEF RestoreFiles
  <2>1. TypeOK'
    <3>1. \A x, y \in Ids : [host EXCEPT !.units = x, !.access = y] \in Host
      OBVIOUS
    <3>2. /\ (IF state.units = None THEN host.units ELSE state.units) \in Ids
          /\ (IF state.access = None THEN host.access ELSE state.access) \in Ids
      OBVIOUS
    <3>3. host' \in Host
      BY <1>5, <3>1, <3>2
    <3>4. QED BY <1>5, <3>3 DEF Steps
  <2>2. PhaseInv'
    BY <1>5, <2>1 DEF PhaseInv, RestoreInv
  <2>3. BaseInv'
    BY <1>5, <2>1 DEF BaseInv, PhaseInv, RestoreInv
  <2>4. TrackInv'
    BY <1>5, <2>1 DEF TrackInv, PhaseInv, BaseInv
  <2>5. BackupInv'
    BY <1>5, <2>1 DEF BackupInv, BaseInv, PhaseInv, RestoreInv
  <2>6. RestoreInv'
    BY <1>5, <2>1 DEF RestoreInv, PhaseInv, BaseInv, TrackInv, BackupInv, Phases
  <2>7. DeployInv'
    BY <1>5, <2>1 DEF DeployInv, PhaseInv
  <2>8. RolledBackMeansRestored'
    BY <1>5, <2>1 DEF RolledBackMeansRestored, PhaseInv, RestoreInv, BaseInv, TrackInv
  <2>9. ClosedMeansProved'
    BY <1>5, <2>1 DEF ClosedMeansProved, PhaseInv, DeployInv
  <2> QED BY <2>1, <2>2, <2>3, <2>4, <2>5, <2>6, <2>7, <2>8, <2>9
<1> QED BY <1>1, <1>2, <1>3, <1>4, <1>5

(* recover: the previous service, or the account and the key.              *)
LEMMA UndoKeepsInv ==
    ASSUME SInv, StartPrevious \/ KeepAccount \/ Userdel \/ RemoveKey \/ RolledBack
    PROVE  SInv'
<1> USE DEF SInv, TypeOK, Ids, State, Host, Process, At, Goto, history, Early, Opened, Unwritten, Backed, Stopped,
            Restored, PrepareSteps, DeploySteps, RecoverSteps, Settled, None, Torn
<1>1. CASE StartPrevious
  <2> USE DEF StartPrevious, Set
  <2>1. TypeOK'
    BY <1>1, SimpleAssumption DEF Phases, Steps
  <2>2. PhaseInv'
    BY <1>1, <2>1 DEF PhaseInv, RestoreInv
  <2>3. BaseInv'
    BY <1>1, <2>1 DEF BaseInv, PhaseInv, RestoreInv
  <2>4. TrackInv'
    BY <1>1, <2>1 DEF TrackInv, PhaseInv, BaseInv
  <2>5. BackupInv'
    BY <1>1, <2>1 DEF BackupInv, BaseInv, PhaseInv, RestoreInv
  <2>6. RestoreInv'
    BY <1>1, <2>1 DEF RestoreInv, PhaseInv, BaseInv, TrackInv, BackupInv, Phases
  <2>7. DeployInv'
    BY <1>1, <2>1 DEF DeployInv, PhaseInv
  <2>8. RolledBackMeansRestored'
    BY <1>1, <2>1 DEF RolledBackMeansRestored, PhaseInv, RestoreInv, BaseInv, TrackInv
  <2>9. ClosedMeansProved'
    BY <1>1, <2>1 DEF ClosedMeansProved, PhaseInv, DeployInv
  <2> QED BY <2>1, <2>2, <2>3, <2>4, <2>5, <2>6, <2>7, <2>8, <2>9
<1>2. CASE KeepAccount
  <2> USE DEF KeepAccount
  <2>1. TypeOK'
    BY <1>2, SimpleAssumption DEF Phases, Steps
  <2>2. PhaseInv'
    BY <1>2, <2>1 DEF PhaseInv, RestoreInv
  <2>3. BaseInv'
    BY <1>2, <2>1 DEF BaseInv, PhaseInv, RestoreInv
  <2>4. TrackInv'
    BY <1>2, <2>1 DEF TrackInv, PhaseInv, BaseInv
  <2>5. BackupInv'
    BY <1>2, <2>1 DEF BackupInv, BaseInv, PhaseInv, RestoreInv
  <2>6. RestoreInv'
    BY <1>2, <2>1 DEF RestoreInv, PhaseInv, BaseInv, TrackInv, BackupInv, Phases
  <2>7. DeployInv'
    BY <1>2, <2>1 DEF DeployInv, PhaseInv
  <2>8. RolledBackMeansRestored'
    BY <1>2, <2>1 DEF RolledBackMeansRestored, PhaseInv, RestoreInv, BaseInv, TrackInv
  <2>9. ClosedMeansProved'
    BY <1>2, <2>1 DEF ClosedMeansProved, PhaseInv, DeployInv
  <2> QED BY <2>1, <2>2, <2>3, <2>4, <2>5, <2>6, <2>7, <2>8, <2>9
<1>3. CASE Userdel
  <2> USE DEF Userdel
  <2>1. TypeOK'
    <3>1. \A b \in BOOLEAN : [host EXCEPT !.account = b, !.data = None] \in Host
      OBVIOUS
    <3>2. host' \in Host
      BY <1>3, <3>1
    <3>3. QED BY <1>3, <3>2 DEF Steps
  <2>2. PhaseInv'
    BY <1>3, <2>1 DEF PhaseInv, RestoreInv
  <2>3. BaseInv'
    BY <1>3, <2>1 DEF BaseInv, PhaseInv, RestoreInv
  <2>4. TrackInv'
    BY <1>3, <2>1 DEF TrackInv, PhaseInv, BaseInv
  <2>5. BackupInv'
    BY <1>3, <2>1 DEF BackupInv, BaseInv, PhaseInv, RestoreInv
  <2>6. RestoreInv'
    BY <1>3, <2>1 DEF RestoreInv, PhaseInv, BaseInv, TrackInv, BackupInv, Phases
  <2>7. DeployInv'
    BY <1>3, <2>1 DEF DeployInv, PhaseInv
  <2>8. RolledBackMeansRestored'
    BY <1>3, <2>1 DEF RolledBackMeansRestored, PhaseInv, RestoreInv, BaseInv, TrackInv
  <2>9. ClosedMeansProved'
    BY <1>3, <2>1 DEF ClosedMeansProved, PhaseInv, DeployInv
  <2> QED BY <2>1, <2>2, <2>3, <2>4, <2>5, <2>6, <2>7, <2>8, <2>9
<1>4. CASE RemoveKey
  <2> USE DEF RemoveKey
  <2>1. TypeOK'
    <3>1. \A b \in BOOLEAN : [host EXCEPT !.key = b] \in Host
      OBVIOUS
    <3>2. (host.key /\ ~state.credential) \in BOOLEAN
      OBVIOUS
    <3>3. host' \in Host
      BY <1>4, <3>1, <3>2, Zenon
    <3>4. QED BY <1>4, <3>3 DEF Steps
  <2>2. PhaseInv'
    BY <1>4, <2>1 DEF PhaseInv, RestoreInv
  <2>3. BaseInv'
    BY <1>4, <2>1 DEF BaseInv, PhaseInv, RestoreInv
  <2>4. TrackInv'
    BY <1>4, <2>1 DEF TrackInv, PhaseInv, BaseInv
  <2>5. BackupInv'
    BY <1>4, <2>1 DEF BackupInv, BaseInv, PhaseInv, RestoreInv
  <2>6. RestoreInv'
    BY <1>4, <2>1 DEF RestoreInv, PhaseInv, BaseInv, TrackInv, BackupInv, Phases
  <2>7. DeployInv'
    BY <1>4, <2>1 DEF DeployInv, PhaseInv
  <2>8. RolledBackMeansRestored'
    BY <1>4, <2>1 DEF RolledBackMeansRestored, PhaseInv, RestoreInv, BaseInv, TrackInv
  <2>9. ClosedMeansProved'
    BY <1>4, <2>1 DEF ClosedMeansProved, PhaseInv, DeployInv
  <2> QED BY <2>1, <2>2, <2>3, <2>4, <2>5, <2>6, <2>7, <2>8, <2>9
<1>5. CASE RolledBack
  <2> USE DEF RolledBack, Save
  <2>1. TypeOK'
    BY <1>5, SimpleAssumption DEF Phases, Steps
  <2>2. PhaseInv'
    BY <1>5, <2>1 DEF PhaseInv, RestoreInv
  <2>3. BaseInv'
    BY <1>5, <2>1 DEF BaseInv, PhaseInv, RestoreInv
  <2>4. TrackInv'
    BY <1>5, <2>1 DEF TrackInv, PhaseInv, BaseInv
  <2>5. BackupInv'
    BY <1>5, <2>1 DEF BackupInv, BaseInv, PhaseInv, RestoreInv
  <2>6. RestoreInv'
    BY <1>5, <2>1 DEF RestoreInv, PhaseInv, BaseInv, TrackInv, BackupInv, Phases
  <2>7. DeployInv'
    BY <1>5, <2>1 DEF DeployInv, PhaseInv
  <2>8. RolledBackMeansRestored'
    BY <1>5, <2>1 DEF RolledBackMeansRestored, PhaseInv, RestoreInv, BaseInv, TrackInv
  <2>9. ClosedMeansProved'
    BY <1>5, <2>1 DEF ClosedMeansProved, PhaseInv, DeployInv
  <2> QED BY <2>1, <2>2, <2>3, <2>4, <2>5, <2>6, <2>7, <2>8, <2>9
<1> QED BY <1>1, <1>2, <1>3, <1>4, <1>5

-----------------------------------------------------------------------------
(* A new deployment: what it finds is the base it can be rolled back to.   *)
LEMMA JournalKeepsInv ==
    ASSUME SInv, NEW key \in BOOLEAN, PrepareAllowed(key), JournalPrepare,
           proc.step \notin RecoverSteps,
           proc' \in Process, proc'.step = "arm", proc'.then = "end", proc'.key = key,
           ctl' \in [Controllers -> Controller], UNCHANGED <<host, timer, proved, cut, faults>>
    PROVE  SInv'
<1> USE DEF SInv, TypeOK, Ids, State, Host, At, Early, Opened, Unwritten, Backed, Stopped, Restored,
            PrepareSteps, DeploySteps, RecoverSteps, Settled, None, Torn
<1>1. /\ state'.phase = "preparing" /\ state'.d = token + 1 /\ token + 1 \in Ids /\ token + 1 # 0
      /\ state'.previous = IF state.phase = "closed" THEN state.d ELSE state.previous
      /\ ~state'.account /\ ~state'.uid /\ ~state'.credential
      /\ state'.backup = None /\ state'.units = None /\ state'.access = None
      /\ token' = token + 1 /\ base' = host
  BY SimpleAssumption DEF JournalPrepare, Fresh, PrepareAllowed
<1>2. state' \in State
  BY SimpleAssumption DEF JournalPrepare, Fresh, PrepareAllowed, Phases
<1>3. TypeOK'
  BY <1>1, <1>2
<1>4. /\ state.phase \in {"none", "closed", "rolled-back"}
      /\ state.phase # "closed" /\ state.previous = 0 => host.data = None
      /\ key => ~host.key
  BY DEF PrepareAllowed, Unsettled
<1>5. BaseInv'
  <2>1. CASE state.phase = "closed"
    BY <1>1, <2>1 DEF BaseInv, PhaseInv, ClosedMeansProved, DeployInv
  <2>2. CASE state.phase = "none"
    BY <1>1, <1>4, <2>2 DEF BaseInv, PhaseInv, TrackInv
  <2>3. CASE state.phase = "rolled-back"
    BY <1>1, <1>4, <2>3 DEF BaseInv, RolledBackMeansRestored
  <2>4. QED BY <1>4, <2>1, <2>2, <2>3
<1>6. PhaseInv'
  BY <1>1 DEF PhaseInv
<1>7. TrackInv'
  BY <1>1, <1>3, <1>4, <1>5 DEF TrackInv, BaseInv
<1>8. BackupInv' /\ RestoreInv'
  BY <1>1 DEF BackupInv, RestoreInv
<1>9. DeployInv' /\ RolledBackMeansRestored' /\ ClosedMeansProved'
  BY <1>1 DEF DeployInv, RolledBackMeansRestored, ClosedMeansProved
<1>10. QED BY <1>3, <1>5, <1>6, <1>7, <1>8, <1>9

(* Nothing but the process, a timer or a controller moves.                 *)
LEMMA RestKeepsInv ==
    ASSUME SInv, TypeOK', UNCHANGED <<state, host, base, proved>>, cut \subseteq cut',
           \/ proc'.step = proc.step /\ proc'.then = proc.then /\ proc'.key = proc.key
           \/ /\ proc'.step \in {"idle", "answer"} /\ proc'.then # "prepare"
              /\ proc.step \in RecoverSteps => state.d \in cut' \/ state.phase \in Settled
           \/ proc'.step = "stop" /\ state.phase \notin Settled
    PROVE  SInv'
<1> USE DEF SInv, TypeOK, Ids, State, Host, At, Early, Opened, Unwritten, Backed, Stopped, Restored,
            PrepareSteps, DeploySteps, RecoverSteps, Settled, None, Torn
<1>1. PhaseInv'
  BY DEF PhaseInv
<1>2. BaseInv'
  BY DEF BaseInv
<1>3. TrackInv'
  BY DEF TrackInv
<1>4. BackupInv'
  BY DEF BackupInv
<1>5. RestoreInv'
  BY DEF RestoreInv
<1>6. DeployInv'
  BY DEF DeployInv, PhaseInv
<1>7. RolledBackMeansRestored' /\ ClosedMeansProved'
  BY DEF RolledBackMeansRestored, ClosedMeansProved
<1>8. QED BY <1>1, <1>2, <1>3, <1>4, <1>5, <1>6, <1>7

(* What a controller becomes with an answer, or when it asks for one.      *)
LEMMA Answers ==
    ASSUME TypeOK
    PROVE  /\ Answer(Succeeded) => ctl' \in [Controllers -> Controller]
           /\ Answer(Failed) => ctl' \in [Controllers -> Controller]
           /\ \A c \in Controllers : [ctl EXCEPT ![c].waits = TRUE] \in [Controllers -> Controller]
           /\ \A c \in Controllers : [ctl EXCEPT ![c] = Failed(c)] \in [Controllers -> Controller]
           /\ \A c \in Controllers, at \in {"idle", "prepare", "rollback"} :
                 [ctl EXCEPT ![c].at = at] \in [Controllers -> Controller]
<1>1. \A c \in Controllers : Succeeded(c) \in Controller
  BY DEF TypeOK, Controller, Succeeded, State
<1>2. \A c \in Controllers : Failed(c) \in Controller
  BY DEF TypeOK, Controller, Failed
<1>3. Answer(Succeeded) => ctl' \in [Controllers -> Controller]
  BY <1>1 DEF Answer, TypeOK
<1>4. Answer(Failed) => ctl' \in [Controllers -> Controller]
  BY <1>2 DEF Answer, TypeOK
<1>5. \A c \in Controllers, b \in BOOLEAN : [ctl EXCEPT ![c].waits = b] \in [Controllers -> Controller]
  BY DEF TypeOK, Controller
<1>6. \A c \in Controllers : [ctl EXCEPT ![c] = Failed(c)] \in [Controllers -> Controller]
  BY <1>2 DEF TypeOK
<1>7. \A c \in Controllers, at \in {"idle", "prepare", "rollback"} :
         [ctl EXCEPT ![c].at = at] \in [Controllers -> Controller]
  BY DEF TypeOK, Controller
<1>8. QED BY <1>3, <1>4, <1>5, <1>6, <1>7

(* The process ends, and a recovery it was in is an unfinished one.        *)
LEMMA InterruptKeepsInv ==
    ASSUME SInv, proc' = Idle, Answer(Failed), UNCHANGED <<state, token, base, host, proved>>,
           timer' \in Ids, faults' \in 0..MaxFaults,
           cut' = IF proc.step \in RecoverSteps THEN cut \cup {state.d} ELSE cut
    PROVE  SInv'
<1>1. TypeOK'
  BY Answers DEF SInv, TypeOK, Idle, Process, Steps, None, State
<1>2. QED BY <1>1, RestKeepsInv DEF Idle

(* Every step of the process itself.                                       *)
LEMMA StepKeepsInv == ASSUME SInv, Step PROVE SInv'
<1>1. CASE PrepareAfterRecovery
  <2>1. proc.step = "answer" /\ proc.key \in BOOLEAN
    BY <1>1 DEF PrepareAfterRecovery, At, SInv, TypeOK, Process
  <2>2. CASE PrepareAllowed(proc.key)
    <3>1. /\ JournalPrepare /\ UNCHANGED <<host, timer, proved, cut, faults>>
          /\ UNCHANGED ctl /\ proc' = [proc EXCEPT !.step = "arm", !.then = "end"]
      BY <1>1, <2>2 DEF PrepareAfterRecovery
    <3>2. /\ proc' \in Process /\ proc'.step = "arm" /\ proc'.then = "end" /\ proc'.key = proc.key
          /\ ctl' \in [Controllers -> Controller]
      BY <3>1 DEF SInv, TypeOK, Process, Steps, PrepareSteps
    <3>3. QED BY <2>1, <2>2, <3>1, <3>2, JournalKeepsInv DEF RecoverSteps
  <2>3. CASE ~PrepareAllowed(proc.key)
    <3>1. proc' = Idle /\ Answer(Failed) /\ UNCHANGED <<state, token, base, host, timer, proved, cut, faults>>
      BY <1>1, <2>3 DEF PrepareAfterRecovery, End
    <3>2. TypeOK'
      BY <3>1, Answers DEF SInv, TypeOK, Idle, Process, Steps, None
    <3>3. QED BY <2>1, <3>1, <3>2, RestKeepsInv DEF Idle, RecoverSteps
  <2>4. QED BY <2>2, <2>3
<1>2. CASE RecoverRaises
  <2>1. /\ proc' = Idle /\ Answer(Failed) /\ UNCHANGED <<state, token, base, host, timer, proved, faults>>
        /\ cut' = IF proc.step \in RecoverSteps THEN cut \cup {state.d} ELSE cut
    BY <1>2 DEF RecoverRaises, End, Interrupt
  <2>2. QED BY <2>1, InterruptKeepsInv DEF SInv, TypeOK
<1>3. CASE Reply
  <2>1. proc' = Idle /\ UNCHANGED <<state, host, timer, token, base, proved, cut, faults>> /\ proc.step = "answer"
    BY <1>3 DEF Reply, End, history, At
  <2>2. ctl' \in [Controllers -> Controller]
    BY <1>3, Answers DEF Reply, End, SInv
  <2>3. TypeOK'
    BY <2>1, <2>2 DEF SInv, TypeOK, Idle, Process, Steps, None
  <2>4. QED BY <2>1, <2>3, RestKeepsInv DEF Idle, RecoverSteps
<1>4. QED
  BY <1>1, <1>2, <1>3, PrepareKeepsInv, AccessKeepsInv, RuntimeKeepsInv, RestoreKeepsInv, UndoKeepsInv
     DEF Step, PrepareStep, DeployStep, RecoverStep

(* What a controller sends, and the answers it gives up on.                *)
LEMMA ControllerKeepsInv ==
    ASSUME SInv, NEW c \in Controllers,
           \/ Command(c) \/ Refuse(c) \/ PrepareUnchanged(c)
           \/ \E key \in BOOLEAN : PrepareRecovers(c, key) \/ Prepare(c, key)
           \/ Confirm(c) \/ Deploy(c) \/ StartRecover(c) \/ Rollback(c)
           \/ TransportLost(c)
    PROVE  SInv'
<1> DEFINE Stays == UNCHANGED <<state, host, timer, token, base, proved, cut>>
<1>1. CASE Command(c) \/ Refuse(c) \/ PrepareUnchanged(c)
  <2>1. Stays /\ UNCHANGED <<proc, faults>>
    BY <1>1 DEF Command, Refuse, PrepareUnchanged, history
  <2>2. ctl' \in [Controllers -> Controller]
    <3>1. CASE Command(c)
      <4>1. PICK command \in {"prepare", "rollback"} : ctl' = [ctl EXCEPT ![c].at = command]
        BY <3>1 DEF Command
      <4>2. command \in {"idle", "prepare", "rollback"}
        OBVIOUS
      <4>3. \A at \in {"idle", "prepare", "rollback"} :
              [ctl EXCEPT ![c].at = at] \in [Controllers -> Controller]
        BY Answers DEF SInv
      <4>4. QED BY <4>1, <4>2, <4>3
    <3>2. CASE Refuse(c)
      BY <1>1, <3>2, Answers DEF Refuse, SInv
    <3>3. CASE PrepareUnchanged(c)
      BY <1>1, <3>3, Answers DEF PrepareUnchanged, SInv
    <3>4. QED BY <1>1, <3>1, <3>2, <3>3
  <2>3. TypeOK'
    BY <2>1, <2>2 DEF SInv, TypeOK
  <2>4. QED BY <2>1, <2>3, RestKeepsInv
<1>2. ASSUME NEW key \in BOOLEAN, PrepareRecovers(c, key) PROVE SInv'
  <2>1. Stays /\ UNCHANGED faults /\ ctl' = [ctl EXCEPT ![c].waits = TRUE]
    BY <1>2 DEF PrepareRecovers, Begin, history
  <2>2. proc' \in Process /\ proc'.step = "stop" /\ state.phase \notin Settled
    BY <1>2 DEF PrepareRecovers, Begin, Unsettled, Process, Steps, RecoverSteps
  <2>3. TypeOK'
    BY <2>1, <2>2, Answers DEF SInv, TypeOK
  <2>4. QED BY <2>1, <2>2, <2>3, RestKeepsInv
<1>3. ASSUME NEW key \in BOOLEAN, Prepare(c, key) PROVE SInv'
  <2>1. /\ PrepareAllowed(key) /\ JournalPrepare /\ UNCHANGED <<host, timer, proved, cut, faults>>
        /\ proc.step = "idle" /\ ctl' = [ctl EXCEPT ![c].waits = TRUE]
    BY <1>3 DEF Prepare, Begin, Request, At
  <2>2. proc' \in Process /\ proc'.step = "arm" /\ proc'.then = "end" /\ proc'.key = key
    BY <1>3 DEF Prepare, Begin, Process, Steps, PrepareSteps
  <2>3. QED BY <2>1, <2>2, Answers, JournalKeepsInv DEF RecoverSteps, SInv
<1>4. CASE Confirm(c) \/ Deploy(c) \/ Rollback(c)
  <2>1. ctl' = [ctl EXCEPT ![c].waits = TRUE]
    BY <1>4 DEF Confirm, Deploy, Rollback, Begin
  <2>2. QED BY <1>4, <2>1, Answers, DeployKeepsInv DEF SInv
<1>5. CASE StartRecover(c)
  <2>1. Stays /\ UNCHANGED faults /\ ctl' = [ctl EXCEPT ![c].waits = TRUE] /\ proc.step = "idle"
    BY <1>5 DEF StartRecover, Begin, Request, At, history
  <2>2. /\ proc' \in Process /\ proc'.then = "end"
        /\ proc'.step = IF state.phase \in Settled THEN "answer" ELSE "stop"
    BY <1>5 DEF StartRecover, Begin, Process, Steps, RecoverSteps
  <2>3. TypeOK'
    BY <2>1, <2>2, Answers DEF SInv, TypeOK
  <2>4. QED BY <2>1, <2>2, <2>3, RestKeepsInv DEF RecoverSteps
<1>6. CASE TransportLost(c)
  <2>1. Stays /\ ctl' = [ctl EXCEPT ![c] = Failed(c)]
    BY <1>6 DEF TransportLost, history
  <2>2. proc' \in Process /\ proc'.step = proc.step /\ proc'.then = proc.then /\ proc'.key = proc.key
    BY <1>6 DEF TransportLost, SInv, TypeOK, Process
  <2>3. faults' \in 0..MaxFaults
    BY <1>6, SimpleAssumption DEF TransportLost, Fault, SInv, TypeOK
  <2>4. TypeOK'
    BY <2>1, <2>2, <2>3, Answers DEF SInv, TypeOK
  <2>5. QED BY <2>1, <2>2, <2>4, RestKeepsInv
<1>7. QED BY <1>1, <1>2, <1>3, <1>4, <1>5, <1>6

(* The timer, the boot unit, exceptions, kills and power losses.           *)
LEMMA FaultKeepsInv ==
    ASSUME SInv, \/ GuardFires \/ BootRecovers \/ StepFails \/ RequestFails \/ Killed \/ PowerLost \/ UNCHANGED vars
    PROVE  SInv'
<1>1. CASE GuardFires \/ BootRecovers
  <2>1. UNCHANGED <<state, host, ctl, token, base, proved, cut, faults>> /\ timer' \in Ids
    BY <1>1, SimpleAssumption DEF GuardFires, BootRecovers, history, SInv, TypeOK, Ids
  <2>2. /\ proc' \in Process
        /\ \/ UNCHANGED proc
           \/ proc'.step = "idle" /\ proc'.then = "end" /\ proc.step = "idle"
           \/ proc'.step = "stop" /\ state.phase \notin Settled
    <3>1. UNCHANGED proc \/ (proc.step = "idle" /\ RecoverAlone)
      BY <1>1 DEF GuardFires, BootRecovers, At
    <3>2. Idle \in Process /\ Idle.step = "idle" /\ Idle.then = "end"
      BY DEF Idle, Process, Steps, None
    <3>3. [Idle EXCEPT !.step = "stop"] \in Process /\ [Idle EXCEPT !.step = "stop"].step = "stop"
      BY DEF Idle, Process, Steps, RecoverSteps, None
    <3>4. state.phase \in Settled \/ proc' = [Idle EXCEPT !.step = "stop"] \/ proc' = Idle \/ UNCHANGED proc
      BY <3>1 DEF RecoverAlone
    <3>5. QED BY <3>1, <3>2, <3>3, <3>4 DEF RecoverAlone, SInv, TypeOK
  <2>3. TypeOK'
    BY <2>1, <2>2 DEF SInv, TypeOK
  <2>4. QED BY <2>1, <2>2, <2>3, RestKeepsInv DEF RecoverSteps
<1>2. CASE StepFails
  <2>1. UNCHANGED <<state, host, timer, ctl, token, base, proved, cut>>
    BY <1>2 DEF StepFails, history
  <2>2. /\ proc' \in Process /\ proc'.then = "fail" /\ proc.step \notin RecoverSteps
        /\ proc'.step = IF state.phase \in Settled THEN "answer" ELSE "stop"
    BY <1>2 DEF StepFails, SInv, TypeOK, Process, Steps, PrepareSteps, DeploySteps, RecoverSteps
  <2>3. faults' \in 0..MaxFaults
    BY <1>2, SimpleAssumption DEF StepFails, Fault, SInv, TypeOK
  <2>4. TypeOK'
    BY <2>1, <2>2, <2>3 DEF SInv, TypeOK
  <2>5. QED BY <2>1, <2>2, <2>4, RestKeepsInv
<1>3. CASE RequestFails \/ Killed \/ PowerLost
  <2>1. /\ proc' = Idle /\ Answer(Failed) /\ UNCHANGED <<state, token, base, host, proved>> /\ timer' \in Ids
        /\ cut' = IF proc.step \in RecoverSteps THEN cut \cup {state.d} ELSE cut
    BY <1>3, SimpleAssumption DEF RequestFails, Killed, PowerLost, End, Interrupt, SInv, TypeOK, Ids
  <2>2. faults' \in 0..MaxFaults
    BY <1>3, SimpleAssumption DEF RequestFails, Killed, PowerLost, Fault, SInv, TypeOK
  <2>3. QED BY <2>1, <2>2, InterruptKeepsInv
<1>4. CASE UNCHANGED vars
  <2>1. UNCHANGED <<state, host, timer, proc, ctl, token, base, proved, cut, faults>>
    BY <1>4 DEF vars
  <2>2. TypeOK'
    BY <2>1 DEF SInv, TypeOK
  <2>3. QED BY <2>1, <2>2, RestKeepsInv
<1>5. QED BY <1>1, <1>2, <1>3, <1>4

(* SInv is an invariant.                                                   *)
LEMMA SimpleInductive == Spec => []SInv
<1>1. Init => SInv
  <2> SUFFICES ASSUME Init PROVE SInv
    OBVIOUS
  <2>1. /\ state \in State /\ state.phase = "none" /\ state.d = 0 /\ state.previous = 0
        /\ ~state.account /\ ~state.uid /\ ~state.credential
        /\ state.backup = None /\ state.units = None /\ state.access = None
    <3>1. /\ Fresh(0, 0) \in State /\ Fresh(0, 0).d = 0 /\ Fresh(0, 0).previous = 0
          /\ ~Fresh(0, 0).account /\ ~Fresh(0, 0).uid /\ ~Fresh(0, 0).credential
          /\ Fresh(0, 0).backup = None /\ Fresh(0, 0).units = None /\ Fresh(0, 0).access = None
      BY SimpleAssumption DEF Fresh, State, Phases, Ids
    <3>2. \A s \in State : LET new == [s EXCEPT !.phase = "none"]
                            IN  /\ new \in State /\ new.phase = "none" /\ new.d = s.d /\ new.previous = s.previous
                                /\ new.account = s.account /\ new.uid = s.uid /\ new.credential = s.credential
                                /\ new.backup = s.backup /\ new.units = s.units /\ new.access = s.access
      BY DEF State, Phases
    <3>3. state = [Fresh(0, 0) EXCEPT !.phase = "none"]
      BY DEF Init
    <3>4. QED BY <3>1, <3>2, <3>3
  <2>2. host \in Host /\ host.data = None /\ host.running = 0 /\ base = host
    <3>1. PICK a \in BOOLEAN :
            host = [units |-> 0, access |-> 0, data |-> None, key |-> FALSE, account |-> a, running |-> 0]
      BY DEF Init
    <3>2. host \in Host /\ host.data = None /\ host.running = 0
      BY <3>1, SimpleAssumption DEF Host, Ids
    <3>3. QED BY <3>2 DEF Init
  <2>3. proc \in Process /\ proc.step = "idle" /\ proc.then = "end"
    BY DEF Init, Idle, Process, Steps, None
  <2>4. TypeOK
    BY <2>1, <2>2, <2>3, SimpleAssumption DEF Init, TypeOK, Ids, Controller
  <2>5. QED
    BY <2>1, <2>2, <2>3, <2>4
       DEF SInv, PhaseInv, BaseInv, TrackInv, BackupInv, RestoreInv, DeployInv, RolledBackMeansRestored,
           ClosedMeansProved,
           At, Early, Opened, Unwritten, Backed, Stopped, Restored, PrepareSteps, DeploySteps, RecoverSteps, None,
           Torn
<1>2. SInv /\ [Next]_vars => SInv'
  <2> SUFFICES ASSUME SInv, [Next]_vars PROVE SInv'
    OBVIOUS
  <2>1. ASSUME NEW c \in Controllers,
               \/ Command(c) \/ Refuse(c) \/ PrepareUnchanged(c)
               \/ \E key \in BOOLEAN : PrepareRecovers(c, key) \/ Prepare(c, key)
               \/ Confirm(c) \/ Deploy(c) \/ StartRecover(c) \/ Rollback(c)
               \/ TransportLost(c)
        PROVE  SInv'
    BY <2>1, ControllerKeepsInv
  <2>2. QED BY <2>1, StepKeepsInv, FaultKeepsInv DEF Next
<1>3. QED BY <1>1, <1>2, PTL DEF Spec

(* A host that says rolled-back is as the deployment found it, and the     *)
(* data of the previous deployment was saved before anything wrote to it   *)
(* (host.recover, host.snapshot).                                          *)
THEOREM SimpleSafe == Spec => []SimpleInv
<1>1. SInv => SimpleInv
  BY DEF SInv, SimpleInv, BackupBeforeData, BackupInv, BaseInv, PhaseInv, TypeOK, State, Phases, Unsettled, Settled,
     Backed,
         Opened
<1>2. QED BY <1>1, SimpleInductive, PTL

(* A closed deployment is configured, running, has its key, and was        *)
(* reached over the access it narrowed (host.confirm_access, host.deploy). *)
THEOREM ClosedIsProved == Spec => []ClosedMeansProved
<1>1. SInv => ClosedMeansProved
  BY DEF SInv
<1>2. QED BY <1>1, SimpleInductive, PTL

(* No late recover request, timer or boot opens a closed deployment, and   *)
(* no process that has lost its controller does (host.recover).            *)
THEOREM ClosedStaysClosed == Spec => ClosedStays
<1> DEFINE Asked == \E c \in Controllers : ctl[c].at \in {"rollback", "prepare"} /\ ctl'[c].waits
<1>1. SInv /\ [Next]_vars => (state.phase = "closed" /\ state'.phase # "closed" => Asked)
  <2> SUFFICES ASSUME SInv, [Next]_vars, state.phase = "closed", state' # state PROVE Asked
    OBVIOUS
  <2>1. ASSUME NEW c \in Controllers, NEW key \in BOOLEAN, Prepare(c, key) PROVE Asked
    BY <2>1 DEF Prepare, Request, Begin, SInv, TypeOK, Controller
  <2>2. ASSUME NEW c \in Controllers, Rollback(c) PROVE Asked
    BY <2>2 DEF Rollback, Request, Begin, SInv, TypeOK, Controller
  <2>3. ASSUME NEW c \in Controllers, Confirm(c) \/ Deploy(c) PROVE FALSE
    BY <2>3 DEF Confirm, Deploy, Bound
  <2>4. ~PrepareStep /\ ~DeployStep /\ ~(RecoverStep /\ ~RecoverRaises)
    BY DEF PrepareStep, DeployStep, RecoverStep, SInv, PhaseInv, At, Settled, PrepareSteps, DeploySteps, RecoverSteps,
           PrepareAfterRecovery, ArmPrepare, Packages, Useradd, SaveUid, SaveCredential, Encrypt, Snapshot,
           ConfigureAccess,
           AwaitAccess, Rearm, Confirmed, WriteUnits, StartRuntime, Close, ArmRollback, Stop, EmptyData, RestoreData,
           RestoreFiles, StartPrevious, KeepAccount, Userdel, RemoveKey, RolledBack
  <2>5. QED
    BY <2>1, <2>2, <2>3, <2>4
       DEF Next, Step, vars, Command, Refuse, PrepareUnchanged, PrepareRecovers, StartRecover, TransportLost,
           GuardFires,
           BootRecovers, RecoverRaises, Reply, StepFails, RequestFails, Killed, PowerLost
<1>2. QED BY <1>1, SimpleInductive, PTL DEF Spec, ClosedStays
=============================================================================
