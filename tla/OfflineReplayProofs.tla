------------------------ MODULE OfflineReplayProofs ------------------------
(***************************************************************************)
(* The offline replay for every set of transactions, every assignment of   *)
(* baselines and every number of losses of power: its invariant, what it   *)
(* never does to the boot entry and to another manager's marker, and that  *)
(* it implements the one-shot update.                                      *)
(*                                                                         *)
(* ReplayInv is not inductive: it says nothing of what a process under way *)
(* has established, nor of what a killed one has left.                     *)
(***************************************************************************)
EXTENDS OfflineReplay, TLAPS

Status(t) == st[t].status
Applied(t) == st[t].applied

(* What stage() has established before each of its steps.                  *)
StageInv ==
    /\ proc.step \in StageSteps => mode = "normal" /\ x \in Txs
    /\ At("writeUnit") => Status(x) = "staging" /\ unit = None
    /\ proc.step \in {"verifyUnit", "link", "markStaged"} => Status(x) = "staging" /\ unit = x
    /\ proc.step \in {"markStaged", "setMarker"} => want
    /\ At("setMarker") => Status(x) = "staged" /\ unit = x

(* What execute() has established before each of its steps.                *)
ExecInv ==
    /\ proc.step \in ExecSteps => mode = "update" /\ x \in Txs /\ marker = None
    /\ proc.step \in ExecSteps \ {"syncUnlink"} => disk = None
    /\ proc.step \in {"syncUnlink", "checkState"} => Status(x) = "staged"
    /\ proc.step \in ExecSteps \ {"syncUnlink", "checkState"} => Status(x) = "running"
    /\ proc.step \in ExecSteps \ {"markComplete"} => unit = x
    /\ proc.step \in {"verify", "replay"} => ~Applied(x)
    /\ At("replay") => packages = Baseline[x]
    /\ proc.step \in {"unlinkWant", "unlinkUnit", "markComplete"} => uki = x /\ Applied(x)
    /\ At("markComplete") => unit = None

(* What a process leaves behind: a transaction that was started and not    *)
(* installed keeps its unit, so that nothing is staged after it.           *)
JournalInv ==
    \A t \in Txs :
        /\ Applied(t) => Status(t) \in {"running", "complete", "failed"}
        /\ Status(t) = "running" /\ ~Applied(t) => unit = t

(* The installed packages and the boot entry: the entry's transaction is   *)
(* the last one installed, or one was installed on top of it.              *)
Succeeded(t) == \E u \in Txs : Baseline[u] = t /\ Applied(u)
PackageInv ==
    /\ packages \in Txs => Applied(packages)
    /\ uki \in Txs /\ packages # Damaged => packages = uki \/ Succeeded(uki)

(* Another manager's marker is durable at once.                            *)
OtherInv == marker = Other => disk = Other

RInv == TypeOK /\ MarkerMeansReady /\ CompleteMeansInstalled
        /\ StageInv /\ ExecInv /\ JournalInv /\ PackageInv /\ OtherInv

USE OfflineAssumption

-----------------------------------------------------------------------------
(* The journal, after every assignment of it.                              *)
Entry == [status: Statuses, stagedNow: BOOLEAN, updatedNow: BOOLEAN, applied: BOOLEAN]

Has(e, s, a) == e \in Entry /\ e.status = s /\ e.applied = a

LEMMA StatusEntry ==
    ASSUME NEW e \in Entry, NEW s \in Statuses
    PROVE  Has([e EXCEPT !.status = s], s, e.applied)
BY DEF Entry, Has

LEMMA StagedEntry ==
    ASSUME NEW e \in Entry, NEW s \in Statuses, NEW b \in BOOLEAN
    PROVE  Has([e EXCEPT !.status = s, !.stagedNow = b], s, e.applied)
BY DEF Entry, Has

LEMMA UpdatedEntry ==
    ASSUME NEW e \in Entry, NEW s \in Statuses, NEW b \in BOOLEAN
    PROVE  Has([e EXCEPT !.status = s, !.updatedNow = b], s, e.applied)
BY DEF Entry, Has

LEMMA AppliedEntry ==
    ASSUME NEW e \in Entry, NEW b \in BOOLEAN
    PROVE  Has([e EXCEPT !.applied = b], e.status, b)
BY DEF Entry, Has

LEMMA BootedEntry ==
    ASSUME NEW e \in Entry, NEW b \in BOOLEAN
    PROVE  Has([e EXCEPT !.stagedNow = b, !.updatedNow = b], e.status, e.applied)
BY DEF Entry, Has

LEMMA FirstEntry ==
    ASSUME NEW s \in Statuses, NEW b \in BOOLEAN
    PROVE  Has([status |-> s, stagedNow |-> b, updatedNow |-> b, applied |-> b], s, b)
BY DEF Entry, Has

LEMMA Bools == TRUE \in BOOLEAN /\ FALSE \in BOOLEAN
OBVIOUS

Journal == st \in [Txs -> Entry]

(* A journal entry gets a status.                                          *)
Gets(t, s) ==
    /\ st' \in [Txs -> Entry]
    /\ \A u \in Txs : st'[u].status = IF u = t THEN s ELSE st[u].status
    /\ \A u \in Txs : st'[u].applied = st[u].applied

LEMMA GetsStatus ==
    ASSUME Journal, NEW t \in Txs, NEW s \in Statuses,
           \/ st' = [st EXCEPT ![t].status = s]
           \/ st' = [st EXCEPT ![t].status = s, ![t].stagedNow = TRUE]
           \/ st' = [st EXCEPT ![t].status = s, ![t].updatedNow = TRUE]
    PROVE  Gets(t, s)
<1>1. st[t] \in Entry
  BY DEF Journal
<1>2. Has(st'[t], s, st[t].applied)
  <2>1. CASE st' = [st EXCEPT ![t].status = s]
    <3>1. st'[t] = [st[t] EXCEPT !.status = s]
      BY <2>1 DEF Journal
    <3>2. Has([st[t] EXCEPT !.status = s], s, st[t].applied)
      BY <1>1, StatusEntry, Bools, Zenon
    <3>3. QED BY <3>1, <3>2, Zenon
  <2>2. CASE st' = [st EXCEPT ![t].status = s, ![t].stagedNow = TRUE]
    <3>1. st'[t] = [st[t] EXCEPT !.status = s, !.stagedNow = TRUE]
      BY <2>2 DEF Journal
    <3>2. Has([st[t] EXCEPT !.status = s, !.stagedNow = TRUE], s, st[t].applied)
      BY <1>1, StagedEntry, Bools, Zenon
    <3>3. QED BY <3>1, <3>2, Zenon
  <2>3. CASE st' = [st EXCEPT ![t].status = s, ![t].updatedNow = TRUE]
    <3>1. st'[t] = [st[t] EXCEPT !.status = s, !.updatedNow = TRUE]
      BY <2>3 DEF Journal
    <3>2. Has([st[t] EXCEPT !.status = s, !.updatedNow = TRUE], s, st[t].applied)
      BY <1>1, UpdatedEntry, Bools, Zenon
    <3>3. QED BY <3>1, <3>2, Zenon
  <2>4. QED BY <2>1, <2>2, <2>3
<1>3. \A u \in Txs \ {t} : st'[u] = st[u]
  BY DEF Journal
<1>4. st' = [u \in Txs |-> st'[u]]
  BY DEF Journal
<1>5. st' \in [Txs -> Entry]
  BY <1>2, <1>3, <1>4 DEF Journal, Has
<1>6. QED BY <1>2, <1>3, <1>5 DEF Gets, Journal, Has

(* The replay has installed its packages.                                  *)
LEMMA Installs ==
    ASSUME Journal, NEW t \in Txs, st' = [st EXCEPT ![t].applied = TRUE]
    PROVE  /\ st' \in [Txs -> Entry]
           /\ \A u \in Txs : st'[u].status = st[u].status
           /\ st'[t].applied = TRUE /\ \A u \in Txs \ {t} : st'[u].applied = st[u].applied
<1>1. st[t] \in Entry /\ st'[t] = [st[t] EXCEPT !.applied = TRUE]
  BY DEF Journal
<1>2. Has([st[t] EXCEPT !.applied = TRUE], st[t].status, TRUE)
  BY <1>1, AppliedEntry, Bools, Zenon
<1>3. Has(st'[t], st[t].status, TRUE)
  BY <1>1, <1>2, Zenon
<1>4. \A u \in Txs \ {t} : st'[u] = st[u]
  BY DEF Journal
<1>5. st' = [u \in Txs |-> st'[u]]
  BY DEF Journal
<1>6. st' \in [Txs -> Entry]
  BY <1>3, <1>4, <1>5 DEF Journal, Has
<1>7. QED BY <1>3, <1>4, <1>6 DEF Has

(* A boot changes only what is of the current boot.                        *)
LEMMA Boots ==
    ASSUME Journal, st' = [t \in Txs |-> [st[t] EXCEPT !.stagedNow = FALSE, !.updatedNow = FALSE]]
    PROVE  /\ st' \in [Txs -> Entry]
           /\ \A u \in Txs : st'[u].status = st[u].status /\ st'[u].applied = st[u].applied
<1>1. ASSUME NEW u \in Txs PROVE Has(st'[u], st[u].status, st[u].applied)
  <2>1. st[u] \in Entry /\ st'[u] = [st[u] EXCEPT !.stagedNow = FALSE, !.updatedNow = FALSE]
    BY DEF Journal
  <2>2. Has([st[u] EXCEPT !.stagedNow = FALSE, !.updatedNow = FALSE], st[u].status, st[u].applied)
    BY <2>1, BootedEntry, Bools, Zenon
  <2>3. QED BY <2>1, <2>2, Zenon
<1>2. st' = [u \in Txs |-> st'[u]]
  OBVIOUS
<1>3. QED BY <1>1, <1>2 DEF Has

(* The type of the state with its journal apart.                           *)
Proc == [step: StageSteps \cup ExecSteps \cup {"none"}, tx: Txs \cup {None}]
Rest ==
    /\ unit \in Txs \cup {None} /\ want \in BOOLEAN
    /\ marker \in Txs \cup {None, Other} /\ disk \in Txs \cup {None, Other}
    /\ packages \in Txs \cup {Base, Damaged}
    /\ uki \in Txs \cup {None}
    /\ mode \in {"normal", "update", "rebooting"}
    /\ proc \in Proc
    /\ losses \in 0..MaxLosses

LEMMA TypeParts ==
    /\ TypeOK <=> Journal /\ Rest
    /\ TypeOK' <=> Journal' /\ Rest'
BY DEF TypeOK, Journal, Rest, Entry, Proc

(* The first state.                                                        *)
LEMMA ReplayInit == Init => RInv
<1> SUFFICES ASSUME Init PROVE RInv
  OBVIOUS
<1>1. Has([status |-> "none", stagedNow |-> FALSE, updatedNow |-> FALSE, applied |-> FALSE], "none", FALSE)
  <2>1. "none" \in Statuses
    BY DEF Statuses
  <2>2. QED BY <2>1, FirstEntry, Bools, Zenon
<1>2. \A t \in Txs : st[t] \in Entry /\ st[t].status = "none" /\ st[t].applied = FALSE
  BY <1>1 DEF Init, Has
<1>3. Journal
  BY <1>2 DEF Init, Journal
<1>4. TypeOK
  <2>1. want \in BOOLEAN
    BY Bools, Zenon DEF Init
  <2>2. Rest
    BY <2>1 DEF Init, Rest, Idle, Proc
  <2>3. QED BY <1>3, <2>2, TypeParts
<1>5. MarkerMeansReady /\ CompleteMeansInstalled /\ OtherInv /\ PackageInv
  BY <1>2 DEF Init, MarkerMeansReady, CompleteMeansInstalled, OtherInv, PackageInv
<1>6. StageInv /\ ExecInv
  BY DEF Init, StageInv, ExecInv, Idle, At, StageSteps, ExecSteps
<1>7. JournalInv
  BY <1>2 DEF JournalInv, Status, Applied
<1>8. QED BY <1>4, <1>5, <1>6, <1>7 DEF RInv

-----------------------------------------------------------------------------
(* The process goes on with its transaction, or ends.                      *)
LEMMA Goes ==
    ASSUME proc \in Proc, NEW s \in StageSteps \cup ExecSteps, Goto(s)
    PROVE  proc' \in Proc /\ proc'.step = s /\ proc'.tx = proc.tx
BY DEF Goto, Proc

LEMMA Stops == Stop => proc' \in Proc /\ proc'.step = "none"
BY DEF Stop, Idle, Proc

(* The steps of the two programs are apart.                                *)
LEMMA Programs ==
    /\ StageSteps \cap ExecSteps = {}
    /\ "none" \notin StageSteps \cup ExecSteps
BY DEF StageSteps, ExecSteps

(* A program that dies where nobody relies on it.                          *)
LEMMA DeathKeepsInv ==
    ASSUME RInv, Stop, UNCHANGED <<st, unit, want, packages, uki>>, losses' \in 0..MaxLosses,
           mode' \in {"normal", "update", "rebooting"},
           marker' \in {marker, disk}, disk' \in {marker', disk}, marker' = Other => disk' = Other
    PROVE  RInv'
<1> USE DEF RInv
<1>1. proc' \in Proc /\ proc'.step = "none"
  BY Stops
<1>2. TypeOK'
  BY <1>1, TypeParts DEF Journal, Rest
<1>3. MarkerMeansReady' /\ CompleteMeansInstalled' /\ OtherInv'
  BY DEF MarkerMeansReady, CompleteMeansInstalled, OtherInv
<1>4. StageInv' /\ ExecInv'
  BY <1>1 DEF StageInv, ExecInv, At, StageSteps, ExecSteps
<1>5. JournalInv' /\ PackageInv'
  BY DEF JournalInv, PackageInv, Succeeded, Status, Applied
<1>6. QED BY <1>2, <1>3, <1>4, <1>5

-----------------------------------------------------------------------------
(* Staging.  Until the marker is set, nothing of it can start a boot.      *)
LEMMA StageBeginKeepsInv == ASSUME NEW t \in Txs, RInv, StageBegin(t) PROVE RInv'
<1> USE DEF RInv
<1>1. /\ mode = "normal" /\ At("none") /\ marker = None /\ unit = None /\ ~want /\ st[t].status = "none"
      /\ proc' = [step |-> "writeUnit", tx |-> t]
      /\ UNCHANGED <<unit, want, marker, disk, packages, uki, mode, losses>>
  BY DEF StageBegin
<1>2. Gets(t, "staging")
  <2>1. Journal /\ "staging" \in Statuses
    BY TypeParts DEF Statuses
  <2>2. QED BY <2>1, GetsStatus DEF StageBegin
<1>3. proc' \in Proc /\ proc'.step = "writeUnit" /\ proc'.tx = t
  BY <1>1 DEF Proc, StageSteps
<1>4. TypeOK'
  BY <1>1, <1>2, <1>3, TypeParts DEF Gets, Journal, Rest
<1>5. MarkerMeansReady' /\ OtherInv'
  BY <1>1, <1>2 DEF MarkerMeansReady, OtherInv, Gets
<1>6. CompleteMeansInstalled'
  BY <1>1, <1>2 DEF CompleteMeansInstalled, Gets
<1>7. StageInv' /\ ExecInv'
  BY <1>1, <1>2, <1>3 DEF StageInv, ExecInv, At, x, Gets, Status, StageSteps, ExecSteps
<1>8. JournalInv' /\ PackageInv'
  BY <1>1, <1>2 DEF JournalInv, PackageInv, Succeeded, Gets, Status, Applied
<1>9. QED BY <1>4, <1>5, <1>6, <1>7, <1>8

(* The unit and its link.                                                  *)
LEMMA StageUnitKeepsInv == RInv /\ (StageUnit \/ StageVerify \/ StageLink) => RInv'
<1> SUFFICES ASSUME RInv, StageUnit \/ StageVerify \/ StageLink PROVE RInv'
  OBVIOUS
<1> USE DEF RInv
<1>1. /\ UNCHANGED <<st, marker, disk, packages, uki, mode, losses>> /\ proc \in Proc /\ x \in Txs
      /\ proc.step \in {"writeUnit", "verifyUnit", "link"} /\ Status(x) = "staging" /\ unit' \in {unit, x}
      /\ unit # x => unit = None
      /\ want' \in BOOLEAN
  BY Bools, TypeParts DEF StageUnit, StageVerify, StageLink, StageInv, At, StageSteps, Rest
<1>2. /\ proc' \in Proc
      /\ \/ proc'.step = "none"
         \/ proc'.step = "verifyUnit" /\ proc'.tx = x /\ unit' = x
         \/ proc'.step = "link" /\ proc'.tx = x /\ unit' = x
         \/ proc'.step = "markStaged" /\ proc'.tx = x /\ unit' = x /\ want'
  BY <1>1, Goes, Stops DEF StageUnit, StageVerify, StageLink, StageInv, At, x, StageSteps
<1>3. TypeOK'
  BY <1>1, <1>2, TypeParts DEF Journal, Rest
<1>4. MarkerMeansReady' /\ OtherInv'
  BY <1>1 DEF MarkerMeansReady, OtherInv, Status
<1>5. CompleteMeansInstalled'
  BY <1>1 DEF CompleteMeansInstalled, Status
<1>6. StageInv' /\ ExecInv'
  BY <1>1, <1>2 DEF StageInv, ExecInv, At, x, Status, StageSteps, ExecSteps
<1>7. JournalInv' /\ PackageInv'
  BY <1>1 DEF JournalInv, PackageInv, Succeeded, Status, Applied
<1>8. QED BY <1>3, <1>4, <1>5, <1>6, <1>7

(* The journal says staged, the marker is set, and the marker is synced.   *)
LEMMA StageMarkKeepsInv == RInv /\ StageMark => RInv'
<1> SUFFICES ASSUME RInv, StageMark PROVE RInv'
  OBVIOUS
<1> USE DEF RInv
<1>1. /\ UNCHANGED <<unit, want, marker, disk, packages, uki, mode, losses>> /\ proc \in Proc /\ x \in Txs
      /\ mode = "normal" /\ Status(x) = "staging" /\ unit = x /\ want
  BY TypeParts DEF StageMark, StageInv, At, StageSteps, Rest
<1>2. Gets(x, "staged")
  <2>1. Journal /\ "staged" \in Statuses
    BY TypeParts DEF Statuses
  <2>2. QED BY <1>1, <2>1, GetsStatus DEF StageMark
<1>3. proc' \in Proc /\ proc'.step = "setMarker" /\ proc'.tx = x
  BY <1>1, Goes DEF StageMark, StageSteps, x
<1>4. TypeOK'
  BY <1>1, <1>2, <1>3, TypeParts DEF Gets, Journal, Rest
<1>5. MarkerMeansReady' /\ OtherInv'
  BY <1>1, <1>2 DEF MarkerMeansReady, OtherInv, Gets
<1>6. CompleteMeansInstalled'
  BY <1>1, <1>2 DEF CompleteMeansInstalled, Gets
<1>7. StageInv' /\ ExecInv'
  BY <1>1, <1>2, <1>3 DEF StageInv, ExecInv, At, x, Gets, Status, StageSteps, ExecSteps
<1>8. JournalInv' /\ PackageInv'
  BY <1>1, <1>2 DEF JournalInv, PackageInv, Succeeded, Gets, Status, Applied
<1>9. QED BY <1>4, <1>5, <1>6, <1>7, <1>8

LEMMA StageMarkerKeepsInv == RInv /\ (StageMarker \/ StageSync) => RInv'
<1> SUFFICES ASSUME RInv, StageMarker \/ StageSync PROVE RInv'
  OBVIOUS
<1>1. CASE StageMarker /\ marker = None
  <2>1. /\ UNCHANGED <<st, unit, want, disk, packages, uki, mode, losses>> /\ proc \in Proc /\ x \in Txs
        /\ mode = "normal" /\ Status(x) = "staged" /\ unit = x /\ want /\ marker' = x /\ Goto("syncMarker")
    BY <1>1, TypeParts DEF RInv, StageMarker, StageInv, At, StageSteps, Rest
  <2>2. proc' \in Proc /\ proc'.step = "syncMarker" /\ proc'.tx = x
    BY <2>1, Goes DEF StageSteps, x
  <2>3. TypeOK'
    BY <2>1, <2>2, TypeParts DEF RInv, Journal, Rest
  <2>4. MarkerMeansReady' /\ OtherInv' /\ CompleteMeansInstalled'
    BY <2>1 DEF RInv, MarkerMeansReady, OtherInv, CompleteMeansInstalled, Status
  <2>5. StageInv' /\ ExecInv'
    BY <2>1, <2>2 DEF StageInv, ExecInv, At, x, StageSteps, ExecSteps
  <2>6. JournalInv' /\ PackageInv'
    BY <2>1 DEF RInv, JournalInv, PackageInv, Succeeded, Status, Applied
  <2>7. QED BY <2>3, <2>4, <2>5, <2>6 DEF RInv
<1>2. CASE (StageMarker /\ marker # None) \/ StageSync
  <2>1. /\ Stop /\ UNCHANGED <<st, unit, want, packages, uki, losses, mode, marker>>
        /\ disk' \in {marker', disk} /\ (marker' = Other => disk' = Other)
    BY <1>2 DEF StageMarker, StageSync, RInv, OtherInv
  <2>2. losses' \in 0..MaxLosses /\ mode' \in {"normal", "update", "rebooting"}
    BY <2>1, TypeParts DEF RInv, Rest
  <2>3. QED BY <2>1, <2>2, DeathKeepsInv
<1>3. QED BY <1>1, <1>2

-----------------------------------------------------------------------------
(* Execution.  The marker is down before anything else happens.            *)
LEMMA ExecSelectKeepsInv == RInv /\ (ExecSelect \/ ExecSync) => RInv'
<1> SUFFICES ASSUME RInv, ExecSelect \/ ExecSync PROVE RInv'
  OBVIOUS
<1> USE DEF RInv
<1>1. CASE ExecSelect
  <2>1. /\ UNCHANGED <<st, unit, want, disk, packages, uki, mode, losses>>
        /\ mode = "update" /\ unit \in Txs /\ Status(unit) = "staged" /\ marker = unit /\ marker' = None
        /\ proc' = [step |-> "syncUnlink", tx |-> unit]
    BY <1>1, TypeParts DEF ExecSelect, MarkerMeansReady, Rest, Status
  <2>2. proc' \in Proc /\ proc'.step = "syncUnlink" /\ proc'.tx = unit
    BY <2>1 DEF Proc, ExecSteps
  <2>3. TypeOK'
    BY <2>1, <2>2, TypeParts DEF Journal, Rest
  <2>4. MarkerMeansReady' /\ OtherInv' /\ CompleteMeansInstalled'
    BY <2>1 DEF MarkerMeansReady, OtherInv, CompleteMeansInstalled
  <2>5. StageInv' /\ ExecInv'
    BY <2>1, <2>2 DEF StageInv, ExecInv, At, x, Status, StageSteps, ExecSteps
  <2>6. JournalInv' /\ PackageInv'
    BY <2>1 DEF JournalInv, PackageInv, Succeeded, Status, Applied
  <2>7. QED BY <2>3, <2>4, <2>5, <2>6
<1>2. CASE ExecSync
  <2>1. /\ UNCHANGED <<st, unit, want, marker, packages, uki, mode, losses>> /\ proc \in Proc
        /\ mode = "update" /\ x \in Txs /\ Status(x) = "staged" /\ unit = x /\ marker = None /\ disk' = None
    BY <1>2, TypeParts DEF ExecSync, ExecInv, At, ExecSteps, Rest
  <2>2. proc' \in Proc /\ proc'.step = "checkState" /\ proc'.tx = x
    BY <1>2, <2>1, Goes DEF ExecSync, ExecSteps, x
  <2>3. TypeOK'
    BY <2>1, <2>2, TypeParts DEF Journal, Rest
  <2>4. MarkerMeansReady' /\ OtherInv' /\ CompleteMeansInstalled'
    BY <2>1 DEF MarkerMeansReady, OtherInv, CompleteMeansInstalled
  <2>5. StageInv' /\ ExecInv'
    BY <2>1, <2>2 DEF StageInv, ExecInv, At, x, Status, StageSteps, ExecSteps
  <2>6. JournalInv' /\ PackageInv'
    BY <2>1 DEF JournalInv, PackageInv, Succeeded, Status, Applied
  <2>7. QED BY <2>3, <2>4, <2>5, <2>6
<1>3. QED BY <1>1, <1>2

(* Where execute() stands: its transaction, and nothing that could start   *)
(* another update boot.                                                    *)
Under(steps) ==
    /\ proc \in Proc /\ proc.step \in steps
    /\ mode = "update" /\ x \in Txs /\ marker = None /\ disk = None

LEMMA ExecStands ==
    ASSUME RInv, proc.step \in ExecSteps \ {"syncUnlink"}
    PROVE  Under(ExecSteps \ {"syncUnlink"}) /\ Journal /\ Rest
BY TypeParts DEF RInv, ExecInv, Under, Rest

(* A transaction that changes only its journal entry keeps the rest.       *)
LEMMA ExecCheckKeepsInv == RInv /\ ExecCheck => RInv'
<1> SUFFICES ASSUME RInv, ExecCheck PROVE RInv'
  OBVIOUS
<1> USE DEF RInv
<1>1. Under({"checkState"}) /\ Journal /\ Rest /\ Status(x) = "staged" /\ unit = x
  BY ExecStands DEF ExecCheck, At, ExecInv, ExecSteps, Under
<1>2. CASE st[x].status = "staged" /\ ~st[x].stagedNow
  <2>1. UNCHANGED <<unit, want, marker, disk, packages, uki, mode, losses>>
        /\ st' = [st EXCEPT ![x].status = "running", ![x].updatedNow = TRUE] /\ Goto("verify")
    BY <1>2 DEF ExecCheck
  <2>2. Gets(x, "running")
    <3>1. "running" \in Statuses
      BY DEF Statuses
    <3>2. QED BY <1>1, <2>1, <3>1, GetsStatus DEF Under
  <2>3. proc' \in Proc /\ proc'.step = "verify" /\ proc'.tx = x
    BY <1>1, <2>1, Goes DEF ExecSteps, x, Under
  <2>4. TypeOK'
    BY <1>1, <2>1, <2>2, <2>3, TypeParts DEF Gets, Journal, Rest
  <2>5. ~Applied(x)
    BY <1>1 DEF JournalInv, Under
  <2>6. MarkerMeansReady' /\ OtherInv' /\ CompleteMeansInstalled'
    BY <1>1, <2>1, <2>2 DEF MarkerMeansReady, OtherInv, CompleteMeansInstalled, Gets, Under
  <2>7. StageInv' /\ ExecInv'
    BY <1>1, <2>1, <2>2, <2>3, <2>5 DEF StageInv, ExecInv, At, x, Gets, Status, Applied, StageSteps, ExecSteps, Under
  <2>8. JournalInv' /\ PackageInv'
    BY <1>1, <2>1, <2>2 DEF JournalInv, PackageInv, Succeeded, Gets, Status, Applied
  <2>9. QED BY <2>4, <2>6, <2>7, <2>8
<1>3. CASE ~(st[x].status = "staged" /\ ~st[x].stagedNow)
  <2>1. Stop /\ UNCHANGED <<st, unit, want, packages, uki, losses, marker, disk>> /\ mode' = "rebooting"
    BY <1>3 DEF ExecCheck
  <2>2. QED BY <1>1, <2>1, DeathKeepsInv DEF OtherInv, Rest
<1>4. QED BY <1>2, <1>3

(* Failed is recorded; what was applied stays applied.                     *)
LEMMA ExecFailsKeepsInv == RInv /\ ExecFails => RInv'
<1> SUFFICES ASSUME RInv, ExecFails PROVE RInv'
  OBVIOUS
<1> USE DEF RInv
<1>1. Under({"verify", "replay", "compare", "unlinkWant"}) /\ Journal /\ Rest /\ Status(x) = "running"
  BY ExecStands DEF ExecFails, ExecInv, ExecSteps, Under
<1>2. UNCHANGED <<unit, want, marker, disk, packages, uki, losses>> /\ mode' = "rebooting"
      /\ proc' \in Proc /\ proc'.step = "none"
  BY Stops DEF ExecFails
<1>3. Gets(x, "failed")
  <2>1. "failed" \in Statuses
    BY DEF Statuses
  <2>2. QED BY <1>1, <2>1, GetsStatus DEF ExecFails, Under
<1>4. TypeOK'
  BY <1>1, <1>2, <1>3, TypeParts DEF Gets, Journal, Rest
<1>5. MarkerMeansReady' /\ OtherInv' /\ CompleteMeansInstalled'
  BY <1>1, <1>2, <1>3 DEF MarkerMeansReady, OtherInv, CompleteMeansInstalled, Gets, Under
<1>6. StageInv' /\ ExecInv'
  BY <1>2 DEF StageInv, ExecInv, At, StageSteps, ExecSteps
<1>7. JournalInv' /\ PackageInv'
  BY <1>1, <1>2, <1>3 DEF JournalInv, PackageInv, Succeeded, Gets, Status, Applied, Under
<1>8. QED BY <1>4, <1>5, <1>6, <1>7

(* The baseline is checked in the update boot itself.                      *)
LEMMA ExecVerifyKeepsInv == RInv /\ ExecVerify => RInv'
<1> SUFFICES ASSUME RInv, ExecVerify PROVE RInv'
  OBVIOUS
<1> USE DEF RInv
<1>1. Under({"verify"}) /\ Rest /\ Status(x) = "running" /\ unit = x /\ ~Applied(x) /\ packages = Baseline[x]
      /\ UNCHANGED <<st, unit, want, marker, disk, packages, uki, mode, losses>>
  BY ExecStands DEF ExecVerify, At, ExecInv, ExecSteps, Under
<1>2. proc' \in Proc /\ proc'.step = "replay" /\ proc'.tx = x
  BY <1>1, Goes DEF ExecVerify, ExecSteps, x, Under
<1>3. TypeOK'
  BY <1>1, <1>2, TypeParts DEF Journal, Rest
<1>4. MarkerMeansReady' /\ OtherInv' /\ CompleteMeansInstalled'
  BY <1>1 DEF MarkerMeansReady, OtherInv, CompleteMeansInstalled
<1>5. StageInv' /\ ExecInv'
  BY <1>1, <1>2 DEF StageInv, ExecInv, At, x, Status, Applied, StageSteps, ExecSteps, Under
<1>6. JournalInv' /\ PackageInv'
  BY <1>1 DEF JournalInv, PackageInv, Succeeded, Status, Applied
<1>7. QED BY <1>3, <1>4, <1>5, <1>6

(* A replay installs on top of exactly its baseline, so a boot entry that  *)
(* was of the baseline has a transaction on top of it.                     *)
LEMMA ExecReplayKeepsInv == RInv /\ ExecReplay => RInv'
<1> SUFFICES ASSUME RInv, ExecReplay PROVE RInv'
  OBVIOUS
<1> USE DEF RInv
<1>1. Under({"replay"}) /\ Journal /\ Rest /\ Status(x) = "running" /\ unit = x /\ ~Applied(x)
      /\ packages = Baseline[x] /\ UNCHANGED <<unit, want, marker, disk, uki, mode, losses>>
  BY ExecStands DEF ExecReplay, At, ExecInv, ExecSteps, Under
<1>2. proc' \in Proc /\ proc'.step = "compare" /\ proc'.tx = x
  BY <1>1, Goes DEF ExecReplay, ExecSteps, x, Under
<1>3. /\ st' \in [Txs -> Entry] /\ packages' \in {x, Damaged}
      /\ \A u \in Txs : st'[u].status = st[u].status
      /\ \A u \in Txs \ {x} : st'[u].applied = st[u].applied
      /\ Applied(x)' \/ UNCHANGED st
      /\ packages' = x => Applied(x)'
  <2>1. CASE packages' = x /\ st' = [st EXCEPT ![x].applied = TRUE]
    BY <1>1, <1>2, <2>1, Installs DEF Under, Applied, x
  <2>2. CASE packages' = Damaged /\ UNCHANGED st
    BY <1>1, <2>2 DEF Journal, Under
  <2>3. QED BY <2>1, <2>2 DEF ExecReplay
<1>4. TypeOK'
  BY <1>1, <1>2, <1>3, TypeParts DEF Journal, Rest, Under
<1>5. \A u \in Txs : Applied(u) => Applied(u)'
  BY <1>1, <1>3 DEF Applied
<1>6. MarkerMeansReady' /\ OtherInv'
  BY <1>1, <1>3 DEF MarkerMeansReady, OtherInv
<1>7. CompleteMeansInstalled'
  BY <1>1, <1>3, <1>5 DEF CompleteMeansInstalled, Applied
<1>8. StageInv' /\ ExecInv'
  BY <1>1, <1>2, <1>3 DEF StageInv, ExecInv, At, x, Status, StageSteps, ExecSteps, Under
<1>9. JournalInv'
  BY <1>1, <1>2, <1>3 DEF JournalInv, Status, Applied, x, Under
<1>10. PackageInv'
  <2>1. CASE packages' = Damaged
    BY <1>1, <2>1 DEF PackageInv
  <2>2. CASE packages' = x
    <3>1. Applied(x)'
      BY <1>3, <2>2
    <3>2. uki \in Txs => Succeeded(uki)'
      <4> SUFFICES ASSUME uki \in Txs PROVE Succeeded(uki)'
        OBVIOUS
      <4>1. Baseline[x] # Damaged
        BY <1>1 DEF Under
      <4>2. uki = Baseline[x] \/ Succeeded(uki)
        BY <1>1, <4>1 DEF PackageInv
      <4>3. Succeeded(uki) => Succeeded(uki)'
        BY <1>1, <1>5 DEF Succeeded
      <4>4. uki = Baseline[x] => Succeeded(uki)'
        BY <1>1, <1>2, <3>1 DEF Succeeded, Under, x
      <4>5. QED BY <4>2, <4>3, <4>4
    <3>3. QED BY <1>1, <1>2, <2>2, <3>1, <3>2 DEF PackageInv, x
  <2>3. QED BY <1>3, <2>1, <2>2
<1>11. QED BY <1>4, <1>6, <1>7, <1>8, <1>9, <1>10

(* The boot entry follows the packages: what it was of before has by now a *)
(* transaction on top of it.                                               *)
LEMMA ExecBootKeepsInv == RInv /\ ExecBootDefault => RInv'
<1> SUFFICES ASSUME RInv, ExecBootDefault PROVE RInv'
  OBVIOUS
<1> USE DEF RInv
<1>1. Under({"compare"}) /\ Rest /\ Status(x) = "running" /\ unit = x /\ packages = x /\ uki' = x
      /\ UNCHANGED <<st, unit, want, marker, disk, packages, mode, losses>>
  BY ExecStands DEF ExecBootDefault, At, ExecInv, ExecSteps, Under
<1>2. proc' \in Proc /\ proc'.step = "unlinkWant" /\ proc'.tx = x
  BY <1>1, Goes DEF ExecBootDefault, ExecSteps, x, Under
<1>3. Applied(x)
  BY <1>1 DEF PackageInv, Under
<1>4. TypeOK'
  BY <1>1, <1>2, TypeParts DEF Journal, Rest, Under
<1>5. MarkerMeansReady' /\ OtherInv'
  BY <1>1 DEF MarkerMeansReady, OtherInv
<1>6. CompleteMeansInstalled'
  <2> SUFFICES ASSUME NEW t \in Txs, st[t].status = "complete", uki = t PROVE Succeeded(t)
    BY <1>1 DEF CompleteMeansInstalled, Succeeded, Applied
  <2>1. t # x /\ packages # Damaged
    BY <1>1 DEF Status, Under
  <2>2. QED BY <1>1, <2>1 DEF PackageInv
<1>7. StageInv' /\ ExecInv'
  BY <1>1, <1>2, <1>3 DEF StageInv, ExecInv, At, x, Status, Applied, StageSteps, ExecSteps, Under
<1>8. JournalInv'
  BY <1>1 DEF JournalInv, Status, Applied
<1>9. PackageInv'
  BY <1>1, <1>3 DEF PackageInv, Applied
<1>10. QED BY <1>4, <1>5, <1>6, <1>7, <1>8, <1>9

(* The hooks of the replay go, its link first.                             *)
LEMMA ExecUnlinkKeepsInv == RInv /\ (ExecUnlinkWant \/ ExecUnlinkUnit) => RInv'
<1> SUFFICES ASSUME RInv, ExecUnlinkWant \/ ExecUnlinkUnit PROVE RInv'
  OBVIOUS
<1> USE DEF RInv
<1>1. Under({"unlinkWant", "unlinkUnit"}) /\ Rest /\ Status(x) = "running" /\ unit = x /\ uki = x /\ Applied(x)
      /\ UNCHANGED <<st, marker, disk, packages, uki, mode, losses>>
  BY ExecStands DEF ExecUnlinkWant, ExecUnlinkUnit, At, ExecInv, ExecSteps, Under
<1>2. /\ proc' \in Proc /\ proc'.tx = x
      /\ \/ proc'.step = "unlinkUnit" /\ unit' = x
         \/ proc'.step = "markComplete" /\ unit' = None
      /\ want' \in BOOLEAN
  BY <1>1, Goes, Bools DEF ExecUnlinkWant, ExecUnlinkUnit, ExecSteps, x, Under, Rest
<1>3. TypeOK'
  BY <1>1, <1>2, TypeParts DEF Journal, Rest, Under
<1>4. MarkerMeansReady' /\ OtherInv'
  BY <1>1 DEF MarkerMeansReady, OtherInv, Under
<1>5. CompleteMeansInstalled'
  BY <1>1, <1>2 DEF CompleteMeansInstalled, Status
<1>6. StageInv' /\ ExecInv'
  BY <1>1, <1>2 DEF StageInv, ExecInv, At, x, Status, Applied, StageSteps, ExecSteps, Under
<1>7. JournalInv' /\ PackageInv'
  BY <1>1, <1>2 DEF JournalInv, PackageInv, Succeeded, Status, Applied
<1>8. QED BY <1>3, <1>4, <1>5, <1>6, <1>7

(* Complete is said last.                                                  *)
LEMMA ExecCompleteKeepsInv == RInv /\ ExecComplete => RInv'
<1> SUFFICES ASSUME RInv, ExecComplete PROVE RInv'
  OBVIOUS
<1> USE DEF RInv
<1>1. Under({"markComplete"}) /\ Journal /\ Rest /\ Status(x) = "running" /\ unit = None /\ uki = x /\ Applied(x)
  BY ExecStands DEF ExecComplete, At, ExecInv, ExecSteps, Under
<1>2. UNCHANGED <<unit, want, marker, disk, packages, uki, losses>> /\ mode' = "rebooting"
      /\ proc' \in Proc /\ proc'.step = "none"
  BY Stops DEF ExecComplete
<1>3. Gets(x, "complete")
  <2>1. "complete" \in Statuses
    BY DEF Statuses
  <2>2. QED BY <1>1, <2>1, GetsStatus DEF ExecComplete, Under
<1>4. TypeOK'
  BY <1>1, <1>2, <1>3, TypeParts DEF Gets, Journal, Rest
<1>5. MarkerMeansReady' /\ OtherInv'
  BY <1>1, <1>2, <1>3 DEF MarkerMeansReady, OtherInv, Gets, Under
<1>6. CompleteMeansInstalled'
  BY <1>1, <1>2, <1>3 DEF CompleteMeansInstalled, Gets, Applied, Under
<1>7. StageInv' /\ ExecInv'
  BY <1>2 DEF StageInv, ExecInv, At, StageSteps, ExecSteps
<1>8. JournalInv' /\ PackageInv'
  BY <1>1, <1>2, <1>3 DEF JournalInv, PackageInv, Succeeded, Gets, Status, Applied, Under
<1>9. QED BY <1>4, <1>5, <1>6, <1>7, <1>8

-----------------------------------------------------------------------------
(* Deaths, shutdowns and losses of power.                                  *)
LEMMA LossesKeepInv == RInv /\ (Killed \/ Shutdown \/ PowerLoss) => RInv'
<1> SUFFICES ASSUME RInv, Killed \/ Shutdown \/ PowerLoss PROVE RInv'
  OBVIOUS
<1>1. /\ Stop /\ UNCHANGED <<st, unit, want, packages, uki>>
      /\ marker' \in {marker, disk} /\ disk' \in {marker', disk}
      /\ mode' \in {mode, "rebooting"} /\ losses' \in {losses, losses + 1} /\ losses' <= MaxLosses
  BY TypeParts DEF Killed, Shutdown, PowerLoss, RInv, Rest
<1>2. marker' = Other => disk' = Other
  BY DEF Killed, Shutdown, PowerLoss, RInv, OtherInv
<1>3. losses' \in 0..MaxLosses /\ mode' \in {"normal", "update", "rebooting"}
  BY <1>1, TypeParts DEF RInv, Rest
<1>4. QED BY <1>1, <1>2, <1>3, DeathKeepsInv

(* A boot: no program runs while the machine restarts.                     *)
LEMMA BootKeepsInv == RInv /\ Boot => RInv'
<1> SUFFICES ASSUME RInv, Boot PROVE RInv'
  OBVIOUS
<1> USE DEF RInv
<1>1. /\ mode = "rebooting" /\ mode' \in {"normal", "update"}
      /\ UNCHANGED <<unit, want, marker, disk, packages, uki, proc, losses>>
  BY DEF Boot
<1>2. /\ st' \in [Txs -> Entry]
      /\ \A u \in Txs : st'[u].status = st[u].status /\ st'[u].applied = st[u].applied
  BY Boots, TypeParts DEF Boot
<1>3. proc.step \notin StageSteps \cup ExecSteps
  BY <1>1 DEF StageInv, ExecInv
<1>4. TypeOK'
  BY <1>1, <1>2, TypeParts DEF Journal, Rest
<1>5. MarkerMeansReady' /\ OtherInv' /\ CompleteMeansInstalled'
  BY <1>1, <1>2 DEF MarkerMeansReady, OtherInv, CompleteMeansInstalled
<1>6. StageInv' /\ ExecInv'
  BY <1>1, <1>3 DEF StageInv, ExecInv, At, StageSteps, ExecSteps
<1>7. JournalInv' /\ PackageInv'
  BY <1>1, <1>2 DEF JournalInv, PackageInv, Succeeded, Status, Applied
<1>8. QED BY <1>4, <1>5, <1>6, <1>7

(* Other programs on the target, and a step that changes nothing.          *)
LEMMA OthersKeepInv == RInv /\ (PackagesChange \/ OtherStages \/ OtherUpdates \/ UNCHANGED vars) => RInv'
<1> SUFFICES ASSUME RInv, PackagesChange \/ OtherStages \/ OtherUpdates \/ UNCHANGED vars PROVE RInv'
  OBVIOUS
<1> USE DEF RInv
<1>1. /\ UNCHANGED <<st, unit, want, uki, proc, losses>> /\ packages' \in {packages, Damaged}
      /\ mode' \in {mode, "rebooting"}
      /\ marker' \in {marker, None, Other} /\ disk' \in {disk, None, Other}
      /\ OtherInv'
  BY DEF PackagesChange, OtherStages, OtherUpdates, vars, OtherInv
<1>2. /\ mode = "normal" => mode' = mode
      /\ mode = "update" /\ mode' # mode => marker # None
      /\ mode = "update" /\ mode' = mode => marker' = marker /\ disk' = disk /\ packages' = packages
  BY DEF PackagesChange, OtherStages, OtherUpdates, vars
<1>3. TypeOK'
  BY <1>1, TypeParts DEF Journal, Rest
<1>4. MarkerMeansReady' /\ CompleteMeansInstalled'
  BY <1>1 DEF MarkerMeansReady, CompleteMeansInstalled
<1>5. StageInv'
  BY <1>1, <1>2 DEF StageInv, At, x, Status
<1>6. ExecInv'
  BY <1>1, <1>2 DEF ExecInv, At, x, Status, Applied, ExecSteps
<1>7. JournalInv' /\ PackageInv'
  BY <1>1 DEF JournalInv, PackageInv, Succeeded, Status, Applied
<1>8. QED BY <1>1, <1>3, <1>4, <1>5, <1>6, <1>7

(* The inductive invariant holds always.                                   *)
LEMMA ReplayStep == RInv /\ [Next]_vars => RInv'
BY StageBeginKeepsInv, StageUnitKeepsInv, StageMarkKeepsInv, StageMarkerKeepsInv, ExecSelectKeepsInv,
   ExecCheckKeepsInv, ExecFailsKeepsInv, ExecVerifyKeepsInv, ExecReplayKeepsInv, ExecBootKeepsInv,
   ExecUnlinkKeepsInv, ExecCompleteKeepsInv, LossesKeepInv, BootKeepsInv, OthersKeepInv
DEF Next, StageStep, ExecStep

LEMMA ReplayInvariant == Spec => []RInv
BY ReplayInit, ReplayStep, PTL DEF Spec

(* A marker stands only where the update boot is ready for it, and         *)
(* complete is said only of what is installed (offline.py: stage, execute, *)
(* require_complete).                                                      *)
THEOREM ReplayInvHolds == Spec => []ReplayInv
<1>1. RInv => ReplayInv
  BY DEF RInv, ReplayInv
<1>2. QED BY ReplayInvariant, <1>1, PTL

(* The default boot entry changes only in an update boot, to the one whose *)
(* packages are installed (offline.py: execute).                           *)
THEOREM EntryFollowsPackages == Spec => KernelFollowsPackages
<1>1. RInv /\ [Next]_vars => (uki' # uki => packages = uki' /\ mode = "update")
  <2> SUFFICES ASSUME RInv, [Next]_vars, uki' # uki PROVE packages = uki' /\ mode = "update"
    OBVIOUS
  <2>1. ExecBootDefault
    BY DEF Next, StageBegin, StageStep, StageUnit, StageVerify, StageLink, StageMark, StageMarker, StageSync,
       ExecStep, ExecSelect, ExecSync, ExecCheck, ExecFails, ExecVerify, ExecReplay, ExecUnlinkWant,
       ExecUnlinkUnit, ExecComplete, Killed, Shutdown, PowerLoss, Boot, PackagesChange, OtherStages,
       OtherUpdates, vars
  <2>2. QED BY <2>1 DEF ExecBootDefault, RInv, ExecInv, At, ExecSteps
<1>2. QED BY ReplayInvariant, <1>1, PTL DEF Spec, KernelFollowsPackages

(* The marker of another update manager goes only when that manager takes  *)
(* it down, whatever is killed or lost (offline.py: stage, execute).       *)
THEOREM OthersMarkerKept == Spec => OtherMarkerKept
<1>1. RInv /\ [Next]_vars => (marker = Other /\ marker' # Other => OtherUpdates)
  <2> SUFFICES ASSUME RInv, [Next]_vars, marker = Other, marker' # Other PROVE OtherUpdates
    OBVIOUS
  <2>1. disk = Other /\ unit # Other /\ None # Other
    BY TypeParts DEF RInv, OtherInv, Rest
  <2>2. QED BY <2>1
    DEF Next, StageBegin, StageStep, StageUnit, StageVerify, StageLink, StageMark, StageMarker, StageSync,
       ExecStep, ExecSelect, ExecSync, ExecCheck, ExecFails, ExecVerify, ExecReplay, ExecBootDefault,
       ExecUnlinkWant, ExecUnlinkUnit, ExecComplete, Killed, Shutdown, PowerLoss, Boot, PackagesChange,
       OtherStages, vars
<1>2. QED BY ReplayInvariant, <1>1, PTL DEF Spec, OtherMarkerKept

-----------------------------------------------------------------------------
(* The refinement.  The use of a transaction depends on its journal entry  *)
(* and on whether something still leads to its update boot.                *)
Armed(t) == marker = t \/ (x = t /\ proc.step \in ExecSteps)

Unstarted(t) == Status(t) \in {"none", "staging", "staged"}

UseFacts(t) ==
    /\ Status(t) = "complete" => UseOf(t) = "done"
    /\ Status(t) = "failed" => UseOf(t) = "failed"
    /\ Status(t) = "running" /\ Applied(t) => UseOf(t) = "installed"
    /\ Status(t) = "running" /\ ~Applied(t) => UseOf(t) = "running"
    /\ Unstarted(t) /\ Armed(t) => UseOf(t) = "armed"
    /\ Unstarted(t) /\ ~Armed(t) => UseOf(t) = "ready"
    /\ Unstarted(t) \/ Status(t) \in {"running", "complete", "failed"}

LEMMA UseValues ==
    ASSUME NEW t \in Txs
    PROVE  (TypeOK => UseFacts(t)) /\ (TypeOK' => UseFacts(t)')
<1>1. TypeOK => UseFacts(t)
  BY TypeParts DEF UseFacts, Unstarted, UseOf, Status, Applied, Armed, Journal, Entry, Statuses
<1>2. TypeOK' => UseFacts(t)'
  BY TypeParts DEF UseFacts, Unstarted, UseOf, Status, Applied, Armed, Journal, Entry, Statuses
<1>3. QED BY <1>1, <1>2

LEMMA SameUse ==
    ASSUME NEW t, Status(t)' = Status(t), Applied(t)' = Applied(t), Armed(t)' <=> Armed(t)
    PROVE  UseOf(t)' = UseOf(t)
BY DEF UseOf, Status, Applied, Armed

uses == [t \in Txs |-> UseOf(t)]

LEMMA UseChanges ==
    ASSUME NEW t \in Txs, \A u \in Txs \ {t} : UseOf(u)' = UseOf(u)
    PROVE  uses' = [uses EXCEPT ![t] = UseOf(t)']
BY DEF uses

(* A step that leaves every use as it is, is a step of the packages only.  *)
LEMMA KeepsUses ==
    ASSUME \A u \in Txs : UseOf(u)' = UseOf(u), packages' \in {packages, Damaged}
    PROVE  [OneShot!Next]_(OneShot!updateVars)
<1>1. uses' = uses
  BY DEF uses
<1>2. QED BY <1>1 DEF uses, OneShot!Next, OneShot!Damage, OneShot!updateVars

(* A use that is open: armed, or started and not installed.                *)
Open(t) == UseOf(t) \in {"armed", "running"}

(* Nothing is armed behind an open use: an open use has the unit.          *)
LEMMA OpenHasUnit ==
    ASSUME RInv, proc.step \notin {"unlinkUnit", "markComplete"}, NEW t \in Txs, Open(t)
    PROVE  unit = t
<1>1. UseFacts(t) /\ TypeOK
  BY UseValues DEF RInv
<1>2. CASE Status(t) = "running"
  BY <1>1, <1>2 DEF Open, UseFacts, RInv, JournalInv
<1>3. CASE Unstarted(t)
  <2>1. Armed(t)
    BY <1>1, <1>3 DEF Open, UseFacts
  <2>2. CASE marker = t
    BY <2>2 DEF RInv, MarkerMeansReady
  <2>3. CASE x = t /\ proc.step \in ExecSteps
    BY <2>3 DEF RInv, ExecInv
  <2>4. QED BY <2>1, <2>2, <2>3 DEF Armed
<1>4. QED BY <1>1, <1>2, <1>3 DEF Open, UseFacts

(* Arming, as the abstract specification has it.                           *)
LEMMA Arms ==
    ASSUME RInv, TypeOK', NEW t \in Txs, unit = t, proc.step \notin ExecSteps, Status(t) = "staged", ~Armed(t),
           marker' = t, UNCHANGED <<st, packages>>, proc'.step \notin ExecSteps, marker \notin Txs
    PROVE  [OneShot!Next]_(OneShot!updateVars)
<1>1. UseOf(t) = "ready" /\ UseOf(t)' = "armed"
  BY UseValues DEF RInv, UseFacts, Unstarted, Status, Armed
<1>2. \A u \in Txs \ {t} : UseOf(u)' = UseOf(u)
  BY SameUse DEF Status, Applied, Armed
<1>3. \A u \in Txs : ~Open(u)
  BY <1>1, OpenHasUnit DEF ExecSteps, Open
<1>4. uses' = [uses EXCEPT ![t] = "armed"]
  BY <1>1, <1>2, UseChanges
<1>5. OneShot!Arm(t)
  BY <1>1, <1>3, <1>4 DEF OneShot!Arm, uses, Open
<1>6. QED BY <1>5 DEF OneShot!Next

(* Disarming: a loss of the marker, or the end of an update boot that did  *)
(* not start its transaction.                                              *)
LEMMA Disarms ==
    ASSUME RInv, TypeOK', NEW t \in Txs, Status(t) = "staged", Armed(t), ~Armed(t)',
           UNCHANGED <<st, packages>>, \A u \in Txs \ {t} : Armed(u)' <=> Armed(u)
    PROVE  [OneShot!Next]_(OneShot!updateVars)
<1>1. UseOf(t) = "armed" /\ UseOf(t)' = "ready"
  BY UseValues DEF RInv, UseFacts, Unstarted, Status
<1>2. \A u \in Txs \ {t} : UseOf(u)' = UseOf(u)
  BY SameUse DEF Status, Applied
<1>3. uses' = [uses EXCEPT ![t] = "ready"]
  BY <1>1, <1>2, UseChanges
<1>4. OneShot!Disarm(t)
  BY <1>1, <1>3 DEF OneShot!Disarm, uses
<1>5. QED BY <1>4 DEF OneShot!Next

(* Staging arms the transaction when it sets the marker.                   *)
LEMMA StagingRefines ==
    RInv /\ RInv' /\ ((\E t \in Txs : StageBegin(t)) \/ StageStep) => [OneShot!Next]_(OneShot!updateVars)
<1> SUFFICES ASSUME RInv, RInv', (\E t \in Txs : StageBegin(t)) \/ StageStep
             PROVE  [OneShot!Next]_(OneShot!updateVars)
  OBVIOUS
<1>1. proc.step \notin ExecSteps /\ proc'.step \notin ExecSteps /\ packages' = packages /\ TypeOK'
  <2>1. proc \in Proc /\ TypeOK' /\ packages' = packages
    BY TypeParts DEF RInv, Rest, StageBegin, StageStep, StageUnit, StageVerify, StageLink, StageMark, StageMarker,
       StageSync
  <2>2. proc.step \in StageSteps \cup {"none"}
    BY DEF StageBegin, StageStep, StageUnit, StageVerify, StageLink, StageMark, StageMarker, StageSync, At, StageSteps
  <2>3. \/ \E t \in Txs : proc' = [step |-> "writeUnit", tx |-> t]
        \/ Stop
        \/ \E s \in StageSteps : Goto(s)
    BY DEF StageBegin, StageStep, StageUnit, StageVerify, StageLink, StageMark, StageMarker, StageSync, StageSteps
  <2>4. proc'.step \in StageSteps \cup {"none"}
    BY <2>1, <2>3, Goes, Stops DEF StageSteps
  <2>5. QED BY <2>1, <2>2, <2>4, Programs
<1>2. CASE StageMarker /\ marker = None
  <2>1. x \in Txs /\ Status(x) = "staged" /\ unit = x /\ marker' = x /\ UNCHANGED <<st, packages>> /\ x' = x
    BY <1>2 DEF StageMarker, RInv, StageInv, At, Goto, StageSteps, x, TypeOK
  <2>2. ~Armed(x)
    BY <1>1, <1>2, <2>1 DEF Armed
  <2>3. QED BY <1>1, <1>2, <2>1, <2>2, Arms
<1>3. CASE ~(StageMarker /\ marker = None)
  <2>1. marker' = marker
    BY <1>3 DEF StageBegin, StageStep, StageUnit, StageVerify, StageLink, StageMark, StageMarker, StageSync
  <2>2. \A u \in Txs : Armed(u)' <=> Armed(u)
    BY <1>1, <2>1 DEF Armed
  <2>3. CASE UNCHANGED st
    <3>1. \A u \in Txs : UseOf(u)' = UseOf(u)
      BY <2>2, <2>3, SameUse DEF Status, Applied
    <3>2. QED BY <1>1, <3>1, KeepsUses
  <2>4. ASSUME NEW t \in Txs, NEW s \in {"staging", "staged"}, Gets(t, s), Unstarted(t)
        PROVE  [OneShot!Next]_(OneShot!updateVars)
    <3>1. \A u \in Txs \ {t} : UseOf(u)' = UseOf(u)
      BY <2>2, <2>4, SameUse DEF Gets, Status, Applied
    <3>2. Unstarted(t)'
      BY <2>4 DEF Gets, Unstarted, Status
    <3>3. UseOf(t)' = UseOf(t)
      BY <1>1, <2>2, <2>4, <3>2, UseValues DEF RInv, UseFacts
    <3>4. QED BY <1>1, <3>1, <3>3, KeepsUses
  <2>5. ASSUME NEW t \in Txs, StageBegin(t) PROVE [OneShot!Next]_(OneShot!updateVars)
    <3>1. Gets(t, "staging") /\ Unstarted(t)
      BY <2>5, GetsStatus, TypeParts DEF StageBegin, RInv, Statuses, Unstarted, Status
    <3>2. QED BY <2>4, <3>1
  <2>6. CASE StageMark
    <3>1. x \in Txs /\ Gets(x, "staged") /\ Unstarted(x)
      BY <2>6, GetsStatus, TypeParts DEF StageMark, RInv, StageInv, At, StageSteps, Statuses, Unstarted, Status
    <3>2. QED BY <2>4, <3>1
  <2>7. QED BY <2>3, <2>5, <2>6 DEF StageStep, StageUnit, StageVerify, StageLink, StageMarker, StageSync
<1>4. QED BY <1>2, <1>3

(* The steps of execute() change only what is of its transaction.          *)
LEMMA ExecFrame ==
    ASSUME RInv, RInv', proc.step \in ExecSteps, proc'.step \in ExecSteps \cup {"none"}, marker' = marker,
           x' = x \/ proc'.step = "none"
    PROVE  /\ x \in Txs /\ \A u \in Txs \ {x} : ~Armed(u) /\ ~Armed(u)'
           /\ Armed(x)
BY Programs DEF RInv, ExecInv, Armed, x

(* Its journal writes and its replay are the steps of the one-shot update. *)
LEMMA ExecWritesRefine ==
    RInv /\ RInv' /\ (ExecCheck \/ ExecFails \/ ExecReplay \/ ExecComplete) => [OneShot!Next]_(OneShot!updateVars)
<1> SUFFICES ASSUME RInv, RInv', ExecCheck \/ ExecFails \/ ExecReplay \/ ExecComplete
             PROVE  [OneShot!Next]_(OneShot!updateVars)
  OBVIOUS
<1>1. Under(ExecSteps \ {"syncUnlink"}) /\ Journal /\ UNCHANGED <<marker, disk>> /\ TypeOK /\ TypeOK'
  BY ExecStands DEF ExecCheck, ExecFails, ExecReplay, ExecComplete, At, ExecSteps, RInv
<1>2. proc'.step \in ExecSteps \cup {"none"} /\ (x' = x \/ proc'.step = "none")
  BY <1>1, Goes, Stops DEF ExecCheck, ExecFails, ExecReplay, ExecComplete, Under, ExecSteps, x
<1>3. x \in Txs /\ (\A u \in Txs \ {x} : ~Armed(u) /\ ~Armed(u)') /\ Armed(x)
  BY <1>1, <1>2, ExecFrame DEF Under
<1>4. PICK t \in Txs : t = x
  BY <1>3
<1>5. UseFacts(t) /\ UseFacts(t)'
  BY <1>1, UseValues
<1>6. ASSUME NEW s \in Statuses, Gets(x, s)
      PROVE  /\ \A u \in Txs \ {t} : UseOf(u)' = UseOf(u)
             /\ Status(t)' = s /\ Applied(t)' = Applied(t)
  <2>1. \A u \in Txs \ {t} : UseOf(u)' = UseOf(u)
    BY <1>3, <1>4, <1>6, SameUse DEF Gets, Status, Applied
  <2>2. QED BY <1>4, <1>6, <2>1 DEF Gets, Status, Applied
<1>7. CASE ExecCheck /\ ~(st[x].status = "staged" /\ ~st[x].stagedNow)
  <2>1. Stop /\ UNCHANGED st /\ Status(t) = "staged" /\ packages' = packages
    BY <1>4, <1>7 DEF ExecCheck, RInv, ExecInv, At, ExecSteps
  <2>2. ~Armed(t)' /\ Armed(t)
    BY <1>1, <1>3, <1>4, <2>1, Stops, Programs DEF Armed, Under
  <2>3. QED BY <1>1, <1>3, <1>4, <1>7, <2>1, <2>2, Disarms
<1>8. CASE ExecCheck /\ st[x].status = "staged" /\ ~st[x].stagedNow
  <2>1. Gets(x, "running") /\ Status(t) = "staged" /\ packages' = packages /\ ~Applied(t)
    BY <1>1, <1>4, <1>8, GetsStatus DEF ExecCheck, RInv, ExecInv, JournalInv, At, ExecSteps, Statuses, Under, Status
  <2>2. UseOf(t) = "armed" /\ UseOf(t)' = "running"
    BY <1>3, <1>5, <1>6, <1>4, <2>1 DEF UseFacts, Unstarted, Statuses
  <2>3. uses' = [uses EXCEPT ![t] = "running"]
    BY <1>6, <1>4, <2>1, <2>2, UseChanges DEF Statuses
  <2>4. OneShot!Start(t)
    BY <1>4, <2>1, <2>2, <2>3 DEF OneShot!Start, uses
  <2>5. QED BY <1>4, <2>4 DEF OneShot!Next
<1>9. CASE ExecFails
  <2>1. Gets(x, "failed") /\ Status(t) = "running" /\ packages' = packages
    BY <1>1, <1>4, <1>9, GetsStatus DEF ExecFails, RInv, ExecInv, ExecSteps, Statuses, Under
  <2>2. UseOf(t) \in {"running", "installed"} /\ UseOf(t)' = "failed"
    BY <1>5, <1>6, <1>4, <2>1 DEF UseFacts, Statuses
  <2>3. uses' = [uses EXCEPT ![t] = "failed"]
    BY <1>6, <1>4, <2>1, <2>2, UseChanges DEF Statuses
  <2>4. OneShot!GiveUp(t)
    BY <1>4, <2>1, <2>2, <2>3 DEF OneShot!GiveUp, uses
  <2>5. QED BY <1>4, <2>4 DEF OneShot!Next
<1>10. CASE ExecComplete
  <2>1. Gets(x, "complete") /\ Status(t) = "running" /\ Applied(t) /\ packages' = packages
    BY <1>1, <1>4, <1>10, GetsStatus DEF ExecComplete, RInv, ExecInv, At, ExecSteps, Statuses, Under
  <2>2. UseOf(t) = "installed" /\ UseOf(t)' = "done"
    BY <1>5, <1>6, <1>4, <2>1 DEF UseFacts, Statuses
  <2>3. uses' = [uses EXCEPT ![t] = "done"]
    BY <1>6, <1>4, <2>1, <2>2, UseChanges DEF Statuses
  <2>4. OneShot!Complete(t)
    BY <1>4, <2>1, <2>2, <2>3 DEF OneShot!Complete, uses
  <2>5. QED BY <1>4, <2>4 DEF OneShot!Next
<1>11. CASE ExecReplay /\ packages' = x
  <2>1. packages = Baseline[t] /\ Status(t) = "running" /\ ~Applied(t) /\ st' = [st EXCEPT ![t].applied = TRUE]
    BY <1>3, <1>4, <1>11 DEF ExecReplay, RInv, ExecInv, At, ExecSteps
  <2>2. /\ \A u \in Txs : st'[u].status = st[u].status
        /\ st'[t].applied = TRUE /\ \A u \in Txs \ {t} : st'[u].applied = st[u].applied
    BY <1>1, <1>4, <2>1, Installs
  <2>3. Status(t)' = "running" /\ Applied(t)'
    BY <2>1, <2>2 DEF Status, Applied
  <2>4. UseOf(t) = "running" /\ UseOf(t)' = "installed"
    BY <1>5, <2>1, <2>3 DEF UseFacts
  <2>5. \A u \in Txs \ {t} : UseOf(u)' = UseOf(u)
    BY <1>3, <1>4, <2>2, SameUse DEF Status, Applied
  <2>6. uses' = [uses EXCEPT ![t] = "installed"]
    BY <1>4, <2>4, <2>5, UseChanges
  <2>7. OneShot!Install(t)
    BY <1>4, <1>11, <2>1, <2>4, <2>6 DEF OneShot!Install, uses
  <2>8. QED BY <1>4, <2>7 DEF OneShot!Next
<1>12. CASE ExecReplay /\ packages' # x
  <2>1. packages' = Damaged /\ UNCHANGED st /\ Goto("compare")
    BY <1>12 DEF ExecReplay
  <2>2. proc'.step = "compare" /\ x' = x
    BY <1>1, <2>1, Goes DEF Under, ExecSteps, x
  <2>3. \A u \in Txs : Armed(u)' <=> Armed(u)
    BY <1>1, <1>3, <2>2 DEF Armed, ExecSteps, Under
  <2>4. \A u \in Txs : UseOf(u)' = UseOf(u)
    BY <2>1, <2>3, SameUse DEF Status, Applied
  <2>5. QED BY <2>1, <2>4, KeepsUses
<1>13. QED BY <1>7, <1>8, <1>9, <1>10, <1>11, <1>12

(* The other steps of execute() change no use.                             *)
LEMMA ExecOthersRefine ==
    RInv /\ RInv' /\ (ExecSelect \/ ExecSync \/ ExecVerify \/ ExecBootDefault \/ ExecUnlinkWant \/ ExecUnlinkUnit)
    => [OneShot!Next]_(OneShot!updateVars)
<1> SUFFICES ASSUME RInv, RInv', ExecSelect \/ ExecSync \/ ExecVerify \/ ExecBootDefault \/ ExecUnlinkWant
                                 \/ ExecUnlinkUnit
             PROVE  [OneShot!Next]_(OneShot!updateVars)
  OBVIOUS
<1>1. UNCHANGED <<st, packages>> /\ proc \in Proc
  BY TypeParts DEF ExecSelect, ExecSync, ExecVerify, ExecBootDefault, ExecUnlinkWant, ExecUnlinkUnit, RInv, Rest
<1>2. CASE ExecSelect
  <2>1. \A u \in Txs : Armed(u)' <=> Armed(u)
    BY <1>2 DEF ExecSelect, Armed, At, x, ExecSteps
  <2>2. QED BY <1>1, <2>1, SameUse, KeepsUses DEF Status, Applied
<1>3. CASE ~ExecSelect
  <2>1. marker' = marker /\ proc.step \in ExecSteps /\ \E s \in ExecSteps : Goto(s)
    BY <1>3 DEF ExecSync, ExecVerify, ExecBootDefault, ExecUnlinkWant, ExecUnlinkUnit, At, ExecSteps
  <2>2. proc'.step \in ExecSteps /\ x' = x
    BY <1>1, <2>1, Goes DEF x
  <2>3. \A u \in Txs : Armed(u)' <=> Armed(u)
    BY <2>1, <2>2 DEF Armed
  <2>4. QED BY <1>1, <2>3, SameUse, KeepsUses DEF Status, Applied
<1>4. QED BY <1>2, <1>3

(* A death or a loss of power disarms, arms again what a killed update     *)
(* boot had only begun, or changes nothing.                                *)
LEMMA LossesRefine ==
    RInv /\ RInv' /\ (Killed \/ Shutdown \/ PowerLoss) => [OneShot!Next]_(OneShot!updateVars)
<1> SUFFICES ASSUME RInv, RInv', Killed \/ Shutdown \/ PowerLoss PROVE [OneShot!Next]_(OneShot!updateVars)
  OBVIOUS
<1>1. /\ UNCHANGED <<st, packages>> /\ proc'.step \notin ExecSteps /\ marker' \in {marker, disk}
      /\ TypeOK /\ TypeOK'
  BY Stops, Programs DEF Killed, Shutdown, PowerLoss, RInv
<1>2. \A u \in Txs : Armed(u)' <=> marker' = u
  BY <1>1 DEF Armed
<1>3. CASE \A u \in Txs : Armed(u)' <=> Armed(u)
  <2>1. \A u \in Txs : UseOf(u)' = UseOf(u)
    BY <1>1, <1>3, SameUse DEF Status, Applied
  <2>2. QED BY <1>1, <2>1, KeepsUses
<1>4. ASSUME NEW t \in Txs, Armed(t), ~Armed(t)' PROVE [OneShot!Next]_(OneShot!updateVars)
  <2>1. \/ marker = t /\ disk # t
        \/ x = t /\ proc.step \in ExecSteps /\ marker = None /\ marker' # t
    BY <1>1, <1>2, <1>4 DEF Armed, RInv, ExecInv
  <2>2. CASE marker = t
    <3>1. Status(t) = "staged" /\ unit = t
      BY <2>2 DEF RInv, MarkerMeansReady, Status
    <3>2. ASSUME NEW u \in Txs \ {t} PROVE ~Armed(u) /\ ~Armed(u)'
      <4>1. ~Armed(u)
        BY <2>2, <3>2 DEF Armed, RInv, ExecInv
      <4>2. marker' # u
        BY <1>1, <2>2, <3>1, <3>2 DEF RInv, MarkerMeansReady
      <4>3. QED BY <1>2, <4>1, <4>2
    <3>3. QED BY <1>1, <1>4, <3>1, <3>2, Disarms
  <2>3. CASE x = t /\ proc.step \in ExecSteps /\ marker = None /\ marker' # t
    <3>1. ASSUME NEW u \in Txs \ {t} PROVE ~Armed(u) /\ ~Armed(u)'
      <4>1. ~Armed(u)
        BY <2>3, <3>1 DEF Armed
      <4>2. marker' # u
        <5>1. CASE proc.step = "syncUnlink"
          BY <1>1, <2>3, <3>1, <5>1 DEF RInv, MarkerMeansReady, ExecInv, ExecSteps
        <5>2. CASE proc.step # "syncUnlink"
          BY <1>1, <2>3, <3>1, <5>2 DEF RInv, ExecInv
        <5>3. QED BY <5>1, <5>2
      <4>3. QED BY <1>2, <4>1, <4>2
    <3>2. CASE Status(t) = "staged"
      BY <1>1, <1>4, <3>1, <3>2, Disarms
    <3>3. CASE Status(t) # "staged"
      <4>1. Status(t) = "running"
        BY <2>3, <3>3 DEF RInv, ExecInv
      <4>2. UseFacts(t) /\ UseFacts(t)' /\ Status(t)' = Status(t) /\ Applied(t)' = Applied(t)
        BY <1>1, UseValues DEF Status, Applied
      <4>3. UseOf(t)' = UseOf(t)
        BY <4>1, <4>2 DEF UseFacts
      <4>4. \A u \in Txs : UseOf(u)' = UseOf(u)
        BY <1>1, <3>1, <4>3, SameUse DEF Status, Applied
      <4>5. QED BY <1>1, <4>4, KeepsUses
    <3>4. QED BY <3>2, <3>3
  <2>4. QED BY <2>1, <2>2, <2>3
<1>5. ASSUME NEW t \in Txs, ~Armed(t), Armed(t)', \A u \in Txs : Armed(u) => Armed(u)'
      PROVE  [OneShot!Next]_(OneShot!updateVars)
  <2>1. marker' = t /\ disk = t /\ marker # t
    BY <1>1, <1>2, <1>5 DEF Armed
  <2>2. unit = t /\ Status(t) = "staged"
    BY <2>1 DEF RInv, MarkerMeansReady, Status
  <2>3. marker \notin Txs
    BY <2>1, <2>2 DEF RInv, MarkerMeansReady
  <2>4. proc.step \notin ExecSteps
    <3> SUFFICES ASSUME proc.step \in ExecSteps PROVE FALSE
      OBVIOUS
    <3>1. x \in Txs /\ Armed(x)
      BY DEF RInv, ExecInv, Armed
    <3>2. PICK u \in Txs : u = x
      BY <3>1
    <3>3. Armed(u)
      BY <3>1, <3>2
    <3>4. marker' = u
      BY <1>2, <1>5, <3>3
    <3>5. QED BY <1>5, <2>1, <3>3, <3>4
  <2>5. QED BY <1>1, <1>5, <2>1, <2>2, <2>3, <2>4, Arms
<1>6. QED BY <1>3, <1>4, <1>5

(* Boots and the other programs on the target.                             *)
LEMMA OthersRefine ==
    RInv /\ RInv' /\ (Boot \/ PackagesChange \/ OtherStages \/ OtherUpdates \/ UNCHANGED vars)
    => [OneShot!Next]_(OneShot!updateVars)
<1> SUFFICES ASSUME RInv, RInv', Boot \/ PackagesChange \/ OtherStages \/ OtherUpdates \/ UNCHANGED vars
             PROVE  [OneShot!Next]_(OneShot!updateVars)
  OBVIOUS
<1>1. packages' \in {packages, Damaged} /\ proc' = proc
  BY DEF Boot, PackagesChange, OtherStages, OtherUpdates, vars
<1>2. \A u \in Txs : Armed(u)' <=> Armed(u)
  BY <1>1 DEF Boot, PackagesChange, OtherStages, OtherUpdates, vars, Armed, x
<1>3. \A u \in Txs : Status(u)' = Status(u) /\ Applied(u)' = Applied(u)
  BY Boots, TypeParts DEF Boot, PackagesChange, OtherStages, OtherUpdates, vars, Status, Applied, RInv
<1>4. QED BY <1>1, <1>2, <1>3, SameUse, KeepsUses

(* The replay implements the one-shot update: a transaction is started at  *)
(* most once and installed on top of exactly its baseline, and none is     *)
(* armed behind one whose outcome is open (offline.py as a whole).         *)
THEOREM ReplayImplementsOneShot == Spec => ImplementsOneShot
<1>1. Init => OneShot!Init
  <2> SUFFICES ASSUME Init PROVE OneShot!Init
    OBVIOUS
  <2>1. RInv /\ packages = Base
    BY ReplayInit DEF Init
  <2>2. \A t \in Txs : UseOf(t) = "ready"
    <3> SUFFICES ASSUME NEW t \in Txs PROVE UseOf(t) = "ready"
      OBVIOUS
    <3>1. Unstarted(t) /\ ~Armed(t)
      BY Programs DEF Init, Unstarted, Status, Armed, Idle, x
    <3>2. QED BY <2>1, <3>1, UseValues DEF RInv, UseFacts
  <2>3. QED BY <2>1, <2>2 DEF OneShot!Init
<1>2. RInv /\ RInv' /\ [Next]_vars => [OneShot!Next]_(OneShot!updateVars)
  BY StagingRefines, ExecWritesRefine, ExecOthersRefine, LossesRefine, OthersRefine DEF Next, ExecStep
<1>3. QED BY ReplayInvariant, <1>1, <1>2, PTL DEF Spec, ImplementsOneShot, OneShot!Spec
=============================================================================
