------------------------- MODULE HostReleaseProofs -------------------------
(***************************************************************************)
(* The safety properties of a release on the target, for any set of        *)
(* installer-owned files and any number of kills and losses of power; and  *)
(* at the end, those of the events that report how such releases ended.    *)
(* The two models share no variable.                                       *)
(***************************************************************************)
EXTENDS HostRelease, Maintenance, TLAPS

USE HostAssumption

(* NoProc is what a released lock leaves behind.                           *)
LEMMA NoProcFacts ==
    /\ NewJournal \in Journal /\ NewJournal.phase = "new" /\ NewJournal.sha = "none"
    /\ NoProc \in Process
    /\ NoProc.step = "none" /\ NoProc.mem = NewJournal
BY DEF NewJournal, NoProc, Process, Journal, Phases, Steps

(* Host.save changes single fields of the journal.                         *)
LEMMA JournalUpdates ==
    ASSUME NEW m \in Journal, NEW ph \in Phases
    PROVE  /\ [m EXCEPT !.phase = ph] \in Journal
           /\ \A b \in BOOLEAN: [m EXCEPT !.phase = ph, !.prevActive = b] \in Journal
           /\ \A n \in Nat: [m EXCEPT !.phase = ph, !.bootBefore = n] \in Journal
           /\ \A n \in Nat: [m EXCEPT !.phase = ph, !.runtimeBoot = n] \in Journal
           /\ \A s \in {"none", "partial", "full"}: [m EXCEPT !.phase = ph, !.sha = s] \in Journal
BY DEF Journal

LEMMA InitIInv == Init => IInv
<1> SUFFICES ASSUME Init PROVE IInv
  OBVIOUS
<1>a. prev \in SavedFiles /\ files \in [Paths -> {"old", "new"}]
  BY DEF Init, SavedFiles
<1>b. /\ replay \in [status: {"none", "armed", "complete", "failed"}, boot: Nat]
      /\ guard \in [timer: {"none", "armed", "read"}, mem: Journal]
      /\ active \in BOOLEAN /\ reboot \in BOOLEAN /\ everClosed \in BOOLEAN
  BY NoProcFacts DEF Init
<1>1. TypeOK
  BY <1>a, <1>b, NoProcFacts DEF Init, TypeOK
<1>2. LockInv /\ SavedInv /\ RestoreInv /\ BackupInv
  BY NoProcFacts DEF Init, LockInv, SavedInv, SavedBeforeChanged, RestoreInv, BackupInv, At, Staged,
       Runtime, PrePackage
<1>3. BootInv
  BY NoProcFacts DEF Init, BootInv, At, Staged, Runtime, PrePackage
<1> QED BY <1>1, <1>2, <1>3 DEF IInv

LEMMA NextIInv == IInv /\ [Next]_vars => IInv'
<1> SUFFICES ASSUME IInv, [Next]_vars PROVE IInv'
  OBVIOUS
<1>t. TypeOK /\ LockInv /\ SavedInv /\ RestoreInv /\ BackupInv /\ BootInv
  BY DEF IInv
<1> USE <1>t, NoProcFacts
<1>1. CASE RequestSnapshot
  <2> USE <1>1 DEF RequestSnapshot, Request, journalVars, systemVars, histVars
  <2>1. TypeOK'
    BY DEF TypeOK, Process, SavedFiles, Journal, Phases, PrePackage, Steps, At
  <2>2. LockInv'
    BY DEF TypeOK, Process, SavedFiles, Journal, LockInv, At, PrePackage
  <2>3. SavedInv'
    BY DEF TypeOK, Process, SavedFiles, Journal, LockInv, SavedInv, SavedBeforeChanged, At, PrePackage
  <2>4. RestoreInv'
    BY DEF TypeOK, Process, SavedFiles, Journal, LockInv, SavedInv, SavedBeforeChanged, RestoreInv, At,
         PrePackage
  <2>5. BackupInv'
    BY DEF TypeOK, Process, SavedFiles, Journal, LockInv, BackupInv, At, Staged, Runtime, PrePackage
  <2>6. BootInv'
    BY DEF TypeOK, Process, SavedFiles, Journal, LockInv, BootInv, At, Staged, Runtime, PrePackage
  <2> QED BY <2>1, <2>2, <2>3, <2>4, <2>5, <2>6 DEF IInv
<1>2. CASE RequestBackup
  <2> USE <1>2 DEF RequestBackup, Request, journalVars, systemVars, histVars
  <2>1. TypeOK'
    BY DEF TypeOK, Process, SavedFiles, Journal, Phases, PrePackage, Steps, At
  <2>2. LockInv'
    BY DEF TypeOK, Process, SavedFiles, Journal, LockInv, At, PrePackage
  <2>3. SavedInv'
    BY DEF TypeOK, Process, SavedFiles, Journal, LockInv, SavedInv, SavedBeforeChanged, At, PrePackage
  <2>4. RestoreInv'
    BY DEF TypeOK, Process, SavedFiles, Journal, LockInv, SavedInv, SavedBeforeChanged, RestoreInv, At,
         PrePackage
  <2>5. BackupInv'
    BY DEF TypeOK, Process, SavedFiles, Journal, LockInv, BackupInv, At, Staged, Runtime, PrePackage
  <2>6. BootInv'
    BY DEF TypeOK, Process, SavedFiles, Journal, LockInv, BootInv, At, Staged, Runtime, PrePackage
  <2> QED BY <2>1, <2>2, <2>3, <2>4, <2>5, <2>6 DEF IInv
<1>3. CASE RequestCredential
  <2> USE <1>3 DEF RequestCredential, Request, journalVars, systemVars, histVars
  <2>1. TypeOK'
    BY DEF TypeOK, Process, SavedFiles, Journal, Phases, PrePackage, Steps, At
  <2>2. LockInv'
    BY DEF TypeOK, Process, SavedFiles, Journal, LockInv, At, PrePackage
  <2>3. SavedInv'
    BY DEF TypeOK, Process, SavedFiles, Journal, LockInv, SavedInv, SavedBeforeChanged, At, PrePackage
  <2>4. RestoreInv'
    BY DEF TypeOK, Process, SavedFiles, Journal, LockInv, SavedInv, SavedBeforeChanged, RestoreInv, At,
         PrePackage
  <2>5. BackupInv'
    BY DEF TypeOK, Process, SavedFiles, Journal, LockInv, BackupInv, At, Staged, Runtime, PrePackage
  <2>6. BootInv'
    BY DEF TypeOK, Process, SavedFiles, Journal, LockInv, BootInv, At, Staged, Runtime, PrePackage
  <2> QED BY <2>1, <2>2, <2>3, <2>4, <2>5, <2>6 DEF IInv
<1>4. CASE RequestRollback
  <2> USE <1>4 DEF RequestRollback, Request, journalVars, systemVars, histVars
  <2>1. TypeOK'
    BY DEF TypeOK, Process, SavedFiles, Journal, Phases, PrePackage, Steps, At
  <2>2. LockInv'
    BY DEF TypeOK, Process, SavedFiles, Journal, LockInv, At, PrePackage
  <2>3. SavedInv'
    BY DEF TypeOK, Process, SavedFiles, Journal, LockInv, SavedInv, SavedBeforeChanged, At, PrePackage
  <2>4. RestoreInv'
    BY DEF TypeOK, Process, SavedFiles, Journal, LockInv, SavedInv, SavedBeforeChanged, RestoreInv, At,
         PrePackage
  <2>5. BackupInv'
    BY DEF TypeOK, Process, SavedFiles, Journal, LockInv, BackupInv, At, Staged, Runtime, PrePackage
  <2>6. BootInv'
    BY DEF TypeOK, Process, SavedFiles, Journal, LockInv, BootInv, At, Staged, Runtime, PrePackage
  <2> QED BY <2>1, <2>2, <2>3, <2>4, <2>5, <2>6 DEF IInv
<1>5. CASE AdvancePackages
  <2> USE <1>5 DEF AdvancePackages, journalVars, systemVars, histVars
  <2>j. j' \in Journal
    BY JournalUpdates DEF TypeOK, Process, Phases, PrePackage
  <2>p. proc' \in Process
    BY <2>j DEF TypeOK, Process, Steps
  <2>1. TypeOK'
    BY <2>j, <2>p DEF TypeOK
  <2>2. LockInv'
    BY DEF TypeOK, Process, SavedFiles, Journal, LockInv, At, PrePackage
  <2>3. SavedInv'
    BY DEF TypeOK, Process, SavedFiles, Journal, LockInv, SavedInv, SavedBeforeChanged, At, PrePackage
  <2>4. RestoreInv'
    BY DEF TypeOK, Process, SavedFiles, Journal, LockInv, SavedInv, SavedBeforeChanged, RestoreInv, At,
         PrePackage
  <2>5. BackupInv'
    BY DEF TypeOK, Process, SavedFiles, Journal, LockInv, BackupInv, At, Staged, Runtime, PrePackage
  <2>6. BootInv'
    BY DEF TypeOK, Process, SavedFiles, Journal, LockInv, BootInv, At, Staged, Runtime, PrePackage
  <2> QED BY <2>1, <2>2, <2>3, <2>4, <2>5, <2>6 DEF IInv
<1>6. CASE AdvanceAfterUpdate
  <2> USE <1>6 DEF AdvanceAfterUpdate, journalVars, systemVars, histVars
  <2>1. TypeOK'
    BY DEF TypeOK, Process, SavedFiles, Journal, Phases, PrePackage, Steps, At
  <2>2. LockInv'
    BY DEF TypeOK, Process, SavedFiles, Journal, LockInv, At, PrePackage
  <2>3. SavedInv'
    BY DEF TypeOK, Process, SavedFiles, Journal, LockInv, SavedInv, SavedBeforeChanged, At, PrePackage
  <2>4. RestoreInv'
    BY DEF TypeOK, Process, SavedFiles, Journal, LockInv, SavedInv, SavedBeforeChanged, RestoreInv, At,
         PrePackage
  <2>5. BackupInv'
    BY DEF TypeOK, Process, SavedFiles, Journal, LockInv, BackupInv, At, Staged, Runtime, PrePackage
  <2>6. BootInv'
    BY DEF TypeOK, Process, SavedFiles, Journal, LockInv, BootInv, At, Staged, Runtime, PrePackage
  <2> QED BY <2>1, <2>2, <2>3, <2>4, <2>5, <2>6 DEF IInv
<1>7. CASE AdvanceRuntime
  <2> USE <1>7 DEF AdvanceRuntime, journalVars, systemVars, histVars
  <2>1. TypeOK'
    BY DEF TypeOK, Process, SavedFiles, Journal, Phases, PrePackage, Steps, At
  <2>2. LockInv'
    BY DEF TypeOK, Process, SavedFiles, Journal, LockInv, At, PrePackage
  <2>3. SavedInv'
    BY DEF TypeOK, Process, SavedFiles, Journal, LockInv, SavedInv, SavedBeforeChanged, At, PrePackage
  <2>4. RestoreInv'
    BY DEF TypeOK, Process, SavedFiles, Journal, LockInv, SavedInv, SavedBeforeChanged, RestoreInv, At,
         PrePackage
  <2>5. BackupInv'
    BY DEF TypeOK, Process, SavedFiles, Journal, LockInv, BackupInv, At, Staged, Runtime, PrePackage
  <2>6. BootInv'
    BY DEF TypeOK, Process, SavedFiles, Journal, LockInv, BootInv, At, Staged, Runtime, PrePackage
  <2> QED BY <2>1, <2>2, <2>3, <2>4, <2>5, <2>6 DEF IInv
<1>8. ASSUME NEW sha \in {"none", "partial", "full"}, AcknowledgeBackup(sha) PROVE IInv'
  <2> USE <1>8 DEF AcknowledgeBackup, journalVars, systemVars, histVars
  <2>1. TypeOK'
    BY DEF TypeOK, Process, SavedFiles, Journal, Phases, PrePackage, Steps, At
  <2>2. LockInv'
    BY DEF TypeOK, Process, SavedFiles, Journal, LockInv, At, PrePackage
  <2>3. SavedInv'
    BY DEF TypeOK, Process, SavedFiles, Journal, LockInv, SavedInv, SavedBeforeChanged, At, PrePackage
  <2>4. RestoreInv'
    BY DEF TypeOK, Process, SavedFiles, Journal, LockInv, SavedInv, SavedBeforeChanged, RestoreInv, At,
         PrePackage
  <2>5. BackupInv'
    BY DEF TypeOK, Process, SavedFiles, Journal, LockInv, BackupInv, At, Staged, Runtime, PrePackage
  <2>6. BootInv'
    BY DEF TypeOK, Process, SavedFiles, Journal, LockInv, BootInv, At, Staged, Runtime, PrePackage
  <2> QED BY <2>1, <2>2, <2>3, <2>4, <2>5, <2>6 DEF IInv
<1>9. CASE CaptureMkdir
  <2> USE <1>9 DEF CaptureMkdir, Goto, journalVars, systemVars, histVars
  <2>p. proc' \in Process
    BY DEF TypeOK, Process, Steps
  <2>v. prev' \in SavedFiles
    BY DEF TypeOK, SavedFiles
  <2>1. TypeOK'
    BY <2>p, <2>v DEF TypeOK
  <2>2. LockInv'
    BY DEF TypeOK, Process, SavedFiles, Journal, LockInv, At, PrePackage
  <2>3. SavedInv'
    BY DEF TypeOK, Process, SavedFiles, Journal, LockInv, SavedInv, SavedBeforeChanged, At, PrePackage
  <2>4. RestoreInv'
    BY DEF TypeOK, Process, SavedFiles, Journal, LockInv, SavedInv, SavedBeforeChanged, RestoreInv, At,
         PrePackage
  <2>5. BackupInv'
    BY DEF TypeOK, Process, SavedFiles, Journal, LockInv, BackupInv, At, Staged, Runtime, PrePackage
  <2>6. BootInv'
    BY DEF TypeOK, Process, SavedFiles, Journal, LockInv, BootInv, At, Staged, Runtime, PrePackage
  <2> QED BY <2>1, <2>2, <2>3, <2>4, <2>5, <2>6 DEF IInv
<1>10. CASE CaptureCopy
  <2> USE <1>10 DEF CaptureCopy, Goto, journalVars, systemVars, histVars
  <2>1. TypeOK'
    BY DEF TypeOK, Process, SavedFiles, Journal, Phases, PrePackage, Steps, At
  <2>2. LockInv'
    BY DEF TypeOK, Process, SavedFiles, Journal, LockInv, At, PrePackage
  <2>3. SavedInv'
    BY DEF TypeOK, Process, SavedFiles, Journal, LockInv, SavedInv, SavedBeforeChanged, At, PrePackage
  <2>4. RestoreInv'
    BY DEF TypeOK, Process, SavedFiles, Journal, LockInv, SavedInv, SavedBeforeChanged, RestoreInv, At,
         PrePackage
  <2>5. BackupInv'
    BY DEF TypeOK, Process, SavedFiles, Journal, LockInv, BackupInv, At, Staged, Runtime, PrePackage
  <2>6. BootInv'
    BY DEF TypeOK, Process, SavedFiles, Journal, LockInv, BootInv, At, Staged, Runtime, PrePackage
  <2> QED BY <2>1, <2>2, <2>3, <2>4, <2>5, <2>6 DEF IInv
<1>11. CASE CaptureMark
  <2> USE <1>11 DEF CaptureMark, Goto, journalVars, systemVars, histVars
  <2>p. proc' \in Process
    BY DEF TypeOK, Process, Steps
  <2>v. prev' \in SavedFiles
    BY DEF TypeOK, SavedFiles
  <2>1. TypeOK'
    BY <2>p, <2>v DEF TypeOK
  <2>2. LockInv'
    BY DEF TypeOK, Process, SavedFiles, Journal, LockInv, At, PrePackage
  <2>c. prev'.complete /\ prev'.saved = prev.saved /\ prev'.made = prev.made
    BY DEF TypeOK, SavedFiles
  <2>m. prev.made
    BY DEF SavedInv, At
  <2>3. SavedInv'
    BY <2>c, <2>m DEF TypeOK, Process, SavedFiles, Journal, LockInv, SavedInv, SavedBeforeChanged, At,
         PrePackage
  <2>4. RestoreInv'
    BY DEF TypeOK, Process, SavedFiles, Journal, LockInv, SavedInv, SavedBeforeChanged, RestoreInv, At,
         PrePackage
  <2>5. BackupInv'
    BY DEF TypeOK, Process, SavedFiles, Journal, LockInv, BackupInv, At, Staged, Runtime, PrePackage
  <2>6. BootInv'
    BY DEF TypeOK, Process, SavedFiles, Journal, LockInv, BootInv, At, Staged, Runtime, PrePackage
  <2> QED BY <2>1, <2>2, <2>3, <2>4, <2>5, <2>6 DEF IInv
<1>12. CASE SnapshotJournal
  <2> USE <1>12 DEF SnapshotJournal, SaveGoto, Saved, journalVars, systemVars, histVars
  <2>j. j' \in Journal
    BY JournalUpdates DEF TypeOK, Process, Phases, PrePackage
  <2>p. proc' \in Process
    BY <2>j DEF TypeOK, Process, Steps
  <2>1. TypeOK'
    BY <2>j, <2>p DEF TypeOK
  <2>2. LockInv'
    BY DEF TypeOK, Process, SavedFiles, Journal, LockInv, At, PrePackage
  <2>3. SavedInv'
    BY DEF TypeOK, Process, SavedFiles, Journal, LockInv, SavedInv, SavedBeforeChanged, At, PrePackage
  <2>4. RestoreInv'
    BY DEF TypeOK, Process, SavedFiles, Journal, LockInv, SavedInv, SavedBeforeChanged, RestoreInv, At,
         PrePackage
  <2>5. BackupInv'
    BY DEF TypeOK, Process, SavedFiles, Journal, LockInv, BackupInv, At, Staged, Runtime, PrePackage
  <2>6. BootInv'
    BY DEF TypeOK, Process, SavedFiles, Journal, LockInv, BootInv, At, Staged, Runtime, PrePackage
  <2> QED BY <2>1, <2>2, <2>3, <2>4, <2>5, <2>6 DEF IInv
<1>13. CASE SnapshotArmGuard
  <2> USE <1>13 DEF SnapshotArmGuard, Goto, journalVars, systemVars, histVars
  <2>1. TypeOK'
    BY DEF TypeOK, Process, SavedFiles, Journal, Phases, PrePackage, Steps, At
  <2>2. LockInv'
    BY DEF TypeOK, Process, SavedFiles, Journal, LockInv, At, PrePackage
  <2>3. SavedInv'
    BY DEF TypeOK, Process, SavedFiles, Journal, LockInv, SavedInv, SavedBeforeChanged, At, PrePackage
  <2>4. RestoreInv'
    BY DEF TypeOK, Process, SavedFiles, Journal, LockInv, SavedInv, SavedBeforeChanged, RestoreInv, At,
         PrePackage
  <2>5. BackupInv'
    BY DEF TypeOK, Process, SavedFiles, Journal, LockInv, BackupInv, At, Staged, Runtime, PrePackage
  <2>6. BootInv'
    BY DEF TypeOK, Process, SavedFiles, Journal, LockInv, BootInv, At, Staged, Runtime, PrePackage
  <2> QED BY <2>1, <2>2, <2>3, <2>4, <2>5, <2>6 DEF IInv
<1>14. CASE SnapshotStop
  <2> USE <1>14 DEF SnapshotStop, Goto, journalVars, systemVars, histVars
  <2>p. proc' \in Process
    BY DEF TypeOK, Process, Steps
  <2>s. active' \in BOOLEAN
    BY DEF TypeOK
  <2>1. TypeOK'
    BY <2>p, <2>s DEF TypeOK
  <2>2. LockInv'
    BY DEF TypeOK, Process, SavedFiles, Journal, LockInv, At, PrePackage
  <2>3. SavedInv'
    BY DEF TypeOK, Process, SavedFiles, Journal, LockInv, SavedInv, SavedBeforeChanged, At, PrePackage
  <2>4. RestoreInv'
    BY DEF TypeOK, Process, SavedFiles, Journal, LockInv, SavedInv, SavedBeforeChanged, RestoreInv, At,
         PrePackage
  <2>5. BackupInv'
    BY DEF TypeOK, Process, SavedFiles, Journal, LockInv, BackupInv, At, Staged, Runtime, PrePackage
  <2>6. BootInv'
    BY DEF TypeOK, Process, SavedFiles, Journal, LockInv, BootInv, At, Staged, Runtime, PrePackage
  <2> QED BY <2>1, <2>2, <2>3, <2>4, <2>5, <2>6 DEF IInv
<1>15. CASE SnapshotTar
  <2> USE <1>15 DEF SnapshotTar, Goto, journalVars, systemVars, histVars
  <2>1. TypeOK'
    BY DEF TypeOK, Process, SavedFiles, Journal, Phases, PrePackage, Steps, At
  <2>2. LockInv'
    BY DEF TypeOK, Process, SavedFiles, Journal, LockInv, At, PrePackage
  <2>3. SavedInv'
    BY DEF TypeOK, Process, SavedFiles, Journal, LockInv, SavedInv, SavedBeforeChanged, At, PrePackage
  <2>4. RestoreInv'
    BY DEF TypeOK, Process, SavedFiles, Journal, LockInv, SavedInv, SavedBeforeChanged, RestoreInv, At,
         PrePackage
  <2>5. BackupInv'
    BY DEF TypeOK, Process, SavedFiles, Journal, LockInv, BackupInv, At, Staged, Runtime, PrePackage
  <2>6. BootInv'
    BY DEF TypeOK, Process, SavedFiles, Journal, LockInv, BootInv, At, Staged, Runtime, PrePackage
  <2> QED BY <2>1, <2>2, <2>3, <2>4, <2>5, <2>6 DEF IInv
<1>16. CASE SnapshotTarEnd
  <2> USE <1>16 DEF SnapshotTarEnd, Goto, journalVars, systemVars, histVars
  <2>1. TypeOK'
    BY DEF TypeOK, Process, SavedFiles, Journal, Phases, PrePackage, Steps, At
  <2>2. LockInv'
    BY DEF TypeOK, Process, SavedFiles, Journal, LockInv, At, PrePackage
  <2>3. SavedInv'
    BY DEF TypeOK, Process, SavedFiles, Journal, LockInv, SavedInv, SavedBeforeChanged, At, PrePackage
  <2>4. RestoreInv'
    BY DEF TypeOK, Process, SavedFiles, Journal, LockInv, SavedInv, SavedBeforeChanged, RestoreInv, At,
         PrePackage
  <2>5. BackupInv'
    BY DEF TypeOK, Process, SavedFiles, Journal, LockInv, BackupInv, At, Staged, Runtime, PrePackage
  <2>6. BootInv'
    BY DEF TypeOK, Process, SavedFiles, Journal, LockInv, BootInv, At, Staged, Runtime, PrePackage
  <2> QED BY <2>1, <2>2, <2>3, <2>4, <2>5, <2>6 DEF IInv
<1>17. CASE SnapshotReady
  <2> USE <1>17 DEF SnapshotReady, SaveRelease, Saved, Release, journalVars, systemVars, histVars
  <2>j. j' \in Journal
    BY JournalUpdates DEF TypeOK, Process, Phases, PrePackage
  <2>1. TypeOK'
    BY <2>j DEF TypeOK
  <2>2. LockInv'
    BY DEF TypeOK, Process, SavedFiles, Journal, LockInv, At, PrePackage
  <2>3. SavedInv'
    BY DEF TypeOK, Process, SavedFiles, Journal, LockInv, SavedInv, SavedBeforeChanged, At, PrePackage
  <2>4. RestoreInv'
    BY DEF TypeOK, Process, SavedFiles, Journal, LockInv, SavedInv, SavedBeforeChanged, RestoreInv, At,
         PrePackage
  <2>5. BackupInv'
    BY DEF TypeOK, Process, SavedFiles, Journal, LockInv, BackupInv, At, Staged, Runtime, PrePackage
  <2>6. BootInv'
    BY DEF TypeOK, Process, SavedFiles, Journal, LockInv, BootInv, At, Staged, Runtime, PrePackage
  <2> QED BY <2>1, <2>2, <2>3, <2>4, <2>5, <2>6 DEF IInv
<1>18. CASE StreamEnds
  <2> USE <1>18 DEF StreamEnds, Release, journalVars, systemVars, histVars
  <2>1. TypeOK'
    BY DEF TypeOK, Process, SavedFiles, Journal, Phases, PrePackage, Steps, At
  <2>2. LockInv'
    BY DEF TypeOK, Process, SavedFiles, Journal, LockInv, At, PrePackage
  <2>3. SavedInv'
    BY DEF TypeOK, Process, SavedFiles, Journal, LockInv, SavedInv, SavedBeforeChanged, At, PrePackage
  <2>4. RestoreInv'
    BY DEF TypeOK, Process, SavedFiles, Journal, LockInv, SavedInv, SavedBeforeChanged, RestoreInv, At,
         PrePackage
  <2>5. BackupInv'
    BY DEF TypeOK, Process, SavedFiles, Journal, LockInv, BackupInv, At, Staged, Runtime, PrePackage
  <2>6. BootInv'
    BY DEF TypeOK, Process, SavedFiles, Journal, LockInv, BootInv, At, Staged, Runtime, PrePackage
  <2> QED BY <2>1, <2>2, <2>3, <2>4, <2>5, <2>6 DEF IInv
<1>19. CASE CredentialWrite
  <2> USE <1>19 DEF CredentialWrite, Goto, journalVars, systemVars, histVars
  <2>1. TypeOK'
    BY DEF TypeOK, Process, SavedFiles, Journal, Phases, PrePackage, Steps, At
  <2>2. LockInv'
    BY DEF TypeOK, Process, SavedFiles, Journal, LockInv, At, PrePackage
  <2>3. SavedInv'
    BY DEF TypeOK, Process, SavedFiles, Journal, LockInv, SavedInv, SavedBeforeChanged, At, PrePackage
  <2>4. RestoreInv'
    BY DEF TypeOK, Process, SavedFiles, Journal, LockInv, SavedInv, SavedBeforeChanged, RestoreInv, At,
         PrePackage
  <2>5. BackupInv'
    BY DEF TypeOK, Process, SavedFiles, Journal, LockInv, BackupInv, At, Staged, Runtime, PrePackage
  <2>6. BootInv'
    BY DEF TypeOK, Process, SavedFiles, Journal, LockInv, BootInv, At, Staged, Runtime, PrePackage
  <2> QED BY <2>1, <2>2, <2>3, <2>4, <2>5, <2>6 DEF IInv
<1>20. CASE CredentialReady
  <2> USE <1>20 DEF CredentialReady, SaveRelease, Saved, Release, journalVars, systemVars, histVars
  <2>1. TypeOK'
    BY DEF TypeOK, Process, SavedFiles, Journal, Phases, PrePackage, Steps, At
  <2>2. LockInv'
    BY DEF TypeOK, Process, SavedFiles, Journal, LockInv, At, PrePackage
  <2>3. SavedInv'
    BY DEF TypeOK, Process, SavedFiles, Journal, LockInv, SavedInv, SavedBeforeChanged, At, PrePackage
  <2>4. RestoreInv'
    BY DEF TypeOK, Process, SavedFiles, Journal, LockInv, SavedInv, SavedBeforeChanged, RestoreInv, At,
         PrePackage
  <2>5. BackupInv'
    BY DEF TypeOK, Process, SavedFiles, Journal, LockInv, BackupInv, At, Staged, Runtime, PrePackage
  <2>6. BootInv'
    BY DEF TypeOK, Process, SavedFiles, Journal, LockInv, BootInv, At, Staged, Runtime, PrePackage
  <2> QED BY <2>1, <2>2, <2>3, <2>4, <2>5, <2>6 DEF IInv
<1>21. CASE StagePackages
  <2> USE <1>21 DEF StagePackages, Goto, journalVars, systemVars, histVars
  <2>1. TypeOK'
    BY DEF TypeOK, Process, SavedFiles, Journal, Phases, PrePackage, Steps, At
  <2>2. LockInv'
    BY DEF TypeOK, Process, SavedFiles, Journal, LockInv, At, PrePackage
  <2>3. SavedInv'
    BY DEF TypeOK, Process, SavedFiles, Journal, LockInv, SavedInv, SavedBeforeChanged, At, PrePackage
  <2>4. RestoreInv'
    BY DEF TypeOK, Process, SavedFiles, Journal, LockInv, SavedInv, SavedBeforeChanged, RestoreInv, At,
         PrePackage
  <2>5. BackupInv'
    BY DEF TypeOK, Process, SavedFiles, Journal, LockInv, BackupInv, At, Staged, Runtime, PrePackage
  <2>6. BootInv'
    BY DEF TypeOK, Process, SavedFiles, Journal, LockInv, BootInv, At, Staged, Runtime, PrePackage
  <2> QED BY <2>1, <2>2, <2>3, <2>4, <2>5, <2>6 DEF IInv
<1>22. CASE RebootPending
  <2> USE <1>22 DEF RebootPending, SaveGoto, Saved, journalVars, systemVars, histVars
  <2>j. j' \in Journal
    BY JournalUpdates DEF TypeOK, Process, Phases, PrePackage
  <2>p. proc' \in Process
    BY <2>j DEF TypeOK, Process, Steps
  <2>1. TypeOK'
    BY <2>j, <2>p DEF TypeOK
  <2>2. LockInv'
    BY DEF TypeOK, Process, SavedFiles, Journal, LockInv, At, PrePackage
  <2>3. SavedInv'
    BY DEF TypeOK, Process, SavedFiles, Journal, LockInv, SavedInv, SavedBeforeChanged, At, PrePackage
  <2>4. RestoreInv'
    BY DEF TypeOK, Process, SavedFiles, Journal, LockInv, SavedInv, SavedBeforeChanged, RestoreInv, At,
         PrePackage
  <2>5. BackupInv'
    BY DEF TypeOK, Process, SavedFiles, Journal, LockInv, BackupInv, At, Staged, Runtime, PrePackage
  <2>6. BootInv'
    BY DEF TypeOK, Process, SavedFiles, Journal, LockInv, BootInv, At, Staged, Runtime, PrePackage
  <2> QED BY <2>1, <2>2, <2>3, <2>4, <2>5, <2>6 DEF IInv
<1>23. CASE ScheduleReboot
  <2> USE <1>23 DEF ScheduleReboot, Release, journalVars, systemVars, histVars
  <2>1. TypeOK'
    BY DEF TypeOK, Process, SavedFiles, Journal, Phases, PrePackage, Steps, At
  <2>2. LockInv'
    BY DEF TypeOK, Process, SavedFiles, Journal, LockInv, At, PrePackage
  <2>3. SavedInv'
    BY DEF TypeOK, Process, SavedFiles, Journal, LockInv, SavedInv, SavedBeforeChanged, At, PrePackage
  <2>4. RestoreInv'
    BY DEF TypeOK, Process, SavedFiles, Journal, LockInv, SavedInv, SavedBeforeChanged, RestoreInv, At,
         PrePackage
  <2>5. BackupInv'
    BY DEF TypeOK, Process, SavedFiles, Journal, LockInv, BackupInv, At, Staged, Runtime, PrePackage
  <2>6. BootInv'
    BY DEF TypeOK, Process, SavedFiles, Journal, LockInv, BootInv, At, Staged, Runtime, PrePackage
  <2> QED BY <2>1, <2>2, <2>3, <2>4, <2>5, <2>6 DEF IInv
<1>24. ASSUME NEW p \in Paths, TrackPath(p) PROVE IInv'
  <2> USE <1>24 DEF TrackPath, journalVars, systemVars, histVars
  <2>p. proc' \in Process
    BY DEF TypeOK, Process, Steps
  <2>v. prev' \in SavedFiles
    BY DEF TypeOK, SavedFiles
  <2>1. TypeOK'
    BY <2>p, <2>v DEF TypeOK
  <2>2. LockInv'
    BY DEF TypeOK, Process, SavedFiles, Journal, LockInv, At, PrePackage
  <2>3. SavedInv'
    BY DEF TypeOK, Process, SavedFiles, Journal, LockInv, SavedInv, SavedBeforeChanged, At, PrePackage
  <2>4. RestoreInv'
    BY DEF TypeOK, Process, SavedFiles, Journal, LockInv, SavedInv, SavedBeforeChanged, RestoreInv, At,
         PrePackage
  <2>5. BackupInv'
    BY DEF TypeOK, Process, SavedFiles, Journal, LockInv, BackupInv, At, Staged, Runtime, PrePackage
  <2>6. BootInv'
    BY DEF TypeOK, Process, SavedFiles, Journal, LockInv, BootInv, At, Staged, Runtime, PrePackage
  <2> QED BY <2>1, <2>2, <2>3, <2>4, <2>5, <2>6 DEF IInv
<1>25. CASE WritePath
  <2> USE <1>25 DEF WritePath, Goto, journalVars, systemVars, histVars
  <2>1. TypeOK'
    BY DEF TypeOK, Process, SavedFiles, Journal, Phases, PrePackage, Steps, At
  <2>2. LockInv'
    BY DEF TypeOK, Process, SavedFiles, Journal, LockInv, At, PrePackage
  <2>3. SavedInv'
    BY DEF TypeOK, Process, SavedFiles, Journal, LockInv, SavedInv, SavedBeforeChanged, At, PrePackage
  <2>4. RestoreInv'
    BY DEF TypeOK, Process, SavedFiles, Journal, LockInv, SavedInv, SavedBeforeChanged, RestoreInv, At,
         PrePackage
  <2>5. BackupInv'
    BY DEF TypeOK, Process, SavedFiles, Journal, LockInv, BackupInv, At, Staged, Runtime, PrePackage
  <2>6. BootInv'
    BY DEF TypeOK, Process, SavedFiles, Journal, LockInv, BootInv, At, Staged, Runtime, PrePackage
  <2> QED BY <2>1, <2>2, <2>3, <2>4, <2>5, <2>6 DEF IInv
<1>26. CASE RuntimeInstalled
  <2> USE <1>26 DEF RuntimeInstalled, SaveGoto, Saved, journalVars, systemVars, histVars
  <2>j. j' \in Journal
    BY JournalUpdates DEF TypeOK, Process, Phases, PrePackage
  <2>p. proc' \in Process
    BY <2>j DEF TypeOK, Process, Steps
  <2>s. active' \in BOOLEAN
    BY DEF TypeOK
  <2>1. TypeOK'
    BY <2>j, <2>p, <2>s DEF TypeOK
  <2>2. LockInv'
    BY DEF TypeOK, Process, SavedFiles, Journal, LockInv, At, PrePackage
  <2>3. SavedInv'
    BY DEF TypeOK, Process, SavedFiles, Journal, LockInv, SavedInv, SavedBeforeChanged, At, PrePackage
  <2>4. RestoreInv'
    BY DEF TypeOK, Process, SavedFiles, Journal, LockInv, SavedInv, SavedBeforeChanged, RestoreInv, At,
         PrePackage
  <2>5. BackupInv'
    BY DEF TypeOK, Process, SavedFiles, Journal, LockInv, BackupInv, At, Staged, Runtime, PrePackage
  <2>6. BootInv'
    BY DEF TypeOK, Process, SavedFiles, Journal, LockInv, BootInv, At, Staged, Runtime, PrePackage
  <2> QED BY <2>1, <2>2, <2>3, <2>4, <2>5, <2>6 DEF IInv
<1>27. CASE Accept
  <2> USE <1>27 DEF Accept, Goto, journalVars, systemVars, histVars
  <2>1. TypeOK'
    BY DEF TypeOK, Process, SavedFiles, Journal, Phases, PrePackage, Steps, At
  <2>2. LockInv'
    BY DEF TypeOK, Process, SavedFiles, Journal, LockInv, At, PrePackage
  <2>3. SavedInv'
    BY DEF TypeOK, Process, SavedFiles, Journal, LockInv, SavedInv, SavedBeforeChanged, At, PrePackage
  <2>4. RestoreInv'
    BY DEF TypeOK, Process, SavedFiles, Journal, LockInv, SavedInv, SavedBeforeChanged, RestoreInv, At,
         PrePackage
  <2>5. BackupInv'
    BY DEF TypeOK, Process, SavedFiles, Journal, LockInv, BackupInv, At, Staged, Runtime, PrePackage
  <2>6. BootInv'
    BY DEF TypeOK, Process, SavedFiles, Journal, LockInv, BootInv, At, Staged, Runtime, PrePackage
  <2> QED BY <2>1, <2>2, <2>3, <2>4, <2>5, <2>6 DEF IInv
<1>28. CASE PersistenceReboot
  <2> USE <1>28 DEF PersistenceReboot, SaveGoto, Saved, journalVars, systemVars, histVars
  <2>j. j' \in Journal
    BY JournalUpdates DEF TypeOK, Process, Phases, PrePackage
  <2>p. proc' \in Process
    BY <2>j DEF TypeOK, Process, Steps
  <2>1. TypeOK'
    BY <2>j, <2>p DEF TypeOK
  <2>2. LockInv'
    BY DEF TypeOK, Process, SavedFiles, Journal, LockInv, At, PrePackage
  <2>3. SavedInv'
    BY DEF TypeOK, Process, SavedFiles, Journal, LockInv, SavedInv, SavedBeforeChanged, At, PrePackage
  <2>4. RestoreInv'
    BY DEF TypeOK, Process, SavedFiles, Journal, LockInv, SavedInv, SavedBeforeChanged, RestoreInv, At,
         PrePackage
  <2>5. BackupInv'
    BY DEF TypeOK, Process, SavedFiles, Journal, LockInv, BackupInv, At, Staged, Runtime, PrePackage
  <2>6. BootInv'
    BY DEF TypeOK, Process, SavedFiles, Journal, LockInv, BootInv, At, Staged, Runtime, PrePackage
  <2> QED BY <2>1, <2>2, <2>3, <2>4, <2>5, <2>6 DEF IInv
<1>29. CASE UnlinkSnapshot
  <2> USE <1>29 DEF UnlinkSnapshot, Goto, journalVars, systemVars, histVars
  <2>1. TypeOK'
    BY DEF TypeOK, Process, SavedFiles, Journal, Phases, PrePackage, Steps, At
  <2>2. LockInv'
    BY DEF TypeOK, Process, SavedFiles, Journal, LockInv, At, PrePackage
  <2>3. SavedInv'
    BY DEF TypeOK, Process, SavedFiles, Journal, LockInv, SavedInv, SavedBeforeChanged, At, PrePackage
  <2>4. RestoreInv'
    BY DEF TypeOK, Process, SavedFiles, Journal, LockInv, SavedInv, SavedBeforeChanged, RestoreInv, At,
         PrePackage
  <2>5. BackupInv'
    BY DEF TypeOK, Process, SavedFiles, Journal, LockInv, BackupInv, At, Staged, Runtime, PrePackage
  <2>6. BootInv'
    BY DEF TypeOK, Process, SavedFiles, Journal, LockInv, BootInv, At, Staged, Runtime, PrePackage
  <2> QED BY <2>1, <2>2, <2>3, <2>4, <2>5, <2>6 DEF IInv
<1>30. CASE Close
  <2> USE <1>30 DEF Close, SaveRelease, Saved, Release, journalVars, systemVars, histVars
  <2>1. TypeOK'
    BY DEF TypeOK, Process, SavedFiles, Journal, Phases, PrePackage, Steps, At
  <2>2. LockInv'
    BY DEF TypeOK, Process, SavedFiles, Journal, LockInv, At, PrePackage
  <2>3. SavedInv'
    BY DEF TypeOK, Process, SavedFiles, Journal, LockInv, SavedInv, SavedBeforeChanged, At, PrePackage
  <2>4. RestoreInv'
    BY DEF TypeOK, Process, SavedFiles, Journal, LockInv, SavedInv, SavedBeforeChanged, RestoreInv, At,
         PrePackage
  <2>5. BackupInv'
    BY DEF TypeOK, Process, SavedFiles, Journal, LockInv, BackupInv, At, Staged, Runtime, PrePackage
  <2>6. BootInv'
    BY DEF TypeOK, Process, SavedFiles, Journal, LockInv, BootInv, At, Staged, Runtime, PrePackage
  <2> QED BY <2>1, <2>2, <2>3, <2>4, <2>5, <2>6 DEF IInv
<1>31. CASE RuntimeFails
  <2> USE <1>31 DEF RuntimeFails, Goto, journalVars, systemVars, histVars
  <2>1. TypeOK'
    BY DEF TypeOK, Process, SavedFiles, Journal, Phases, PrePackage, Steps, At
  <2>2. LockInv'
    BY DEF TypeOK, Process, SavedFiles, Journal, LockInv, At, PrePackage
  <2>3. SavedInv'
    BY DEF TypeOK, Process, SavedFiles, Journal, LockInv, SavedInv, SavedBeforeChanged, At, PrePackage
  <2>4. RestoreInv'
    BY DEF TypeOK, Process, SavedFiles, Journal, LockInv, SavedInv, SavedBeforeChanged, RestoreInv, At,
         PrePackage
  <2>5. BackupInv'
    BY DEF TypeOK, Process, SavedFiles, Journal, LockInv, BackupInv, At, Staged, Runtime, PrePackage
  <2>6. BootInv'
    BY DEF TypeOK, Process, SavedFiles, Journal, LockInv, BootInv, At, Staged, Runtime, PrePackage
  <2> QED BY <2>1, <2>2, <2>3, <2>4, <2>5, <2>6 DEF IInv
<1>32. CASE RollbackStop
  <2> USE <1>32 DEF RollbackStop, SavedPaths, journalVars, systemVars, histVars
  <2>p. proc' \in Process
    BY DEF TypeOK, Process, Steps
  <2>s. active' \in BOOLEAN
    BY DEF TypeOK
  <2>1. TypeOK'
    BY <2>p, <2>s DEF TypeOK
  <2>2. LockInv'
    BY DEF TypeOK, Process, SavedFiles, Journal, LockInv, At, PrePackage
  <2>3. SavedInv'
    BY DEF TypeOK, Process, SavedFiles, Journal, LockInv, SavedInv, SavedBeforeChanged, At, PrePackage
  <2>4. RestoreInv'
    BY DEF TypeOK, Process, SavedFiles, Journal, LockInv, SavedInv, SavedBeforeChanged, RestoreInv, At,
         PrePackage
  <2>5. BackupInv'
    BY DEF TypeOK, Process, SavedFiles, Journal, LockInv, BackupInv, At, Staged, Runtime, PrePackage
  <2>6. BootInv'
    BY DEF TypeOK, Process, SavedFiles, Journal, LockInv, BootInv, At, Staged, Runtime, PrePackage
  <2> QED BY <2>1, <2>2, <2>3, <2>4, <2>5, <2>6 DEF IInv
<1>33. ASSUME NEW p \in Paths, RollbackRestore(p) PROVE IInv'
  <2> USE <1>33 DEF RollbackRestore, journalVars, systemVars, histVars
  <2>p. proc' \in Process
    BY DEF TypeOK, Process, Steps
  <2>f. prev.saved[p] = "old"
    BY DEF RestoreInv, At
  <2>1. TypeOK'
    BY <2>p, <2>f DEF TypeOK
  <2>2. LockInv'
    BY DEF TypeOK, Process, SavedFiles, Journal, LockInv, At, PrePackage
  <2>3. SavedInv'
    BY DEF TypeOK, Process, SavedFiles, Journal, LockInv, SavedInv, SavedBeforeChanged, At, PrePackage
  <2>4. RestoreInv'
    BY DEF TypeOK, Process, SavedFiles, Journal, LockInv, SavedInv, SavedBeforeChanged, RestoreInv, At,
         PrePackage
  <2>5. BackupInv'
    BY DEF TypeOK, Process, SavedFiles, Journal, LockInv, BackupInv, At, Staged, Runtime, PrePackage
  <2>6. BootInv'
    BY DEF TypeOK, Process, SavedFiles, Journal, LockInv, BootInv, At, Staged, Runtime, PrePackage
  <2> QED BY <2>1, <2>2, <2>3, <2>4, <2>5, <2>6 DEF IInv
<1>34. CASE RollbackDone
  <2> USE <1>34 DEF RollbackDone, SaveRelease, Saved, Release, journalVars, systemVars, histVars
  <2>1. TypeOK'
    BY DEF TypeOK, Process, SavedFiles, Journal, Phases, PrePackage, Steps, At
  <2>2. LockInv'
    BY DEF TypeOK, Process, SavedFiles, Journal, LockInv, At, PrePackage
  <2>3. SavedInv'
    BY DEF TypeOK, Process, SavedFiles, Journal, LockInv, SavedInv, SavedBeforeChanged, At, PrePackage
  <2>4. RestoreInv'
    BY DEF TypeOK, Process, SavedFiles, Journal, LockInv, SavedInv, SavedBeforeChanged, RestoreInv, At,
         PrePackage
  <2>5. BackupInv'
    BY DEF TypeOK, Process, SavedFiles, Journal, LockInv, BackupInv, At, Staged, Runtime, PrePackage
  <2>6. BootInv'
    BY DEF TypeOK, Process, SavedFiles, Journal, LockInv, BootInv, At, Staged, Runtime, PrePackage
  <2> QED BY <2>1, <2>2, <2>3, <2>4, <2>5, <2>6 DEF IInv
<1>35. CASE RollbackUnhealthy
  <2> USE <1>35 DEF RollbackUnhealthy, SaveRelease, Saved, Release, journalVars, systemVars, histVars
  <2>j. j' \in Journal
    BY JournalUpdates DEF TypeOK, Process, Phases, PrePackage
  <2>s. active' \in BOOLEAN
    BY DEF TypeOK, Process, Journal
  <2>1. TypeOK'
    BY <2>j, <2>s DEF TypeOK
  <2>2. LockInv'
    BY DEF TypeOK, Process, SavedFiles, Journal, LockInv, At, PrePackage
  <2>3. SavedInv'
    BY DEF TypeOK, Process, SavedFiles, Journal, LockInv, SavedInv, SavedBeforeChanged, At, PrePackage
  <2>4. RestoreInv'
    BY DEF TypeOK, Process, SavedFiles, Journal, LockInv, SavedInv, SavedBeforeChanged, RestoreInv, At,
         PrePackage
  <2>5. BackupInv'
    BY DEF TypeOK, Process, SavedFiles, Journal, LockInv, BackupInv, At, Staged, Runtime, PrePackage
  <2>6. BootInv'
    BY DEF TypeOK, Process, SavedFiles, Journal, LockInv, BootInv, At, Staged, Runtime, PrePackage
  <2> QED BY <2>1, <2>2, <2>3, <2>4, <2>5, <2>6 DEF IInv
<1>36. CASE GuardRead
  <2> USE <1>36 DEF GuardRead, journalVars, systemVars, histVars
  <2>1. TypeOK'
    BY DEF TypeOK, Process, SavedFiles, Journal, Phases, PrePackage, Steps, At
  <2>2. LockInv'
    BY DEF TypeOK, Process, SavedFiles, Journal, LockInv, At, PrePackage
  <2>3. SavedInv'
    BY DEF TypeOK, Process, SavedFiles, Journal, LockInv, SavedInv, SavedBeforeChanged, At, PrePackage
  <2>4. RestoreInv'
    BY DEF TypeOK, Process, SavedFiles, Journal, LockInv, SavedInv, SavedBeforeChanged, RestoreInv, At,
         PrePackage
  <2>5. BackupInv'
    BY DEF TypeOK, Process, SavedFiles, Journal, LockInv, BackupInv, At, Staged, Runtime, PrePackage
  <2>6. BootInv'
    BY DEF TypeOK, Process, SavedFiles, Journal, LockInv, BootInv, At, Staged, Runtime, PrePackage
  <2> QED BY <2>1, <2>2, <2>3, <2>4, <2>5, <2>6 DEF IInv
<1>37. CASE GuardRollback
  <2> USE <1>37 DEF GuardRollback, journalVars, systemVars, histVars
  <2>1. TypeOK'
    BY DEF TypeOK, Process, SavedFiles, Journal, Phases, PrePackage, Steps, At
  <2>2. LockInv'
    BY DEF TypeOK, Process, SavedFiles, Journal, LockInv, At, PrePackage
  <2>3. SavedInv'
    BY DEF TypeOK, Process, SavedFiles, Journal, LockInv, SavedInv, SavedBeforeChanged, At, PrePackage
  <2>4. RestoreInv'
    BY DEF TypeOK, Process, SavedFiles, Journal, LockInv, SavedInv, SavedBeforeChanged, RestoreInv, At,
         PrePackage
  <2>5. BackupInv'
    BY DEF TypeOK, Process, SavedFiles, Journal, LockInv, BackupInv, At, Staged, Runtime, PrePackage
  <2>6. BootInv'
    BY DEF TypeOK, Process, SavedFiles, Journal, LockInv, BootInv, At, Staged, Runtime, PrePackage
  <2> QED BY <2>1, <2>2, <2>3, <2>4, <2>5, <2>6 DEF IInv
<1>38. CASE GuardEnds
  <2> USE <1>38 DEF GuardEnds, journalVars, systemVars, histVars
  <2>1. TypeOK'
    BY DEF TypeOK, Process, SavedFiles, Journal, Phases, PrePackage, Steps, At
  <2>2. LockInv'
    BY DEF TypeOK, Process, SavedFiles, Journal, LockInv, At, PrePackage
  <2>3. SavedInv'
    BY DEF TypeOK, Process, SavedFiles, Journal, LockInv, SavedInv, SavedBeforeChanged, At, PrePackage
  <2>4. RestoreInv'
    BY DEF TypeOK, Process, SavedFiles, Journal, LockInv, SavedInv, SavedBeforeChanged, RestoreInv, At,
         PrePackage
  <2>5. BackupInv'
    BY DEF TypeOK, Process, SavedFiles, Journal, LockInv, BackupInv, At, Staged, Runtime, PrePackage
  <2>6. BootInv'
    BY DEF TypeOK, Process, SavedFiles, Journal, LockInv, BootInv, At, Staged, Runtime, PrePackage
  <2> QED BY <2>1, <2>2, <2>3, <2>4, <2>5, <2>6 DEF IInv
<1>39. CASE Die
  <2> USE <1>39 DEF Die, Release, journalVars, systemVars, histVars
  <2>1. TypeOK'
    BY DEF TypeOK, Process, SavedFiles, Journal, Phases, PrePackage, Steps, At
  <2>2. LockInv'
    BY DEF TypeOK, Process, SavedFiles, Journal, LockInv, At, PrePackage
  <2>3. SavedInv'
    BY DEF TypeOK, Process, SavedFiles, Journal, LockInv, SavedInv, SavedBeforeChanged, At, PrePackage
  <2>4. RestoreInv'
    BY DEF TypeOK, Process, SavedFiles, Journal, LockInv, SavedInv, SavedBeforeChanged, RestoreInv, At,
         PrePackage
  <2>5. BackupInv'
    BY DEF TypeOK, Process, SavedFiles, Journal, LockInv, BackupInv, At, Staged, Runtime, PrePackage
  <2>6. BootInv'
    BY DEF TypeOK, Process, SavedFiles, Journal, LockInv, BootInv, At, Staged, Runtime, PrePackage
  <2> QED BY <2>1, <2>2, <2>3, <2>4, <2>5, <2>6 DEF IInv
<1>40. CASE ScheduledReboot
  <2> USE <1>40 DEF ScheduledReboot, Restart, Release, journalVars, systemVars, histVars
  <2>s. active' \in BOOLEAN /\ reboot' \in BOOLEAN
    BY DEF TypeOK
  <2>g. /\ guard' \in [timer: {"none", "armed", "read"}, mem: Journal]
        /\ mode' \in {"normal", "update"} /\ boot' \in Nat
    BY DEF TypeOK
  <2>1. TypeOK'
    BY <2>s, <2>g DEF TypeOK
  <2>2. LockInv'
    BY DEF TypeOK, Process, SavedFiles, Journal, LockInv, At, PrePackage
  <2>3. SavedInv'
    BY DEF TypeOK, Process, SavedFiles, Journal, LockInv, SavedInv, SavedBeforeChanged, At, PrePackage
  <2>4. RestoreInv'
    BY DEF TypeOK, Process, SavedFiles, Journal, LockInv, SavedInv, SavedBeforeChanged, RestoreInv, At,
         PrePackage
  <2>5. BackupInv'
    BY DEF TypeOK, Process, SavedFiles, Journal, LockInv, BackupInv, At, Staged, Runtime, PrePackage
  <2>6. BootInv'
    BY DEF TypeOK, Process, SavedFiles, Journal, LockInv, BootInv, At, Staged, Runtime, PrePackage
  <2> QED BY <2>1, <2>2, <2>3, <2>4, <2>5, <2>6 DEF IInv
<1>41. CASE PowerLoss
  <2> USE <1>41 DEF PowerLoss, Restart, Release, journalVars, systemVars, histVars
  <2>s. active' \in BOOLEAN /\ reboot' \in BOOLEAN
    BY DEF TypeOK
  <2>g. /\ guard' \in [timer: {"none", "armed", "read"}, mem: Journal]
        /\ mode' \in {"normal", "update"} /\ boot' \in Nat
    BY DEF TypeOK
  <2>1. TypeOK'
    BY <2>s, <2>g DEF TypeOK
  <2>2. LockInv'
    BY DEF TypeOK, Process, SavedFiles, Journal, LockInv, At, PrePackage
  <2>3. SavedInv'
    BY DEF TypeOK, Process, SavedFiles, Journal, LockInv, SavedInv, SavedBeforeChanged, At, PrePackage
  <2>4. RestoreInv'
    BY DEF TypeOK, Process, SavedFiles, Journal, LockInv, SavedInv, SavedBeforeChanged, RestoreInv, At,
         PrePackage
  <2>5. BackupInv'
    BY DEF TypeOK, Process, SavedFiles, Journal, LockInv, BackupInv, At, Staged, Runtime, PrePackage
  <2>6. BootInv'
    BY DEF TypeOK, Process, SavedFiles, Journal, LockInv, BootInv, At, Staged, Runtime, PrePackage
  <2> QED BY <2>1, <2>2, <2>3, <2>4, <2>5, <2>6 DEF IInv
<1>42. CASE UpdateBoot
  <2> USE <1>42 DEF UpdateBoot, journalVars, systemVars, histVars
  <2>1. TypeOK'
    BY DEF TypeOK, Process, SavedFiles, Journal, Phases, PrePackage, Steps, At
  <2>2. LockInv'
    BY DEF TypeOK, Process, SavedFiles, Journal, LockInv, At, PrePackage
  <2>3. SavedInv'
    BY DEF TypeOK, Process, SavedFiles, Journal, LockInv, SavedInv, SavedBeforeChanged, At, PrePackage
  <2>4. RestoreInv'
    BY DEF TypeOK, Process, SavedFiles, Journal, LockInv, SavedInv, SavedBeforeChanged, RestoreInv, At,
         PrePackage
  <2>5. BackupInv'
    BY DEF BootInv, TypeOK, Process, SavedFiles, Journal, LockInv, BackupInv, At, Staged, Runtime, PrePackage
  <2>6. BootInv'
    BY DEF TypeOK, Process, SavedFiles, Journal, LockInv, BootInv, At, Staged, Runtime, PrePackage
  <2> QED BY <2>1, <2>2, <2>3, <2>4, <2>5, <2>6 DEF IInv
<1>43. CASE UNCHANGED vars
  <2> USE <1>43 DEF vars
  <2>1. TypeOK' /\ LockInv' /\ BackupInv'
    BY DEF TypeOK, LockInv, BackupInv, At
  <2>2. SavedInv' /\ RestoreInv' /\ BootInv'
    BY DEF SavedInv, SavedBeforeChanged, RestoreInv, BootInv, At
  <2> QED BY <2>1, <2>2 DEF IInv
<1> QED
  BY <1>1, <1>2, <1>3, <1>4, <1>5, <1>6, <1>7, <1>8, <1>9, <1>10, <1>11, <1>12, <1>13, <1>14, <1>15, <1>16,
       <1>17, <1>18, <1>19, <1>20, <1>21, <1>22, <1>23, <1>24, <1>25, <1>26, <1>27, <1>28, <1>29, <1>30, <1>31, <1>32, <1>33, <1>34, <1>35, <1>36, <1>37, <1>38, <1>39, <1>40, <1>41, <1>42, <1>43
  DEF Next, HostStep, SnapshotStep, AdvanceStep, RollbackStep, Advance

LEMMA SpecIInv == Spec => []IInv
BY InitIInv, NextIInv, PTL DEF Spec

(* The journal, the saved files, the process under the lock, the guard and *)
(* the machine's state always have their types.                            *)
THEOREM HostTypeOK == Spec => []TypeOK
<1>1. IInv => TypeOK
  BY DEF IInv
<1> QED BY <1>1, SpecIInv, PTL

(* capture_application and track_file save a file's old content before     *)
(* anything replaces it, across any number of kills and repeated installs. *)
THEOREM HostSavedBeforeChanged == Spec => []SavedBeforeChanged
<1>1. IInv => SavedBeforeChanged
  BY DEF IInv, SavedInv
<1> QED BY <1>1, SpecIInv, PTL

(* rollback writes "rolled-back" only after every changed file is back,    *)
(* the kept credential of a release that was once closed excepted.         *)
THEOREM HostRolledBackMeansRestored == Spec => []RolledBackMeansRestored
<1>1. IInv => RolledBackMeansRestored
  BY DEF IInv, RestoreInv, RolledBackMeansRestored
<1> QED BY <1>1, SpecIInv, PTL

(* advance closes a release only after a verified backup and three boots   *)
(* in order: the replay's, the installation's and the acceptance's.        *)
THEOREM HostClosedMeansProved == Spec => []ClosedMeansProved
<1>1. IInv => ClosedMeansProved
  BY DEF IInv, TypeOK, BackupInv, BootInv, Runtime, ClosedMeansProved
<1> QED BY <1>1, SpecIInv, PTL

(* No package is staged before the controller acknowledged a full backup.  *)
THEOREM HostBackupBeforePackages == Spec => []BackupBeforePackages
<1>1. IInv => BackupBeforePackages
  BY DEF IInv, TypeOK, Journal, BackupInv, BackupBeforePackages
<1> QED BY <1>1, SpecIInv, PTL

-----------------------------------------------------------------------------
(* The events of the maintenance service that runs the upgrades, and what  *)
(* they promise, for every set of releases and every bound of starts and   *)
(* of mishaps.  The invariant of the events becomes inductive with one     *)
(* conjunct more: what a run is about to say of a release is already true  *)
(* of it.                                                                  *)
WordIsTrue == main.says.outcome = "completed" => main.says.release \in closed

EventsInv == EventInv /\ WordIsTrue

HIDE HostAssumption
USE MaintenanceAssumption DEF EventInv, EventsInv

-----------------------------------------------------------------------------
(* The records of the event file and of the notifier, whose fields are     *)
(* Boolean: what an assignment of them leaves.                             *)
Latest == [now: Event \cup {NoEvent}, fresh: BOOLEAN]
Note == [step: {"idle", "send", "mark"}, latest: BOOLEAN, seen: BOOLEAN]

LEMMA LatestRecords ==
    ASSUME NEW w \in Event \cup {NoEvent}, NEW b \in BOOLEAN, NEW e \in Latest
    PROVE  /\ [now |-> w, fresh |-> b] \in Latest /\ [now |-> w, fresh |-> b].now = w
           /\ [e EXCEPT !.fresh = b] \in Latest /\ [e EXCEPT !.fresh = b].now = e.now
BY DEF Latest

LEMMA NoteRecords ==
    ASSUME NEW n \in Note, NEW s \in {"idle", "send", "mark"}, NEW a \in BOOLEAN, NEW b \in BOOLEAN
    PROVE  /\ [step |-> s, latest |-> a, seen |-> b] \in Note
           /\ [n EXCEPT !.latest = a, !.seen = b] \in Note
           /\ [n EXCEPT !.step = s, !.latest = a] \in Note
           /\ [n EXCEPT !.step = s] \in Note
           /\ n.latest \in BOOLEAN
BY DEF Note

LEMMA TruthValues == TRUE \in BOOLEAN /\ FALSE \in BOOLEAN
OBVIOUS

(* Whatever publish does, the latest event is the one that was to be       *)
(* published, and the records keep their type.                             *)
LEMMA PublishKeepsRecords ==
    ASSUME NEW w \in Event \cup {NoEvent}, event \in Latest, note \in Note,
         shown \in BOOLEAN, publish(w)
    PROVE  event'.now = w /\ event' \in Latest /\ note' \in Note /\ shown' \in BOOLEAN
<1>1. CASE event.now = w
  BY <1>1 DEF publish, delivery
<1>2. CASE event.now # w
  <2>1. /\ event' = [now |-> w, fresh |-> TRUE]
        /\ note' = [note EXCEPT !.latest = FALSE, !.seen = FALSE]
        /\ shown' = FALSE
    BY <1>2 DEF publish
  <2>2. event' \in Latest /\ event'.now = w
    BY <2>1, LatestRecords, TruthValues, Zenon
  <2>3. note' \in Note
    BY <2>1, NoteRecords, TruthValues, Zenon
  <2>4. QED BY <2>1, <2>2, <2>3
<1>3. QED BY <1>1, <1>2

(* The first state: nothing is said and nothing has failed.                *)
LEMMA MaintenanceInit == EventInit => EventsInv
<1>1. EventInit => EventTypeOK
  <2> SUFFICES ASSUME EventInit PROVE EventTypeOK
    OBVIOUS
  <2>1. event \in Latest
    <3>1. /\ NoEvent \in Event \cup {NoEvent}
          /\ event = [now |-> NoEvent, fresh |-> FALSE]
      BY DEF EventInit
    <3>2. [now |-> NoEvent, fresh |-> FALSE]
          \in [now: Event \cup {NoEvent}, fresh: BOOLEAN]
      BY <3>1, TruthValues, Zenon
    <3>3. QED BY <3>1, <3>2 DEF Latest
  <2>2. note \in Note
    BY TruthValues, Zenon DEF EventInit, Note
  <2>3. main \in [step: {"idle", "upgrade", "lock", "write"}, says: Event \cup {NoEvent}]
        /\ main.step = "idle"
    BY DEF EventInit, NoMain
  <2>4. open \in BOOLEAN /\ shown \in BOOLEAN
    BY TruthValues, Zenon DEF EventInit
  <2>5. /\ selected = None /\ unit = "idle" /\ eventLock = "none" /\ closed = {} /\ last = "none"
        /\ starts = 0 /\ mishaps = 0
    BY DEF EventInit
  <2>6. QED BY <2>1, <2>2, <2>3, <2>4, <2>5 DEF EventTypeOK, Latest, Note
<1>2. EventInit => CompletedIsTrue /\ FailureIsReported /\ WordIsTrue
  BY DEF EventInit, CompletedIsTrue, FailureIsReported, WordIsTrue, NoMain,
       NoEvent, Outcome
<1>3. QED BY <1>1, <1>2

(* Every outcome that a run writes has the type of an event.               *)
LEMMA OutcomesAreEvents ==
    ASSUME NEW o \in {"completed"} \cup Failing, NEW c \in Codes,
         NEW r \in Releases \cup {None}
    PROVE  /\ Outcome(o, c, r) \in Event
           /\ Outcome(o, c, r).outcome = o /\ Outcome(o, c, r).release = r
BY DEF Outcome, Event

(* The two words of a failure, and the event of no event at all.           *)
LEMMA FailuresDiffer ==
    /\ "completed" \notin Failing
    /\ NoEvent.outcome = "none" /\ NoEvent.release = None
    /\ \A c \in Codes : OutcomeOf(c) \in Failing
BY DEF Failing, NoEvent, Outcome, OutcomeOf

(* The world changes neither an event nor what is said of a release; the   *)
(* failure of the signer starts the unit.                                  *)
LEMMA WorldKeepsInv == EventsInv /\ World => EventsInv'
<1> SUFFICES ASSUME EventsInv, World PROVE EventsInv'
  OBVIOUS
<1>1. CASE Window
  BY <1>1 DEF Window, EventTypeOK, CompletedIsTrue, FailureIsReported, WordIsTrue,
       delivery
<1>2. CASE \E r \in Releases : Publishes(r)
  BY <1>2 DEF Publishes, EventTypeOK, CompletedIsTrue, FailureIsReported,
       WordIsTrue, delivery
<1>3. CASE SignerFails
  BY <1>3 DEF SignerFails, Started, Mishap, EventTypeOK, CompletedIsTrue,
       FailureIsReported, WordIsTrue,
     delivery, world
<1>4. CASE Age
  <2>1. event' \in Latest /\ event'.now = event.now
    <3>1. event \in Latest /\ event' = [event EXCEPT !.fresh = FALSE]
      BY <1>4 DEF Age, EventTypeOK, Latest
    <3>2. event.now \in Event \cup {NoEvent}
      BY <3>1 DEF Latest
    <3>3. QED BY <3>1, <3>2, LatestRecords, TruthValues, Zenon
  <2>2. UNCHANGED <<world, main, unit, eventLock, delivery, closed, last, starts, mishaps>>
    BY <1>4 DEF Age
  <2>3. QED BY <2>1, <2>2
    DEF Latest, EventTypeOK, CompletedIsTrue, FailureIsReported, WordIsTrue,
         delivery, world
<1>5. QED BY <1>1, <1>2, <1>3, <1>4 DEF World

(* The maintenance run up to the lock: it says completed only of a release *)
(* that it has just closed.                                                *)
LEMMA UpgradeKeepsInv ==
    EventsInv /\ (\/ MainStart \/ Errs
                  \/ \E r \in Releases : Closed(r)
                  \/ \E c \in Codes \ {0} : Failed(c))
    => EventsInv'
<1> USE FailuresDiffer
<1>1. EventsInv /\ MainStart => EventsInv'
  <2> SUFFICES ASSUME EventsInv, MainStart PROVE EventsInv'
    OBVIOUS
  <2>1. main' = [step |-> "upgrade", says |-> NoEvent]
        \/ main' = [step |-> "lock", says |-> Outcome("action-required", 66, None)]
    BY DEF MainStart, Says
  <2>2. Outcome("action-required", 66, None) \in Event
        /\ Outcome("action-required", 66, None).outcome = "action-required"
    BY OutcomesAreEvents DEF Failing, Codes
  <2>3. QED BY <2>1, <2>2
    DEF MainStart, EventTypeOK, CompletedIsTrue, FailureIsReported, WordIsTrue,
         world, delivery
<1>2. ASSUME NEW r \in Releases, EventsInv, Closed(r) PROVE EventsInv'
  <2>1. Outcome("completed", 0, r) \in Event /\ Outcome("completed", 0, r).release = r
    BY OutcomesAreEvents DEF Codes
  <2>2. QED BY <1>2, <2>1
    DEF Closed, Says, EventTypeOK, CompletedIsTrue, FailureIsReported,
         WordIsTrue, world, delivery
<1>3. ASSUME NEW o \in Failing, NEW c \in Codes, EventsInv, main.step = "upgrade",
     Says(o, c, None),
             UNCHANGED <<world, unit, eventLock, event, delivery, closed, last, starts, mishaps>>
      PROVE  EventsInv'
  <2>1. Outcome(o, c, None) \in Event /\ Outcome(o, c, None).outcome = o
    <3>1. o \in {"completed"} \cup Failing /\ None \in Releases \cup {None}
      OBVIOUS
    <3>2. QED BY <3>1, OutcomesAreEvents
  <2>2. QED BY <1>3, <2>1
    DEF Says, EventTypeOK, CompletedIsTrue, FailureIsReported, WordIsTrue,
         world, delivery
<1>4. ASSUME NEW c \in Codes \ {0}, EventsInv, Failed(c) PROVE EventsInv'
  BY <1>3, <1>4 DEF Failed
<1>5. EventsInv /\ Errs => EventsInv'
  BY <1>3 DEF Errs, Failing, Codes
<1>6. QED BY <1>1, <1>2, <1>4, <1>5

(* The end of a run: it wrote what it said, or the unit is started.        *)
LEMMA EndKeepsInv == EventsInv /\ (MainKilled \/ MainLocks \/ MainWrites) => EventsInv'
<1> SUFFICES ASSUME EventsInv, MainKilled \/ MainLocks \/ MainWrites PROVE EventsInv'
  OBVIOUS
<1> USE FailuresDiffer
<1>1. CASE MainKilled
  BY <1>1 DEF MainKilled, MainEnds, Started, Mishap, NoMain,
       EventTypeOK, CompletedIsTrue, FailureIsReported,
     WordIsTrue, world, delivery
<1>2. CASE MainLocks
  BY <1>2 DEF MainLocks, MainEnds, Started, NoMain, EventTypeOK,
       CompletedIsTrue, FailureIsReported,
     WordIsTrue, world, delivery
<1>3. CASE MainWrites
  <2>1. event'.now = main.says /\ event' \in Latest /\ note' \in Note /\ shown' \in BOOLEAN
    <3>1. main.says \in Event \cup {NoEvent} /\ event \in Latest /\ note \in Note
         /\ shown \in BOOLEAN
      BY DEF EventTypeOK, Latest, Note
    <3>2. publish(main.says)
      BY <1>3 DEF MainWrites
    <3>3. QED BY <3>1, <3>2, PublishKeepsRecords
  <2>2. /\ main' = NoMain /\ eventLock' = "none" /\ closed' = closed
        /\ open' = open /\ selected' = selected /\ starts' = starts /\ mishaps' = mishaps
        /\ \/ main.says.outcome = "completed" /\ last' = "ok" /\ unit' = unit
           \/ last' = "failed" /\ unit' = Started(unit)
    BY <1>3 DEF MainWrites, MainEnds, world
  <2>3. main.step = "write" /\ eventLock = "main"
    BY <1>3 DEF MainWrites, EventTypeOK
  <2>4. EventTypeOK'
    BY <2>1, <2>2, <2>3 DEF EventTypeOK, NoMain, Started, Latest, Note
  <2>5. CompletedIsTrue' /\ WordIsTrue'
    BY <2>1, <2>2 DEF CompletedIsTrue, WordIsTrue, NoMain
  <2>6. FailureIsReported'
    BY <2>2 DEF FailureIsReported, Started
  <2>7. QED BY <2>4, <2>5, <2>6
<1>4. QED BY <1>1, <1>2, <1>3

(* The unit adds nothing to a recent failure, and gives way only to a run  *)
(* that is about to write; otherwise it writes a failure.                  *)
LEMMA UnitKeepsInv == EventsInv /\ Unit => EventsInv'
<1> SUFFICES ASSUME EventsInv, Unit PROVE EventsInv'
  OBVIOUS
<1> USE FailuresDiffer
<1>1. CASE UnitDecides
  BY <1>1 DEF UnitDecides, EventTypeOK, CompletedIsTrue, FailureIsReported,
       WordIsTrue, world, delivery
<1>2. CASE UnitLocks
  BY <1>2 DEF UnitLocks, EventTypeOK, CompletedIsTrue, FailureIsReported,
       WordIsTrue, world, delivery
<1>3. CASE UnitWrites
  <2> DEFINE word == Outcome("action-required", 69, None)
  <2>1. word \in Event /\ word.outcome = "action-required"
    BY OutcomesAreEvents DEF Failing, Codes
  <2> HIDE DEF word
  <2>2. event'.now = word /\ event' \in Latest /\ note' \in Note /\ shown' \in BOOLEAN
    <3>1. event \in Latest /\ note \in Note /\ shown \in BOOLEAN
      BY DEF EventTypeOK, Latest, Note
    <3>2. publish(word)
      BY <1>3 DEF UnitWrites, word
    <3>3. QED BY <2>1, <3>1, <3>2, PublishKeepsRecords
  <2>3. /\ main' = main /\ eventLock' = "none" /\ unit' = "idle" /\ closed' = closed /\ last' = last
        /\ open' = open /\ selected' = selected /\ starts' = starts /\ mishaps' = mishaps
    BY <1>3 DEF UnitWrites, world
  <2>4. unit = "write" /\ eventLock = "unit"
    BY <1>3 DEF UnitWrites, EventTypeOK
  <2>5. EventTypeOK'
    BY <2>2, <2>3, <2>4 DEF EventTypeOK, Latest, Note
  <2>6. CompletedIsTrue' /\ FailureIsReported' /\ WordIsTrue'
    BY <2>1, <2>2, <2>3 DEF CompletedIsTrue, FailureIsReported, WordIsTrue, Failing
  <2>7. QED BY <2>5, <2>6
<1>4. QED BY <1>1, <1>2, <1>3 DEF Unit

(* The notifier writes only its own file.                                  *)
LEMMA NotifierKeepsInv == EventsInv /\ (Notifier \/ NotifyFails) => EventsInv'
<1> SUFFICES ASSUME EventsInv, Notifier \/ NotifyFails PROVE EventsInv'
  OBVIOUS
<1>1. /\ UNCHANGED others
      /\ mishaps' \in 0..MaxMishaps
      /\ note' \in Note /\ shown' \in BOOLEAN
  <2>1. note \in Note /\ note.latest \in BOOLEAN /\ shown \in BOOLEAN /\ mishaps \in 0..MaxMishaps
    BY NoteRecords DEF EventTypeOK, Note
  <2>2. (NotifyReads \/ NotifySends \/ NotifyMarks \/ NotifyFails) =>
       note' \in Note
    <3>1. NotifyReads => note' \in Note
      BY <2>1, NoteRecords, TruthValues, Zenon DEF NotifyReads
    <3>2. NotifySends => note' \in Note
      BY <2>1, NoteRecords, TruthValues, Zenon DEF NotifySends
    <3>3. NotifyMarks => note' \in Note
      BY <2>1, NoteRecords, TruthValues, Zenon DEF NotifyMarks
    <3>4. NotifyFails => note' \in Note
      BY <2>1, NoteRecords, TruthValues, Zenon DEF NotifyFails
    <3>5. QED BY <3>1, <3>2, <3>3, <3>4
  <2>3. (NotifyReads \/ NotifySends \/ NotifyMarks \/ NotifyFails) =>
        UNCHANGED others /\ mishaps' \in 0..MaxMishaps
    BY <2>1 DEF NotifyReads, NotifySends, NotifyMarks, NotifyFails, Mishap
  <2>4. (NotifyReads \/ NotifySends \/ NotifyMarks \/ NotifyFails) =>
       shown' \in BOOLEAN
    BY <2>1, Zenon DEF NotifyReads, NotifySends, NotifyMarks, NotifyFails
  <2>5. QED BY <2>2, <2>3, <2>4 DEF Notifier
<1>2. QED BY <1>1
  DEF Note, EventTypeOK, CompletedIsTrue, FailureIsReported, WordIsTrue, others,
       world

(* A step of stuttering keeps everything.                                  *)
LEMMA MaintenanceStutters == EventsInv /\ UNCHANGED eventVars => EventsInv'
BY DEF EventTypeOK, CompletedIsTrue, FailureIsReported, WordIsTrue, eventVars,
     world, delivery

-----------------------------------------------------------------------------
(* The inductive invariant holds always.                                   *)
LEMMA MaintenanceInvariant == EventSpec => []EventsInv
<1>1. EventsInv /\ [EventNext]_eventVars => EventsInv'
  BY WorldKeepsInv, UpgradeKeepsInv, EndKeepsInv, UnitKeepsInv, NotifierKeepsInv, MaintenanceStutters
  DEF EventNext, Run
<1>2. QED BY MaintenanceInit, <1>1, PTL DEF EventSpec

(* The events of the maintenance service can be relied on: an event that   *)
(* says completed is about a release whose upgrade closed, and once the    *)
(* two units are quiet, the failure of the last run is the latest event    *)
(* (maintenance.py: execute, publish, main --service-failed).              *)
THEOREM MaintenanceEventInv == EventSpec => []EventInv
<1>1. EventsInv => EventInv
  OBVIOUS
<1>2. QED BY MaintenanceInvariant, <1>1, PTL
=============================================================================
