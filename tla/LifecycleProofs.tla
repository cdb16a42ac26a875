-------------------------- MODULE LifecycleProofs --------------------------
(***************************************************************************)
(* The lifecycle for every set of runs and grants, any number of           *)
(* maintenance dates and of failures: what a credential may still need is  *)
(* kept, what a finished run had is gone, a pass was earned, and no date   *)
(* is used twice.                                                          *)
(*                                                                         *)
(* LInv says of every run what its journal stands for, and of the process  *)
(* what it has established before each of its steps.  A step of a run      *)
(* changes nothing of another one (StepIsLocal), so that every action has  *)
(* to be looked at for its own run only.                                   *)
(***************************************************************************)
EXTENDS Lifecycle, TLAPS

Recorded(r) == journal[r].stage \notin {"none", "dir"}
Has(r, flag) == flag \in journal[r].done
NoCredential(r) == lease[r] \in {"none", "revoked"}
CleanFlags == Checkpoints \ {"pool_owned", "guest_ready", "scheduler_ready"}

(* What the journal and the fixture say of a run, whoever works on it.     *)
Untouched(r) ==
    /\ journal[r].done = {} /\ ~journal[r].certified
    /\ lease[r] = "none" /\ r \notin private /\ r \notin inputs
    /\ pool.owner # r /\ r # active

Cleaned(r) ==
    /\ NoCredential(r) /\ r \notin private /\ r \notin inputs
    /\ r = active => domain = "none"
    /\ pool.owner = r => ~Has(r, "pool_owned")
    /\ journal[r].stage = "complete" =>
         /\ journal[r].certified /\ ~journal[r].failure /\ lease[r] = "revoked"
         /\ {"credentials_cleaned", "guest_purged", "vm_destroyed"} \subseteq journal[r].done

(* What every checkpoint stands for, and what may exist without it.        *)
Checkpointed(r) ==
    /\ Has(r, "guest_ready") => Has(r, "pool_owned")
    /\ Has(r, "scheduler_ready") => Has(r, "guest_ready")
    /\ Has(r, "credentials_cleaned") => NoCredential(r)
    /\ Has(r, "domain_destroyed") =>
         /\ Has(r, "certifier_secrets_purged")
         /\ Has(r, "guest_ready") => Has(r, "guest_purged")
         /\ r = active => domain = "none"
    /\ Has(r, "vm_destroyed") => Has(r, "domain_destroyed") /\ pool.owner # r
    /\ journal[r].certified => Has(r, "scheduler_ready") /\ lease[r] = "revoked"
    /\ r \in inputs => Has(r, "pool_owned") /\ ~Has(r, "certifier_secrets_purged")
    /\ r = active /\ domain # "none" => Has(r, "pool_owned") /\ pool = [owner |-> r, marked |-> TRUE]

(* While a credential may exist, so does everything that retires it.       *)
Reachable(r) ==
    ~NoCredential(r) =>
        /\ r = active /\ journal[r].stage \notin Terminal
        /\ domain # "none" /\ pool = [owner |-> r, marked |-> TRUE]
        /\ r \in private /\ r \in inputs /\ Has(r, "scheduler_ready")

RunInv(r) ==
    /\ ~Recorded(r) => Untouched(r)
    /\ Recorded(r) /\ r # active => journal[r].stage \in Terminal
    /\ journal[r].stage \in Terminal => Cleaned(r)
    /\ Checkpointed(r)
    /\ Reachable(r)

(* The process works on the active run, which is not finished.             *)
ProcInv ==
    /\ active # NoRun => Recorded(active)
    /\ active = NoRun => domain = "none"
    /\ ~At("idle") => r0 \in Runs
    /\ At("record") => journal[r0].stage = "dir" /\ ~proc.cleanup /\ Settled
    /\ proc.step \notin {"idle", "record"} => r0 = active /\ journal[r0].stage \notin Terminal

(* Dates are used in order, and a scheduled run takes a new one.           *)
SlotInv ==
    /\ \A r \in Runs : Recorded(r) =>
         /\ active # NoRun /\ journal[r].slot <= journal[active].slot /\ journal[r].slot <= day
         /\ At("record") => journal[r].slot <= proc.slot /\ (r0 \notin Grants => journal[r].slot < proc.slot)
    /\ At("record") => proc.slot <= day
    /\ OneRunPerDate

-----------------------------------------------------------------------------
(* What a run has established before each of its steps.                    *)
Working == RunSteps \ {"record", "cleaning"}
Owned == Working \ {"preflight", "pool", "mark", "own"}
GuestUp == Owned \ {"install", "offline", "boot", "ready"}
Enrolling == {"scheduler", "approve", "enroll", "enrolled", "window", "certify", "name"} \cup ChildSteps
             \cup {"retire", "recheck", "evidence", "certified"}
BeforeLease == ProvisionSteps \cup {"name"}

ProvisionInv ==
    /\ proc.step \in Working => ~journal[r0].certified /\ done0 \cap CleanFlags = {}
    /\ proc.step \in Working \ {"preflight"} => r0 \in private
    /\ proc.step \in Working \ Owned => domain = "none"
    /\ At("mark") => pool = [owner |-> r0, marked |-> FALSE]
    /\ At("own") => pool = [owner |-> r0, marked |-> TRUE]
    /\ proc.step \in Owned => Has(r0, "pool_owned") /\ pool = [owner |-> r0, marked |-> TRUE]
    /\ proc.step \in Owned \ {"install"} => domain # "none"
    /\ proc.step \in GuestUp => Has(r0, "guest_ready")
    /\ proc.step \in Enrolling => r0 \in inputs
    /\ proc.step \in Enrolling \ {"scheduler"} => Has(r0, "scheduler_ready")

LeaseInv ==
    /\ proc.step \in BeforeLease => lease[r0] = "none"
    /\ At("issue") => lease[r0] = "named"
    /\ At("post") => lease[r0] \in {"issuing", "stuck", "live"}
    /\ proc.step \in {"accept", "coldOff"} => lease[r0] = "live"
    /\ proc.step \in {"retire", "recheck"} => lease[r0] # "none"
    /\ proc.step \in {"evidence", "certified"} => lease[r0] = "revoked"

(* What cleanup has established before each of its steps.                  *)
CleanInv ==
    /\ proc.step \in CleanSteps \ {"credentials"} =>
         NoCredential(r0) /\ (Has(r0, "scheduler_ready") => Has(r0, "credentials_cleaned"))
    /\ proc.step \in {"guestPurge", "secrets", "destroy", "gone"} => Has(r0, "pool_owned")
    /\ proc.step \in {"secrets", "destroy", "gone"} => (Has(r0, "guest_ready") => Has(r0, "guest_purged"))
    /\ proc.step \in {"destroy", "gone"} => Has(r0, "certifier_secrets_purged")
    /\ proc.step \in {"storage", "unlink", "rmdir", "purged"} => Has(r0, "domain_destroyed")
    /\ At("purged") => pool = NoPool
    /\ proc.step \in {"private", "close"} => (Has(r0, "pool_owned") => Has(r0, "vm_destroyed"))
    /\ At("close") => r0 \notin private

LInv ==
    /\ TypeOK
    /\ ProcInv
    /\ SlotInv
    /\ \A r \in Runs : RunInv(r)
    /\ ProvisionInv
    /\ LeaseInv
    /\ CleanInv

-----------------------------------------------------------------------------
StepInv == ProvisionInv /\ LeaseInv /\ CleanInv

(* A step of the process that works on r: it changes nothing of another    *)
(* run, and goes on with r or ends.                                        *)
Elsewhere(s) ==
    /\ journal'[s] = journal[s] /\ lease'[s] = lease[s]
    /\ s \in private' <=> s \in private
    /\ s \in inputs' <=> s \in inputs
    /\ pool'.owner = s => pool.owner = s
Goes(r) == /\ proc'.run = r /\ proc'.step \notin {"idle", "record"}
           /\ journal'[r].stage \notin Terminal
StepIsLocal(r) ==
    /\ active' = active /\ day' = day
    /\ \A s \in Runs \ {r} : Elsewhere(s)
    /\ journal'[r].slot = journal[r].slot /\ journal'[r].stage \notin {"none", "dir"}
    /\ proc'.step = "idle" \/ Goes(r)

(* A step of one run has to be looked at for that run only.                *)
LEMMA LocalSteps ==
    ASSUME LInv, NEW r \in Runs, r = active, StepIsLocal(r), TypeOK', RunInv(r)', StepInv'
    PROVE  LInv'
<1>1. \A s \in Runs : RunInv(s)'
  <2> SUFFICES ASSUME NEW s \in Runs, s # r PROVE RunInv(s)'
    OBVIOUS
  <2>1. RunInv(s) /\ Elsewhere(s) /\ s # active /\ s # active'
    BY DEF LInv, StepIsLocal
  <2>2. Recorded(s)' = Recorded(s)
    BY <2>1 DEF Recorded, Elsewhere
  <2>3. Checkpointed(s)'
    BY <2>1 DEF RunInv, Checkpointed, Elsewhere, NoCredential, Has
  <2>4. Reachable(s)'
    BY <2>1 DEF RunInv, Reachable, Elsewhere, NoCredential
  <2>5. QED
    BY <2>1, <2>2, <2>3, <2>4 DEF RunInv, Untouched, Cleaned, Elsewhere, NoCredential, Has
<1>2. ProcInv'
  BY LifecycleAssumption DEF LInv, ProcInv, StepIsLocal, Goes, At, Recorded, r0
<1>3. \A s \in Runs : Recorded(s)' => Recorded(s) /\ journal'[s].slot = journal[s].slot
  BY DEF LInv, ProcInv, StepIsLocal, Elsewhere, Recorded, RunInv, Untouched
<1>4. ~At("record")' /\ day' = day /\ active' = active
  BY DEF StepIsLocal, Goes, At
<1>5. SlotInv'
  <2>1. OneRunPerDate'
    BY <1>3 DEF LInv, SlotInv, OneRunPerDate, Recorded
  <2>2. journal'[active].slot = journal[active].slot
    BY DEF StepIsLocal
  <2>3. QED BY <1>3, <1>4, <2>1, <2>2 DEF LInv, SlotInv
<1>6. QED BY <1>1, <1>2, <1>5 DEF LInv, StepInv

Kept(r) == StepIsLocal(r) /\ TypeOK' /\ RunInv(r)' /\ StepInv'

(* The steps of the preparation that change no more than the domain.       *)
LEMMA ProvisionKeeps ==
    ASSUME LInv, NEW r \in Runs, r = active, r = proc.run, Provision(proc.step, proc'.step, domain'),
           proc.step \in Owned, proc'.step \in Owned, domain' \in {"off", "on", "torn"},
           proc'.step \in GuestUp => proc.step \in GuestUp,
           proc'.step \in Enrolling => proc.step \in Enrolling \ {"scheduler"},
           \/ proc.step \in BeforeLease /\ proc'.step \in BeforeLease
           \/ proc.step = "evidence" /\ proc'.step = "certified"
    PROVE  Kept(r)
<1>a. UNCHANGED <<journal, active, day, pool, private, inputs, lease>>
  BY DEF Provision, clock
<1>b. proc'.run = r
  BY DEF Provision, Goto, LInv, TypeOK, Process
<1>c. proc.step \notin {"idle", "record"} /\ proc'.step \notin {"idle", "record"}
  BY DEF Owned, Working, RunSteps, ProvisionSteps, ChildSteps
<1>d. journal[r].stage \notin Terminal /\ Recorded(r)
  BY <1>c DEF LInv, ProcInv, r0, At, RunInv, Untouched
<1>1. TypeOK'
  BY DEF Provision, LInv, TypeOK, Goto, Process, Owned, Working, RunSteps, clock
<1>2. StepIsLocal(r)
  BY <1>a, <1>b, <1>c, <1>d DEF StepIsLocal, Goes, Recorded, Elsewhere
<1>3. RunInv(r)'
  <2>1. /\ Has(r, "pool_owned") /\ pool = [owner |-> r, marked |-> TRUE]
        /\ ~Has(r, "domain_destroyed")
        /\ lease[r] # "none" => domain # "none"
    BY DEF LInv, ProvisionInv, LeaseInv, Owned, r0, done0, CleanFlags, Checkpoints, Has, BeforeLease, ProvisionSteps
  <2>2. Checkpointed(r)'
    BY <1>a, <2>1 DEF LInv, RunInv, Checkpointed, NoCredential, Has
  <2>3. Reachable(r)'
    BY <1>a, <2>1 DEF LInv, RunInv, Reachable, NoCredential, Has
  <2>4. QED BY <1>a, <1>d, <2>2, <2>3 DEF RunInv, Recorded
<1>4. StepInv'
  BY DEF Provision, LInv, StepInv, ProvisionInv, LeaseInv, CleanInv, At, Goto, TypeOK, Process, r0, done0, Has,
     NoCredential,
    Owned, Working, RunSteps, GuestUp, Enrolling, BeforeLease, ProvisionSteps, ChildSteps, CleanSteps
<1>5. QED BY <1>1, <1>2, <1>3, <1>4 DEF Kept

-----------------------------------------------------------------------------
AllSteps == RunSteps \cup CleanSteps \cup {"idle"}
SameRun(r) == proc'.run = r /\ proc'.cleanup = proc.cleanup /\ proc'.slot = proc.slot

(* What the process is after Goto and after End.                           *)
LEMMA Moves ==
    ASSUME TypeOK
    PROVE  /\ \A step \in AllSteps : Goto(step) => proc' \in Process /\ proc'.step = step /\ SameRun(proc.run)
           /\ End => proc' \in Process /\ proc'.step = "idle" /\ owed' \in BOOLEAN
           /\ Idle \in Process
<1>1. Idle \in Process
  BY LifecycleAssumption DEF Idle, Process
<1>2. \A step \in AllSteps : Goto(step) => proc' \in Process /\ proc'.step = step /\ SameRun(proc.run)
  BY DEF TypeOK, Goto, Process, AllSteps, SameRun
<1>3. End => proc' \in Process /\ proc'.step = "idle" /\ owed' \in BOOLEAN
  BY <1>1 DEF End, Idle, TypeOK, Process
<1>4. QED BY <1>1, <1>2, <1>3

(* The journal of r has changed in its stage, failure, verdict and flags.  *)
Rewritten(r, stage, failure, certified, done) ==
    /\ journal' \in [Runs -> Journal]
    /\ \A s \in Runs \ {r} : journal'[s] = journal[s]
    /\ journal'[r].slot = journal[r].slot
    /\ journal'[r].stage = stage /\ journal'[r].failure = failure
    /\ journal'[r].certified = certified /\ journal'[r].done = done

(* What the journal is after each kind of save.                            *)
LEMMA Saves ==
    ASSUME TypeOK, NEW r \in Runs, r = proc.run
    PROVE  /\ \A stage \in Stages : SaveStage(stage) =>
                 Rewritten(r, stage, journal[r].failure, journal[r].certified, journal[r].done)
           /\ \A flag \in Checkpoints :
                 Checkpoint(flag) => Rewritten(r, journal[r].stage, journal[r].failure, journal[r].certified,
                                               journal[r].done \cup {flag})
           /\ \A b \in BOOLEAN : journal' = [journal EXCEPT ![r].failure = b] =>
                 Rewritten(r, journal[r].stage, b, journal[r].certified, journal[r].done)
           /\ \A b \in BOOLEAN : journal' = [journal EXCEPT ![r].certified = b] =>
                 Rewritten(r, journal[r].stage, journal[r].failure, b, journal[r].done)
           /\ \A stage \in Stages, b \in BOOLEAN :
                 journal' = [journal EXCEPT ![r].stage = stage, ![r].failure = b] =>
                 Rewritten(r, stage, b, journal[r].certified, journal[r].done)
           /\ UNCHANGED journal => Rewritten(r, journal[r].stage, journal[r].failure, journal[r].certified,
                                             journal[r].done)
<1>1. \A stage \in Stages : SaveStage(stage) =>
         Rewritten(r, stage, journal[r].failure, journal[r].certified, journal[r].done)
  BY DEF SaveStage, TypeOK, Journal, Rewritten, r0
<1>2. \A flag \in Checkpoints : Checkpoint(flag) =>
         Rewritten(r, journal[r].stage, journal[r].failure, journal[r].certified, journal[r].done \cup {flag})
  BY DEF Checkpoint, TypeOK, Journal, Rewritten, r0
<1>3. \A b \in BOOLEAN : journal' = [journal EXCEPT ![r].failure = b] =>
         Rewritten(r, journal[r].stage, b, journal[r].certified, journal[r].done)
  BY DEF TypeOK, Journal, Rewritten
<1>4. \A b \in BOOLEAN : journal' = [journal EXCEPT ![r].certified = b] =>
         Rewritten(r, journal[r].stage, journal[r].failure, b, journal[r].done)
  BY DEF TypeOK, Journal, Rewritten
<1>5. UNCHANGED journal => Rewritten(r, journal[r].stage, journal[r].failure, journal[r].certified, journal[r].done)
  BY DEF TypeOK, Journal, Rewritten
<1>6. \A stage \in Stages, b \in BOOLEAN :
         journal' = [journal EXCEPT ![r].stage = stage, ![r].failure = b] =>
         Rewritten(r, stage, b, journal[r].certified, journal[r].done)
  BY DEF TypeOK, Journal, Rewritten
<1>7. QED BY <1>1, <1>2, <1>3, <1>4, <1>5, <1>6

(* An absent pool is of no run.                                            *)
LEMMA Absent == /\ NoPool \in [owner : Runs \cup {NoRun}, marked : BOOLEAN]
                /\ NoPool.owner \notin Runs
BY LifecycleAssumption DEF NoPool

(* A busy process works on the active run, which is recorded.              *)
LEMMA Here ==
    ASSUME LInv, proc.step \notin {"idle", "record"}
    PROVE  /\ TypeOK /\ proc.run \in Runs /\ proc.run = active
           /\ journal[active] \in Journal /\ journal[active].stage \notin Terminal
           /\ Recorded(active) /\ RunInv(active)
BY DEF LInv, TypeOK, ProcInv, At, r0, RunInv, Untouched

(* Up to the checkpoint that the pool is this run's.                       *)
LEMMA PoolSteps ==
    ASSUME LInv, NEW r \in Runs, r = proc.run, r = active,
           Preflight \/ PreflightRefused \/ MakePool \/ MarkPool \/ OwnPool
    PROVE  Kept(r)
<1> USE DEF LInv, At, r0, done0, Has, NoCredential, Working, Owned, GuestUp, Enrolling, BeforeLease, RunSteps,
            CleanSteps, ProvisionSteps, ChildSteps, CleanFlags, Checkpoints
<1>1. CASE Preflight
  <2>1. /\ At("preflight") /\ proc' \in Process /\ proc'.step = "pool" /\ SameRun(r)
        /\ Rewritten(r, "provisioning", journal[r].failure, journal[r].certified, journal[r].done)
        /\ private' = private \cup {r}
        /\ pool = NoPool
        /\ UNCHANGED <<active, day, open, valid, pool, domain, inputs, lease, owed, faults>>
    BY <1>1, Moves, Saves DEF Preflight, clock, fixture, AllSteps, Stages
  <2>2. TypeOK' /\ StepIsLocal(r)
    BY <2>1, Here, Absent DEF TypeOK, StepIsLocal, Elsewhere, Goes, Rewritten, SameRun, Recorded, Terminal, LeaseStates
  <2>3. RunInv(r)'
    BY <2>1, Here, Absent DEF RunInv, Rewritten, Recorded, Terminal, Checkpointed, Reachable, ProvisionInv, LeaseInv,
       CleanInv, Cleaned
  <2>4. StepInv'
    BY <2>1, Here, Absent DEF StepInv, Rewritten, SameRun, ProvisionInv, LeaseInv, CleanInv, RunInv, Checkpointed
  <2>5. QED BY <2>2, <2>3, <2>4 DEF Kept
<1>2. CASE PreflightRefused
  <2>1. /\ At("preflight") /\ proc' \in Process /\ proc'.step = "cleaning" /\ SameRun(r)
        /\ Rewritten(r, "provisioning", TRUE, journal[r].certified, journal[r].done)
        /\ UNCHANGED <<active, day, open, valid, pool, domain, private, inputs, lease, owed, faults>>
    BY <1>2, Moves, Saves DEF PreflightRefused, clock, fixture, AllSteps, Stages
  <2>2. TypeOK' /\ StepIsLocal(r)
    BY <2>1, Here, Absent DEF TypeOK, StepIsLocal, Elsewhere, Goes, Rewritten, SameRun, Recorded, Terminal, LeaseStates
  <2>3. RunInv(r)'
    BY <2>1, Here, Absent DEF RunInv, Rewritten, Recorded, Terminal, Checkpointed, Reachable, ProvisionInv, LeaseInv,
       CleanInv, Cleaned
  <2>4. StepInv'
    BY <2>1, Here, Absent DEF StepInv, Rewritten, SameRun, ProvisionInv, LeaseInv, CleanInv, RunInv, Checkpointed
  <2>5. QED BY <2>2, <2>3, <2>4 DEF Kept
<1>3. CASE MakePool
  <2>1. /\ At("pool") /\ proc' \in Process /\ proc'.step = "mark" /\ SameRun(r)
        /\ pool' = [owner |-> r, marked |-> FALSE]
        /\ UNCHANGED <<journal, active, day, open, valid, domain, private, inputs, lease, owed, faults>>
    BY <1>3, Moves, Saves DEF MakePool, clock, fixture, AllSteps, Stages
  <2>2. TypeOK' /\ StepIsLocal(r)
    BY <2>1, Here, Absent DEF TypeOK, StepIsLocal, Elsewhere, Goes, Rewritten, SameRun, Recorded, Terminal, LeaseStates
  <2>3. RunInv(r)'
    BY <2>1, Here, Absent DEF RunInv, Rewritten, Recorded, Terminal, Checkpointed, Reachable, ProvisionInv, LeaseInv,
       CleanInv, Cleaned
  <2>4. StepInv'
    BY <2>1, Here, Absent DEF StepInv, Rewritten, SameRun, ProvisionInv, LeaseInv, CleanInv, RunInv, Checkpointed
  <2>5. QED BY <2>2, <2>3, <2>4 DEF Kept
<1>4. CASE MarkPool
  <2>0. pool = [owner |-> r, marked |-> FALSE]
    BY <1>4 DEF MarkPool, ProvisionInv
  <2>1. /\ At("mark") /\ proc' \in Process /\ proc'.step = "own" /\ SameRun(r)
        /\ pool' = [owner |-> r, marked |-> TRUE]
        /\ UNCHANGED <<journal, active, day, open, valid, domain, private, inputs, lease, owed, faults>>
    BY <2>0, <1>4, Moves, Saves DEF MarkPool, clock, fixture, AllSteps, Stages
  <2>2. TypeOK' /\ StepIsLocal(r)
    BY <2>1, Here, Absent DEF TypeOK, StepIsLocal, Elsewhere, Goes, Rewritten, SameRun, Recorded, Terminal, LeaseStates
  <2>3. RunInv(r)'
    BY <2>1, Here, Absent DEF RunInv, Rewritten, Recorded, Terminal, Checkpointed, Reachable, ProvisionInv, LeaseInv,
       CleanInv, Cleaned
  <2>4. StepInv'
    BY <2>1, Here, Absent DEF StepInv, Rewritten, SameRun, ProvisionInv, LeaseInv, CleanInv, RunInv, Checkpointed
  <2>5. QED BY <2>2, <2>3, <2>4 DEF Kept
<1>5. CASE OwnPool
  <2>1. /\ At("own") /\ proc' \in Process /\ proc'.step = "install" /\ SameRun(r)
        /\ Rewritten(r, journal[r].stage, journal[r].failure, journal[r].certified, journal[r].done \cup {"pool_owned"})
        /\ UNCHANGED <<active, day, open, valid, pool, domain, private, inputs, lease, owed, faults>>
    BY <1>5, Moves, Saves DEF OwnPool, clock, fixture, AllSteps, Stages
  <2>2. TypeOK' /\ StepIsLocal(r)
    BY <2>1, Here, Absent DEF TypeOK, StepIsLocal, Elsewhere, Goes, Rewritten, SameRun, Recorded, Terminal, LeaseStates
  <2>3. RunInv(r)'
    BY <2>1, Here, Absent DEF RunInv, Rewritten, Recorded, Terminal, Checkpointed, Reachable, ProvisionInv, LeaseInv,
       CleanInv, Cleaned
  <2>4. StepInv'
    BY <2>1, Here, Absent DEF StepInv, Rewritten, SameRun, ProvisionInv, LeaseInv, CleanInv, RunInv, Checkpointed
  <2>5. QED BY <2>2, <2>3, <2>4 DEF Kept
<1> QED BY <1>1, <1>2, <1>3, <1>4, <1>5

(* The steps of which the journal shows nothing, and the fixture at most the domain.*)
DomainStep == \/ Install \/ OfflineEnrollment \/ FirstBoot \/ PowerOff \/ BootManager \/ Bootstrap \/ Store
              \/ CopyBaseline \/ Replay \/ Export \/ Download \/ SetAside \/ RestoreBaseline \/ Observe
              \/ ApproveCandidate \/ EnrollGuest \/ Evidence

(* All of them keep to their run.                                          *)
LEMMA DomainSteps ==
    ASSUME LInv, NEW r \in Runs, r = proc.run, r = active, DomainStep
    PROVE  Kept(r)
<1>1. /\ <<proc.step, proc'.step>> \in {
         <<"install", "offline">>, <<"offline", "boot">>, <<"boot", "ready">>, <<"manager", "managerOff">>,
         <<"managerOff", "bootstrap">>, <<"bootstrap", "store">>, <<"store", "copy">>, <<"copy", "replay">>,
         <<"replay", "export">>, <<"export", "download">>, <<"download", "aside">>, <<"aside", "restore">>,
         <<"restore", "observe">>, <<"observe", "inputs">>, <<"approve", "enroll">>, <<"enroll", "enrolled">>,
         <<"evidence", "certified">>}
      /\ Provision(proc.step, proc'.step, domain') /\ domain' \in {domain, "off", "on", "torn"}
      /\ proc.step = "install" => domain' = "off"
  BY DEF DomainStep, Install, OfflineEnrollment, FirstBoot, PowerOff, BootManager, Bootstrap, Store, CopyBaseline,
     Replay,
     Export, Download, SetAside, RestoreBaseline, Observe, ApproveCandidate, EnrollGuest, Evidence,
     Provision, Goto, LInv, TypeOK, Process, At
<1>2. /\ proc.step \in Owned /\ proc'.step \in Owned
      /\ proc'.step \in GuestUp => proc.step \in GuestUp
      /\ proc'.step \in Enrolling => proc.step \in Enrolling \ {"scheduler"}
      /\ \/ proc.step \in BeforeLease /\ proc'.step \in BeforeLease
         \/ proc.step = "evidence" /\ proc'.step = "certified"
  BY <1>1 DEF Owned, GuestUp, Enrolling, BeforeLease, Working, RunSteps, ProvisionSteps, ChildSteps
<1>3. domain' \in {"off", "on", "torn"}
  BY <1>1, <1>2 DEF LInv, TypeOK, ProvisionInv
<1>4. QED BY <1>1, <1>2, <1>3, ProvisionKeeps

(* The checkpoints of the preparation, and the looks at the window.         *)
LEMMA EnrollSteps ==
    ASSUME LInv, NEW r \in Runs, r = proc.run, r = active,
           GuestReady \/ MakeInputs \/ SchedulerReady \/ Enrolled \/ WindowCheck \/ StartCertifier
    PROVE  Kept(r)
<1> USE DEF LInv, At, r0, done0, Has, NoCredential, Working, Owned, GuestUp, Enrolling, BeforeLease, RunSteps,
            CleanSteps, ProvisionSteps, ChildSteps, CleanFlags, Checkpoints
<1>1. CASE GuestReady
  <2>1. /\ At("ready") /\ proc' \in Process /\ proc'.step = "manager" /\ SameRun(r)
        /\ Rewritten(r, journal[r].stage, journal[r].failure, journal[r].certified,
                     journal[r].done \cup {"guest_ready"})
        /\ UNCHANGED <<active, day, open, valid, pool, domain, private, inputs, lease, owed, faults>>
    BY <1>1, Moves, Saves DEF GuestReady, clock, fixture, AllSteps, Stages
  <2>2. TypeOK' /\ StepIsLocal(r)
    BY <2>1, Here, Absent DEF TypeOK, StepIsLocal, Elsewhere, Goes, Rewritten, SameRun, Recorded, Terminal, LeaseStates
  <2>3. RunInv(r)'
    BY <2>1, Here, Absent DEF RunInv, Rewritten, Recorded, Terminal, Checkpointed, Reachable, ProvisionInv, LeaseInv,
       CleanInv, Cleaned
  <2>4. StepInv'
    BY <2>1, Here, Absent DEF StepInv, Rewritten, SameRun, ProvisionInv, LeaseInv, CleanInv, RunInv, Checkpointed
  <2>5. QED BY <2>2, <2>3, <2>4 DEF Kept
<1>2. CASE MakeInputs
  <2>1. /\ At("inputs") /\ proc' \in Process /\ proc'.step = "scheduler" /\ SameRun(r)
        /\ inputs' = inputs \cup {r}
        /\ UNCHANGED <<journal, active, day, open, valid, pool, domain, private, lease, owed, faults>>
    BY <1>2, Moves, Saves DEF MakeInputs, clock, fixture, AllSteps, Stages
  <2>2. TypeOK' /\ StepIsLocal(r)
    BY <2>1, Here, Absent DEF TypeOK, StepIsLocal, Elsewhere, Goes, Rewritten, SameRun, Recorded, Terminal, LeaseStates
  <2>3. RunInv(r)'
    BY <2>1, Here, Absent DEF RunInv, Rewritten, Recorded, Terminal, Checkpointed, Reachable, ProvisionInv, LeaseInv,
       CleanInv, Cleaned
  <2>4. StepInv'
    BY <2>1, Here, Absent DEF StepInv, Rewritten, SameRun, ProvisionInv, LeaseInv, CleanInv, RunInv, Checkpointed
  <2>5. QED BY <2>2, <2>3, <2>4 DEF Kept
<1>3. CASE SchedulerReady
  <2>1. /\ At("scheduler") /\ proc' \in Process /\ proc'.step = "approve" /\ SameRun(r)
        /\ Rewritten(r, journal[r].stage, journal[r].failure, journal[r].certified,
                     journal[r].done \cup {"scheduler_ready"})
        /\ UNCHANGED <<active, day, open, valid, pool, domain, private, inputs, lease, owed, faults>>
    BY <1>3, Moves, Saves DEF SchedulerReady, clock, fixture, AllSteps, Stages
  <2>2. TypeOK' /\ StepIsLocal(r)
    BY <2>1, Here, Absent DEF TypeOK, StepIsLocal, Elsewhere, Goes, Rewritten, SameRun, Recorded, Terminal, LeaseStates
  <2>3. RunInv(r)'
    BY <2>1, Here, Absent DEF RunInv, Rewritten, Recorded, Terminal, Checkpointed, Reachable, ProvisionInv, LeaseInv,
       CleanInv, Cleaned
  <2>4. StepInv'
    BY <2>1, Here, Absent DEF StepInv, Rewritten, SameRun, ProvisionInv, LeaseInv, CleanInv, RunInv, Checkpointed
  <2>5. QED BY <2>2, <2>3, <2>4 DEF Kept
<1>4. CASE Enrolled
  <2>1. /\ At("enrolled") /\ proc' \in Process /\ proc'.step = "window" /\ SameRun(r)
        /\ Rewritten(r, "enrolled", journal[r].failure, journal[r].certified, journal[r].done)
        /\ UNCHANGED <<active, day, open, valid, pool, domain, private, inputs, lease, owed, faults>>
    BY <1>4, Moves, Saves DEF Enrolled, clock, fixture, AllSteps, Stages
  <2>2. TypeOK' /\ StepIsLocal(r)
    BY <2>1, Here, Absent DEF TypeOK, StepIsLocal, Elsewhere, Goes, Rewritten, SameRun, Recorded, Terminal, LeaseStates
  <2>3. RunInv(r)'
    BY <2>1, Here, Absent DEF RunInv, Rewritten, Recorded, Terminal, Checkpointed, Reachable, ProvisionInv, LeaseInv,
       CleanInv, Cleaned
  <2>4. StepInv'
    BY <2>1, Here, Absent DEF StepInv, Rewritten, SameRun, ProvisionInv, LeaseInv, CleanInv, RunInv, Checkpointed
  <2>5. QED BY <2>2, <2>3, <2>4 DEF Kept
<1>5. CASE WindowCheck /\ WindowHolds
  <2>1. /\ At("window") /\ proc' \in Process /\ proc'.step = "certify" /\ SameRun(r)
        /\ Rewritten(r, "certifying", journal[r].failure, journal[r].certified, journal[r].done)
        /\ UNCHANGED <<active, day, open, valid, pool, domain, private, inputs, lease, owed, faults>>
    BY <1>5, Moves, Saves DEF WindowCheck, clock, fixture, AllSteps, Stages
  <2>2. TypeOK' /\ StepIsLocal(r)
    BY <2>1, Here, Absent DEF TypeOK, StepIsLocal, Elsewhere, Goes, Rewritten, SameRun, Recorded, Terminal, LeaseStates
  <2>3. RunInv(r)'
    BY <2>1, Here, Absent DEF RunInv, Rewritten, Recorded, Terminal, Checkpointed, Reachable, ProvisionInv, LeaseInv,
       CleanInv, Cleaned
  <2>4. StepInv'
    BY <2>1, Here, Absent DEF StepInv, Rewritten, SameRun, ProvisionInv, LeaseInv, CleanInv, RunInv, Checkpointed
  <2>5. QED BY <2>2, <2>3, <2>4 DEF Kept
<1>6. CASE WindowCheck /\ ~WindowHolds
  <2>0. /\ proc' \in Process /\ proc'.step = "cleaning" /\ SameRun(r)
        /\ \E b \in BOOLEAN : Rewritten(r, journal[r].stage, b, journal[r].certified, journal[r].done)
    <3>1. PICK b \in BOOLEAN : proc' = [proc EXCEPT !.step = "cleaning", !.deferred = b]
      BY <1>6 DEF WindowCheck, r0
    <3> DEFINE granted == r \in Grants
    <3>a. journal' = [journal EXCEPT ![r].failure = granted]
      BY <1>6, Zenon DEF WindowCheck, r0
    <3>b. granted \in BOOLEAN
      OBVIOUS
    <3> HIDE DEF granted
    <3>2. PICK lost \in BOOLEAN : journal' = [journal EXCEPT ![r].failure = lost]
      BY <3>a, <3>b
    <3>3. proc' \in Process /\ proc'.step = "cleaning" /\ SameRun(r)
      BY <3>1 DEF LInv, TypeOK, Process, RunSteps, SameRun
    <3>4. QED BY <3>2, <3>3, Saves DEF LInv
  <2>1. /\ At("window") /\ proc' \in Process /\ proc'.step = "cleaning" /\ SameRun(r)
        /\ \E b \in BOOLEAN : Rewritten(r, journal[r].stage, b, journal[r].certified, journal[r].done)
        /\ UNCHANGED <<active, day, open, valid, pool, domain, private, inputs, lease, owed, faults>>
    BY <2>0, <1>6, Moves, Saves DEF WindowCheck, clock, fixture, AllSteps, Stages
  <2>2. TypeOK' /\ StepIsLocal(r)
    BY <2>1, Here, Absent DEF TypeOK, StepIsLocal, Elsewhere, Goes, Rewritten, SameRun, Recorded, Terminal, LeaseStates
  <2>3. RunInv(r)'
    BY <2>1, Here, Absent DEF RunInv, Rewritten, Recorded, Terminal, Checkpointed, Reachable, ProvisionInv, LeaseInv,
       CleanInv, Cleaned
  <2>4. StepInv'
    BY <2>1, Here, Absent DEF StepInv, Rewritten, SameRun, ProvisionInv, LeaseInv, CleanInv, RunInv, Checkpointed
  <2>5. QED BY <2>2, <2>3, <2>4 DEF Kept
<1>7. CASE StartCertifier /\ WindowHolds
  <2>1. /\ At("certify") /\ proc' \in Process /\ proc'.step = "name" /\ SameRun(r)
        /\ Rewritten(r, journal[r].stage, journal[r].failure, journal[r].certified, journal[r].done)
        /\ UNCHANGED <<active, day, open, valid, pool, domain, private, inputs, lease, owed, faults>>
    BY <1>7, Moves, Saves DEF StartCertifier, clock, fixture, AllSteps, Stages
  <2>2. TypeOK' /\ StepIsLocal(r)
    BY <2>1, Here, Absent DEF TypeOK, StepIsLocal, Elsewhere, Goes, Rewritten, SameRun, Recorded, Terminal, LeaseStates
  <2>3. RunInv(r)'
    BY <2>1, Here, Absent DEF RunInv, Rewritten, Recorded, Terminal, Checkpointed, Reachable, ProvisionInv, LeaseInv,
       CleanInv, Cleaned
  <2>4. StepInv'
    BY <2>1, Here, Absent DEF StepInv, Rewritten, SameRun, ProvisionInv, LeaseInv, CleanInv, RunInv, Checkpointed
  <2>5. QED BY <2>2, <2>3, <2>4 DEF Kept
<1>8. CASE StartCertifier /\ ~WindowHolds
  <2>1. /\ At("certify") /\ proc' \in Process /\ proc'.step = "cleaning" /\ SameRun(r)
        /\ Rewritten(r, journal[r].stage, TRUE, journal[r].certified, journal[r].done)
        /\ UNCHANGED <<active, day, open, valid, pool, domain, private, inputs, lease, owed, faults>>
    BY <1>8, Moves, Saves DEF StartCertifier, clock, fixture, AllSteps, Stages
  <2>2. TypeOK' /\ StepIsLocal(r)
    BY <2>1, Here, Absent DEF TypeOK, StepIsLocal, Elsewhere, Goes, Rewritten, SameRun, Recorded, Terminal, LeaseStates
  <2>3. RunInv(r)'
    BY <2>1, Here, Absent DEF RunInv, Rewritten, Recorded, Terminal, Checkpointed, Reachable, ProvisionInv, LeaseInv,
       CleanInv, Cleaned
  <2>4. StepInv'
    BY <2>1, Here, Absent DEF StepInv, Rewritten, SameRun, ProvisionInv, LeaseInv, CleanInv, RunInv, Checkpointed
  <2>5. QED BY <2>2, <2>3, <2>4 DEF Kept
<1> QED BY <1>1, <1>2, <1>3, <1>4, <1>5, <1>6, <1>7, <1>8

(* The certifier, from the name of the lease to its retirement.             *)
LEMMA LeaseSteps ==
    ASSUME LInv, NEW r \in Runs, r = proc.run, r = active,
           \/ NameLease \/ Issue \/ Deploy \/ ColdOff \/ ColdOn \/ Retire
           \/ Certified
    PROVE  Kept(r)
<1> USE DEF LInv, At, r0, done0, Has, NoCredential, Working, Owned, GuestUp, Enrolling, BeforeLease, RunSteps,
            CleanSteps, ProvisionSteps, ChildSteps, CleanFlags, Checkpoints
<1>1. CASE NameLease
  <2>1. /\ At("name") /\ proc' \in Process /\ proc'.step = "issue" /\ SameRun(r)
        /\ lease' = [lease EXCEPT ![r] = "named"] /\ lease'[r] = "named"
        /\ UNCHANGED <<journal, active, day, open, valid, pool, domain, private, inputs, owed, faults>>
    BY <1>1, Moves, Saves DEF NameLease, clock, fixture, AllSteps, Stages, TypeOK
  <2>2. TypeOK' /\ StepIsLocal(r)
    BY <2>1, Here, Absent DEF TypeOK, StepIsLocal, Elsewhere, Goes, Rewritten, SameRun, Recorded, Terminal, LeaseStates
  <2>3. RunInv(r)'
    BY <2>1, Here, Absent DEF RunInv, Rewritten, Recorded, Terminal, Checkpointed, Reachable, ProvisionInv, LeaseInv,
       CleanInv, Cleaned
  <2>4. StepInv'
    BY <2>1, Here, Absent DEF StepInv, Rewritten, SameRun, ProvisionInv, LeaseInv, CleanInv, RunInv, Checkpointed
  <2>5. QED BY <2>2, <2>3, <2>4 DEF Kept
<1>2. CASE Issue
  <2>1. /\ At("issue") /\ proc' \in Process /\ proc'.step = "post" /\ SameRun(r)
        /\ lease' = [lease EXCEPT ![r] = "issuing"] /\ lease'[r] = "issuing"
        /\ UNCHANGED <<journal, active, day, open, valid, pool, domain, private, inputs, owed, faults>>
    BY <1>2, Moves, Saves DEF Issue, clock, fixture, AllSteps, Stages, TypeOK
  <2>2. TypeOK' /\ StepIsLocal(r)
    BY <2>1, Here, Absent DEF TypeOK, StepIsLocal, Elsewhere, Goes, Rewritten, SameRun, Recorded, Terminal, LeaseStates
  <2>3. RunInv(r)'
    BY <2>1, Here, Absent DEF RunInv, Rewritten, Recorded, Terminal, Checkpointed, Reachable, ProvisionInv, LeaseInv,
       CleanInv, Cleaned
  <2>4. StepInv'
    BY <2>1, Here, Absent DEF StepInv, Rewritten, SameRun, ProvisionInv, LeaseInv, CleanInv, RunInv, Checkpointed
  <2>5. QED BY <2>2, <2>3, <2>4 DEF Kept
<1>3. CASE Deploy
  <2>1. /\ At("post") /\ proc' \in Process /\ proc'.step = "accept" /\ SameRun(r)
        /\ lease[r] = "live"
        /\ UNCHANGED <<journal, active, day, open, valid, pool, domain, private, inputs, lease, owed, faults>>
    BY <1>3, Moves, Saves DEF Deploy, clock, fixture, AllSteps, Stages
  <2>2. TypeOK' /\ StepIsLocal(r)
    BY <2>1, Here, Absent DEF TypeOK, StepIsLocal, Elsewhere, Goes, Rewritten, SameRun, Recorded, Terminal, LeaseStates
  <2>3. RunInv(r)'
    BY <2>1, Here, Absent DEF RunInv, Rewritten, Recorded, Terminal, Checkpointed, Reachable, ProvisionInv, LeaseInv,
       CleanInv, Cleaned
  <2>4. StepInv'
    BY <2>1, Here, Absent DEF StepInv, Rewritten, SameRun, ProvisionInv, LeaseInv, CleanInv, RunInv, Checkpointed
  <2>5. QED BY <2>2, <2>3, <2>4 DEF Kept
<1>4. CASE ColdOff
  <2>1. /\ At("accept") /\ proc' \in Process /\ proc'.step = "coldOff" /\ SameRun(r)
        /\ domain' = "off"
        /\ UNCHANGED <<journal, active, day, open, valid, pool, private, inputs, lease, owed, faults>>
    BY <1>4, Moves, Saves DEF ColdOff, clock, fixture, AllSteps, Stages
  <2>2. TypeOK' /\ StepIsLocal(r)
    BY <2>1, Here, Absent DEF TypeOK, StepIsLocal, Elsewhere, Goes, Rewritten, SameRun, Recorded, Terminal, LeaseStates
  <2>3. RunInv(r)'
    BY <2>1, Here, Absent DEF RunInv, Rewritten, Recorded, Terminal, Checkpointed, Reachable, ProvisionInv, LeaseInv,
       CleanInv, Cleaned
  <2>4. StepInv'
    BY <2>1, Here, Absent DEF StepInv, Rewritten, SameRun, ProvisionInv, LeaseInv, CleanInv, RunInv, Checkpointed
  <2>5. QED BY <2>2, <2>3, <2>4 DEF Kept
<1>5. CASE ColdOn
  <2>1. /\ At("coldOff") /\ proc' \in Process /\ proc'.step = "retire" /\ SameRun(r)
        /\ domain' = "on"
        /\ UNCHANGED <<journal, active, day, open, valid, pool, private, inputs, lease, owed, faults>>
    BY <1>5, Moves, Saves DEF ColdOn, clock, fixture, AllSteps, Stages
  <2>2. TypeOK' /\ StepIsLocal(r)
    BY <2>1, Here, Absent DEF TypeOK, StepIsLocal, Elsewhere, Goes, Rewritten, SameRun, Recorded, Terminal, LeaseStates
  <2>3. RunInv(r)'
    BY <2>1, Here, Absent DEF RunInv, Rewritten, Recorded, Terminal, Checkpointed, Reachable, ProvisionInv, LeaseInv,
       CleanInv, Cleaned
  <2>4. StepInv'
    BY <2>1, Here, Absent DEF StepInv, Rewritten, SameRun, ProvisionInv, LeaseInv, CleanInv, RunInv, Checkpointed
  <2>5. QED BY <2>2, <2>3, <2>4 DEF Kept
<1>6. CASE Retire
  <2>0. proc' \in Process /\ proc'.step = "recheck" /\ SameRun(r)
    <3>1. PICK b \in BOOLEAN : proc' = [proc EXCEPT !.step = "recheck", !.bad = b]
      BY <1>6 DEF Retire
    <3>2. QED BY <3>1 DEF LInv, TypeOK, Process, RunSteps, SameRun
  <2>1. /\ At("retire") /\ proc' \in Process /\ proc'.step = "recheck" /\ SameRun(r)
        /\ lease' = [lease EXCEPT ![r] = IF @ = "live" THEN "revoked" ELSE @]
        /\ UNCHANGED <<journal, active, day, open, valid, pool, domain, private, inputs, owed, faults>>
    BY <2>0, <1>6, Moves, Saves DEF Retire, clock, fixture, AllSteps, Stages, Revoke
  <2>2. TypeOK' /\ StepIsLocal(r)
    BY <2>1, Here, Absent DEF TypeOK, StepIsLocal, Elsewhere, Goes, Rewritten, SameRun, Recorded, Terminal, LeaseStates
  <2>3. RunInv(r)'
    BY <2>1, Here, Absent DEF RunInv, Rewritten, Recorded, Terminal, Checkpointed, Reachable, ProvisionInv, LeaseInv,
       CleanInv, Cleaned
  <2>4. StepInv'
    BY <2>1, Here, Absent DEF StepInv, Rewritten, SameRun, ProvisionInv, LeaseInv, CleanInv, RunInv, Checkpointed
  <2>5. QED BY <2>2, <2>3, <2>4 DEF Kept
<1>7. CASE Certified
  <2>1. /\ At("certified") /\ proc' \in Process /\ proc'.step = "cleaning" /\ SameRun(r)
        /\ Rewritten(r, journal[r].stage, journal[r].failure, TRUE, journal[r].done)
        /\ UNCHANGED <<active, day, open, valid, pool, domain, private, inputs, lease, owed, faults>>
    BY <1>7, Moves, Saves DEF Certified, clock, fixture, AllSteps, Stages
  <2>2. TypeOK' /\ StepIsLocal(r)
    BY <2>1, Here, Absent DEF TypeOK, StepIsLocal, Elsewhere, Goes, Rewritten, SameRun, Recorded, Terminal, LeaseStates
  <2>3. RunInv(r)'
    BY <2>1, Here, Absent DEF RunInv, Rewritten, Recorded, Terminal, Checkpointed, Reachable, ProvisionInv, LeaseInv,
       CleanInv, Cleaned
  <2>4. StepInv'
    BY <2>1, Here, Absent DEF StepInv, Rewritten, SameRun, ProvisionInv, LeaseInv, CleanInv, RunInv, Checkpointed
  <2>5. QED BY <2>2, <2>3, <2>4 DEF Kept
<1> QED BY <1>1, <1>2, <1>3, <1>4, <1>5, <1>6, <1>7

(* A revocation that stops changes the lease of its run only, and only one *)
(* that is live.                                                           *)
LEMMA Stopped ==
    ASSUME TypeOK, NEW r \in Runs, r = r0, RevokeStops
    PROVE  /\ lease' \in [Runs -> LeaseStates]
           /\ \A s \in Runs \ {r} : lease'[s] = lease[s]
           /\ lease'[r] = lease[r] \/ (lease[r] = "live" /\ lease'[r] \in {"lost", "revoked"})
BY DEF RevokeStops, TypeOK, LeaseStates

(* The scheduler's own cleanup, and the failures of the certifier and of   *)
(* the two revocations after it.                                           *)
LEMMA RecheckSteps ==
    ASSUME LInv, NEW r \in Runs, r = proc.run, r = active,
           Recheck \/ CertifierFails \/ RetireFails \/ RecheckFails
    PROVE  Kept(r)
<1> USE DEF LInv, At, r0, done0, Has, NoCredential, Working, Owned, GuestUp, Enrolling, BeforeLease, RunSteps,
            CleanSteps, ProvisionSteps, ChildSteps, CleanFlags, Checkpoints
<1>1. CASE Recheck /\ ~proc.bad /\ Reconciled
  <2>0. \E b \in BOOLEAN : Rewritten(r, journal[r].stage, b, journal[r].certified, journal[r].done)
    <3> DEFINE failed == ~(~proc.bad /\ Reconciled)
    <3>a. journal' = [journal EXCEPT ![r].failure = failed]
      BY <1>1, Zenon DEF Recheck, r0
    <3>b. failed \in BOOLEAN
      OBVIOUS
    <3> HIDE DEF failed
    <3>1. PICK b \in BOOLEAN : journal' = [journal EXCEPT ![r].failure = b]
      BY <3>a, <3>b
    <3>2. QED BY <3>1, Saves DEF LInv
  <2>1. /\ At("recheck") /\ proc' \in Process /\ proc'.step = "evidence" /\ SameRun(r)
        /\ \E b \in BOOLEAN : Rewritten(r, journal[r].stage, b, journal[r].certified, journal[r].done)
        /\ lease' = [lease EXCEPT ![r] = IF @ = "live" THEN "revoked" ELSE @]
        /\ lease'[r] = IF lease[r] = "live" THEN "revoked" ELSE lease[r]
        /\ lease[r] \in {"none", "live", "revoked"}
        /\ UNCHANGED <<active, day, open, valid, pool, domain, private, inputs, owed, faults>>
    BY <2>0, <1>1, Moves, Saves DEF Recheck, clock, fixture, AllSteps, Stages, Revoke, TypeOK, Reconciled
  <2>2. TypeOK' /\ StepIsLocal(r)
    BY <2>1, Here, Absent DEF TypeOK, StepIsLocal, Elsewhere, Goes, Rewritten, SameRun, Recorded, Terminal, LeaseStates
  <2>3. RunInv(r)'
    BY <2>1, Here, Absent DEF RunInv, Rewritten, Recorded, Terminal, Checkpointed, Reachable, ProvisionInv, LeaseInv,
       CleanInv, Cleaned
  <2>4. StepInv'
    BY <2>1, Here, Absent DEF StepInv, Rewritten, SameRun, ProvisionInv, LeaseInv, CleanInv, RunInv, Checkpointed
  <2>5. QED BY <2>2, <2>3, <2>4 DEF Kept
<1>2. CASE Recheck /\ ~(~proc.bad /\ Reconciled)
  <2>0. \E b \in BOOLEAN : Rewritten(r, journal[r].stage, b, journal[r].certified, journal[r].done)
    <3> DEFINE failed == ~(~proc.bad /\ Reconciled)
    <3>a. journal' = [journal EXCEPT ![r].failure = failed]
      BY <1>2, Zenon DEF Recheck, r0
    <3>b. failed \in BOOLEAN
      OBVIOUS
    <3> HIDE DEF failed
    <3>1. PICK b \in BOOLEAN : journal' = [journal EXCEPT ![r].failure = b]
      BY <3>a, <3>b
    <3>2. QED BY <3>1, Saves DEF LInv
  <2>1. /\ At("recheck") /\ proc' \in Process /\ proc'.step = "cleaning" /\ SameRun(r)
        /\ \E b \in BOOLEAN : Rewritten(r, journal[r].stage, b, journal[r].certified, journal[r].done)
        /\ lease' = [lease EXCEPT ![r] = IF @ = "live" THEN "revoked" ELSE @]
        /\ lease'[r] = IF lease[r] = "live" THEN "revoked" ELSE lease[r]
        /\ UNCHANGED <<active, day, open, valid, pool, domain, private, inputs, owed, faults>>
    BY <2>0, <1>2, Moves, Saves DEF Recheck, clock, fixture, AllSteps, Stages, Revoke, TypeOK
  <2>2. TypeOK' /\ StepIsLocal(r)
    BY <2>1, Here, Absent DEF TypeOK, StepIsLocal, Elsewhere, Goes, Rewritten, SameRun, Recorded, Terminal, LeaseStates
  <2>3. RunInv(r)'
    BY <2>1, Here, Absent DEF RunInv, Rewritten, Recorded, Terminal, Checkpointed, Reachable, ProvisionInv, LeaseInv,
       CleanInv, Cleaned
  <2>4. StepInv'
    BY <2>1, Here, Absent DEF StepInv, Rewritten, SameRun, ProvisionInv, LeaseInv, CleanInv, RunInv, Checkpointed
  <2>5. QED BY <2>2, <2>3, <2>4 DEF Kept
<1>3. CASE CertifierFails
  <2>0. proc' \in Process /\ proc'.step = "retire" /\ SameRun(r) /\ faults' \in 0..MaxFaults
    <3>1. faults' \in 0..MaxFaults
      BY <1>3, LifecycleAssumption DEF CertifierFails, Fault, LInv, TypeOK
    <3>2. PICK b \in BOOLEAN : proc' = [proc EXCEPT !.step = "retire", !.bad = b]
      BY <1>3 DEF CertifierFails
    <3>3. QED BY <3>1, <3>2 DEF LInv, TypeOK, Process, RunSteps, SameRun
  <2>1. /\ proc' \in Process /\ proc'.step = "retire" /\ SameRun(r)
        /\ faults' \in 0..MaxFaults
        /\ proc.step \in ChildSteps
        /\ UNCHANGED <<journal, active, day, open, valid, pool, domain, private, inputs, lease, owed>>
    BY <2>0, <1>3, Moves, Saves DEF CertifierFails, clock, fixture, AllSteps, Stages
  <2>2. TypeOK' /\ StepIsLocal(r)
    BY <2>1, Here, Absent DEF TypeOK, StepIsLocal, Elsewhere, Goes, Rewritten, SameRun, Recorded, Terminal, LeaseStates
  <2>3. RunInv(r)'
    BY <2>1, Here, Absent DEF RunInv, Rewritten, Recorded, Terminal, Checkpointed, Reachable, ProvisionInv, LeaseInv,
       CleanInv, Cleaned
  <2>4. StepInv'
    BY <2>1, Here, Absent DEF StepInv, Rewritten, SameRun, ProvisionInv, LeaseInv, CleanInv, RunInv, Checkpointed
  <2>5. QED BY <2>2, <2>3, <2>4 DEF Kept
<1>4. CASE RetireFails
  <2>0. proc' \in Process /\ proc'.step = "recheck" /\ SameRun(r) /\ faults' \in 0..MaxFaults
    <3>1. faults' \in 0..MaxFaults
      BY <1>4, LifecycleAssumption DEF RetireFails, Fault, LInv, TypeOK
    <3>2. proc' = [proc EXCEPT !.step = "recheck", !.bad = TRUE]
      BY <1>4 DEF RetireFails
    <3>3. QED BY <3>1, <3>2 DEF LInv, TypeOK, Process, RunSteps, SameRun
  <2>1. /\ At("retire") /\ proc' \in Process /\ proc'.step = "recheck" /\ SameRun(r)
        /\ faults' \in 0..MaxFaults
        /\ lease' \in [Runs -> LeaseStates]
        /\ \A s \in Runs \ {r} : lease'[s] = lease[s]
        /\ lease'[r] = lease[r] \/ (lease[r] = "live" /\ lease'[r] \in {"lost", "revoked"})
        /\ UNCHANGED <<journal, active, day, open, valid, pool, domain, private, inputs, owed>>
    BY <2>0, <1>4, Stopped DEF RetireFails, clock, fixture
  <2>2. TypeOK' /\ StepIsLocal(r)
    BY <2>1, Here, Absent DEF TypeOK, StepIsLocal, Elsewhere, Goes, Rewritten, SameRun, Recorded, Terminal, LeaseStates
  <2>3. RunInv(r)'
    BY <2>1, Here, Absent DEF RunInv, Rewritten, Recorded, Terminal, Checkpointed, Reachable, ProvisionInv, LeaseInv,
       CleanInv, Cleaned
  <2>4. StepInv'
    BY <2>1, Here, Absent DEF StepInv, Rewritten, SameRun, ProvisionInv, LeaseInv, CleanInv, RunInv, Checkpointed
  <2>5. QED BY <2>2, <2>3, <2>4 DEF Kept
<1>5. CASE RecheckFails
  <2>0. /\ Rewritten(r, journal[r].stage, TRUE, journal[r].certified, journal[r].done)
        /\ faults' \in 0..MaxFaults
    <3>1. faults' \in 0..MaxFaults
      BY <1>5, LifecycleAssumption DEF RecheckFails, Fault, LInv, TypeOK
    <3>2. QED BY <1>5, <3>1, Saves DEF RecheckFails, LInv
  <2>1. /\ At("recheck") /\ proc' \in Process /\ proc'.step = "cleaning" /\ SameRun(r)
        /\ Rewritten(r, journal[r].stage, TRUE, journal[r].certified, journal[r].done)
        /\ faults' \in 0..MaxFaults
        /\ lease' \in [Runs -> LeaseStates]
        /\ \A s \in Runs \ {r} : lease'[s] = lease[s]
        /\ lease'[r] = lease[r] \/ (lease[r] = "live" /\ lease'[r] \in {"lost", "revoked"})
        /\ UNCHANGED <<active, day, open, valid, pool, domain, private, inputs, owed>>
    BY <2>0, <1>5, Moves, Stopped DEF RecheckFails, clock, fixture, AllSteps
  <2>2. TypeOK' /\ StepIsLocal(r)
    BY <2>1, Here, Absent DEF TypeOK, StepIsLocal, Elsewhere, Goes, Rewritten, SameRun, Recorded, Terminal, LeaseStates
  <2>3. RunInv(r)'
    BY <2>1, Here, Absent DEF RunInv, Rewritten, Recorded, Terminal, Checkpointed, Reachable, ProvisionInv, LeaseInv,
       CleanInv, Cleaned
  <2>4. StepInv'
    BY <2>1, Here, Absent DEF StepInv, Rewritten, SameRun, ProvisionInv, LeaseInv, CleanInv, RunInv, Checkpointed
  <2>5. QED BY <2>2, <2>3, <2>4 DEF Kept
<1> QED BY <1>1, <1>2, <1>3, <1>4, <1>5

(* Cleanup: the credentials, and where to go on.                           *)
LEMMA CredentialSteps ==
    ASSUME LInv, NEW r \in Runs, r = proc.run, r = active,
           StartCleaning \/ CleanCredentials \/ Resume
    PROVE  Kept(r)
<1> USE DEF LInv, At, r0, done0, Has, NoCredential, Working, Owned, GuestUp, Enrolling, BeforeLease, RunSteps,
            CleanSteps, ProvisionSteps, ChildSteps, CleanFlags, Checkpoints
<1>1. CASE StartCleaning
  <2>1. /\ At("cleaning") /\ proc' \in Process /\ proc'.step = "credentials" /\ SameRun(r)
        /\ Rewritten(r, "cleaning", journal[r].failure, journal[r].certified, journal[r].done)
        /\ UNCHANGED <<active, day, open, valid, pool, domain, private, inputs, lease, owed, faults>>
    BY <1>1, Moves, Saves DEF StartCleaning, clock, fixture, AllSteps, Stages
  <2>2. TypeOK' /\ StepIsLocal(r)
    BY <2>1, Here, Absent DEF TypeOK, StepIsLocal, Elsewhere, Goes, Rewritten, SameRun, Recorded, Terminal, LeaseStates
  <2>3. RunInv(r)'
    BY <2>1, Here, Absent DEF RunInv, Rewritten, Recorded, Terminal, Checkpointed, Reachable, ProvisionInv, LeaseInv,
       CleanInv, Cleaned
  <2>4. StepInv'
    BY <2>1, Here, Absent DEF StepInv, Rewritten, SameRun, ProvisionInv, LeaseInv, CleanInv, RunInv, Checkpointed
  <2>5. QED BY <2>2, <2>3, <2>4 DEF Kept
<1>2. CASE CleanCredentials /\ ("scheduler_ready" \notin done0 \/ "credentials_cleaned" \in done0)
  <2>1. /\ At("credentials") /\ proc' \in Process /\ proc'.step = "resume" /\ SameRun(r)
        /\ Rewritten(r, journal[r].stage, journal[r].failure, journal[r].certified, journal[r].done)
        /\ ~Has(r, "scheduler_ready") \/ Has(r, "credentials_cleaned")
        /\ UNCHANGED <<active, day, open, valid, pool, domain, private, inputs, lease, owed, faults>>
    BY <1>2, Moves, Saves DEF CleanCredentials, clock, fixture, AllSteps, Stages
  <2>2. TypeOK' /\ StepIsLocal(r)
    BY <2>1, Here, Absent DEF TypeOK, StepIsLocal, Elsewhere, Goes, Rewritten, SameRun, Recorded, Terminal, LeaseStates
  <2>3. RunInv(r)'
    BY <2>1, Here, Absent DEF RunInv, Rewritten, Recorded, Terminal, Checkpointed, Reachable, ProvisionInv, LeaseInv,
       CleanInv, Cleaned
  <2>4. StepInv'
    BY <2>1, Here, Absent DEF StepInv, Rewritten, SameRun, ProvisionInv, LeaseInv, CleanInv, RunInv, Checkpointed,
       Reachable
  <2>5. QED BY <2>2, <2>3, <2>4 DEF Kept
<1>3. CASE CleanCredentials /\ ~("scheduler_ready" \notin done0 \/ "credentials_cleaned" \in done0) /\ Reconciled
  <2>1. /\ At("credentials") /\ proc' \in Process /\ proc'.step = "resume" /\ SameRun(r)
        /\ Rewritten(r, journal[r].stage, journal[r].failure, journal[r].certified,
                     journal[r].done \cup {"credentials_cleaned"})
        /\ lease' = [lease EXCEPT ![r] = IF @ = "live" THEN "revoked" ELSE @]
        /\ lease'[r] = IF lease[r] = "live" THEN "revoked" ELSE lease[r]
        /\ lease[r] \in {"none", "live", "revoked"}
        /\ UNCHANGED <<active, day, open, valid, pool, domain, private, inputs, owed, faults>>
    BY <1>3, Moves, Saves DEF CleanCredentials, clock, fixture, AllSteps, Stages, Revoke, Reconciled, TypeOK
  <2>2. TypeOK' /\ StepIsLocal(r)
    BY <2>1, Here, Absent DEF TypeOK, StepIsLocal, Elsewhere, Goes, Rewritten, SameRun, Recorded, Terminal, LeaseStates
  <2>3. RunInv(r)'
    BY <2>1, Here, Absent DEF RunInv, Rewritten, Recorded, Terminal, Checkpointed, Reachable, ProvisionInv, LeaseInv,
       CleanInv, Cleaned
  <2>4. StepInv'
    BY <2>1, Here, Absent DEF StepInv, Rewritten, SameRun, ProvisionInv, LeaseInv, CleanInv, RunInv, Checkpointed
  <2>5. QED BY <2>2, <2>3, <2>4 DEF Kept
<1>4. CASE CleanCredentials /\ ~("scheduler_ready" \notin done0 \/ "credentials_cleaned" \in done0) /\ ~Reconciled
  <2>1. /\ At("credentials") /\ proc' \in Process /\ proc'.step = "idle"
        /\ Rewritten(r, "cleanup-failed", journal[r].failure, journal[r].certified, journal[r].done)
        /\ lease' = [lease EXCEPT ![r] = IF @ = "live" THEN "revoked" ELSE @]
        /\ lease'[r] = IF lease[r] = "live" THEN "revoked" ELSE lease[r]
        /\ owed' \in BOOLEAN
        /\ UNCHANGED <<active, day, open, valid, pool, domain, private, inputs, faults>>
    BY <1>4, Moves, Saves DEF CleanCredentials, clock, fixture, AllSteps, Stages, Revoke, TypeOK
  <2>2. TypeOK' /\ StepIsLocal(r)
    BY <2>1, Here, Absent DEF TypeOK, StepIsLocal, Elsewhere, Goes, Rewritten, SameRun, Recorded, Terminal, LeaseStates
  <2>3. RunInv(r)'
    BY <2>1, Here, Absent DEF RunInv, Rewritten, Recorded, Terminal, Checkpointed, Reachable, ProvisionInv, LeaseInv,
       CleanInv, Cleaned
  <2>4. StepInv'
    BY <2>1, Here, Absent DEF StepInv, Rewritten, SameRun, ProvisionInv, LeaseInv, CleanInv, RunInv, Checkpointed
  <2>5. QED BY <2>2, <2>3, <2>4 DEF Kept
<1>5. CASE Resume /\ ("vm_destroyed" \in done0)
  <2>1. /\ At("resume") /\ proc' \in Process /\ proc'.step = "private" /\ SameRun(r)
        /\ Has(r, "vm_destroyed")
        /\ UNCHANGED <<journal, active, day, open, valid, pool, domain, private, inputs, lease, owed, faults>>
    BY <1>5, Moves, Saves DEF Resume, clock, fixture, AllSteps, Stages
  <2>2. TypeOK' /\ StepIsLocal(r)
    BY <2>1, Here, Absent DEF TypeOK, StepIsLocal, Elsewhere, Goes, Rewritten, SameRun, Recorded, Terminal, LeaseStates
  <2>3. RunInv(r)'
    BY <2>1, Here, Absent DEF RunInv, Rewritten, Recorded, Terminal, Checkpointed, Reachable, ProvisionInv, LeaseInv,
       CleanInv, Cleaned
  <2>4. StepInv'
    BY <2>1, Here, Absent DEF StepInv, Rewritten, SameRun, ProvisionInv, LeaseInv, CleanInv, RunInv, Checkpointed
  <2>5. QED BY <2>2, <2>3, <2>4 DEF Kept
<1>6. CASE Resume /\ ~("vm_destroyed" \in done0) /\ "domain_destroyed" \in done0
  <2>1. /\ At("resume") /\ proc' \in Process /\ proc'.step = "storage" /\ SameRun(r)
        /\ Has(r, "domain_destroyed")
        /\ UNCHANGED <<journal, active, day, open, valid, pool, domain, private, inputs, lease, owed, faults>>
    BY <1>6, Moves, Saves DEF Resume, clock, fixture, AllSteps, Stages
  <2>2. TypeOK' /\ StepIsLocal(r)
    BY <2>1, Here, Absent DEF TypeOK, StepIsLocal, Elsewhere, Goes, Rewritten, SameRun, Recorded, Terminal, LeaseStates
  <2>3. RunInv(r)'
    BY <2>1, Here, Absent DEF RunInv, Rewritten, Recorded, Terminal, Checkpointed, Reachable, ProvisionInv, LeaseInv,
       CleanInv, Cleaned
  <2>4. StepInv'
    BY <2>1, Here, Absent DEF StepInv, Rewritten, SameRun, ProvisionInv, LeaseInv, CleanInv, RunInv, Checkpointed
  <2>5. QED BY <2>2, <2>3, <2>4 DEF Kept
<1>7. CASE Resume /\ ~("vm_destroyed" \in done0) /\ ~("domain_destroyed" \in done0) /\ "pool_owned" \in done0
  <2>1. /\ At("resume") /\ proc' \in Process /\ proc'.step = "guestPurge" /\ SameRun(r)
        /\ Has(r, "pool_owned")
        /\ UNCHANGED <<journal, active, day, open, valid, pool, domain, private, inputs, lease, owed, faults>>
    BY <1>7, Moves, Saves DEF Resume, clock, fixture, AllSteps, Stages
  <2>2. TypeOK' /\ StepIsLocal(r)
    BY <2>1, Here, Absent DEF TypeOK, StepIsLocal, Elsewhere, Goes, Rewritten, SameRun, Recorded, Terminal, LeaseStates
  <2>3. RunInv(r)'
    BY <2>1, Here, Absent DEF RunInv, Rewritten, Recorded, Terminal, Checkpointed, Reachable, ProvisionInv, LeaseInv,
       CleanInv, Cleaned
  <2>4. StepInv'
    BY <2>1, Here, Absent DEF StepInv, Rewritten, SameRun, ProvisionInv, LeaseInv, CleanInv, RunInv, Checkpointed
  <2>5. QED BY <2>2, <2>3, <2>4 DEF Kept
<1>8. CASE Resume /\ ~("vm_destroyed" \in done0) /\ ~("domain_destroyed" \in done0) /\ ~("pool_owned" \in done0)
  <2>1. /\ At("resume") /\ proc' \in Process /\ proc'.step = "private" /\ SameRun(r)
        /\ ~Has(r, "pool_owned")
        /\ UNCHANGED <<journal, active, day, open, valid, pool, domain, private, inputs, lease, owed, faults>>
    BY <1>8, Moves, Saves DEF Resume, clock, fixture, AllSteps, Stages
  <2>2. TypeOK' /\ StepIsLocal(r)
    BY <2>1, Here, Absent DEF TypeOK, StepIsLocal, Elsewhere, Goes, Rewritten, SameRun, Recorded, Terminal, LeaseStates
  <2>3. RunInv(r)'
    BY <2>1, Here, Absent DEF RunInv, Rewritten, Recorded, Terminal, Checkpointed, Reachable, ProvisionInv, LeaseInv,
       CleanInv, Cleaned
  <2>4. StepInv'
    BY <2>1, Here, Absent DEF StepInv, Rewritten, SameRun, ProvisionInv, LeaseInv, CleanInv, RunInv, Checkpointed
  <2>5. QED BY <2>2, <2>3, <2>4 DEF Kept
<1> QED BY <1>1, <1>2, <1>3, <1>4, <1>5, <1>6, <1>7, <1>8

(* Cleanup of the guest, its machine and its storage.                      *)
LEMMA MachineSteps ==
    ASSUME LInv, NEW r \in Runs, r = proc.run, r = active,
           \/ PurgeGuest \/ GuestCannotStart \/ PurgeSecrets \/ Destroy \/ Destroyed \/ PurgeStorage
           \/ UnlinkPool \/ RemovePool \/ StoragePurged \/ PurgePrivate \/ CloseRun
    PROVE  Kept(r)
<1> USE DEF LInv, At, r0, done0, Has, NoCredential, Working, Owned, GuestUp, Enrolling, BeforeLease, RunSteps,
            CleanSteps, ProvisionSteps, ChildSteps, CleanFlags, Checkpoints
<1>1. CASE PurgeGuest /\ ToPurge
  <2>1. /\ At("guestPurge") /\ proc' \in Process /\ proc'.step = "secrets" /\ SameRun(r)
        /\ Rewritten(r, journal[r].stage, journal[r].failure, journal[r].certified,
                     journal[r].done \cup {"guest_purged"})
        /\ domain' = "on" /\ domain # "none"
        /\ UNCHANGED <<active, day, open, valid, pool, private, inputs, lease, owed, faults>>
    BY <1>1, Moves, Saves DEF PurgeGuest, clock, fixture, AllSteps, Stages, Purge
  <2>2. TypeOK' /\ StepIsLocal(r)
    BY <2>1, Here, Absent DEF TypeOK, StepIsLocal, Elsewhere, Goes, Rewritten, SameRun, Recorded, Terminal, LeaseStates
  <2>3. RunInv(r)'
    BY <2>1, Here, Absent DEF RunInv, Rewritten, Recorded, Terminal, Checkpointed, Reachable, ProvisionInv, LeaseInv,
       CleanInv, Cleaned
  <2>4. StepInv'
    BY <2>1, Here, Absent DEF StepInv, Rewritten, SameRun, ProvisionInv, LeaseInv, CleanInv, RunInv, Checkpointed
  <2>5. QED BY <2>2, <2>3, <2>4 DEF Kept
<1>2. CASE PurgeGuest /\ ~ToPurge
  <2>1. /\ At("guestPurge") /\ proc' \in Process /\ proc'.step = "secrets" /\ SameRun(r)
        /\ Rewritten(r, journal[r].stage, journal[r].failure, journal[r].certified, journal[r].done)
        /\ Has(r, "guest_ready") => Has(r, "guest_purged")
        /\ UNCHANGED <<active, day, open, valid, pool, domain, private, inputs, lease, owed, faults>>
    BY <1>2, Moves, Saves DEF PurgeGuest, clock, fixture, AllSteps, Stages, ToPurge
  <2>2. TypeOK' /\ StepIsLocal(r)
    BY <2>1, Here, Absent DEF TypeOK, StepIsLocal, Elsewhere, Goes, Rewritten, SameRun, Recorded, Terminal, LeaseStates
  <2>3. RunInv(r)'
    BY <2>1, Here, Absent DEF RunInv, Rewritten, Recorded, Terminal, Checkpointed, Reachable, ProvisionInv, LeaseInv,
       CleanInv, Cleaned
  <2>4. StepInv'
    BY <2>1, Here, Absent DEF StepInv, Rewritten, SameRun, ProvisionInv, LeaseInv, CleanInv, RunInv, Checkpointed
  <2>5. QED BY <2>2, <2>3, <2>4 DEF Kept
<1>3. CASE GuestCannotStart
  <2>1. /\ At("guestPurge") /\ proc' \in Process /\ proc'.step = "idle"
        /\ Rewritten(r, "cleanup-failed", journal[r].failure, journal[r].certified, journal[r].done)
        /\ owed' \in BOOLEAN
        /\ UNCHANGED <<active, day, open, valid, pool, domain, private, inputs, lease, faults>>
    BY <1>3, Moves, Saves DEF GuestCannotStart, clock, fixture, AllSteps, Stages
  <2>2. TypeOK' /\ StepIsLocal(r)
    BY <2>1, Here, Absent DEF TypeOK, StepIsLocal, Elsewhere, Goes, Rewritten, SameRun, Recorded, Terminal, LeaseStates
  <2>3. RunInv(r)'
    BY <2>1, Here, Absent DEF RunInv, Rewritten, Recorded, Terminal, Checkpointed, Reachable, ProvisionInv, LeaseInv,
       CleanInv, Cleaned
  <2>4. StepInv'
    BY <2>1, Here, Absent DEF StepInv, Rewritten, SameRun, ProvisionInv, LeaseInv, CleanInv, RunInv, Checkpointed
  <2>5. QED BY <2>2, <2>3, <2>4 DEF Kept
<1>4. CASE PurgeSecrets
  <2>1. /\ At("secrets") /\ proc' \in Process /\ proc'.step = "destroy" /\ SameRun(r)
        /\ Rewritten(r, journal[r].stage, journal[r].failure, journal[r].certified,
                     journal[r].done \cup {"certifier_secrets_purged"})
        /\ inputs' = inputs \ {r}
        /\ UNCHANGED <<active, day, open, valid, pool, domain, private, lease, owed, faults>>
    BY <1>4, Moves, Saves DEF PurgeSecrets, clock, fixture, AllSteps, Stages
  <2>2. TypeOK' /\ StepIsLocal(r)
    BY <2>1, Here, Absent DEF TypeOK, StepIsLocal, Elsewhere, Goes, Rewritten, SameRun, Recorded, Terminal, LeaseStates
  <2>3. RunInv(r)'
    BY <2>1, Here, Absent DEF RunInv, Rewritten, Recorded, Terminal, Checkpointed, Reachable, ProvisionInv, LeaseInv,
       CleanInv, Cleaned
  <2>4. StepInv'
    BY <2>1, Here, Absent DEF StepInv, Rewritten, SameRun, ProvisionInv, LeaseInv, CleanInv, RunInv, Checkpointed
  <2>5. QED BY <2>2, <2>3, <2>4 DEF Kept
<1>5. CASE Destroy
  <2>1. /\ At("destroy") /\ proc' \in Process /\ proc'.step = "gone" /\ SameRun(r)
        /\ domain' = "none"
        /\ UNCHANGED <<journal, active, day, open, valid, pool, private, inputs, lease, owed, faults>>
    BY <1>5, Moves, Saves DEF Destroy, clock, fixture, AllSteps, Stages
  <2>2. TypeOK' /\ StepIsLocal(r)
    BY <2>1, Here, Absent DEF TypeOK, StepIsLocal, Elsewhere, Goes, Rewritten, SameRun, Recorded, Terminal, LeaseStates
  <2>3. RunInv(r)'
    BY <2>1, Here, Absent DEF RunInv, Rewritten, Recorded, Terminal, Checkpointed, Reachable, ProvisionInv, LeaseInv,
       CleanInv, Cleaned
  <2>4. StepInv'
    BY <2>1, Here, Absent DEF StepInv, Rewritten, SameRun, ProvisionInv, LeaseInv, CleanInv, RunInv, Checkpointed
  <2>5. QED BY <2>2, <2>3, <2>4 DEF Kept
<1>6. CASE Destroyed
  <2>1. /\ At("gone") /\ proc' \in Process /\ proc'.step = "storage" /\ SameRun(r)
        /\ Rewritten(r, journal[r].stage, journal[r].failure, journal[r].certified,
                     journal[r].done \cup {"domain_destroyed"})
        /\ domain = "none"
        /\ UNCHANGED <<active, day, open, valid, pool, domain, private, inputs, lease, owed, faults>>
    BY <1>6, Moves, Saves DEF Destroyed, clock, fixture, AllSteps, Stages
  <2>2. TypeOK' /\ StepIsLocal(r)
    BY <2>1, Here, Absent DEF TypeOK, StepIsLocal, Elsewhere, Goes, Rewritten, SameRun, Recorded, Terminal, LeaseStates
  <2>3. RunInv(r)'
    BY <2>1, Here, Absent DEF RunInv, Rewritten, Recorded, Terminal, Checkpointed, Reachable, ProvisionInv, LeaseInv,
       CleanInv, Cleaned
  <2>4. StepInv'
    BY <2>1, Here, Absent DEF StepInv, Rewritten, SameRun, ProvisionInv, LeaseInv, CleanInv, RunInv, Checkpointed
  <2>5. QED BY <2>2, <2>3, <2>4 DEF Kept
<1>7. CASE PurgeStorage /\ pool = NoPool
  <2>1. /\ At("storage") /\ proc' \in Process /\ proc'.step = "purged" /\ SameRun(r)
        /\ Rewritten(r, journal[r].stage, journal[r].failure, journal[r].certified, journal[r].done)
        /\ pool = NoPool
        /\ UNCHANGED <<active, day, open, valid, pool, domain, private, inputs, lease, owed, faults>>
    BY <1>7, Moves, Saves DEF PurgeStorage, clock, fixture, AllSteps, Stages
  <2>2. TypeOK' /\ StepIsLocal(r)
    BY <2>1, Here, Absent DEF TypeOK, StepIsLocal, Elsewhere, Goes, Rewritten, SameRun, Recorded, Terminal, LeaseStates
  <2>3. RunInv(r)'
    BY <2>1, Here, Absent DEF RunInv, Rewritten, Recorded, Terminal, Checkpointed, Reachable, ProvisionInv, LeaseInv,
       CleanInv, Cleaned
  <2>4. StepInv'
    BY <2>1, Here, Absent DEF StepInv, Rewritten, SameRun, ProvisionInv, LeaseInv, CleanInv, RunInv, Checkpointed
  <2>5. QED BY <2>2, <2>3, <2>4 DEF Kept
<1>8. CASE PurgeStorage /\ pool # NoPool /\ pool.marked
  <2>1. /\ At("storage") /\ proc' \in Process /\ proc'.step = "unlink" /\ SameRun(r)
        /\ Rewritten(r, journal[r].stage, journal[r].failure, journal[r].certified,
                     journal[r].done \cup {"storage_purge_started"})
        /\ UNCHANGED <<active, day, open, valid, pool, domain, private, inputs, lease, owed, faults>>
    BY <1>8, Moves, Saves DEF PurgeStorage, clock, fixture, AllSteps, Stages
  <2>2. TypeOK' /\ StepIsLocal(r)
    BY <2>1, Here, Absent DEF TypeOK, StepIsLocal, Elsewhere, Goes, Rewritten, SameRun, Recorded, Terminal, LeaseStates
  <2>3. RunInv(r)'
    BY <2>1, Here, Absent DEF RunInv, Rewritten, Recorded, Terminal, Checkpointed, Reachable, ProvisionInv, LeaseInv,
       CleanInv, Cleaned
  <2>4. StepInv'
    BY <2>1, Here, Absent DEF StepInv, Rewritten, SameRun, ProvisionInv, LeaseInv, CleanInv, RunInv, Checkpointed
  <2>5. QED BY <2>2, <2>3, <2>4 DEF Kept
<1>9. CASE PurgeStorage /\ pool # NoPool /\ ~pool.marked
  <2>1. /\ At("storage") /\ proc' \in Process /\ proc'.step = "rmdir" /\ SameRun(r)
        /\ Rewritten(r, journal[r].stage, journal[r].failure, journal[r].certified, journal[r].done)
        /\ UNCHANGED <<active, day, open, valid, pool, domain, private, inputs, lease, owed, faults>>
    BY <1>9, Moves, Saves DEF PurgeStorage, clock, fixture, AllSteps, Stages
  <2>2. TypeOK' /\ StepIsLocal(r)
    BY <2>1, Here, Absent DEF TypeOK, StepIsLocal, Elsewhere, Goes, Rewritten, SameRun, Recorded, Terminal, LeaseStates
  <2>3. RunInv(r)'
    BY <2>1, Here, Absent DEF RunInv, Rewritten, Recorded, Terminal, Checkpointed, Reachable, ProvisionInv, LeaseInv,
       CleanInv, Cleaned
  <2>4. StepInv'
    BY <2>1, Here, Absent DEF StepInv, Rewritten, SameRun, ProvisionInv, LeaseInv, CleanInv, RunInv, Checkpointed
  <2>5. QED BY <2>2, <2>3, <2>4 DEF Kept
<1>10. CASE UnlinkPool
  <2>1. /\ At("unlink") /\ proc' \in Process /\ proc'.step = "rmdir" /\ SameRun(r)
        /\ pool' \in [owner : Runs \cup {NoRun}, marked : BOOLEAN] /\ pool'.owner = pool.owner
        /\ UNCHANGED <<journal, active, day, open, valid, domain, private, inputs, lease, owed, faults>>
    BY <1>10, Moves, Saves DEF UnlinkPool, clock, fixture, AllSteps, Stages, TypeOK
  <2>2. TypeOK' /\ StepIsLocal(r)
    BY <2>1, Here, Absent DEF TypeOK, StepIsLocal, Elsewhere, Goes, Rewritten, SameRun, Recorded, Terminal, LeaseStates
  <2>3. RunInv(r)'
    BY <2>1, Here, Absent DEF RunInv, Rewritten, Recorded, Terminal, Checkpointed, Reachable, ProvisionInv, LeaseInv,
       CleanInv, Cleaned
  <2>4. StepInv'
    BY <2>1, Here, Absent DEF StepInv, Rewritten, SameRun, ProvisionInv, LeaseInv, CleanInv, RunInv, Checkpointed
  <2>5. QED BY <2>2, <2>3, <2>4 DEF Kept
<1>11. CASE RemovePool
  <2>1. /\ At("rmdir") /\ proc' \in Process /\ proc'.step = "purged" /\ SameRun(r)
        /\ pool' = NoPool
        /\ UNCHANGED <<journal, active, day, open, valid, domain, private, inputs, lease, owed, faults>>
    BY <1>11, Moves, Saves DEF RemovePool, clock, fixture, AllSteps, Stages
  <2>2. TypeOK' /\ StepIsLocal(r)
    BY <2>1, Here, Absent DEF TypeOK, StepIsLocal, Elsewhere, Goes, Rewritten, SameRun, Recorded, Terminal, LeaseStates
  <2>3. RunInv(r)'
    BY <2>1, Here, Absent DEF RunInv, Rewritten, Recorded, Terminal, Checkpointed, Reachable, ProvisionInv, LeaseInv,
       CleanInv, Cleaned
  <2>4. StepInv'
    BY <2>1, Here, Absent DEF StepInv, Rewritten, SameRun, ProvisionInv, LeaseInv, CleanInv, RunInv, Checkpointed
  <2>5. QED BY <2>2, <2>3, <2>4 DEF Kept
<1>12. CASE StoragePurged
  <2>1. /\ At("purged") /\ proc' \in Process /\ proc'.step = "private" /\ SameRun(r)
        /\ Rewritten(r, journal[r].stage, journal[r].failure, journal[r].certified,
                     journal[r].done \cup {"vm_destroyed"})
        /\ UNCHANGED <<active, day, open, valid, pool, domain, private, inputs, lease, owed, faults>>
    BY <1>12, Moves, Saves DEF StoragePurged, clock, fixture, AllSteps, Stages
  <2>2. TypeOK' /\ StepIsLocal(r)
    BY <2>1, Here, Absent DEF TypeOK, StepIsLocal, Elsewhere, Goes, Rewritten, SameRun, Recorded, Terminal, LeaseStates
  <2>3. RunInv(r)'
    BY <2>1, Here, Absent DEF RunInv, Rewritten, Recorded, Terminal, Checkpointed, Reachable, ProvisionInv, LeaseInv,
       CleanInv, Cleaned
  <2>4. StepInv'
    BY <2>1, Here, Absent DEF StepInv, Rewritten, SameRun, ProvisionInv, LeaseInv, CleanInv, RunInv, Checkpointed
  <2>5. QED BY <2>2, <2>3, <2>4 DEF Kept
<1>13. CASE PurgePrivate
  <2>1. /\ At("private") /\ proc' \in Process /\ proc'.step = "close" /\ SameRun(r)
        /\ private' = private \ {r}
        /\ UNCHANGED <<journal, active, day, open, valid, pool, domain, inputs, lease, owed, faults>>
    BY <1>13, Moves, Saves DEF PurgePrivate, clock, fixture, AllSteps, Stages
  <2>2. TypeOK' /\ StepIsLocal(r)
    BY <2>1, Here, Absent DEF TypeOK, StepIsLocal, Elsewhere, Goes, Rewritten, SameRun, Recorded, Terminal, LeaseStates
  <2>3. RunInv(r)'
    BY <2>1, Here, Absent DEF RunInv, Rewritten, Recorded, Terminal, Checkpointed, Reachable, ProvisionInv, LeaseInv,
       CleanInv, Cleaned
  <2>4. StepInv'
    BY <2>1, Here, Absent DEF StepInv, Rewritten, SameRun, ProvisionInv, LeaseInv, CleanInv, RunInv, Checkpointed
  <2>5. QED BY <2>2, <2>3, <2>4 DEF Kept
<1>14. CASE CloseRun
  <2>1. /\ At("close") /\ proc' \in Process /\ proc'.step = "idle"
        /\ Rewritten(r, FinalStage, journal[r].failure, journal[r].certified, journal[r].done)
        /\ owed' \in BOOLEAN
        /\ FinalStage \in Terminal
        /\ FinalStage = "complete" => journal[r].certified /\ ~journal[r].failure
        /\ UNCHANGED <<active, day, open, valid, pool, domain, private, inputs, lease, faults>>
    BY <1>14, Moves, Saves DEF CloseRun, clock, fixture, AllSteps, Stages, FinalStage, Terminal
  <2>2. TypeOK' /\ StepIsLocal(r)
    BY <2>1, Here, Absent DEF TypeOK, StepIsLocal, Elsewhere, Goes, Rewritten, SameRun, Recorded, Terminal, LeaseStates
  <2>3. RunInv(r)'
    BY <2>1, Here, Absent DEF RunInv, Rewritten, Recorded, Terminal, Checkpointed, Reachable, ProvisionInv, LeaseInv,
       CleanInv, Cleaned
  <2>4. StepInv'
    BY <2>1, Here, Absent DEF StepInv, Rewritten, SameRun, ProvisionInv, LeaseInv, CleanInv, RunInv, Checkpointed
  <2>5. QED BY <2>2, <2>3, <2>4 DEF Kept
<1> QED BY <1>1, <1>2, <1>3, <1>4, <1>5, <1>6, <1>7, <1>8, <1>9, <1>10, <1>11, <1>12, <1>13, <1>14

(* Exceptions and kills.                                                   *)
LEMMA FailingSteps ==
    ASSUME LInv, NEW r \in Runs, r = proc.run, r = active,
           StepFails \/ CleanupFails
    PROVE  Kept(r)
<1> USE DEF LInv, At, r0, done0, Has, NoCredential, Working, Owned, GuestUp, Enrolling, BeforeLease, RunSteps,
            CleanSteps, ProvisionSteps, ChildSteps, CleanFlags, Checkpoints
<1>1. CASE StepFails
  <2>0. faults' \in 0..MaxFaults
    BY <1>1, LifecycleAssumption DEF StepFails, Fault, LInv, TypeOK
  <2>1. /\ proc' \in Process /\ proc'.step = "cleaning" /\ SameRun(r)
        /\ Rewritten(r, journal[r].stage, TRUE, journal[r].certified, journal[r].done)
        /\ faults' \in 0..MaxFaults
        /\ proc.step \in BeforeLease \cup {"evidence", "certified"}
        /\ UNCHANGED <<active, day, open, valid, pool, domain, private, inputs, lease, owed>>
    BY <2>0, <1>1, Moves, Saves DEF StepFails, clock, fixture, AllSteps, Stages, BeforeLease
  <2>2. TypeOK' /\ StepIsLocal(r)
    BY <2>1, Here, Absent DEF TypeOK, StepIsLocal, Elsewhere, Goes, Rewritten, SameRun, Recorded, Terminal, LeaseStates
  <2>3. RunInv(r)'
    BY <2>1, Here, Absent DEF RunInv, Rewritten, Recorded, Terminal, Checkpointed, Reachable, ProvisionInv, LeaseInv,
       CleanInv, Cleaned
  <2>4. StepInv'
    BY <2>1, Here, Absent DEF StepInv, Rewritten, SameRun, ProvisionInv, LeaseInv, CleanInv, RunInv, Checkpointed
  <2>5. QED BY <2>2, <2>3, <2>4 DEF Kept
<1>2. CASE CleanupFails
  <2>0. faults' \in 0..MaxFaults
    BY <1>2, LifecycleAssumption DEF CleanupFails, Fault, LInv, TypeOK
  <2>1. /\ proc' \in Process /\ proc'.step = "idle"
        /\ Rewritten(r, "cleanup-failed", journal[r].failure, journal[r].certified, journal[r].done)
        /\ faults' \in 0..MaxFaults
        /\ owed' \in BOOLEAN
        /\ proc.step \in CleanSteps
        /\ lease' \in [Runs -> LeaseStates]
        /\ \A s \in Runs \ {r} : lease'[s] = lease[s]
        /\ \/ lease'[r] = lease[r]
           \/ At("credentials") /\ lease[r] = "live" /\ lease'[r] \in {"lost", "revoked"}
        /\ UNCHANGED <<active, day, open, valid, pool, domain, private, inputs>>
    <3>1. /\ lease' \in [Runs -> LeaseStates]
          /\ \A s \in Runs \ {r} : lease'[s] = lease[s]
          /\ \/ lease'[r] = lease[r]
             \/ At("credentials") /\ lease[r] = "live" /\ lease'[r] \in {"lost", "revoked"}
      BY <1>2, Stopped DEF CleanupFails, TypeOK
    <3>2. QED
      BY <3>1, <2>0, <1>2, Moves, Saves DEF CleanupFails, clock, fixture, AllSteps, Stages
  <2>2. TypeOK' /\ StepIsLocal(r)
    BY <2>1, Here, Absent DEF TypeOK, StepIsLocal, Elsewhere, Goes, Rewritten, SameRun, Recorded, Terminal, LeaseStates
  <2>3. RunInv(r)'
    BY <2>1, Here, Absent DEF RunInv, Rewritten, Recorded, Terminal, Checkpointed, Reachable, ProvisionInv, LeaseInv,
       CleanInv, Cleaned
  <2>4. StepInv'
    BY <2>1, Here, Absent DEF StepInv, Rewritten, SameRun, ProvisionInv, LeaseInv, CleanInv, RunInv, Checkpointed
  <2>5. QED BY <2>2, <2>3, <2>4 DEF Kept
<1> QED BY <1>1, <1>2

-----------------------------------------------------------------------------
(* Every step of a process that works on a run keeps the invariant.        *)
Work == \/ Preflight \/ PreflightRefused \/ MakePool \/ MarkPool \/ OwnPool
        \/ DomainStep
        \/ GuestReady \/ MakeInputs \/ SchedulerReady \/ Enrolled \/ WindowCheck \/ StartCertifier
        \/ NameLease \/ Issue \/ Deploy \/ ColdOff \/ ColdOn \/ Retire \/ Certified
        \/ Recheck \/ CertifierFails \/ RetireFails \/ RecheckFails
        \/ StartCleaning \/ CleanCredentials \/ Resume
        \/ PurgeGuest \/ GuestCannotStart \/ PurgeSecrets \/ Destroy \/ Destroyed \/ PurgeStorage
        \/ UnlinkPool \/ RemovePool \/ StoragePurged \/ PurgePrivate \/ CloseRun
        \/ StepFails \/ CleanupFails

(* Work is done on a run only.                                             *)
LEMMA WorkIsBusy == Work => proc.step \notin {"idle", "record"}
BY DEF Work, Preflight, PreflightRefused, MakePool, MarkPool, OwnPool, DomainStep, Provision, Install,
   OfflineEnrollment,
   FirstBoot, PowerOff, BootManager, Bootstrap, Store, CopyBaseline, Replay, Export, Download, SetAside,
   RestoreBaseline, Observe, ApproveCandidate, EnrollGuest, Evidence, GuestReady, MakeInputs, SchedulerReady, Enrolled,
   WindowCheck, StartCertifier, NameLease, Issue, Deploy, ColdOff, ColdOn, Retire, Certified, Recheck, CertifierFails,
   RetireFails, RecheckFails,
   StartCleaning, CleanCredentials, Resume, PurgeGuest, GuestCannotStart, PurgeSecrets, Destroy, Destroyed,
   PurgeStorage,
   UnlinkPool, RemovePool, StoragePurged, PurgePrivate, CloseRun, StepFails, CleanupFails, At, CleanSteps, ChildSteps,
   ProvisionSteps

(* Whatever the process does for its run keeps the invariant.              *)
LEMMA WorkKeepsInv == ASSUME LInv, Work PROVE LInv'
<1>1. PICK r \in Runs : r = proc.run /\ r = active
  BY Here, WorkIsBusy
<1>2. Kept(r)
  BY <1>1, PoolSteps, DomainSteps, EnrollSteps, LeaseSteps, RecheckSteps, CredentialSteps, MachineSteps,
     FailingSteps DEF Work
<1>3. QED BY <1>1, <1>2, LocalSteps DEF Kept

(* The process ends, or nobody works, and no run's journal has changed.    *)
LEMMA RestKeepsInv ==
    ASSUME LInv, TypeOK', UNCHANGED <<journal, active, day, pool, private, inputs>>, proc'.step = "idle",
           domain' = "none" <=> domain = "none",
           \A r \in Runs : \/ lease'[r] = lease[r]
                           \/ {lease[r], lease'[r]} \subseteq {"named", "issuing", "stuck", "live"}
    PROVE  LInv'
<1>1. \A r \in Runs : RunInv(r)'
  <2> SUFFICES ASSUME NEW r \in Runs PROVE RunInv(r)'
    OBVIOUS
  <2>1. RunInv(r) /\ NoCredential(r)' = NoCredential(r) /\ (lease[r] \in {"none", "revoked"} => lease'[r] = lease[r])
    BY DEF LInv, NoCredential
  <2>2. Checkpointed(r)' /\ Reachable(r)'
    BY <2>1 DEF RunInv, Checkpointed, Reachable, Has
  <2>3. QED BY <2>1, <2>2 DEF RunInv, Recorded, Untouched, Cleaned, Has
<1>2. ProcInv' /\ SlotInv'
  BY DEF LInv, ProcInv, SlotInv, OneRunPerDate, At, Recorded
<1>3. StepInv'
  BY DEF StepInv, ProvisionInv, LeaseInv, CleanInv, At, Working, Owned, GuestUp, Enrolling, BeforeLease, RunSteps,
     CleanSteps, ProvisionSteps, ChildSteps
<1>4. QED BY <1>1, <1>2, <1>3 DEF LInv, StepInv

(* A kill, a power loss, and the invocations that do nothing.              *)
LEMMA EndsKeepInv == ASSUME LInv, Killed \/ PowerLost \/ BeginNothing \/ NothingToClean PROVE LInv'
<1>1. CASE Killed
  <2>1. TypeOK'
    BY <1>1, Moves, LifecycleAssumption DEF Killed, Fault, LInv, TypeOK, clock, fixture
  <2>2. proc'.step = "idle"
    BY <1>1, Moves DEF Killed, LInv
  <2>3. QED BY <1>1, <2>1, <2>2, RestKeepsInv DEF Killed, clock, fixture
<1>2. CASE PowerLost
  <2>1. TypeOK'
    <3>1. faults' \in 0..MaxFaults
      BY <1>2, LifecycleAssumption DEF PowerLost, Fault, LInv, TypeOK
    <3>2. lease' \in [Runs -> LeaseStates]
      BY <1>2 DEF PowerLost, LInv, TypeOK, LeaseStates
    <3>3. QED BY <1>2, <3>1, <3>2, Moves DEF PowerLost, LInv, TypeOK, clock
  <2>2. proc'.step = "idle" /\ \A r \in Runs : lease'[r] = IF lease[r] = "issuing" THEN "stuck" ELSE lease[r]
    BY <1>2 DEF PowerLost, Idle
  <2>3. QED BY <1>2, <2>1, <2>2, RestKeepsInv DEF PowerLost, clock
<1>3. CASE BeginNothing \/ NothingToClean
  <2>1. TypeOK' /\ UNCHANGED <<journal, active, proc, day, pool, domain, private, inputs, lease>> /\ At("idle")
    BY <1>3 DEF BeginNothing, NothingToClean, LInv, TypeOK, clock, fixture
  <2>2. QED BY <2>1, RestKeepsInv DEF At
<1>4. QED BY <1>1, <1>2, <1>3

(* The broker answers a request, with or without its caller.               *)
LEMMA BrokerKeepsInv ==
    ASSUME LInv, NEW r \in Runs, BrokerIssues(r) \/ BrokerLosesAccount(r)
    PROVE  LInv'
<1>1. /\ UNCHANGED <<journal, active, proc, owed, clock, pool, domain, private, inputs>>
      /\ lease[r] = "issuing" /\ lease' \in [Runs -> LeaseStates] /\ lease'[r] \in {"live", "stuck"}
      /\ \A s \in Runs \ {r} : lease'[s] = lease[s]
  BY DEF BrokerIssues, BrokerLosesAccount, LInv, TypeOK, LeaseStates
<1>2. faults' \in 0..MaxFaults
  BY LifecycleAssumption DEF BrokerIssues, BrokerLosesAccount, Fault, LInv, TypeOK
<1>3. TypeOK'
  BY <1>1, <1>2 DEF LInv, TypeOK, clock
<1>4. \A s \in Runs : RunInv(s)'
  <2> SUFFICES ASSUME NEW s \in Runs PROVE RunInv(s)'
    OBVIOUS
  <2>1. RunInv(s) /\ NoCredential(s)' = NoCredential(s) /\ (lease[s] \in {"none", "revoked"} => lease'[s] = lease[s])
    BY <1>1 DEF LInv, NoCredential
  <2>2. Checkpointed(s)' /\ Reachable(s)'
    BY <1>1, <2>1 DEF RunInv, Checkpointed, Reachable, Has
  <2>3. QED BY <1>1, <2>1, <2>2 DEF RunInv, Recorded, Untouched, Cleaned, Has
<1>5. ProcInv' /\ SlotInv'
  BY <1>1 DEF LInv, ProcInv, SlotInv, OneRunPerDate, At, Recorded, Settled, r0, clock
<1>6. ProvisionInv'
  BY <1>1 DEF LInv, ProvisionInv, At, r0, done0, Has
<1>7. LeaseInv'
  BY <1>1 DEF LInv, LeaseInv, ProcInv, At, r0, BeforeLease, ProvisionSteps
<1>8. CleanInv'
  BY <1>1 DEF LInv, CleanInv, ProcInv, At, r0, Has, NoCredential, CleanSteps
<1>9. QED BY <1>3, <1>4, <1>5, <1>6, <1>7, <1>8 DEF LInv

(* The window, the dates and the grants.                                   *)
LEMMA ClockKeepsInv == ASSUME LInv, Clock \/ UNCHANGED vars PROVE LInv'
<1>1. /\ UNCHANGED <<journal, active, proc, owed, pool, domain, private, inputs, lease, faults>>
      /\ open' \in BOOLEAN /\ valid' \in SUBSET Grants /\ day' \in 1..MaxDay /\ day' >= day
  <2>a. day \in Nat /\ day \in 1..MaxDay /\ open \in BOOLEAN /\ valid \in SUBSET Grants
    BY LifecycleAssumption DEF LInv, TypeOK
  <2>0. CASE UNCHANGED vars
    BY <2>a, <2>0 DEF vars
  <2>1. CASE WindowCloses
    <3>1. /\ UNCHANGED <<journal, active, proc, owed, pool, domain, private, inputs, lease, faults>>
          /\ day' = day /\ valid' = valid /\ open' = FALSE
      BY <2>1 DEF WindowCloses, fixture
    <3>2. open' \in BOOLEAN
      BY <3>1
    <3>3. QED BY <2>a, <3>1, <3>2
  <2>2. CASE NextDate
    BY <2>2, LifecycleAssumption DEF NextDate, fixture, LInv, TypeOK
  <2>3. ASSUME NEW r \in Grants, GrantExpires(r)
        PROVE  /\ UNCHANGED <<journal, active, proc, owed, pool, domain, private, inputs, lease, faults, open, day>>
               /\ valid' = valid \ {r}
    BY <2>3 DEF GrantExpires, fixture
  <2>4. QED BY <2>a, <2>0, <2>1, <2>2, <2>3 DEF Clock
<1>2. TypeOK'
  BY <1>1 DEF LInv, TypeOK
<1>3. \A s \in Runs : RunInv(s)'
  BY <1>1 DEF LInv, RunInv, Recorded, Untouched, Cleaned, Checkpointed, Reachable, Has, NoCredential
<1>4. ProcInv' /\ SlotInv'
  <2>1. \A r \in Runs : journal[r].slot \in Nat
    BY DEF LInv, TypeOK, Journal
  <2>2. proc.slot \in Nat /\ day \in Nat /\ day' \in Nat
    BY <1>1 DEF LInv, TypeOK, Process
  <2>3. QED BY <1>1, <2>1, <2>2 DEF LInv, ProcInv, SlotInv, OneRunPerDate, At, Recorded, Settled, r0
<1>5. StepInv'
  BY <1>1 DEF LInv, StepInv, ProvisionInv, LeaseInv, CleanInv, At, r0, done0, Has, NoCredential
<1>6. QED BY <1>2, <1>3, <1>4, <1>5 DEF LInv, StepInv

-----------------------------------------------------------------------------
(* A new run is known by its directory only, and the others are finished.  *)
LEMMA BeginKeepsInv ==
    ASSUME LInv, NEW r \in Runs, BeginScheduled(r) \/ BeginGranted(r)
    PROVE  LInv'
<1>1. /\ At("idle") /\ Settled /\ journal[r].stage = "none"
      /\ proc' = [Idle EXCEPT !.step = "record", !.run = r, !.slot = day]
      /\ UNCHANGED <<active, owed, day, open, valid, pool, domain, private, inputs, lease, faults>>
      /\ r \notin Grants => ~DateTaken
  BY DEF BeginScheduled, BeginGranted, clock, fixture, LInv, TypeOK
<1>2. /\ journal' \in [Runs -> Journal] /\ \A s \in Runs \ {r} : journal'[s] = journal[s]
      /\ journal'[r].stage = "dir" /\ journal'[r].done = journal[r].done
      /\ journal'[r].certified = journal[r].certified /\ journal'[r].slot = journal[r].slot
  BY DEF BeginScheduled, BeginGranted, LInv, TypeOK, Journal, Stages
<1>3. /\ proc' \in Process /\ proc'.step = "record" /\ proc'.run = r /\ proc'.slot = day /\ ~proc'.cleanup
  <2>1. day \in 0..MaxDay
    BY LifecycleAssumption DEF LInv, TypeOK
  <2>2. Idle \in Process /\ Idle.cleanup = FALSE
    BY LifecycleAssumption DEF Idle, Process
  <2>3. proc' \in Process /\ proc'.cleanup = Idle.cleanup
    BY <1>1, <2>1, <2>2 DEF Process, RunSteps
  <2>4. QED BY <1>1, <2>2, <2>3 DEF Idle
<1>4. TypeOK'
  BY <1>1, <1>2, <1>3 DEF LInv, TypeOK
<1>5. Untouched(r) /\ active # r
  BY <1>1 DEF LInv, RunInv, Recorded, Untouched
<1>6. \A s \in Runs : Recorded(s)' <=> Recorded(s)
  BY <1>1, <1>2 DEF Recorded
<1>7. \A s \in Runs : RunInv(s)'
  <2> SUFFICES ASSUME NEW s \in Runs PROVE RunInv(s)'
    OBVIOUS
  <2>1. CASE s = r
    BY <1>1, <1>2, <1>5, <2>1 DEF RunInv, Recorded, Untouched, Checkpointed, Reachable, Has, NoCredential, Terminal
  <2>2. CASE s # r
    BY <1>1, <1>2, <2>2 DEF LInv, RunInv, Recorded, Untouched, Cleaned, Checkpointed, Reachable, Has, NoCredential
  <2>3. QED BY <2>1, <2>2
<1>8. ProcInv'
  BY <1>1, <1>2, <1>3, <1>5, <1>6 DEF LInv, TypeOK, ProcInv, At, Settled, r0, Recorded
<1>9. SlotInv'
  <2>1. OneRunPerDate'
    BY <1>2, <1>6 DEF LInv, SlotInv, OneRunPerDate, Recorded
  <2>2. \A s \in Runs : Recorded(s) => /\ s # r /\ active \in Runs /\ active # r
                                       /\ journal[s].slot <= journal[active].slot /\ journal[s].slot <= day
    BY <1>1, <1>5 DEF LInv, SlotInv, TypeOK, Recorded
  <2>3. r \notin Grants /\ active # NoRun => journal[active].slot < day
    <3>1. r \notin Grants /\ active # NoRun =>
            journal[active].slot # day /\ journal[active].slot <= day /\ active \in Runs
      BY <1>1 DEF LInv, SlotInv, ProcInv, TypeOK, DateTaken
    <3>2. QED BY <3>1 DEF LInv, TypeOK, Journal
  <2>4. \A s \in Runs : journal[s].slot \in Nat /\ day \in Nat
    BY DEF LInv, TypeOK, Journal
  <2>5. \A s \in Runs : Recorded(s) => journal[s].slot <= day /\ (r \notin Grants => journal[s].slot < day)
    <3> SUFFICES ASSUME NEW s \in Runs, Recorded(s)
                 PROVE  journal[s].slot <= day /\ (r \notin Grants => journal[s].slot < day)
      OBVIOUS
    <3>1. active \in Runs /\ active # NoRun /\ journal[s].slot <= journal[active].slot /\ journal[s].slot <= day
      BY <2>2, LifecycleAssumption
    <3>2. QED BY <3>1, <2>3, <2>4
  <2>6. \A s \in Runs : Recorded(s)' => /\ Recorded(s) /\ journal'[s].slot = journal[s].slot
                                        /\ journal'[active].slot = journal[active].slot
    BY <1>2, <1>6, <2>2
  <2>7. QED
    <3>1. \A s \in Runs : Recorded(s)' =>
            /\ active' # NoRun /\ journal'[s].slot <= journal'[active].slot /\ journal'[s].slot <= day
            /\ journal'[s].slot <= proc'.slot /\ (r \notin Grants => journal'[s].slot < proc'.slot)
      BY <1>1, <1>3, <2>2, <2>5, <2>6, LifecycleAssumption
    <3>2. proc'.slot <= day /\ day' = day /\ active' = active
      BY <1>1, <1>3, <2>4
    <3>3. QED BY <1>3, <2>1, <3>1, <3>2 DEF SlotInv, At, r0
<1>10. StepInv'
  BY <1>3 DEF StepInv, ProvisionInv, LeaseInv, CleanInv, At, Working, Owned, GuestUp, Enrolling, BeforeLease, RunSteps,
     CleanSteps, ProvisionSteps, ChildSteps
<1>11. QED BY <1>4, <1>7, <1>8, <1>9, <1>10 DEF LInv, StepInv

(* The pointer moves to the new run: the last one has left no machine.     *)
LEMMA RecordKeepsInv == ASSUME LInv, RecordRun PROVE LInv'
<1>1. PICK r \in Runs : r = proc.run
  BY DEF LInv, ProcInv, RecordRun, At, r0
<1>2. /\ At("record") /\ proc' \in Process /\ proc'.step = "preflight" /\ SameRun(r) /\ active' = r
      /\ UNCHANGED <<owed, day, open, valid, pool, domain, private, inputs, lease, faults>>
  BY <1>1, Moves DEF RecordRun, clock, fixture, r0, LInv, AllSteps, RunSteps, ProvisionSteps
<1>3. /\ journal' \in [Runs -> Journal] /\ \A s \in Runs \ {r} : journal'[s] = journal[s]
      /\ journal'[r].stage = "starting" /\ journal'[r].done = journal[r].done
      /\ journal'[r].certified = journal[r].certified /\ journal'[r].slot = proc.slot
  <2>1. journal' = [journal EXCEPT ![r].stage = "starting", ![r].slot = proc.slot] /\ proc.slot \in 0..MaxDay
    BY <1>1 DEF RecordRun, r0, LInv, TypeOK, Process
  <2>2. \A stage \in Stages, n \in 0..MaxDay : [journal EXCEPT ![r].stage = stage, ![r].slot = n] \in [Runs -> Journal]
    BY DEF LInv, TypeOK, Journal
  <2>3. journal' \in [Runs -> Journal]
    BY <2>1, <2>2 DEF Stages
  <2>4. QED BY <2>1, <2>3 DEF LInv, TypeOK, Journal
<1>4. TypeOK'
  BY <1>2, <1>3 DEF LInv, TypeOK
<1>5. Untouched(r) /\ ~Recorded(r) /\ Recorded(r)'
  BY <1>1, <1>2, <1>3 DEF LInv, ProcInv, RunInv, Recorded, Untouched, r0
<1>6. domain = "none"
  BY <1>1, <1>2 DEF LInv, TypeOK, ProcInv, Settled, RunInv, Cleaned
<1>7. \A s \in Runs : RunInv(s)'
  <2> SUFFICES ASSUME NEW s \in Runs PROVE RunInv(s)'
    OBVIOUS
  <2>1. CASE s = r
    BY <1>2, <1>3, <1>5, <1>6, <2>1 DEF RunInv, Recorded, Untouched, Checkpointed, Reachable, Has, NoCredential,
       Terminal
  <2>2. CASE s # r
    <3>1. RunInv(s) /\ (Recorded(s) => journal[s].stage \in Terminal)
      BY <1>2 DEF LInv, RunInv, ProcInv, Settled
    <3>2. Checkpointed(s)' /\ Reachable(s)'
      BY <1>2, <1>3, <1>6, <2>2, <3>1 DEF RunInv, Checkpointed, Reachable, Has, NoCredential
    <3>3. QED BY <1>2, <1>3, <2>2, <3>1, <3>2 DEF RunInv, Recorded, Untouched, Cleaned, Has, NoCredential
  <2>3. QED BY <2>1, <2>2
<1>8. ProcInv'
  BY <1>1, <1>2, <1>3, <1>5, LifecycleAssumption DEF ProcInv, At, r0, SameRun, Terminal
<1>9. SlotInv'
  <2>1. \A s \in Runs : Recorded(s)' /\ s # r => /\ Recorded(s) /\ journal'[s].slot = journal[s].slot
                                               /\ journal[s].slot <= proc.slot /\ (r \notin Grants => journal[s].slot < proc.slot)
    BY <1>1, <1>2, <1>3 DEF LInv, SlotInv, Recorded, r0
  <2>2. proc.slot \in Nat /\ proc.slot <= day /\ \A s \in Runs : journal[s].slot \in Nat
    BY <1>2 DEF LInv, TypeOK, SlotInv, Journal, Process
  <2>3. OneRunPerDate'
    <3> SUFFICES ASSUME NEW a \in Runs \ Grants, NEW b \in Runs \ Grants, a # b, Recorded(a)', Recorded(b)'
                 PROVE  journal'[a].slot # journal'[b].slot
      BY DEF OneRunPerDate, Recorded
    <3>1. CASE a # r /\ b # r
      BY <1>3, <2>1, <3>1 DEF LInv, SlotInv, OneRunPerDate, Recorded
    <3>2. CASE a = r \/ b = r
      BY <1>3, <2>1, <2>2, <3>2
    <3>3. QED BY <3>1, <3>2
  <2>4. \A s \in Runs : Recorded(s)' => journal'[s].slot <= proc.slot
    BY <1>3, <2>1, <2>2
  <2>5. \A s \in Runs : Recorded(s)' => journal'[s].slot <= day
    BY <1>3, <2>1, <2>2 DEF LInv, SlotInv
  <2>6. QED BY <1>1, <1>2, <1>3, <2>3, <2>4, <2>5, LifecycleAssumption DEF SlotInv, At
<1>10. StepInv'
  BY <1>1, <1>2, <1>3, <1>5, <1>6 DEF StepInv, SameRun, Untouched, ProvisionInv, LeaseInv, CleanInv, At, r0, done0,
     Working, Owned,
     GuestUp, Enrolling, BeforeLease, RunSteps, CleanSteps, ProvisionSteps, ChildSteps
<1>11. QED BY <1>4, <1>7, <1>8, <1>9, <1>10 DEF LInv, StepInv

(* A recovery takes up the active run.                                     *)
LEMMA RecoverKeepsInv == ASSUME LInv, BeginCleanup PROVE LInv'
<1>1. PICK r \in Runs : r = active /\ journal[r].stage \notin Terminal
  BY DEF BeginCleanup, Settled
<1>2. /\ proc' = [Idle EXCEPT !.step = "cleaning", !.run = active, !.cleanup = TRUE] /\ owed' = FALSE
      /\ UNCHANGED <<active, day, open, valid, pool, domain, private, inputs, lease, faults>>
  BY DEF BeginCleanup, clock, fixture
<1>3. /\ journal' \in [Runs -> Journal] /\ \A s \in Runs \ {r} : journal'[s] = journal[s]
      /\ journal'[r].stage = journal[r].stage /\ journal'[r].done = journal[r].done
      /\ journal'[r].certified = journal[r].certified /\ journal'[r].slot = journal[r].slot
  BY <1>1 DEF BeginCleanup, LInv, TypeOK, Journal
<1>4. proc' \in Process /\ proc'.step = "cleaning" /\ proc'.run = r
  BY <1>1, <1>2, Moves DEF Idle, Process, LInv, TypeOK, RunSteps
<1>5. TypeOK'
  BY <1>2, <1>3, <1>4 DEF LInv, TypeOK
<1>6. RunInv(r)'
  BY <1>1, <1>2, <1>3 DEF LInv, RunInv, Recorded, Untouched, Checkpointed, Reachable, Has, NoCredential
<1>7. StepInv'
  BY <1>4 DEF StepInv, ProvisionInv, LeaseInv, CleanInv, At, Working, Owned, GuestUp, Enrolling, BeforeLease, RunSteps,
     CleanSteps, ProvisionSteps, ChildSteps
<1>8. StepIsLocal(r)
  <2>1. Recorded(r)
    BY <1>1, LifecycleAssumption DEF LInv, ProcInv
  <2>2. QED BY <1>1, <1>2, <1>3, <1>4, <2>1 DEF StepIsLocal, Elsewhere, Goes, Recorded
<1>9. QED BY <1>1, <1>5, <1>6, <1>7, <1>8, LocalSteps

(* LInv is an invariant.                                                   *)
LEMMA LifecycleInductive == Spec => []LInv
<1>1. Init => LInv
  <2> SUFFICES ASSUME Init PROVE LInv
    OBVIOUS
  <2>1. TypeOK
    <3>1. journal \in [Runs -> Journal]
      BY LifecycleAssumption DEF Init, Journal, Blank, Stages
    <3>2. Idle \in Process
      BY LifecycleAssumption DEF Idle, Process
    <3>3. day \in 1..MaxDay /\ faults \in 0..MaxFaults
      BY LifecycleAssumption DEF Init
    <3>4. QED BY <3>1, <3>2, <3>3, Absent, LifecycleAssumption DEF Init, TypeOK, LeaseStates
  <2>2. \A r \in Runs : RunInv(r) /\ ~Recorded(r)
    BY LifecycleAssumption, Absent DEF Init, RunInv, Recorded, Untouched, Checkpointed, Reachable, Has, NoCredential,
       Blank, Terminal
  <2>3. ProcInv /\ SlotInv
    BY <2>2 DEF Init, ProcInv, SlotInv, OneRunPerDate, At, Idle, Recorded
  <2>4. StepInv
    BY DEF Init, Idle, StepInv, ProvisionInv, LeaseInv, CleanInv, At, Working, Owned, GuestUp, Enrolling,
       BeforeLease, RunSteps,
       CleanSteps, ProvisionSteps, ChildSteps
  <2>5. QED BY <2>1, <2>2, <2>3, <2>4 DEF LInv, StepInv
<1>2. LInv /\ [Next]_vars => LInv'
  <2> SUFFICES ASSUME LInv, [Next]_vars PROVE LInv'
    OBVIOUS
  <2>1. ASSUME NEW r \in Runs, BeginScheduled(r) \/ BeginGranted(r) PROVE LInv'
    BY <2>1, BeginKeepsInv
  <2>2. ASSUME NEW r \in Runs, BrokerIssues(r) \/ BrokerLosesAccount(r) PROVE LInv'
    BY <2>2, BrokerKeepsInv
  <2>3. CASE Work
    BY <2>3, WorkKeepsInv
  <2>4. CASE RecordRun
    BY <2>4, RecordKeepsInv
  <2>5. CASE BeginCleanup
    BY <2>5, RecoverKeepsInv
  <2>6. CASE Killed \/ PowerLost \/ BeginNothing \/ NothingToClean
    BY <2>6, EndsKeepInv
  <2>7. CASE Clock \/ UNCHANGED vars
    BY <2>7, ClockKeepsInv
  <2>8. QED
    BY <2>1, <2>2, <2>3, <2>4, <2>5, <2>6, <2>7 DEF Next, Prepare, Certify, Cleanup, Recover, Fails, Work, DomainStep
<1>3. QED BY <1>1, <1>2, PTL DEF Spec

(* Nothing is left behind by a finished run, a complete one was certified, *)
(* cleaned and destroyed, and no maintenance date is used twice            *)
(* (lifecycle.execute, Fixture.cleanup).                                   *)
THEOREM LifecycleSafe == Spec => []LifecycleInv
<1>1. LInv => LifecycleInv
  <2> SUFFICES ASSUME LInv PROVE FinishedRunIsGone /\ CompleteMeansCertified
    BY DEF LInv, SlotInv, LifecycleInv
  <2>1. FinishedRunIsGone
    BY DEF LInv, RunInv, Cleaned, NoCredential, Has, FinishedRunIsGone
  <2>2. CompleteMeansCertified
    BY DEF LInv, RunInv, Cleaned, CompleteMeansCertified, Terminal
  <2>3. QED BY <2>1, <2>2
<1>2. QED BY LifecycleInductive, <1>1, PTL

(* What cleanup needs to retire a credential exists as long as the         *)
(* credential may (Fixture.cleanup).                                       *)
THEOREM LeaseIsReachable == Spec => []LeaseKeepsFixture
<1>1. LInv => LeaseKeepsFixture
  BY DEF LInv, RunInv, Reachable, NoCredential, LeaseKeepsFixture
<1>2. QED BY LifecycleInductive, <1>1, PTL

-----------------------------------------------------------------------------
(* A run that was left unfinished has been recorded as failed by whatever  *)
(* works on it afterwards.                                                 *)
Doomed(r) ==
    /\ Recorded(r) /\ journal[r].stage # "complete"
    /\ proc.run = r /\ ~At("idle") => journal[r].failure /\ proc.step \in CleanSteps \cup {"cleaning"}

(* Cleanup keeps the failure of its run, and goes on or ends.              *)
Cleans == \/ StartCleaning \/ CleanCredentials \/ Resume \/ PurgeGuest \/ GuestCannotStart \/ PurgeSecrets
          \/ Destroy \/ Destroyed \/ PurgeStorage \/ UnlinkPool \/ RemovePool \/ StoragePurged \/ PurgePrivate
          \/ CloseRun \/ CleanupFails

(* Whatever cleanup does leaves the failure as it is.                      *)
LEMMA CleanupKeepsFailure ==
    ASSUME LInv, NEW r \in Runs, r = proc.run, r = active, Cleans
    PROVE  /\ proc'.step \in CleanSteps \cup {"idle"}
           /\ journal'[r].failure = journal[r].failure
           /\ journal'[r].stage = "complete" => ~journal[r].failure
<1> DEFINE Fate == /\ proc'.step \in CleanSteps \cup {"idle"}
                   /\ journal'[r].failure = journal[r].failure
                   /\ journal'[r].stage = "complete" => ~journal[r].failure
<1> DEFINE Saved == \/ UNCHANGED journal
                    \/ \E stage \in {"cleaning", "cleanup-failed"} : SaveStage(stage)
                    \/ \E flag \in Checkpoints : Checkpoint(flag)
           Moved == End \/ \E step \in CleanSteps : Goto(step)
<1>0. TypeOK /\ journal[r].stage \notin Terminal
  BY Here, WorkIsBusy DEF Cleans, Work
<1>1. Saved /\ Moved => Fate
  <2>1. ASSUME Saved
        PROVE  journal'[r].failure = journal[r].failure /\ journal'[r].stage # "complete"
    <3>1. CASE UNCHANGED journal
      BY <1>0, <3>1 DEF Terminal
    <3>2. ASSUME NEW stage \in {"cleaning", "cleanup-failed"}, SaveStage(stage)
          PROVE  journal'[r].failure = journal[r].failure /\ journal'[r].stage # "complete"
      <4>1. Rewritten(r, stage, journal[r].failure, journal[r].certified, journal[r].done)
        BY <1>0, <3>2, Saves DEF Stages
      <4>2. QED BY <4>1 DEF Rewritten
    <3>3. ASSUME NEW flag \in Checkpoints, Checkpoint(flag)
          PROVE  journal'[r].failure = journal[r].failure /\ journal'[r].stage # "complete"
      <4>1. Rewritten(r, journal[r].stage, journal[r].failure, journal[r].certified, journal[r].done \cup {flag})
        BY <1>0, <3>3, Saves
      <4>2. QED BY <1>0, <4>1 DEF Rewritten, Terminal
    <3>4. QED BY <2>1, <3>1, <3>2, <3>3
  <2>2. ASSUME Moved PROVE proc'.step \in CleanSteps \cup {"idle"}
    BY <1>0, <2>2, Moves DEF AllSteps
  <2>3. QED BY <2>1, <2>2
<1> HIDE DEF Fate
<1>2. StartCleaning => Saved /\ Moved
  BY DEF StartCleaning, CleanSteps
<1>3. CleanCredentials => Saved /\ Moved
  <2>1. CleanCredentials /\ ("scheduler_ready" \notin done0 \/ "credentials_cleaned" \in done0) => Saved /\ Moved
    BY DEF CleanCredentials, CleanSteps
  <2>2. CleanCredentials /\ ~("scheduler_ready" \notin done0 \/ "credentials_cleaned" \in done0) => Saved /\ Moved
    BY DEF CleanCredentials, CleanSteps, Checkpoints
  <2>3. QED BY <2>1, <2>2
<1>4. Resume => Saved /\ Moved
  BY DEF Resume, CleanSteps
<1>5. PurgeGuest => Saved /\ Moved
  BY DEF PurgeGuest, Purge, CleanSteps, Checkpoints
<1>6. GuestCannotStart \/ CleanupFails => Saved /\ Moved
  BY DEF GuestCannotStart, CleanupFails
<1>7. PurgeSecrets \/ Destroy \/ Destroyed => Saved /\ Moved
  BY DEF PurgeSecrets, Destroy, Destroyed, CleanSteps, Checkpoints, fixture
<1>8. PurgeStorage => Saved /\ Moved
  BY DEF PurgeStorage, CleanSteps, Checkpoints
<1>9. UnlinkPool \/ RemovePool \/ StoragePurged \/ PurgePrivate => Saved /\ Moved
  BY DEF UnlinkPool, RemovePool, StoragePurged, PurgePrivate, CleanSteps, Checkpoints
<1>10. CloseRun => Fate
  <2>1. FinalStage \in Stages /\ (FinalStage = "complete" => ~journal[r].failure)
    BY DEF FinalStage, Stages, Terminal, r0
  <2>2. CloseRun => Rewritten(r, FinalStage, journal[r].failure, journal[r].certified, journal[r].done)
    BY <1>0, <2>1, Saves DEF CloseRun
  <2>3. CloseRun => proc'.step = "idle"
    BY <1>0, Moves DEF CloseRun
  <2>4. QED BY <2>1, <2>2, <2>3 DEF Rewritten, Fate
<1>11. QED
  BY <1>1, <1>2, <1>3, <1>4, <1>5, <1>6, <1>7, <1>8, <1>9, <1>10 DEF Cleans, Fate

(* A doomed run stays doomed, whoever runs next.                           *)
LEMMA DoomStays == ASSUME LInv, NEW r \in Runs, Doomed(r), [Next]_vars PROVE Doomed(r)'
<1> USE DEF Doomed, Recorded, At
<1>1. ASSUME NEW s \in Runs, BeginScheduled(s) \/ BeginGranted(s) PROVE Doomed(r)'
  <2>1. s # r /\ proc'.run = s /\ journal'[r] = journal[r]
    BY <1>1 DEF BeginScheduled, BeginGranted, LInv, TypeOK, Idle
  <2>2. QED BY <2>1
<1>2. CASE UNCHANGED journal /\ (proc' = Idle \/ UNCHANGED proc)
  BY <1>2 DEF Idle
<1>3. CASE RecordRun
  <2>1. proc.run \in Runs /\ proc.run # r /\ proc'.run = proc.run
    BY <1>3 DEF RecordRun, LInv, ProcInv, TypeOK, Process, Goto, r0
  <2>2. QED BY <1>3, <2>1 DEF RecordRun, LInv, TypeOK, r0
<1>4. CASE BeginCleanup
  <2>1. \A s \in Runs : journal'[s].stage = journal[s].stage
    BY <1>4 DEF BeginCleanup, LInv, TypeOK, Journal
  <2>2. active = r => journal'[r].failure = TRUE
    BY <1>4 DEF BeginCleanup, LInv, TypeOK, Journal
  <2>3. proc'.run = active /\ proc'.step = "cleaning"
    BY <1>4 DEF BeginCleanup, Idle
  <2>4. QED BY <2>1, <2>2, <2>3
<1>5. CASE Work
  <2>1. PICK w \in Runs : w = proc.run /\ w = active /\ proc.step \notin {"idle", "record"}
    BY <1>5, Here, WorkIsBusy
  <2>2. StepIsLocal(w)
    BY <1>5, <2>1, PoolSteps, DomainSteps, EnrollSteps, LeaseSteps, RecheckSteps, CredentialSteps, MachineSteps,
       FailingSteps
       DEF Work, Kept
  <2>3. CASE w # r
    BY <2>1, <2>2, <2>3 DEF StepIsLocal, Elsewhere, Goes
  <2>4. CASE w = r
    <3>1. Cleans
      BY <1>5, <2>1, <2>4 DEF Work, Cleans, Preflight, PreflightRefused, MakePool, MarkPool, OwnPool, DomainStep,
         Provision, Install, OfflineEnrollment, FirstBoot, PowerOff, BootManager, Bootstrap, Store, CopyBaseline,
         Replay,
         Export, Download, SetAside, RestoreBaseline, Observe, ApproveCandidate, EnrollGuest, Evidence, GuestReady,
         MakeInputs, SchedulerReady, Enrolled, WindowCheck, StartCertifier, NameLease, Issue, Deploy, ColdOff, ColdOn,
         Retire, Certified, Recheck, CertifierFails, RetireFails, RecheckFails, StepFails, CleanSteps, ChildSteps, ProvisionSteps
    <3>2. QED BY <2>1, <2>2, <2>4, <3>1, CleanupKeepsFailure DEF StepIsLocal
  <2>5. QED BY <2>3, <2>4
<1>6. QED
  <2>1. ASSUME NEW s \in Runs, BrokerIssues(s) \/ BrokerLosesAccount(s) PROVE UNCHANGED <<journal, proc>>
    BY <2>1 DEF BrokerIssues, BrokerLosesAccount
  <2>2. ASSUME Clock \/ BeginNothing \/ NothingToClean \/ UNCHANGED vars PROVE UNCHANGED <<journal, proc>>
    BY <2>2 DEF Clock, WindowCloses, NextDate, GrantExpires, BeginNothing, NothingToClean, vars
  <2>3. ASSUME Killed \/ PowerLost PROVE UNCHANGED journal /\ proc' = Idle
    BY <2>3 DEF Killed, PowerLost, End
  <2>4. QED
    BY <1>1, <1>2, <1>3, <1>4, <1>5, <2>1, <2>2, <2>3
       DEF Next, Prepare, Certify, Cleanup, Recover, Fails, Work, DomainStep

(* "A cleanup-only recovery never upgrades interrupted acceptance into a   *)
(* pass" (lifecycle.execute).                                              *)
THEOREM InterruptedRunNeverPasses == Spec => InterruptedNeverPasses
<1>1. ASSUME NEW r \in Runs
      PROVE  Spec => [](At("idle") /\ active = r /\ ~Settled => [](journal[r].stage # "complete"))
  <2>1. LInv /\ At("idle") /\ active = r /\ ~Settled => Doomed(r)
    BY LifecycleAssumption DEF LInv, ProcInv, Doomed, Settled, Terminal
  <2>2. LInv /\ Doomed(r) /\ [Next]_vars => Doomed(r)'
    BY DoomStays
  <2>3. Doomed(r) => journal[r].stage # "complete"
    BY DEF Doomed
  <2>4. QED BY LifecycleInductive, <2>1, <2>2, <2>3, PTL DEF Spec
<1>2. QED BY <1>1 DEF InterruptedNeverPasses
=============================================================================
