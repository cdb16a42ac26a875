--------------------------- MODULE LabGuestProofs ---------------------------
(***************************************************************************)
(* The guest of a lab for every set of state trees and any number of       *)
(* commands and faults: no service runs on half restored state and no      *)
(* image on state newer than itself, a live secret never reaches the disk, *)
(* and a live start that failed has left none.                             *)
(*                                                                         *)
(* What holds of the guest depends on how much has gone wrong so far.      *)
(* MemoryInv holds always.  CalmInv holds as long as no job outlived its   *)
(* host command: then there is one job at a time, and the position of its  *)
(* command says what the guest looks like.  FaultlessInv adds what images  *)
(* and state have to do with each other before any fault.                  *)
(***************************************************************************)
EXTENDS LabGuest, TLAPS

(* The types that TypeOK leaves implicit.                                  *)
HostState == [name: Programs, rest: Seq(Command), job: Jobs \cup {0},
              result: {"none", "ready", "failed", "undone", "inspect"}]
Archive == [taken: BOOLEAN, schemas: [Trees -> Schemas], secret: BOOLEAN]

(* The request that a program makes when it has k to make.                 *)
Dues == {<<"deploy", 1, "apply">>,
         <<"live-start", 3, "prepare">>, <<"live-start", 2, "inject">>, <<"live-start", 1, "apply">>,
         <<"live-undo", 2, "clear">>, <<"live-undo", 1, "apply">>,
         <<"live-stop", 2, "clear">>, <<"live-stop", 1, "apply">>,
         <<"candidate", 6, "backup">>, <<"candidate", 5, "apply">>, <<"candidate", 4, "reboot">>,
         <<"candidate", 3, "stop">>, <<"candidate", 2, "restore">>, <<"candidate", 1, "apply">>,
         <<"isolated", 2, "restore">>, <<"isolated", 1, "apply">>}
DueImage(k) == IF host.name # "candidate" THEN guest.image ELSE IF k = 5 THEN 2 ELSE 1
Left == Len(host.rest)
Fits(c, k) == <<host.name, k, c.op>> \in Dues
FitsImage(c, k) == c.op = "apply" => c.image = DueImage(k)

(* The profile on disk is the synthetic one from the first state on, so    *)
(* the exclusive creation of the secret fails there; only prepare mounts,  *)
(* with swap off.                                                          *)
MemoryInv ==
    /\ host \in HostState
    /\ guest.env = "synthetic"
    /\ guest.image \in Images
    /\ guest.mounted => ~guest.swap
    /\ \A n \in Jobs : At(n, "prepare", "mount") => ~guest.swap
    /\ orphaned => faults > 0
    /\ holder # 0 /\ job[holder].op # "apply" => job[holder].step # "instance"

(* One job, that of the host command, and a command that makes the         *)
(* requests of its program in their order.                                 *)
Alone == \A n \in Jobs : n # host.job => job[n].op = "none" /\ job[n].step = "idle"
ProgramInv ==
    /\ \A i \in 1..Left : Fits(host.rest[i], Left - i + 1)
    /\ host.name = "none" => Left = 0 /\ host.job = 0
    /\ host.job # 0 => Fits(job[host.job], Left + 1)

(* Programs that handle state run unmounted; live-undo is unmounted once   *)
(* clear has passed.                                                       *)
Passed == host.job = 0 \/ (job[host.job].step = "end" /\ job[host.job].ok = "yes")
MountInv ==
    /\ host.name \in {"deploy", "candidate", "isolated"} => ~guest.mounted
    /\ host.name = "live-undo" /\ Left = 0 => ~guest.mounted
    /\ host.name = "live-undo" /\ Left = 1 /\ Passed => ~guest.mounted
    /\ host.result = "undone" => ~guest.mounted /\ host.name = "none"
    /\ ~archive.secret

(* Trees are set aside by a restore that is under way, by one that gave up *)
(* with both services stopped, or by one that a boot or a command found.   *)
Restoring(n) == job[n].op = "restore" /\ job[n].step \in {"swap", "undo"}
Abandoning(n) == job[n].op = "restore" /\ job[n].step = "end" /\ job[n].ok = "no"
RestoreInv ==
    /\ \A n \in Jobs : Restoring(n) => ~guest.gateway /\ ~guest.worker
    /\ \/ Whole \/ abandoned
       \/ \E n \in Jobs : Restoring(n)
       \/ /\ ~guest.gateway /\ ~guest.worker
          /\ host.name = "none" \/ \E n \in Jobs : Abandoning(n)
State == tree[StateTree]

(* Which image is installed while a program has so many requests left.     *)
ImageInv ==
    /\ \A i \in 1..Left : FitsImage(host.rest[i], Left - i + 1)
    /\ host.job # 0 => FitsImage(job[host.job], Left + 1)
    /\ host.name = "isolated" => guest.image = 1
    /\ host.name = "candidate" /\ Left >= 5 => guest.image = 1

(* The state is no newer than the installed image, but while apply has run *)
(* a new image on it that it has yet to install; an archive is of the      *)
(* baseline's state.                                                       *)
SchemaInv ==
    /\ State <= guest.image \/ (\E n \in Jobs : At(n, "apply", "units"))
    /\ \A n \in Jobs : job[n].op = "apply" /\ job[n].step \in {"lock", "instance", "configure", "units"}
          => State <= job[n].image
    /\ guest.gateway /\ ~guest.mounted => State <= guest.running
    /\ archive.schemas[StateTree] <= 1
    /\ moved[StateTree] # 9 => /\ moved[StateTree] <= guest.image /\ State <= 1
                               /\ \E n \in Jobs : Restoring(n)

(* The rehearsal stops the gateway before it restores, and restores before *)
(* it goes back to the baseline's image.                                   *)
StoppedInv ==
    host.name = "candidate" =>
      /\ Left = 2 /\ Passed => ~guest.gateway
      /\ Left = 1 /\ Passed => State <= 1
      /\ \A n \in Jobs : job[n].op = "restore" =>
            /\ job[n].step \in {"lock", "instance", "stop"} => ~guest.gateway
            /\ job[n].step \in {"swap", "undo"} => "gateway" \notin job[n].prior

CalmInv == ~orphaned => Alone /\ ProgramInv /\ MountInv /\ RestoreInv
FaultlessInv == faults = 0 => ImageInv /\ SchemaInv /\ StoppedInv
GInv == TypeOK /\ MemoryInv /\ CalmInv /\ FaultlessInv

USE LabGuestAssumption DEF Jobs, Images, Schemas, GInv

(* What a step of a job leaves of it.                                      *)
Steps == {"idle", "lock", "instance", "configure", "units", "restart", "verify", "mount", "umount", "write",
          "stop", "tar", "swap", "undo", "end"}
Goes(n, s, o) ==
    /\ job' \in [Jobs -> Job]
    /\ \A m \in Jobs : m # n => job'[m] = job[m]
    /\ job'[n].op = job[n].op /\ job'[n].image = job[n].image /\ job'[n].mode = job[n].mode
    /\ job'[n].step = s /\ job'[n].ok = o

(* A job goes on to another step.                                          *)
LEMMA Stepping ==
    ASSUME NEW n \in Jobs, NEW s \in Steps, TypeOK, To(n, s)
    PROVE  Goes(n, s, job[n].ok) /\ job'[n].prior = job[n].prior
BY DEF TypeOK, To, Goes, Job, Steps

(* A job ends with its answer.                                             *)
LEMMA Finishing ==
    ASSUME NEW n \in Jobs, NEW o \in {"yes", "no", "open"}, TypeOK, Finish(n, o)
    PROVE  Goes(n, "end", o) /\ job'[n].prior = job[n].prior
BY DEF TypeOK, Finish, Goes, Job

(* What the type of the state says of the parts that the proofs compare.   *)
LEMMA Types ==
    ASSUME TypeOK
    PROVE  /\ guest \in Guest /\ tree \in [Trees -> Schemas] /\ moved \in [Trees -> Schemas \cup {9}]
           /\ archive \in Archive /\ job \in [Jobs -> Job]
           /\ State \in 0..2 /\ archive.schemas[StateTree] \in 0..2 /\ moved[StateTree] \in (0..2) \cup {9}
           /\ guest.running \in 0..2 /\ guest.image \in 0..2
           /\ \A n \in Jobs : job[n].image \in 1..2 /\ job[n].prior \in SUBSET {"gateway", "worker"}
BY DEF TypeOK, Archive, Guest, Job, State

(* Where a program stands when one of its requests is under way.           *)
LEMMA Positions ==
    ASSUME ProgramInv, MemoryInv, host.job # 0
    PROVE  LET op == job[host.job].op IN
           /\ Left \in Nat
           /\ op \in {"backup", "stop", "restore", "apply", "prepare", "inject", "clear", "reboot"}
           /\ op = "backup" => host.name = "candidate" /\ Left = 5
           /\ op = "stop" => host.name = "candidate" /\ Left = 2
           /\ op = "restore" => Left = 1 /\ host.name \in {"candidate", "isolated"}
           /\ op \in {"prepare", "inject"} => host.name = "live-start"
           /\ op = "clear" => Left = 1 /\ host.name \in {"live-undo", "live-stop"}
           /\ op = "apply" => \/ Left = 0 /\ host.name # "none"
                              \/ Left = 4 /\ host.name = "candidate"
           /\ host.name # "none"
<1>1. Left \in Nat /\ <<host.name, Left + 1, job[host.job].op>> \in Dues
  BY DEF ProgramInv, MemoryInv, HostState, Fits, Left
<1>2. QED BY <1>1 DEF Dues

(* What every step of a request keeps: it is the only one, and its program *)
(* stands where it stood.                                                  *)
LEMMA JobFrame ==
    ASSUME NEW n \in Jobs, NEW s, NEW o, TypeOK, MemoryInv, Goes(n, s, o), job[n].op # "none",
         UNCHANGED host, Alone, ProgramInv
    PROVE  n = host.job /\ Alone' /\ ProgramInv' /\ (ImageInv /\ guest'.image = guest.image => ImageInv')
<1>1. n = host.job /\ Alone'
  BY DEF Alone, Goes
<1>3. ProgramInv'
  BY <1>1 DEF ProgramInv, Fits, Goes, Left
<1>4. ASSUME ImageInv, guest'.image = guest.image PROVE ImageInv'
  BY <1>1, <1>4 DEF ImageInv, FitsImage, DueImage, Goes, Left
<1>5. QED BY <1>1, <1>3, <1>4

(* What a step leaves of the guest: every field but those of F.            *)
SameBut(F) ==
    /\ guest' \in Guest
    /\ "mounted" \notin F => guest'.mounted = guest.mounted
    /\ "tmp" \notin F => guest'.tmp = guest.tmp
    /\ guest'.env = guest.env
    /\ "swap" \notin F => guest'.swap = guest.swap
    /\ "gateway" \notin F => guest'.gateway = guest.gateway
    /\ "worker" \notin F => guest'.worker = guest.worker
    /\ "running" \notin F => guest'.running = guest.running
    /\ "unit" \notin F => guest'.unit = guest.unit
    /\ "image" \notin F => guest'.image = guest.image

(* What each assignment of the actions leaves: to the gateway alone.       *)
LEMMA GatewaySet ==
    ASSUME TypeOK, NEW a \in BOOLEAN, guest' = [guest EXCEPT !.gateway = a]
    PROVE  SameBut({"gateway"}) /\ guest'.gateway = a
BY DEF TypeOK, Guest, SameBut

(* prepare: swap off and the gateway stopped.                              *)
LEMMA SwapSet ==
    ASSUME TypeOK, NEW a \in BOOLEAN, NEW b \in BOOLEAN, guest' = [guest EXCEPT !.swap = a, !.gateway = b]
    PROVE  SameBut({"swap", "gateway"}) /\ guest'.swap = a /\ guest'.gateway = b
BY DEF TypeOK, Guest, SameBut

(* The tmpfs comes or goes.                                                *)
LEMMA MountSet ==
    ASSUME TypeOK, NEW a \in BOOLEAN, NEW t \in {"none", "live"},
           guest' = [guest EXCEPT !.mounted = a, !.tmp = t]
    PROVE  SameBut({"mounted", "tmp"}) /\ guest'.mounted = a /\ guest'.tmp = t
BY DEF TypeOK, Guest, SameBut

(* A secret in it.                                                         *)
LEMMA TmpSet ==
    ASSUME TypeOK, NEW t \in {"none", "live"}, guest' = [guest EXCEPT !.tmp = t]
    PROVE  SameBut({"tmp"}) /\ guest'.tmp = t
BY DEF TypeOK, Guest, SameBut

(* Both services.                                                          *)
LEMMA ServicesSet ==
    ASSUME TypeOK, NEW a \in BOOLEAN, NEW b \in BOOLEAN, guest' = [guest EXCEPT !.gateway = a, !.worker = b]
    PROVE  SameBut({"gateway", "worker"}) /\ guest'.gateway = a /\ guest'.worker = b
BY DEF TypeOK, Guest, SameBut

(* The gateway with its image.                                             *)
LEMMA StartedSet ==
    ASSUME TypeOK, NEW a \in BOOLEAN, NEW r \in Schemas,
           guest' = [guest EXCEPT !.gateway = a, !.running = r]
    PROVE  SameBut({"gateway", "running"}) /\ guest'.gateway = a /\ guest'.running = r
BY DEF TypeOK, Guest, SameBut

(* apply restarts both services.                                           *)
LEMMA RestartSet ==
    ASSUME TypeOK, NEW a \in BOOLEAN, NEW b \in BOOLEAN, NEW r \in Schemas,
           guest' = [[guest EXCEPT !.gateway = a, !.running = r] EXCEPT !.worker = b]
    PROVE  /\ SameBut({"gateway", "running", "worker"})
           /\ guest'.gateway = a /\ guest'.running = r /\ guest'.worker = b
BY DEF TypeOK, Guest, SameBut

(* The services that ran before come back.                                 *)
LEMMA RestartedSet ==
    ASSUME TypeOK, NEW a \in BOOLEAN, NEW b \in BOOLEAN, NEW r \in Schemas,
           guest' = [guest EXCEPT !.gateway = a, !.worker = b, !.running = r]
    PROVE  /\ SameBut({"gateway", "running", "worker"})
           /\ guest'.gateway = a /\ guest'.running = r /\ guest'.worker = b
BY DEF TypeOK, Guest, SameBut

(* The two truth values are there to be assigned.                          *)
LEMMA TruthValues == TRUE \in BOOLEAN /\ FALSE \in BOOLEAN
OBVIOUS

(* Upgraded: the schema of the gateway's tree.                             *)
Grows(i) ==
    /\ tree' \in [Trees -> Schemas]
    /\ State' = IF guest.mounted THEN State ELSE Newer(State, i)

(* An image that runs on the state brings it to its schema.                *)
LEMMA Upgrading ==
    ASSUME TypeOK, NEW i \in Schemas, tree' = Upgraded(guest, i)
    PROVE  Grows(i)
BY DEF TypeOK, Upgraded, Grows, State, Newer

(* The services that ran before are started again.                         *)
Resumes(n) ==
    /\ SameBut({"gateway", "running", "worker"})
    /\ IF "gateway" \in job[n].prior
       THEN guest'.gateway /\ guest'.running = guest.image
       ELSE guest'.gateway = guest.gateway /\ guest'.running = guest.running

(* Those that did not run before are left alone.                           *)
LEMMA Resuming ==
    ASSUME TypeOK, NEW n \in Jobs, guest' = Restarted(job[n].prior)
    PROVE  Resumes(n)
<1> DEFINE a == guest.gateway \/ "gateway" \in job[n].prior
           b == guest.worker \/ "worker" \in job[n].prior
           r == IF "gateway" \in job[n].prior THEN guest.image ELSE guest.running
<1>1. a \in BOOLEAN /\ b \in BOOLEAN /\ r \in Schemas
  BY Types
<1>2. guest' = [guest EXCEPT !.gateway = a, !.worker = b, !.running = r]
  BY Zenon DEF Restarted
<1>3. a = IF "gateway" \in job[n].prior THEN TRUE ELSE guest.gateway
  BY Types DEF Guest
<1>4. r = IF "gateway" \in job[n].prior THEN guest.image ELSE guest.running
  OBVIOUS
<1> HIDE DEF a, b, r
<1>5. SameBut({"gateway", "running", "worker"}) /\ guest'.gateway = a /\ guest'.running = r
  BY <1>1, <1>2, RestartedSet
<1>6. QED BY <1>3, <1>4, <1>5 DEF Resumes

(* RestartPrior: they run on the state as it is, which grows to the image. *)
LEMMA PriorResuming ==
    ASSUME TypeOK, NEW n \in Jobs, RestartPrior(n)
    PROVE  /\ Resumes(n)
           /\ IF "gateway" \in job[n].prior THEN Grows(guest.image) ELSE tree' = tree
BY Resuming, Upgrading, Types DEF RestartPrior

(* A step of the only job there is: what may be taken as given, without a  *)
(* job that outlived its command and without any fault, and what is then   *)
(* left to show.                                                           *)
Calm(n) ==
    /\ n = host.job /\ ~orphaned /\ Alone /\ ProgramInv /\ MountInv /\ RestoreInv
    /\ Alone' /\ ProgramInv'
Faultless(n) ==
    /\ Calm(n)
    /\ ImageInv /\ SchemaInv /\ StoppedInv
    /\ guest'.image = guest.image => ImageInv'

(* With these, the step of a job keeps the invariant.                      *)
LEMMA JobStep ==
    ASSUME NEW n \in Jobs, NEW s, NEW o, GInv,
           Goes(n, s, o), job[n].op # "none", UNCHANGED <<host, orphaned>>, faults' # 0 \/ faults = 0,
           TypeOK' /\ MemoryInv',
           Calm(n) => MountInv' /\ RestoreInv',
           Faultless(n) /\ faults' = 0 => ImageInv' /\ SchemaInv' /\ StoppedInv'
    PROVE  GInv'
<1>1. ASSUME ~orphaned PROVE Calm(n)
  BY <1>1, JobFrame DEF Calm, CalmInv
<1>2. ASSUME faults = 0 PROVE Faultless(n)
  <2>1. ~orphaned
    BY <1>2 DEF MemoryInv, TypeOK
  <2>2. Calm(n) /\ ImageInv /\ SchemaInv /\ StoppedInv
    BY <1>1, <1>2, <2>1 DEF FaultlessInv
  <2>3. guest'.image = guest.image => ImageInv'
    BY <2>2, JobFrame DEF Calm
  <2>4. QED BY <2>2, <2>3 DEF Faultless
<1>3. CalmInv'
  BY <1>1 DEF Calm, CalmInv
<1>4. FaultlessInv'
  BY <1>2 DEF FaultlessInv
<1>5. QED BY <1>3, <1>4

USE DEF Calm, Faultless

-----------------------------------------------------------------------------
(* profile-deploy.py apply.                                                *)

(* apply takes the deployment lock or fails.                               *)
LEMMA ApplyLockKeeps ==
    ASSUME NEW n \in Jobs, GInv, ApplyLock(n)
    PROVE  GInv'
<1>1. /\ At(n, "apply", "lock")
      /\ UNCHANGED <<host, scripts, orphaned, abandoned>> /\ faults' = faults
      /\ UNCHANGED <<tree, moved, archive>>
      /\ UNCHANGED guest
      /\ job'[n].prior = job[n].prior
      /\ \/ holder = 0 /\ holder' = n /\ Goes(n, "instance", job[n].ok)
         \/ holder # 0 /\ holder' = holder /\ Goes(n, "end", "no")
  BY Stepping, Finishing DEF ApplyLock, rest, Steps, Lock
<1>2. TypeOK' /\ MemoryInv'
  BY <1>1, Types DEF TypeOK, MemoryInv, At, Goes
<1>3. ASSUME Calm(n) PROVE MountInv' /\ RestoreInv'
  <2>1. MountInv'
    BY <1>1, <1>3, Positions DEF At, Goes, MountInv, Passed, Left
  <2>2. RestoreInv'
    BY <1>1, <1>3, Positions DEF At, Goes, RestoreInv, MountInv, Restoring, Abandoning, Whole, Alone
  <2>3. QED BY <2>1, <2>2
<1>4. ASSUME Faultless(n), faults' = 0 PROVE ImageInv' /\ SchemaInv' /\ StoppedInv'
  <2>1. ImageInv'
    BY <1>1, <1>4, Positions DEF At, Goes, ImageInv, FitsImage, DueImage, Left
  <2>2. SchemaInv'
    BY <1>1, <1>4, Positions, Types DEF At, Goes, SchemaInv, MountInv, RestoreInv, Restoring, Alone,
         StoppedInv, State
  <2>3. StoppedInv'
    <3>1. Left' \in {0, 4} /\ \A m \in Jobs : job'[m].op # "restore"
      BY <1>1, <1>4, Positions DEF At, Goes, Alone, Left
    <3>2. QED BY <3>1 DEF StoppedInv
  <2>4. QED BY <2>1, <2>2, <2>3
<1>5. QED BY <1>1, <1>2, <1>3, <1>4, JobStep DEF At

(* The profile's environment is there, of the mode that is wanted.         *)
LEMMA EnsureInstanceKeeps ==
    ASSUME NEW n \in Jobs, GInv, EnsureInstance(n)
    PROVE  GInv'
<1>1. /\ At(n, "apply", "instance")
      /\ UNCHANGED <<host, scripts, orphaned, abandoned>> /\ faults' = faults
      /\ UNCHANGED <<tree, moved, archive>>
      /\ holder' = holder
      /\ SameBut({})
      /\ Goes(n, "configure", job[n].ok)
  <2>1. guest' = [guest EXCEPT !.env = guest.env] /\ guest \in Guest /\ guest.env = "synthetic"
    BY Types DEF EnsureInstance, MemoryInv, Env
  <2>2. SameBut({})
    BY <2>1 DEF Guest, SameBut
  <2>3. Goes(n, "configure", job[n].ok)
    BY DEF EnsureInstance, TypeOK, Job, Goes
  <2>4. QED BY <2>1, <2>2, <2>3, Stepping DEF EnsureInstance, rest, Steps
<1>2. TypeOK' /\ MemoryInv'
  BY <1>1, Types DEF TypeOK, MemoryInv, At, Goes, SameBut
<1>3. ASSUME Calm(n) PROVE MountInv' /\ RestoreInv'
  <2>1. MountInv'
    BY <1>1, <1>3, Positions DEF At, Goes, SameBut, MountInv, Passed, Left
  <2>2. RestoreInv'
    BY <1>1, <1>3, Positions DEF At, Goes, SameBut, RestoreInv, MountInv, Restoring, Abandoning, Whole, Alone
  <2>3. QED BY <2>1, <2>2
<1>4. ASSUME Faultless(n), faults' = 0 PROVE ImageInv' /\ SchemaInv' /\ StoppedInv'
  <2>1. ImageInv'
    BY <1>1, <1>4, Positions DEF At, Goes, SameBut, ImageInv, FitsImage, DueImage, Left
  <2>2. SchemaInv'
    BY <1>1, <1>4, Positions, Types DEF At, Goes, SameBut, SchemaInv, MountInv, RestoreInv, Restoring,
         Alone, StoppedInv, State
  <2>3. StoppedInv'
    <3>1. Left' \in {0, 4} /\ \A m \in Jobs : job'[m].op # "restore"
      BY <1>1, <1>4, Positions DEF At, Goes, Alone, Left
    <3>2. QED BY <3>1 DEF StoppedInv
  <2>4. QED BY <2>1, <2>2, <2>3
<1>5. QED BY <1>1, <1>2, <1>3, <1>4, JobStep DEF At

(* An environment of the other mode is refused.                            *)
LEMMA RefuseInstanceKeeps ==
    ASSUME NEW n \in Jobs, GInv, RefuseInstance(n)
    PROVE  GInv'
<1>1. /\ At(n, "apply", "instance")
      /\ UNCHANGED <<host, scripts, orphaned, abandoned>> /\ faults' = faults
      /\ UNCHANGED <<tree, moved, archive>>
      /\ UNCHANGED guest
      /\ holder' = (IF holder = n THEN 0 ELSE holder)
      /\ job'[n].prior = job[n].prior
      /\ Goes(n, "end", "no")
  BY Finishing DEF RefuseInstance, rest, Unlock
<1>2. TypeOK' /\ MemoryInv'
  BY <1>1, Types DEF TypeOK, MemoryInv, At, Goes
<1>3. ASSUME Calm(n) PROVE MountInv' /\ RestoreInv'
  <2>1. MountInv'
    BY <1>1, <1>3, Positions DEF At, Goes, MountInv, Passed, Left
  <2>2. RestoreInv'
    BY <1>1, <1>3, Positions DEF At, Goes, RestoreInv, MountInv, Restoring, Abandoning, Whole, Alone
  <2>3. QED BY <2>1, <2>2
<1>4. ASSUME Faultless(n), faults' = 0 PROVE ImageInv' /\ SchemaInv' /\ StoppedInv'
  <2>1. ImageInv'
    BY <1>1, <1>4, Positions DEF At, Goes, ImageInv, FitsImage, DueImage, Left
  <2>2. SchemaInv'
    BY <1>1, <1>4, Positions, Types DEF At, Goes, SchemaInv, MountInv, RestoreInv, Restoring, Alone,
         StoppedInv, State
  <2>3. StoppedInv'
    <3>1. Left' \in {0, 4} /\ \A m \in Jobs : job'[m].op # "restore"
      BY <1>1, <1>4, Positions DEF At, Goes, Alone, Left
    <3>2. QED BY <3>1 DEF StoppedInv
  <2>4. QED BY <2>1, <2>2, <2>3
<1>5. QED BY <1>1, <1>2, <1>3, <1>4, JobStep DEF At

(* The gateway may be stopped and the new image run on its state: no newer *)
(* than the one about to be installed.                                     *)
LEMMA ConfigureKeeps ==
    ASSUME NEW n \in Jobs, GInv, Configure(n)
    PROVE  GInv'
<1>1. /\ At(n, "apply", "configure")
      /\ UNCHANGED <<host, scripts, orphaned, abandoned>> /\ faults' = faults
      /\ UNCHANGED <<moved, archive, holder>>
      /\ job'[n].prior = job[n].prior
      /\ Goes(n, "units", job[n].ok)
      /\ \/ UNCHANGED <<guest, tree>>
         \/ SameBut({"gateway"}) /\ ~guest'.gateway /\ Grows(job[n].image)
  <2>1. job[n].image \in Schemas
    BY Types
  <2>2. tree' = Upgraded(guest, job[n].image) => Grows(job[n].image)
    BY <2>1, Upgrading
  <2>3. guest' = [guest EXCEPT !.gateway = FALSE] => SameBut({"gateway"}) /\ ~guest'.gateway
    BY GatewaySet, TruthValues
  <2>4. QED BY <2>1, <2>2, <2>3, Stepping DEF Configure, rest, Steps
<1>2. TypeOK' /\ MemoryInv'
  BY <1>1, Types DEF TypeOK, MemoryInv, Grows, At, Goes, SameBut
<1>3. ASSUME Calm(n) PROVE MountInv' /\ RestoreInv'
  <2>1. MountInv'
    BY <1>1, <1>3, Positions DEF At, Goes, SameBut, MountInv, Passed, Left
  <2>2. RestoreInv'
    BY <1>1, <1>3, Positions DEF At, Goes, SameBut, RestoreInv, MountInv, Restoring, Abandoning, Whole, Alone
  <2>3. QED BY <2>1, <2>2
<1>4. ASSUME Faultless(n), faults' = 0 PROVE ImageInv' /\ SchemaInv' /\ StoppedInv'
  <2>1. ImageInv'
    BY <1>1, <1>4, Positions DEF At, Goes, SameBut, ImageInv, FitsImage, DueImage, Left
  <2>2. SchemaInv'
    BY <1>1, <1>4, Positions, Types DEF At, Goes, SameBut, SchemaInv, MountInv, RestoreInv, Restoring,
         Alone, StoppedInv, State, Newer, Grows
  <2>3. StoppedInv'
    <3>1. Left' \in {0, 4} /\ \A m \in Jobs : job'[m].op # "restore"
      BY <1>1, <1>4, Positions DEF At, Goes, Alone, Left
    <3>2. QED BY <3>1 DEF StoppedInv
  <2>4. QED BY <2>1, <2>2, <2>3
<1>5. QED BY <1>1, <1>2, <1>3, <1>4, JobStep DEF At

(* The installed image becomes the requested one, which the state does not *)
(* exceed.                                                                 *)
LEMMA InstallQuadletsKeeps ==
    ASSUME NEW n \in Jobs, GInv, InstallQuadlets(n)
    PROVE  GInv'
<1>1. /\ At(n, "apply", "units")
      /\ UNCHANGED <<host, scripts, orphaned, abandoned>> /\ faults' = faults
      /\ UNCHANGED <<tree, moved, archive>>
      /\ holder' = holder
      /\ job'[n].prior = job[n].prior
      /\ Goes(n, "restart", job[n].ok)
      /\ SameBut({"unit", "image"})
      /\ guest'.image = job[n].image
  <2>1. guest \in Guest /\ job[n].image \in Images /\ job[n].mode \in {"synthetic", "live"}
        /\ guest' = [guest EXCEPT !.unit = job[n].mode, !.image = job[n].image]
    BY Types DEF InstallQuadlets, Job
  <2>2. SameBut({"unit", "image"}) /\ guest'.image = job[n].image
    BY <2>1 DEF Guest, SameBut
  <2>3. QED BY <2>1, <2>2, Stepping DEF InstallQuadlets, rest, Steps
<1>2. TypeOK' /\ MemoryInv'
  BY <1>1, Types DEF TypeOK, MemoryInv, At, Goes, SameBut
<1>3. ASSUME Calm(n) PROVE MountInv' /\ RestoreInv'
  <2>1. MountInv'
    BY <1>1, <1>3, Positions DEF At, Goes, SameBut, MountInv, Passed, Left
  <2>2. RestoreInv'
    BY <1>1, <1>3, Positions DEF At, Goes, SameBut, RestoreInv, MountInv, Restoring, Abandoning, Whole, Alone
  <2>3. QED BY <2>1, <2>2
<1>4. ASSUME Faultless(n), faults' = 0 PROVE ImageInv' /\ SchemaInv' /\ StoppedInv'
  <2>1. ImageInv'
    BY <1>1, <1>4, Positions DEF At, Goes, SameBut, ImageInv, FitsImage, DueImage, Left
  <2>2. SchemaInv'
    BY <1>1, <1>4, Positions, Types DEF At, Goes, SameBut, SchemaInv, MountInv, RestoreInv, Restoring,
         Alone, StoppedInv, State
  <2>3. StoppedInv'
    <3>1. Left' \in {0, 4} /\ \A m \in Jobs : job'[m].op # "restore"
      BY <1>1, <1>4, Positions DEF At, Goes, Alone, Left
    <3>2. QED BY <3>1 DEF StoppedInv
  <2>4. QED BY <2>1, <2>2, <2>3
<1>5. QED BY <1>1, <1>2, <1>3, <1>4, JobStep DEF At

(* The installed image runs, and the state is brought to it.               *)
LEMMA RestartKeeps ==
    ASSUME NEW n \in Jobs, GInv, Restart(n)
    PROVE  GInv'
<1>1. /\ At(n, "apply", "restart")
      /\ UNCHANGED <<host, scripts, orphaned, abandoned>> /\ faults' = faults
      /\ UNCHANGED <<moved, archive, holder>>
      /\ job'[n].prior = job[n].prior
      /\ Goes(n, "verify", job[n].ok)
      /\ SameBut({"gateway", "running", "worker"})
      /\ guest'.gateway /\ guest'.running = guest.image
      /\ Grows(guest.image)
  <2>1. guest.image \in Schemas
    BY Types
  <2>2. Grows(guest.image)
    BY <2>1, Upgrading DEF Restart
  <2>3. SameBut({"gateway", "running", "worker"}) /\ guest'.gateway /\ guest'.running = guest.image
    BY <2>1, RestartSet, TruthValues DEF Restart, Started
  <2>4. QED BY <2>1, <2>2, <2>3, Stepping DEF Restart, rest, Steps
<1>2. TypeOK' /\ MemoryInv'
  BY <1>1, Types DEF TypeOK, MemoryInv, Grows, At, Goes, SameBut
<1>3. ASSUME Calm(n) PROVE MountInv' /\ RestoreInv'
  <2>1. MountInv'
    BY <1>1, <1>3, Positions DEF At, Goes, SameBut, MountInv, Passed, Left
  <2>2. RestoreInv'
    BY <1>1, <1>3, Positions DEF At, Goes, SameBut, RestoreInv, MountInv, Restoring, Abandoning, Whole, Alone
  <2>3. QED BY <2>1, <2>2
<1>4. ASSUME Faultless(n), faults' = 0 PROVE ImageInv' /\ SchemaInv' /\ StoppedInv'
  <2>1. ImageInv'
    BY <1>1, <1>4, Positions DEF At, Goes, SameBut, ImageInv, FitsImage, DueImage, Left
  <2>2. SchemaInv'
    BY <1>1, <1>4, Positions, Types DEF At, Goes, SameBut, SchemaInv, MountInv, RestoreInv, Restoring,
         Alone, StoppedInv, State, Newer, Grows
  <2>3. StoppedInv'
    <3>1. Left' \in {0, 4} /\ \A m \in Jobs : job'[m].op # "restore"
      BY <1>1, <1>4, Positions DEF At, Goes, Alone, Left
    <3>2. QED BY <3>1 DEF StoppedInv
  <2>4. QED BY <2>1, <2>2, <2>3
<1>5. QED BY <1>1, <1>2, <1>3, <1>4, JobStep DEF At

(* A verified deployment ends well.                                        *)
LEMMA VerifyKeeps ==
    ASSUME NEW n \in Jobs, GInv, Verify(n)
    PROVE  GInv'
<1>1. /\ At(n, "apply", "verify")
      /\ UNCHANGED <<host, scripts, orphaned, abandoned>> /\ faults' = faults
      /\ UNCHANGED <<tree, moved, archive>>
      /\ UNCHANGED guest
      /\ holder' = (IF holder = n THEN 0 ELSE holder)
      /\ job'[n].prior = job[n].prior
      /\ Goes(n, "end", "yes")
  BY Finishing DEF Verify, rest, Unlock
<1>2. TypeOK' /\ MemoryInv'
  BY <1>1, Types DEF TypeOK, MemoryInv, At, Goes
<1>3. ASSUME Calm(n) PROVE MountInv' /\ RestoreInv'
  <2>1. MountInv'
    BY <1>1, <1>3, Positions DEF At, Goes, MountInv, Passed, Left
  <2>2. RestoreInv'
    BY <1>1, <1>3, Positions DEF At, Goes, RestoreInv, MountInv, Restoring, Abandoning, Whole, Alone
  <2>3. QED BY <2>1, <2>2
<1>4. ASSUME Faultless(n), faults' = 0 PROVE ImageInv' /\ SchemaInv' /\ StoppedInv'
  <2>1. ImageInv'
    BY <1>1, <1>4, Positions DEF At, Goes, ImageInv, FitsImage, DueImage, Left
  <2>2. SchemaInv'
    BY <1>1, <1>4, Positions, Types DEF At, Goes, SchemaInv, MountInv, RestoreInv, Restoring, Alone,
         StoppedInv, State
  <2>3. StoppedInv'
    <3>1. Left' \in {0, 4} /\ \A m \in Jobs : job'[m].op # "restore"
      BY <1>1, <1>4, Positions DEF At, Goes, Alone, Left
    <3>2. QED BY <3>1 DEF StoppedInv
  <2>4. QED BY <2>1, <2>2, <2>3
<1>5. QED BY <1>1, <1>2, <1>3, <1>4, JobStep DEF At

(* A failed deployment may start the gateway again; without any fault it   *)
(* is one that did not verify.                                             *)
LEMMA ApplyFailsKeeps ==
    ASSUME NEW n \in Jobs, GInv, ApplyFails(n)
    PROVE  GInv'
<1>1. /\ job[n].op = "apply" /\ job[n].step \in {"configure", "units", "restart", "verify"}
      /\ UNCHANGED <<host, scripts, orphaned, abandoned, moved, archive>>
      /\ holder' = (IF holder = n THEN 0 ELSE holder)
      /\ job'[n].prior = job[n].prior
      /\ Goes(n, "end", "no")
      /\ (faults' = faults /\ job[n].step = "verify") \/ (faults' = faults + 1 /\ faults < MaxFaults)
      /\ \/ UNCHANGED <<guest, tree>>
         \/ SameBut({"gateway", "running"}) /\ guest'.gateway /\ guest'.running = guest.image /\ Grows(guest.image)
  <2>1. guest.image \in Schemas
    BY Types
  <2>2. tree' = Upgraded(guest, guest.image) => Grows(guest.image)
    BY <2>1, Upgrading
  <2>3. guest' = Started(guest) =>
           SameBut({"gateway", "running"}) /\ guest'.gateway /\ guest'.running = guest.image
    BY <2>1, StartedSet, TruthValues DEF Started
  <2>4. QED BY <2>1, <2>2, <2>3, Finishing DEF ApplyFails, rest, Unlock, Fault
<1>2. TypeOK' /\ MemoryInv'
  BY <1>1, Types DEF TypeOK, MemoryInv, Grows, At, Goes, SameBut
<1>3. ASSUME Calm(n) PROVE MountInv' /\ RestoreInv'
  <2>1. MountInv'
    BY <1>1, <1>3, Positions DEF At, Goes, SameBut, MountInv, Passed, Left
  <2>2. RestoreInv'
    BY <1>1, <1>3, Positions DEF At, Goes, SameBut, RestoreInv, MountInv, Restoring, Abandoning, Whole, Alone
  <2>3. QED BY <2>1, <2>2
<1>4. ASSUME Faultless(n), faults' = 0 PROVE ImageInv' /\ SchemaInv' /\ StoppedInv'
  <2>1. ImageInv'
    BY <1>1, <1>4, Positions DEF At, Goes, SameBut, ImageInv, FitsImage, DueImage, Left
  <2>2. SchemaInv'
    <3>1. job[n].step = "verify" /\ job'[n].step = "end" /\ State <= guest.image
          /\ moved[StateTree] = 9 /\ moved'[StateTree] = 9
      BY <1>1, <1>4, <1>4, Types DEF Goes, At, Alone, SchemaInv, Restoring, TypeOK
    <3>2. CASE UNCHANGED <<guest, tree>>
      BY <1>1, <1>4, <3>1, <3>2, Types DEF At, Goes, SchemaInv, Alone, State
    <3>3. CASE SameBut({"gateway", "running"}) /\ guest'.running = guest.image /\ Grows(guest.image)
      BY <1>1, <1>4, <3>1, <3>3, Types DEF At, Goes, SameBut, SchemaInv, Alone, State, Newer, Grows
    <3>4. QED BY <1>1, <3>2, <3>3
  <2>3. StoppedInv'
    <3>1. Left' \in {0, 4} /\ \A m \in Jobs : job'[m].op # "restore"
      BY <1>1, <1>4, Positions DEF At, Goes, Alone, Left
    <3>2. QED BY <3>1 DEF StoppedInv
  <2>4. QED BY <2>1, <2>2, <2>3
<1>5. QED BY <1>1, <1>2, <1>3, <1>4, JobStep DEF At, TypeOK

-----------------------------------------------------------------------------
(* live-guest.py.                                                          *)

(* prepare turns swap off before it mounts; only a synthetic guest gets    *)
(* that far.                                                               *)
LEMMA PrepareKeeps ==
    ASSUME NEW n \in Jobs, GInv, Prepare(n)
    PROVE  GInv'
<1>1. /\ At(n, "prepare", "lock")
      /\ UNCHANGED <<host, scripts, orphaned, abandoned>> /\ faults' = faults
      /\ UNCHANGED <<tree, moved, archive>>
      /\ holder' = holder
      /\ job'[n].prior = job[n].prior
      /\ \/ SameBut({"swap", "gateway"}) /\ ~guest'.swap /\ ~guest'.gateway /\ Goes(n, "mount", job[n].ok)
         \/ UNCHANGED guest /\ Goes(n, "end", "no")
  <2>1. guest' = [guest EXCEPT !.swap = FALSE, !.gateway = FALSE] =>
           SameBut({"swap", "gateway"}) /\ ~guest'.swap /\ ~guest'.gateway
    BY SwapSet, TruthValues
  <2>2. QED BY <2>1, Stepping, Finishing DEF Prepare, rest, Steps
<1>2. TypeOK' /\ MemoryInv'
  BY <1>1, Types DEF TypeOK, MemoryInv, At, Goes, SameBut
<1>3. ASSUME Calm(n) PROVE MountInv' /\ RestoreInv'
  <2>1. MountInv'
    BY <1>1, <1>3, Positions DEF At, Goes, SameBut, MountInv, Passed, Left
  <2>2. RestoreInv'
    BY <1>1, <1>3, Positions DEF At, Goes, SameBut, RestoreInv, MountInv, Restoring, Abandoning, Whole, Alone
  <2>3. QED BY <2>1, <2>2
<1>4. ASSUME Faultless(n), faults' = 0 PROVE ImageInv' /\ SchemaInv' /\ StoppedInv'
  <2>1. ImageInv'
    BY <1>1, <1>4, Positions DEF At, Goes, SameBut, ImageInv, FitsImage, DueImage, Left
  <2>2. SchemaInv'
    BY <1>1, <1>4, Positions, Types DEF At, Goes, SameBut, SchemaInv, MountInv, RestoreInv, Restoring,
         Alone, StoppedInv, State
  <2>3. StoppedInv'
    BY <1>1, <1>4, Positions, Types DEF At, Goes, SameBut, SchemaInv, MountInv, Alone, StoppedInv, State,
         Passed, Left
  <2>4. QED BY <2>1, <2>2, <2>3
<1>5. QED BY <1>1, <1>2, <1>3, <1>4, JobStep DEF At

(* The tmpfs is mounted with swap off, for live-start.                     *)
LEMMA MountKeeps ==
    ASSUME NEW n \in Jobs, GInv, Mount(n)
    PROVE  GInv'
<1>1. /\ At(n, "prepare", "mount")
      /\ UNCHANGED <<host, scripts, orphaned, abandoned>> /\ faults' = faults
      /\ UNCHANGED <<tree, moved, archive>>
      /\ holder' = holder
      /\ job'[n].prior = job[n].prior
      /\ Goes(n, "end", "yes")
      /\ SameBut({"mounted", "tmp"}) /\ guest'.mounted /\ guest'.tmp = "none"
  <2>1. SameBut({"mounted", "tmp"}) /\ guest'.mounted /\ guest'.tmp = "none"
    BY MountSet, TruthValues DEF Mount
  <2>2. QED BY <2>1, Finishing DEF Mount, rest
<1>2. TypeOK' /\ MemoryInv'
  BY <1>1, Types DEF TypeOK, MemoryInv, At, Goes, SameBut
<1>3. ASSUME Calm(n) PROVE MountInv' /\ RestoreInv'
  <2>1. MountInv'
    BY <1>1, <1>3, Positions DEF At, Goes, SameBut, MountInv, Passed, Left
  <2>2. RestoreInv'
    BY <1>1, <1>3, Positions DEF At, Goes, SameBut, RestoreInv, MountInv, Restoring, Abandoning, Whole, Alone
  <2>3. QED BY <2>1, <2>2
<1>4. ASSUME Faultless(n), faults' = 0 PROVE ImageInv' /\ SchemaInv' /\ StoppedInv'
  <2>1. ImageInv'
    BY <1>1, <1>4, Positions DEF At, Goes, SameBut, ImageInv, FitsImage, DueImage, Left
  <2>2. SchemaInv'
    BY <1>1, <1>4, Positions, Types DEF At, Goes, SameBut, SchemaInv, MountInv, RestoreInv, Restoring,
         Alone, StoppedInv, State
  <2>3. StoppedInv'
    BY <1>1, <1>4, Positions, Types DEF At, Goes, SameBut, SchemaInv, MountInv, Alone, StoppedInv, State,
         Passed, Left
  <2>4. QED BY <2>1, <2>2, <2>3
<1>5. QED BY <1>1, <1>2, <1>3, <1>4, JobStep DEF At

(* It fails with the tmpfs mounted.                                        *)
LEMMA MountFailsKeeps ==
    ASSUME NEW n \in Jobs, GInv, MountFails(n)
    PROVE  GInv'
<1>1. /\ At(n, "prepare", "mount")
      /\ UNCHANGED <<host, scripts, orphaned, abandoned>> /\ faults' = faults + 1 /\ faults < MaxFaults
      /\ UNCHANGED <<tree, moved, archive>>
      /\ holder' = holder
      /\ job'[n].prior = job[n].prior
      /\ Goes(n, "end", "no")
      /\ SameBut({"mounted", "tmp"}) /\ guest'.mounted /\ guest'.tmp = "none"
  <2>1. SameBut({"mounted", "tmp"}) /\ guest'.mounted /\ guest'.tmp = "none"
    BY MountSet, TruthValues DEF MountFails
  <2>2. QED BY <2>1, Finishing DEF MountFails, Fault
<1>2. TypeOK' /\ MemoryInv'
  BY <1>1, Types DEF TypeOK, MemoryInv, At, Goes, SameBut
<1>3. ASSUME Calm(n) PROVE MountInv' /\ RestoreInv'
  <2>1. MountInv'
    BY <1>1, <1>3, Positions DEF At, Goes, SameBut, MountInv, Passed, Left
  <2>2. RestoreInv'
    BY <1>1, <1>3, Positions DEF At, Goes, SameBut, RestoreInv, MountInv, Restoring, Abandoning, Whole, Alone
  <2>3. QED BY <2>1, <2>2
<1>4. QED BY <1>1, <1>2, <1>3, JobStep DEF At, TypeOK

(* inject checks the mount.                                                *)
LEMMA InjectKeeps ==
    ASSUME NEW n \in Jobs, GInv, Inject(n)
    PROVE  GInv'
<1>1. /\ At(n, "inject", "lock")
      /\ UNCHANGED <<host, scripts, orphaned, abandoned>> /\ faults' = faults
      /\ UNCHANGED <<tree, moved, archive>>
      /\ UNCHANGED guest
      /\ holder' = holder
      /\ job'[n].prior = job[n].prior
      /\ Goes(n, "write", job[n].ok) \/ Goes(n, "end", "no")
  BY Stepping, Finishing DEF Inject, rest, Steps
<1>2. TypeOK' /\ MemoryInv'
  BY <1>1, Types DEF TypeOK, MemoryInv, At, Goes
<1>3. ASSUME Calm(n) PROVE MountInv' /\ RestoreInv'
  <2>1. MountInv'
    BY <1>1, <1>3, Positions DEF At, Goes, MountInv, Passed, Left
  <2>2. RestoreInv'
    BY <1>1, <1>3, Positions DEF At, Goes, RestoreInv, MountInv, Restoring, Abandoning, Whole, Alone
  <2>3. QED BY <2>1, <2>2
<1>4. ASSUME Faultless(n), faults' = 0 PROVE ImageInv' /\ SchemaInv' /\ StoppedInv'
  <2>1. ImageInv'
    BY <1>1, <1>4, Positions DEF At, Goes, ImageInv, FitsImage, DueImage, Left
  <2>2. SchemaInv'
    BY <1>1, <1>4, Positions, Types DEF At, Goes, SchemaInv, MountInv, RestoreInv, Restoring, Alone,
         StoppedInv, State
  <2>3. StoppedInv'
    BY <1>1, <1>4, Positions, Types DEF At, Goes, SchemaInv, MountInv, Alone, StoppedInv, State, Passed, Left
  <2>4. QED BY <2>1, <2>2, <2>3
<1>5. QED BY <1>1, <1>2, <1>3, <1>4, JobStep DEF At

(* The secret goes to the tmpfs: the file on disk exists, and is never     *)
(* overwritten.                                                            *)
LEMMA WriteSecretKeeps ==
    ASSUME NEW n \in Jobs, GInv, WriteSecret(n)
    PROVE  GInv'
<1>1. /\ At(n, "inject", "write")
      /\ UNCHANGED <<host, scripts, orphaned, abandoned>> /\ faults' = faults
      /\ UNCHANGED <<tree, moved, archive>>
      /\ holder' = holder
      /\ job'[n].prior = job[n].prior
      /\ \/ guest.mounted /\ SameBut({"tmp"}) /\ Goes(n, "end", "yes")
         \/ UNCHANGED guest /\ Goes(n, "end", "no")
  <2>1. guest' = [guest EXCEPT !.tmp = "live"] => SameBut({"tmp"})
    BY TmpSet
  <2>2. Env = "none" => guest.mounted
    BY DEF Env, MemoryInv
  <2>3. QED BY <2>1, <2>2, Finishing DEF WriteSecret, rest
<1>2. TypeOK' /\ MemoryInv'
  BY <1>1, Types DEF TypeOK, MemoryInv, At, Goes, SameBut
<1>3. ASSUME Calm(n) PROVE MountInv' /\ RestoreInv'
  <2>1. MountInv'
    BY <1>1, <1>3, Positions DEF At, Goes, SameBut, MountInv, Passed, Left
  <2>2. RestoreInv'
    BY <1>1, <1>3, Positions DEF At, Goes, SameBut, RestoreInv, MountInv, Restoring, Abandoning, Whole, Alone
  <2>3. QED BY <2>1, <2>2
<1>4. ASSUME Faultless(n), faults' = 0 PROVE ImageInv' /\ SchemaInv' /\ StoppedInv'
  <2>1. ImageInv'
    BY <1>1, <1>4, Positions DEF At, Goes, SameBut, ImageInv, FitsImage, DueImage, Left
  <2>2. SchemaInv'
    BY <1>1, <1>4, Positions, Types DEF At, Goes, SameBut, SchemaInv, MountInv, RestoreInv, Restoring,
         Alone, StoppedInv, State
  <2>3. StoppedInv'
    BY <1>1, <1>4, Positions, Types DEF At, Goes, SameBut, SchemaInv, MountInv, Alone, StoppedInv, State,
         Passed, Left
  <2>4. QED BY <2>1, <2>2, <2>3
<1>5. QED BY <1>1, <1>2, <1>3, <1>4, JobStep DEF At

(* The gateway is stopped.                                                 *)
LEMMA ClearKeeps ==
    ASSUME NEW n \in Jobs, GInv, Clear(n)
    PROVE  GInv'
<1>1. /\ At(n, "clear", "lock")
      /\ UNCHANGED <<host, scripts, orphaned, abandoned>> /\ faults' = faults
      /\ UNCHANGED <<tree, moved, archive>>
      /\ holder' = holder
      /\ job'[n].prior = job[n].prior
      /\ Goes(n, "umount", job[n].ok)
      /\ SameBut({"gateway"}) /\ ~guest'.gateway
  <2>1. SameBut({"gateway"}) /\ ~guest'.gateway
    BY GatewaySet, TruthValues DEF Clear
  <2>2. QED BY <2>1, Stepping DEF Clear, rest, Steps
<1>2. TypeOK' /\ MemoryInv'
  BY <1>1, Types DEF TypeOK, MemoryInv, At, Goes, SameBut
<1>3. ASSUME Calm(n) PROVE MountInv' /\ RestoreInv'
  <2>1. MountInv'
    BY <1>1, <1>3, Positions DEF At, Goes, SameBut, MountInv, Passed, Left
  <2>2. RestoreInv'
    BY <1>1, <1>3, Positions DEF At, Goes, SameBut, RestoreInv, MountInv, Restoring, Abandoning, Whole, Alone
  <2>3. QED BY <2>1, <2>2
<1>4. ASSUME Faultless(n), faults' = 0 PROVE ImageInv' /\ SchemaInv' /\ StoppedInv'
  <2>1. ImageInv'
    BY <1>1, <1>4, Positions DEF At, Goes, SameBut, ImageInv, FitsImage, DueImage, Left
  <2>2. SchemaInv'
    BY <1>1, <1>4, Positions, Types DEF At, Goes, SameBut, SchemaInv, MountInv, RestoreInv, Restoring,
         Alone, StoppedInv, State
  <2>3. StoppedInv'
    BY <1>1, <1>4, Positions, Types DEF At, Goes, SameBut, SchemaInv, MountInv, Alone, StoppedInv, State,
         Passed, Left
  <2>4. QED BY <2>1, <2>2, <2>3
<1>5. QED BY <1>1, <1>2, <1>3, <1>4, JobStep DEF At

(* The tmpfs is gone, or a gateway keeps it and the job fails.             *)
LEMMA UmountKeeps ==
    ASSUME NEW n \in Jobs, GInv, Umount(n)
    PROVE  GInv'
<1>1. /\ At(n, "clear", "umount")
      /\ UNCHANGED <<host, scripts, orphaned, abandoned>> /\ faults' = faults
      /\ UNCHANGED <<tree, moved, archive>>
      /\ holder' = holder
      /\ job'[n].prior = job[n].prior
      /\ \/ UNCHANGED guest /\ Goes(n, "end", "no")
         \/ SameBut({"mounted", "tmp"}) /\ ~guest'.mounted /\ Goes(n, "end", "yes") /\ ~(guest.mounted /\ guest.gateway)
  <2>1. guest' = [guest EXCEPT !.mounted = FALSE, !.tmp = "none"] => SameBut({"mounted", "tmp"}) /\ ~guest'.mounted
    BY MountSet, TruthValues
  <2>2. QED BY <2>1, Finishing DEF Umount, rest
<1>2. TypeOK' /\ MemoryInv'
  BY <1>1, Types DEF TypeOK, MemoryInv, At, Goes, SameBut
<1>3. ASSUME Calm(n) PROVE MountInv' /\ RestoreInv'
  <2>1. MountInv'
    BY <1>1, <1>3, Positions DEF At, Goes, SameBut, MountInv, Passed, Left
  <2>2. RestoreInv'
    BY <1>1, <1>3, Positions DEF At, Goes, SameBut, RestoreInv, MountInv, Restoring, Abandoning, Whole, Alone
  <2>3. QED BY <2>1, <2>2
<1>4. ASSUME Faultless(n), faults' = 0 PROVE ImageInv' /\ SchemaInv' /\ StoppedInv'
  <2>1. ImageInv'
    BY <1>1, <1>4, Positions DEF At, Goes, SameBut, ImageInv, FitsImage, DueImage, Left
  <2>2. SchemaInv'
    BY <1>1, <1>4, Positions, Types DEF At, Goes, SameBut, SchemaInv, MountInv, RestoreInv, Restoring,
         Alone, StoppedInv, State
  <2>3. StoppedInv'
    BY <1>1, <1>4, Positions, Types DEF At, Goes, SameBut, SchemaInv, MountInv, Alone, StoppedInv, State,
         Passed, Left
  <2>4. QED BY <2>1, <2>2, <2>3
<1>5. QED BY <1>1, <1>2, <1>3, <1>4, JobStep DEF At

-----------------------------------------------------------------------------
(* lab_guest.py.                                                           *)

(* What touches state wants the synthetic profile and, to restore, an      *)
(* archive.                                                                *)
LEMMA CheckSyntheticKeeps ==
    ASSUME NEW n \in Jobs, GInv, CheckSynthetic(n)
    PROVE  GInv'
<1>1. /\ job[n].op \in {"backup", "stop", "restore"} /\ job[n].step = "lock"
      /\ UNCHANGED <<host, scripts, orphaned, abandoned>> /\ faults' = faults
      /\ UNCHANGED <<tree, moved, archive>>
      /\ UNCHANGED guest
      /\ holder' = holder
      /\ job'[n].prior = job[n].prior
      /\ \/ job[n].op = "stop" /\ Goes(n, "stop", job[n].ok)
         \/ job[n].op # "stop" /\ Goes(n, "instance", job[n].ok)
         \/ Goes(n, "end", "no")
  BY Stepping, Finishing DEF CheckSynthetic, rest, Steps
<1>2. TypeOK' /\ MemoryInv'
  BY <1>1, Types DEF TypeOK, MemoryInv, At, Goes
<1>3. ASSUME Calm(n) PROVE MountInv' /\ RestoreInv'
  <2>1. MountInv'
    BY <1>1, <1>3, Positions DEF At, Goes, MountInv, Passed, Left
  <2>2. RestoreInv'
    BY <1>1, <1>3, Positions DEF At, Goes, RestoreInv, MountInv, Restoring, Abandoning, Whole, Alone
  <2>3. QED BY <2>1, <2>2
<1>4. ASSUME Faultless(n), faults' = 0 PROVE ImageInv' /\ SchemaInv' /\ StoppedInv'
  <2>1. ImageInv'
    BY <1>1, <1>4, Positions DEF At, Goes, ImageInv, FitsImage, DueImage, Left
  <2>2. SchemaInv'
    BY <1>1, <1>4, Positions, Types DEF At, Goes, SchemaInv, MountInv, RestoreInv, Restoring, Alone,
         StoppedInv, State
  <2>3. StoppedInv'
    BY <1>1, <1>4, Positions, Types DEF At, Goes, SchemaInv, MountInv, Alone, StoppedInv, State, Passed, Left
  <2>4. QED BY <2>1, <2>2, <2>3
<1>5. QED BY <1>1, <1>2, <1>3, <1>4, JobStep DEF At

(* backup and restore take the deployment lock or fail.                    *)
LEMMA TakeLockKeeps ==
    ASSUME NEW n \in Jobs, GInv, TakeLock(n)
    PROVE  GInv'
<1>1. /\ job[n].op \in {"backup", "restore"} /\ job[n].step = "instance"
      /\ UNCHANGED <<host, scripts, orphaned, abandoned>> /\ faults' = faults
      /\ UNCHANGED <<tree, moved, archive>>
      /\ UNCHANGED guest
      /\ job'[n].prior = job[n].prior
      /\ \/ holder = 0 /\ holder' = n /\ Goes(n, "stop", job[n].ok)
         \/ holder # 0 /\ holder' = holder /\ Goes(n, "end", "no")
  BY Stepping, Finishing DEF TakeLock, rest, Steps, Lock
<1>2. TypeOK' /\ MemoryInv'
  <2>1. TypeOK'
    BY <1>1, Types DEF TypeOK, MemoryInv, At, Goes
  <2>2. MemoryInv'
    BY <1>1, Types DEF MemoryInv, TypeOK, At, Goes
  <2>3. QED BY <2>1, <2>2
<1>3. ASSUME Calm(n) PROVE MountInv' /\ RestoreInv'
  <2>1. MountInv'
    BY <1>1, <1>3, Positions DEF At, Goes, MountInv, Passed, Left
  <2>2. RestoreInv'
    BY <1>1, <1>3, Positions DEF At, Goes, RestoreInv, MountInv, Restoring, Abandoning, Whole, Alone
  <2>3. QED BY <2>1, <2>2
<1>4. ASSUME Faultless(n), faults' = 0 PROVE ImageInv' /\ SchemaInv' /\ StoppedInv'
  <2>1. ImageInv'
    BY <1>1, <1>4, Positions DEF At, Goes, ImageInv, FitsImage, DueImage, Left
  <2>2. SchemaInv'
    BY <1>1, <1>4, Positions, Types DEF At, Goes, SchemaInv, MountInv, RestoreInv, Restoring, Alone,
         StoppedInv, State
  <2>3. StoppedInv'
    BY <1>1, <1>4, Positions, Types DEF At, Goes, SchemaInv, MountInv, Alone, StoppedInv, State, Passed, Left
  <2>4. QED BY <2>1, <2>2, <2>3
<1>5. QED BY <1>1, <1>2, <1>3, <1>4, JobStep DEF At

(* Both services are stopped, and remembered: the gateway not, when it was *)
(* stopped before.                                                         *)
LEMMA StopWritersKeeps ==
    ASSUME NEW n \in Jobs, GInv, StopWriters(n)
    PROVE  GInv'
<1>1. /\ job[n].op \in {"backup", "stop", "restore"} /\ job[n].step = "stop"
      /\ UNCHANGED <<host, scripts, orphaned, abandoned>> /\ faults' = faults
      /\ UNCHANGED <<tree, moved, archive>>
      /\ holder' = holder
      /\ SameBut({"gateway", "worker"}) /\ ~guest'.gateway /\ ~guest'.worker
      /\ "gateway" \in job'[n].prior => guest.gateway
      /\ \/ job[n].op = "backup" /\ Goes(n, "tar", "open")
         \/ job[n].op = "restore" /\ Goes(n, "swap", "open")
         \/ job[n].op = "stop" /\ Goes(n, "end", "yes")
  <2>1. SameBut({"gateway", "worker"}) /\ ~guest'.gateway /\ ~guest'.worker
    BY ServicesSet, TruthValues DEF StopWriters
  <2> DEFINE s == CASE job[n].op = "backup" -> "tar" [] job[n].op = "restore" -> "swap" [] OTHER -> "end"
             o == IF job[n].op = "stop" THEN "yes" ELSE "open"
  <2>2. /\ job' = [job EXCEPT ![n].step = s, ![n].prior = Services, ![n].ok = o]
        /\ Services \in SUBSET {"gateway", "worker"} /\ ("gateway" \in Services => guest.gateway)
        /\ s \in Steps /\ o \in {"yes", "open"}
    BY DEF StopWriters, Services, Steps
  <2>3. Goes(n, s, o) /\ job'[n].prior = Services
    BY <2>2, Types DEF Goes, Job, Steps
  <2>4. QED BY <2>1, <2>2, <2>3, Finishing DEF StopWriters, rest, Steps
<1>2. TypeOK' /\ MemoryInv'
  BY <1>1, Types DEF TypeOK, MemoryInv, At, Goes, SameBut
<1>3. ASSUME Calm(n) PROVE MountInv' /\ RestoreInv'
  <2>1. MountInv'
    BY <1>1, <1>3, Positions DEF At, Goes, SameBut, MountInv, Passed, Left
  <2>2. RestoreInv'
    BY <1>1, <1>3, Positions DEF At, Goes, SameBut, RestoreInv, MountInv, Restoring, Abandoning, Whole, Alone
  <2>3. QED BY <2>1, <2>2
<1>4. ASSUME Faultless(n), faults' = 0 PROVE ImageInv' /\ SchemaInv' /\ StoppedInv'
  <2>1. ImageInv'
    BY <1>1, <1>4, Positions DEF At, Goes, SameBut, ImageInv, FitsImage, DueImage, Left
  <2>2. SchemaInv'
    BY <1>1, <1>4, Positions, Types DEF At, Goes, SameBut, SchemaInv, MountInv, RestoreInv, Restoring,
         Alone, StoppedInv, State
  <2>3. StoppedInv'
    BY <1>1, <1>4, Positions, Types DEF At, Goes, SameBut, SchemaInv, MountInv, Alone, StoppedInv, State,
         Passed, Left
  <2>4. QED BY <2>1, <2>2, <2>3
<1>5. QED BY <1>1, <1>2, <1>3, <1>4, JobStep DEF At

(* The archive is taken of state that is on disk, in a rehearsal that      *)
(* still has the baseline, and the services come back.                     *)
LEMMA TarKeeps ==
    ASSUME NEW n \in Jobs, GInv, Tar(n)
    PROVE  GInv'
<1>1. /\ At(n, "backup", "tar")
      /\ UNCHANGED <<host, scripts, orphaned, abandoned, moved>> /\ faults' = faults
      /\ holder' = (IF holder = n THEN 0 ELSE holder)
      /\ job'[n].prior = job[n].prior
      /\ Goes(n, "end", "yes")
      /\ Resumes(n)
      /\ IF "gateway" \in job[n].prior THEN Grows(guest.image) ELSE tree' = tree
      /\ archive' \in Archive /\ archive'.schemas = tree /\ (archive'.secret => guest.mounted)
  <2>1. Resumes(n) /\ IF "gateway" \in job[n].prior THEN Grows(guest.image) ELSE tree' = tree
    BY PriorResuming DEF Tar
  <2>2. archive' \in Archive /\ archive'.schemas = tree /\ (archive'.secret => guest.mounted)
    <3> DEFINE b == Env = "live"
    <3>1. archive' = [taken |-> TRUE, schemas |-> tree, secret |-> b] /\ b \in BOOLEAN
      BY Zenon DEF Tar
    <3>2. b => guest.mounted
      BY DEF Env, MemoryInv
    <3> HIDE DEF b
    <3>3. QED BY <3>1, <3>2, TruthValues, Types DEF Archive
  <2>3. QED BY <2>1, <2>2, Finishing DEF Tar, rest, Unlock
<1>2. TypeOK' /\ MemoryInv'
  <2>1. TypeOK'
    BY <1>1, Types DEF TypeOK, Archive, Grows, At, Goes, SameBut, Resumes
  <2>2. MemoryInv'
    BY <1>1, Types DEF MemoryInv, TypeOK, At, Goes, SameBut, Resumes
  <2>3. QED BY <2>1, <2>2
<1>3. ASSUME Calm(n) PROVE MountInv' /\ RestoreInv'
  <2>1. MountInv'
    BY <1>1, <1>3, Positions DEF At, Goes, SameBut, Resumes, MountInv, Passed, Left
  <2>2. RestoreInv'
    BY <1>1, <1>3, Positions DEF At, Goes, SameBut, Resumes, RestoreInv, MountInv, Restoring, Abandoning,
         Whole, Alone
  <2>3. QED BY <2>1, <2>2
<1>4. ASSUME Faultless(n), faults' = 0 PROVE ImageInv' /\ SchemaInv' /\ StoppedInv'
  <2>1. ImageInv'
    BY <1>1, <1>4, Positions DEF At, Goes, SameBut, Resumes, ImageInv, FitsImage, DueImage, Left
  <2>2. SchemaInv'
    <3>1. /\ State <= guest.image /\ guest.image = 1 /\ guest'.image = 1 /\ ~guest.mounted /\ ~guest'.mounted
          /\ moved[StateTree] = 9 /\ moved'[StateTree] = 9
      BY <1>1, <1>4, Positions, Types DEF At, SchemaInv, ImageInv, MountInv, Alone, Restoring, Resumes,
           SameBut
    <3>2. State' <= 1 /\ archive'.schemas[StateTree] <= 1 /\ (guest'.gateway => State' <= guest'.running)
      BY <1>1, <1>4, <3>1, Types DEF Resumes, SameBut, Grows, Newer, State, SchemaInv
    <3>3. QED BY <1>1, <1>4, <3>1, <3>2 DEF SchemaInv, At, Goes, Alone
  <2>3. StoppedInv'
    <3>1. Left' = 5 /\ \A m \in Jobs : job'[m].op # "restore"
      BY <1>1, <1>4, Positions DEF At, Goes, Alone, Left
    <3>2. QED BY <3>1 DEF StoppedInv
  <2>4. QED BY <2>1, <2>2, <2>3
<1>5. QED BY <1>1, <1>2, <1>3, <1>4, JobStep DEF At

(* The backup fails and the services come back.                            *)
LEMMA TarFailsKeeps ==
    ASSUME NEW n \in Jobs, GInv, TarFails(n)
    PROVE  GInv'
<1>1. /\ At(n, "backup", "tar")
      /\ UNCHANGED <<host, scripts, orphaned, abandoned, moved, archive>>
      /\ faults' = faults \/ (faults' = faults + 1 /\ faults < MaxFaults)
      /\ holder' = (IF holder = n THEN 0 ELSE holder)
      /\ job'[n].prior = job[n].prior
      /\ Goes(n, "end", "no")
      /\ Resumes(n)
      /\ IF "gateway" \in job[n].prior THEN Grows(guest.image) ELSE tree' = tree
  <2>1. Resumes(n) /\ IF "gateway" \in job[n].prior THEN Grows(guest.image) ELSE tree' = tree
    BY PriorResuming DEF TarFails
  <2>2. QED BY <2>1, Finishing DEF TarFails, Unlock, Fault
<1>2. TypeOK' /\ MemoryInv'
  <2>1. TypeOK'
    BY <1>1, Types DEF TypeOK, Archive, Grows, At, Goes, SameBut, Resumes
  <2>2. MemoryInv'
    BY <1>1, Types DEF MemoryInv, TypeOK, At, Goes, SameBut, Resumes
  <2>3. QED BY <2>1, <2>2
<1>3. ASSUME Calm(n) PROVE MountInv' /\ RestoreInv'
  <2>1. MountInv'
    BY <1>1, <1>3, Positions DEF At, Goes, SameBut, Resumes, MountInv, Passed, Left
  <2>2. RestoreInv'
    BY <1>1, <1>3, Positions DEF At, Goes, SameBut, Resumes, RestoreInv, MountInv, Restoring, Abandoning,
         Whole, Alone
  <2>3. QED BY <2>1, <2>2
<1>4. ASSUME Faultless(n), faults' = 0 PROVE ImageInv' /\ SchemaInv' /\ StoppedInv'
  <2>1. ImageInv'
    BY <1>1, <1>4, Positions DEF At, Goes, SameBut, Resumes, ImageInv, FitsImage, DueImage, Left
  <2>2. SchemaInv'
    <3>1. /\ State <= guest.image /\ guest.image = 1 /\ guest'.image = 1 /\ ~guest.mounted /\ ~guest'.mounted
          /\ moved[StateTree] = 9 /\ moved'[StateTree] = 9
      BY <1>1, <1>4, Positions, Types DEF At, SchemaInv, ImageInv, MountInv, Alone, Restoring, Resumes,
           SameBut
    <3>2. State' <= 1 /\ archive'.schemas[StateTree] <= 1 /\ (guest'.gateway => State' <= guest'.running)
      BY <1>1, <1>4, <3>1, Types DEF Resumes, SameBut, Grows, Newer, State, SchemaInv
    <3>3. QED BY <1>1, <1>4, <3>1, <3>2 DEF SchemaInv, At, Goes, Alone
  <2>3. StoppedInv'
    <3>1. Left' = 5 /\ \A m \in Jobs : job'[m].op # "restore"
      BY <1>1, <1>4, Positions DEF At, Goes, Alone, Left
    <3>2. QED BY <3>1 DEF StoppedInv
  <2>4. QED BY <2>1, <2>2, <2>3
<1>5. QED BY <1>1, <1>2, <1>3, <1>4, JobStep DEF At, TypeOK

(* One tree is set aside with both services down; what takes its place is  *)
(* the baseline's.                                                         *)
LEMMA ReplaceKeeps ==
    ASSUME NEW n \in Jobs, GInv, Replace(n)
    PROVE  GInv'
<1>1. /\ At(n, "restore", "swap")
      /\ UNCHANGED <<host, scripts, orphaned, abandoned, guest, archive, holder, job>> /\ faults' = faults
      /\ tree' \in [Trees -> Schemas] /\ moved' \in [Trees -> Schemas \cup {9}]
      /\ \/ State' = archive.schemas[StateTree] /\ moved'[StateTree] = State
         \/ State' = State /\ moved'[StateTree] = moved[StateTree]
      /\ Goes(n, "swap", job[n].ok) /\ job'[n].prior = job[n].prior
  <2>1. PICK t \in Trees : moved' = [moved EXCEPT ![t] = tree[t]] /\ tree' = [tree EXCEPT ![t] = archive.schemas[t]]
    BY DEF Replace
  <2>2. tree[t] \in Schemas /\ archive.schemas[t] \in Schemas
    BY Types DEF Archive
  <2>3. Goes(n, "swap", job[n].ok) /\ job'[n].prior = job[n].prior
    BY Types DEF Replace, Goes, At
  <2>4. QED BY <2>1, <2>2, <2>3, Stepping, Types DEF Replace, rest, Steps, State
<1>2. TypeOK' /\ MemoryInv'
  BY <1>1, Types DEF TypeOK, MemoryInv, At, Goes
<1>3. ASSUME Calm(n) PROVE MountInv' /\ RestoreInv'
  <2>1. MountInv'
    BY <1>1, <1>3, Positions DEF At, Goes, MountInv, Passed, Left
  <2>2. RestoreInv'
    BY <1>1, <1>3, Positions DEF At, Goes, RestoreInv, MountInv, Restoring, Abandoning, Whole, Alone
  <2>3. QED BY <2>1, <2>2
<1>4. ASSUME Faultless(n), faults' = 0 PROVE ImageInv' /\ SchemaInv' /\ StoppedInv'
  <2>1. ImageInv'
    BY <1>1, <1>4, Positions DEF At, Goes, ImageInv, FitsImage, DueImage, Left
  <2>2. SchemaInv'
    <3>1. /\ State <= guest.image /\ guest.image \in 1..2 /\ ~guest.gateway
      BY <1>1, <1>4, Types DEF At, SchemaInv, MemoryInv, RestoreInv, Restoring, Alone
    <3>2. State' <= 1 \/ (State' = State /\ moved'[StateTree] = moved[StateTree])
      BY <1>1, <1>4 DEF SchemaInv
    <3>3. State' <= guest.image /\ (moved'[StateTree] # 9 => moved'[StateTree] <= guest.image /\ State' <= 1)
      BY <1>1, <1>4, <3>1, <3>2, Types DEF SchemaInv
    <3>4. Restoring(n)' /\ ~\E m \in Jobs : m # n /\ At(m, "apply", "units")'
      BY <1>1, <1>4 DEF Restoring, At, Alone
    <3>5. QED BY <1>1, <1>4, <3>1, <3>3, <3>4 DEF SchemaInv, At, Alone
  <2>3. StoppedInv'
    BY <1>1, <1>4, Positions, Types DEF At, Goes, SchemaInv, MountInv, Alone, StoppedInv, State, Passed, Left
  <2>4. QED BY <2>1, <2>2, <2>3
<1>5. QED BY <1>1, <1>2, <1>3, <1>4, JobStep DEF At

(* Every tree has been replaced: the services come back on the restored    *)
(* state.                                                                  *)
LEMMA RestoredKeeps ==
    ASSUME NEW n \in Jobs, GInv, Restored(n)
    PROVE  GInv'
<1>1. /\ At(n, "restore", "swap")
      /\ UNCHANGED <<host, scripts, orphaned, abandoned, archive>> /\ faults' = faults
      /\ holder' = (IF holder = n THEN 0 ELSE holder)
      /\ job'[n].prior = job[n].prior
      /\ Goes(n, "end", "yes")
      /\ Resumes(n)
      /\ IF "gateway" \in job[n].prior THEN Grows(guest.image) ELSE tree' = tree
      /\ moved' \in [Trees -> Schemas \cup {9}] /\ Whole'
      /\ \A t \in Trees : moved[t] # 9 /\ moved'[t] = 9
  <2>1. Resumes(n) /\ IF "gateway" \in job[n].prior THEN Grows(guest.image) ELSE tree' = tree
    BY PriorResuming DEF Restored
  <2>2. QED BY <2>1, Finishing DEF Restored, rest, Unlock, Whole
<1>2. TypeOK' /\ MemoryInv'
  BY <1>1, Types DEF TypeOK, MemoryInv, Grows, At, Goes, SameBut, Resumes
<1>3. ASSUME Calm(n) PROVE MountInv' /\ RestoreInv'
  <2>1. MountInv'
    BY <1>1, <1>3, Positions DEF At, Goes, SameBut, Resumes, MountInv, Passed, Left
  <2>2. RestoreInv'
    BY <1>1, <1>3, Positions DEF At, Goes, SameBut, Resumes, RestoreInv, MountInv, Restoring, Abandoning,
         Whole, Alone
  <2>3. QED BY <2>1, <2>2
<1>4. ASSUME Faultless(n), faults' = 0 PROVE ImageInv' /\ SchemaInv' /\ StoppedInv'
  <2>1. ImageInv'
    BY <1>1, <1>4, Positions DEF At, Goes, SameBut, Resumes, ImageInv, FitsImage, DueImage, Left
  <2>2. SchemaInv'
    BY <1>1, <1>4, Positions, Types DEF At, Goes, SameBut, Resumes, SchemaInv, MountInv, RestoreInv,
         Restoring, Alone, StoppedInv, State, Newer, Grows
  <2>3. StoppedInv'
    <3>1. Left' = Left /\ Left = 1 /\ \A m \in Jobs : job'[m].op = "restore" => job'[m].step \in {"idle", "end"}
      BY <1>1, <1>4, Positions DEF At, Goes, Alone, Left
    <3>2. moved[StateTree] # 9 /\ State <= 1
      BY <1>1, <1>4 DEF SchemaInv
    <3>3. host.name = "candidate" => State' = State
      BY <1>1, <1>4 DEF StoppedInv, At, State
    <3>4. QED BY <1>1, <3>1, <3>2, <3>3 DEF StoppedInv
  <2>4. QED BY <2>1, <2>2, <2>3
<1>5. QED BY <1>1, <1>2, <1>3, <1>4, JobStep DEF At

(* A restore fails half way.                                               *)
LEMMA ReplaceFailsKeeps ==
    ASSUME NEW n \in Jobs, GInv, ReplaceFails(n)
    PROVE  GInv'
<1>1. /\ At(n, "restore", "swap")
      /\ UNCHANGED <<host, scripts, orphaned, abandoned, guest, tree, moved, archive, holder>>
      /\ job'[n].prior = job[n].prior
      /\ Goes(n, "undo", job[n].ok)
      /\ faults' = faults \/ (faults' = faults + 1 /\ faults < MaxFaults)
  BY Stepping DEF ReplaceFails, rest, Steps, Fault
<1>2. TypeOK' /\ MemoryInv'
  BY <1>1, Types DEF TypeOK, MemoryInv, At, Goes
<1>3. ASSUME Calm(n) PROVE MountInv' /\ RestoreInv'
  <2>1. MountInv'
    BY <1>1, <1>3, Positions DEF At, Goes, MountInv, Passed, Left
  <2>2. RestoreInv'
    BY <1>1, <1>3, Positions DEF At, Goes, RestoreInv, MountInv, Restoring, Abandoning, Whole, Alone
  <2>3. QED BY <2>1, <2>2
<1>4. ASSUME Faultless(n), faults' = 0 PROVE ImageInv' /\ SchemaInv' /\ StoppedInv'
  <2>1. ImageInv'
    BY <1>1, <1>4, Positions DEF At, Goes, ImageInv, FitsImage, DueImage, Left
  <2>2. SchemaInv'
    BY <1>1, <1>4, Positions, Types DEF At, Goes, SchemaInv, MountInv, RestoreInv, Restoring, Alone,
         StoppedInv, State
  <2>3. StoppedInv'
    BY <1>1, <1>4, Positions, Types DEF At, Goes, SchemaInv, MountInv, Alone, StoppedInv, State, Passed, Left
  <2>4. QED BY <2>1, <2>2, <2>3
<1>5. QED BY <1>1, <1>2, <1>3, <1>4, JobStep DEF At, TypeOK

(* What was set aside is put back before the services come back.           *)
LEMMA UndoKeeps ==
    ASSUME NEW n \in Jobs, GInv, Undo(n)
    PROVE  GInv'
<1>1. /\ At(n, "restore", "undo")
      /\ UNCHANGED <<host, scripts, orphaned, abandoned, archive>> /\ faults' = faults
      /\ holder' = (IF holder = n THEN 0 ELSE holder)
      /\ job'[n].prior = job[n].prior
      /\ Goes(n, "end", "no")
      /\ Resumes(n)
      /\ tree' \in [Trees -> Schemas] /\ moved' \in [Trees -> Schemas \cup {9}] /\ Whole'
      /\ moved'[StateTree] = 9
      /\ LET s == IF moved[StateTree] = 9 THEN State ELSE moved[StateTree] IN
         State' = IF "gateway" \in job[n].prior /\ ~guest.mounted THEN Newer(s, guest.image) ELSE s
  <2>1. Resumes(n)
    BY Resuming DEF Undo
  <2>2. ASSUME NEW t \in Trees
        PROVE  /\ tree[t] \in Schemas /\ Newer(tree[t], guest.image) \in Schemas
               /\ moved[t] # 9 => moved[t] \in Schemas /\ Newer(moved[t], guest.image) \in Schemas
    BY Types DEF Newer
  <2>3. tree' \in [Trees -> Schemas]
    <3> DEFINE put(t) == LET s == IF moved[t] = 9 THEN tree[t] ELSE moved[t] IN
                         IF t = StateTree /\ "gateway" \in job[n].prior /\ ~guest.mounted THEN Newer(s, guest.image) ELSE s
    <3>1. tree' = [t \in Trees |-> put(t)]
      BY DEF Undo
    <3>2. ASSUME NEW t \in Trees PROVE put(t) \in Schemas
      <4> DEFINE s == IF moved[t] = 9 THEN tree[t] ELSE moved[t]
      <4>1. s \in Schemas /\ Newer(s, guest.image) \in Schemas
        <5>1. CASE moved[t] = 9
          BY <2>2, <5>1, Zenon
        <5>2. CASE moved[t] # 9
          BY <2>2, <5>2, Zenon
        <5>3. QED BY <5>1, <5>2
      <4>2. put(t) = Newer(s, guest.image) \/ put(t) = s
        BY Zenon
      <4>3. QED BY <4>1, <4>2
    <3> HIDE DEF put
    <3>3. QED BY <3>1, <3>2
  <2>4. LET s == IF moved[StateTree] = 9 THEN State ELSE moved[StateTree] IN
        State' = IF "gateway" \in job[n].prior /\ ~guest.mounted THEN Newer(s, guest.image) ELSE s
    BY DEF Undo, State
  <2>5. QED BY <2>1, <2>2, <2>3, <2>4, Finishing DEF Undo, rest, Unlock, Whole
<1>2. TypeOK' /\ MemoryInv'
  BY <1>1, Types DEF TypeOK, MemoryInv, At, Goes, SameBut, Resumes
<1>3. ASSUME Calm(n) PROVE MountInv' /\ RestoreInv'
  <2>1. MountInv'
    BY <1>1, <1>3, Positions DEF At, Goes, SameBut, Resumes, MountInv, Passed, Left
  <2>2. RestoreInv'
    BY <1>1, <1>3, Positions DEF At, Goes, SameBut, Resumes, RestoreInv, MountInv, Restoring, Abandoning,
         Whole, Alone
  <2>3. QED BY <2>1, <2>2
<1>4. ASSUME Faultless(n), faults' = 0 PROVE ImageInv' /\ SchemaInv' /\ StoppedInv'
  <2>1. ImageInv'
    BY <1>1, <1>4, Positions DEF At, Goes, SameBut, Resumes, ImageInv, FitsImage, DueImage, Left
  <2>2. SchemaInv'
    BY <1>1, <1>4, Positions, Types DEF At, Goes, SameBut, Resumes, SchemaInv, MountInv, RestoreInv,
         Restoring, Alone, StoppedInv, State, Newer
  <2>3. StoppedInv'
    BY <1>1, <1>4, Positions, Types DEF At, Goes, SameBut, Resumes, SchemaInv, MountInv, Alone, StoppedInv,
         State, Newer, Passed, Left
  <2>4. QED BY <2>1, <2>2, <2>3
<1>5. QED BY <1>1, <1>2, <1>3, <1>4, JobStep DEF At

(* If that fails too, they stay stopped.                                   *)
LEMMA UndoFailsKeeps ==
    ASSUME NEW n \in Jobs, GInv, UndoFails(n)
    PROVE  GInv'
<1>1. /\ At(n, "restore", "undo")
      /\ UNCHANGED <<host, scripts, orphaned, abandoned, guest, tree, moved, archive>>
      /\ job'[n].prior = job[n].prior
      /\ holder' = (IF holder = n THEN 0 ELSE holder)
      /\ Goes(n, "end", "no")
      /\ faults' = faults + 1 /\ faults < MaxFaults
  BY Finishing DEF UndoFails, rest, Unlock, Fault
<1>2. TypeOK' /\ MemoryInv'
  BY <1>1, Types DEF TypeOK, MemoryInv, At, Goes
<1>3. ASSUME Calm(n) PROVE MountInv' /\ RestoreInv'
  <2>1. MountInv'
    BY <1>1, <1>3, Positions DEF At, Goes, MountInv, Passed, Left
  <2>2. RestoreInv'
    BY <1>1, <1>3, Positions DEF At, Goes, RestoreInv, MountInv, Restoring, Abandoning, Whole, Alone
  <2>3. QED BY <2>1, <2>2
<1>4. QED BY <1>1, <1>2, <1>3, JobStep DEF At, TypeOK

(* A failed job leaves the guest as it is.                                 *)
LEMMA JobFailsKeeps ==
    ASSUME NEW n \in Jobs, GInv, JobFails(n)
    PROVE  GInv'
<1>1. /\ job[n].op \in {"prepare", "inject", "clear", "backup", "stop"} /\ job[n].step # "end"
      /\ UNCHANGED <<host, scripts, orphaned, abandoned, guest, tree, moved, archive>>
      /\ job'[n].prior = job[n].prior
      /\ holder' = (IF holder = n THEN 0 ELSE holder)
      /\ Goes(n, "end", "no")
      /\ faults' = faults + 1 /\ faults < MaxFaults
  BY Finishing DEF JobFails, rest, Unlock, Fault
<1>2. TypeOK' /\ MemoryInv'
  BY <1>1, Types DEF TypeOK, MemoryInv, At, Goes
<1>3. ASSUME Calm(n) PROVE MountInv' /\ RestoreInv'
  <2>1. MountInv'
    BY <1>1, <1>3, Positions DEF At, Goes, MountInv, Passed, Left
  <2>2. RestoreInv'
    BY <1>1, <1>3, Positions DEF At, Goes, RestoreInv, MountInv, Restoring, Abandoning, Whole, Alone
  <2>3. QED BY <2>1, <2>2
<1>4. QED BY <1>1, <1>2, <1>3, JobStep DEF At, TypeOK

-----------------------------------------------------------------------------
(* The host's commands.  The first request of a sequence and the rest.     *)
LEMMA Tails ==
    ASSUME NEW s \in Seq(Command), s # <<>>
    PROVE  /\ Len(s) \in Nat \ {0} /\ s[1] \in Command /\ Head(s) = s[1]
           /\ Tail(s) \in Seq(Command) /\ Len(Tail(s)) = Len(s) - 1
           /\ \A i \in 1..(Len(s) - 1) : Tail(s)[i] = s[i + 1]
OBVIOUS

(* The request for a job, as a command.                                    *)
Requests(c, op, image) == c \in Command /\ c.op = op /\ c.image = image

(* Every request of a program is one.                                      *)
LEMMA RunRequests ==
    ASSUME NEW op \in Ops \cup {"reboot"}, NEW mode \in {"synthetic", "live"}, NEW image \in Images
    PROVE  Requests(Run(op, mode, image), op, image)
BY DEF Requests, Run, Command

(* The requests of a program, in its order and with its images: Program x  *)
(* by x.                                                                   *)
Fitting(x, i) ==
    /\ <<x, Len(Program(x)) - i + 1, Program(x)[i].op>> \in Dues
    /\ Program(x)[i].op = "apply" =>
          Program(x)[i].image = IF x = "isolated" THEN 1
                                ELSE IF x # "candidate" THEN guest.image
                                ELSE IF Len(Program(x)) - i + 1 = 5 THEN 2 ELSE 1

(* A request that stands k commands before the end, at the place Dues gives *)
(* it and with the image due there.                                        *)
LEMMA FitsAt ==
    ASSUME NEW x, NEW i, NEW k, NEW op, NEW image, Requests(Program(x)[i], op, image),
           Len(Program(x)) - i + 1 = k, <<x, k, op>> \in Dues,
           op = "apply" => image = IF x = "isolated" THEN 1 ELSE IF x # "candidate" THEN guest.image
                                   ELSE IF k = 5 THEN 2 ELSE 1
    PROVE  Fitting(x, i)
BY DEF Requests, Fitting

(* Every program makes the requests that Dues lists.                       *)
LEMMA ProgramsFit ==
    ASSUME NEW x \in Programs \ {"none"}, guest.image \in Images
    PROVE  /\ Program(x) \in Seq(Command) /\ Len(Program(x)) \in 1..6
           /\ x = "live-undo" => Len(Program(x)) = 2
           /\ x = "candidate" => Len(Program(x)) = 6
           /\ \A i \in 1..Len(Program(x)) : Fitting(x, i)
<1>1. CASE x = "deploy"
  <2>1. Program(x) = <<Run("apply", "synthetic", guest.image)>>
    BY <1>1 DEF Program
  <2>2. /\ Requests(Run("apply", "synthetic", guest.image), "apply", guest.image)
    BY RunRequests DEF Ops, Images
  <2>3. /\ Program(x) \in Seq(Command) /\ Len(Program(x)) = 1
        /\ Requests(Program(x)[1], "apply", guest.image)
    BY <2>1, <2>2 DEF Requests
  <2>4. /\ <<x, 1, "apply">> \in Dues
    BY <1>1 DEF Dues
  <2>5. Fitting(x, 1)
    <3>1. Requests(Program(x)[1], "apply", guest.image) /\ Len(Program(x)) - 1 + 1 = 1 /\ <<x, 1, "apply">> \in Dues
      BY <2>3, <2>4
    <3>2. QED BY <1>1, <3>1, FitsAt
  <2>6. \A i \in 1..1 : i = 1
    OBVIOUS
  <2>7. ASSUME NEW i \in 1..Len(Program(x)) PROVE Fitting(x, i)
    BY <2>3, <2>5, <2>6
  <2>8. QED BY <1>1, <2>3, <2>7
<1>2. CASE x = "live-start"
  <2>1. Program(x) = <<Run("prepare", "live", 1), Run("inject", "live", 1), Run("apply", "live", guest.image)>>
    BY <1>2 DEF Program
  <2>2. /\ Requests(Run("prepare", "live", 1), "prepare", 1)
        /\ Requests(Run("inject", "live", 1), "inject", 1)
        /\ Requests(Run("apply", "live", guest.image), "apply", guest.image)
    BY RunRequests DEF Ops, Images
  <2>3. /\ Program(x) \in Seq(Command) /\ Len(Program(x)) = 3
        /\ Requests(Program(x)[1], "prepare", 1) /\ Requests(Program(x)[2], "inject", 1)
        /\ Requests(Program(x)[3], "apply", guest.image)
    BY <2>1, <2>2 DEF Requests
  <2>4. /\ <<x, 3, "prepare">> \in Dues /\ <<x, 2, "inject">> \in Dues /\ <<x, 1, "apply">> \in Dues
    BY <1>2 DEF Dues
  <2>5. Fitting(x, 1)
    <3>1. Requests(Program(x)[1], "prepare", 1) /\ Len(Program(x)) - 1 + 1 = 3 /\ <<x, 3, "prepare">> \in Dues
      BY <2>3, <2>4
    <3>2. QED BY <1>2, <3>1, FitsAt
  <2>6. Fitting(x, 2)
    <3>1. Requests(Program(x)[2], "inject", 1) /\ Len(Program(x)) - 2 + 1 = 2 /\ <<x, 2, "inject">> \in Dues
      BY <2>3, <2>4
    <3>2. QED BY <1>2, <3>1, FitsAt
  <2>7. Fitting(x, 3)
    <3>1. Requests(Program(x)[3], "apply", guest.image) /\ Len(Program(x)) - 3 + 1 = 1 /\ <<x, 1, "apply">> \in Dues
      BY <2>3, <2>4
    <3>2. QED BY <1>2, <3>1, FitsAt
  <2>8. \A i \in 1..3 : i = 1 \/ i = 2 \/ i = 3
    OBVIOUS
  <2>9. ASSUME NEW i \in 1..Len(Program(x)) PROVE Fitting(x, i)
    BY <2>3, <2>5, <2>6, <2>7, <2>8
  <2>10. QED BY <1>2, <2>3, <2>9
<1>3. CASE x \in {"live-undo", "live-stop"}
  <2>1. Program(x) = <<Run("clear", "live", 1), Run("apply", "synthetic", guest.image)>>
    BY <1>3 DEF Program
  <2>2. /\ Requests(Run("clear", "live", 1), "clear", 1)
        /\ Requests(Run("apply", "synthetic", guest.image), "apply", guest.image)
    BY RunRequests DEF Ops, Images
  <2>3. /\ Program(x) \in Seq(Command) /\ Len(Program(x)) = 2
        /\ Requests(Program(x)[1], "clear", 1) /\ Requests(Program(x)[2], "apply", guest.image)
    BY <2>1, <2>2 DEF Requests
  <2>4. /\ <<x, 2, "clear">> \in Dues /\ <<x, 1, "apply">> \in Dues
    BY <1>3 DEF Dues
  <2>5. Fitting(x, 1)
    <3>1. Requests(Program(x)[1], "clear", 1) /\ Len(Program(x)) - 1 + 1 = 2 /\ <<x, 2, "clear">> \in Dues
      BY <2>3, <2>4
    <3>2. QED BY <1>3, <3>1, FitsAt
  <2>6. Fitting(x, 2)
    <3>1. Requests(Program(x)[2], "apply", guest.image) /\ Len(Program(x)) - 2 + 1 = 1 /\ <<x, 1, "apply">> \in Dues
      BY <2>3, <2>4
    <3>2. QED BY <1>3, <3>1, FitsAt
  <2>7. \A i \in 1..2 : i = 1 \/ i = 2
    OBVIOUS
  <2>8. ASSUME NEW i \in 1..Len(Program(x)) PROVE Fitting(x, i)
    BY <2>3, <2>5, <2>6, <2>7
  <2>9. QED BY <1>3, <2>3, <2>8
<1>4. CASE x = "candidate"
  <2>1. Program(x) = <<Run("backup", "synthetic", 1), Run("apply", "synthetic", 2), Run("reboot", "synthetic", 1),
                       Run("stop", "synthetic", 1), Run("restore", "synthetic", 1), Run("apply", "synthetic", 1)>>
    BY <1>4 DEF Program
  <2>2. /\ Requests(Run("backup", "synthetic", 1), "backup", 1)
        /\ Requests(Run("apply", "synthetic", 2), "apply", 2)
        /\ Requests(Run("reboot", "synthetic", 1), "reboot", 1)
        /\ Requests(Run("stop", "synthetic", 1), "stop", 1)
        /\ Requests(Run("restore", "synthetic", 1), "restore", 1)
        /\ Requests(Run("apply", "synthetic", 1), "apply", 1)
    BY RunRequests DEF Ops, Images
  <2>3. /\ Program(x) \in Seq(Command) /\ Len(Program(x)) = 6
        /\ Requests(Program(x)[1], "backup", 1) /\ Requests(Program(x)[2], "apply", 2)
        /\ Requests(Program(x)[3], "reboot", 1) /\ Requests(Program(x)[4], "stop", 1)
        /\ Requests(Program(x)[5], "restore", 1) /\ Requests(Program(x)[6], "apply", 1)
    BY <2>1, <2>2 DEF Requests
  <2>4. /\ <<x, 6, "backup">> \in Dues /\ <<x, 5, "apply">> \in Dues /\ <<x, 4, "reboot">> \in Dues
        /\ <<x, 3, "stop">> \in Dues /\ <<x, 2, "restore">> \in Dues /\ <<x, 1, "apply">> \in Dues
    BY <1>4 DEF Dues
  <2>5. Fitting(x, 1)
    <3>1. Requests(Program(x)[1], "backup", 1) /\ Len(Program(x)) - 1 + 1 = 6 /\ <<x, 6, "backup">> \in Dues
      BY <2>3, <2>4
    <3>2. QED BY <1>4, <3>1, FitsAt
  <2>6. Fitting(x, 2)
    <3>1. Requests(Program(x)[2], "apply", 2) /\ Len(Program(x)) - 2 + 1 = 5 /\ <<x, 5, "apply">> \in Dues
      BY <2>3, <2>4
    <3>2. QED BY <1>4, <3>1, FitsAt
  <2>7. Fitting(x, 3)
    <3>1. Requests(Program(x)[3], "reboot", 1) /\ Len(Program(x)) - 3 + 1 = 4 /\ <<x, 4, "reboot">> \in Dues
      BY <2>3, <2>4
    <3>2. QED BY <1>4, <3>1, FitsAt
  <2>8. Fitting(x, 4)
    <3>1. Requests(Program(x)[4], "stop", 1) /\ Len(Program(x)) - 4 + 1 = 3 /\ <<x, 3, "stop">> \in Dues
      BY <2>3, <2>4
    <3>2. QED BY <1>4, <3>1, FitsAt
  <2>9. Fitting(x, 5)
    <3>1. Requests(Program(x)[5], "restore", 1) /\ Len(Program(x)) - 5 + 1 = 2 /\ <<x, 2, "restore">> \in Dues
      BY <2>3, <2>4
    <3>2. QED BY <1>4, <3>1, FitsAt
  <2>10. Fitting(x, 6)
    <3>1. Requests(Program(x)[6], "apply", 1) /\ Len(Program(x)) - 6 + 1 = 1 /\ <<x, 1, "apply">> \in Dues
      BY <2>3, <2>4
    <3>2. QED BY <1>4, <3>1, FitsAt, 1 # 5
  <2>11. \A i \in 1..6 : i = 1 \/ i = 2 \/ i = 3 \/ i = 4 \/ i = 5 \/ i = 6
    OBVIOUS
  <2>12. ASSUME NEW i \in 1..Len(Program(x)) PROVE Fitting(x, i)
    BY <2>3, <2>5, <2>6, <2>7, <2>8, <2>9, <2>10, <2>11
  <2>13. QED BY <1>4, <2>3, <2>12
<1>5. CASE x = "isolated"
  <2>1. Program(x) = <<Run("restore", "synthetic", 1), Run("apply", "synthetic", 1)>>
    BY <1>5 DEF Program
  <2>2. /\ Requests(Run("restore", "synthetic", 1), "restore", 1)
        /\ Requests(Run("apply", "synthetic", 1), "apply", 1)
    BY RunRequests DEF Ops, Images
  <2>3. /\ Program(x) \in Seq(Command) /\ Len(Program(x)) = 2
        /\ Requests(Program(x)[1], "restore", 1) /\ Requests(Program(x)[2], "apply", 1)
    BY <2>1, <2>2 DEF Requests
  <2>4. /\ <<x, 2, "restore">> \in Dues /\ <<x, 1, "apply">> \in Dues
    BY <1>5 DEF Dues
  <2>5. Fitting(x, 1)
    <3>1. Requests(Program(x)[1], "restore", 1) /\ Len(Program(x)) - 1 + 1 = 2 /\ <<x, 2, "restore">> \in Dues
      BY <2>3, <2>4
    <3>2. QED BY <1>5, <3>1, FitsAt
  <2>6. Fitting(x, 2)
    <3>1. Requests(Program(x)[2], "apply", 1) /\ Len(Program(x)) - 2 + 1 = 1 /\ <<x, 1, "apply">> \in Dues
      BY <2>3, <2>4
    <3>2. QED BY <1>5, <3>1, FitsAt
  <2>7. \A i \in 1..2 : i = 1 \/ i = 2
    OBVIOUS
  <2>8. ASSUME NEW i \in 1..Len(Program(x)) PROVE Fitting(x, i)
    BY <2>3, <2>5, <2>6, <2>7
  <2>9. QED BY <1>5, <2>3, <2>8
<1>6. QED BY <1>1, <1>2, <1>3, <1>4, <1>5 DEF Programs

(* No command, the end of a command, and no job.                           *)
LEMMA NoScriptFacts ==
    /\ NoScript \in HostState /\ NoScript.name = "none" /\ NoScript.rest = <<>> /\ NoScript.job = 0
    /\ NoScript.result = "none" /\ Len(NoScript.rest) = 0
<1>1. <<>> \in Seq(Command) /\ Len(<<>>) = 0
  OBVIOUS
<1>2. QED BY <1>1 DEF NoScript, HostState, Programs

(* A command that has ended has nothing left to do.                        *)
LEMMA EndedFacts ==
    ASSUME NEW r \in {"none", "ready", "failed", "undone", "inspect"}, NEW h,
         h = [NoScript EXCEPT !.result = r]
    PROVE  h \in HostState /\ h.name = "none" /\ h.rest = <<>> /\ Len(h.rest) = 0 /\ h.job = 0 /\ h.result = r
BY NoScriptFacts DEF HostState

(* What the type of the state says of the host command.                    *)
LEMMA HostTypes ==
    ASSUME host' \in HostState
    PROVE  /\ host'.name \in Programs /\ host'.job \in Jobs \cup {0}
           /\ \A i \in DOMAIN host'.rest : host'.rest[i] \in Command
           /\ host'.result \in {"none", "ready", "failed", "undone", "inspect"}
           /\ Left' \in Nat
BY DEF HostState, Left

(* An idle slot.                                                           *)
LEMMA NoJobFacts ==
    /\ NoJob \in Job /\ NoJob.op = "none" /\ NoJob.step = "idle" /\ NoJob.prior = {}
BY DEF NoJob, Job, Ops

(* A job that outlived its command ends: there is none as long as nothing  *)
(* has been interrupted.                                                   *)
LEMMA OrphanEndsKeeps ==
    ASSUME NEW n \in Jobs, GInv, OrphanEnds(n)
    PROVE  GInv'
<1>1. /\ host.job # n /\ job[n].step = "end"
      /\ job' \in [Jobs -> Job] /\ job'[n].op = "none" /\ job'[n].step = "idle"
      /\ \A m \in Jobs : m # n => job'[m] = job[m]
      /\ UNCHANGED <<guest, tree, moved, archive, holder, host, scripts, orphaned, abandoned, faults>>
  BY NoJobFacts, Types DEF OrphanEnds, rest
<1>2. TypeOK' /\ MemoryInv'
  BY <1>1, Types DEF TypeOK, MemoryInv, At
<1>3. orphaned
  BY <1>1 DEF CalmInv, Alone
<1>4. QED BY <1>1, <1>2, <1>3 DEF CalmInv, FaultlessInv, MemoryInv

(* A new command.                                                          *)
LEMMA BeginKeeps ==
    ASSUME NEW name \in Programs \ {"none", "live-undo"}, GInv, Begin(name)
    PROVE  GInv'
<1>1. /\ host.name = "none"
      /\ host' = [name |-> name, rest |-> Program(name), job |-> 0, result |-> "none"]
      /\ abandoned' \in BOOLEAN /\ (Whole \/ abandoned')
      /\ scripts' \in 0..MaxScripts
      /\ UNCHANGED <<guest, tree, moved, archive, holder, job, orphaned, faults>>
  <2>1. abandoned' \in BOOLEAN /\ (Whole \/ abandoned')
    <3> DEFINE b == abandoned \/ ~Whole
    <3>1. abandoned' = b /\ b \in BOOLEAN /\ (Whole \/ b)
      BY Zenon DEF Begin
    <3> HIDE DEF b
    <3>2. QED BY <3>1
  <2>2. QED BY <2>1 DEF Begin, TypeOK
<1>2. guest.image \in Images /\ Whole' = Whole
  BY <1>1 DEF MemoryInv, Whole
<1>3. /\ host' \in HostState /\ host'.name = name /\ host'.job = 0 /\ host'.rest = Program(name)
      /\ host'.result = "none" /\ Left' \in 1..6 /\ Left' = Len(Program(name))
  BY <1>1, <1>2, ProgramsFit DEF HostState, Left
<1>4. TypeOK'
  BY <1>1, <1>3, HostTypes DEF TypeOK
<1>5. MemoryInv'
  BY <1>1, <1>3 DEF MemoryInv, At
<1>6. ASSUME ~orphaned' PROVE Alone' /\ ProgramInv' /\ MountInv' /\ RestoreInv'
  <2>0. ~orphaned /\ Alone /\ ProgramInv /\ MountInv /\ RestoreInv
    BY <1>1, <1>6 DEF CalmInv
  <2>1. Alone'
    BY <1>1, <1>3, <2>0 DEF Alone, ProgramInv
  <2>2. ProgramInv'
    BY <1>2, <1>3, ProgramsFit DEF ProgramInv, Fits, Left, Fitting
  <2>3. MountInv'
    BY <1>1, <1>3, <2>0 DEF Begin, MountInv
  <2>4. RestoreInv'
    BY <1>1, <1>2, <2>0 DEF RestoreInv, Restoring
  <2>5. QED BY <2>1, <2>2, <2>3, <2>4
<1>7. ASSUME faults' = 0 PROVE ImageInv' /\ SchemaInv' /\ StoppedInv'
  <2>0. ImageInv /\ SchemaInv
    BY <1>1, <1>7 DEF FaultlessInv
  <2>1. ImageInv'
    <3>1. name \in {"isolated", "candidate"} => guest'.image = 1
      BY <1>1 DEF Begin
    <3>2. ASSUME NEW i \in 1..Left' PROVE FitsImage(host.rest[i], Left - i + 1)'
      <4>1. /\ host'.rest[i] = Program(name)[i] /\ i \in 1..Len(Program(name)) /\ Left' = Len(Program(name))
            /\ host'.name = name /\ guest' = guest
        BY <1>1, <1>3
      <4>2. Program(name)[i].op = "apply" =>
              Program(name)[i].image = IF name = "isolated" THEN 1 ELSE IF name # "candidate" THEN guest.image
                                       ELSE IF Len(Program(name)) - i + 1 = 5 THEN 2 ELSE 1
        <5>1. Fitting(name, i)
          BY <1>2, <4>1, ProgramsFit
        <5>2. QED BY <5>1 DEF Fitting
      <4>3. QED BY <3>1, <4>1, <4>2 DEF FitsImage, DueImage
    <3>3. QED BY <1>3, <3>1, <3>2 DEF ImageInv
  <2>2. SchemaInv'
    BY <1>1, <2>0 DEF SchemaInv, State, At, Restoring
  <2>3. StoppedInv'
    <3>1. name = "candidate" => Left' = 6 /\ \A m \in Jobs : job'[m].op # "restore"
      BY <1>1, <1>2, <1>3, <1>7, ProgramsFit DEF CalmInv, Alone, ProgramInv, MemoryInv, TypeOK
    <3>2. host'.name = name
      BY <1>3
    <3>3. QED BY <3>1, <3>2 DEF StoppedInv
  <2>4. QED BY <2>1, <2>2, <2>3
<1>8. QED BY <1>4, <1>5, <1>6, <1>7 DEF CalmInv, FaultlessInv

(* The next request of the command is sent.                                *)
LEMMA SendKeeps ==
    ASSUME NEW n \in Jobs, GInv, Send(n)
    PROVE  GInv'
<1> DEFINE h == host.rest[1]
<1>1. /\ host \in HostState /\ host.rest # <<>> /\ host.job = 0 /\ host.name # "none"
      /\ job[n].op = "none" /\ Head(host.rest) = h /\ h \in Command /\ h.op # "reboot"
  BY Tails DEF Send, MemoryInv, HostState
<1>2. /\ job' \in [Jobs -> Job] /\ \A m \in Jobs : m # n => job'[m] = job[m]
      /\ job'[n].op = h.op /\ job'[n].image = h.image /\ job'[n].step = "lock" /\ job'[n].ok = "open"
      /\ UNCHANGED <<guest, tree, moved, archive, holder, scripts, orphaned, abandoned, faults>>
  BY <1>1, Types DEF Send, Job, Command
<1>3. /\ host' \in HostState /\ host'.name = host.name /\ host'.job = n /\ host'.result = host.result
      /\ host'.rest = Tail(host.rest)
  BY <1>1, Tails DEF Send, HostState
<1>4. /\ Left \in Nat \ {0} /\ Left' = Left - 1
      /\ \A i \in 1..Left' : host'.rest[i] = host.rest[i + 1]
  BY <1>1, <1>3, Tails DEF HostState, Left
<1> HIDE DEF h
<1>5. TypeOK'
  BY <1>1, <1>2, <1>3, HostTypes DEF TypeOK
<1>6. MemoryInv'
  BY <1>2, <1>3, <1>1 DEF MemoryInv, At, TypeOK
<1>7. ASSUME ~orphaned' PROVE Alone' /\ ProgramInv' /\ MountInv' /\ RestoreInv'
  <2>0. ~orphaned /\ Alone /\ ProgramInv /\ MountInv /\ RestoreInv
    BY <1>2, <1>7 DEF CalmInv
  <2>1. Alone'
    BY <1>1, <1>2, <1>3, <2>0 DEF Alone
  <2>2. ProgramInv'
    <3>1. Fits(h, Left) /\ \A i \in 1..Left' : Fits(host.rest[i + 1], Left - (i + 1) + 1)
      BY <1>1, <1>4, <2>0 DEF ProgramInv, h
    <3>2. ASSUME NEW i \in 1..Left' PROVE (Fits(host.rest[i], Left - i + 1))'
      <4>1. Left' - i + 1 = Left - (i + 1) + 1 /\ host'.rest[i] = host.rest[i + 1]
        BY <1>4
      <4>2. QED BY <1>3, <3>1, <4>1 DEF Fits
    <3>3. (Fits(job[host.job], Left + 1))'
      <4>1. Left' + 1 = Left
        BY <1>4
      <4>2. QED BY <1>2, <1>3, <3>1, <4>1 DEF Fits
    <3>4. QED BY <1>1, <1>3, <3>2, <3>3 DEF ProgramInv
  <2>3. MountInv'
    BY <1>1, <1>2, <1>3, <1>4, <2>0 DEF MountInv, Passed
  <2>4. RestoreInv'
    BY <1>1, <1>2, <1>3, <2>0 DEF RestoreInv, Restoring, Abandoning, Alone, Whole
  <2>5. QED BY <2>1, <2>2, <2>3, <2>4
<1>8. ASSUME faults' = 0 PROVE ImageInv' /\ SchemaInv' /\ StoppedInv'
  <2>0. /\ ~orphaned /\ Alone /\ ProgramInv /\ ImageInv /\ SchemaInv /\ StoppedInv
    BY <1>2, <1>8 DEF CalmInv, FaultlessInv, MemoryInv, TypeOK
  <2>1. FitsImage(h, Left) /\ \A i \in 1..Left' : FitsImage(host.rest[i + 1], Left - (i + 1) + 1)
    BY <1>1, <1>4, <2>0 DEF ImageInv, h
  <2>2. ImageInv'
    <3>2. ASSUME NEW i \in 1..Left' PROVE (FitsImage(host.rest[i], Left - i + 1))'
      <4>1. Left' - i + 1 = Left - (i + 1) + 1 /\ host'.rest[i] = host.rest[i + 1]
        BY <1>4
      <4>2. QED BY <1>2, <1>3, <2>1, <4>1 DEF FitsImage, DueImage
    <3>3. (FitsImage(job[host.job], Left + 1))'
      <4>1. Left' + 1 = Left
        BY <1>4
      <4>2. QED BY <1>2, <1>3, <2>1, <4>1 DEF FitsImage, DueImage
    <3>4. /\ host'.name = "isolated" => guest'.image = 1
          /\ host'.name = "candidate" /\ Left' >= 5 => guest'.image = 1
      <4>1. /\ host.name = "isolated" => guest.image = 1
            /\ host.name = "candidate" /\ Left >= 5 => guest.image = 1
        BY <2>0 DEF ImageInv
      <4>2. QED BY <1>2, <1>3, <1>4, <4>1
    <3>5. QED BY <3>2, <3>3, <3>4 DEF ImageInv
  <2>3. <<host.name, Left, h.op>> \in Dues
    <3>1. Fits(h, Left)
      BY <1>1, <1>4, <2>0 DEF ProgramInv, h
    <3>2. QED BY <3>1 DEF Fits
  <2>4. SchemaInv'
    <3>1. State <= guest.image /\ guest.image \in 1..2
      BY <1>1, <2>0 DEF SchemaInv, At, Alone, MemoryInv
    <3>2. h.op = "apply" => State <= h.image
      <4>1. CASE host.name # "candidate"
        BY <2>1, <3>1, <4>1 DEF FitsImage, DueImage
      <4>2. CASE host.name = "candidate" /\ h.op = "apply"
        <5>1. Left = 5 \/ Left = 1
          BY <2>3, <4>2 DEF Dues
        <5>2. CASE Left = 5
          BY <2>0, <2>1, <3>1, <4>2, <5>2, Types DEF FitsImage, DueImage
        <5>3. CASE Left = 1
          BY <1>1, <2>0, <2>1, <3>1, <4>2, <5>3 DEF FitsImage, DueImage, StoppedInv, Passed
        <5>4. QED BY <5>1, <5>2, <5>3
      <4>3. QED BY <4>1, <4>2
    <3>3. State' = State /\ moved'[StateTree] = 9
      BY <1>1, <1>2, <2>0 DEF State, SchemaInv, Restoring, Alone
    <3>4. QED BY <1>1, <1>2, <2>0, <3>1, <3>2, <3>3 DEF SchemaInv, At, Alone
  <2>5. StoppedInv'
    <3>1. CASE host.name # "candidate"
      BY <1>3, <3>1 DEF StoppedInv
    <3>2. CASE host.name = "candidate"
      <4>1. ~Passed'
        BY <1>2, <1>3 DEF Passed
      <4>2. h.op = "restore" => ~guest.gateway
        <5>1. h.op = "restore" => Left = 2
          BY <2>3, <3>2 DEF Dues
        <5>2. QED BY <1>1, <2>0, <3>2, <5>1 DEF StoppedInv, Passed
      <4>3. QED BY <1>1, <1>2, <1>3, <2>0, <4>1, <4>2 DEF StoppedInv, Alone
    <3>3. QED BY <3>1, <3>2
  <2>6. QED BY <2>2, <2>4, <2>5
<1>9. QED BY <1>5, <1>6, <1>7, <1>8 DEF CalmInv, FaultlessInv

(* The answer of a request: the next one, the end, or what follows a       *)
(* failure.                                                                *)
LEMMA Answers ==
    ASSUME GInv, NEW ok, host' = IF ok = "yes" THEN AfterSuccess ELSE AfterFailure
    PROVE  /\ host' \in HostState /\ host'.job = 0
           /\ \/ /\ ok = "yes" /\ host'.name = host.name /\ host'.rest = host.rest /\ host.rest # <<>>
                 /\ host'.result = host.result
              \/ /\ host.name = "live-start" /\ host'.name = "live-undo"
                 /\ host'.rest = Program("live-undo") /\ host'.result = host.result
              \/ /\ host'.name = "none" /\ host'.rest = <<>> /\ Len(host'.rest) = 0
                 /\ host'.result = "undone" => host.name = "live-undo" /\ host.rest = <<>>
<1>1. host \in HostState /\ guest.image \in Images
  BY DEF MemoryInv
<1>2. CASE ok = "yes" /\ host.rest # <<>>
  BY <1>1, <1>2 DEF AfterSuccess, HostState
<1>3. CASE ok = "yes" /\ host.rest = <<>>
  <2> DEFINE r == CASE host.name = "live-start" -> "ready" [] host.name = "live-undo" -> "undone" [] OTHER -> "none"
  <2>1. host' = [NoScript EXCEPT !.result = r]
    BY <1>3 DEF AfterSuccess
  <2>2. r \in {"none", "ready", "undone"} /\ (r = "undone" => host.name = "live-undo")
    OBVIOUS
  <2> HIDE DEF r
  <2>3. QED BY <1>3, <2>1, <2>2, EndedFacts
<1>4. CASE ok # "yes" /\ host.name = "live-start"
  <2>1. host' = [host EXCEPT !.name = "live-undo", !.rest = Program("live-undo"), !.job = 0]
    BY <1>4 DEF AfterFailure
  <2>2. Program("live-undo") \in Seq(Command)
    BY <1>1, ProgramsFit DEF Programs
  <2>3. QED BY <1>1, <1>4, <2>1, <2>2 DEF HostState, Programs
<1>5. CASE ok # "yes" /\ host.name # "live-start"
  <2> DEFINE r == IF host.name = "live-undo" THEN IF host.rest = <<>> THEN "undone" ELSE "inspect" ELSE "failed"
  <2>1. host' = [NoScript EXCEPT !.result = r]
    BY <1>5 DEF AfterFailure
  <2>2. r \in {"undone", "inspect", "failed"} /\ (r = "undone" => host.name = "live-undo" /\ host.rest = <<>>)
    OBVIOUS
  <2> HIDE DEF r
  <2>3. QED BY <2>1, <2>2, EndedFacts
<1>6. QED BY <1>2, <1>3, <1>4, <1>5

(* The answer of the only job; a restore that gave up ends its command.    *)
LEMMA ReceiveKeeps ==
    ASSUME NEW n \in Jobs, GInv, Receive(n)
    PROVE  GInv'
<1>1. /\ host.job = n /\ job[n].step = "end"
      /\ job' \in [Jobs -> Job] /\ \A m \in Jobs : m # n => job'[m] = job[m]
      /\ job'[n].op = "none" /\ job'[n].step = "idle"
      /\ UNCHANGED <<guest, tree, moved, archive, holder, scripts, orphaned, abandoned, faults>>
      /\ IF job[n].ok = "yes" THEN host' = AfterSuccess ELSE host' = AfterFailure
  BY NoJobFacts, Types DEF Receive
<1>2. /\ host' \in HostState /\ host'.job = 0
      /\ \/ /\ job[n].ok = "yes" /\ host'.name = host.name /\ host'.rest = host.rest /\ host.rest # <<>>
            /\ host'.result = host.result
         \/ /\ host.name = "live-start" /\ host'.name = "live-undo"
            /\ host'.rest = Program("live-undo") /\ host'.result = host.result
         \/ /\ host'.name = "none" /\ host'.rest = <<>> /\ Len(host'.rest) = 0
            /\ host'.result = "undone" => host.name = "live-undo" /\ host.rest = <<>>
  <2>1. host' = IF job[n].ok = "yes" THEN AfterSuccess ELSE AfterFailure
    BY <1>1
  <2>2. QED BY <2>1, Answers
<1>3. TypeOK'
  BY <1>1, <1>2, HostTypes DEF TypeOK
<1>4. MemoryInv'
  BY <1>1, <1>2 DEF MemoryInv, At, TypeOK
<1>5. ASSUME ~orphaned' PROVE Alone' /\ ProgramInv' /\ MountInv' /\ RestoreInv'
  <2>0. ~orphaned /\ Alone /\ ProgramInv /\ MountInv /\ RestoreInv
    BY <1>1, <1>5 DEF CalmInv
  <2>1. \A m \in Jobs : job'[m].op = "none" /\ job'[m].step = "idle"
    BY <1>1, <2>0 DEF Alone
  <2>2. host'.rest = host.rest => Left' = Left
    BY DEF Left
  <2>3. host.rest = <<>> <=> Left = 0
    BY DEF MemoryInv, HostState, Left
  <2>4. host'.rest = Program("live-undo") => Left' = 2
    BY ProgramsFit DEF Left, Programs, MemoryInv
  <2>5. Left' = 0 \/ host'.rest # <<>>
    BY <1>2 DEF Left
  <2>6. ProgramInv'
    <3>1. CASE host'.name = host.name /\ host'.rest = host.rest /\ host.rest # <<>>
      <4>1. ASSUME NEW i \in 1..Left' PROVE (Fits(host.rest[i], Left - i + 1))'
        <5>1. Fits(host.rest[i], Left - i + 1) /\ host'.rest[i] = host.rest[i] /\ Left' - i + 1 = Left - i + 1
          BY <2>0, <2>2, <3>1 DEF ProgramInv
        <5>2. QED BY <3>1, <5>1 DEF Fits
      <4>2. host.name # "none"
        BY <1>1, <2>0 DEF ProgramInv
      <4>3. QED BY <1>2, <3>1, <4>1, <4>2 DEF ProgramInv
    <3>2. CASE host'.name = "live-undo" /\ host'.rest = Program("live-undo")
      BY <1>2, <3>2, ProgramsFit DEF ProgramInv, Fits, Left, Fitting, Programs, MemoryInv
    <3>3. CASE host'.name = "none" /\ Len(host'.rest) = 0
      BY <1>2, <3>3 DEF ProgramInv, Left
    <3>4. QED BY <1>2, <3>1, <3>2, <3>3
  <2>7. MountInv'
    <3>1. host.name # "none" /\ host.result # "undone"
      BY <1>1, <2>0 DEF ProgramInv, MountInv
    <3>2. job[n].ok = "yes" => Passed
      BY <1>1 DEF Passed
    <3>3. QED BY <1>1, <1>2, <2>0, <2>2, <2>3, <2>4, <3>1, <3>2 DEF MountInv
  <2>8. RestoreInv'
    <3>1. Whole' = Whole
      BY <1>1 DEF Whole
    <3>2. (\E m \in Jobs : Abandoning(m)) => host'.name = "none"
      BY <1>1, <1>2, <2>0, Positions DEF Abandoning, Alone
    <3>3. ~\E m \in Jobs : Restoring(m)
      BY <1>1, <2>0 DEF Restoring, Alone
    <3>4. host.name # "none"
      BY <1>1, <2>0 DEF ProgramInv
    <3>5. QED BY <1>1, <2>0, <2>1, <3>1, <3>2, <3>3, <3>4 DEF RestoreInv, Restoring
  <2>9. QED BY <1>2, <2>1, <2>6, <2>7, <2>8 DEF Alone
<1>6. ASSUME faults' = 0 PROVE ImageInv' /\ SchemaInv' /\ StoppedInv'
  <2>0. ~orphaned /\ Alone /\ ProgramInv /\ ImageInv /\ SchemaInv /\ StoppedInv
    BY <1>1, <1>6 DEF CalmInv, FaultlessInv, MemoryInv, TypeOK
  <2>1. \A m \in Jobs : job'[m].op = "none" /\ job'[m].step = "idle"
    BY <1>1, <2>0 DEF Alone
  <2>2. host'.rest = host.rest => Left' = Left
    BY DEF Left
  <2>3. ImageInv'
    <3>1. CASE host'.name = host.name /\ host'.rest = host.rest
      <4>1. ASSUME NEW i \in 1..Left' PROVE (FitsImage(host.rest[i], Left - i + 1))'
        <5>1. FitsImage(host.rest[i], Left - i + 1) /\ host'.rest[i] = host.rest[i] /\ Left' - i + 1 = Left - i + 1
          BY <2>0, <2>2, <3>1 DEF ImageInv
        <5>2. QED BY <1>1, <3>1, <5>1 DEF FitsImage, DueImage
      <4>2. QED BY <1>1, <1>2, <2>0, <2>2, <3>1, <4>1 DEF ImageInv
    <3>2. CASE host'.name = "live-undo" /\ host'.rest = Program("live-undo")
      <4>1. ASSUME NEW i \in 1..Left' PROVE (FitsImage(host.rest[i], Left - i + 1))'
        <5>1. i \in 1..Len(Program("live-undo")) /\ "live-undo" \in Programs \ {"none"} /\ guest.image \in Images
          BY <3>2 DEF Left, Programs, MemoryInv
        <5>2. Fitting("live-undo", i)
          BY <5>1, ProgramsFit
        <5>3. QED BY <1>1, <3>2, <5>2 DEF Fitting, FitsImage, DueImage
      <4>2. QED BY <1>2, <3>2, <4>1 DEF ImageInv
    <3>3. CASE host'.name = "none" /\ Len(host'.rest) = 0
      BY <1>2, <3>3 DEF ImageInv, Left
    <3>4. QED BY <1>2, <3>1, <3>2, <3>3
  <2>4. SchemaInv'
    <3>1. State <= guest.image /\ moved[StateTree] = 9
      BY <1>1, <2>0 DEF SchemaInv, At, Alone, Restoring
    <3>2. QED BY <1>1, <2>0, <2>1, <3>1 DEF SchemaInv, State
  <2>5. StoppedInv'
    <3>1. host'.name = "candidate" => host.name = "candidate" /\ Left' = Left /\ Passed
      BY <1>1, <1>2, <2>2 DEF Passed
    <3>2. QED BY <1>1, <2>0, <2>1, <3>1 DEF StoppedInv, State
  <2>6. QED BY <2>3, <2>4, <2>5
<1>7. QED BY <1>3, <1>4, <1>5, <1>6 DEF CalmInv, FaultlessInv

-----------------------------------------------------------------------------
(* Interruptions and boots.                                                *)
(* A command that is interrupted between two jobs leaves none behind; one  *)
(* that is waiting for a job leaves an orphan, of which nothing is said.   *)
LEMMA InterruptedKeeps ==
    ASSUME GInv, Interrupted
    PROVE  GInv'
<1>1. /\ host' \in HostState /\ host'.name = "none" /\ host'.job = 0 /\ Left' = 0 /\ host'.result = "none"
      /\ orphaned' \in BOOLEAN /\ (~orphaned' => ~orphaned /\ host.job = 0)
      /\ faults' \in 0..MaxFaults /\ faults' > 0
      /\ UNCHANGED <<guest, tree, moved, archive, holder, job, scripts, abandoned>>
  <2>1. orphaned' \in BOOLEAN /\ (~orphaned' => ~orphaned /\ host.job = 0)
    <3> DEFINE b == orphaned \/ host.job # 0
    <3>1. orphaned' = b /\ b \in BOOLEAN /\ (~b => ~orphaned /\ host.job = 0)
      BY Zenon DEF Interrupted
    <3> HIDE DEF b
    <3>2. QED BY <3>1
  <2>2. QED BY <2>1, NoScriptFacts DEF Interrupted, Fault, TypeOK, Left
<1>2. TypeOK'
  BY <1>1, HostTypes DEF TypeOK
<1>3. MemoryInv'
  BY <1>1 DEF MemoryInv, At
<1>4. ASSUME ~orphaned' PROVE Alone' /\ ProgramInv' /\ MountInv' /\ RestoreInv'
  <2>0. ~orphaned /\ host.job = 0 /\ Alone /\ ProgramInv /\ MountInv /\ RestoreInv
    BY <1>1, <1>4 DEF CalmInv
  <2>1. Alone' /\ ProgramInv' /\ MountInv'
    BY <1>1, <2>0 DEF Alone, ProgramInv, MountInv
  <2>2. RestoreInv'
    BY <1>1, <2>0 DEF RestoreInv, Restoring, Whole, Alone, Abandoning
  <2>3. QED BY <2>1, <2>2
<1>5. QED BY <1>1, <1>2, <1>3, <1>4 DEF CalmInv, FaultlessInv

(* A transport that times out always leaves one.                           *)
LEMMA TimedOutKeeps ==
    ASSUME GInv, TimedOut
    PROVE  GInv'
<1>1. /\ orphaned' /\ orphaned' \in BOOLEAN /\ faults' \in 0..MaxFaults /\ faults' > 0
      /\ UNCHANGED <<guest, tree, moved, archive, holder, job, scripts, abandoned>>
  BY DEF TimedOut, Fault, TypeOK
<1>2. host' \in HostState
  <2>1. CASE host.name = "live-undo"
    BY <2>1, EndedFacts DEF TimedOut
  <2>2. CASE host.name # "live-undo"
    <3>1. host' = IF "no" = "yes" THEN AfterSuccess ELSE AfterFailure
      BY <2>2 DEF TimedOut
    <3>2. QED BY <3>1, Answers
  <2>3. QED BY <2>1, <2>2
<1>3. TypeOK' /\ MemoryInv'
  BY <1>1, <1>2, HostTypes DEF TypeOK, MemoryInv, At
<1>4. QED BY <1>1, <1>3 DEF CalmInv, FaultlessInv

(* A boot unmounts, and starts the installed image on what is on disk.     *)
Booted ==
    /\ guest' \in Guest /\ guest'.env = guest.env /\ guest'.image = guest.image
    /\ ~guest'.mounted /\ guest'.running = guest.image
    /\ tree' \in [Trees -> Schemas] /\ State' = Newer(State, guest.image)
    /\ holder' = 0 /\ job' \in [Jobs -> Job]
    /\ \A n \in Jobs : job'[n].op = "none" /\ job'[n].step = "idle"
    /\ abandoned' \in BOOLEAN /\ (Whole' \/ abandoned')
    /\ UNCHANGED <<moved, archive, scripts, orphaned>>

(* What the boot of the code leaves.                                       *)
LEMMA Booting ==
    ASSUME TypeOK, Boot
    PROVE  Booted
<1>1. guest \in Guest /\ guest.image \in Schemas /\ tree \in [Trees -> Schemas]
  BY Types
<1>2. guest' \in Guest /\ guest'.env = guest.env /\ guest'.image = guest.image
      /\ ~guest'.mounted /\ guest'.running = guest.image
  BY <1>1 DEF Boot, Guest
<1>3. tree' \in [Trees -> Schemas] /\ State' = Newer(State, guest.image)
  BY <1>1 DEF Boot, State, Newer
<1>4. abandoned' \in BOOLEAN /\ (Whole' \/ abandoned')
  <2> DEFINE b == abandoned \/ ~Whole
  <2>1. abandoned' = b /\ b \in BOOLEAN /\ (Whole \/ b)
    BY Zenon DEF Boot
  <2>2. Whole' = Whole
    BY DEF Boot, Whole
  <2> HIDE DEF b
  <2>3. QED BY <2>1, <2>2
<1>5. QED BY <1>2, <1>3, <1>4, NoJobFacts DEF Boot, Booted

(* After a loss of power there is neither a command nor a job.             *)
LEMMA PowerLostKeeps ==
    ASSUME GInv, PowerLost
    PROVE  GInv'
<1>1. Booted
  BY Booting DEF PowerLost
<1>2. /\ host' \in HostState /\ host'.name = "none" /\ host'.job = 0 /\ Left' = 0 /\ host'.result = "none"
      /\ faults' \in 0..MaxFaults /\ faults' > 0
  BY NoScriptFacts DEF PowerLost, Fault, TypeOK, Left
<1>3. TypeOK'
  BY <1>1, <1>2, HostTypes DEF TypeOK, Booted
<1>4. MemoryInv'
  BY <1>1, <1>2 DEF MemoryInv, At, Booted
<1>5. ASSUME ~orphaned' PROVE Alone' /\ ProgramInv' /\ MountInv' /\ RestoreInv'
  BY <1>1, <1>2, <1>5 DEF CalmInv, Alone, ProgramInv, MountInv, RestoreInv, Restoring, Booted
<1>6. QED BY <1>2, <1>3, <1>4, <1>5 DEF CalmInv, FaultlessInv

(* The rehearsal reboots between the candidate's image and the rollback.   *)
LEMMA RebootKeeps ==
    ASSUME GInv, Reboot
    PROVE  GInv'
<1> DEFINE h == host.rest[1]
<1>1. Booted /\ faults' = faults
  BY Booting DEF Reboot
<1>2. /\ host \in HostState /\ host.rest # <<>> /\ host.job = 0 /\ host.name # "none"
      /\ Head(host.rest) = h /\ h.op = "reboot"
  BY Tails DEF Reboot, MemoryInv, HostState
<1>3. /\ host' \in HostState /\ host'.name = host.name /\ host'.job = 0 /\ host'.result = host.result
      /\ host'.rest = Tail(host.rest)
  BY <1>2, Tails DEF Reboot, HostState
<1>4. /\ Left \in Nat \ {0} /\ Left' = Left - 1
      /\ \A i \in 1..Left' : host'.rest[i] = host.rest[i + 1]
  BY <1>2, <1>3, Tails DEF HostState, Left
<1> HIDE DEF h
<1>5. TypeOK'
  BY <1>1, <1>3, HostTypes DEF TypeOK, Booted
<1>6. MemoryInv'
  BY <1>1, <1>3 DEF MemoryInv, At, Booted
<1>7. ASSUME ~orphaned PROVE host.name = "candidate" /\ Left = 4
  <2>1. <<host.name, Left, h.op>> \in Dues
    BY <1>2, <1>4, <1>7 DEF CalmInv, ProgramInv, Fits, h
  <2>2. QED BY <1>2, <2>1 DEF Dues
<1>8. ASSUME ~orphaned' PROVE Alone' /\ ProgramInv' /\ MountInv' /\ RestoreInv'
  <2>0. ~orphaned /\ Alone /\ ProgramInv /\ MountInv
    BY <1>1, <1>8 DEF CalmInv, Booted
  <2>1. Alone' /\ RestoreInv'
    BY <1>1 DEF Alone, RestoreInv, Restoring, Booted
  <2>2. ProgramInv'
    <3>1. ASSUME NEW i \in 1..Left' PROVE (Fits(host.rest[i], Left - i + 1))'
      <4>1. Left' - i + 1 = Left - (i + 1) + 1 /\ host'.rest[i] = host.rest[i + 1] /\ i + 1 \in 1..Left
        BY <1>4
      <4>2. Fits(host.rest[i + 1], Left - (i + 1) + 1)
        BY <2>0, <4>1 DEF ProgramInv
      <4>3. QED BY <1>3, <4>1, <4>2 DEF Fits
    <3>2. QED BY <1>2, <1>3, <3>1 DEF ProgramInv
  <2>3. MountInv'
    BY <1>1, <1>2, <1>3, <2>0 DEF MountInv, Booted
  <2>4. QED BY <2>1, <2>2, <2>3
<1>9. ASSUME faults' = 0 PROVE ImageInv' /\ SchemaInv' /\ StoppedInv'
  <2>0. ~orphaned /\ Alone /\ ImageInv /\ SchemaInv
    BY <1>1, <1>9 DEF CalmInv, FaultlessInv, MemoryInv, TypeOK
  <2>1. ImageInv'
    <3>1. ASSUME NEW i \in 1..Left' PROVE (FitsImage(host.rest[i], Left - i + 1))'
      <4>1. Left' - i + 1 = Left - (i + 1) + 1 /\ host'.rest[i] = host.rest[i + 1] /\ i + 1 \in 1..Left
        BY <1>4
      <4>2. FitsImage(host.rest[i + 1], Left - (i + 1) + 1)
        BY <2>0, <4>1 DEF ImageInv
      <4>3. guest'.image = guest.image
        BY <1>1 DEF Booted
      <4>4. QED BY <1>3, <4>1, <4>2, <4>3 DEF FitsImage, DueImage
    <3>2. /\ host'.name = "isolated" => guest'.image = 1
          /\ host'.name = "candidate" /\ Left' >= 5 => guest'.image = 1
      <4>1. host'.name = "candidate" /\ Left = 4
        BY <1>3, <1>7, <2>0
      <4>2. QED BY <1>4, <4>1
    <3>3. QED BY <1>3, <3>1, <3>2 DEF ImageInv
  <2>2. SchemaInv'
    <3>1. State <= guest.image /\ moved[StateTree] = 9 /\ State \in 0..2 /\ guest.image \in 0..2
      BY <1>2, <2>0, Types DEF SchemaInv, At, Alone, Restoring
    <3>2. State' = guest.image
      BY <1>1, <3>1 DEF Booted, Newer
    <3>3. QED BY <1>1, <2>0, <3>1, <3>2 DEF SchemaInv, Booted
  <2>3. StoppedInv'
    BY <1>1, <1>4, <1>7, <2>0 DEF StoppedInv, Booted
  <2>4. QED BY <2>1, <2>2, <2>3
<1>10. QED BY <1>5, <1>6, <1>8, <1>9 DEF CalmInv, FaultlessInv

-----------------------------------------------------------------------------
(* The baseline is up, with its state.                                     *)
LEMMA Initially ==
    ASSUME Init
    PROVE  GInv
<1>1. /\ host = NoScript /\ Left = 0 /\ host \in HostState /\ host.name = "none" /\ host.job = 0
      /\ host.result = "none" /\ ~orphaned /\ faults = 0
      /\ \A n \in Jobs : job[n].op = "none" /\ job[n].step = "idle"
  BY NoScriptFacts, NoJobFacts DEF Init, Left
<1>2. guest \in Guest /\ guest.env = "synthetic" /\ guest.image = 1 /\ guest.running = 1 /\ ~guest.mounted
  BY DEF Init, Guest
<1>3. archive \in Archive /\ ~archive.secret /\ archive.schemas[StateTree] = 0
  BY DEF Init, Untaken, Archive
<1>4. tree \in [Trees -> Schemas] /\ State = 1 /\ Whole /\ moved[StateTree] = 9
  BY DEF Init, State, Whole
<1>5. TypeOK
  <2>1. /\ guest \in Guest /\ tree \in [Trees -> Schemas] /\ moved \in [Trees -> Schemas \cup {9}]
        /\ job \in [Jobs -> Job] /\ holder = 0 /\ scripts \in 0..MaxScripts /\ faults \in 0..MaxFaults
        /\ orphaned \in BOOLEAN /\ abandoned \in BOOLEAN
    <3>1. moved \in [Trees -> Schemas \cup {9}]
      BY DEF Init
    <3>2. job = [n \in Jobs |-> NoJob] /\ NoJob \in Job
      BY NoJobFacts DEF Init
    <3>3. job \in [Jobs -> Job]
      BY <3>2
    <3>4. orphaned \in BOOLEAN /\ abandoned \in BOOLEAN
      BY Zenon, TruthValues DEF Init
    <3>5. holder = 0 /\ scripts \in 0..MaxScripts /\ faults \in 0..MaxFaults
      BY DEF Init
    <3>6. QED BY <1>2, <1>4, <3>1, <3>3, <3>4, <3>5
  <2>2. /\ host.name \in Programs /\ host.job \in Jobs \cup {0}
        /\ host.result \in {"none", "ready", "failed", "undone", "inspect"}
        /\ \A i \in DOMAIN host.rest : host.rest[i] \in Command
    BY <1>1 DEF HostState
  <2>3. QED BY <1>3, <2>1, <2>2 DEF TypeOK, Archive
<1>6. MemoryInv
  BY <1>1, <1>2 DEF MemoryInv, At, Init
<1>7. Alone /\ ProgramInv /\ MountInv /\ RestoreInv
  BY <1>1, <1>2, <1>3, <1>4 DEF Alone, ProgramInv, MountInv, RestoreInv, Restoring
<1>8. ImageInv /\ SchemaInv /\ StoppedInv
  BY <1>1, <1>2, <1>3, <1>4 DEF ImageInv, SchemaInv, StoppedInv
<1>9. QED BY <1>5, <1>6, <1>7, <1>8 DEF CalmInv, FaultlessInv

(* A step of stuttering keeps everything.                                  *)
LEMMA Stuttering ==
    ASSUME GInv, UNCHANGED vars
    PROVE  GInv'
<1>1. /\ guest' = guest /\ tree' = tree /\ moved' = moved /\ archive' = archive /\ holder' = holder /\ job' = job
      /\ host' = host /\ scripts' = scripts /\ orphaned' = orphaned /\ abandoned' = abandoned /\ faults' = faults
  BY DEF vars
<1>2. TypeOK' /\ MemoryInv'
  BY <1>1 DEF TypeOK, MemoryInv, At
<1>3. CalmInv'
  BY <1>1 DEF CalmInv, Alone, ProgramInv, MountInv, RestoreInv, Fits, Left, Passed, Restoring, Abandoning,
       Whole
<1>4. FaultlessInv'
  BY <1>1 DEF FaultlessInv, ImageInv, SchemaInv, StoppedInv, FitsImage, DueImage, Left, Passed, Restoring,
       State, At
<1>5. QED BY <1>2, <1>3, <1>4

(* Every action keeps the invariant.                                       *)
LEMMA StepsKeep ==
    ASSUME GInv, [Next]_vars
    PROVE  GInv'
<1>1. ASSUME NEW n \in Jobs, Apply(n) PROVE GInv'
  BY <1>1, ApplyLockKeeps, EnsureInstanceKeeps, RefuseInstanceKeeps, ConfigureKeeps, InstallQuadletsKeeps,
     RestartKeeps, VerifyKeeps DEF Apply
<1>2. ASSUME NEW n \in Jobs, Live(n) PROVE GInv'
  BY <1>2, PrepareKeeps, MountKeeps, InjectKeeps, WriteSecretKeeps, ClearKeeps, UmountKeeps DEF Live
<1>3. ASSUME NEW n \in Jobs, Lab(n) PROVE GInv'
  BY <1>3, CheckSyntheticKeeps, TakeLockKeeps, StopWritersKeeps, TarKeeps, ReplaceKeeps, RestoredKeeps,
     UndoKeeps DEF Lab
<1>4. QED
  BY <1>1, <1>2, <1>3, BeginKeeps, SendKeeps, ReceiveKeeps, OrphanEndsKeeps, ApplyFailsKeeps,
       MountFailsKeeps,
     TarFailsKeeps, ReplaceFailsKeeps, UndoFailsKeeps, JobFailsKeeps, RebootKeeps, InterruptedKeeps, TimedOutKeeps, PowerLostKeeps, Stuttering
     DEF Next

(* The inductive invariant holds always.                                   *)
LEMMA GuestInvariant == Spec => []GInv
<1>1. Init => GInv
  BY Initially
<1>2. GInv /\ [Next]_vars => GInv'
  BY StepsKeep
<1>3. QED BY <1>1, <1>2, PTL DEF Spec

(* No service runs while trees are set aside (lab_guest.py: "do not        *)
(* restart partial state"), and an image never runs on newer state (the    *)
(* rehearsal of vm/hermes-disposable.py), with the types of the state.     *)
THEOREM GuestSafe == Spec => []GuestInv
<1>1. GInv => GuestInv
  <2>1. ASSUME GInv PROVE PartialStateNeverRuns
    BY <2>1 DEF PartialStateNeverRuns, CalmInv, RestoreInv, Abandoning, Alone, ProgramInv
  <2>2. ASSUME GInv PROVE OldImageNeverOnNewState
    BY <2>2 DEF OldImageNeverOnNewState, FaultlessInv, SchemaInv, State
  <2>3. QED BY <2>1, <2>2 DEF GuestInv
<1>2. QED BY <1>1, GuestInvariant, PTL

(* The live secret is never written to the disk, archived or swapped       *)
(* (live-guest.py prepare and inject, lab_guest.py backup).                *)
THEOREM SecretStaysInMemory == Spec => []LiveSecretStaysInMemory
<1>1. GInv => LiveSecretStaysInMemory
  BY DEF LiveSecretStaysInMemory, MemoryInv, CalmInv, MountInv
<1>2. QED BY <1>1, GuestInvariant, PTL

(* A live start that failed and says it was undone has left no credential  *)
(* (hermes-disposable.py live_start).                                      *)
THEOREM FailedIsCleared == Spec => []FailedMeansCleared
<1>1. GInv => FailedMeansCleared
  BY DEF FailedMeansCleared, CalmInv, MountInv
<1>2. QED BY <1>1, GuestInvariant, PTL
=============================================================================
