---------------------------- MODULE LabInstances ----------------------------
(***************************************************************************)
(* The host side of the disposable lab: scripts/hermes/lab.py and          *)
(* lab_runtime.py, with what they call of vm/hermes-disposable.py and, on  *)
(* the builder's disk, of lab_guest.py and profile-deploy.py prepare.      *)
(*                                                                         *)
(* An instance is a directory with an identity marker and a libvirt domain *)
(* of the same name.  Commands run as separate processes, under locks that *)
(* they do not wait for and that the kernel drops when they end.  A failed *)
(* or killed command leaves everything as it is.                           *)
(*                                                                         *)
(* LabInit, LabNext and LabSpec are named after the lab, so that a module  *)
(* can extend this one beside another.                                     *)
(***************************************************************************)
EXTENDS Naturals, FiniteSets, FiniteSetsExt

CONSTANTS
    Procs,          \* processes of lab.py
    Names,          \* instances, Builder and Probe among them
    Builder, Probe, \* the instances build-<key> and audit-<key>
    Running,        \* the instance that is up at first, if any
    MaxCommands,    \* commands
    MaxSources,     \* versions of the files that a cache key is made of
    MaxMishaps      \* kills in the middle of a write, and foreign domains

ASSUME LabInstancesAssumption ==
    /\ IsFiniteSet(Names) /\ Builder \in Names /\ Probe \in Names /\ Builder # Probe
    /\ Running \subseteq Names \ {Builder, Probe} /\ Cardinality(Running) <= 1
    /\ MaxCommands \in Nat /\ MaxSources \in Nat \ {0} /\ MaxMishaps \in Nat

VARIABLES
    dir,        \* .toolbox/hermes-disposable/v2/instances
    dom,        \* the UUID of the domain of that name, or 0
    disk,       \* what the instance's disk holds
    stage,      \* prepared/<key>.building
    prepared,   \* prepared/<key>
    proc,       \* the processes
    sources,    \* the version of the sources on the host
    commands, mishaps

labVars == <<dir, dom, disk, stage, prepared, proc, sources, commands, mishaps>>

Keys == 1..MaxSources
Uuids == 1..(2 * Cardinality(Names) + 1)
Foreign == 2 * Cardinality(Names) + 2   \* the UUID of a domain the lab did not make
Ports == 1..Cardinality(Names)      \* 22222 and up
Kinds == {"none", "stock", "built", "app", "clean"}

Absent == [state |-> "none", uuid |-> 0, port |-> 0, pending |-> FALSE]
NoDisk == [kind |-> "none", src |-> 0]
NoImage == [kind |-> "none", src |-> 0, audited |-> FALSE]
Steps == {"idle", "lock", "cache", "stage", "boot", "mark", "install", "confirm", "build", "sanitize",
          "probe", "audit", "deploy", "profile", "clean", "undefine", "remove", "publish"}
Idle == [cmd |-> "none", step |-> "idle", name |-> Builder, key |-> 1, port |-> 0, booting |-> FALSE]

Busy(p) == proc[p].cmd # "none"
(* The instance, cache and port locks that a process holds.                *)
Holds(p, n) ==
    /\ Busy(p) /\ proc[p].step # "lock"
    /\ \/ proc[p].cmd # "prepare" /\ proc[p].name = n
       \/ proc[p].cmd = "prepare" /\ proc[p].step # "stage" /\ (n = Builder \/ (n = Probe /\ proc[p].name = Probe))
HoldsCache(p, k) == proc[p].cmd = "prepare" /\ proc[p].step # "lock" /\ proc[p].key = k
HoldsPorts(p) == proc[p].booting

LabTypeOK ==
    /\ dir \in [Names -> [state: {"none", "bare", "marked", "torn"}, uuid: 0..Foreign, port: {0} \cup Ports,
                          pending: BOOLEAN]]
    /\ dom \in [Names -> 0..Foreign]
    /\ disk \in [Names -> [kind: Kinds, src: 0..MaxSources]]
    /\ stage \in [Keys -> [kind: Kinds \cup {"empty"}, src: 0..MaxSources, audited: BOOLEAN]]
    /\ prepared \in [Keys -> [kind: Kinds, src: 0..MaxSources, audited: BOOLEAN]]
    /\ proc \in [Procs -> [cmd: {"none", "up", "suite", "deploy", "clean", "prepare"}, step: Steps, name: Names,
                           key: Keys, port: {0} \cup Ports, booting: BOOLEAN]]
    /\ sources \in Keys /\ commands \in 0..MaxCommands /\ mishaps \in 0..MaxMishaps
    /\ \A p, q \in Procs : p # q =>
          /\ ~(HoldsPorts(p) /\ HoldsPorts(q))
          /\ \A n \in Names : ~(Holds(p, n) /\ Holds(q, n))

(* The instances of Running are up; there is no cache.                     *)
LabInit ==
    /\ dir = [n \in Names |-> IF n \in Running THEN [Absent EXCEPT !.state = "marked", !.uuid = 1, !.port = 1]
                               ELSE Absent]
    /\ dom = [n \in Names |-> IF n \in Running THEN 1 ELSE 0]
    /\ disk = [n \in Names |-> IF n \in Running THEN [kind |-> "app", src |-> 1] ELSE NoDisk]
    /\ stage = [k \in Keys |-> NoImage]
    /\ prepared = [k \in Keys |-> NoImage]
    /\ proc = [p \in Procs |-> Idle]
    /\ sources = 1
    /\ commands = 0
    /\ mishaps = 0

-----------------------------------------------------------------------------
At(p, step) == Busy(p) /\ proc[p].step = step
To(p, step) == proc' = [proc EXCEPT ![p].step = step]
Locked(n) == \E q \in Procs : Holds(q, n)
host == <<dir, dom, disk, stage, prepared>>
bounds == <<sources, commands, mishaps>>

(* lab.py: the instance's port is read from its marker before any lock is  *)
(* taken, and the cache key of a prepare is of the sources as they are.    *)
(* Commands that use neither begin with their instance's lock.  The        *)
(* operator uses the builder's and the probe's names only to clean.        *)
First == [up |-> "cache", suite |-> "cache", clean |-> "clean", deploy |-> "lock", prepare |-> "lock"]
Begin(p, cmd, n) ==
    /\ ~Busy(p) /\ commands < MaxCommands
    /\ cmd = "prepare" => n = Builder
    /\ n \in {Builder, Probe} => cmd \in {"prepare", "clean"}
    /\ dir[n].state # "torn"
    /\ First[cmd] # "lock" => ~Locked(n)
    /\ proc' = [proc EXCEPT ![p] = [cmd |-> cmd, step |-> First[cmd], name |-> n,
                                    key |-> IF cmd = "prepare" THEN sources ELSE 1,
                                    port |-> IF cmd = "deploy" THEN dir[n].port ELSE 0, booting |-> FALSE]]
    /\ commands' = commands + 1
    /\ UNCHANGED <<host, sources, mishaps>>

(* A command that stops, refused, failed or killed: nothing is cleaned up. *)
Stop(p) ==
    /\ Busy(p)
    /\ proc' = [proc EXCEPT ![p] = Idle]
    /\ UNCHANGED <<host, bounds>>

LockInstance(p) ==
    /\ At(p, "lock") /\ proc[p].cmd = "deploy"
    /\ ~Locked(proc[p].name)
    /\ To(p, "deploy")
    /\ UNCHANGED <<host, bounds>>

(* read_cache: an up without --stock wants a whole published cache.        *)
ReadCache(p) ==
    /\ At(p, "cache")
    /\ \E k \in Keys : k = sources /\ prepared[k].kind # "none" /\ proc' = [proc EXCEPT ![p].step = "boot", ![p].key = k]
    /\ UNCHANGED <<host, bounds>>
Stock(p) == At(p, "cache") /\ proc[p].cmd = "up" /\ To(p, "boot") /\ UNCHANGED <<host, bounds>>

(* prepare: under the lock of the key, an existing cache is used, a stage  *)
(* left by an interrupted build is not.                                    *)
LockCache(p) ==
    /\ At(p, "lock") /\ proc[p].cmd = "prepare"
    /\ \A q \in Procs : ~HoldsCache(q, proc[p].key)
    /\ prepared[proc[p].key].kind = "none"
    /\ stage[proc[p].key].kind = "none"
    /\ stage' = [stage EXCEPT ![proc[p].key].kind = "empty"]
    /\ To(p, "stage")
    /\ UNCHANGED <<dir, dom, disk, prepared, bounds>>
LockBuilder(p) == At(p, "stage") /\ ~Locked(Builder) /\ To(p, "boot") /\ UNCHANGED <<host, bounds>>

-----------------------------------------------------------------------------
(* Instance.boot and fresh_run, under the lock of the ports.  A marker that *)
(* cannot be parsed stops it.                                              *)
Reserved == {dir[n].port : n \in {m \in Names : dir[m].state = "marked"}}
FreePorts == Ports \ Reserved

Boot(p) ==
    LET n == proc[p].name IN
    /\ At(p, "boot")
    /\ \A q \in Procs : ~HoldsPorts(q)
    /\ dir[n].state = "none" /\ dom[n] = 0
    /\ \A m \in Names : dir[m].state # "torn"
    /\ FreePorts # {}
    /\ dir' = [dir EXCEPT ![n] = [Absent EXCEPT !.state = "bare"]]
    /\ proc' = [proc EXCEPT ![p].step = "mark", ![p].port = Min(FreePorts), ![p].booting = TRUE]
    /\ UNCHANGED <<dom, disk, stage, prepared, bounds>>

(* The overlay, then the marker with the UUID the domain will have, one    *)
(* that is in use nowhere.                                                 *)
NextUuid == Min(Uuids \ ({dir[n].uuid : n \in Names} \cup {dom[n] : n \in Names}))
Base(p) ==
    LET image == IF proc[p].name = Probe /\ proc[p].cmd = "prepare" THEN stage[proc[p].key]
                 ELSE prepared[proc[p].key] IN
    CASE proc[p].cmd = "prepare" /\ proc[p].name = Builder -> [kind |-> "stock", src |-> 0]
      [] image.kind = "none" -> [kind |-> "stock", src |-> 0]
      [] OTHER -> [kind |-> image.kind, src |-> image.src]
Marked(p) == [state |-> "marked", uuid |-> NextUuid, port |-> proc[p].port, pending |-> FALSE]
(* Mutant of Mark: the marker is left to Confirm.                          *)
MarkLater(p) ==
    LET n == proc[p].name IN
    /\ At(p, "mark")
    /\ disk' = [disk EXCEPT ![n] = Base(p)]
    /\ To(p, "install")
    /\ UNCHANGED <<dir, dom, stage, prepared, bounds>>
Mark(p) ==
    LET n == proc[p].name IN
    /\ At(p, "mark")
    /\ disk' = [disk EXCEPT ![n] = Base(p)]
    /\ dir' = [dir EXCEPT ![n] = Marked(p)]
    /\ To(p, "install")
    /\ UNCHANGED <<dom, stage, prepared, bounds>>

(* virt-install refuses a name that is taken.                              *)
Install(p) ==
    LET n == proc[p].name IN
    /\ At(p, "install")
    /\ dom[n] = 0
    /\ dom' = [dom EXCEPT ![n] = IF dir[n].state = "marked" THEN dir[n].uuid ELSE NextUuid]
    /\ To(p, "confirm")
    /\ UNCHANGED <<dir, disk, stage, prepared, bounds>>

(* The marker again, with the domain's own UUID; what comes next depends   *)
(* on the command.                                                         *)
AfterBoot(p) ==
    CASE proc[p].cmd # "prepare" -> "deploy" [] proc[p].name = Builder -> "build" [] OTHER -> "audit"
Confirm(p) ==
    LET n == proc[p].name IN
    /\ At(p, "confirm")
    /\ dir' = [dir EXCEPT ![n] = [state |-> "marked", uuid |-> dom[n], port |-> proc[p].port, pending |-> FALSE]]
    /\ proc' = [proc EXCEPT ![p].step = AfterBoot(p), ![p].booting = FALSE]
    /\ UNCHANGED <<dom, disk, stage, prepared, bounds>>

(* write_text truncates: a kill leaves a marker that is not JSON.          *)
TearMarker(p) ==
    LET n == proc[p].name IN
    /\ proc[p].step \in {"mark", "confirm"} /\ Busy(p)
    /\ mishaps < MaxMishaps
    /\ dir' = [dir EXCEPT ![n] = [Absent EXCEPT !.state = "torn"]]
    /\ proc' = [proc EXCEPT ![p] = Idle]
    /\ mishaps' = mishaps + 1
    /\ UNCHANGED <<dom, disk, stage, prepared, sources, commands>>

-----------------------------------------------------------------------------
(* Instance.deploy: the identity, then SSH to the port that was read at    *)
(* the start; known_hosts pins that instance's key to its port.            *)
Owned(n) == dir[n].state = "marked" /\ dom[n] = dir[n].uuid
AtPort(q) == {n \in Names : dom[n] \notin {0, Foreign} /\ dir[n].port = q}
(* Mutant of Reached: whoever answers at the port is taken for the guest.  *)
ReachedUnpinned(p) == AtPort(proc[p].port)
Reached(p) == AtPort(proc[p].port) \cap {proc[p].name}
DeployApp(p) ==
    /\ At(p, "deploy")
    /\ Owned(proc[p].name)
    /\ Reached(p) # {}
    /\ disk' = [n \in Names |-> IF n \in Reached(p) THEN [kind |-> "app", src |-> sources] ELSE disk[n]]
    /\ To(p, "profile")
    /\ UNCHANGED <<dir, dom, stage, prepared, bounds>>

(* profile.json and artifact.json, through a temporary file that must not  *)
(* exist and that a kill leaves behind.                                    *)
AfterDeploy(p) == IF proc[p].cmd = "suite" THEN [proc[p] EXCEPT !.step = "clean"] ELSE Idle
WriteProfile(p) ==
    /\ At(p, "profile")
    /\ ~dir[proc[p].name].pending
    /\ proc' = [proc EXCEPT ![p] = AfterDeploy(p)]
    /\ UNCHANGED <<host, bounds>>
LeaveTemporary(p) ==
    /\ At(p, "profile")
    /\ mishaps < MaxMishaps
    /\ dir' = [dir EXCEPT ![proc[p].name].pending = TRUE]
    /\ proc' = [proc EXCEPT ![p] = Idle]
    /\ mishaps' = mishaps + 1
    /\ UNCHANGED <<dom, disk, stage, prepared, sources, commands>>

-----------------------------------------------------------------------------
(* Instance.clean and clean: an unexpected file, a marker that differs or  *)
(* a domain that is not the marker's stops it.                             *)

CleanAllowed(n) == ~dir[n].pending /\ dir[n].state # "torn" /\ (dom[n] # 0 => Owned(n))
Clean(p) ==
    /\ At(p, "clean")
    /\ CleanAllowed(proc[p].name)
    /\ To(p, IF dom[proc[p].name] = 0 THEN "remove" ELSE "undefine")
    /\ UNCHANGED <<host, bounds>>
Undefine(p) ==
    /\ At(p, "undefine")
    /\ dom' = [dom EXCEPT ![proc[p].name] = 0]
    /\ To(p, "remove")
    /\ UNCHANGED <<dir, disk, stage, prepared, bounds>>
AfterClean(p) ==
    IF proc[p].cmd = "prepare" /\ proc[p].name = Probe
    THEN [proc[p] EXCEPT !.step = "publish", !.name = Builder] ELSE Idle
Remove(p) ==
    LET n == proc[p].name IN
    /\ At(p, "remove")
    /\ dir' = [dir EXCEPT ![n] = Absent]
    /\ disk' = [disk EXCEPT ![n] = NoDisk]
    /\ proc' = [proc EXCEPT ![p] = AfterClean(p)]
    /\ UNCHANGED <<dom, stage, prepared, bounds>>

-----------------------------------------------------------------------------
(* prepare's own steps.                                                    *)

(* The sources as they are now go to the builder, and its images back.     *)
Exported(p) == [stage EXCEPT ![proc[p].key].src = sources]
BuildImages(p) ==
    /\ At(p, "build")
    /\ disk[Builder].kind = "stock"
    /\ disk' = [disk EXCEPT ![Builder] = [kind |-> "built", src |-> sources]]
    /\ stage' = Exported(p)
    /\ To(p, "sanitize")
    /\ UNCHANGED <<dir, dom, prepared, bounds>>

(* lab_guest.py sanitize refuses a disk with application state, removes    *)
(* the account and the identities, and powers off; the disk of a builder   *)
(* that is still ours becomes the stage's base.                            *)
Sanitize(p) ==
    /\ At(p, "sanitize")
    /\ disk[Builder].kind = "built" /\ Owned(Builder)
    /\ disk' = [disk EXCEPT ![Builder].kind = "clean"]
    /\ stage' = [stage EXCEPT ![proc[p].key].kind = "clean"]
    /\ To(p, "probe")
    /\ UNCHANGED <<dir, dom, prepared, bounds>>
LockProbe(p) ==
    /\ At(p, "probe")
    /\ ~Locked(Probe)
    /\ proc' = [proc EXCEPT ![p].step = "boot", ![p].name = Probe]
    /\ UNCHANGED <<host, bounds>>

(* The clone is sanitized, has no application state, and neither the       *)
(* builder's machine identity nor its access.                              *)
AuditBase(n) == disk[n].kind = "clean"
Audit(p) ==
    /\ At(p, "audit")
    /\ AuditBase(Probe)
    /\ stage' = [stage EXCEPT ![proc[p].key].audited = TRUE]
    /\ To(p, "clean")
    /\ UNCHANGED <<dir, dom, disk, prepared, bounds>>

(* The key is computed again, and the stage renamed.                       *)
(* Mutant of Publish: the key is not computed again.                       *)
PublishUnchecked(p) ==
    /\ At(p, "publish")
    /\ prepared' = [prepared EXCEPT ![proc[p].key] = stage[proc[p].key]]
    /\ stage' = [stage EXCEPT ![proc[p].key] = NoImage]
    /\ To(p, "clean")
    /\ UNCHANGED <<dir, dom, disk, bounds>>
Publish(p) ==
    /\ At(p, "publish")
    /\ sources = proc[p].key
    /\ prepared' = [prepared EXCEPT ![proc[p].key] = stage[proc[p].key]]
    /\ stage' = [stage EXCEPT ![proc[p].key] = NoImage]
    /\ To(p, "clean")
    /\ UNCHANGED <<dir, dom, disk, bounds>>

-----------------------------------------------------------------------------
(* Around the lab: the sources are edited while a cache is prepared, never *)
(* back to an earlier version; the operator removes a failed build's stage; somebody defines  *)
(* a domain of one of these names.                                         *)
Edit ==
    /\ \E p \in Procs : proc[p].cmd = "prepare"
    /\ sources < MaxSources
    /\ sources' = sources + 1
    /\ UNCHANGED <<host, proc, commands, mishaps>>
DiscardStage(k) ==
    /\ stage[k].kind # "none"
    /\ \A p \in Procs : ~HoldsCache(p, k)
    /\ stage' = [stage EXCEPT ![k] = NoImage]
    /\ UNCHANGED <<dir, dom, disk, prepared, proc, bounds>>
DefineForeign(n) ==
    /\ dom[n] = 0
    /\ mishaps < MaxMishaps
    /\ dom' = [dom EXCEPT ![n] = Foreign]
    /\ mishaps' = mishaps + 1
    /\ UNCHANGED <<dir, disk, stage, prepared, proc, sources, commands>>

Booting(p) == Boot(p) \/ Mark(p) \/ Install(p) \/ Confirm(p) \/ TearMarker(p)
DeployingApp(p) == DeployApp(p) \/ WriteProfile(p) \/ LeaveTemporary(p)
Cleaning(p) == Clean(p) \/ Undefine(p) \/ Remove(p)
Preparing(p) ==
    \/ LockCache(p) \/ LockBuilder(p) \/ BuildImages(p) \/ Sanitize(p) \/ LockProbe(p) \/ Audit(p)
    \/ Publish(p)

LabNext ==
    \/ \E p \in Procs, cmd \in {"up", "suite", "deploy", "clean", "prepare"}, n \in Names : Begin(p, cmd, n)
    \/ \E p \in Procs : Stop(p) \/ LockInstance(p) \/ ReadCache(p) \/ Stock(p)
    \/ \E p \in Procs : Booting(p) \/ DeployingApp(p) \/ Cleaning(p) \/ Preparing(p)
    \/ Edit \/ (\E k \in Keys : DiscardStage(k)) \/ (\E n \in Names : DefineForeign(n))

LabSpec == LabInit /\ [][LabNext]_labVars

-----------------------------------------------------------------------------
(* "Clone audit" (lab_runtime.py prepare): what up boots from was built    *)
(* from the sources its key names, sanitized, and audited as a clone,      *)
(* whatever was killed, edited or cleaned while it was made.               *)
PublishedIsAudited ==
    \A k \in Keys : prepared[k].kind # "none" =>
        prepared[k].kind = "clean" /\ prepared[k].audited /\ prepared[k].src = k

(* Two instances never have the same loopback port (boot's allocation      *)
(* lock), so that a command cannot reach another's guest through it.       *)
PortsDiffer ==
    \A m, n \in Names :
        m # n /\ dir[m].state = "marked" /\ dir[n].state = "marked" => dir[m].port # dir[n].port

(* A domain the lab made can be cleaned up: wherever a command was killed, *)
(* the marker beside it names its UUID, unless the kill tore the marker.   *)
OwnDomainIsMarked ==
    \A n \in Names :
        dom[n] \notin {0, Foreign} => dir[n].state = "torn" \/ (dir[n].state = "marked" /\ dir[n].uuid = dom[n])

(* clean destroys no domain that another made ("exact owned instance       *)
(* only").                                                                 *)
ForeignDomainKept == [][\A n \in Names : dom[n] = Foreign => dom'[n] = Foreign]_labVars

(* A guest is changed only by a process that holds its instance's lock,    *)
(* although the port was read before the lock was taken.                   *)
OnlyHolderChangesGuest == [][\A n \in Names : disk'[n] # disk[n] => \E p \in Procs : Holds(p, n)]_labVars

(* The invariant of the instances: the type of the state, with one holder  *)
(* for every lock, ports that differ, and domains that can be identified.  *)
InstancesInv == LabTypeOK /\ PortsDiffer /\ OwnDomainIsMarked

(* No command changes what is not its own: a foreign domain, or a guest    *)
(* whose instance lock it does not hold.                                   *)
OnlyOwnIsChanged == ForeignDomainKept /\ OnlyHolderChangesGuest
=============================================================================
