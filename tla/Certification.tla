--------------------------- MODULE Certification ---------------------------
(***************************************************************************)
(* The candidate scheduler (scripts/hermes/unattended/schedule.py), the    *)
(* certifier it runs as a child (certify.py, with prepare.py and           *)
(* scan_candidate.py) and the endpoint of the laboratory guest that        *)
(* answers the certifier (certify_guest.py, certify_observe.py,            *)
(* lab_previous.py).                                                       *)
(*                                                                         *)
(* One enrolled run: one candidate directory, one journal, one certifier   *)
(* state file, one evidence directory, one lease.  The certifier follows a *)
(* fixed plan of requests; a request is a job in the guest that holds the  *)
(* endpoint's lock, and it goes on when the certifier dies.  The guest     *)
(* reboots during the deployment, is power-cycled by the certifier, and    *)
(* may lose power.  The service runs from a timer; systemd runs the        *)
(* scheduler again with --cleanup-only whenever it stops (ExecStopPost),   *)
(* except after a power loss of the workstation.                           *)
(*                                                                         *)
(* CertInit, CertNext and CertSpec are named after the module, so that a   *)
(* module can extend it beside another.                                    *)
(***************************************************************************)
EXTENDS Naturals, Sequences, FiniteSets

CONSTANT MaxFaults      \* kills, power losses, refusals, lost replies and edits, together

ASSUME CertificationAssumption == MaxFaults \in Nat

VARIABLES
    cand,       \* the candidate directory
    journal,    \* schedule.json
    state,      \* the certifier's state.json
    evidence,   \* the gates that have a record
    lease,      \* the test credential: its record at the broker and its account at the provider
    sched,      \* the process with .schedule.lock
    cert,       \* the certifier, its child
    guest,      \* the laboratory guest
    job,        \* the request that holds endpoint.lock
    owed,       \* systemd has yet to run ExecStopPost
    faults

certVars == <<cand, journal, state, evidence, lease, sched, cert, guest, job, owed, faults>>

-----------------------------------------------------------------------------
(* Certifier.execute, request by request.                                  *)
Plan == <<"stage", "seed", "snapshot", "backup", "name", "issue", "credential", "deploy", "observe",
          "off", "on", "observe", "select-previous", "off", "on", "observe-previous",
          "select-updated", "off", "on", "observe-returned", "observe", "rerun", "observe",
          "damage", "restore", "restore-check", "scan">>
Local == {"name", "issue", "off", "on", "scan"}
Observations == {"observe", "observe-previous", "observe-returned"}

(* Mutant: the gate of the previous boot one observation too early.        *)
GatesOfEarly(n) == CASE n = 1 -> {"package_replay", "inference"}
                     [] n = 2 -> {"boot", "runtime"}
                     [] n = 3 -> {"previous_boot"}
                     [] OTHER -> {}

(* The gates an observation completes, by its number.                      *)
GatesOf(n) == CASE n = 1 -> {"package_replay", "inference"}
                [] n = 2 -> {"boot", "runtime"}
                [] n = 4 -> {"previous_boot"}
                [] OTHER -> {}
Gates == {"package_replay", "inference", "boot", "runtime", "previous_boot", "restore",
          "vulnerability_scan", "credential_revocation"}
(* Those of them that signer.py asks for.                                  *)
SignerGates == Gates \ {"previous_boot"}

Phases == {"new", "snapshot-ready", "backup-verified", "credential-ready", "package-staging",
           "reboot-pending", "persistence-reboot", "closed", "rolled-back"}
Entries == {"previous", "updated"}

(* boots is the entry of every boot so far, since the boot in which the    *)
(* phase was saved, once the one-shot selection, saved what the snapshot   *)
(* holds of the application's data.                                        *)
Guest == [cand: {"none", "frozen", "edited"}, phase: Phases, since: Nat, boots: Seq(Entries),
          default: Entries, once: Entries \cup {"none"}, key: {"prior", "test"},
          data: {"plain", "seeded", "damaged"}, saved: {"none", "plain", "seeded"},
          power: {"on", "rebooting", "booting", "off"}]

Observation == [boot: Nat, entry: Entries, key: {"prior", "test"}]
Replies == {"none", "ok", "no", "lost", "reboot-pending", "persistence-reboot", "closed"}
CertSteps == {"idle", "run", "guest", "revoke", "gate", "end", "done"}
Cert == [step: CertSteps, at: 1..Len(Plan), wait: BOOLEAN, reply: Replies,
         stages: Seq({"reboot-pending", "persistence-reboot", "closed"}), seen: Seq(Observation),
         attempted: BOOLEAN, only: BOOLEAN, failed: BOOLEAN, bad: BOOLEAN]
NoCert == [step |-> "idle", at |-> 1, wait |-> FALSE, reply |-> "none", stages |-> <<>>, seen |-> <<>>,
           attempted |-> FALSE, only |-> FALSE, failed |-> FALSE, bad |-> FALSE]
Sched == [step: {"idle", "copy", "freeze", "record", "window", "start", "child", "reap", "reaping", "close"},
          mode: {"run", "stopped", "prepare", "cleanup"}, failed: BOOLEAN]
NoSched == [step |-> "idle", mode |-> "run", failed |-> FALSE]
NoJob == [op |-> "none", body |-> "none"]

CertTypeOK ==
    /\ cand \in {"none", "partial", "frozen", "edited"}
    /\ journal \in {"none", "preparing", "prepared", "certifying", "complete", "failed"}
    /\ state \in [stage: {"none", "open", "failed", "complete"}, lease: BOOLEAN]
    /\ evidence \subseteq Gates
    /\ lease \in {"none", "stuck", "kept", "live", "lost", "revoked"}
    /\ sched \in Sched
    /\ cert \in Cert
    /\ guest \in Guest
    /\ job.op \in {"none", "cleanup-credential"} \cup ({Plan[i] : i \in DOMAIN Plan} \ Local)
    /\ owed \in BOOLEAN
    /\ faults \in 0..MaxFaults
    /\ cert.wait => cert.step \in {"run", "guest"}
    /\ cert.step # "idle" => sched.step \in {"child", "reaping"}

CertInit ==
    /\ cand = "none" /\ journal = "none" /\ state = [stage |-> "none", lease |-> FALSE]
    /\ evidence = {} /\ lease = "none" /\ sched = NoSched /\ cert = NoCert
    /\ guest = [cand |-> "none", phase |-> "new", since |-> 1, boots |-> <<"previous">>,
                default |-> "previous", once |-> "none", key |-> "prior", data |-> "plain",
                saved |-> "none", power |-> "on"]
    /\ job = NoJob /\ owed = FALSE /\ faults = 0

Fault == faults < MaxFaults /\ faults' = faults + 1
Op == Plan[cert.at]
Boot == Len(guest.boots)
Entry == guest.boots[Boot]
world == <<guest, job>>
files == <<cand, journal, state, evidence>>

(* candidate: every file of the directory has the digest in candidate.json.*)
Intact == cand = "frozen"

-----------------------------------------------------------------------------
(* schedule.py.  Its lock makes a second invocation fail without effect.   *)

(* The process ends; after a service run systemd owes the cleanup.         *)
Exit(mode) == sched' = NoSched /\ owed' = (mode = "run" \/ owed)

(* execute up to the first save of the journal.  The window may be closed. *)
Invoke(mode) ==
    /\ sched.step = "idle" /\ ~owed
    /\ \/ mode = "run" /\ Exit(mode) /\ UNCHANGED journal
       \/ /\ journal # "none" /\ ~(journal = "prepared" /\ Intact)
          /\ Exit(mode) /\ UNCHANGED journal
       \/ /\ journal = "prepared" /\ Intact /\ mode = "run"
          /\ sched' = [step |-> "window", mode |-> mode, failed |-> FALSE]
          /\ UNCHANGED <<journal, owed>>
       \/ /\ journal = "none" /\ cand = "none" /\ state.stage = "none"
          /\ journal' = "preparing"
          /\ sched' = [step |-> "copy", mode |-> mode, failed |-> FALSE]
          /\ UNCHANGED owed
    /\ UNCHANGED <<cand, state, evidence, lease, cert, world, faults>>

(* prepare.prepare, which writes candidate.json last.                      *)
Copy ==
    /\ sched.step = "copy" /\ cand = "none"
    /\ cand' = "partial" /\ sched' = [sched EXCEPT !.step = "freeze"]
    /\ UNCHANGED <<journal, state, evidence, lease, cert, world, owed, faults>>

Freeze ==
    /\ sched.step = "freeze"
    /\ cand' = "frozen" /\ sched' = [sched EXCEPT !.step = "record"]
    /\ UNCHANGED <<journal, state, evidence, lease, cert, world, owed, faults>>

RecordPrepared ==
    /\ sched.step = "record" /\ Intact
    /\ journal' = "prepared"
    /\ IF sched.mode = "prepare" THEN Exit("prepare")
       ELSE sched' = [sched EXCEPT !.step = "window"] /\ UNCHANGED owed
    /\ UNCHANGED <<cand, state, evidence, lease, cert, world, faults>>

PreparationFails ==
    /\ sched.step \in {"copy", "freeze", "record"}
    /\ \/ sched.step = "record" /\ ~Intact /\ UNCHANGED faults
       \/ Fault
    /\ journal' = "failed" /\ Exit(sched.mode)
    /\ UNCHANGED <<cand, state, evidence, lease, cert, world>>

(* The second look at the window, and the dispatch.                        *)
Dispatch ==
    /\ sched.step = "window"
    /\ \/ Exit(sched.mode) /\ UNCHANGED journal
       \/ journal' = "certifying" /\ sched' = [sched EXCEPT !.step = "start"] /\ UNCHANGED owed
    /\ UNCHANGED <<cand, state, evidence, lease, cert, world, faults>>

(* Certifier(config): the candidate is read and checked, and no run may    *)
(* have begun.                                                             *)
StartChild ==
    /\ sched.step = "start"
    /\ sched' = [sched EXCEPT !.step = "child"]
    /\ IF Intact /\ state.stage = "none"
       THEN cert' = [NoCert EXCEPT !.step = "run"] /\ state' = [state EXCEPT !.stage = "open"]
       ELSE cert' = [NoCert EXCEPT !.step = "done", !.failed = TRUE] /\ UNCHANGED state
    /\ UNCHANGED <<cand, journal, evidence, lease, world, owed, faults>>

(* Mutant: the result of the child is not looked at.                       *)
ChildDoneUnchecked ==
    /\ sched.step = "child" /\ sched.mode # "stopped" /\ cert.step = "done"
    /\ sched' = [sched EXCEPT !.step = "reap", !.failed = ~Intact]
    /\ cert' = NoCert
    /\ UNCHANGED <<files, lease, world, owed, faults>>

(* The child is back: its result is checked, then the credential cleaned.  *)
ChildDone ==
    /\ sched.step = "child" /\ sched.mode # "stopped" /\ cert.step = "done"
    /\ sched' = [sched EXCEPT !.step = "reap", !.failed = cert.failed \/ cert.bad \/ ~Intact]
    /\ cert' = NoCert
    /\ UNCHANGED <<files, lease, world, owed, faults>>

(* certify.py --cleanup-only: it refuses a changed candidate, and has      *)
(* nothing to do when no lease was named.                                  *)
CleanupChild == [NoCert EXCEPT !.only = TRUE, !.bad = ~Intact,
                               !.step = IF Intact /\ state.lease THEN "guest" ELSE "done"]

(* cleanup: a second child, with --cleanup-only, unless there is no state. *)
Reap(from) ==
    /\ sched.step = from
    /\ cert' = IF state.stage = "none" THEN [NoCert EXCEPT !.step = "done"] ELSE CleanupChild
    /\ sched' = [sched EXCEPT !.step = "reaping", !.mode = IF from = "idle" THEN "cleanup" ELSE @]
    /\ UNCHANGED <<files, lease, world, faults>>

CleanupOnly == Reap("idle") /\ owed' = FALSE
ReapChild == Reap("reap") /\ UNCHANGED owed

(* The journal is closed with what the two children reported.              *)
Close ==
    /\ sched.step = "reaping" /\ cert.step = "done"
    /\ cert' = NoCert
    /\ IF sched.mode = "cleanup" THEN Exit("cleanup") /\ UNCHANGED journal
       ELSE /\ journal' = IF sched.failed \/ cert.bad THEN "failed" ELSE "complete"
            /\ Exit(sched.mode)
    /\ UNCHANGED <<cand, state, evidence, lease, world, faults>>

-----------------------------------------------------------------------------
(* certify.py: the plan.                                                   *)
Running(op) == cert.step = "run" /\ ~cert.wait /\ cert.reply = "none" /\ Op = op
Advanced(c) == IF c.at = Len(Plan) THEN [c EXCEPT !.step = IF c.attempted THEN "guest" ELSE "end"]
               ELSE [c EXCEPT !.at = @ + 1, !.reply = "none"]
Failed(c) == [c EXCEPT !.failed = TRUE, !.wait = FALSE, !.reply = "none",
                       !.step = IF c.attempted THEN "guest" ELSE "end"]
(* retryable_boot_error, and the loop of wait_observation.                 *)
Retries == \/ Op = "deploy" /\ cert.stages # <<>>
           \/ Op \in Observations /\ Plan[cert.at - 1] = "on"

(* archive_candidate: the files are read again to be sent.                 *)
Body == IF Op = "stage" THEN cand ELSE "none"

(* exchange: the guest starts the job if nothing holds its lock, and       *)
(* otherwise refuses.                                                      *)
Ask ==
    /\ cert.step = "run" /\ ~cert.wait /\ cert.reply = "none" /\ Op \notin Local
    /\ guest.power \in {"on", "rebooting"}
    /\ IF job.op = "none"
       THEN job' = [op |-> Op, body |-> Body] /\ cert' = [cert EXCEPT !.wait = TRUE]
       ELSE job' = job /\ cert' = Failed(cert)
    /\ UNCHANGED <<files, lease, sched, guest, owed, faults>>

(* No connection, or none any more.                                        *)
Unreachable ==
    /\ cert.step = "run" /\ Op \notin Local
    /\ \/ ~cert.wait /\ cert.reply = "none" /\ guest.power \in {"booting", "off"} /\ ~Retries
       \/ cert.reply = "lost"
    /\ cert' = IF Retries THEN [cert EXCEPT !.reply = "none"] ELSE Failed(cert)
    /\ UNCHANGED <<files, lease, sched, world, owed, faults>>

Refused ==
    /\ cert.step = "run" /\ cert.reply = "no"
    /\ cert' = Failed(cert)
    /\ UNCHANGED <<files, lease, sched, world, owed, faults>>

(* The plain requests; restore-check completes a gate.                     *)
Accepted ==
    /\ cert.step = "run" /\ cert.reply = "ok" /\ Op \notin Observations
    /\ evidence' = evidence \cup (IF Op = "restore-check" THEN {"restore"} ELSE {})
    /\ cert' = Advanced(cert)
    /\ UNCHANGED <<cand, journal, state, lease, sched, world, owed, faults>>

(* The deployment loop, which must see every stage once.                   *)
Deployed ==
    /\ cert.step = "run" /\ Op = "deploy" /\ cert.reply \in {"reboot-pending", "persistence-reboot", "closed"}
    /\ LET n == Len(cert.stages)
           s == IF n > 0 /\ cert.stages[n] = cert.reply THEN cert.stages ELSE Append(cert.stages, cert.reply)
           c == [cert EXCEPT !.stages = s, !.reply = "none"]
       IN  cert' = IF cert.reply # "closed" THEN c
                   ELSE IF s = <<"reboot-pending", "persistence-reboot", "closed">> THEN Advanced(c)
                   ELSE Failed(c)
    /\ UNCHANGED <<files, lease, sched, world, owed, faults>>

(* An observation is compared with the earlier ones (verify_sequence for   *)
(* the fourth) before its gates are recorded.                              *)
Consistent(seen) ==
    LET n == Len(seen) IN
    CASE n = 2 -> seen[2].boot # seen[1].boot
      [] n = 4 -> /\ Cardinality({seen[i].boot : i \in 2..4}) = 3
                  /\ seen[2].entry = seen[4].entry /\ seen[3].entry # seen[2].entry
                  /\ seen[2].key = seen[3].key /\ seen[3].key = seen[4].key
      [] n = 6 -> seen[6].boot = seen[5].boot
      [] OTHER -> TRUE

Observed ==
    /\ cert.step = "run" /\ Op \in Observations /\ cert.reply = "ok"
    /\ IF Consistent(cert.seen)
       THEN evidence' = evidence \cup GatesOf(Len(cert.seen)) /\ cert' = Advanced(cert)
       ELSE evidence' = evidence /\ cert' = Failed(cert)
    /\ UNCHANGED <<cand, journal, state, lease, sched, world, owed, faults>>

(* Mutant: the lease is saved only with the next stage.                    *)
NameLeaseLate ==
    /\ Running("name")
    /\ cert' = Advanced([cert EXCEPT !.attempted = TRUE])
    /\ UNCHANGED <<files, lease, sched, world, owed, faults>>

(* The lease is in the state file before the broker is asked for it.       *)
NameLease ==
    /\ Running("name")
    /\ state' = [state EXCEPT !.lease = TRUE]
    /\ cert' = Advanced([cert EXCEPT !.attempted = TRUE])
    /\ UNCHANGED <<cand, journal, evidence, lease, sched, world, owed, faults>>

(* The broker's issue may stop anywhere: before the account, with the      *)
(* account but without its number or its key (stuck), with the key stored  *)
(* and the record not yet ready (kept), or with only the answer lost.      *)
IssueLease ==
    /\ Running("issue")
    /\ \/ lease' = "live" /\ cert' = Advanced(cert) /\ UNCHANGED faults
       \/ lease' \in {"none", "stuck", "kept", "live"} /\ cert' = Failed(cert) /\ Fault
    /\ UNCHANGED <<files, sched, world, owed>>

(* cold_boot.                                                              *)
PowerOff ==
    /\ Running("off") /\ guest.power # "booting"
    /\ guest' = [guest EXCEPT !.power = "off"] /\ job' = NoJob
    /\ cert' = Advanced(cert)
    /\ UNCHANGED <<files, lease, sched, owed, faults>>

PowerOn ==
    /\ Running("on")
    /\ guest' = [guest EXCEPT !.power = IF @ = "off" THEN "booting" ELSE @]
    /\ cert' = IF guest.power = "off" THEN Advanced(cert) ELSE Failed(cert)
    /\ UNCHANGED <<files, lease, sched, job, owed, faults>>

(* scan, and the last comparison with the candidate read at the start.     *)
Scan ==
    /\ Running("scan")
    /\ \/ evidence' = evidence \cup {"vulnerability_scan"} /\ UNCHANGED faults
          /\ cert' = IF Intact THEN Advanced(cert) ELSE Failed(cert)
       \/ UNCHANGED evidence /\ cert' = Failed(cert) /\ Fault
    /\ UNCHANGED <<cand, journal, state, lease, sched, world, owed>>

-----------------------------------------------------------------------------
(* certify.py: the cleanup, of the run itself and of --cleanup-only.       *)
AskCleanup ==
    /\ cert.step = "guest" /\ ~cert.wait /\ cert.reply = "none"
    /\ IF guest.power \in {"on", "rebooting"} /\ job.op = "none"
       THEN job' = [op |-> "cleanup-credential", body |-> "none"] /\ cert' = [cert EXCEPT !.wait = TRUE]
       ELSE job' = job /\ cert' = [cert EXCEPT !.step = "revoke", !.bad = TRUE]
    /\ UNCHANGED <<files, lease, sched, guest, owed, faults>>

GuestCleaned ==
    /\ cert.step = "guest" /\ cert.reply # "none"
    /\ cert' = [cert EXCEPT !.step = "revoke", !.reply = "none", !.bad = @ \/ cert.reply # "ok"]
    /\ UNCHANGED <<files, lease, sched, world, owed, faults>>

(* The broker revokes what has its number and its key stored.  It deletes  *)
(* the account only once: when the provider's answer to that is lost, the  *)
(* record is never deleted or revoked any more.                            *)
Revocable == lease \in {"kept", "live", "revoked"}
RevokeStops == lease' \in {lease} \cup (IF lease \in {"kept", "live"} THEN {"lost", "revoked"} ELSE {})

(* revoke_test_credential: three requests.                                 *)
Revoke ==
    /\ cert.step = "revoke"
    /\ \/ /\ Revocable
          /\ lease' = "revoked" /\ cert' = [cert EXCEPT !.step = "gate"] /\ UNCHANGED faults
       \/ /\ IF Revocable THEN Fault ELSE UNCHANGED faults
          /\ RevokeStops
          /\ cert' = [cert EXCEPT !.step = "end", !.bad = TRUE]
    /\ UNCHANGED <<files, sched, world, owed>>

RecordRevocation ==
    /\ cert.step = "gate"
    /\ evidence' = evidence \cup {"credential_revocation"}
    /\ cert' = [cert EXCEPT !.step = "end"]
    /\ UNCHANGED <<cand, journal, state, lease, sched, world, owed, faults>>

(* The run's own outcome is saved; --cleanup-only saves nothing.           *)
Finish ==
    /\ cert.step = "end"
    /\ state' = IF cert.only THEN state
                ELSE [state EXCEPT !.stage = IF cert.failed \/ cert.bad THEN "failed" ELSE "complete"]
    /\ cert' = [cert EXCEPT !.step = "done"]
    /\ UNCHANGED <<cand, journal, evidence, lease, sched, world, owed, faults>>

-----------------------------------------------------------------------------
(* certify_guest.py and what it runs.  A job ends with a reply, which only *)
(* a certifier that is still waiting for it receives.                      *)
Serving(op) == job.op = op /\ guest.power \in {"on", "rebooting"}
Reply(value) ==
    /\ job' = NoJob
    /\ cert' = IF cert.wait THEN [cert EXCEPT !.wait = FALSE, !.reply = value] ELSE cert
Staged == guest.cand # "none"
Save(phase) == [guest EXCEPT !.phase = phase, !.since = Boot]

(* lab_previous.capture: the baseline is the running image, or has been    *)
(* recorded before.                                                        *)
Captured == Entry = "previous" \/ Staged

(* receive checks every member against the enrolled digests.               *)
GuestStage ==
    /\ Serving("stage")
    /\ LET ok == job.body = "frozen" /\ Captured
       IN  /\ guest' = [guest EXCEPT !.cand = IF ok /\ ~Staged THEN job.body ELSE @]
           /\ Reply(IF ok THEN "ok" ELSE "no")

(* seed, damage and restore-check: a marker in the application's           *)
(* configuration.                                                          *)
GuestData ==
    /\ Staged
    /\ \/ Serving("seed") /\ guest' = [guest EXCEPT !.data = "seeded"] /\ Reply("ok")
       \/ Serving("damage") /\ guest' = [guest EXCEPT !.data = "damaged"] /\ Reply("ok")
       \/ /\ Serving("restore-check") /\ UNCHANGED guest
          /\ Reply(IF guest.data = "seeded" THEN "ok" ELSE "no")

(* restore: only the archive of the snapshot stage is accepted.            *)
GuestRestore ==
    /\ Serving("restore") /\ Staged /\ guest.saved # "none"
    /\ guest' = [guest EXCEPT !.data = guest.saved] /\ Reply("ok")

(* snapshot, backup-verified and credential: the phases of host.py before  *)
(* the deployment.                                                         *)
GuestSnapshot ==
    /\ Staged
    /\ \/ /\ Serving("snapshot") /\ guest.phase = "new"
          /\ guest' = [Save("snapshot-ready") EXCEPT !.saved = guest.data]
       \/ /\ Serving("backup") /\ guest.phase \in {"snapshot-ready", "backup-verified"}
          /\ guest' = Save("backup-verified")
       \/ /\ Serving("credential") /\ guest.phase \in {"backup-verified", "credential-ready"}
          /\ guest' = [Save("credential-ready") EXCEPT !.key = "test"]
    /\ Reply("ok")

(* deploy: Host.advance.  Acceptance asks the model with the key that is   *)
(* installed; when it fails the application is rolled back.                *)
GuestDeploy ==
    /\ Serving("deploy") /\ Staged
    /\ \/ /\ guest.phase = "credential-ready"
          /\ guest' = [Save("reboot-pending") EXCEPT !.power = "rebooting"]
          /\ Reply("reboot-pending") /\ UNCHANGED faults
       \/ /\ guest.phase \in {"reboot-pending", "persistence-reboot"} /\ Boot = guest.since
          /\ Reply(guest.phase) /\ UNCHANGED <<guest, faults>>
       \/ /\ guest.phase = "reboot-pending" /\ Boot > guest.since /\ guest.default = "previous"
          /\ Reply("no") /\ UNCHANGED <<guest, faults>>
       \/ /\ guest.phase \in {"reboot-pending", "persistence-reboot"} /\ Boot > guest.since
          /\ guest.default = "updated"
          /\ \/ /\ lease = "live" /\ UNCHANGED faults
                /\ IF guest.phase = "reboot-pending"
                   THEN guest' = [Save("persistence-reboot") EXCEPT !.power = "rebooting"]
                        /\ Reply("persistence-reboot")
                   ELSE guest' = Save("closed") /\ Reply("closed")
             \/ /\ IF lease = "live" THEN Fault ELSE UNCHANGED faults
                /\ guest' = [Save("rolled-back") EXCEPT !.key = "prior"] /\ Reply("no")
       \/ /\ guest.phase = "closed"
          /\ Reply("closed") /\ UNCHANGED <<guest, faults>>
       \/ /\ guest.phase \in {"package-staging", "rolled-back"}
          /\ Reply("no") /\ UNCHANGED <<guest, faults>>

(* observe, and the deployment requested again after the closure.          *)
Wanted(op) == IF op = "observe-previous" THEN "previous" ELSE "updated"
GuestObserve ==
    /\ job.op \in Observations /\ Serving(job.op) /\ Staged
    /\ IF Entry = Wanted(job.op) /\ cert.wait
       THEN /\ job' = NoJob
            /\ cert' = [cert EXCEPT !.wait = FALSE, !.reply = "ok",
                            !.seen = Append(@, [boot |-> Boot, entry |-> Entry, key |-> guest.key])]
       ELSE Reply("no")
    /\ UNCHANGED guest

GuestRerun ==
    /\ Serving("rerun")
    /\ Reply(IF guest.phase = "closed" THEN "ok" ELSE "no")
    /\ UNCHANGED guest

(* lab_previous.select: for one boot, with the updated image the default.  *)
GuestSelect ==
    /\ job.op \in {"select-previous", "select-updated"} /\ Serving(job.op)
    /\ IF guest.phase = "closed" /\ guest.default = "updated"
       THEN /\ guest' = [guest EXCEPT !.once = IF job.op = "select-previous" THEN "previous" ELSE "updated"]
            /\ Reply("ok")
       ELSE UNCHANGED guest /\ Reply("no")

(* cleanup-credential needs the files the snapshot stage saved.            *)
GuestCleanup ==
    /\ Serving("cleanup-credential")
    /\ IF Staged /\ guest.phase # "new"
       THEN guest' = [guest EXCEPT !.key = "prior"] /\ Reply("ok")
       ELSE UNCHANGED guest /\ Reply("no")

GuestJob ==
    /\ \/ (GuestStage \/ GuestData \/ GuestRestore \/ GuestSnapshot \/ GuestObserve \/ GuestRerun \/ GuestSelect
             \/ GuestCleanup) /\ UNCHANGED faults
       \/ GuestDeploy
    /\ UNCHANGED <<files, lease, sched, owed>>

(* A command of the job fails, or its reply is lost on the way.            *)
JobFails ==
    /\ job.op # "none" /\ cert.wait /\ Fault
    /\ Reply("no")
    /\ UNCHANGED <<files, lease, sched, guest, owed>>

ReplyLost ==
    /\ cert.wait /\ Fault
    /\ cert' = [cert EXCEPT !.wait = FALSE, !.reply = "lost"]
    /\ UNCHANGED <<files, lease, sched, world, owed>>

(* The guest goes down: the reboot host.py has scheduled, or a power loss. *)
Goes(g) ==
    /\ guest' = g /\ job' = NoJob
    /\ cert' = IF cert.wait THEN [cert EXCEPT !.wait = FALSE, !.reply = "lost"] ELSE cert
    /\ UNCHANGED <<files, lease, sched, owed>>

GuestReboots ==
    /\ guest.power = "rebooting"
    /\ Goes([guest EXCEPT !.power = "booting"]) /\ UNCHANGED faults

GuestLosesPower ==
    /\ guest.power = "on" /\ Fault
    /\ Goes([guest EXCEPT !.power = "booting",
                 !.phase = IF job.op = "deploy" /\ @ = "credential-ready" THEN "package-staging" ELSE @])

(* The first boot with packages staged replays them and then selects the   *)
(* updated image; a failed replay keeps the previous one.                  *)
GuestBoots ==
    /\ guest.power = "booting"
    /\ LET replay == guest.phase = "reboot-pending" /\ Boot = guest.since
           entry == IF guest.once # "none" THEN guest.once ELSE guest.default
       IN  \/ /\ replay /\ UNCHANGED faults
              /\ guest' = [guest EXCEPT !.power = "on", !.default = "updated", !.boots = Append(@, "updated")]
           \/ /\ IF replay THEN Fault ELSE UNCHANGED faults
              /\ guest' = [guest EXCEPT !.power = "on", !.once = "none", !.boots = Append(@, entry)]
    /\ UNCHANGED <<files, lease, sched, cert, job, owed>>

-----------------------------------------------------------------------------
(* The certifier's handler of SIGTERM, which --cleanup-only does not set:  *)
(* what it is doing fails, and the rest of its own cleanup still follows.  *)
Terminated ==
    /\ cert.step \notin {"idle", "done"} /\ ~cert.only /\ Fault
    /\ cert' = CASE cert.step = "run" -> Failed(cert)
                 [] cert.step = "guest" ->
                        [cert EXCEPT !.step = "revoke", !.bad = TRUE, !.wait = FALSE, !.reply = "none"]
                 [] cert.step \in {"revoke", "gate"} -> [cert EXCEPT !.step = "end", !.bad = TRUE]
                 [] cert.step = "end" -> [cert EXCEPT !.step = "done", !.bad = TRUE]
    /\ IF cert.step = "revoke" THEN RevokeStops ELSE UNCHANGED lease
    /\ UNCHANGED <<files, world, owed>>

(* The certifier alone is told to end, at its time limit.                  *)
ChildTerminated == sched.step = "child" /\ sched.mode # "stopped" /\ Terminated /\ UNCHANGED sched

(* systemd stops the service: the scheduler is gone at once, and the       *)
(* certifier's own cleanup is waited for before ExecStopPost.              *)
ServiceStopped ==
    /\ sched.step = "child" /\ sched.mode = "run" /\ Terminated
    /\ sched' = [sched EXCEPT !.mode = "stopped"]

Stopped ==
    /\ sched.step = "child" /\ sched.mode = "stopped" /\ cert.step = "done"
    /\ cert' = NoCert /\ Exit("run")
    /\ UNCHANGED <<files, lease, world, faults>>

(* What does not end in time is killed: the child alone, or the whole      *)
(* service; or the workstation loses power.                                *)
ChildKilled ==
    /\ cert.step \notin {"idle", "done"} /\ Fault
    /\ cert' = [NoCert EXCEPT !.step = "done", !.failed = TRUE, !.bad = TRUE]
    /\ UNCHANGED <<files, lease, sched, world, owed>>

Die(debt) ==
    /\ sched.step # "idle" /\ Fault
    /\ sched' = NoSched /\ cert' = NoCert /\ owed' = debt
    /\ UNCHANGED <<files, lease, world>>

ServiceKilled == Die(sched.mode \in {"run", "stopped"})
WorkstationLosesPower == Die(FALSE)

(* Something else writes into the candidate, or puts it back.              *)
Edit ==
    /\ cand = "frozen" /\ Fault /\ cand' = "edited"
    /\ UNCHANGED <<journal, state, evidence, lease, sched, cert, world, owed>>

PutBack ==
    /\ cand = "edited" /\ cand' = "frozen"
    /\ UNCHANGED <<journal, state, evidence, lease, sched, cert, world, owed, faults>>

Timer == Invoke("run")
Operator == Invoke("prepare")
StopPost == owed /\ CleanupOnly
OperatorCleanup == ~owed /\ CleanupOnly

Scheduler == \/ Copy \/ Freeze \/ RecordPrepared \/ PreparationFails
             \/ Dispatch \/ StartChild \/ ChildDone \/ ReapChild \/ Close
Certifier == \/ Ask \/ Unreachable \/ Refused \/ Accepted \/ Deployed \/ Observed
             \/ NameLease \/ IssueLease \/ PowerOff \/ PowerOn \/ Scan \/ AskCleanup
             \/ GuestCleaned \/ Revoke \/ RecordRevocation \/ Finish
Faults == \/ JobFails \/ ReplyLost \/ GuestLosesPower \/ ChildTerminated \/ ServiceStopped
          \/ ChildKilled \/ ServiceKilled \/ WorkstationLosesPower \/ Edit

CertNext == \/ Timer \/ Operator \/ Stopped \/ StopPost \/ OperatorCleanup \/ Scheduler
            \/ Certifier \/ GuestJob \/ GuestReboots \/ GuestBoots \/ Faults \/ PutBack

CertSpec == CertInit /\ [][CertNext]_certVars

(* The timer fires every week, systemd ends a stopped service and runs     *)
(* ExecStopPost, and processes and the guest make progress.                *)
CertFairSpec ==
    /\ CertSpec
    /\ WF_certVars(Timer) /\ WF_certVars(StopPost) /\ WF_certVars(Scheduler) /\ WF_certVars(Certifier)
    /\ WF_certVars(GuestJob) /\ WF_certVars(GuestReboots) /\ WF_certVars(GuestBoots) /\ WF_certVars(Stopped)

-----------------------------------------------------------------------------
(* A journal that says ua03-complete (schedule.py, execute) has every gate *)
(* behind it, a revoked lease, and a guest that has its own credential     *)
(* back.                                                                   *)
CompleteMeansCertified ==
    journal = "complete" => /\ evidence = Gates
                            /\ lease = "revoked"
                            /\ guest.key = "prior"

(* Every gate record is earned: the gates of the boot observations         *)
(* (Certifier.execute) are true of the guest, which has booted the updated *)
(* image twice, then the previous one and the updated one again; the       *)
(* restore gate is true of its data; and the gate of the revocation        *)
(* (Certifier.cleanup) exists only once the broker has revoked the lease,  *)
(* whoever wrote it and however often the cleanup was begun.               *)
EvidenceIsEarned ==
    LET Ran(entries) == \E f \in [DOMAIN entries -> DOMAIN guest.boots] :
                            /\ \A i, k \in DOMAIN entries : i < k => f[i] < f[k]
                            /\ \A i \in DOMAIN entries : guest.boots[f[i]] = entries[i]
    IN  /\ "boot" \in evidence => Ran(<<"updated", "updated", "updated">>)
        /\ "previous_boot" \in evidence => Ran(<<"updated", "previous", "updated">>)
        /\ "restore" \in evidence => guest.data = "seeded" /\ guest.phase = "closed"
        /\ "credential_revocation" \in evidence => lease = "revoked"

(* The endpoint (certify_guest.py, receive) never runs anything but the    *)
(* enrolled candidate, although the certifier reads the files it uploads   *)
(* after it has checked them.                                              *)
GuestRunsFrozen == guest.cand # "edited"

(* A credential whose key the broker has stored is deleted at the provider *)
(* in the end, across kills and power losses, unless somebody changes the  *)
(* candidate: certify.py reads it before it looks at the lease.  Either    *)
(* the broker has recorded the revocation, or the provider's answer was    *)
(* lost (credentials.py, 114) and its record stays behind.  An account     *)
(* whose key was never stored is not promised anything: revoke needs that  *)
(* key (credentials.py, 111), so nothing ever deletes it.                  *)
IssuedLeaseIsRevoked == lease \in {"kept", "live"} ~> (lease \in {"lost", "revoked"} \/ cand = "edited")

(* The certification's invariant: the type of its state, complete only     *)
(* when certified, and nothing but the frozen candidate in the guest.      *)
CertInv == CertTypeOK /\ CompleteMeansCertified /\ GuestRunsFrozen
=============================================================================
