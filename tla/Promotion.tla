----------------------------- MODULE Promotion -----------------------------
(***************************************************************************)
(* From a certified candidate to the target: the signing service           *)
(* (scripts/hermes/unattended/signer.py, finalize.py, build_release.py),   *)
(* the validation and staging of a release (release.py, dispatcher.py) and *)
(* the controller's way to the target with it (controller.py).             *)
(*                                                                         *)
(* The certifier's directories are handed over by the operator and may be  *)
(* replaced while the signer reads them.  The published archive may be     *)
(* replaced while the controller uses it.  Every program may be killed     *)
(* between two of its steps.  A signature binds an archive to its          *)
(* manifest: an archive is its candidate, the run its evidence is of and   *)
(* the day it was issued.                                                  *)
(***************************************************************************)
EXTENDS Naturals, FiniteSets

CONSTANTS
    Cands,          \* candidates, by fingerprint
    ReleaseId,      \* the release identifier of every candidate
    Runs,           \* certification runs
    CandOf,         \* the candidate that a run certifies
    None,
    MaxTime,        \* days
    MaxHands,       \* hand-overs to the signer
    MaxFaults       \* kills, failures and changed files, together

ASSUME PromotionAssumption ==
    /\ DOMAIN ReleaseId = Cands
    /\ CandOf \in [Runs -> Cands]
    /\ None \notin Cands \cup Runs
    /\ MaxTime \in Nat \ {0} /\ MaxHands \in Nat /\ MaxFaults \in Nat

VARIABLES
    now,        \* the day
    made,       \* the day of every gate record, 0 when there is none
    hand,       \* the enrolled candidate and evidence directories
    signer,     \* hermes-sign.service
    archive,    \* the signed archive of every candidate
    pending,    \* .selected.pending
    selected,   \* selected.tar
    staged,     \* the target's releases directory
    bound,      \* the target's binding files, and the day of the first
    job,        \* the dispatcher's stage operation on the target
    main,       \* the controller, started by hermes-maintenance.service
    prior,      \* the archive in the controller's state file
    deployed,   \* history: the archives whose deployment has closed
    faults

inputs == <<now, made, hand>>
published == <<archive, pending, selected>>
target == <<staged, bound, job>>
controller == <<main, prior, deployed>>
vars == <<inputs, signer, published, target, controller, faults>>

-----------------------------------------------------------------------------
Ids == {ReleaseId[c] : c \in Cands}
(* inference stands for the eight gates before the last; the module        *)
(* Certification has the order among them.                                 *)
Gates == {"inference", "vm_destroyed"}
Archive == [cand: Cands, run: Runs, issued: 1..MaxTime]
IdOf(a) == ReleaseId[a.cand]

NoSigner == [step |-> "idle", cand |-> None, ev |-> [g \in Gates |-> None]]
NoMain == [step |-> "idle", verified |-> None, uploaded |-> None]
NoStage == [step |-> "idle", of |-> None]

TypeOK ==
    /\ now \in 1..MaxTime
    /\ made \in [Runs -> [Gates -> 0..MaxTime]]
    /\ hand \in [cand: Cands \cup {None}, run: Runs \cup {None}, intact: BOOLEAN, count: 0..MaxHands]
    /\ signer \in [step: {"idle", "read", "check", "copy", "build", "link", "select"},
                   cand: Cands \cup {None}, ev: [Gates -> Runs \cup {None}]]
    /\ archive \in [Cands -> Archive \cup {None}] /\ \A c \in Cands : archive[c] # None => archive[c].cand = c
    /\ pending \in Cands \cup {None} /\ selected \in Cands \cup {None}
    /\ staged \in [Ids -> Archive \cup {None}]
    /\ bound \in [Ids -> [to: Archive \cup {None}, day: 0..MaxTime]]
    /\ job \in [step: {"idle", "unpack", "rename", "bind"}, of: Archive \cup {None}]
    /\ main \in [step: {"idle", "upload", "wait", "deploy"},
                 verified: Archive \cup {None}, uploaded: Archive \cup {None}]
    /\ prior \in Archive \cup {None}
    /\ deployed \subseteq Archive /\ faults \in 0..MaxFaults

Init ==
    /\ now = 1 /\ made = [r \in Runs |-> [g \in Gates |-> 0]]
    /\ hand = [cand |-> None, run |-> None, intact |-> TRUE, count |-> 0]
    /\ signer = NoSigner
    /\ archive = [c \in Cands |-> None] /\ pending = None /\ selected = None
    /\ staged = [i \in Ids |-> None] /\ bound = [i \in Ids |-> [to |-> None, day |-> 0]] /\ job = NoStage
    /\ main = NoMain /\ prior = None /\ deployed = {} /\ faults = 0

Fault == faults < MaxFaults /\ faults' = faults + 1

-----------------------------------------------------------------------------
(* The world of the signer: days pass (none while a bounded service run is *)
(* under way), a certification run completes its gates, and the operator   *)
(* hands over a candidate and a run's evidence directory.                  *)
Tick ==
    /\ now < MaxTime /\ signer.step = "idle" /\ job.step = "idle" /\ main.step = "idle"
    /\ now' = now + 1
    /\ UNCHANGED <<made, hand, signer, published, target, controller, faults>>

Record(r, g) ==
    /\ made[r][g] = 0 /\ (g = "vm_destroyed" => made[r]["inference"] # 0)
    /\ \A q \in Runs \ {r} : made[q]["inference"] # 0 => made[q]["vm_destroyed"] # 0
    /\ made' = [made EXCEPT ![r][g] = now]
    /\ UNCHANGED <<now, hand, signer, published, target, controller, faults>>

HandOver(c, r) ==
    /\ hand.cand # c \/ hand.run # r
    /\ hand.count < MaxHands /\ made[r]["inference"] # 0
    /\ hand' = [cand |-> c, run |-> r, intact |-> TRUE, count |-> hand.count + 1]
    /\ UNCHANGED <<now, made, signer, published, target, controller, faults>>

Change ==
    /\ signer.step # "idle" /\ hand.intact /\ Fault
    /\ hand' = [hand EXCEPT !.intact = FALSE]
    /\ UNCHANGED <<now, made, signer, published, target, controller>>

-----------------------------------------------------------------------------
(* signer.py.                                                              *)
SignerGives == signer' = NoSigner
SignerAt(step) == signer.step = step
SignerTo(step) == signer' = [signer EXCEPT !.step = step]
quiet == <<inputs, target, controller>>

(* The candidate's manifest is read, then one gate record after another in *)
(* the order of the manifest, whose keys are sorted.                       *)
ReadCandidate ==
    /\ SignerAt("idle") /\ hand.cand # None
    /\ signer' = [NoSigner EXCEPT !.step = "read", !.cand = hand.cand]
    /\ UNCHANGED <<quiet, published, faults>>

ReadGate(g) ==
    /\ SignerAt("read") /\ signer.ev[g] = None /\ (g = "vm_destroyed" => signer.ev["inference"] # None)
    /\ IF hand.run # None /\ made[hand.run][g] # 0
       THEN signer' = [signer EXCEPT !.ev[g] = hand.run, !.step = IF g = "vm_destroyed" THEN "check" ELSE @]
       ELSE SignerGives
    /\ UNCHANGED <<quiet, published, faults>>

MutantAnyRun(ev) ==
    LET day(g) == made[ev[g]][g] IN
    \A g \in Gates : now <= day(g) + 1 /\ day(g) <= day("vm_destroyed")

(* validate_evidence: one run, none older than a day, in order.            *)
Valid(ev) ==
    LET day(g) == made[ev[g]][g] IN
    /\ \A g \in Gates : now <= day(g) + 1
    /\ \A g, h \in Gates : ev[g] = ev[h]
    /\ \A g \in Gates : day(g) <= day("vm_destroyed")

(* A candidate is signed once.                                             *)
CheckEvidence ==
    /\ SignerAt("check")
    /\ IF Valid(signer.ev) /\ archive[signer.cand] = None THEN SignerTo("copy") ELSE SignerGives
    /\ UNCHANGED <<quiet, published, faults>>

(* The payload is copied and compared with the manifest read before.       *)
Copied == hand.cand = signer.cand /\ hand.intact
CopyHandoff ==
    /\ SignerAt("copy")
    /\ IF Copied THEN SignerTo("build") ELSE SignerGives
    /\ UNCHANGED <<quiet, published, faults>>

(* finalize: every record must be of this candidate, and the window for    *)
(* the first use starts now.                                               *)
Finalized(c, ev) ==
    IF \A g \in Gates : CandOf[ev[g]] = c THEN [cand |-> c, run |-> ev["vm_destroyed"], issued |-> now] ELSE None

(* build: the archive is signed and linked into place, where none may be.  *)
Build ==
    /\ SignerAt("build")
    /\ LET c == signer.cand
           a == Finalized(c, signer.ev)
       IN  IF a # None /\ archive[c] = None
           THEN archive' = [archive EXCEPT ![c] = a] /\ SignerTo("link")
           ELSE UNCHANGED archive /\ SignerGives
    /\ UNCHANGED <<quiet, pending, selected, faults>>

LinkPending ==
    /\ SignerAt("link")
    /\ IF pending = None THEN pending' = signer.cand /\ SignerTo("select")
       ELSE UNCHANGED pending /\ SignerGives
    /\ UNCHANGED <<quiet, archive, selected, faults>>

(* The replacement.                                                        *)
Select ==
    /\ SignerAt("select")
    /\ selected' = pending /\ pending' = None
    /\ signer' = NoSigner
    /\ UNCHANGED <<quiet, archive, faults>>

SignerKilled ==
    /\ ~SignerAt("idle") /\ Fault
    /\ SignerGives
    /\ UNCHANGED <<quiet, published>>

(* Recovery of an interrupted publication, by hand.                        *)
RemovePending ==
    /\ pending # None /\ SignerAt("idle")
    /\ pending' = None
    /\ UNCHANGED <<quiet, signer, archive, selected, faults>>

-----------------------------------------------------------------------------
(* dispatcher.py, stage: under the target's lock, and on the target, so it *)
(* goes on when the maintenance service dies.                              *)
rest == <<inputs, signer, published, controller>>

(* unpack and validate: the signature and every digest hold by             *)
(* construction; the first use must be within a day of the signing.        *)
Current(a) == a.issued <= now /\ now <= a.issued + 1
Unpack ==
    /\ job.step = "unpack"
    /\ job' = IF Current(job.of) THEN [job EXCEPT !.step = "rename"] ELSE NoStage
    /\ UNCHANGED <<rest, staged, bound, faults>>

MutantReplacing ==
    /\ job.step = "rename"
    /\ staged' = [staged EXCEPT ![IdOf(job.of)] = job.of] /\ job' = [job EXCEPT !.step = "bind"]
    /\ UNCHANGED <<rest, bound, faults>>

(* A release identifier keeps the manifest it was first used with.         *)
Place ==
    /\ job.step = "rename"
    /\ LET i == IdOf(job.of) IN
       IF staged[i] \in {None, job.of}
       THEN staged' = [staged EXCEPT ![i] = job.of] /\ job' = [job EXCEPT !.step = "bind"]
       ELSE UNCHANGED staged /\ job' = NoStage
    /\ UNCHANGED <<rest, bound, faults>>

Bind ==
    /\ job.step = "bind"
    /\ bound' = [bound EXCEPT ![IdOf(job.of)] = [to |-> job.of, day |-> IF @.day = 0 THEN now ELSE @.day]]
    /\ job' = NoStage
    /\ UNCHANGED <<rest, staged, faults>>

StageKilled ==
    /\ job.step # "idle" /\ Fault /\ job' = NoStage
    /\ UNCHANGED <<rest, staged, bound>>

-----------------------------------------------------------------------------
(* controller.py, main for an upgrade with selected.tar.                   *)
outside == <<inputs, signer, published>>
MainTo(step) == main' = [main EXCEPT !.step = step]
Fails == main' = NoMain

(* The controller verifies the archive itself; the one it uploaded last    *)
(* may be used after its window.                                           *)
MainStart ==
    /\ main.step = "idle" /\ selected # None
    /\ LET a == archive[selected] IN
       /\ Current(a) \/ prior = a
       /\ main' = [NoMain EXCEPT !.step = IF prior = a THEN "deploy" ELSE "upload", !.verified = a]
    /\ UNCHANGED <<outside, target, prior, deployed, faults>>

(* upload opens the published archive a second time.                       *)
Upload ==
    /\ main.step = "upload"
    /\ IF job.step = "idle"
       THEN /\ job' = [step |-> "unpack", of |-> archive[selected]]
            /\ main' = [main EXCEPT !.step = "wait", !.uploaded = archive[selected]]
       ELSE UNCHANGED job /\ Fails
    /\ UNCHANGED <<outside, staged, bound, prior, deployed, faults>>

(* The state file names the archive that was verified.                     *)
Uploaded ==
    /\ main.step = "wait" /\ job.step = "idle"
    /\ IF bound[IdOf(main.uploaded)].to = main.uploaded
       THEN prior' = main.verified /\ MainTo("deploy")
       ELSE UNCHANGED prior /\ Fails
    /\ UNCHANGED <<outside, target, deployed, faults>>

(* The later operations name the manifest the controller verified; the     *)
(* dispatcher compares it with the binding and checks the whole tree.      *)
MutantAnyTree(a) == staged[IdOf(a)] # None
VerifyTree(a) == bound[IdOf(a)].to = a /\ staged[IdOf(a)] = a
Deploy ==
    /\ main.step = "deploy"
    /\ deployed' = IF VerifyTree(main.verified) THEN deployed \cup {main.verified} ELSE deployed
    /\ main' = NoMain
    /\ UNCHANGED <<outside, target, prior, faults>>

(* Killed, or a request of it has no answer.                               *)
MainKilled ==
    /\ main.step # "idle" /\ Fault /\ Fails
    /\ UNCHANGED <<outside, target, prior, deployed>>

World == Tick \/ (\E r \in Runs, g \in Gates : Record(r, g)) \/ (\E c \in Cands, r \in Runs : HandOver(c, r))
         \/ Change \/ RemovePending
Signing == ReadCandidate \/ (\E g \in Gates : ReadGate(g)) \/ CheckEvidence \/ CopyHandoff
           \/ Build \/ LinkPending \/ Select \/ SignerKilled
Staging == Unpack \/ Place \/ Bind \/ StageKilled
Maintenance == MainStart \/ Upload \/ Uploaded \/ Deploy \/ MainKilled

Next == World \/ Signing \/ Staging \/ Maintenance

Spec == Init /\ [][Next]_vars

-----------------------------------------------------------------------------
(* What dispatcher.py has bound is what one certification run passed: the  *)
(* gates of the signed archive are all of one run of this very candidate,  *)
(* in order and within a day of the signing (validate_evidence, finalize), *)
(* and the first use was within a day of it (validate).                    *)
BoundIsCertified ==
    \A i \in Ids : bound[i].to # None =>
        LET a == bound[i].to IN
        /\ staged[i] = a /\ archive[a.cand] = a
        /\ CandOf[a.run] = a.cand
        /\ \A g \in Gates : made[a.run][g] \in (a.issued - 1)..a.issued /\ made[a.run][g] > 0
        /\ bound[i].day \in a.issued..(a.issued + 1)

(* A binding on the target is never replaced (the guide: "A same-ID        *)
(* replacement is rejected"), nor is the tree it stands for, by a stage of *)
(* another archive or by one that was killed before.                       *)
BindingIsKept ==
    [][\A i \in Ids : bound[i].to # None => bound'[i] = bound[i] /\ staged'[i] = staged[i]]_vars


(* A deployment that closes is of the archive that the controller verified *)
(* and of the one that is bound, although selected.tar is opened twice     *)
(* (controller.main, dispatcher.verify_tree).                              *)
DeployedIsBound == \A a \in deployed : bound[IdOf(a)].to = a
=============================================================================
