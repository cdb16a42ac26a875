-------------------------- MODULE PromotionProofs --------------------------
(***************************************************************************)
(* What is bound on the target and what is deployed there, for every set   *)
(* of candidates and runs, every assignment of release identifiers and     *)
(* every bound of days, hand-overs and faults.                             *)
(*                                                                         *)
(* BoundIsCertified is not inductive: a binding comes from the archive of  *)
(* a stage, this from what is published, and this from evidence that the   *)
(* signer validated while the directories could still change.  PInv says   *)
(* at every station what the next one relies on.  The last section is      *)
(* about the labs' host, which shares no variable with the rest.           *)
(***************************************************************************)
EXTENDS Promotion, LabInstances, FiniteSetTheorems, WellFoundedInduction, TLAPS

(* No gate record is of a later day.                                       *)
Past == \A r \in Runs, g \in Gates : made[r][g] <= now

(* What the signature of an archive stands for, and that every published   *)
(* archive has it.                                                         *)
Certified(a) ==
    /\ CandOf[a.run] = a.cand
    /\ a.issued <= now
    /\ \A g \in Gates : made[a.run][g] \in (a.issued - 1)..a.issued /\ made[a.run][g] > 0
Issued == \A c \in Cands : archive[c] # None => Certified(archive[c])

(* What the signer has read stays on record; from the check on it is       *)
(* complete, and valid on the day of the signing.                          *)
SignerInv ==
    /\ signer.step # "idle" => signer.cand \in Cands
    /\ \A g \in Gates : signer.ev[g] # None => made[signer.ev[g]][g] # 0
    /\ signer.step \in {"check", "copy", "build"} => \A g \in Gates : signer.ev[g] # None
    /\ signer.step \in {"copy", "build"} => Valid(signer.ev)
    /\ signer.step \in {"link", "select"} => archive[signer.cand] # None
    /\ signer.step = "select" => pending # None

(* Whatever is named as pending or selected is published.                  *)
LinksInv ==
    /\ pending # None => archive[pending] # None
    /\ selected # None => archive[selected] # None

Published(a) == a # None /\ archive[a.cand] = a

(* A stage on the target, and the controller, work with published archives.*)
JobInv ==
    /\ job.step # "idle" => Published(job.of)
    /\ job.step \in {"rename", "bind"} => Current(job.of)
    /\ job.step = "bind" => staged[IdOf(job.of)] = job.of
MainInv ==
    /\ main.step # "idle" => selected # None /\ Published(main.verified)
    /\ main.step = "wait" => Published(main.uploaded)

(* A binding has its tree, its published archive and its first day.        *)
BoundInv ==
    \A i \in Ids :
        /\ bound[i].to = None => bound[i].day = 0
        /\ bound[i].to # None =>
            /\ staged[i] = bound[i].to /\ Published(bound[i].to)
            /\ bound[i].day \in bound[i].to.issued..(bound[i].to.issued + 1)
DeployInv == \A a \in deployed : a # None /\ bound[IdOf(a)].to = a

PInv == TypeOK /\ Past /\ Issued /\ SignerInv /\ LinksInv /\ JobInv /\ MainInv /\ BoundInv /\ DeployInv

USE PromotionAssumption

-----------------------------------------------------------------------------
(* The release identifier of an archive is one of the identifiers.         *)
LEMMA IdsOfArchives == \A a \in Archive : IdOf(a) \in Ids
BY DEF Archive, IdOf, Ids

(* The first state.                                                        *)
LEMMA PromotionInit == Init => PInv
<1> SUFFICES ASSUME Init PROVE PInv
  OBVIOUS
<1>1. hand \in [cand: Cands \cup {None}, run: Runs \cup {None}, intact: BOOLEAN, count: 0..MaxHands]
  <2>1. TRUE \in BOOLEAN /\ 0 \in 0..MaxHands
    OBVIOUS
  <2>2. QED BY <2>1, Zenon DEF Init
<1>2. TypeOK
  BY <1>1 DEF Init, TypeOK, NoSigner, NoStage, NoMain, Gates
<1>3. Past /\ Issued /\ LinksInv /\ BoundInv /\ DeployInv
  BY DEF Init, Past, Issued, LinksInv, BoundInv, DeployInv
<1>4. SignerInv /\ JobInv /\ MainInv
  BY DEF Init, SignerInv, JobInv, MainInv, NoSigner, NoStage, NoMain
<1>5. QED BY <1>2, <1>3, <1>4 DEF PInv

-----------------------------------------------------------------------------
(* The world of the signer.  A day passes only while everyone is idle.     *)
LEMMA TickKeepsInv == PInv /\ Tick => PInv'
<1> SUFFICES ASSUME PInv, Tick PROVE PInv'
  OBVIOUS
<1> USE DEF PInv
<1>1. /\ now \in 1..MaxTime /\ now' \in 1..MaxTime /\ now' = now + 1
      /\ UNCHANGED <<made, hand, signer, published, target, controller, faults>>
      /\ signer.step = "idle" /\ job.step = "idle" /\ main.step = "idle"
  BY DEF Tick, TypeOK
<1>2. TypeOK'
  BY <1>1 DEF TypeOK, published, target, controller
<1>3. Past'
  BY <1>1 DEF Past, TypeOK
<1>4. Issued'
  BY <1>1 DEF Issued, Certified, TypeOK, published, Archive
<1>5. SignerInv' /\ LinksInv' /\ JobInv' /\ MainInv'
  BY <1>1 DEF SignerInv, LinksInv, JobInv, MainInv, Published, published, target, controller
<1>6. BoundInv' /\ DeployInv'
  BY <1>1 DEF BoundInv, DeployInv, Published, published, target, controller
<1>7. QED BY <1>2, <1>3, <1>4, <1>5, <1>6

(* A gate is recorded once, so no record that was relied on changes.       *)
LEMMA RecordKeepsInv == ASSUME NEW r \in Runs, NEW g \in Gates, PInv, Record(r, g) PROVE PInv'
<1> USE DEF PInv
<1>1. /\ made[r][g] = 0 /\ made' = [made EXCEPT ![r][g] = now]
      /\ UNCHANGED <<now, hand, signer, published, target, controller, faults>>
  BY DEF Record
<1>2. made \in [Runs -> [Gates -> 0..MaxTime]] /\ now \in 1..MaxTime
  BY DEF TypeOK
<1>3. made' \in [Runs -> [Gates -> 0..MaxTime]]
  BY <1>1, <1>2
<1>4. \A q \in Runs, h \in Gates : made'[q][h] = IF q = r /\ h = g THEN now ELSE made[q][h]
  BY <1>1, <1>2
<1>5. \A q \in Runs, h \in Gates : made[q][h] # 0 => made'[q][h] = made[q][h]
  BY <1>1, <1>4
<1>6. TypeOK'
  BY <1>1, <1>3 DEF TypeOK, published, target, controller
<1>7. Past'
  BY <1>1, <1>2, <1>4 DEF Past
<1>8. Issued'
  <2> SUFFICES ASSUME NEW c \in Cands, archive[c] # None PROVE Certified(archive[c])'
    BY <1>1 DEF Issued, published
  <2>1. archive[c] \in Archive /\ Certified(archive[c])
    BY DEF TypeOK, Issued
  <2>2. \A h \in Gates : made'[archive[c].run][h] = made[archive[c].run][h]
    BY <1>2, <1>5, <2>1 DEF Certified, Archive
  <2>3. QED BY <1>1, <2>1, <2>2 DEF Certified, published
<1>9. SignerInv'
  <2>1. signer.ev \in [Gates -> Runs \cup {None}] /\ UNCHANGED <<now, signer, archive, pending>>
    BY <1>1 DEF TypeOK, published
  <2>2. \A h \in Gates : signer.ev[h] # None =>
            made[signer.ev[h]][h] # 0 /\ made'[signer.ev[h]][h] = made[signer.ev[h]][h]
    BY <1>5, <2>1 DEF SignerInv
  <2>3. signer.step \in {"copy", "build"} => Valid(signer.ev)'
    <3> SUFFICES ASSUME signer.step \in {"copy", "build"} PROVE Valid(signer.ev)'
      OBVIOUS
    <3>1. Valid(signer.ev) /\ \A h \in Gates : made'[signer.ev[h]][h] = made[signer.ev[h]][h]
      BY <2>2 DEF SignerInv
    <3>2. QED BY <2>1, <3>1 DEF Valid, Gates
  <2>4. QED BY <2>1, <2>2, <2>3 DEF SignerInv
<1>10. LinksInv' /\ JobInv' /\ MainInv' /\ BoundInv' /\ DeployInv'
  BY <1>1 DEF LinksInv, JobInv, MainInv, BoundInv, DeployInv, Published, Current, published, target,
       controller
<1>11. QED BY <1>6, <1>7, <1>8, <1>9, <1>10

(* What the operator hands over is read again by everyone who uses it.     *)
LEMMA HandKeepsInv ==
    PInv /\ ((\E c \in Cands, r \in Runs : HandOver(c, r)) \/ Change) => PInv'
<1> SUFFICES ASSUME PInv, (\E c \in Cands, r \in Runs : HandOver(c, r)) \/ Change PROVE PInv'
  OBVIOUS
<1> USE DEF PInv
<1> DEFINE Hand == [cand: Cands \cup {None}, run: Runs \cup {None}, intact: BOOLEAN, count: 0..MaxHands]
<1>1. UNCHANGED <<now, made, signer, published, target, controller>>
  BY DEF HandOver, Change
<1>2. faults' \in 0..MaxFaults
  BY DEF HandOver, Change, Fault, TypeOK
<1>3. hand \in Hand
  BY DEF TypeOK
<1>4. hand' \in Hand
  <2>1. ASSUME NEW c \in Cands, NEW r \in Runs, HandOver(c, r) PROVE hand' \in Hand
    <3>1. hand' = [cand |-> c, run |-> r, intact |-> TRUE, count |-> hand.count + 1]
      BY <2>1 DEF HandOver
    <3>2. hand.count + 1 \in 0..MaxHands
      BY <1>3, <2>1 DEF HandOver
    <3>3. c \in Cands \cup {None} /\ r \in Runs \cup {None} /\ TRUE \in BOOLEAN
      OBVIOUS
    <3>4. QED BY <3>1, <3>2, <3>3, Zenon
  <2>2. ASSUME Change PROVE hand' \in Hand
    <3>1. hand' = [hand EXCEPT !.intact = FALSE] /\ FALSE \in BOOLEAN
      BY <2>2 DEF Change
    <3>2. QED BY <1>3, <3>1, Zenon
  <2>3. QED BY <2>1, <2>2
<1>5. TypeOK'
  BY <1>1, <1>2, <1>4 DEF TypeOK, published, target, controller
<1>6. Past' /\ Issued' /\ SignerInv' /\ LinksInv'
  BY <1>1 DEF Past, Issued, Certified, SignerInv, Valid, LinksInv, published
<1>7. JobInv' /\ MainInv' /\ BoundInv' /\ DeployInv'
  BY <1>1 DEF JobInv, MainInv, BoundInv, DeployInv, Published, Current, published, target, controller
<1>8. QED BY <1>5, <1>6, <1>7

(* Recovery by hand only removes a pending name.                           *)
LEMMA RemoveKeepsInv == PInv /\ RemovePending => PInv'
<1> SUFFICES ASSUME PInv, RemovePending PROVE PInv'
  OBVIOUS
<1> USE DEF PInv
<1>1. /\ pending' = None /\ signer.step = "idle"
      /\ UNCHANGED <<inputs, target, controller, signer, archive, selected, faults>>
  BY DEF RemovePending, SignerAt, quiet
<1>2. TypeOK'
  BY <1>1 DEF TypeOK, inputs, target, controller
<1>3. Past' /\ Issued' /\ SignerInv' /\ LinksInv'
  BY <1>1 DEF Past, Issued, Certified, SignerInv, LinksInv, inputs
<1>4. JobInv' /\ MainInv' /\ BoundInv' /\ DeployInv'
  BY <1>1 DEF JobInv, MainInv, BoundInv, DeployInv, Published, Current, inputs, target, controller
<1>5. QED BY <1>2, <1>3, <1>4

-----------------------------------------------------------------------------
(* The signer.  Its record, after every assignment that the module makes.  *)
SignerSteps == {"idle", "read", "check", "copy", "build", "link", "select"}
Signer == [step: SignerSteps, cand: Cands \cup {None}, ev: [Gates -> Runs \cup {None}]]

LEMMA SignerRecords ==
    /\ NoSigner \in Signer /\ NoSigner.step = "idle" /\ \A g \in Gates : NoSigner.ev[g] = None
    /\ \A s \in Signer, t \in SignerSteps :
          /\ [s EXCEPT !.step = t] \in Signer
          /\ [s EXCEPT !.step = t].step = t
          /\ [s EXCEPT !.step = t].cand = s.cand
          /\ [s EXCEPT !.step = t].ev = s.ev
BY DEF Signer, SignerSteps, NoSigner

(* A step of the signer that publishes nothing keeps everything, if it     *)
(* keeps what is known of the signer.                                      *)
LEMMA SigningFrame ==
    ASSUME PInv, UNCHANGED <<quiet, published>>, faults' \in 0..MaxFaults, signer' \in Signer, SignerInv'
    PROVE  PInv'
<1> USE DEF PInv, quiet
<1>1. TypeOK'
  BY DEF TypeOK, Signer, SignerSteps, inputs, published, target, controller
<1>2. Past' /\ Issued' /\ LinksInv'
  BY DEF Past, Issued, Certified, LinksInv, inputs, published
<1>3. JobInv' /\ MainInv' /\ BoundInv' /\ DeployInv'
  BY DEF JobInv, MainInv, BoundInv, DeployInv, Published, Current, inputs, published, target, controller
<1>4. QED BY <1>1, <1>2, <1>3

(* The signer may give up, or be killed, at any step.                      *)
LEMMA GivesKeepsInv ==
    ASSUME PInv, UNCHANGED <<quiet, published>>, faults' \in 0..MaxFaults, SignerGives
    PROVE  PInv'
<1>1. signer' \in Signer /\ SignerInv'
  BY SignerRecords DEF SignerGives, SignerInv
<1>2. QED BY <1>1, SigningFrame

(* The signer goes on to a step of which it knows what that step needs.    *)
LEMMA GoesOnKeepsInv ==
    ASSUME PInv, UNCHANGED <<quiet, published, faults>>, NEW t \in SignerSteps, SignerTo(t), signer.step # "idle",
           t \in {"check", "copy", "build"} => \A g \in Gates : signer.ev[g] # None,
           t \in {"copy", "build"} => Valid(signer.ev),
           t \in {"link", "select"} => archive[signer.cand] # None,
           t = "select" => pending # None
    PROVE  PInv'
<1>1. signer \in Signer
  BY DEF PInv, TypeOK, Signer, SignerSteps
<1>2. /\ signer' \in Signer /\ signer'.step = t /\ signer'.cand = signer.cand /\ signer'.ev = signer.ev
  BY <1>1, SignerRecords DEF SignerTo
<1>3. UNCHANGED <<now, made, archive, pending>>
  BY DEF quiet, inputs, published
<1>4. SignerInv'
  BY <1>2, <1>3 DEF PInv, SignerInv, Valid
<1>5. faults' \in 0..MaxFaults
  BY DEF PInv, TypeOK
<1>6. QED BY <1>2, <1>4, <1>5, SigningFrame

(* Reading: the manifest, then one record after another.                   *)
LEMMA ReadKeepsInv == PInv /\ (ReadCandidate \/ (\E g \in Gates : ReadGate(g))) => PInv'
<1>1. ASSUME PInv, ReadCandidate PROVE PInv'
  <2>1. /\ signer' = [NoSigner EXCEPT !.step = "read", !.cand = hand.cand] /\ hand.cand \in Cands
        /\ UNCHANGED <<quiet, published>> /\ faults' \in 0..MaxFaults
    BY <1>1 DEF PInv, TypeOK, ReadCandidate
  <2>2. signer' \in Signer /\ signer'.step = "read" /\ signer'.cand \in Cands
        /\ \A g \in Gates : signer'.ev[g] = None
    BY <2>1 DEF NoSigner, Signer, SignerSteps
  <2>3. SignerInv'
    BY <2>2 DEF SignerInv
  <2>4. QED BY <1>1, <2>1, <2>2, <2>3, SigningFrame
<1>2. ASSUME PInv, NEW g \in Gates, ReadGate(g) PROVE PInv'
  <2>1. /\ SignerAt("read") /\ UNCHANGED <<quiet, published>> /\ faults' \in 0..MaxFaults
        /\ signer \in Signer /\ signer.step = "read" /\ SignerInv
        /\ hand.run \in Runs \cup {None}
    BY <1>2 DEF PInv, TypeOK, ReadGate, SignerAt, Signer, SignerSteps
  <2>2. CASE hand.run # None /\ made[hand.run][g] # 0
    <3> DEFINE next == IF g = "vm_destroyed" THEN "check" ELSE "read"
    <3>1. signer' = [signer EXCEPT !.ev[g] = hand.run, !.step = next]
      BY <1>2, <2>1, <2>2 DEF ReadGate
    <3>2. signer' \in Signer /\ signer'.step = next /\ signer'.cand = signer.cand
          /\ \A h \in Gates : signer'.ev[h] = IF h = g THEN hand.run ELSE signer.ev[h]
      BY <2>1, <3>1 DEF Signer, SignerSteps
    <3>3. g = "vm_destroyed" => signer.ev["inference"] # None
      BY <1>2 DEF ReadGate
    <3>4. UNCHANGED <<made, archive, pending>>
      BY <2>1 DEF quiet, inputs, published
    <3>5. SignerInv'
      BY <2>1, <2>2, <3>2, <3>3, <3>4 DEF SignerInv, Gates
    <3>6. QED BY <1>2, <2>1, <3>2, <3>5, SigningFrame
  <2>3. CASE ~(hand.run # None /\ made[hand.run][g] # 0)
    <3>1. SignerGives
      BY <1>2, <2>3 DEF ReadGate
    <3>2. QED BY <1>2, <2>1, <3>1, GivesKeepsInv
  <2>4. QED BY <2>2, <2>3
<1>3. QED BY <1>1, <1>2

(* The checks before the signing: the evidence, then the copied payload.   *)
LEMMA ChecksKeepInv == PInv /\ (CheckEvidence \/ CopyHandoff \/ SignerKilled) => PInv'
<1>1. ASSUME PInv, CheckEvidence PROVE PInv'
  <2>1. SignerInv /\ signer.step = "check" /\ UNCHANGED <<quiet, published, faults>> /\ faults' \in 0..MaxFaults
    BY <1>1 DEF PInv, TypeOK, CheckEvidence, SignerAt
  <2>2. CASE Valid(signer.ev) /\ archive[signer.cand] = None
    <3>1. SignerTo("copy") /\ "copy" \in SignerSteps /\ \A g \in Gates : signer.ev[g] # None
      BY <1>1, <2>1, <2>2 DEF CheckEvidence, SignerInv, SignerSteps
    <3>2. QED BY <1>1, <2>1, <2>2, <3>1, GoesOnKeepsInv
  <2>3. CASE ~(Valid(signer.ev) /\ archive[signer.cand] = None)
    <3>1. SignerGives
      BY <1>1, <2>3 DEF CheckEvidence
    <3>2. QED BY <1>1, <2>1, <3>1, GivesKeepsInv
  <2>4. QED BY <2>2, <2>3
<1>2. ASSUME PInv, CopyHandoff PROVE PInv'
  <2>1. SignerInv /\ signer.step = "copy" /\ UNCHANGED <<quiet, published, faults>> /\ faults' \in 0..MaxFaults
    BY <1>2 DEF PInv, TypeOK, CopyHandoff, SignerAt
  <2>2. CASE Copied
    <3>1. SignerTo("build") /\ "build" \in SignerSteps /\ Valid(signer.ev) /\ \A g \in Gates : signer.ev[g] # None
      BY <1>2, <2>1, <2>2 DEF CopyHandoff, SignerInv, SignerSteps
    <3>2. QED BY <1>2, <2>1, <3>1, GoesOnKeepsInv
  <2>3. CASE ~Copied
    <3>1. SignerGives
      BY <1>2, <2>3 DEF CopyHandoff
    <3>2. QED BY <1>2, <2>1, <3>1, GivesKeepsInv
  <2>4. QED BY <2>2, <2>3
<1>3. ASSUME PInv, SignerKilled PROVE PInv'
  <2>1. SignerGives /\ UNCHANGED <<quiet, published>> /\ faults' \in 0..MaxFaults
    BY <1>3 DEF SignerKilled, Fault, PInv, TypeOK
  <2>2. QED BY <1>3, <2>1, GivesKeepsInv
<1>4. QED BY <1>1, <1>2, <1>3

(* What is signed is certified: the evidence was valid today, and the      *)
(* final check compares every record with this candidate.                  *)
LEMMA FinalizedIsCertified ==
    ASSUME PInv, signer.step = "build", Finalized(signer.cand, signer.ev) # None
    PROVE  LET a == Finalized(signer.cand, signer.ev) IN
           a \in Archive /\ a.cand = signer.cand /\ Certified(a)
<1> DEFINE c == signer.cand
           r == signer.ev["vm_destroyed"]
           a == [cand |-> c, run |-> r, issued |-> now]
<1>1. /\ Finalized(c, signer.ev) = a /\ \A g \in Gates : CandOf[signer.ev[g]] = c
  BY DEF Finalized
<1>2. /\ now \in 1..MaxTime /\ c \in Cands /\ signer.ev \in [Gates -> Runs \cup {None}]
      /\ made \in [Runs -> [Gates -> 0..MaxTime]]
      /\ SignerInv /\ Valid(signer.ev) /\ Past
  BY DEF PInv, TypeOK, SignerInv
<1>3. r \in Runs /\ \A g \in Gates : signer.ev[g] = r /\ made[r][g] \in 0..MaxTime /\ made[r][g] # 0
  BY <1>2 DEF SignerInv, Valid, Gates
<1>4. \A g \in Gates : made[r][g] \in (now - 1)..now /\ made[r][g] > 0
  BY <1>2, <1>3 DEF Valid, Past
<1>5. a \in Archive /\ CandOf[r] = c
  BY <1>1, <1>2, <1>3 DEF Archive, Gates
<1>6. QED BY <1>1, <1>2, <1>4, <1>5 DEF Certified

(* The signed archive goes to its place, where none was.                   *)
LEMMA BuildKeepsInv == PInv /\ Build => PInv'
<1> SUFFICES ASSUME PInv, Build PROVE PInv'
  OBVIOUS
<1> DEFINE a == Finalized(signer.cand, signer.ev)
           c == signer.cand
<1>1. signer.step = "build" /\ UNCHANGED <<quiet, pending, selected, faults>> /\ c \in Cands
      /\ faults' \in 0..MaxFaults
  BY DEF Build, SignerAt, PInv, SignerInv, TypeOK
<1>2. CASE a # None /\ archive[c] = None
  <2>1. archive' = [archive EXCEPT ![c] = a] /\ SignerTo("link")
    BY <1>2 DEF Build
  <2>2. a \in Archive /\ a.cand = c /\ Certified(a)
    BY <1>1, <1>2, FinalizedIsCertified
  <2> HIDE DEF a
  <2>3. archive \in [Cands -> Archive \cup {None}] /\ UNCHANGED <<now, made>>
    BY <1>1 DEF PInv, TypeOK, quiet, inputs
  <2>4. \A d \in Cands : archive'[d] = IF d = c THEN a ELSE archive[d]
    BY <1>1, <2>1, <2>3
  <2>5. signer \in Signer
    BY DEF PInv, TypeOK, Signer, SignerSteps
  <2>6. signer' \in Signer /\ signer'.step = "link" /\ signer'.cand = c /\ signer'.ev = signer.ev
    BY <2>1, <2>5, SignerRecords DEF SignerTo, SignerSteps
  <2>7. archive' \in [Cands -> Archive \cup {None}] /\ \A d \in Cands : archive'[d] # None => archive'[d].cand = d
    BY <1>1, <2>1, <2>2, <2>3, <2>4 DEF PInv, TypeOK
  <2>8. TypeOK'
    BY <1>1, <2>6, <2>7 DEF PInv, TypeOK, Signer, SignerSteps, quiet, inputs, target, controller
  <2>9. Issued'
    <3> SUFFICES ASSUME NEW d \in Cands, archive'[d] # None PROVE Certified(archive[d])'
      BY DEF Issued
    <3>1. Certified(archive'[d])
      BY <2>2, <2>4 DEF PInv, Issued
    <3>2. QED BY <2>3, <3>1 DEF Certified
  <2>10. SignerInv'
    BY <1>1, <1>2, <2>3, <2>4, <2>6 DEF PInv, SignerInv
  <2>11. \A b : Published(b) /\ b \in Archive => Published(b)'
    BY <1>2, <2>4 DEF Published, Archive
  <2>12. Past' /\ LinksInv'
    BY <1>1, <1>2, <2>3, <2>4 DEF PInv, Past, LinksInv, TypeOK
  <2>13. UNCHANGED <<now, staged, bound, job, main, selected, deployed>>
    BY <1>1 DEF quiet, inputs, target, controller
  <2>14. JobInv' /\ MainInv'
    BY <2>11, <2>13 DEF PInv, TypeOK, JobInv, MainInv, Current, Published
  <2>15. BoundInv'
    <3> SUFFICES ASSUME NEW i \in Ids, bound[i].to # None PROVE Published(bound[i].to)'
      BY <2>13 DEF PInv, BoundInv
    <3>1. bound[i].to \in Archive /\ Published(bound[i].to)
      BY DEF PInv, TypeOK, BoundInv
    <3>2. QED BY <2>11, <2>13, <3>1 DEF Published
  <2>16. DeployInv'
    BY <2>13 DEF PInv, DeployInv
  <2>17. QED BY <2>8, <2>9, <2>10, <2>12, <2>14, <2>15, <2>16 DEF PInv
<1>3. CASE ~(a # None /\ archive[c] = None)
  <2>1. SignerGives /\ UNCHANGED <<quiet, published>>
    BY <1>1, <1>3 DEF Build, published
  <2>2. QED BY <1>1, <2>1, GivesKeepsInv
<1>4. QED BY <1>2, <1>3

(* The pending name is of an archive in place, and so is the selected one. *)
LEMMA LinkKeepsInv == PInv /\ (LinkPending \/ Select) => PInv'
<1> SUFFICES ASSUME PInv, LinkPending \/ Select PROVE PInv'
  OBVIOUS
<1>1. /\ UNCHANGED <<quiet, archive, faults>> /\ signer.cand \in Cands /\ archive[signer.cand] # None
      /\ signer \in Signer /\ faults' \in 0..MaxFaults
  BY DEF LinkPending, Select, SignerAt, PInv, SignerInv, TypeOK, Signer, SignerSteps
<1>2. CASE LinkPending /\ pending # None
  <2>1. SignerGives /\ UNCHANGED <<quiet, published>>
    BY <1>2 DEF LinkPending, published
  <2>2. QED BY <1>1, <2>1, GivesKeepsInv
<1>3. CASE (LinkPending /\ pending = None) \/ Select
  <2>1. /\ pending' \in Cands \cup {None} /\ selected' \in Cands \cup {None}
        /\ selected # None => selected' # None
        /\ LinksInv'
    BY <1>1, <1>3 DEF LinkPending, Select, SignerAt, PInv, TypeOK, LinksInv, SignerInv
  <2>2. signer' \in Signer /\ SignerInv'
    <3>1. CASE LinkPending /\ pending = None
      <4>1. SignerTo("select") /\ pending' = signer.cand
        BY <3>1 DEF LinkPending
      <4>2. signer' \in Signer /\ signer'.step = "select" /\ signer'.cand = signer.cand /\ signer'.ev = signer.ev
        BY <1>1, <4>1, SignerRecords DEF SignerTo, SignerSteps
      <4>3. QED BY <1>1, <4>1, <4>2 DEF PInv, SignerInv, quiet, inputs
    <3>2. CASE Select
      BY <3>2, SignerRecords DEF Select, SignerInv
    <3>3. QED BY <1>3, <3>1, <3>2
  <2>3. TypeOK'
    BY <1>1, <2>1, <2>2 DEF PInv, TypeOK, Signer, SignerSteps, quiet, inputs, target, controller
  <2>4. Past' /\ Issued'
    BY <1>1 DEF PInv, Past, Issued, Certified, quiet, inputs
  <2>5. JobInv' /\ MainInv' /\ BoundInv' /\ DeployInv'
    BY <1>1, <2>1 DEF PInv, JobInv, MainInv, BoundInv, DeployInv, Published, Current,
       quiet, inputs, target, controller
  <2>6. QED BY <2>1, <2>2, <2>3, <2>4, <2>5 DEF PInv
<1>4. QED BY <1>2, <1>3

-----------------------------------------------------------------------------
(* Staging on the target changes only the target.                          *)
LEMMA StagingFrame ==
    ASSUME PInv, UNCHANGED rest, TypeOK', JobInv', BoundInv', DeployInv'
    PROVE  PInv'
<1>1. Past' /\ Issued' /\ SignerInv' /\ LinksInv'
  BY DEF PInv, Past, Issued, Certified, SignerInv, Valid, LinksInv, rest, inputs, published
<1>2. MainInv'
  BY DEF PInv, MainInv, Published, rest, published, controller
<1>3. QED BY <1>1, <1>2 DEF PInv

(* A stage checks the window, places its tree and binds it; what a killed  *)
(* one left is of no consequence.                                          *)
LEMMA StagingKeepsInv == PInv /\ Staging => PInv'
<1> SUFFICES ASSUME PInv, Staging PROVE PInv'
  OBVIOUS
<1>1. /\ UNCHANGED rest /\ faults' \in 0..MaxFaults /\ job \in [step: {"idle", "unpack", "rename", "bind"}, of: Archive \cup {None}]
      /\ UNCHANGED <<now, archive, deployed>>
  BY DEF Staging, Unpack, Place, Bind, StageKilled, Fault, PInv, TypeOK, rest, inputs, published, controller
<1>2. NoStage \in [step: {"idle", "unpack", "rename", "bind"}, of: Archive \cup {None}] /\ NoStage.step = "idle"
  BY DEF NoStage
<1>3. CASE Unpack
  <2>1. UNCHANGED <<staged, bound>> /\ job.step = "unpack"
        /\ \/ Current(job.of) /\ job' = [job EXCEPT !.step = "rename"]
           \/ job' = NoStage
    BY <1>3 DEF Unpack
  <2>2. JobInv' /\ job' \in [step: {"idle", "unpack", "rename", "bind"}, of: Archive \cup {None}]
    BY <1>1, <1>2, <2>1 DEF PInv, JobInv, Published, Current
  <2>3. BoundInv' /\ DeployInv'
    BY <1>1, <2>1 DEF PInv, BoundInv, DeployInv, Published
  <2>4. TypeOK'
    BY <1>1, <2>1, <2>2 DEF PInv, TypeOK, rest, inputs, published, controller
  <2>5. QED BY <1>1, <2>2, <2>3, <2>4, StagingFrame
<1>4. CASE StageKilled
  <2>1. UNCHANGED <<staged, bound>> /\ job' = NoStage
    BY <1>4 DEF StageKilled
  <2>2. JobInv' /\ BoundInv' /\ DeployInv'
    BY <1>1, <1>2, <2>1 DEF PInv, JobInv, BoundInv, DeployInv, Published
  <2>3. TypeOK'
    BY <1>1, <1>2, <2>1 DEF PInv, TypeOK, rest, inputs, published, controller
  <2>4. QED BY <1>1, <2>2, <2>3, StagingFrame
<1> DEFINE a == job.of
           i == IdOf(job.of)
<1>5. ASSUME job.step \in {"rename", "bind"}
      PROVE  a \in Archive /\ Published(a) /\ Current(a) /\ i \in Ids
  BY <1>1, <1>5, IdsOfArchives DEF PInv, JobInv, Published
<1>6. CASE Place
  <2>1. job.step = "rename" /\ UNCHANGED bound
    BY <1>6 DEF Place
  <2>2. a \in Archive /\ Published(a) /\ Current(a) /\ i \in Ids
    BY <1>5, <2>1
  <2> HIDE DEF i
  <2>3. CASE staged[i] \in {None, a}
    <3>1. staged' = [staged EXCEPT ![i] = a] /\ job' = [job EXCEPT !.step = "bind"]
      BY <1>6, <2>3 DEF Place, i
    <3>2. staged \in [Ids -> Archive \cup {None}]
      BY DEF PInv, TypeOK
    <3>3. staged' \in [Ids -> Archive \cup {None}] /\ staged'[i] = a
          /\ \A k \in Ids : staged[k] # None => staged'[k] = staged[k]
      BY <2>2, <2>3, <3>1, <3>2
    <3>4. job' \in [step: {"idle", "unpack", "rename", "bind"}, of: Archive \cup {None}]
          /\ job'.step = "bind" /\ job'.of = a
      BY <1>1, <3>1
    <3>5. JobInv'
      BY <1>1, <2>2, <3>3, <3>4 DEF JobInv, Published, Current, i
    <3>6. BoundInv' /\ DeployInv'
      BY <1>1, <2>1, <3>3 DEF PInv, BoundInv, DeployInv, Published
    <3>7. TypeOK'
      BY <1>1, <2>1, <3>3, <3>4 DEF PInv, TypeOK, rest, inputs, published, controller
    <3>8. QED BY <1>1, <3>5, <3>6, <3>7, StagingFrame
  <2>4. CASE staged[i] \notin {None, a}
    <3>1. UNCHANGED staged /\ job' = NoStage
      BY <1>6, <2>4 DEF Place, i
    <3>2. JobInv' /\ BoundInv' /\ DeployInv'
      BY <1>1, <1>2, <2>1, <3>1 DEF PInv, JobInv, BoundInv, DeployInv, Published
    <3>3. TypeOK'
      BY <1>1, <1>2, <2>1, <3>1 DEF PInv, TypeOK, rest, inputs, published, controller
    <3>4. QED BY <1>1, <3>2, <3>3, StagingFrame
  <2>5. QED BY <2>3, <2>4
<1>7. CASE Bind
  <2>1. job.step = "bind" /\ UNCHANGED staged /\ job' = NoStage
        /\ bound' = [bound EXCEPT ![i] = [to |-> a, day |-> IF @.day = 0 THEN now ELSE @.day]]
    BY <1>7 DEF Bind
  <2>2. a \in Archive /\ Published(a) /\ Current(a) /\ i \in Ids /\ staged[i] = a
    BY <1>5, <2>1 DEF PInv, JobInv
  <2> HIDE DEF i, a
  <2>3. bound \in [Ids -> [to: Archive \cup {None}, day: 0..MaxTime]] /\ now \in 1..MaxTime
    BY DEF PInv, TypeOK
  <2>4. /\ \A k \in Ids \ {i} : bound'[k] = bound[k]
        /\ bound'[i] = [to |-> a, day |-> IF bound[i].day = 0 THEN now ELSE bound[i].day]
    BY <2>1, <2>2, <2>3
  <2>5. bound' \in [Ids -> [to: Archive \cup {None}, day: 0..MaxTime]]
    BY <2>1, <2>2, <2>3
  <2>6. bound[i].to # None => bound[i].to = a
    BY <2>2 DEF PInv, BoundInv
  <2>7. bound'[i].to = a /\ bound'[i].day \in a.issued..(a.issued + 1)
    BY <2>2, <2>3, <2>4, <2>6 DEF PInv, BoundInv, Current, Archive
  <2>8. BoundInv'
    <3> SUFFICES ASSUME NEW k \in Ids
                 PROVE  /\ bound'[k].to = None => bound'[k].day = 0
                        /\ bound'[k].to # None =>
                            /\ staged'[k] = bound'[k].to /\ Published(bound[k].to)'
                            /\ bound'[k].day \in bound'[k].to.issued..(bound'[k].to.issued + 1)
      BY DEF BoundInv
    <3>1. CASE k = i
      BY <1>1, <2>1, <2>2, <2>7, <3>1 DEF Published
    <3>2. CASE k # i
      BY <1>1, <2>1, <2>4, <3>2 DEF PInv, BoundInv, Published
    <3>3. QED BY <3>1, <3>2
  <2>9. DeployInv'
    <3> SUFFICES ASSUME NEW d \in deployed PROVE d # None /\ bound'[IdOf(d)].to = d
      BY <1>1 DEF DeployInv
    <3>1. d # None /\ bound[IdOf(d)].to = d /\ IdOf(d) \in Ids
      BY IdsOfArchives DEF PInv, TypeOK, DeployInv
    <3>2. QED BY <2>4, <2>6, <2>7, <3>1
  <2>10. JobInv'
    BY <1>2, <2>1 DEF JobInv
  <2>11. TypeOK'
    BY <1>1, <1>2, <2>1, <2>5 DEF PInv, TypeOK, rest, inputs, published, controller
  <2>12. QED BY <1>1, <2>8, <2>9, <2>10, <2>11, StagingFrame
<1>8. QED BY <1>3, <1>4, <1>6, <1>7 DEF Staging

-----------------------------------------------------------------------------
(* The controller.  Its record, after every assignment of it.              *)
MainSteps == {"idle", "upload", "wait", "deploy"}
Main == [step: MainSteps, verified: Archive \cup {None}, uploaded: Archive \cup {None}]

LEMMA MainRecords ==
    /\ NoMain \in Main /\ NoMain.step = "idle"
    /\ \A m \in Main, t \in MainSteps : /\ [m EXCEPT !.step = t] \in Main
                                        /\ [m EXCEPT !.step = t].step = t
                                        /\ [m EXCEPT !.step = t].verified = m.verified
BY DEF Main, MainSteps, NoMain

(* What the controller does on its own changes neither the target's        *)
(* bindings nor what is published.                                         *)
LEMMA ControllerFrame ==
    ASSUME PInv, UNCHANGED <<outside, staged, bound>>, TypeOK', JobInv', MainInv', DeployInv'
    PROVE  PInv'
<1>1. Past' /\ Issued' /\ SignerInv' /\ LinksInv'
  BY DEF PInv, Past, Issued, Certified, SignerInv, Valid, LinksInv, outside, inputs, published
<1>2. BoundInv'
  BY DEF PInv, BoundInv, Published, outside, published
<1>3. QED BY <1>1, <1>2 DEF PInv

(* The controller uploads what is selected and deploys what it verified.   *)
LEMMA MaintenanceKeepsInv == PInv /\ Maintenance => PInv'
<1> SUFFICES ASSUME PInv, Maintenance PROVE PInv'
  OBVIOUS
<1>1. /\ UNCHANGED <<outside, staged, bound>> /\ faults' \in 0..MaxFaults /\ main \in Main
      /\ UNCHANGED <<now, archive, selected>>
  BY DEF Maintenance, MainStart, Upload, Uploaded, Deploy, MainKilled, Fault, PInv, TypeOK, Main, MainSteps,
     outside, inputs, published, target
<1>2. ASSUME selected # None
      PROVE  archive[selected] \in Archive /\ Published(archive[selected])
  BY <1>2 DEF PInv, TypeOK, LinksInv, Published
<1>3. CASE MainStart
  <2> DEFINE a == archive[selected]
             t == IF prior = a THEN "deploy" ELSE "upload"
  <2>1. selected # None /\ main' = [NoMain EXCEPT !.step = t, !.verified = a] /\ UNCHANGED <<target, prior, deployed>>
    BY <1>3 DEF MainStart
  <2>2. a \in Archive /\ Published(a)
    BY <1>2, <2>1
  <2>3. main' \in Main /\ main'.step \in {"upload", "deploy"} /\ main'.verified = a
    BY <2>1, <2>2 DEF NoMain, Main, MainSteps
  <2>4. MainInv' /\ JobInv' /\ DeployInv'
    BY <1>1, <2>1, <2>2, <2>3 DEF PInv, MainInv, JobInv, DeployInv, Published, Current, target
  <2>5. TypeOK'
    BY <1>1, <2>1, <2>3 DEF PInv, TypeOK, Main, MainSteps, outside, inputs, published, target
  <2>6. QED BY <1>1, <2>4, <2>5, ControllerFrame
<1>4. CASE Upload
  <2> DEFINE a == archive[selected]
  <2>1. /\ main.step = "upload" /\ selected # None /\ Published(main.verified)
        /\ UNCHANGED <<prior, deployed>>
    BY <1>4 DEF Upload, PInv, MainInv
  <2>2. a \in Archive /\ Published(a)
    BY <1>2, <2>1
  <2>3. \/ job' = [step |-> "unpack", of |-> a] /\ main' = [main EXCEPT !.step = "wait", !.uploaded = a]
        \/ job' = job /\ main' = NoMain
    BY <1>4 DEF Upload, Fails
  <2>4. main' \in Main /\ MainInv'
    BY <1>1, <2>1, <2>2, <2>3, MainRecords DEF Main, MainSteps, MainInv, Published
  <2>5. JobInv' /\ job' \in [step: {"idle", "unpack", "rename", "bind"}, of: Archive \cup {None}]
    BY <1>1, <2>2, <2>3 DEF PInv, TypeOK, JobInv, Published, Current
  <2>6. DeployInv'
    BY <1>1, <2>1 DEF PInv, DeployInv
  <2>7. TypeOK'
    BY <1>1, <2>1, <2>4, <2>5 DEF PInv, TypeOK, Main, MainSteps, outside, inputs, published
  <2>8. QED BY <1>1, <2>4, <2>5, <2>6, <2>7, ControllerFrame
<1>5. ASSUME Uploaded \/ Deploy \/ MainKilled
      PROVE  UNCHANGED target /\ main' \in Main /\ MainInv' /\ JobInv'
  <2>1. UNCHANGED target /\ \/ main' = NoMain
                            \/ main.step = "wait" /\ main' = [main EXCEPT !.step = "deploy"]
    BY <1>5 DEF Uploaded, Deploy, MainKilled, Fails, MainTo
  <2>2. main' \in Main /\ MainInv'
    <3>1. CASE main' = NoMain
      BY <3>1, MainRecords DEF MainInv
    <3>2. CASE main.step = "wait" /\ main' = [main EXCEPT !.step = "deploy"]
      <4>1. main' \in Main /\ main'.step = "deploy" /\ main'.verified = main.verified
        BY <1>1, <3>2, MainRecords DEF MainSteps
      <4>2. selected # None /\ Published(main.verified)
        BY <3>2 DEF PInv, MainInv
      <4>3. QED BY <1>1, <4>1, <4>2 DEF MainInv, Published
    <3>3. QED BY <2>1, <3>1, <3>2
  <2>3. JobInv'
    BY <1>1, <2>1 DEF PInv, JobInv, Published, Current, target
  <2>4. QED BY <2>1, <2>2, <2>3
<1>6. CASE Uploaded
  <2>1. UNCHANGED deployed /\ prior' \in Archive \cup {None}
    BY <1>1, <1>6 DEF Uploaded, PInv, TypeOK, Main
  <2>2. DeployInv'
    BY <1>1, <2>1 DEF PInv, DeployInv
  <2>3. TypeOK'
    BY <1>1, <1>5, <1>6, <2>1 DEF PInv, TypeOK, Main, MainSteps, outside, inputs, published, target
  <2>4. QED BY <1>1, <1>5, <1>6, <2>2, <2>3, ControllerFrame
<1>7. CASE Deploy \/ MainKilled
  <2>1. /\ UNCHANGED prior
        /\ \/ deployed' = deployed
           \/ deployed' = deployed \cup {main.verified} /\ VerifyTree(main.verified) /\ main.step # "idle"
    BY <1>7 DEF Deploy, MainKilled
  <2>2. main.step # "idle" => main.verified \in Archive /\ main.verified # None
    BY <1>1 DEF PInv, MainInv, Published, Main
  <2>3. deployed' \subseteq Archive
    BY <2>1, <2>2 DEF PInv, TypeOK
  <2>4. DeployInv'
    BY <1>1, <2>1, <2>2 DEF PInv, DeployInv, VerifyTree
  <2>5. TypeOK'
    BY <1>1, <1>5, <1>7, <2>1, <2>3 DEF PInv, TypeOK, Main, MainSteps, outside, inputs, published, target
  <2>6. QED BY <1>1, <1>5, <1>7, <2>4, <2>5, ControllerFrame
<1>8. QED BY <1>3, <1>4, <1>6, <1>7 DEF Maintenance

-----------------------------------------------------------------------------
(* A step that changes nothing.                                            *)
LEMMA PromotionStutters == PInv /\ UNCHANGED vars => PInv'
<1> SUFFICES ASSUME PInv, UNCHANGED vars PROVE PInv'
  OBVIOUS
<1> USE DEF PInv, vars
<1>1. TypeOK'
  BY DEF TypeOK, inputs, published, target, controller
<1>2. Past' /\ Issued' /\ SignerInv' /\ LinksInv'
  BY DEF Past, Issued, Certified, SignerInv, Valid, LinksInv, inputs, published
<1>3. JobInv' /\ MainInv' /\ BoundInv' /\ DeployInv'
  BY DEF JobInv, MainInv, BoundInv, DeployInv, Published, Current, inputs, published, target, controller
<1>4. QED BY <1>1, <1>2, <1>3

(* The inductive invariant holds always.                                   *)
LEMMA PromotionInvariant == Spec => []PInv
<1>1. PInv /\ [Next]_vars => PInv'
  <2>1. PInv /\ World => PInv'
    BY TickKeepsInv, RecordKeepsInv, HandKeepsInv, RemoveKeepsInv DEF World
  <2>2. PInv /\ Signing => PInv'
    BY ReadKeepsInv, ChecksKeepInv, BuildKeepsInv, LinkKeepsInv DEF Signing
  <2>3. QED BY <2>1, <2>2, StagingKeepsInv, MaintenanceKeepsInv, PromotionStutters DEF Next
<1>2. QED BY PromotionInit, <1>1, PTL DEF Spec

(* What is bound on the target is what one certification run passed        *)
(* (signer.validate_evidence, finalize, dispatcher.stage).                 *)
THEOREM TargetBoundIsCertified == Spec => []BoundIsCertified
<1>1. PInv => BoundIsCertified
  <2> SUFFICES ASSUME PInv, NEW i \in Ids, bound[i].to # None
               PROVE  LET a == bound[i].to IN
                      /\ staged[i] = a /\ archive[a.cand] = a
                      /\ CandOf[a.run] = a.cand
                      /\ \A g \in Gates : made[a.run][g] \in (a.issued - 1)..a.issued /\ made[a.run][g] > 0
                      /\ bound[i].day \in a.issued..(a.issued + 1)
    BY DEF BoundIsCertified
  <2>1. bound[i].to \in Archive /\ Published(bound[i].to) /\ staged[i] = bound[i].to
        /\ bound[i].day \in bound[i].to.issued..(bound[i].to.issued + 1)
    BY DEF PInv, TypeOK, BoundInv
  <2>2. Certified(bound[i].to)
    BY <2>1 DEF PInv, Issued, Published, Archive
  <2>3. QED BY <2>1, <2>2 DEF Certified, Published
<1>2. QED BY PromotionInvariant, <1>1, PTL

(* What a closed deployment is of is what is bound, although selected.tar  *)
(* is opened twice (controller.main, dispatcher.verify_tree).              *)
THEOREM DeployedArchiveIsBound == Spec => []DeployedIsBound
<1>1. PInv => DeployedIsBound
  BY DEF PInv, DeployInv, DeployedIsBound
<1>2. QED BY PromotionInvariant, <1>1, PTL

(* A binding and its tree are never replaced (dispatcher.stage).           *)
THEOREM TargetBindingIsKept == Spec => BindingIsKept
<1> DEFINE Kept == \A i \in Ids : bound[i].to # None => bound'[i] = bound[i] /\ staged'[i] = staged[i]
<1>1. PInv /\ [Next]_vars => Kept
  <2> SUFFICES ASSUME PInv, [Next]_vars PROVE Kept
    OBVIOUS
  <2>1. ASSUME UNCHANGED <<staged, bound>> PROVE Kept
    BY <2>1
  <2>2. CASE World \/ Signing \/ UNCHANGED vars
    BY <2>1, <2>2 DEF World, Tick, Record, HandOver, Change, RemovePending, Signing, ReadCandidate, ReadGate,
       CheckEvidence, CopyHandoff, Build, LinkPending, Select, SignerKilled, quiet, target, vars
  <2>3. CASE Maintenance
    BY <2>1, <2>3 DEF Maintenance, MainStart, Upload, Uploaded, Deploy, MainKilled, target
  <2>4. CASE Unpack \/ StageKilled
    BY <2>1, <2>4 DEF Unpack, StageKilled
  <2>5. bound \in [Ids -> [to: Archive \cup {None}, day: 0..MaxTime]] /\ staged \in [Ids -> Archive \cup {None}]
    BY DEF PInv, TypeOK
  <2>6. CASE Place
    BY <2>1, <2>5, <2>6 DEF Place, PInv, BoundInv, Published
  <2>7. CASE Bind
    <3> SUFFICES ASSUME NEW i \in Ids, bound[i].to # None PROVE bound'[i] = bound[i] /\ staged'[i] = staged[i]
      OBVIOUS
    <3>1. UNCHANGED staged
      BY <2>7 DEF Bind
    <3>2. CASE i # IdOf(job.of)
      BY <2>5, <2>7, <3>1, <3>2 DEF Bind
    <3>3. CASE i = IdOf(job.of)
      <4>1. bound'[i] = [to |-> job.of, day |-> IF bound[i].day = 0 THEN now ELSE bound[i].day]
        BY <2>5, <2>7, <3>3 DEF Bind
      <4>2. staged[i] = job.of
        BY <2>7, <3>3 DEF Bind, PInv, JobInv
      <4>3. bound[i].to = job.of /\ bound[i].day # 0 /\ bound[i] \in [to: Archive \cup {None}, day: 0..MaxTime]
        BY <2>5, <4>2 DEF PInv, BoundInv, Archive
      <4>4. QED BY <3>1, <4>1, <4>3
    <3>4. QED BY <3>2, <3>3
  <2>8. QED BY <2>2, <2>3, <2>4, <2>6, <2>7 DEF Next, Staging
<1>2. QED BY PromotionInvariant, <1>1, PTL DEF Spec, BindingIsKept

-----------------------------------------------------------------------------
(* The host of the lab, LabInstances, for every finite set of instances    *)
(* and every bound of commands, sources and kills.                         *)
(*                                                                         *)
(* A process owns what it has locked: its instance, the ports while it     *)
(* boots, the key of a cache that it prepares.  RouteInv, InstanceInv and  *)
(* StageInv say what it has done to them at every step, and StepKeeps that *)
(* a step that changes only what its process owns keeps what the others    *)
(* rely on.                                                                *)
HIDE PromotionAssumption
USE LabInstancesAssumption

(* The types, and the locks, that TypeOK is made of.                       *)
Process == [cmd: {"none", "up", "suite", "deploy", "clean", "prepare"}, step: Steps, name: Names,
            key: Keys, port: {0} \cup Ports, booting: BOOLEAN]
Directory == [state: {"none", "bare", "marked", "torn"}, uuid: 0..Foreign, port: {0} \cup Ports,
              pending: BOOLEAN]
Disk == [kind: Kinds, src: 0..MaxSources]
Stage == [kind: Kinds \cup {"empty"}, src: 0..MaxSources, audited: BOOLEAN]
Cache == [kind: Kinds, src: 0..MaxSources, audited: BOOLEAN]
LabTypes ==
    /\ dir \in [Names -> Directory] /\ dom \in [Names -> 0..Foreign] /\ disk \in [Names -> Disk]
    /\ stage \in [Keys -> Stage] /\ prepared \in [Keys -> Cache] /\ proc \in [Procs -> Process]
    /\ sources \in Keys /\ commands \in 0..MaxCommands /\ mishaps \in 0..MaxMishaps
Apart(p, q) ==
    /\ ~(HoldsPorts(p) /\ HoldsPorts(q))
    /\ \A n \in Names : ~(Holds(p, n) /\ Holds(q, n))
    /\ \A k \in Keys : ~(HoldsCache(p, k) /\ HoldsCache(q, k))
Locks == \A p, q \in Procs : p # q => Apart(p, q)

(* What every command does, in terms of its steps.                         *)
Boots == {"mark", "install", "confirm"}
Cleans == {"clean", "undefine", "remove"}
Route(cmd) ==
    CASE cmd = "none" -> {"idle"}
      [] cmd = "up" -> {"cache", "boot", "deploy", "profile"} \cup Boots
      [] cmd = "suite" -> {"cache", "boot", "deploy", "profile"} \cup Boots \cup Cleans
      [] cmd = "deploy" -> {"lock", "deploy", "profile"}
      [] cmd = "clean" -> Cleans
      [] OTHER -> {"lock", "stage", "boot", "build", "sanitize", "probe", "audit", "publish"} \cup Boots \cup Cleans
RouteInv(p) ==
    /\ proc[p].step \in Route(proc[p].cmd)
    /\ proc[p].booting <=> proc[p].step \in Boots
    /\ proc[p].cmd \in {"up", "suite", "deploy"} => proc[p].name \notin {Builder, Probe}
    /\ proc[p].cmd = "prepare" =>
          /\ proc[p].name \in {Builder, Probe}
          /\ proc[p].step \in {"lock", "stage", "build", "sanitize", "probe", "publish"} => proc[p].name = Builder
          /\ proc[p].step = "audit" => proc[p].name = Probe

(* What a process has done to its instance, which others leave alone.      *)
InstanceInv(p) ==
    LET n == proc[p].name IN
    /\ proc[p].step \in {"mark", "install", "remove"} => dom[n] \in {0, Foreign}
    /\ proc[p].step \in {"install", "confirm"} => dir[n].state = "marked"
    /\ proc[p].step = "confirm" => dom[n] = dir[n].uuid
    /\ proc[p].step = "undefine" => dom[n] \notin {0, Foreign}
    /\ proc[p].step \in Boots =>
          \A m \in Names \ {n} : dir[m].state = "marked" => dir[m].port # proc[p].port

(* A stage goes from the sources it is built of to a base that is audited. *)
(* The key is that of the sources at the start, which are only ever        *)
(* followed by newer ones.                                                 *)
Cloning(p) == proc[p].name = Probe
Built(p) == proc[p].step \in {"sanitize", "probe", "audit", "publish"} \/ Cloning(p)
Sanitized(p) == proc[p].step \in {"probe", "audit", "publish"} \/ Cloning(p)
Audited(p) == proc[p].step = "publish" \/ (Cloning(p) /\ proc[p].step \in Cleans)
StageInv(p) ==
    proc[p].cmd = "prepare" =>
      LET image == stage[proc[p].key] IN
      /\ proc[p].key <= sources
      /\ Built(p) => proc[p].key <= image.src /\ image.src <= sources
      /\ Sanitized(p) => image.kind = "clean"
      /\ Audited(p) => image.audited
ProcessInv(p) == RouteInv(p) /\ InstanceInv(p) /\ StageInv(p)

(* No marker names a foreign domain.                                       *)
UuidInv == \A n \in Names : dir[n].uuid # Foreign /\ (dir[n].state = "marked" => dir[n].uuid # 0)
HostInv == PortsDiffer /\ OwnDomainIsMarked /\ UuidInv /\ PublishedIsAudited

LabInv == LabTypes /\ Locks /\ HostInv /\ \A p \in Procs : ProcessInv(p)

-----------------------------------------------------------------------------
(* The smallest element of a set of natural numbers is one of them.        *)
LEMMA Minimal ==
    ASSUME NEW R, NEW S, IsWellFoundedOn(R, S), NEW T, T \subseteq S, T # {}
    PROVE  \E x \in T : \A y \in T : ~(<<y, x>> \in R)
BY WFMin, Zenon

LEMMA MinOf ==
    ASSUME NEW R, \A x, y \in Nat : x < y => <<x, y>> \in R,
           NEW S, S \subseteq Nat, NEW x \in S, \A y \in S : ~(<<y, x>> \in R)
    PROVE  Min(S) \in S
<1>1. \A y \in S : x =< y
  <2>1. TAKE y \in S
  <2>2. x \in Nat /\ y \in Nat /\ ~(y < x)
    OBVIOUS
  <2>3. QED BY <2>2
<1>2. QED BY <1>1 DEF Min

LEMMA MinIn ==
    ASSUME NEW S, S \subseteq Nat, S # {}
    PROVE  Min(S) \in S
<1>1. \A x, y \in Nat : x < y => <<x, y>> \in OpToRel(<, Nat)
  BY DEF OpToRel
<1>2. PICK x \in S : \A y \in S : ~(<<y, x>> \in OpToRel(<, Nat))
  BY NatLessThanWellFounded, Minimal, Zenon
<1>3. QED BY <1>1, <1>2, MinOf, Zenon

(* The values of a function are no more than its arguments.                *)
LEMMA Values ==
    ASSUME NEW S, IsFiniteSet(S), NEW f, f = [s \in S |-> f[s]]
    PROVE  /\ IsFiniteSet({f[s] : s \in S})
           /\ Cardinality({f[s] : s \in S}) <= Cardinality(S)
<1> DEFINE T == {f[s] : s \in S}
<1>1. f \in Surjection(S, T)
  BY DEF Surjection
<1>2. QED BY <1>1, FS_Surjection

(* There are instances, ports for them and UUIDs for their domains.        *)
LEMMA Instances ==
    /\ Cardinality(Names) \in Nat /\ Cardinality(Names) >= 1
    /\ 1 \in Ports /\ Ports \subseteq Nat
    /\ Foreign \in Nat /\ Foreign >= 3
    /\ Uuids \subseteq 0..Foreign /\ 1 \in Uuids
    /\ 0 \notin Uuids /\ Foreign \notin Uuids
<1>1. SUFFICES Cardinality(Names) \in Nat /\ Cardinality(Names) >= 1
  BY DEF Ports, Foreign, Uuids
<1>2. IsFiniteSet(Names) /\ Names # {}
  OBVIOUS
<1>3. Cardinality(Names) \in Nat
  BY <1>2, FS_CardinalityType
<1>4. QED BY <1>2, <1>3, FS_EmptySet

(* There is always a UUID that is not in use.                              *)
LEMMA FreshUuid ==
    ASSUME LabTypes
    PROVE  NextUuid \in Uuids
<1> DEFINE N == Cardinality(Names)
           D == {dir[n].uuid : n \in Names}
           E == {dom[n] : n \in Names}
<1>1. IsFiniteSet(Names) /\ N \in Nat
  BY Instances
<1>2. IsFiniteSet(D) /\ Cardinality(D) <= N
  <2> DEFINE f == [n \in Names |-> dir[n].uuid]
  <2>1. D = {f[n] : n \in Names} /\ f = [n \in Names |-> f[n]]
    OBVIOUS
  <2> HIDE DEF f, D
  <2>2. QED BY <1>1, <2>1, Values
<1>3. IsFiniteSet(E) /\ Cardinality(E) <= N
  BY <1>1, Values DEF LabTypes
<1> HIDE DEF D, E
<1>4. IsFiniteSet(D \cup E) /\ Cardinality(D \cup E) <= 2 * N
  <2>1. /\ IsFiniteSet(D \cup E)
        /\ Cardinality(D \cup E) = Cardinality(D) + Cardinality(E) - Cardinality(D \cap E)
    BY <1>2, <1>3, FS_Union
  <2>2. Cardinality(D) \in Nat /\ Cardinality(E) \in Nat /\ Cardinality(D \cap E) \in Nat
    BY <1>2, <1>3, FS_CardinalityType, FS_Intersection
  <2>3. QED BY <1>1, <1>2, <1>3, <2>1, <2>2
<1>5. Cardinality(Uuids) = 2 * N + 1
  BY <1>1, FS_Interval DEF Uuids
<1>6. ~(Uuids \subseteq D \cup E)
  <2>1. Uuids \subseteq D \cup E => Cardinality(Uuids) <= Cardinality(D \cup E)
    BY <1>4, FS_Subset
  <2>2. Cardinality(D \cup E) \in Nat
    BY <1>4, FS_CardinalityType
  <2>3. QED BY <1>1, <1>4, <1>5, <2>1, <2>2
<1>7. Uuids \ (D \cup E) # {} /\ Uuids \ (D \cup E) \subseteq Nat
  BY <1>6 DEF Uuids
<1>8. Min(Uuids \ (D \cup E)) \in Uuids \ (D \cup E)
  BY <1>7, MinIn
<1>9. QED BY <1>8 DEF NextUuid, D, E

-----------------------------------------------------------------------------
(* One process at work.  Its own part of the state goes from one step to   *)
(* the next.                                                               *)
Same(p) == \A q \in Procs : q # p => proc'[q] = proc[q]
Moves(p, s) ==
    /\ proc' \in [Procs -> Process] /\ Same(p)
    /\ proc'[p].cmd = proc[p].cmd /\ proc'[p].name = proc[p].name /\ proc'[p].key = proc[p].key
    /\ proc'[p].port = proc[p].port /\ proc'[p].booting = proc[p].booting /\ proc'[p].step = s
Ends(p) == proc' \in [Procs -> Process] /\ Same(p) /\ proc'[p] = Idle

LEMMA Going ==
    ASSUME LabTypes, NEW p \in Procs, NEW s \in Steps, To(p, s)
    PROVE  Moves(p, s)
BY DEF To, Moves, Same, LabTypes, Process

LEMMA Ending ==
    ASSUME LabTypes, NEW p \in Procs, proc' = [proc EXCEPT ![p] = Idle]
    PROVE  Ends(p)
<1>1. Idle \in Process
  BY DEF Idle, Process, Steps, Keys
<1>2. QED BY <1>1 DEF Ends, Same, LabTypes

(* A process beyond its first step holds the lock of its instance.         *)
LEMMA HoldsIts ==
    ASSUME NEW p \in Procs, RouteInv(p), proc[p].step \notin {"idle", "lock", "stage"}
    PROVE  Holds(p, proc[p].name)
BY DEF RouteInv, Route, Holds, Busy

(* What a step may change while another process is at work: nothing of its *)
(* instance, but that somebody may define a domain of its name; no port    *)
(* that it did not know of; and not the stage it builds.                   *)
Spares(q) ==
    /\ proc'[q] = proc[q]
    /\ Holds(q, proc[q].name) =>
          /\ dir'[proc[q].name].state = dir[proc[q].name].state
          /\ dir'[proc[q].name].uuid = dir[proc[q].name].uuid
          /\ \/ dom'[proc[q].name] = dom[proc[q].name]
             \/ dom[proc[q].name] = 0 /\ dom'[proc[q].name] = Foreign
    /\ HoldsPorts(q) => \A m \in Names : dir'[m].state = "marked" =>
                                           dir[m].state = "marked" /\ dir'[m].port = dir[m].port
    /\ HoldsCache(q, proc[q].key) => stage'[proc[q].key] = stage[proc[q].key]
    /\ sources <= sources'

LEMMA Spared ==
    ASSUME LabTypes, LabTypes', UuidInv, NEW q \in Procs, ProcessInv(q), Spares(q)
    PROVE  ProcessInv(q)'
<1>1. RouteInv(q)'
  BY DEF Spares, ProcessInv, RouteInv
<1>2. InstanceInv(q)'
  <2>1. proc[q].step \in {"mark", "install", "confirm", "remove", "undefine"} => Holds(q, proc[q].name)
    BY HoldsIts DEF ProcessInv
  <2>2. proc[q].step \in Boots => HoldsPorts(q)
    BY DEF ProcessInv, RouteInv, HoldsPorts
  <2>3. proc[q].name \in Names
    BY DEF LabTypes, Process
  <2>4. QED BY <2>1, <2>2, <2>3, Instances DEF Spares, ProcessInv, InstanceInv, UuidInv, Boots
<1>3. StageInv(q)'
  <2>1. proc[q].cmd = "prepare" /\ proc[q].step # "lock" => HoldsCache(q, proc[q].key)
    BY DEF HoldsCache
  <2>2. proc[q].cmd = "prepare" /\ proc[q].step = "lock" => ~Cloning(q)
    BY DEF ProcessInv, RouteInv, Cloning
  <2>3. proc[q].key \in Nat /\ sources \in Nat /\ sources' \in Nat /\ stage[proc[q].key].src \in Nat
    <3>1. proc[q].key \in Keys /\ sources \in Keys /\ sources' \in Keys
      BY DEF LabTypes, Process
    <3>2. stage[proc[q].key] \in Stage
      BY <3>1 DEF LabTypes
    <3>3. QED BY <3>1, <3>2 DEF Stage, Keys
  <2>4. QED
    BY <2>1, <2>2, <2>3 DEF Spares, ProcessInv, StageInv, Built, Sanitized, Audited, Cloning
<1>4. QED BY <1>1, <1>2, <1>3 DEF ProcessInv

(* What a process may change: what it holds.                               *)
OnlyItsOwn(p) ==
    /\ Same(p)
    /\ \A n \in Names : Holds(p, n) \/ (dir'[n] = dir[n] /\ dom'[n] = dom[n])
    /\ HoldsPorts(p) \/ \A m \in Names : dir'[m].state = "marked" =>
                                            dir[m].state = "marked" /\ dir'[m].port = dir[m].port
    /\ \A k \in Keys : HoldsCache(p, k) \/ stage'[k] = stage[k]
    /\ sources' = sources
(* What it may take: a lock that no other process holds.                   *)
Takes(p) ==
    /\ HoldsPorts(p)' => HoldsPorts(p) \/ \A q \in Procs : ~HoldsPorts(q)
    /\ \A n \in Names : Holds(p, n)' => Holds(p, n) \/ \A q \in Procs : ~Holds(q, n)
    /\ \A k \in Keys : HoldsCache(p, k)' => HoldsCache(p, k) \/ \A q \in Procs : ~HoldsCache(q, k)
(* A lock that is not given up is still held.                              *)
LEMMA LocksKept ==
    ASSUME NEW p \in Procs, Locks, Same(p), Takes(p)
    PROVE  Locks'
<1>1. ASSUME NEW q \in Procs, q # p
      PROVE  /\ HoldsPorts(q)' = HoldsPorts(q)
             /\ \A n \in Names : Holds(q, n)' = Holds(q, n)
             /\ \A k \in Keys : HoldsCache(q, k)' = HoldsCache(q, k)
  <2>1. proc'[q] = proc[q]
    BY <1>1 DEF Same
  <2>2. QED BY <2>1 DEF HoldsPorts, Holds, HoldsCache, Busy
<1>2. ASSUME NEW q \in Procs, q # p
      PROVE  Apart(p, q)' /\ Apart(q, p)'
  <2>1. Apart(p, q)
    BY <1>2 DEF Locks
  <2>2. QED BY <1>1, <1>2, <2>1, Zenon DEF Apart, Takes
<1>3. ASSUME NEW q \in Procs, NEW r \in Procs, q # p, r # p, q # r
      PROVE  Apart(q, r)'
  <2>1. Apart(q, r)
    BY <1>3 DEF Locks
  <2>2. QED BY <1>1, <1>3, <2>1 DEF Apart
<1>4. QED BY <1>2, <1>3 DEF Locks

(* Thus a step only has to keep the invariant of its own process.          *)
LEMMA StepKeeps ==
    ASSUME LabInv, NEW p \in Procs, LabTypes', HostInv', ProcessInv(p)', OnlyItsOwn(p), Takes(p)
    PROVE  LabInv'
<1>1. Locks'
  BY LocksKept DEF LabInv, OnlyItsOwn
<1>2. ASSUME NEW q \in Procs, q # p
      PROVE  ProcessInv(q)'
  <2>1. Apart(p, q) /\ ProcessInv(q)
    BY <1>2 DEF LabInv, Locks
  <2>2. proc[q].name \in Names /\ proc[q].key \in Keys
    BY DEF LabInv, LabTypes, Process
  <2>3. sources <= sources'
    BY DEF LabInv, LabTypes, Keys, OnlyItsOwn
  <2>4. Spares(q)
    BY <1>2, <2>1, <2>2, <2>3 DEF Spares, OnlyItsOwn, Same, Apart
  <2>5. QED BY <2>1, <2>4, Spared DEF LabInv, HostInv
<1>3. QED BY <1>1, <1>2 DEF LabInv

(* A step that leaves instances and caches alone.                          *)
LEMMA QuietKeeps ==
    ASSUME LabInv, NEW p \in Procs, Same(p), proc' \in [Procs -> Process],
           UNCHANGED <<dir, dom, disk, stage, prepared, sources>>,
           commands' \in 0..MaxCommands, mishaps' \in 0..MaxMishaps,
           ProcessInv(p)', Takes(p)
    PROVE  LabInv'
<1>1. LabTypes'
  BY DEF LabInv, LabTypes
<1>2. HostInv'
  BY DEF LabInv, HostInv, PortsDiffer, OwnDomainIsMarked, UuidInv, PublishedIsAudited
<1>3. OnlyItsOwn(p)
  BY DEF OnlyItsOwn
<1>4. QED BY <1>1, <1>2, <1>3, StepKeeps

-----------------------------------------------------------------------------
(* The commands' own steps.  A new command: the lock it begins with is     *)
(* free.                                                                   *)
LEMMA CommandBegins ==
    ASSUME LabInv, NEW p \in Procs,
           NEW cmd \in {"up", "suite", "deploy", "clean", "prepare"}, NEW n \in Names, Begin(p, cmd, n)
    PROVE  LabInv'
<1> DEFINE k == IF cmd = "prepare" THEN sources ELSE 1
           port == IF cmd = "deploy" THEN dir[n].port ELSE 0
           first == IF cmd \in {"up", "suite"} THEN "cache" ELSE IF cmd = "clean" THEN "clean" ELSE "lock"
           r == [cmd |-> cmd, step |-> first, name |-> n, key |-> k, port |-> port, booting |-> FALSE]
<1>1. /\ ~Busy(p) /\ (cmd = "prepare" => n = Builder)
      /\ (n \in {Builder, Probe} => cmd \in {"prepare", "clean"})
      /\ (first # "lock" => ~Locked(n))
      /\ commands' \in 0..MaxCommands
      /\ UNCHANGED <<dir, dom, disk, stage, prepared, sources, mishaps>>
  BY DEF Begin, First, host, LabInv, LabTypes
<1>2. proc' = [proc EXCEPT ![p] = r]
  <2>1. First[cmd] = first
    BY DEF First
  <2>2. QED BY <2>1 DEF Begin
<1>3. r \in Process
  <2>1. k \in Keys /\ port \in {0} \cup Ports /\ first \in Steps
    BY DEF LabInv, LabTypes, Directory, Keys, Steps
  <2>2. QED BY <2>1 DEF Process
<1>4. proc' \in [Procs -> Process] /\ Same(p) /\ proc'[p] = r
  BY <1>2, <1>3 DEF Same, LabInv, LabTypes
<1>5. ProcessInv(p)'
  <2>1. RouteInv(p)'
    BY <1>1, <1>4 DEF RouteInv, Route, Boots, Cleans
  <2>2. InstanceInv(p)'
    BY <1>4 DEF InstanceInv, Boots
  <2>3. StageInv(p)'
    BY <1>1, <1>4 DEF StageInv, Built, Sanitized, Audited, Cloning, LabInv, LabTypes, Keys
  <2>4. QED BY <2>1, <2>2, <2>3 DEF ProcessInv
<1>6. Takes(p)
  BY <1>1, <1>4 DEF Takes, Holds, HoldsPorts, HoldsCache, Locked, Busy
<1>7. QED BY <1>1, <1>4, <1>5, <1>6, QuietKeeps DEF LabInv, LabTypes

(* A process that stops keeps nothing.                                     *)
LEMMA IdleHolds ==
    ASSUME NEW p \in Procs, Ends(p)
    PROVE  ProcessInv(p)' /\ Takes(p)
<1>1. proc'[p].cmd = "none" /\ proc'[p].step = "idle" /\ proc'[p].name = Builder /\ proc'[p].booting = FALSE
  BY DEF Ends, Idle
<1>2. QED
  BY <1>1 DEF ProcessInv, RouteInv, Route, InstanceInv, StageInv, Boots, Takes, Holds,
       HoldsPorts, HoldsCache, Busy

LEMMA StopKeeps ==
    ASSUME LabInv, NEW p \in Procs, Stop(p)
    PROVE  LabInv'
<1>1. Ends(p) /\ UNCHANGED <<dir, dom, disk, stage, prepared, sources, commands, mishaps>>
  BY Ending DEF Stop, host, bounds, LabInv
<1>2. QED BY <1>1, IdleHolds, QuietKeeps DEF Ends, LabInv, LabTypes

LEMMA LockInstanceKeeps ==
    ASSUME LabInv, NEW p \in Procs, LockInstance(p)
    PROVE  LabInv'
<1>1. /\ proc[p].cmd = "deploy" /\ ~Locked(proc[p].name) /\ Moves(p, "deploy")
      /\ UNCHANGED <<dir, dom, disk, stage, prepared, sources, commands, mishaps>>
  BY Going DEF LockInstance, Steps, host, bounds, LabInv
<1>2. RouteInv(p) /\ proc[p].step = "lock"
  BY DEF LabInv, ProcessInv, LockInstance, At
<1>3. ProcessInv(p)'
  BY <1>1, <1>2 DEF ProcessInv, RouteInv, Route, InstanceInv, StageInv, Boots, Moves
<1>4. Takes(p)
  BY <1>1 DEF Takes, Holds, HoldsPorts, HoldsCache, Locked, Busy, Moves
<1>5. QED BY <1>1, <1>3, <1>4, QuietKeeps DEF Moves, LabInv, LabTypes

LEMMA ReadCacheKeeps ==
    ASSUME LabInv, NEW p \in Procs, ReadCache(p) \/ Stock(p)
    PROVE  LabInv'
<1>1. /\ proc' \in [Procs -> Process] /\ Same(p)
      /\ proc'[p].cmd = proc[p].cmd /\ proc'[p].name = proc[p].name /\ proc'[p].booting = proc[p].booting
      /\ proc[p].step = "cache" /\ proc'[p].step = "boot"
      /\ UNCHANGED <<dir, dom, disk, stage, prepared, sources, commands, mishaps>>
  <2>1. CASE ReadCache(p)
    <3>1. PICK k \in Keys : proc' = [proc EXCEPT ![p].step = "boot", ![p].key = k]
      BY <2>1 DEF ReadCache
    <3> DEFINE r == [proc[p] EXCEPT !.step = "boot", !.key = k]
    <3>2. r \in Process /\ r.cmd = proc[p].cmd /\ r.name = proc[p].name /\ r.booting = proc[p].booting /\ r.step = "boot"
      BY DEF Process, Steps, LabInv, LabTypes
    <3>3. proc' = [proc EXCEPT ![p] = r]
      BY <3>1 DEF LabInv, LabTypes
    <3>4. proc' \in [Procs -> Process] /\ Same(p) /\ proc'[p] = r
      BY <3>2, <3>3 DEF Same, LabInv, LabTypes
    <3>5. QED BY <2>1, <3>2, <3>4 DEF ReadCache, At, host, bounds
  <2>2. CASE Stock(p)
    BY <2>2, Going DEF Stock, At, Moves, Steps, host, bounds, LabInv
  <2>3. QED BY <2>1, <2>2
<1>2. RouteInv(p)
  BY DEF LabInv, ProcessInv
<1>3. proc[p].cmd \in {"up", "suite"}
  BY <1>1, <1>2 DEF RouteInv, Route, LabInv, LabTypes, Process, Boots, Cleans
<1>4. ProcessInv(p)'
  BY <1>1, <1>2, <1>3 DEF ProcessInv, RouteInv, Route, InstanceInv, StageInv, Boots
<1>5. Takes(p)
  BY <1>1, <1>3 DEF Takes, Holds, HoldsPorts, HoldsCache, Busy
<1>6. QED BY <1>1, <1>4, <1>5, QuietKeeps DEF LabInv, LabTypes

LEMMA LockBuilderKeeps ==
    ASSUME LabInv, NEW p \in Procs, LockBuilder(p)
    PROVE  LabInv'
<1>1. /\ proc[p].step = "stage" /\ ~Locked(Builder) /\ Moves(p, "boot")
      /\ UNCHANGED <<dir, dom, disk, stage, prepared, sources, commands, mishaps>>
  BY Going DEF LockBuilder, At, Steps, host, bounds, LabInv
<1>2. ProcessInv(p)
  BY DEF LabInv
<1>3. proc[p].cmd = "prepare" /\ proc[p].name = Builder
  BY <1>1, <1>2 DEF ProcessInv, RouteInv, Route, LabInv, LabTypes, Process, Boots, Cleans
<1>4. ProcessInv(p)'
  BY <1>1, <1>2, <1>3 DEF ProcessInv, RouteInv, Route, InstanceInv, StageInv, Boots, Moves, Built,
       Sanitized, Audited,
       Cloning
<1>5. Takes(p)
  BY <1>1, <1>3 DEF Takes, Holds, HoldsPorts, HoldsCache, Locked, Busy, Moves
<1>6. QED BY <1>1, <1>4, <1>5, QuietKeeps DEF Moves, LabInv, LabTypes

LEMMA LockProbeKeeps ==
    ASSUME LabInv, NEW p \in Procs, LockProbe(p)
    PROVE  LabInv'
<1>1. /\ proc' \in [Procs -> Process] /\ Same(p)
      /\ proc'[p].cmd = proc[p].cmd /\ proc'[p].name = Probe /\ proc'[p].booting = proc[p].booting
      /\ proc'[p].key = proc[p].key
      /\ proc[p].step = "probe" /\ proc'[p].step = "boot" /\ ~Locked(Probe)
      /\ UNCHANGED <<dir, dom, disk, stage, prepared, sources, commands, mishaps>>
  <2> DEFINE r == [proc[p] EXCEPT !.step = "boot", !.name = Probe]
  <2>1. /\ r \in Process /\ r.cmd = proc[p].cmd /\ r.name = Probe /\ r.booting = proc[p].booting
        /\ r.key = proc[p].key /\ r.step = "boot"
    BY DEF Process, Steps, LabInv, LabTypes
  <2>2. proc' = [proc EXCEPT ![p] = r]
    BY DEF LockProbe, LabInv, LabTypes
  <2>3. proc' \in [Procs -> Process] /\ Same(p) /\ proc'[p] = r
    BY <2>1, <2>2 DEF Same, LabInv, LabTypes
  <2>4. QED BY <2>1, <2>3 DEF LockProbe, At, host, bounds
<1>2. ProcessInv(p)
  BY DEF LabInv
<1>3. proc[p].cmd = "prepare" /\ proc[p].name = Builder
  BY <1>1, <1>2 DEF ProcessInv, RouteInv, Route, LabInv, LabTypes, Process, Boots, Cleans
<1>4. ProcessInv(p)'
  BY <1>1, <1>2, <1>3 DEF ProcessInv, RouteInv, Route, InstanceInv, StageInv, Boots, Cleans, Built,
       Sanitized, Audited,
       Cloning
<1>5. Takes(p)
  BY <1>1, <1>3 DEF Takes, Holds, HoldsPorts, HoldsCache, Locked, Busy
<1>6. QED BY <1>1, <1>4, <1>5, QuietKeeps DEF LabInv, LabTypes

(* profile.json; the temporary file is gone again.                         *)
LEMMA WriteProfileKeeps ==
    ASSUME LabInv, NEW p \in Procs, WriteProfile(p)
    PROVE  LabInv'
<1>1. /\ proc[p].step = "profile" /\ proc' = [proc EXCEPT ![p] = AfterDeploy(p)]
      /\ UNCHANGED <<dir, dom, disk, stage, prepared, sources, commands, mishaps>>
  BY DEF WriteProfile, At, host, bounds
<1>2. CASE proc[p].cmd = "suite"
  <2>1. Moves(p, "clean")
    BY <1>1, <1>2 DEF AfterDeploy, Moves, Same, Process, Steps, LabInv, LabTypes
  <2>2. ProcessInv(p)
    BY DEF LabInv
  <2>3. ProcessInv(p)'
    BY <1>1, <1>2, <2>1, <2>2 DEF ProcessInv, RouteInv, Route, InstanceInv, StageInv, Boots, Cleans, Moves
  <2>4. Takes(p)
    BY <1>1, <1>2, <2>1 DEF Takes, Holds, HoldsPorts, HoldsCache, Busy, Moves
  <2>5. QED BY <1>1, <2>1, <2>3, <2>4, QuietKeeps DEF Moves, LabInv, LabTypes
<1>3. CASE proc[p].cmd # "suite"
  <2>1. Ends(p)
    BY <1>1, <1>3, Ending DEF AfterDeploy, LabInv
  <2>2. QED BY <1>1, <2>1, IdleHolds, QuietKeeps DEF Ends, LabInv, LabTypes
<1>4. QED BY <1>2, <1>3

LEMMA CleanKeeps ==
    ASSUME LabInv, NEW p \in Procs, Clean(p)
    PROVE  LabInv'
<1> DEFINE s == IF dom[proc[p].name] = 0 THEN "remove" ELSE "undefine"
<1>1. /\ proc[p].step = "clean" /\ CleanAllowed(proc[p].name) /\ Moves(p, s)
      /\ UNCHANGED <<dir, dom, disk, stage, prepared, sources, commands, mishaps>>
  BY Going DEF Clean, At, Steps, host, bounds, LabInv
<1>2. ProcessInv(p) /\ UuidInv /\ proc[p].name \in Names
  BY DEF LabInv, HostInv, LabTypes, Process
<1>3. dom[proc[p].name] # 0 => dom[proc[p].name] # Foreign
  BY <1>1, <1>2 DEF CleanAllowed, Owned, UuidInv
<1>4. ProcessInv(p)'
  BY <1>1, <1>2, <1>3 DEF ProcessInv, RouteInv, Route, InstanceInv, StageInv, Boots, Cleans, Moves, Built,
       Sanitized, Audited,
       Cloning
<1>5. Takes(p)
  BY <1>1 DEF Takes, Holds, HoldsPorts, HoldsCache, Busy, Moves
<1>6. QED BY <1>1, <1>4, <1>5, QuietKeeps DEF Moves, LabInv, LabTypes

-----------------------------------------------------------------------------
(* The instance.  A step that writes one directory, or one domain.         *)
LEMMA OneDirectory ==
    ASSUME LabTypes, NEW n \in Names, NEW d \in Directory, dir' = [dir EXCEPT ![n] = d]
    PROVE  /\ dir' \in [Names -> Directory] /\ dir'[n] = d
           /\ \A m \in Names : m # n => dir'[m] = dir[m]
BY DEF LabTypes

(* The directory that a boot makes or a kill leaves behind.                *)
LEMMA Blank ==
    ASSUME NEW s \in {"none", "bare", "marked", "torn"}
    PROVE  /\ [Absent EXCEPT !.state = s] \in Directory
           /\ [Absent EXCEPT !.state = s].state = s /\ [Absent EXCEPT !.state = s].uuid = 0
<1>1. Absent \in Directory /\ Absent.uuid = 0
  BY Instances DEF Absent, Directory
<1>2. QED BY <1>1 DEF Directory

LEMMA PendingSet ==
    ASSUME NEW d \in Directory, NEW b \in BOOLEAN
    PROVE  /\ [d EXCEPT !.pending = b] \in Directory /\ [d EXCEPT !.pending = b].state = d.state
           /\ [d EXCEPT !.pending = b].uuid = d.uuid /\ [d EXCEPT !.pending = b].port = d.port
BY DEF Directory

LEMMA OneDomain ==
    ASSUME LabTypes, NEW n \in Names, NEW u \in 0..Foreign, dom' = [dom EXCEPT ![n] = u]
    PROVE  /\ dom' \in [Names -> 0..Foreign] /\ dom'[n] = u
           /\ \A m \in Names : m # n => dom'[m] = dom[m]
BY DEF LabTypes

LEMMA OneDisk ==
    ASSUME LabTypes, NEW n \in Names, NEW d \in Disk, disk' = [disk EXCEPT ![n] = d]
    PROVE  disk' \in [Names -> Disk] /\ \A m \in Names : m # n => disk'[m] = disk[m]
BY DEF LabTypes

(* What a process at such a step knows of itself.                          *)
LEMMA AtWork ==
    ASSUME LabInv, NEW p \in Procs, proc[p].step \notin {"idle", "lock", "stage"}
    PROVE  /\ ProcessInv(p) /\ Holds(p, proc[p].name) /\ proc[p].name \in Names
           /\ proc[p].cmd # "none" /\ proc[p].cmd \in {"up", "suite", "deploy", "clean", "prepare"}
           /\ proc[p].port \in {0} \cup Ports /\ proc[p].key \in Keys
BY HoldsIts DEF LabInv, LabTypes, Process, ProcessInv, RouteInv, Route

(* Going on to a step of the same command takes no lock, but for the first *)
(* of a boot.                                                              *)
LEMMA NothingTaken ==
    ASSUME NEW p \in Procs, NEW s, Moves(p, s), proc[p].step \notin {"idle", "lock", "stage"}
    PROVE  Takes(p)
BY DEF Takes, Holds, HoldsPorts, HoldsCache, Busy, Moves

LEMMA BootKeeps ==
    ASSUME LabInv, NEW p \in Procs, Boot(p)
    PROVE  LabInv'
<1> DEFINE n == proc[p].name
           d == [Absent EXCEPT !.state = "bare"]
           r == [proc[p] EXCEPT !.step = "mark", !.port = Min(FreePorts), !.booting = TRUE]
<1>1. /\ proc[p].step = "boot" /\ dom[n] = 0 /\ FreePorts # {} /\ \A q \in Procs : ~HoldsPorts(q)
      /\ dir' = [dir EXCEPT ![n] = d]
      /\ proc' = [proc EXCEPT ![p].step = "mark", ![p].port = Min(FreePorts), ![p].booting = TRUE]
      /\ UNCHANGED <<dom, disk, stage, prepared, sources, commands, mishaps>>
  BY DEF Boot, At, bounds
<1>2. ProcessInv(p) /\ Holds(p, n) /\ n \in Names
  BY <1>1, AtWork
<1>3. Min(FreePorts) \in Ports \ Reserved
  <2>1. FreePorts \subseteq Nat
    BY Instances DEF FreePorts
  <2>2. QED BY <1>1, <2>1, MinIn DEF FreePorts
<1>4. d \in Directory /\ d.state = "bare" /\ d.uuid = 0
  BY Blank
<1>5. /\ r \in Process /\ r.cmd = proc[p].cmd /\ r.name = n /\ r.key = proc[p].key /\ r.step = "mark"
      /\ r.booting = TRUE /\ r.port = Min(FreePorts)
  BY <1>3 DEF Process, Steps, LabInv, LabTypes
<1>6. proc' \in [Procs -> Process] /\ Same(p) /\ proc'[p] = r
  <2>1. proc' = [proc EXCEPT ![p] = r]
    BY <1>1 DEF LabInv, LabTypes
  <2>2. QED BY <1>5, <2>1 DEF Same, LabInv, LabTypes
<1>7. dir' \in [Names -> Directory] /\ dir'[n] = d /\ \A m \in Names : m # n => dir'[m] = dir[m]
  BY <1>1, <1>2, <1>4, OneDirectory DEF LabInv
<1>8. LabTypes'
  BY <1>1, <1>6, <1>7 DEF LabInv, LabTypes
<1>9. HostInv'
  BY <1>1, <1>4, <1>7, Instances DEF LabInv, HostInv, PortsDiffer, OwnDomainIsMarked, UuidInv,
       PublishedIsAudited
<1>10. ProcessInv(p)'
  <2>1. RouteInv(p)'
    BY <1>1, <1>2, <1>5, <1>6 DEF ProcessInv, RouteInv, Route, Boots, Cleans
  <2>2. InstanceInv(p)'
    BY <1>1, <1>2, <1>3, <1>5, <1>6, <1>7 DEF InstanceInv, Boots, Reserved
  <2>3. StageInv(p)'
    BY <1>1, <1>2, <1>5, <1>6 DEF ProcessInv, StageInv, Built, Sanitized, Audited, Cloning, Cleans
  <2>4. QED BY <2>1, <2>2, <2>3 DEF ProcessInv
<1>11. Takes(p)
  BY <1>1, <1>5, <1>6 DEF Takes, Holds, HoldsCache, Busy
<1>12. OnlyItsOwn(p)
  BY <1>1, <1>2, <1>4, <1>6, <1>7 DEF OnlyItsOwn
<1>13. QED BY <1>8, <1>9, <1>10, <1>11, <1>12, StepKeeps

LEMMA MarkKeeps ==
    ASSUME LabInv, NEW p \in Procs, Mark(p)
    PROVE  LabInv'
<1> DEFINE n == proc[p].name
           d == Marked(p)
<1>1. /\ proc[p].step = "mark" /\ Moves(p, "install")
      /\ dir' = [dir EXCEPT ![n] = d] /\ disk' = [disk EXCEPT ![n] = Base(p)]
      /\ UNCHANGED <<dom, stage, prepared, sources, commands, mishaps>>
  BY Going DEF Mark, At, Steps, bounds, LabInv
<1>2. ProcessInv(p) /\ Holds(p, n) /\ n \in Names /\ HoldsPorts(p)
  BY <1>1, AtWork DEF ProcessInv, RouteInv, HoldsPorts, Boots
<1>3. NextUuid \in Uuids
  BY FreshUuid DEF LabInv
<1>4. d \in Directory /\ d.state = "marked" /\ d.uuid \in Uuids /\ d.port = proc[p].port
  BY <1>1, <1>3, AtWork, Instances DEF Marked, Directory
<1>5. Base(p) \in Disk
  <2>1. proc[p].key \in Keys /\ stage[proc[p].key] \in Stage /\ prepared[proc[p].key] \in Cache
    BY <1>1, AtWork DEF LabInv, LabTypes
  <2>2. n = Probe /\ proc[p].cmd = "prepare" => stage[proc[p].key].kind \in Kinds
    BY <1>2 DEF ProcessInv, StageInv, Sanitized, Cloning, Kinds
  <2>3. QED BY <2>1, <2>2 DEF Base, Disk, Stage, Cache, Kinds
<1>6. dir' \in [Names -> Directory] /\ dir'[n] = d /\ \A m \in Names : m # n => dir'[m] = dir[m]
  BY <1>1, <1>2, <1>4, OneDirectory DEF LabInv
<1>7. LabTypes'
  BY <1>1, <1>2, <1>5, <1>6, OneDisk DEF LabInv, LabTypes, Moves
<1>8. InstanceInv(p)
  BY <1>2 DEF ProcessInv
<1>9. HostInv'
  <2>1. PortsDiffer'
    BY <1>1, <1>2, <1>4, <1>6, <1>8 DEF LabInv, HostInv, PortsDiffer, InstanceInv, Boots
  <2>2. OwnDomainIsMarked' /\ UuidInv' /\ PublishedIsAudited'
    BY <1>1, <1>2, <1>4, <1>6, <1>8, Instances DEF LabInv, HostInv, OwnDomainIsMarked, UuidInv,
         PublishedIsAudited, InstanceInv
  <2>3. QED BY <2>1, <2>2 DEF HostInv
<1>10. ProcessInv(p)'
  <2>1. RouteInv(p)'
    BY <1>1, <1>2 DEF ProcessInv, RouteInv, Route, Boots, Cleans, Moves
  <2>2. InstanceInv(p)'
    BY <1>1, <1>2, <1>4, <1>6, <1>8 DEF InstanceInv, Boots, Moves
  <2>3. StageInv(p)'
    BY <1>1, <1>2 DEF ProcessInv, StageInv, Built, Sanitized, Audited, Cloning, Cleans, Moves
  <2>4. QED BY <2>1, <2>2, <2>3 DEF ProcessInv
<1>11. OnlyItsOwn(p)
  BY <1>1, <1>2, <1>6 DEF OnlyItsOwn, Moves
<1>12. QED BY <1>1, <1>7, <1>9, <1>10, <1>11, NothingTaken, StepKeeps

LEMMA InstallKeeps ==
    ASSUME LabInv, NEW p \in Procs, Install(p)
    PROVE  LabInv'
<1> DEFINE n == proc[p].name
<1>1. /\ proc[p].step = "install" /\ Moves(p, "confirm") /\ dom[n] = 0
      /\ dom' = [dom EXCEPT ![n] = IF dir[n].state = "marked" THEN dir[n].uuid ELSE NextUuid]
      /\ UNCHANGED <<dir, disk, stage, prepared, sources, commands, mishaps>>
  BY Going DEF Install, At, Steps, bounds, LabInv
<1>2. ProcessInv(p) /\ Holds(p, n) /\ n \in Names
  BY <1>1, AtWork
<1>3. dir[n].state = "marked" /\ dir[n].uuid \in 0..Foreign
  BY <1>1, <1>2 DEF ProcessInv, InstanceInv, LabInv, LabTypes, Directory
<1>4. dom' \in [Names -> 0..Foreign] /\ dom'[n] = dir[n].uuid /\ \A m \in Names : m # n => dom'[m] = dom[m]
  BY <1>1, <1>2, <1>3, OneDomain DEF LabInv
<1>5. LabTypes'
  BY <1>1, <1>4 DEF LabInv, LabTypes, Moves
<1>6. HostInv'
  BY <1>1, <1>2, <1>3, <1>4 DEF LabInv, HostInv, PortsDiffer, OwnDomainIsMarked, UuidInv,
       PublishedIsAudited
<1>7. ProcessInv(p)'
  <2>1. RouteInv(p)'
    BY <1>1, <1>2 DEF ProcessInv, RouteInv, Route, Boots, Cleans, Moves
  <2>2. InstanceInv(p)'
    BY <1>1, <1>2, <1>4 DEF ProcessInv, InstanceInv, Boots, Moves
  <2>3. StageInv(p)'
    BY <1>1, <1>2 DEF ProcessInv, StageInv, Built, Sanitized, Audited, Cloning, Cleans, Moves
  <2>4. QED BY <2>1, <2>2, <2>3 DEF ProcessInv
<1>8. OnlyItsOwn(p)
  BY <1>1, <1>2, <1>4 DEF OnlyItsOwn, Moves
<1>9. QED BY <1>1, <1>5, <1>6, <1>7, <1>8, NothingTaken, StepKeeps

LEMMA ConfirmKeeps ==
    ASSUME LabInv, NEW p \in Procs, Confirm(p)
    PROVE  LabInv'
<1> DEFINE n == proc[p].name
           d == [state |-> "marked", uuid |-> dom[n], port |-> proc[p].port, pending |-> FALSE]
           r == [proc[p] EXCEPT !.step = AfterBoot(p), !.booting = FALSE]
<1>1. /\ proc[p].step = "confirm" /\ dir' = [dir EXCEPT ![n] = d]
      /\ proc' = [proc EXCEPT ![p].step = AfterBoot(p), ![p].booting = FALSE]
      /\ UNCHANGED <<dom, disk, stage, prepared, sources, commands, mishaps>>
  BY DEF Confirm, At, bounds
<1>2. ProcessInv(p) /\ Holds(p, n) /\ n \in Names /\ HoldsPorts(p)
  BY <1>1, AtWork DEF ProcessInv, RouteInv, HoldsPorts, Boots
<1>3. dir[n].state = "marked" /\ dom[n] = dir[n].uuid
  BY <1>1, <1>2 DEF ProcessInv, InstanceInv
<1>0. \/ proc[p].cmd \in {"up", "suite"} /\ AfterBoot(p) = "deploy"
      \/ proc[p].cmd = "prepare" /\ n = Builder /\ AfterBoot(p) = "build"
      \/ proc[p].cmd = "prepare" /\ n = Probe /\ n # Builder /\ AfterBoot(p) = "audit"
  <2>1. \/ proc[p].cmd \in {"up", "suite"} /\ n \notin {Builder, Probe}
        \/ proc[p].cmd = "prepare" /\ n \in {Builder, Probe}
    BY <1>1, <1>2, AtWork DEF ProcessInv, RouteInv, Route, Boots, Cleans
  <2>2. QED BY <2>1 DEF AfterBoot
<1>4. d \in Directory /\ d.state = "marked" /\ d.uuid = dom[n] /\ d.port = proc[p].port
  BY <1>1, <1>2, AtWork DEF Directory, LabInv, LabTypes
<1>5. /\ r \in Process /\ r.cmd = proc[p].cmd /\ r.name = n /\ r.key = proc[p].key /\ r.step = AfterBoot(p)
      /\ r.booting = FALSE
  BY DEF Process, Steps, AfterBoot, LabInv, LabTypes
<1>6. proc' \in [Procs -> Process] /\ Same(p) /\ proc'[p] = r
  <2>1. proc' = [proc EXCEPT ![p] = r]
    BY <1>1 DEF LabInv, LabTypes
  <2>2. QED BY <1>5, <2>1 DEF Same, LabInv, LabTypes
<1>7. dir' \in [Names -> Directory] /\ dir'[n] = d /\ \A m \in Names : m # n => dir'[m] = dir[m]
  BY <1>1, <1>2, <1>4, OneDirectory DEF LabInv
<1>8. LabTypes'
  BY <1>1, <1>6, <1>7 DEF LabInv, LabTypes
<1>9. HostInv'
  <2>1. PortsDiffer'
    BY <1>1, <1>2, <1>4, <1>7 DEF LabInv, HostInv, PortsDiffer, ProcessInv, InstanceInv, Boots
  <2>2. OwnDomainIsMarked' /\ UuidInv' /\ PublishedIsAudited'
    BY <1>1, <1>2, <1>3, <1>4, <1>7 DEF LabInv, HostInv, OwnDomainIsMarked, UuidInv,
         PublishedIsAudited
  <2>3. QED BY <2>1, <2>2 DEF HostInv
<1>10. ProcessInv(p)'
  <2>1. RouteInv(p)'
    BY <1>0, <1>2, <1>5, <1>6 DEF ProcessInv, RouteInv, Route, Boots, Cleans
  <2>2. InstanceInv(p)'
    BY <1>0, <1>5, <1>6 DEF InstanceInv, Boots
  <2>3. StageInv(p)'
    BY <1>0, <1>1, <1>2, <1>5, <1>6 DEF ProcessInv, StageInv, Built, Sanitized, Audited, Cloning, Cleans
  <2>4. QED BY <2>1, <2>2, <2>3 DEF ProcessInv
<1>11. Takes(p)
  BY <1>0, <1>1, <1>5, <1>6 DEF Takes, Holds, HoldsPorts, HoldsCache, Busy
<1>12. OnlyItsOwn(p)
  BY <1>1, <1>2, <1>6, <1>7 DEF OnlyItsOwn
<1>13. QED BY <1>8, <1>9, <1>10, <1>11, <1>12, StepKeeps

(* The two truth values are there to be assigned.                          *)
LEMMA Booleans == TRUE \in BOOLEAN /\ FALSE \in BOOLEAN
OBVIOUS

(* A kill in the middle of a write.                                        *)
LEMMA TearKeeps ==
    ASSUME LabInv, NEW p \in Procs, TearMarker(p) \/ LeaveTemporary(p)
    PROVE  LabInv'
<1> DEFINE n == proc[p].name
<1>1. /\ proc[p].step \in {"mark", "confirm", "profile"} /\ Ends(p) /\ mishaps' \in 0..MaxMishaps
      /\ UNCHANGED <<dom, disk, stage, prepared, sources, commands>>
  BY Ending DEF TearMarker, LeaveTemporary, At, LabInv, LabTypes
<1>2. Holds(p, n) /\ n \in Names
  BY <1>1, AtWork
<1>3. PICK d \in Directory :
         /\ dir' = [dir EXCEPT ![n] = d]
         /\ \/ d.state = "torn" /\ d.uuid = 0
            \/ d.state = dir[n].state /\ d.uuid = dir[n].uuid /\ d.port = dir[n].port
  <2>1. CASE TearMarker(p)
    BY <2>1, Blank DEF TearMarker
  <2>2. CASE LeaveTemporary(p)
    <3> DEFINE d == [dir[n] EXCEPT !.pending = TRUE]
    <3>1. d \in Directory /\ d.state = dir[n].state /\ d.uuid = dir[n].uuid /\ d.port = dir[n].port
      BY <1>2, PendingSet, Booleans DEF LabInv, LabTypes
    <3>2. dir' = [dir EXCEPT ![n] = d]
      BY <2>2 DEF LeaveTemporary, LabInv, LabTypes
    <3>3. QED BY <3>1, <3>2
  <2>3. QED BY <2>1, <2>2
<1>4. dir' \in [Names -> Directory] /\ dir'[n] = d /\ \A m \in Names : m # n => dir'[m] = dir[m]
  BY <1>2, <1>3, OneDirectory DEF LabInv
<1>5. LabTypes'
  BY <1>1, <1>4 DEF LabInv, LabTypes, Ends
<1>6. HostInv'
  BY <1>1, <1>3, <1>4, Instances DEF LabInv, HostInv, PortsDiffer, OwnDomainIsMarked, UuidInv,
       PublishedIsAudited
<1>7. OnlyItsOwn(p)
  BY <1>1, <1>2, <1>3, <1>4 DEF OnlyItsOwn, Ends
<1>8. QED BY <1>1, <1>5, <1>6, <1>7, IdleHolds, StepKeeps

(* Only the guest that was meant is reached.                               *)
LEMMA DeployKeeps ==
    ASSUME LabInv, NEW p \in Procs, DeployApp(p)
    PROVE  LabInv'
<1>1. /\ proc[p].step = "deploy" /\ Moves(p, "profile")
      /\ disk' = [n \in Names |-> IF n \in Reached(p) THEN [kind |-> "app", src |-> sources] ELSE disk[n]]
      /\ UNCHANGED <<dir, dom, stage, prepared, sources, commands, mishaps>>
  BY Going DEF DeployApp, At, Steps, bounds, LabInv
<1>2. disk' \in [Names -> Disk]
  <2>1. [kind |-> "app", src |-> sources] \in Disk
    BY DEF Disk, Kinds, LabInv, LabTypes, Keys
  <2>2. QED BY <1>1, <2>1 DEF LabInv, LabTypes
<1>3. ProcessInv(p)
  BY DEF LabInv
<1>4. LabTypes' /\ HostInv'
  BY <1>1, <1>2 DEF Moves, LabInv, LabTypes, HostInv, PortsDiffer, OwnDomainIsMarked, UuidInv,
       PublishedIsAudited
<1>5. ProcessInv(p)'
  BY <1>1, <1>3 DEF ProcessInv, RouteInv, Route, InstanceInv, StageInv, Boots, Cleans, Moves, Built,
       Sanitized, Audited,
       Cloning
<1>6. OnlyItsOwn(p)
  BY <1>1 DEF OnlyItsOwn, Moves
<1>7. QED BY <1>1, <1>4, <1>5, <1>6, NothingTaken, StepKeeps

LEMMA UndefineKeeps ==
    ASSUME LabInv, NEW p \in Procs, Undefine(p)
    PROVE  LabInv'
<1> DEFINE n == proc[p].name
<1>1. /\ proc[p].step = "undefine" /\ Moves(p, "remove") /\ dom' = [dom EXCEPT ![n] = 0]
      /\ UNCHANGED <<dir, disk, stage, prepared, sources, commands, mishaps>>
  BY Going DEF Undefine, At, Steps, bounds, LabInv
<1>2. ProcessInv(p) /\ Holds(p, n) /\ n \in Names
  BY <1>1, AtWork
<1>3. dom' \in [Names -> 0..Foreign] /\ dom'[n] = 0 /\ \A m \in Names : m # n => dom'[m] = dom[m]
  <2>1. 0 \in 0..Foreign
    BY Instances
  <2>2. QED BY <1>1, <1>2, <2>1, OneDomain DEF LabInv
<1>4. LabTypes' /\ HostInv'
  BY <1>1, <1>3 DEF Moves, LabInv, LabTypes, HostInv, PortsDiffer, OwnDomainIsMarked, UuidInv,
       PublishedIsAudited
<1>5. ProcessInv(p)'
  BY <1>1, <1>2, <1>3 DEF ProcessInv, RouteInv, Route, InstanceInv, StageInv, Boots, Cleans, Moves, Built,
       Sanitized,
       Audited, Cloning
<1>6. OnlyItsOwn(p)
  BY <1>1, <1>2, <1>3 DEF OnlyItsOwn, Moves
<1>7. QED BY <1>1, <1>4, <1>5, <1>6, NothingTaken, StepKeeps

LEMMA RemoveKeeps ==
    ASSUME LabInv, NEW p \in Procs, Remove(p)
    PROVE  LabInv'
<1> DEFINE n == proc[p].name
           r == [proc[p] EXCEPT !.step = "publish", !.name = Builder]
<1>1. /\ proc[p].step = "remove" /\ dir' = [dir EXCEPT ![n] = Absent] /\ disk' = [disk EXCEPT ![n] = NoDisk]
      /\ proc' = [proc EXCEPT ![p] = AfterClean(p)]
      /\ UNCHANGED <<dom, stage, prepared, sources, commands, mishaps>>
  BY DEF Remove, At, bounds
<1>2. ProcessInv(p) /\ Holds(p, n) /\ n \in Names
  BY <1>1, AtWork
<1>3. Absent \in Directory /\ Absent.state = "none" /\ Absent.uuid = 0 /\ NoDisk \in Disk
  BY Instances DEF Absent, NoDisk, Directory, Disk, Kinds
<1>4. dir' \in [Names -> Directory] /\ dir'[n] = Absent /\ \A m \in Names : m # n => dir'[m] = dir[m]
  BY <1>1, <1>2, <1>3, OneDirectory DEF LabInv
<1>5. disk' \in [Names -> Disk]
  BY <1>1, <1>2, <1>3, OneDisk DEF LabInv
<1>6. proc' \in [Procs -> Process] /\ Same(p) /\ ProcessInv(p)' /\ Takes(p)
  <2>1. CASE proc[p].cmd = "prepare" /\ n = Probe
    <3>1. /\ r \in Process /\ r.cmd = "prepare" /\ r.name = Builder /\ r.key = proc[p].key /\ r.step = "publish"
          /\ r.booting = proc[p].booting
      BY <2>1 DEF Process, Steps, LabInv, LabTypes
    <3>2. proc' = [proc EXCEPT ![p] = r]
      BY <1>1, <2>1 DEF AfterClean
    <3>3. proc' \in [Procs -> Process] /\ Same(p) /\ proc'[p] = r
      BY <3>1, <3>2 DEF Same, LabInv, LabTypes
    <3>4. ProcessInv(p)'
      BY <1>1, <1>2, <2>1, <3>1, <3>3 DEF ProcessInv, RouteInv, Route, InstanceInv, StageInv, Boots,
           Cleans, Built,
           Sanitized, Audited, Cloning
    <3>5. Takes(p)
      BY <1>1, <2>1, <3>1, <3>3 DEF Takes, Holds, HoldsPorts, HoldsCache, Busy
    <3>6. QED BY <3>3, <3>4, <3>5
  <2>2. CASE ~(proc[p].cmd = "prepare" /\ n = Probe)
    BY <1>1, <2>2, Ending, IdleHolds DEF AfterClean, Ends, LabInv
  <2>3. QED BY <2>1, <2>2
<1>7. LabTypes'
  BY <1>1, <1>4, <1>5, <1>6 DEF LabInv, LabTypes
<1>8. dom[n] \in {0, Foreign}
  BY <1>1, <1>2 DEF ProcessInv, InstanceInv
<1>9. HostInv'
  BY <1>1, <1>3, <1>4, <1>8, Instances DEF LabInv, HostInv, PortsDiffer, OwnDomainIsMarked,
       UuidInv, PublishedIsAudited
<1>10. OnlyItsOwn(p)
  BY <1>1, <1>2, <1>3, <1>4, <1>6 DEF OnlyItsOwn
<1>11. QED BY <1>6, <1>7, <1>9, <1>10, StepKeeps

-----------------------------------------------------------------------------
(* The cache.  A step of prepare that writes its stage.                    *)
LEMMA OneStage ==
    ASSUME LabTypes, NEW k \in Keys, NEW i \in Stage, stage' = [stage EXCEPT ![k] = i]
    PROVE  /\ stage' \in [Keys -> Stage] /\ stage'[k] = i
           /\ \A m \in Keys : m # k => stage'[m] = stage[m]
BY DEF LabTypes

LEMMA LockCacheKeeps ==
    ASSUME LabInv, NEW p \in Procs, LockCache(p)
    PROVE  LabInv'
<1> DEFINE k == proc[p].key
           i == [stage[k] EXCEPT !.kind = "empty"]
<1>1. /\ proc[p].step = "lock" /\ proc[p].cmd = "prepare" /\ Moves(p, "stage")
      /\ \A q \in Procs : ~HoldsCache(q, k)
      /\ stage' = [stage EXCEPT ![k] = i]
      /\ UNCHANGED <<dir, dom, disk, prepared, sources, commands, mishaps>>
  BY Going DEF LockCache, At, Steps, bounds, LabInv, LabTypes
<1>2. ProcessInv(p) /\ k \in Keys /\ i \in Stage
  BY DEF LabInv, LabTypes, Process, Stage
<1>3. stage' \in [Keys -> Stage] /\ \A m \in Keys : m # k => stage'[m] = stage[m]
  BY <1>1, <1>2, OneStage DEF LabInv
<1>4. LabTypes' /\ HostInv'
  BY <1>1, <1>3 DEF Moves, LabInv, LabTypes, HostInv, PortsDiffer, OwnDomainIsMarked, UuidInv,
       PublishedIsAudited
<1>5. ProcessInv(p)'
  <2>1. proc[p].name = Builder
    BY <1>1, <1>2 DEF ProcessInv, RouteInv
  <2>2. QED
    BY <1>1, <1>2, <2>1 DEF ProcessInv, RouteInv, Route, InstanceInv, StageInv, Boots, Cleans, Moves,
         Built, Sanitized,
         Audited, Cloning
<1>6. Takes(p)
  BY <1>1 DEF Takes, Holds, HoldsPorts, HoldsCache, Moves
<1>7. Same(p) /\ sources' = sources /\ dir' = dir /\ dom' = dom
  BY <1>1 DEF Moves
<1>8. Locks'
  BY <1>6, <1>7, LocksKept DEF LabInv
<1>9. ASSUME NEW q \in Procs, q # p
      PROVE  ProcessInv(q)'
  <2>1. ProcessInv(q) /\ proc[q].key \in Keys /\ UuidInv
    BY DEF LabInv, LabTypes, Process, HostInv
  <2>2. HoldsCache(q, proc[q].key) => proc[q].key # k
    BY <1>1, <2>1
  <2>3. sources <= sources'
    BY <1>7 DEF LabInv, LabTypes, Keys
  <2>4. Spares(q)
    BY <1>3, <1>7, <1>9, <2>1, <2>2, <2>3 DEF Spares, Same
  <2>5. QED BY <1>4, <2>1, <2>4, Spared DEF LabInv
<1>10. QED BY <1>4, <1>5, <1>8, <1>9 DEF LabInv

(* The sources and the base of the builder's disk, and the audit.          *)
LEMMA StageStepKeeps ==
    ASSUME LabInv, NEW p \in Procs, NEW s \in Steps, NEW i \in Stage,
           proc[p].cmd = "prepare", proc[p].step \notin {"idle", "lock", "stage"}, Moves(p, s),
           stage' = [stage EXCEPT ![proc[p].key] = i],
           disk' \in [Names -> Disk], UNCHANGED <<dir, dom, prepared, sources, commands, mishaps>>,
           ProcessInv(p)'
    PROVE  LabInv'
<1>1. proc[p].key \in Keys /\ HoldsCache(p, proc[p].key)
  BY DEF LabInv, LabTypes, Process, HoldsCache
<1>2. stage' \in [Keys -> Stage] /\ \A m \in Keys : m # proc[p].key => stage'[m] = stage[m]
  BY <1>1, OneStage DEF LabInv
<1>3. LabTypes' /\ HostInv'
  BY <1>2 DEF Moves, LabInv, LabTypes, HostInv, PortsDiffer, OwnDomainIsMarked, UuidInv,
       PublishedIsAudited
<1>4. OnlyItsOwn(p)
  BY <1>1, <1>2 DEF OnlyItsOwn, Moves
<1>5. QED BY <1>3, <1>4, NothingTaken, StepKeeps

LEMMA BuildKeeps ==
    ASSUME LabInv, NEW p \in Procs, BuildImages(p)
    PROVE  LabInv'
<1> DEFINE k == proc[p].key
           i == [stage[k] EXCEPT !.src = sources]
<1>1. /\ proc[p].step = "build" /\ Moves(p, "sanitize") /\ stage' = [stage EXCEPT ![k] = i]
      /\ disk' = [disk EXCEPT ![Builder] = [kind |-> "built", src |-> sources]]
      /\ UNCHANGED <<dir, dom, prepared, sources, commands, mishaps>>
  BY Going DEF BuildImages, Exported, At, Steps, bounds, LabInv, LabTypes
<1>2. ProcessInv(p) /\ k \in Keys /\ sources \in Nat /\ k \in Nat
  BY DEF LabInv, LabTypes, Process, Keys
<1>3. proc[p].cmd = "prepare" /\ proc[p].name = Builder
  BY <1>1, <1>2, AtWork DEF ProcessInv, RouteInv, Route, Boots, Cleans
<1>4. i \in Stage /\ i.src = sources
  <2>1. sources \in 0..MaxSources /\ stage[k] \in Stage
    BY <1>2 DEF LabInv, LabTypes, Keys
  <2>2. QED BY <2>1 DEF Stage
<1>5. disk' \in [Names -> Disk]
  <2>1. [kind |-> "built", src |-> sources] \in Disk
    BY DEF Disk, Kinds, LabInv, LabTypes, Keys
  <2>2. QED BY <1>1, <2>1, OneDisk DEF LabInv
<1>6. ProcessInv(p)'
  <2>0. Builder # Probe
    OBVIOUS
  <2>1. stage'[k] = i
    BY <1>1, <1>2 DEF LabInv, LabTypes
  <2>2. k <= sources
    BY <1>2, <1>3 DEF ProcessInv, StageInv
  <2>3. RouteInv(p)' /\ InstanceInv(p)'
    BY <1>1, <1>2, <1>3 DEF ProcessInv, RouteInv, Route, InstanceInv, Boots, Cleans, Moves
  <2>4. /\ proc'[p].key = k /\ proc'[p].name = Builder /\ proc'[p].step = "sanitize" /\ sources' = sources
        /\ stage'[k].src = sources
    BY <1>1, <1>3, <1>4, <2>1 DEF Moves
  <2>5. StageInv(p)'
    BY <1>2, <2>2, <2>4, <2>0 DEF StageInv, Built, Sanitized, Audited, Cloning
  <2>6. QED BY <2>3, <2>5 DEF ProcessInv
<1>7. QED BY <1>1, <1>3, <1>4, <1>5, <1>6, StageStepKeeps DEF Steps

LEMMA SanitizeKeeps ==
    ASSUME LabInv, NEW p \in Procs, Sanitize(p)
    PROVE  LabInv'
<1> DEFINE k == proc[p].key
           i == [stage[k] EXCEPT !.kind = "clean"]
           d == [disk[Builder] EXCEPT !.kind = "clean"]
<1>1. /\ proc[p].step = "sanitize" /\ Moves(p, "probe") /\ stage' = [stage EXCEPT ![k] = i]
      /\ disk' = [disk EXCEPT ![Builder] = d]
      /\ UNCHANGED <<dir, dom, prepared, sources, commands, mishaps>>
  BY Going DEF Sanitize, At, Steps, bounds, LabInv, LabTypes
<1>2. ProcessInv(p) /\ k \in Keys
  BY DEF LabInv, LabTypes, Process
<1>3. proc[p].cmd = "prepare" /\ proc[p].name = Builder
  BY <1>1, <1>2, AtWork DEF ProcessInv, RouteInv, Route, Boots, Cleans
<1>4. i \in Stage /\ i.kind = "clean" /\ i.src = stage[k].src
  BY <1>2 DEF Stage, Kinds, LabInv, LabTypes
<1>5. disk' \in [Names -> Disk]
  <2>1. d \in Disk
    BY DEF Disk, Kinds, LabInv, LabTypes
  <2>2. QED BY <1>1, <2>1, OneDisk DEF LabInv
<1>6. ProcessInv(p)'
  <2>0. Builder # Probe
    OBVIOUS
  <2>1. stage'[k] = i
    BY <1>1, <1>2 DEF LabInv, LabTypes
  <2>2. k <= sources /\ k <= stage[k].src /\ stage[k].src <= sources
    BY <1>1, <1>2, <1>3 DEF ProcessInv, StageInv, Built
  <2>3. RouteInv(p)' /\ InstanceInv(p)'
    BY <1>1, <1>2, <1>3 DEF ProcessInv, RouteInv, Route, InstanceInv, Boots, Cleans, Moves
  <2>4. /\ proc'[p].key = k /\ proc'[p].name = Builder /\ proc'[p].step = "probe" /\ sources' = sources
        /\ stage'[k].kind = "clean" /\ stage'[k].src = stage[k].src
    BY <1>1, <1>3, <1>4, <2>1 DEF Moves
  <2>5. StageInv(p)'
    BY <1>2, <2>2, <2>4, <2>0 DEF StageInv, Built, Sanitized, Audited, Cloning
  <2>6. QED BY <2>3, <2>5 DEF ProcessInv
<1>7. QED BY <1>1, <1>3, <1>4, <1>5, <1>6, StageStepKeeps DEF Steps

LEMMA AuditKeeps ==
    ASSUME LabInv, NEW p \in Procs, Audit(p)
    PROVE  LabInv'
<1> DEFINE k == proc[p].key
           i == [stage[k] EXCEPT !.audited = TRUE]
<1>1. /\ proc[p].step = "audit" /\ Moves(p, "clean") /\ stage' = [stage EXCEPT ![k] = i]
      /\ UNCHANGED <<dir, dom, disk, prepared, sources, commands, mishaps>>
  BY Going DEF Audit, At, Steps, bounds, LabInv, LabTypes
<1>2. ProcessInv(p) /\ k \in Keys
  BY DEF LabInv, LabTypes, Process
<1>3. proc[p].cmd = "prepare" /\ proc[p].name = Probe
  BY <1>1, <1>2, AtWork DEF ProcessInv, RouteInv, Route, Boots, Cleans
<1>4. i \in Stage /\ i.kind = stage[k].kind /\ i.src = stage[k].src /\ i.audited
  <2>1. \A b \in BOOLEAN, x \in Stage :
           /\ [x EXCEPT !.audited = b] \in Stage /\ [x EXCEPT !.audited = b].kind = x.kind
           /\ [x EXCEPT !.audited = b].src = x.src /\ [x EXCEPT !.audited = b].audited = b
    BY DEF Stage
  <2>2. stage[k] \in Stage
    BY <1>2 DEF LabInv, LabTypes
  <2>3. QED BY <2>1, <2>2, Booleans
<1>5. ProcessInv(p)'
  <2>1. stage'[k] = i
    BY <1>1, <1>2 DEF LabInv, LabTypes
  <2>2. /\ k <= sources /\ k <= stage[k].src /\ stage[k].src <= sources
        /\ stage[k].kind = "clean"
    BY <1>1, <1>2, <1>3 DEF ProcessInv, StageInv, Built, Sanitized
  <2>3. RouteInv(p)' /\ InstanceInv(p)'
    BY <1>1, <1>2, <1>3 DEF ProcessInv, RouteInv, Route, InstanceInv, Boots, Cleans, Moves
  <2>4. /\ proc'[p].key = k /\ sources' = sources
        /\ stage'[k].src = stage[k].src /\ stage'[k].kind = "clean" /\ stage'[k].audited
    BY <1>1, <1>4, <2>1, <2>2 DEF Moves
  <2>5. StageInv(p)'
    BY <1>2, <2>2, <2>4 DEF StageInv
  <2>6. QED BY <2>3, <2>5 DEF ProcessInv
<1>6. disk' \in [Names -> Disk]
  BY <1>1 DEF LabInv, LabTypes
<1>7. QED BY <1>1, <1>3, <1>4, <1>5, <1>6, StageStepKeeps DEF Steps

(* What is published was built of the sources that are there now, which    *)
(* are those of the key.                                                   *)
LEMMA PublishKeeps ==
    ASSUME LabInv, NEW p \in Procs, Publish(p)
    PROVE  LabInv'
<1> DEFINE k == proc[p].key
<1>1. /\ proc[p].step = "publish" /\ Moves(p, "clean") /\ sources = k
      /\ prepared' = [prepared EXCEPT ![k] = stage[k]] /\ stage' = [stage EXCEPT ![k] = NoImage]
      /\ UNCHANGED <<dir, dom, disk, sources, commands, mishaps>>
  BY Going DEF Publish, At, Steps, bounds, LabInv
<1>2. ProcessInv(p) /\ k \in Keys /\ stage[k] \in Stage
  BY DEF LabInv, LabTypes, Process
<1>3. proc[p].cmd = "prepare" /\ proc[p].name = Builder /\ HoldsCache(p, k)
  BY <1>1, <1>2, AtWork DEF ProcessInv, RouteInv, Route, Boots, Cleans, HoldsCache
<1>4. stage[k].kind = "clean" /\ stage[k].audited /\ stage[k].src = k
  <2>1. k \in Nat /\ stage[k].src \in Nat
    BY <1>2 DEF Keys, Stage
  <2>2. /\ stage[k].kind = "clean" /\ stage[k].audited
        /\ k <= stage[k].src /\ stage[k].src <= sources
    BY <1>1, <1>2, <1>3 DEF ProcessInv, StageInv, Built, Sanitized, Audited
  <2>3. QED BY <1>1, <2>1, <2>2
<1>5. NoImage \in Stage
  BY DEF NoImage, Stage, Kinds
<1>6. stage' \in [Keys -> Stage] /\ \A m \in Keys : m # k => stage'[m] = stage[m]
  BY <1>1, <1>2, <1>5, OneStage DEF LabInv
<1>7. /\ prepared' \in [Keys -> Cache] /\ prepared'[k] = stage[k]
      /\ \A m \in Keys : m # k => prepared'[m] = prepared[m]
  <2>1. stage[k] \in Cache
    BY <1>2, <1>4 DEF Stage, Cache, Kinds
  <2>2. QED BY <1>1, <1>2, <2>1 DEF LabInv, LabTypes
<1>8. LabTypes'
  BY <1>1, <1>6, <1>7 DEF Moves, LabInv, LabTypes
<1>9. HostInv'
  BY <1>1, <1>4, <1>7 DEF LabInv, HostInv, PortsDiffer, OwnDomainIsMarked, UuidInv,
       PublishedIsAudited
<1>10. ProcessInv(p)'
  BY <1>1, <1>2, <1>3 DEF ProcessInv, RouteInv, Route, InstanceInv, StageInv, Boots, Cleans, Moves, Built,
       Sanitized,
       Audited, Cloning
<1>11. OnlyItsOwn(p)
  BY <1>1, <1>3, <1>6 DEF OnlyItsOwn, Moves
<1>12. QED BY <1>1, <1>8, <1>9, <1>10, <1>11, NothingTaken, StepKeeps

-----------------------------------------------------------------------------
(* Around the lab: no process works.                                       *)
LEMMA AroundKeeps ==
    ASSUME LabInv, proc' = proc, LabTypes', HostInv', \A q \in Procs : Spares(q)
    PROVE  LabInv'
<1>1. Locks'
  <2>1. ASSUME NEW q \in Procs, NEW r \in Procs, q # r
        PROVE  Apart(q, r)'
    <3>1. Apart(q, r)
      BY <2>1 DEF LabInv, Locks
    <3>2. QED BY <3>1 DEF Apart, Holds, HoldsPorts, HoldsCache, Busy
  <2>2. QED BY <2>1 DEF Locks
<1>2. QED BY <1>1, Spared DEF LabInv, HostInv

LEMMA EditKeeps ==
    ASSUME LabInv, Edit
    PROVE  LabInv'
<1>1. /\ sources' \in Keys /\ sources <= sources'
      /\ UNCHANGED <<dir, dom, disk, stage, prepared, proc, commands, mishaps>>
  BY DEF Edit, host, LabInv, LabTypes, Keys
<1>2. LabTypes' /\ HostInv'
  BY <1>1 DEF LabInv, LabTypes, HostInv, PortsDiffer, OwnDomainIsMarked, UuidInv,
       PublishedIsAudited
<1>3. \A q \in Procs : Spares(q)
  BY <1>1 DEF Spares
<1>4. QED BY <1>1, <1>2, <1>3, AroundKeeps

LEMMA DiscardStageKeeps ==
    ASSUME LabInv, NEW k \in Keys, DiscardStage(k)
    PROVE  LabInv'
<1>1. /\ \A p \in Procs : ~HoldsCache(p, k)
      /\ stage' = [stage EXCEPT ![k] = NoImage]
      /\ UNCHANGED <<dir, dom, disk, prepared, proc, sources, commands, mishaps>>
  BY DEF DiscardStage, bounds
<1>2. NoImage \in Stage
  BY DEF NoImage, Stage, Kinds
<1>3. stage' \in [Keys -> Stage] /\ \A m \in Keys : m # k => stage'[m] = stage[m]
  BY <1>1, <1>2, OneStage DEF LabInv
<1>4. LabTypes' /\ HostInv'
  BY <1>1, <1>3 DEF LabInv, LabTypes, HostInv, PortsDiffer, OwnDomainIsMarked, UuidInv,
       PublishedIsAudited
<1>5. ASSUME NEW q \in Procs PROVE Spares(q)
  <2>1. proc[q].key \in Keys /\ sources <= sources'
    BY <1>1 DEF LabInv, LabTypes, Process, Keys
  <2>2. QED BY <1>1, <1>3, <2>1 DEF Spares
<1>6. QED BY <1>1, <1>4, <1>5, AroundKeeps

LEMMA DefineForeignKeeps ==
    ASSUME LabInv, NEW n \in Names, DefineForeign(n)
    PROVE  LabInv'
<1>1. /\ dom[n] = 0 /\ dom' = [dom EXCEPT ![n] = Foreign] /\ mishaps' \in 0..MaxMishaps
      /\ UNCHANGED <<dir, disk, stage, prepared, proc, sources, commands>>
  BY DEF DefineForeign, LabInv, LabTypes
<1>2. dom' \in [Names -> 0..Foreign] /\ dom'[n] = Foreign /\ \A m \in Names : m # n => dom'[m] = dom[m]
  <2>1. Foreign \in 0..Foreign
    BY Instances
  <2>2. QED BY <1>1, <2>1, OneDomain DEF LabInv
<1>3. LabTypes' /\ HostInv'
  BY <1>1, <1>2 DEF LabInv, LabTypes, HostInv, PortsDiffer, OwnDomainIsMarked, UuidInv,
       PublishedIsAudited
<1>4. ASSUME NEW q \in Procs PROVE Spares(q)
  <2>1. proc[q].name \in Names /\ sources <= sources'
    BY <1>1 DEF LabInv, LabTypes, Process, Keys
  <2>2. QED BY <1>1, <1>2, <2>1 DEF Spares
<1>5. QED BY <1>1, <1>3, <1>4, AroundKeeps

-----------------------------------------------------------------------------
(* The first state, and every step.                                        *)
LEMMA LabInitKeeps == LabInit => LabInv
<1>1. SUFFICES ASSUME LabInit PROVE LabInv
  OBVIOUS
<1>2. \A m, n \in Running : m = n
  <2>1. IsFiniteSet(Running) /\ Cardinality(Running) <= 1 /\ Cardinality(Running) \in Nat
    BY FS_Subset, FS_CardinalityType, <1>1
  <2>2. Cardinality(Running) = 0 \/ Cardinality(Running) = 1
    BY <2>1
  <2>3. Running = {} \/ \E x : Running = {x}
    BY <2>1, <2>2, FS_EmptySet, FS_Singleton
  <2>4. QED BY <2>3
<1> DEFINE up == [Absent EXCEPT !.state = "marked", !.uuid = 1, !.port = 1]
<1>3. /\ Absent \in Directory /\ Absent.state = "none" /\ Absent.uuid = 0
      /\ up \in Directory /\ up.state = "marked" /\ up.uuid = 1 /\ up.port = 1
  <2>1. Absent \in Directory /\ Absent.state = "none" /\ Absent.uuid = 0
    BY <1>1, Instances DEF Absent, Directory
  <2>2. 1 \in 0..Foreign /\ 1 \in Ports
    BY <1>1, Instances
  <2>3. QED BY <2>1, <2>2 DEF Directory
<1>4. /\ dir \in [Names -> Directory] /\ dom \in [Names -> 0..Foreign]
      /\ \A n \in Names : \/ n \in Running /\ dir[n] = up /\ dom[n] = 1
                          \/ n \notin Running /\ dir[n] = Absent /\ dom[n] = 0
  <2>1. 0 \in 0..Foreign /\ 1 \in 0..Foreign
    BY <1>1, Instances
  <2>2. QED BY <1>1, <1>3, <2>1 DEF LabInit
<1>5. disk \in [Names -> Disk]
  <2>1. [kind |-> "app", src |-> 1] \in Disk /\ NoDisk \in Disk
    BY <1>1 DEF Disk, Kinds, NoDisk
  <2>2. QED BY <1>1, <2>1 DEF LabInit
<1>6. NoImage \in Stage /\ NoImage \in Cache /\ NoImage.kind = "none"
  BY <1>1 DEF NoImage, Stage, Cache, Kinds
<1>7. Idle \in Process
  BY <1>1 DEF Idle, Process, Steps, Keys
<1>8. LabTypes
  BY <1>1, <1>4, <1>5, <1>6, <1>7 DEF LabInit, LabTypes, Keys
<1>9. HostInv
  <2> HIDE DEF up
  <2>1. PortsDiffer
    BY <1>2, <1>3, <1>4 DEF PortsDiffer
  <2>2. OwnDomainIsMarked
    BY <1>3, <1>4 DEF OwnDomainIsMarked
  <2>3. UuidInv
    <3>1. Foreign # 0 /\ Foreign # 1
      BY <1>1, Instances
    <3>2. QED BY <1>3, <1>4, <3>1 DEF UuidInv
  <2>4. PublishedIsAudited
    BY <1>1, <1>6 DEF LabInit, PublishedIsAudited
  <2>5. QED BY <2>1, <2>2, <2>3, <2>4 DEF HostInv
<1>10. ASSUME NEW p \in Procs
       PROVE  /\ ProcessInv(p) /\ ~HoldsPorts(p) /\ \A n \in Names : ~Holds(p, n)
              /\ \A k \in Keys : ~HoldsCache(p, k)
  <2>1. proc[p].cmd = "none" /\ proc[p].step = "idle" /\ proc[p].booting = FALSE
    BY <1>1 DEF LabInit, Idle
  <2>2. QED
    BY <2>1 DEF ProcessInv, RouteInv, Route, InstanceInv, StageInv, Boots, Holds, HoldsPorts,
         HoldsCache, Busy
<1>11. QED BY <1>8, <1>9, <1>10 DEF LabInv, Locks, Apart

LEMMA LabStepKeeps == LabInv /\ [LabNext]_labVars => LabInv'
<1>1. SUFFICES ASSUME LabInv, [LabNext]_labVars PROVE LabInv'
  OBVIOUS
<1>2. ASSUME NEW p \in Procs, NEW cmd \in {"up", "suite", "deploy", "clean", "prepare"}, NEW n \in Names,
             Begin(p, cmd, n)
      PROVE  LabInv'
  BY <1>1, <1>2, CommandBegins
<1>3. ASSUME NEW p \in Procs, Stop(p) \/ LockInstance(p) \/ ReadCache(p) \/ Stock(p)
      PROVE  LabInv'
  BY <1>1, <1>3, StopKeeps, LockInstanceKeeps, ReadCacheKeeps
<1>4. ASSUME NEW p \in Procs, Booting(p)
      PROVE  LabInv'
  BY <1>1, <1>4, BootKeeps, MarkKeeps, InstallKeeps, ConfirmKeeps, TearKeeps DEF Booting
<1>5. ASSUME NEW p \in Procs, DeployingApp(p) \/ Cleaning(p)
      PROVE  LabInv'
  BY <1>1, <1>5, DeployKeeps, WriteProfileKeeps, TearKeeps, CleanKeeps, UndefineKeeps, RemoveKeeps
     DEF DeployingApp, Cleaning
<1>6. ASSUME NEW p \in Procs, Preparing(p)
      PROVE  LabInv'
  BY <1>1, <1>6, LockCacheKeeps, LockBuilderKeeps, BuildKeeps, SanitizeKeeps, LockProbeKeeps, AuditKeeps,
       PublishKeeps
     DEF Preparing
<1>7. CASE Edit \/ (\E k \in Keys : DiscardStage(k)) \/ (\E n \in Names : DefineForeign(n))
  BY <1>1, <1>7, EditKeeps, DiscardStageKeeps, DefineForeignKeeps
<1>8. CASE UNCHANGED labVars
  <2>1. /\ dir' = dir /\ dom' = dom /\ disk' = disk /\ stage' = stage /\ prepared' = prepared /\ proc' = proc
        /\ sources' = sources /\ commands' = commands /\ mishaps' = mishaps
    BY <1>8 DEF labVars
  <2>2. LabTypes' /\ HostInv'
    BY <1>1, <2>1 DEF LabInv, LabTypes, HostInv, PortsDiffer, OwnDomainIsMarked, UuidInv,
         PublishedIsAudited
  <2>3. sources <= sources'
    BY <1>1, <2>1 DEF LabInv, LabTypes, Keys
  <2>4. \A q \in Procs : Spares(q)
    BY <2>1, <2>3 DEF Spares
  <2>5. QED BY <1>1, <2>1, <2>2, <2>4, AroundKeeps
<1>9. QED BY <1>1, <1>2, <1>3, <1>4, <1>5, <1>6, <1>7, <1>8 DEF LabNext

(* A step keeps foreign domains, and changes only the disk of an instance  *)
(* whose lock its process holds.                                           *)
LEMMA LabStep ==
    ASSUME LabInv, LabNext
    PROVE  /\ \A n \in Names : dom[n] = Foreign => dom'[n] = Foreign
           /\ \A n \in Names : disk'[n] # disk[n] => \E p \in Procs : Holds(p, n)
<1>1. ASSUME NEW n \in Names, dom[n] = Foreign PROVE dom'[n] = Foreign
  <2>1. dom' # dom => \/ \E p \in Procs : Install(p) \/ Undefine(p)
                      \/ \E m \in Names : DefineForeign(m)
    BY DEF LabNext, Begin, Stop, LockInstance, ReadCache, Stock, Booting,
         DeployingApp, Cleaning, Preparing, Boot, Mark, Confirm,
         TearMarker, DeployApp, WriteProfile, LeaveTemporary, Clean, Remove,
         LockCache, LockBuilder, BuildImages, Sanitize, LockProbe, Audit,
         Publish, Edit, DiscardStage, host
  <2>2. ASSUME NEW p \in Procs, Install(p) \/ Undefine(p)
        PROVE  dom'[n] = dom[n]
    <3>1. proc[p].name # n
      <4>1. InstanceInv(p) /\ Foreign # 0
        BY Instances DEF LabInv, ProcessInv
      <4>2. QED BY <1>1, <2>2, <4>1 DEF Install, Undefine, At, InstanceInv
    <3>2. QED BY <2>2, <3>1 DEF Install, Undefine, LabInv, LabTypes
  <2>3. ASSUME NEW m \in Names, DefineForeign(m)
        PROVE  dom'[n] = dom[n]
    BY <1>1, <2>3, Instances DEF DefineForeign, LabInv, LabTypes
  <2>4. QED BY <1>1, <2>1, <2>2, <2>3
<1>2. ASSUME NEW n \in Names, disk'[n] # disk[n] PROVE \E p \in Procs : Holds(p, n)
  <2>1. \E p \in Procs : Mark(p) \/ DeployApp(p) \/ Remove(p) \/ BuildImages(p) \/ Sanitize(p)
    BY <1>2 DEF LabNext, Begin, Stop, LockInstance, ReadCache, Stock,
         Booting, DeployingApp, Cleaning, Preparing, Boot, Install,
         Confirm, TearMarker, WriteProfile, LeaveTemporary, Clean,
         Undefine, LockCache, LockBuilder, LockProbe, Audit, Publish,
         Edit, DiscardStage, DefineForeign, host
  <2>2. PICK p \in Procs : Mark(p) \/ DeployApp(p) \/ Remove(p) \/ BuildImages(p) \/ Sanitize(p)
    BY <2>1
  <2>3. proc[p].step \in {"mark", "deploy", "remove", "build", "sanitize"}
    BY <2>2 DEF Mark, DeployApp, Remove, BuildImages, Sanitize, At
  <2>4. ProcessInv(p) /\ Holds(p, proc[p].name)
    BY <2>3, AtWork
  <2>5. BuildImages(p) \/ Sanitize(p) => proc[p].name = Builder
    BY <2>4, AtWork DEF BuildImages, Sanitize, At, ProcessInv, RouteInv, Route, Boots, Cleans
  <2>6. n = proc[p].name
    BY <1>2, <2>2, <2>5 DEF Mark, DeployApp, Remove, BuildImages, Sanitize, Reached,
         LabInv, LabTypes
  <2>7. QED BY <2>4, <2>6
<1>3. QED BY <1>1, <1>2

(* The two action properties, as actions.                                  *)
KeepsForeign == \A n \in Names : dom[n] = Foreign => dom'[n] = Foreign
HolderChanges == \A n \in Names : disk'[n] # disk[n] => \E p \in Procs : Holds(p, n)

(* The inductive invariant holds always.                                   *)
LEMMA LabInvariant == LabSpec => []LabInv
BY LabInitKeeps, LabStepKeeps, PTL DEF LabSpec

(* Whatever is killed or edited, instances have different ports, locks one *)
(* holder and domains a marker that names them (lab.py boot and confirm).  *)
THEOREM LabSafe == LabSpec => []InstancesInv
<1>1. LabInv => InstancesInv
  <2> SUFFICES ASSUME LabInv PROVE InstancesInv
    OBVIOUS
  <2>1. LabTypeOK
    BY DEF LabInv, LabTypes, Locks, Apart, LabTypeOK, Process, Directory, Disk, Stage, Cache
  <2>2. QED BY <2>1 DEF LabInv, HostInv, InstancesInv
<1>2. QED BY <1>1, LabInvariant, PTL

(* A cache that up boots from was built of the sources its key names,      *)
(* sanitized, and audited as a clone (lab_runtime.py prepare).             *)
THEOREM LabAudited == LabSpec => []PublishedIsAudited
<1>1. LabInv => PublishedIsAudited
  BY DEF LabInv, HostInv
<1>2. QED BY <1>1, LabInvariant, PTL

(* No command touches a foreign domain, and none a guest whose instance    *)
(* lock it does not hold (lab.py clean and deploy).                        *)
THEOREM LabOwn == LabSpec => OnlyOwnIsChanged
<1>1. LabInv /\ [LabNext]_labVars => [KeepsForeign]_labVars /\ [HolderChanges]_labVars
  BY LabStep DEF KeepsForeign, HolderChanges
<1>2. LabSpec => [][KeepsForeign]_labVars /\ [][HolderChanges]_labVars
  BY <1>1, LabInvariant, PTL DEF LabSpec
<1>3. QED BY <1>2 DEF OnlyOwnIsChanged, ForeignDomainKept, OnlyHolderChangesGuest,
     KeepsForeign, HolderChanges
=============================================================================
