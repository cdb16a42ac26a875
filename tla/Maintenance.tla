---------------------------- MODULE Maintenance ----------------------------
(***************************************************************************)
(* The maintenance service with its events                                 *)
(* (scripts/hermes/unattended/maintenance.py), the unit that systemd       *)
(* starts when the maintenance service or the signing service fails, and   *)
(* the desktop notifier (notify.py).                                       *)
(*                                                                         *)
(* The three write or read one file, latest.json.  The lock beside it is   *)
(* never waited for.  Every process may be killed between two of its       *)
(* steps.  What the controller does is the subject of other modules: here  *)
(* an upgrade ends closed, incomplete, or with one of its exit codes.      *)
(* EventInit, EventNext and EventSpec are named after the events, so that  *)
(* a module can extend this one beside another.                            *)
(***************************************************************************)
EXTENDS Naturals

CONSTANTS
    Releases,       \* releases that selected.tar may hold
    None,
    MaxStarts,      \* starts of the maintenance service
    MaxMishaps      \* kills, failed deliveries and failures of the signer, together

ASSUME MaintenanceAssumption ==
    /\ None \notin Releases
    /\ MaxStarts \in Nat /\ MaxMishaps \in Nat

VARIABLES
    open,       \* the maintenance window is open
    selected,   \* the release of selected.tar
    main,       \* hermes-maintenance.service
    unit,       \* hermes-maintenance-failed.service
    eventLock,  \* .event.lock
    event,      \* latest.json, and whether it is at most two minutes old
    note,       \* the notifier and its seen file
    closed,     \* history: the releases whose upgrade has closed
    last,       \* history: how the last maintenance run ended
    shown,      \* history: the latest event has been shown
    starts,
    mishaps

world == <<open, selected>>
delivery == <<note, shown>>
eventVars == <<world, main, unit, eventLock, event, delivery, closed, last, starts, mishaps>>

-----------------------------------------------------------------------------
Codes == {0, 64, 66, 69, 75, 77, 78}
Failing == {"failed", "action-required"}
Outcome(outcome, code, release) == [outcome |-> outcome, code |-> code, release |-> release]
Event == [outcome: {"completed"} \cup Failing, code: Codes, release: Releases \cup {None}]
NoEvent == Outcome("none", 0, None)
NoMain == [step |-> "idle", says |-> NoEvent]

EventTypeOK ==
    /\ open \in BOOLEAN /\ selected \in Releases \cup {None}
    /\ main \in [step: {"idle", "upgrade", "lock", "write"}, says: Event \cup {NoEvent}]
    /\ unit \in {"idle", "owed", "lock", "write"}
    /\ eventLock \in {"none", "main", "unit"}
    /\ event \in [now: Event \cup {NoEvent}, fresh: BOOLEAN]
    /\ note \in [step: {"idle", "send", "mark"}, latest: BOOLEAN, seen: BOOLEAN]
    /\ closed \subseteq Releases /\ last \in {"none", "ok", "failed"} /\ shown \in BOOLEAN
    /\ starts \in 0..MaxStarts /\ mishaps \in 0..MaxMishaps
    /\ eventLock = "main" <=> main.step = "write"
    /\ eventLock = "unit" <=> unit = "write"

EventInit ==
    /\ open \in BOOLEAN /\ selected = None
    /\ main = NoMain /\ unit = "idle" /\ eventLock = "none"
    /\ event = [now |-> NoEvent, fresh |-> FALSE]
    /\ note = [step |-> "idle", latest |-> FALSE, seen |-> FALSE]
    /\ closed = {} /\ last = "none" /\ shown = FALSE
    /\ starts = 0 /\ mishaps = 0

Mishap == mishaps < MaxMishaps /\ mishaps' = mishaps + 1

-----------------------------------------------------------------------------
(* The world: the window opens and closes, the signer publishes or fails   *)
(* (OnFailure= starts the unit, unless it is under way), minutes pass.     *)
Started(u) == IF u = "idle" THEN "owed" ELSE u

Window ==
    /\ main.step = "idle" /\ open' = ~open
    /\ UNCHANGED <<selected, main, unit, eventLock, event, delivery, closed, last, starts, mishaps>>

Publishes(r) ==
    /\ selected # r /\ selected' = r
    /\ UNCHANGED <<open, main, unit, eventLock, event, delivery, closed, last, starts, mishaps>>

SignerFails ==
    /\ Mishap /\ unit' = Started(unit)
    /\ UNCHANGED <<world, main, eventLock, event, delivery, closed, last, starts>>

Age ==
    /\ event.fresh /\ event' = [event EXCEPT !.fresh = FALSE]
    /\ UNCHANGED <<world, main, unit, eventLock, delivery, closed, last, starts, mishaps>>

-----------------------------------------------------------------------------
(* execute.  Outside the window nothing happens at all.                    *)
Says(outcome, code, release) == main' = [step |-> "lock", says |-> Outcome(outcome, code, release)]

MainStart ==
    /\ main.step = "idle" /\ open /\ starts < MaxStarts /\ starts' = starts + 1
    /\ IF selected = None THEN Says("action-required", 66, None)
       ELSE main' = [step |-> "upgrade", says |-> NoEvent]
    /\ UNCHANGED <<world, unit, eventLock, event, delivery, closed, last, mishaps>>

(* controller.main returns: closed (the release is the one selected.tar    *)
(* held when it was opened), not closed, a failure with its exit code, or  *)
(* an error of another kind.                                               *)
Closed(r) ==
    /\ main.step = "upgrade" /\ selected = r
    /\ closed' = closed \cup {r} /\ Says("completed", 0, r)
    /\ UNCHANGED <<world, unit, eventLock, event, delivery, last, starts, mishaps>>

OutcomeOf(code) == IF code \in {66, 75, 77, 78} THEN "action-required" ELSE "failed"

Failed(code) ==
    /\ main.step = "upgrade" /\ Says(OutcomeOf(code), code, None)
    /\ UNCHANGED <<world, unit, eventLock, event, delivery, closed, last, starts, mishaps>>

Errs ==
    /\ main.step = "upgrade" /\ Says("failed", 78, None)
    /\ UNCHANGED <<world, unit, eventLock, event, delivery, closed, last, starts, mishaps>>

(* A run that fails has the unit started.                                  *)
MainEnds(ok) ==
    /\ main' = NoMain
    /\ last' = IF ok THEN "ok" ELSE "failed"
    /\ unit' = IF ok THEN unit ELSE Started(unit)

MainKilled ==
    /\ main.step # "idle" /\ Mishap
    /\ MainEnds(FALSE)
    /\ eventLock' = IF eventLock = "main" THEN "none" ELSE eventLock
    /\ UNCHANGED <<world, event, delivery, closed, starts>>

-----------------------------------------------------------------------------
(* publish: an unchanged outcome is not written again; a new event has an  *)
(* identifier of its own, so it is neither seen nor shown.                 *)
publish(says) ==
    IF event.now = says THEN UNCHANGED <<event, delivery>>
    ELSE /\ event' = [now |-> says, fresh |-> TRUE]
         /\ note' = [note EXCEPT !.latest = FALSE, !.seen = FALSE]
         /\ shown' = FALSE

MainLocks ==
    /\ main.step = "lock"
    /\ IF eventLock = "none"
       THEN eventLock' = "main" /\ main' = [main EXCEPT !.step = "write"] /\ UNCHANGED <<unit, last>>
       ELSE UNCHANGED eventLock /\ MainEnds(FALSE)
    /\ UNCHANGED <<world, event, delivery, closed, starts, mishaps>>

MainWrites ==
    /\ main.step = "write"
    /\ publish(main.says) /\ eventLock' = "none"
    /\ MainEnds(main.says.outcome = "completed")
    /\ UNCHANGED <<world, closed, starts, mishaps>>

MutantAnyRecent ==
    /\ unit = "owed"
    /\ unit' = IF event.fresh THEN "idle" ELSE "lock"
    /\ UNCHANGED <<world, main, eventLock, event, delivery, closed, last, starts, mishaps>>

(* main with --service-failed: nothing to add to a recent failure.         *)
UnitDecides ==
    /\ unit = "owed"
    /\ unit' = IF event.now.outcome \in Failing /\ event.fresh THEN "idle" ELSE "lock"
    /\ UNCHANGED <<world, main, eventLock, event, delivery, closed, last, starts, mishaps>>

UnitLocks ==
    /\ unit = "lock"
    /\ IF eventLock = "none" THEN eventLock' = "unit" /\ unit' = "write"
       ELSE UNCHANGED eventLock /\ unit' = "idle"
    /\ UNCHANGED <<world, main, event, delivery, closed, last, starts, mishaps>>

UnitWrites ==
    /\ unit = "write"
    /\ publish(Outcome("action-required", 69, None))
    /\ eventLock' = "none" /\ unit' = "idle"
    /\ UNCHANGED <<world, main, closed, last, starts, mishaps>>

-----------------------------------------------------------------------------
(* notify.py, started by a timer: shown first, then remembered.            *)
others == <<world, main, unit, eventLock, event, closed, last, starts>>

MutantMarksFirst ==
    /\ note.step = "idle" /\ event.now # NoEvent /\ ~note.seen
    /\ note' = [step |-> "send", latest |-> TRUE, seen |-> TRUE]
    /\ UNCHANGED <<others, shown, mishaps>>

NotifyReads ==
    /\ note.step = "idle" /\ event.now # NoEvent /\ ~note.seen
    /\ note' = [note EXCEPT !.step = "send", !.latest = TRUE]
    /\ UNCHANGED <<others, shown, mishaps>>

NotifySends ==
    /\ note.step = "send"
    /\ shown' = (shown \/ note.latest) /\ note' = [note EXCEPT !.step = "mark"]
    /\ UNCHANGED <<others, mishaps>>

NotifyMarks ==
    /\ note.step = "mark"
    /\ note' = [step |-> "idle", latest |-> FALSE, seen |-> note.latest]
    /\ UNCHANGED <<others, shown, mishaps>>

(* notify-send fails, or the notifier is killed.                           *)
NotifyFails ==
    /\ note.step # "idle" /\ Mishap
    /\ note' = [note EXCEPT !.step = "idle", !.latest = FALSE]
    /\ UNCHANGED <<others, shown>>

-----------------------------------------------------------------------------
World == Window \/ (\E r \in Releases : Publishes(r)) \/ SignerFails \/ Age
Run == MainStart \/ (\E r \in Releases : Closed(r)) \/ (\E c \in Codes \ {0} : Failed(c)) \/ Errs
       \/ MainKilled \/ MainLocks \/ MainWrites
Unit == UnitDecides \/ UnitLocks \/ UnitWrites
Notifier == NotifyReads \/ NotifySends \/ NotifyMarks

EventNext == World \/ Run \/ Unit \/ Notifier \/ NotifyFails

EventSpec == EventInit /\ [][EventNext]_eventVars

(* systemd runs a started unit; the notifier's timer fires every minute of *)
(* a session.                                                              *)
EventFairSpec == EventSpec /\ WF_eventVars(Unit) /\ WF_eventVars(Notifier)

-----------------------------------------------------------------------------
(* An event that says completed is about a release whose upgrade closed.   *)
CompletedIsTrue == event.now.outcome = "completed" => event.now.release \in closed

(* Once the two units are quiet, the latest event is a failure when the    *)
(* last maintenance run failed, was killed, or could not publish although  *)
(* it had closed (execute, main --service-failed).                         *)
FailureIsReported ==
    last = "failed" /\ unit = "idle" /\ main.step = "idle" => event.now.outcome \in Failing

(* Once no new event comes, the latest one is shown on the desktop         *)
(* (deliver): a delivery that fails is repeated, and one that a new event  *)
(* overtakes does not count for it.                                        *)
LatestIsShown == []<>(event.now = NoEvent \/ shown)

(* The invariant of the events: the type of the state, with one holder of  *)
(* the lock; completed is true; and a failure is reported.                 *)
EventInv == EventTypeOK /\ CompletedIsTrue /\ FailureIsReported
=============================================================================
