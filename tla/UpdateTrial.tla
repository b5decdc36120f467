---------------------------- MODULE UpdateTrial ----------------------------
(***************************************************************************)
(* The life of an installation with two program slots: the launcher that   *)
(* decides what to start (update_launcher_psp.c), the browser that raises  *)
(* the floor and confirms a trial (psp_script_main.c), the update session  *)
(* (psp_update_session.c) and the installer's promotion                    *)
(* (update_installer.c), over the journal of UpdateJournal.tla and a card  *)
(* that can lose power between any two steps.                              *)
(*                                                                         *)
(* A slot holds the image of one release, or 0.  The staged directory      *)
(* (slot-x.tmp) and the retired one (slot-x.old) are read by nobody but    *)
(* the install that made them, so they are kept in `job'.                  *)
(***************************************************************************)
EXTENDS UpdateJournal

CONSTANTS
    LauncherSequence,   \* TILEFINCH_RELEASE_SEQUENCE of the launcher
    InitialImages,      \* images slot A may be delivered with
    Openings            \* when the update session may be opened

ASSUME TrialAssumption ==
    /\ LauncherSequence \in Releases
    /\ InitialImages \subseteq Releases
    /\ Openings \subseteq {"Trial", "Settled"}

VARIABLES
    slots,       \* the image in each slot directory
    cardSlots,   \* what power loss would leave there
    pc,          \* where the launcher or the browser is
    mem,         \* the record it holds in memory: {} or {r}
    boot,        \* the slot the launcher hands off to, and why
    healthPending,
    session,     \* the open update session's copy of the record, and its mode
    job,         \* the install in progress or complete
    proven,      \* images that have shown themselves healthy
    approved,    \* releases the user picked from the older versions
    tried        \* starts of the pending trial without a request, and whether
                 \* every record of them was flushed

procVars == <<pc, mem, boot, healthPending>>
installVars == <<session, job>>
ghostVars == <<proven, approved, tried>>
slotVars == <<slots, cardSlots>>
vars == <<disk, card, store, slots, cardSlots, pc, mem, boot, healthPending,
          session, job, proven, approved, tried>>

LauncherSteps == {"Decide", "StartStore", "RejectStore", "Menu", "RetryStore",
                  "Verify", "RestartStore", "HandOff"}
BrowserSteps == {"Browser", "RaiseStore", "ConfirmStore", "Retire", "Promote",
                 "SyncSlot", "PendingStore"}

Reasons == {"Current", "Previous", "Trial"}

NoJob == [phase |-> "None", slot |-> "A", image |-> 0, retired |-> 0]
NoBoot == [slot |-> "A", why |-> "Current"]
NotTried == [starts |-> 0, flushed |-> TRUE]

Sessions == {{}} \cup {{s} : s \in [record : Records, allow : BOOLEAN]}

\* Types of every variable, so that each record the code passes around is one.
TypeOK ==
    /\ JournalTypeOK
    /\ slots \in [SlotNames -> Images \cup {0}]
    /\ cardSlots \in [SlotNames -> Images \cup {0}]
    /\ pc \in {"Off", "Dead"} \cup LauncherSteps \cup BrowserSteps
    /\ mem \in CopyFiles
    /\ boot \in [slot : SlotNames, why : Reasons]
    /\ healthPending \in BOOLEAN
    /\ session \in Sessions
    /\ job \in [phase : {"None", "Running", "Complete"}, slot : SlotNames,
                image : Images \cup {0}, retired : Images \cup {0}]
    /\ proven \subseteq Images
    /\ approved \subseteq Releases
    /\ tried \in [starts : 0..2, flushed : BOOLEAN]

\* A fresh installation has the launcher's own release and no journal; a
\* newer one was copied over the slot of an installation that had updated,
\* whose generations are counted from 1 here.
Init ==
    \E image \in InitialImages :
        /\ slots = [A |-> image, B |-> 0]
        /\ disk = [c \in Copies |->
                     IF c = 0 /\ image # LauncherSequence
                     THEN {DefaultState("A", LauncherSequence)} ELSE {}]
        /\ proven = {image}
        /\ card = disk /\ cardSlots = slots /\ store = NoStore
        /\ pc = "Off" /\ mem = {} /\ boot = NoBoot /\ healthPending = FALSE
        /\ session = {} /\ job = NoJob
        /\ approved = {} /\ tried = NotTried

-----------------------------------------------------------------------------
(***************************************************************************)
(* The card.                                                               *)
(***************************************************************************)
DriverWritesBack ==
    /\ Writeback
    /\ cardSlots' = slots
    /\ UNCHANGED <<disk, store, slots, procVars, installVars, ghostVars>>

Stopped ==
    /\ pc' = "Off" /\ mem' = {} /\ boot' = NoBoot /\ healthPending' = FALSE
    /\ session' = {} /\ job' = NoJob

PowerLoss ==
    /\ pc # "Off"
    /\ LosePower
    /\ slots' = cardSlots
    /\ Stopped
    /\ UNCHANGED <<card, cardSlots, ghostVars>>

\* The user leaves or restarts the browser, or gives up on a launcher that
\* could not start a slot.
Leave ==
    /\ pc \in {"Browser", "Dead"}
    /\ Stopped
    /\ UNCHANGED <<journalVars, slotVars, ghostVars>>

\* One step of the journal store the program is waiting for.
StoreStep ==
    /\ StoreFails \/ RemoveStale \/ RenameNew
    /\ UNCHANGED <<card, slotVars, procVars, installVars, ghostVars>>

StoreSync ==
    \E accepted \in Syncs :
        /\ SyncStore(accepted)
        /\ cardSlots' = IF accepted THEN slots ELSE cardSlots
        /\ tried' = [tried EXCEPT !.flushed =
                        @ /\ (accepted \/ pc \notin {"StartStore", "RestartStore"})]
        /\ UNCHANGED <<slots, procVars, installVars, proven, approved>>

\* The program changes its record and asks for it to be stored.
Storing(r, step) ==
    BeginStore(r) /\ mem' = {r} /\ pc' = step /\ UNCHANGED <<disk, card>>

-----------------------------------------------------------------------------
(***************************************************************************)
(* The launcher.                                                           *)
(***************************************************************************)
Found(copies) ==
    IF Load(copies) = {} THEN {DefaultState("A", LauncherSequence)} ELSE Load(copies)

PowerOn ==
    /\ pc = "Off"
    /\ pc' = "Decide"
    /\ mem' = Found(disk)
    /\ UNCHANGED <<journalVars, slotVars, boot, healthPending, installVars,
                   ghostVars>>

\* Mutation: the launcher verifies the slot whichever image it holds.
VerifiesAnyImage(s) == slots[s.pending] # 0

\* launcher_verify_pending, for a slot that can be read and a chain of trust
\* that holds.
Verifies(s) ==
    /\ slots[s.pending] = s.candidate
    /\ \/ s.candidate = DeveloperSequence
       \/ s.downgrade
       \/ s.candidate >= s.installed

GoTo(slot, why) ==
    boot' = [slot |-> slot, why |-> why] /\ pc' = "HandOff"

\* The start of the pending slot, recorded first; if it cannot be recorded
\* the caller goes on at `otherwise'.
StartPending(s, step, otherwise) ==
    \/ /\ CanStartTrial(s)
       /\ Storing(StartTrial(s), step)
       /\ UNCHANGED boot
    \/ ~CanStartTrial(s) /\ otherwise /\ UNCHANGED <<mem, journalVars>>

\* A discarded pending slot: whether or not that is recorded, the current
\* version is started next.
Reject(s) ==
    \/ /\ CanDiscardTrial(s)
       /\ Storing(DiscardTrial(s), "RejectStore")
       /\ UNCHANGED boot
    \/ /\ ~CanDiscardTrial(s)
       /\ GoTo(s.active, "Current")
       /\ UNCHANGED <<mem, journalVars>>

\* A launcher that reads the journal decides at once; a slot may also fail
\* its verification because it cannot be read or no key matches.
Decide ==
    /\ pc = "Decide"
    /\ \E s \in mem, held, readable \in BOOLEAN :
        LET verified == s.trial = "Pending" /\ readable /\ Verifies(s)
            decision == BootDecide(s, held, verified)
        IN  \/ /\ decision.action = "StartTrial"
               /\ StartPending(s, "StartStore", pc' = "Menu" /\ UNCHANGED boot)
            \/ /\ decision.action # "StartTrial"
               /\ s.trial = "Pending" /\ ~verified
               /\ Reject(s)
            \/ /\ decision.action = "Recovery"
               /\ s.trial # "Pending"
               /\ pc' = "Menu"
               /\ UNCHANGED <<mem, boot, journalVars>>
            \/ /\ decision.action \in {"Active", "Previous"}
               /\ s.trial # "Pending" \/ verified
               /\ GoTo(decision.slot, IF decision.action = "Previous" THEN "Previous"
                                                                  ELSE "Current")
               /\ UNCHANGED <<mem, journalVars>>
    /\ UNCHANGED <<slotVars, healthPending, installVars, ghostVars>>

\* launcher_recover: try again, discard, or start the current version, which
\* is also what the timeout chooses.
Recover ==
    /\ pc = "Menu"
    /\ \E s \in mem :
        \/ /\ CanRetryTrial(s)
           /\ Storing(RetryTrial(s), "RetryStore")
           /\ tried' = NotTried
           /\ UNCHANGED boot
        \/ Reject(s) /\ UNCHANGED tried
        \/ GoTo(s.active, "Current") /\ UNCHANGED <<mem, journalVars, tried>>
    /\ UNCHANGED <<slotVars, healthPending, installVars, proven, approved>>

\* The second verification after a retry.
VerifyAgain ==
    /\ pc = "Verify"
    /\ \E s \in mem, readable \in BOOLEAN :
        \/ /\ readable /\ Verifies(s)
           /\ StartPending(s, "RestartStore", GoTo(s.active, "Current"))
        \/ /\ ~(readable /\ Verifies(s))
           /\ Reject(s)
    /\ UNCHANGED <<slotVars, healthPending, installVars, ghostVars>>

\* What the launcher does with the result of each of its stores.
LauncherStored ==
    /\ StoreSucceeded \/ StoreFailed
    /\ EndStore
    /\ \E s \in mem :
        \/ /\ pc \in {"StartStore", "RestartStore"}
           /\ StoreSucceeded
           /\ GoTo(s.pending, "Trial")
           /\ tried' = [tried EXCEPT !.starts = IF @ = 2 THEN 2 ELSE @ + 1]
        \/ /\ pc = "StartStore" /\ StoreFailed
           /\ pc' = "Menu"
           /\ UNCHANGED <<boot, tried>>
        \/ /\ pc = "RejectStore"
           /\ GoTo(s.active, "Current")
           /\ UNCHANGED tried
        \/ /\ pc \in {"RetryStore", "RestartStore"}
           /\ StoreFailed
           /\ GoTo(s.active, "Current")
           /\ UNCHANGED tried
        \/ /\ pc = "RetryStore" /\ StoreSucceeded
           /\ pc' = "Verify"
           /\ UNCHANGED <<boot, tried>>
    /\ UNCHANGED <<disk, card, slotVars, mem, healthPending, installVars,
                   proven, approved>>

-----------------------------------------------------------------------------
(***************************************************************************)
(* The browser.                                                            *)
(***************************************************************************)
running == boot.slot

AwaitsHealth(r) == r.trial = "Started" /\ r.pending = running

\* launcher_boot_slot and the start of the browser's loop.
HandOff ==
    /\ pc = "HandOff"
    /\ \/ /\ pc' = "Dead"
          /\ UNCHANGED <<store, mem, healthPending>>
       \/ /\ slots[running] # 0
          /\ healthPending' = \E r \in Load(disk) : AwaitsHealth(r)
          /\ mem' = {r \in Load(disk) : AwaitsHealth(r)}
          /\ \/ /\ \E r \in Load(disk) :
                    /\ slots[running] # DeveloperSequence
                    /\ CanRaiseInstalledFloor(r, running, slots[running])
                    /\ BeginStore(RaiseInstalledFloor(r, slots[running]))
                /\ pc' = "RaiseStore"
             \/ /\ \A r \in Load(disk) :
                    \/ slots[running] = DeveloperSequence
                    \/ ~CanRaiseInstalledFloor(r, running, slots[running])
                /\ pc' = "Browser"
                /\ UNCHANGED store
    /\ UNCHANGED <<disk, card, slotVars, boot, installVars, ghostVars>>

\* psp_loop_confirm_trial_health: input, or ten responsive seconds.
Confirm ==
    /\ pc = "Browser" /\ healthPending
    /\ \E r \in mem :
        /\ CanConfirmHealthy(r)
        /\ BeginStore(ConfirmHealthy(r))
    /\ pc' = "ConfirmStore"
    /\ proven' = proven \cup {slots[running]}
    /\ UNCHANGED <<disk, card, slotVars, mem, boot, healthPending, installVars,
                   approved, tried>>

\* A failed confirmation is tried again a second later.
BrowserStored ==
    /\ pc \in {"RaiseStore", "ConfirmStore"}
    /\ StoreSucceeded \/ StoreFailed
    /\ EndStore
    /\ pc' = "Browser"
    /\ healthPending' = (healthPending /\ StoreFailed)
    /\ mem' = IF StoreSucceeded THEN {} ELSE mem
    /\ UNCHANGED <<disk, card, slotVars, boot, installVars, ghostVars>>

\* psp_update_session_initialize: by the automatic check or the update page,
\* and afresh when the user picks an older version.
OpenSession ==
    /\ pc = "Browser"
    /\ IF healthPending THEN "Trial" \in Openings ELSE "Settled" \in Openings
    /\ \E allow \in BOOLEAN :
        /\ session # {} => allow
        /\ session' =
            {[record |-> r, allow |-> allow] :
                r \in IF Load(disk) = {}
                      THEN {DefaultState(running, slots[running])}
                      ELSE Load(disk)}
    /\ job' = NoJob
    /\ UNCHANGED <<journalVars, slotVars, procVars, ghostVars>>

\* Which packages the session's client and its installer take.
Offered(s, image) ==
    IF s.allow THEN image \in Releases /\ image < s.record.installed
               ELSE image = DeveloperSequence \/ image > s.record.installed

\* Mutation: the installer takes the slot that is running.
TargetRunning(s) == running

InactiveSlot(s) == Other(s.record.active)

\* The download, its verification and its extraction beside the slots.
Install(image) ==
    /\ pc = "Browser" /\ job.phase # "Complete"
    /\ \E s \in session :
        /\ Offered(s, image)
        /\ job' = [phase |-> "Running", slot |-> InactiveSlot(s),
                   image |-> image, retired |-> 0]
        /\ approved' = IF s.allow THEN approved \cup {image} ELSE approved
    /\ pc' = "Retire"
    /\ UNCHANGED <<journalVars, slotVars, mem, boot, healthPending, session,
                   proven, tried>>

\* install_promote: the inactive slot is moved aside ...
Retire ==
    /\ pc = "Retire"
    /\ \/ /\ slots' = [slots EXCEPT ![job.slot] = 0]
          /\ job' = [job EXCEPT !.retired = slots[job.slot]]
          /\ pc' = "Promote"
       \/ pc' = "Browser" /\ job' = NoJob /\ UNCHANGED slots
    /\ UNCHANGED <<journalVars, cardSlots, mem, boot, healthPending, session,
                   ghostVars>>

\* ... the staged one takes its name, or the old one is put back ...
Promote ==
    /\ pc = "Promote"
    /\ \/ /\ slots' = [slots EXCEPT ![job.slot] = job.image]
          /\ pc' = "SyncSlot"
          /\ UNCHANGED job
       \/ /\ slots' \in {slots, [slots EXCEPT ![job.slot] = job.retired]}
          /\ pc' = "Browser"
          /\ job' = NoJob
    /\ UNCHANGED <<journalVars, cardSlots, mem, boot, healthPending, session,
                   ghostVars>>

\* The record that makes the installed slot the next trial.
PendingRecord(s) ==
    [s.record EXCEPT !.generation = @ + 1, !.pending = job.slot,
                     !.trial = "Pending", !.candidate = job.image,
                     !.downgrade = s.allow]

\* ... the card is asked to save it, and the trial is recorded.
SyncSlot ==
    /\ pc = "SyncSlot"
    /\ \E accepted \in Syncs, s \in session :
        /\ IF accepted THEN card' = disk /\ cardSlots' = slots
                       ELSE UNCHANGED <<card, cardSlots>>
        /\ IF s.record.generation < MaxGeneration
           THEN /\ BeginStore(PendingRecord(s))
                /\ pc' = "PendingStore"
                /\ tried' = NotTried
                /\ UNCHANGED job
           ELSE pc' = "Browser" /\ job' = NoJob /\ UNCHANGED <<store, tried>>
    /\ UNCHANGED <<disk, slots, mem, boot, healthPending, session, proven,
                   approved>>

InstallStored ==
    /\ pc = "PendingStore"
    /\ StoreSucceeded \/ StoreFailed
    /\ EndStore
    /\ pc' = "Browser"
    /\ job' = [NoJob EXCEPT !.phase = IF StoreSucceeded THEN "Complete" ELSE "None"]
    /\ UNCHANGED <<disk, card, slotVars, mem, boot, healthPending, session,
                   ghostVars>>

Next ==
    \/ DriverWritesBack \/ PowerLoss \/ Leave
    \/ StoreStep \/ StoreSync
    \/ PowerOn \/ Decide \/ Recover \/ VerifyAgain \/ LauncherStored
    \/ HandOff \/ Confirm \/ BrowserStored
    \/ OpenSession
    \/ \E image \in Images : Install(image)
    \/ Retire \/ Promote \/ SyncSlot \/ InstallStored

Spec == Init /\ [][Next]_vars

-----------------------------------------------------------------------------
(***************************************************************************)
(* Properties.                                                             *)
(***************************************************************************)
\* The slot the launcher falls back on.
Fallback(copies) == (CHOOSE r \in Found(copies) : TRUE).active

\* At every moment, and after power loss at that moment, the slot the journal
\* calls active holds an image that has run healthily: "After every injected
\* failure, the previously healthy slot still launches."
KnownGoodLaunches ==
    /\ slots[Fallback(disk)] \in proven
    /\ cardSlots[Fallback(card)] \in proven

\* The launcher hands off only to a proven image or to a trial that is on
\* record as started, so that the browser can record its health.
BootsProvenOrOnTrial ==
    [][pc = "HandOff" /\ pc' \in BrowserSteps /\ boot.why # "Previous" =>
        \/ slots[running] \in proven
        \/ \E r \in Load(disk) : AwaitsHealth(r) /\ r.candidate = slots[running]]_vars

\* A candidate that did not confirm is started a second time only when the
\* user asks for it, unless the card refused to flush the first start.
OneUnattendedTrial == tried.starts <= 1 \/ ~tried.flushed

Floor(copies) == (CHOOSE r \in Found(copies) : TRUE).installed

\* The anti-rollback floor on the card goes down only when the user picked an
\* older version, and never below every release picked.
FloorKept ==
    [][\/ Floor(card') >= Floor(card)
       \/ \E release \in approved : Floor(card') >= release]_vars

=============================================================================
