--------------------------- MODULE UpdateJournal ---------------------------
(***************************************************************************)
(* update_journal.c: the updater's record, kept in two copies on a card    *)
(* whose writes may reach it late.  disk is what the program reads back;   *)
(* card is what power loss would leave.  A copy is {} when its file is     *)
(* missing or fails its checksum, and {r} when it decodes to record r.     *)
(***************************************************************************)
EXTENDS UpdateState

CONSTANT Syncs  \* the answers the storage driver may give to a device sync

ASSUME SyncAssumption == Syncs \subseteq BOOLEAN

VARIABLES
    disk,   \* the two copies as the program finds them
    card,   \* the two copies as the driver has saved them
    store   \* the tilefinch_update_journal_store call in progress

journalVars == <<disk, card, store>>

Copies == {0, 1}

CopyFiles == {{}} \cup {{r} : r \in Records}

StorePhases == {"None", "Remove", "Rename", "Sync", "Done", "Failed"}

NoStore == [phase |-> "None", target |-> 0, record |-> {}]

JournalTypeOK ==
    /\ disk \in [Copies -> CopyFiles]
    /\ card \in [Copies -> CopyFiles]
    /\ store \in [phase : StorePhases, target : Copies, record : CopyFiles]

-----------------------------------------------------------------------------
\* tilefinch_update_state_select: the newest copy that decodes, the first
\* one when both are of one generation.
Selected(copies) ==
    IF \/ copies[1] = {}
       \/ \E r \in copies[0] : \A q \in copies[1] : r.generation >= q.generation
    THEN 0 ELSE 1

\* tilefinch_update_journal_load: {} when neither copy can be read.
Load(copies) == copies[Selected(copies)]

-----------------------------------------------------------------------------
\* A store is refused for a record that does not encode, and for one that
\* is not newer than the selected copy.
CanStore(r) ==
    Encodable(r) /\ \A current \in Load(disk) : r.generation > current.generation

\* Mutation: the copy the program reads is the one that is replaced.
TargetSelected == Selected(disk)

Target == IF Load(disk) = {} THEN 0 ELSE 1 - Selected(disk)

\* The call with its refusals and the temporary file written: a temporary
\* file is read by nobody, so a failure to write it only fails the call.
BeginStore(r) ==
    \/ /\ CanStore(r)
       /\ store' = [phase |-> "Remove", target |-> Target, record |-> {r}]
    \/ store' = [phase |-> "Failed", target |-> Target, record |-> {r}]

StoreFails ==
    /\ store.phase \in {"Remove", "Rename"}
    /\ store' = [store EXCEPT !.phase = "Failed"]
    /\ UNCHANGED disk

RemoveStale ==
    /\ store.phase = "Remove"
    /\ disk' = [disk EXCEPT ![store.target] = {}]
    /\ store' = [store EXCEPT !.phase = "Rename"]

RenameNew ==
    /\ store.phase = "Rename"
    /\ disk' = [disk EXCEPT ![store.target] = store.record]
    /\ store' = [store EXCEPT !.phase = "Sync"]

\* The sync is a hint: the store reports success whatever it answers.
SyncStore(accepted) ==
    /\ store.phase = "Sync"
    /\ card' = IF accepted THEN disk ELSE card
    /\ store' = [store EXCEPT !.phase = "Done"]
    /\ UNCHANGED disk

\* The caller takes the result.
EndStore == store' = NoStore

StoreSucceeded == store.phase = "Done"
StoreFailed == store.phase = "Failed"

\* The driver saves, in order, what the program has written.
Writeback == card' = disk

\* Power loss leaves what is on the card and no call in progress.
LosePower == disk' = card /\ store' = NoStore

-----------------------------------------------------------------------------
(***************************************************************************)
(* The journal on its own: any caller, any record.                         *)
(***************************************************************************)
JournalInit ==
    /\ disk \in [Copies -> CopyFiles]
    /\ card = disk
    /\ store = NoStore

CallStore ==
    /\ store.phase = "None"
    /\ \E r \in Records : BeginStore(r)
    /\ UNCHANGED <<disk, card>>

FileStep == (StoreFails \/ RemoveStale \/ RenameNew) /\ UNCHANGED card

Return ==
    /\ store.phase \in {"Done", "Failed"}
    /\ EndStore
    /\ UNCHANGED <<disk, card>>

JournalNext ==
    \/ CallStore
    \/ FileStep
    \/ \E accepted \in Syncs : SyncStore(accepted)
    \/ Return
    \/ Writeback /\ UNCHANGED <<disk, store>>
    \/ LosePower /\ UNCHANGED card

JournalSpec == JournalInit /\ [][JournalNext]_journalVars

\* The two copies on this card are one register that power loss may set back
\* but never empty or mix: the comment at journal_sync_directory.
Register == INSTANCE JournalRegister
    WITH Value <- Records, current <- Load(disk), saved <- Load(card)
ImplementsRegister == Register!Spec

=============================================================================
