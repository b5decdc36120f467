---------------------------- MODULE UpdateProofs ----------------------------
(***************************************************************************)
(* What is proved of the updater.  First its journal, whatever its callers *)
(* store and whenever power is lost (UpdateJournal.tla); then the          *)
(* installation that is started and updated over it (UpdateTrial.tla).     *)
(***************************************************************************)
EXTENDS UpdateTrial, TLAPS

\* While a store replaces a copy it is not the one the program reads, and
\* what it will write is newer.
ReplacesStaleCopy ==
    store.phase \in {"Remove", "Rename"} =>
        /\ \E r \in Records :
              /\ store.record = {r}
              /\ \A current \in Load(disk) : r.generation > current.generation
        /\ Load(disk) # {} => store.target = 1 - Selected(disk)

JournalInv == JournalTypeOK /\ ReplacesStaleCopy

-----------------------------------------------------------------------------
LEMMA FileCases ==
    ASSUME NEW f \in CopyFiles
    PROVE  f = {} \/ \E r \in Records : f = {r}
BY DEF CopyFiles

\* The copy that is selected, told apart by which files can be read.
LEMMA SelectedCases ==
    ASSUME NEW copies \in [Copies -> CopyFiles]
    PROVE  /\ Selected(copies) \in Copies
           /\ copies[1] = {} => Selected(copies) = 0
           /\ copies[0] = {} /\ copies[1] # {} => Selected(copies) = 1
           /\ \A r, q \in Records :
                copies[0] = {r} /\ copies[1] = {q} =>
                    Selected(copies) =
                        IF r.generation >= q.generation THEN 0 ELSE 1
BY DEF Selected, Copies

LEMMA LoadCases ==
    ASSUME NEW copies \in [Copies -> CopyFiles]
    PROVE  /\ Load(copies) \in CopyFiles
           /\ Load(copies) = {} => copies[0] = {} /\ copies[1] = {}
<1>1. Selected(copies) \in Copies
  BY SelectedCases
<1>2. Load(copies) \in CopyFiles
  BY <1>1 DEF Load
<1>3. ASSUME Load(copies) = {} PROVE copies[0] = {} /\ copies[1] = {}
  <2>1. CASE Selected(copies) = 0
    <3>1. copies[0] = {}
      BY <1>3, <2>1 DEF Load
    <3>2. copies[1] = {}
      BY <2>1, <3>1 DEF Selected
    <3> QED BY <3>1, <3>2
  <2>2. CASE Selected(copies) = 1
    <3>1. copies[1] = {}
      BY <1>3, <2>2 DEF Load
    <3> QED BY <2>2, <3>1 DEF Selected
  <2> QED BY <1>1, <2>1, <2>2 DEF Copies
<1> QED BY <1>2, <1>3

\* Removing the stale copy leaves the program reading the same record.
LEMMA RemoveKeepsLoad ==
    ASSUME NEW copies \in [Copies -> CopyFiles], NEW target \in Copies,
           Load(copies) # {} => target = 1 - Selected(copies)
    PROVE  /\ Load([copies EXCEPT ![target] = {}]) = Load(copies)
           /\ Load(copies) # {} =>
                Selected([copies EXCEPT ![target] = {}]) = Selected(copies)
<1> DEFINE after == [copies EXCEPT ![target] = {}]
<1>1. after \in [Copies -> CopyFiles]
  BY DEF CopyFiles
<1>2. CASE Load(copies) = {}
  <2>1. copies[0] = {} /\ copies[1] = {}
    BY <1>2, LoadCases
  <2>2. after[0] = {} /\ after[1] = {}
    BY <2>1 DEF Copies
  <2>3. Load(after) = {}
    BY <2>2 DEF Load, Selected
  <2> QED BY <1>2, <2>3
<1>3. CASE Load(copies) # {}
  <2>1. Selected(copies) \in Copies /\ target = 1 - Selected(copies)
    BY <1>3, SelectedCases
  <2>2. CASE Selected(copies) = 0
    <3>1. after[1] = {} /\ after[0] = copies[0]
      BY <2>1, <2>2 DEF Copies
    <3>2. Selected(after) = 0
      BY <3>1 DEF Selected
    <3> QED BY <2>2, <3>1, <3>2 DEF Load
  <2>3. CASE Selected(copies) = 1
    <3>1. after[0] = {} /\ after[1] = copies[1]
      BY <2>1, <2>3 DEF Copies
    <3>2. after[1] # {}
      BY <1>3, <2>3, <3>1 DEF Load
    <3>3. Selected(after) = 1
      BY <3>1, <3>2 DEF Selected
    <3> QED BY <2>3, <3>1, <3>3 DEF Load
  <2> QED BY <2>1, <2>2, <2>3 DEF Copies
<1> QED BY <1>2, <1>3

\* The renamed copy is the one the program reads next.
LEMMA RenameIsRead ==
    ASSUME NEW copies \in [Copies -> CopyFiles], NEW target \in Copies,
           NEW r \in Records,
           \A current \in Load(copies) : r.generation > current.generation,
           Load(copies) # {} => target = 1 - Selected(copies)
    PROVE  Load([copies EXCEPT ![target] = {r}]) = {r}
<1> DEFINE after == [copies EXCEPT ![target] = {r}]
<1>1. r.generation \in Int
  BY UpdateAssumption DEF Records
<1>2. CASE Load(copies) = {}
  <2>1. copies[0] = {} /\ copies[1] = {}
    BY <1>2, LoadCases
  <2>2. CASE target = 0
    <3>1. after[0] = {r} /\ after[1] = {}
      BY <2>1, <2>2 DEF Copies
    <3> QED BY <3>1 DEF Load, Selected
  <2>3. CASE target = 1
    <3>1. after[0] = {} /\ after[1] = {r}
      BY <2>1, <2>3 DEF Copies
    <3> QED BY <3>1 DEF Load, Selected
  <2> QED BY <2>2, <2>3 DEF Copies
<1>3. CASE Load(copies) # {}
  <2>1. PICK q \in Records : Load(copies) = {q}
    BY <1>3, LoadCases, FileCases
  <2>2. r.generation > q.generation /\ q.generation \in Int
    BY <2>1, UpdateAssumption DEF Records
  <2>3. Selected(copies) \in Copies /\ target = 1 - Selected(copies)
    BY <1>3, SelectedCases
  <2>4. CASE Selected(copies) = 0
    <3>1. after[0] = {q} /\ after[1] = {r}
      BY <2>1, <2>3, <2>4 DEF Copies, Load
    <3>2. Selected(after) = 1
      BY <1>1, <2>2, <3>1 DEF Selected
    <3> QED BY <3>1, <3>2 DEF Load
  <2>5. CASE Selected(copies) = 1
    <3>1. after[0] = {r} /\ after[1] = {q}
      BY <2>1, <2>3, <2>5 DEF Copies, Load
    <3>2. Selected(after) = 0
      BY <1>1, <2>2, <3>1 DEF Selected
    <3> QED BY <3>1, <3>2 DEF Load
  <2> QED BY <2>3, <2>4, <2>5 DEF Copies
<1> QED BY <1>2, <1>3

-----------------------------------------------------------------------------
LEMMA JournalInitInv == JournalInit => JournalInv
BY DEF JournalInit, JournalInv, JournalTypeOK, ReplacesStaleCopy, NoStore,
       StorePhases, Copies, CopyFiles

LEMMA CallStoreInv == JournalInv /\ CallStore => JournalInv'
<1> SUFFICES ASSUME JournalInv, NEW r \in Records, BeginStore(r),
                    UNCHANGED <<disk, card>>
             PROVE  JournalInv'
  BY DEF CallStore
<1> USE DEF JournalInv, JournalTypeOK
<1>1. {r} \in CopyFiles
  BY DEF CopyFiles
<1>2. Selected(disk) \in Copies
  BY SelectedCases
<1>3. Target \in Copies
  BY <1>2 DEF Target, Copies
<1>4. CASE CanStore(r) /\ store' = [phase |-> "Remove", target |-> Target,
                                    record |-> {r}]
  <2>1. JournalTypeOK'
    BY <1>1, <1>3, <1>4 DEF StorePhases
  <2>2. Load(disk)' = Load(disk) /\ Selected(disk)' = Selected(disk)
    BY DEF Load, Selected
  <2>3. store'.record = {r} /\ store'.target = Target
    BY <1>4
  <2>4. \A current \in Load(disk) : r.generation > current.generation
    BY <1>4 DEF CanStore
  <2>5. Load(disk) # {} => Target = 1 - Selected(disk)
    BY DEF Target
  <2>6. ReplacesStaleCopy'
    BY <2>2, <2>3, <2>4, <2>5 DEF ReplacesStaleCopy
  <2> QED BY <2>1, <2>6
<1>5. CASE store' = [phase |-> "Failed", target |-> Target, record |-> {r}]
  BY <1>1, <1>3, <1>5 DEF StorePhases, ReplacesStaleCopy
<1> QED BY <1>4, <1>5 DEF BeginStore

LEMMA RemoveStaleInv == JournalInv /\ RemoveStale /\ UNCHANGED card => JournalInv'
<1> SUFFICES ASSUME JournalInv, RemoveStale, UNCHANGED card
             PROVE  JournalInv'
  OBVIOUS
<1> USE DEF JournalInv, JournalTypeOK
<1>1. store.phase \in {"Remove", "Rename"} /\ store.target \in Copies
  BY DEF RemoveStale
<1>2. Load(disk) # {} => store.target = 1 - Selected(disk)
  BY <1>1 DEF ReplacesStaleCopy
<1>3. /\ Load(disk') = Load(disk)
      /\ Load(disk) # {} => Selected(disk') = Selected(disk)
  BY <1>1, <1>2, RemoveKeepsLoad DEF RemoveStale
<1>4. store'.record = store.record /\ store'.target = store.target
  BY DEF RemoveStale
<1>5. JournalTypeOK'
  BY DEF RemoveStale, CopyFiles, StorePhases
<1>6. ReplacesStaleCopy'
  BY <1>1, <1>2, <1>3, <1>4 DEF ReplacesStaleCopy
<1> QED BY <1>5, <1>6

\* Every step keeps the stale copy the one that is replaced.
LEMMA JournalNextInv == JournalInv /\ [JournalNext]_journalVars => JournalInv'
<1> SUFFICES ASSUME JournalInv, [JournalNext]_journalVars
             PROVE  JournalInv'
  OBVIOUS
<1> USE DEF JournalInv
<1>1. CASE CallStore
  BY <1>1, CallStoreInv
<1>2. CASE RemoveStale /\ UNCHANGED card
  BY <1>2, RemoveStaleInv
<1>3. CASE StoreFails /\ UNCHANGED card
  BY <1>3 DEF JournalTypeOK, StoreFails, StorePhases, ReplacesStaleCopy
<1>4. CASE RenameNew /\ UNCHANGED card
  BY <1>4 DEF JournalTypeOK, RenameNew, StorePhases, ReplacesStaleCopy
<1>5. ASSUME NEW accepted \in Syncs, SyncStore(accepted)
      PROVE  JournalInv'
  BY <1>5 DEF JournalTypeOK, SyncStore, StorePhases, ReplacesStaleCopy
<1>6. CASE Return
  BY <1>6 DEF Return, EndStore, NoStore, JournalTypeOK, StorePhases, Copies,
              CopyFiles, ReplacesStaleCopy
<1>7. CASE Writeback /\ UNCHANGED <<disk, store>>
  BY <1>7 DEF Writeback, JournalTypeOK, ReplacesStaleCopy, Load, Selected
<1>8. CASE LosePower /\ UNCHANGED card
  BY <1>8 DEF LosePower, NoStore, JournalTypeOK, StorePhases, Copies,
              CopyFiles, ReplacesStaleCopy
<1>9. CASE UNCHANGED journalVars
  BY <1>9 DEF journalVars, JournalTypeOK, ReplacesStaleCopy, Load, Selected
<1> QED BY <1>1, <1>2, <1>3, <1>4, <1>5, <1>6, <1>7, <1>8, <1>9
        DEF JournalNext, FileStep

\* Every value of the journal's state is one, and a store never replaces the
\* copy the program would read.
THEOREM JournalInvariant == JournalSpec => []JournalInv
<1>1. JournalInit => JournalInv
  BY JournalInitInv
<1>2. JournalInv /\ [JournalNext]_journalVars => JournalInv'
  BY JournalNextInv
<1> QED BY <1>1, <1>2, PTL DEF JournalSpec

-----------------------------------------------------------------------------
LEMMA InitImplements == JournalInit => Register!Init
<1> SUFFICES ASSUME JournalInit PROVE Register!Init
  OBVIOUS
<1>1. Load(disk) \in CopyFiles
  BY LoadCases DEF JournalInit
<1>2. Load(disk) \subseteq Records
  BY <1>1 DEF CopyFiles
<1> QED BY <1>2 DEF JournalInit, Register!Init

LEMMA RenameImplements ==
    JournalInv /\ RenameNew /\ UNCHANGED card => Register!Write
<1> SUFFICES ASSUME JournalInv, RenameNew, UNCHANGED card
             PROVE  Register!Write
  OBVIOUS
<1>1. store.phase \in {"Remove", "Rename"} /\ store.target \in Copies
      /\ disk \in [Copies -> CopyFiles]
  BY DEF RenameNew, JournalInv, JournalTypeOK
<1>2. PICK r \in Records :
        /\ store.record = {r}
        /\ \A current \in Load(disk) : r.generation > current.generation
  BY <1>1 DEF JournalInv, ReplacesStaleCopy
<1>3. Load(disk) # {} => store.target = 1 - Selected(disk)
  BY <1>1 DEF JournalInv, ReplacesStaleCopy
<1>4. Load([disk EXCEPT ![store.target] = {r}]) = {r}
  BY <1>1, <1>2, <1>3, RenameIsRead
<1>5. Load(disk') = {r}
  BY <1>2, <1>4 DEF RenameNew
<1>6. Load(card') = Load(card)
  OBVIOUS
<1> QED BY <1>2, <1>5, <1>6 DEF Register!Write

LEMMA RemoveImplements ==
    JournalInv /\ RemoveStale /\ UNCHANGED card =>
        UNCHANGED <<Load(disk), Load(card)>>
<1> SUFFICES ASSUME JournalInv, RemoveStale, UNCHANGED card
             PROVE  UNCHANGED <<Load(disk), Load(card)>>
  OBVIOUS
<1>1. store.phase \in {"Remove", "Rename"} /\ store.target \in Copies
      /\ disk \in [Copies -> CopyFiles]
  BY DEF RemoveStale, JournalInv, JournalTypeOK
<1>2. Load(disk) # {} => store.target = 1 - Selected(disk)
  BY <1>1 DEF JournalInv, ReplacesStaleCopy
<1>3. Load(disk') = Load(disk)
  BY <1>1, <1>2, RemoveKeepsLoad DEF RemoveStale
<1>4. Load(card') = Load(card)
  OBVIOUS
<1> QED BY <1>3, <1>4

LEMMA StepImplements ==
    JournalInv /\ [JournalNext]_journalVars =>
        [Register!Write \/ Register!WriteBack \/ Register!LosePower]_
            <<Load(disk), Load(card)>>
<1> SUFFICES ASSUME JournalInv, [JournalNext]_journalVars
             PROVE  \/ Register!Write \/ Register!WriteBack
                    \/ Register!LosePower
                    \/ UNCHANGED <<Load(disk), Load(card)>>
  OBVIOUS
<1>1. CASE RenameNew /\ UNCHANGED card
  BY <1>1, RenameImplements
<1>2. CASE RemoveStale /\ UNCHANGED card
  BY <1>2, RemoveImplements
<1>3. CASE UNCHANGED <<disk, card>>
  BY <1>3 DEF Load, Selected
<1>4. CASE card' = disk /\ UNCHANGED disk
  BY <1>4 DEF Register!WriteBack, Load, Selected
<1>5. CASE LosePower /\ UNCHANGED card
  BY <1>5 DEF LosePower, Register!LosePower, Load, Selected
<1>6. CASE CallStore \/ Return \/ UNCHANGED journalVars
  BY <1>3, <1>6 DEF CallStore, Return, journalVars
<1>7. CASE StoreFails /\ UNCHANGED card
  BY <1>3, <1>7 DEF StoreFails
<1>8. ASSUME NEW accepted \in Syncs, SyncStore(accepted)
      PROVE  UNCHANGED <<disk, card>> \/ (card' = disk /\ UNCHANGED disk)
  BY <1>8 DEF SyncStore
<1>9. CASE Writeback /\ UNCHANGED <<disk, store>>
  BY <1>4, <1>9 DEF Writeback
<1> QED BY <1>1, <1>2, <1>3, <1>4, <1>5, <1>6, <1>7, <1>8, <1>9
        DEF JournalNext, FileStep

\* Whatever is stored, whichever step fails and whenever power is lost, the
\* two copies behave as one register: a reader finds the last record written
\* or, after power loss, one that was current before, never a mixture.
THEOREM JournalImplementsRegister == JournalSpec => ImplementsRegister
<1>1. JournalInit => Register!Init
  BY InitImplements
<1>2. JournalInv /\ [JournalNext]_journalVars =>
        [Register!Write \/ Register!WriteBack \/ Register!LosePower]_
            <<Load(disk), Load(card)>>
  BY StepImplements
<1> QED BY <1>1, <1>2, JournalInvariant, PTL
        DEF JournalSpec, ImplementsRegister, Register!Spec

-----------------------------------------------------------------------------
(***************************************************************************)
(* The installation over the journal.                                      *)
(***************************************************************************)
\* The record a launcher would find.
The(copies) == CHOOSE r \in Found(copies) : TRUE

InstallSteps == {"Retire", "Promote", "SyncSlot", "PendingStore"}
LauncherStores == {"StartStore", "RejectStore", "RetryStore", "RestartStore"}
StoreSteps == LauncherStores \cup {"RaiseStore", "ConfirmStore", "PendingStore"}
Starting == {"StartStore", "RestartStore"}
Deciding == LauncherSteps \ {"HandOff"}

\* A store is in progress where the program waits for one, and the record it
\* wrote is the one that is read.
Stores ==
    /\ store.phase # "None" <=> pc \in StoreSteps
    /\ store.phase # "None" => \E r \in Records : store.record = {r}
    /\ store.phase \in {"Sync", "Done"} => Load(disk) = store.record
    /\ pc \in LauncherStores => store.record = mem

\* A floor may be lower than another by the user's choice only.
Above(x, y) == x >= y \/ \E release \in approved : x >= release

\* The candidate of a trial is newer, or the user asked for it.
Grounded(r) ==
    r.trial # "None" => \/ r.candidate = DeveloperSequence
                        \/ Above(r.candidate, r.installed)

SameBase(r, q) == r.active = q.active /\ r.installed = q.installed

\* The journal on the disk and on the card, with the slots they go with.
Launches(copies, images) ==
    /\ images[The(copies).active] \in proven
    /\ Grounded(The(copies))
    /\ Load(copies) = {} => images["A"] = LauncherSequence

Disks == /\ Launches(disk, slots) /\ Launches(card, cardSlots)
         /\ Above(Floor(disk), Floor(card))

\* What is being stored may become the record that is read.
Incoming ==
    store.phase \in {"Remove", "Rename"} =>
        \A r \in store.record :
            /\ slots[r.active] \in proven /\ Grounded(r)
            /\ Above(r.installed, Floor(disk))

Launcher ==
    /\ pc = "Decide" => mem = Found(disk)
    /\ pc \in Deciding =>
           /\ \E s \in Records :
                  mem = {s} /\ SameBase(s, The(disk)) /\ Grounded(s)
           /\ pc # "Decide" => Load(disk) # {}
    /\ pc \in Starting =>
           \A s \in mem : /\ s.trial = "Started"
                          /\ s.pending \in SlotNames
                          /\ slots[s.pending] = s.candidate
    /\ pc = "HandOff" =>
           /\ boot.why = "Current" => running = The(disk).active
           /\ boot.why = "Trial" =>
                  \E r \in Load(disk) :
                      AwaitsHealth(r) /\ r.candidate = slots[running]
    /\ pc \in BrowserSteps \cup {"HandOff"} =>
           (Load(disk) = {} => running = "A")

\* The browser awaits the health of the trial on record, or updates.
Browser ==
    /\ pc \in BrowserSteps =>
           /\ \A r \in mem : AwaitsHealth(r)
           /\ pc \notin StoreSteps => mem \subseteq Load(disk)
           /\ healthPending => slots[running] \in Images
    /\ pc = "ConfirmStore" /\ store.phase \in {"Remove", "Rename", "Failed"} =>
           mem \subseteq Load(disk)
    /\ pc \in BrowserSteps => (mem = {} <=> ~healthPending)
    /\ pc \in {"RaiseStore", "ConfirmStore"} => session = {}
    /\ pc = "RaiseStore" => mem = {}

Updating ==
    /\ session # {} =>
           /\ pc \in BrowserSteps /\ ~healthPending
           /\ \A s \in session : SameBase(s.record, The(disk))
    /\ pc \in InstallSteps =>
           \E s \in session :
               /\ job.slot = InactiveSlot(s) /\ job.image \in Images
               /\ \/ job.image = DeveloperSequence
                  \/ Above(job.image, s.record.installed)
               /\ pc = "PendingStore" =>
                      \A r \in store.record : SameBase(r, s.record)

\* Once a start is flushed no record that could be started again is left.
NotPending(records) == \A r \in records : r.trial # "Pending"

Starts ==
    /\ OneUnattendedTrial
    /\ tried.starts # 0 /\ tried.flushed =>
           /\ NotPending(Load(disk)) /\ NotPending(Load(card))
           /\ pc \in Deciding => NotPending(mem)
           /\ store.phase \in {"Remove", "Rename"} => NotPending(store.record)
    /\ pc \in Starting =>
           /\ tried.starts = 0 \/ ~tried.flushed
           /\ store.phase = "Done" /\ tried.flushed =>
                  Load(card) = Load(disk)

IInv == /\ TypeOK /\ ReplacesStaleCopy /\ Stores /\ Disks /\ Incoming
        /\ Launcher /\ Browser /\ Updating /\ Starts

-----------------------------------------------------------------------------
LEMMA DefaultIsRecord == DefaultState("A", LauncherSequence) \in Records
BY UpdateAssumption, TrialAssumption
   DEF DefaultState, Records, SlotNames, Trials, Images

LEMMA TheIs ==
    ASSUME NEW copies \in [Copies -> CopyFiles]
    PROVE  /\ The(copies) \in Records /\ Found(copies) = {The(copies)}
           /\ Load(copies) # {} => Load(copies) = {The(copies)}
           /\ Load(copies) = {} =>
                  The(copies) = DefaultState("A", LauncherSequence)
           /\ Fallback(copies) = The(copies).active
           /\ Floor(copies) = The(copies).installed
<1>1. Load(copies) = {} \/ \E r \in Records : Load(copies) = {r}
  BY LoadCases, FileCases
<1>2. \E r \in Records : Found(copies) = {r}
  BY <1>1, DefaultIsRecord DEF Found
<1>3. The(copies) \in Records /\ Found(copies) = {The(copies)}
  BY <1>2 DEF The
<1> QED BY <1>1, <1>3 DEF Found, Fallback, Floor, The

LEMMA RecordIs ==
    ASSUME NEW r \in Records
    PROVE  /\ r.generation \in 0..MaxGeneration /\ r.active \in SlotNames
           /\ r.previous \in SlotNames \cup {"None"}
           /\ r.pending \in SlotNames \cup {"None"} /\ r.trial \in Trials
           /\ r.installed \in Releases \cup {0} /\ r.installed \in Nat
           /\ r.candidate \in Images \cup {0} /\ r.candidate \in Nat
           /\ r.downgrade \in BOOLEAN
<1>1. /\ r.generation \in 0..MaxGeneration /\ r.active \in SlotNames
      /\ r.previous \in SlotNames \cup {"None"}
      /\ r.pending \in SlotNames \cup {"None"} /\ r.trial \in Trials
      /\ r.installed \in Releases \cup {0}
      /\ r.candidate \in Images \cup {0}
      /\ r.downgrade \in BOOLEAN
  BY DEF Records
<1>2. Releases \cup {0} \subseteq Nat /\ Images \cup {0} \subseteq Nat
  BY UpdateAssumption DEF Images
<1> QED BY <1>1, <1>2

LEMMA AboveIs ==
    ASSUME approved \subseteq Releases
    PROVE  /\ \A x \in Nat : Above(x, x)
           /\ \A x, y, z \in Nat : Above(x, y) /\ Above(y, z) => Above(x, z)
           /\ \A x, y \in Nat : x >= y => Above(x, y)
<1>1. \A release \in approved : release \in Nat
  BY UpdateAssumption
<1> QED BY <1>1 DEF Above

\* What the user picked stays picked.
LEMMA AboveStays ==
    ASSUME NEW x, NEW y, Above(x, y), approved \subseteq approved'
    PROVE  \/ x >= y \/ \E release \in approved' : x >= release
BY DEF Above

Asked == approved \subseteq approved' /\ proven \subseteq proven'

LEMMA GroundedStays ==
    ASSUME NEW r, Grounded(r), Asked
    PROVE  r.trial # "None" =>
               \/ r.candidate = DeveloperSequence
               \/ r.candidate >= r.installed
               \/ \E release \in approved' : r.candidate >= release
BY DEF Grounded, Above, Asked

-----------------------------------------------------------------------------
\* The disk, the card and the slots.

LEMMA Typed ==
    ASSUME IInv
    PROVE  /\ disk \in [Copies -> CopyFiles] /\ card \in [Copies -> CopyFiles]
           /\ The(disk) \in Records /\ The(card) \in Records
           /\ slots \in [SlotNames -> Images \cup {0}]
           /\ JournalInv /\ approved \subseteq Releases
           /\ Floor(disk) \in Nat /\ Floor(card) \in Nat
           /\ The(disk).active \in SlotNames
BY TheIs, RecordIs DEF IInv, TypeOK, JournalTypeOK, JournalInv

LEMMA SameLoad ==
    ASSUME NEW copies, NEW others, Load(copies) = Load(others)
    PROVE  /\ The(copies) = The(others) /\ Found(copies) = Found(others)
           /\ Floor(copies) = Floor(others)
BY DEF The, Found, Floor

LEMMA DisksKept ==
    ASSUME IInv, Load(disk') = Load(disk), Load(card') = Load(card),
           cardSlots' = cardSlots, Asked,
           slots'[The(disk).active] = slots[The(disk).active]
    PROVE  Disks'
<1>0. /\ The(disk') = The(disk) /\ Floor(disk') = Floor(disk)
      /\ The(card') = The(card) /\ Floor(card') = Floor(card)
  BY SameLoad
<1>1. Load(disk) = {} => The(disk).active = "A"
  BY Typed, TheIs DEF DefaultState
<1>2. Launches(disk, slots)'
  <2>1. Grounded(The(disk))'
    BY <1>0, GroundedStays DEF IInv, Disks, Launches, Grounded, Above
  <2> QED BY <2>1, <1>0, <1>1 DEF IInv, Disks, Launches, Asked
<1>3. Launches(card, cardSlots)'
  <2>1. Grounded(The(card))'
    BY <1>0, GroundedStays DEF IInv, Disks, Launches, Grounded, Above
  <2> QED BY <2>1, <1>0 DEF IInv, Disks, Launches, Asked
<1>4. Above(Floor(disk), Floor(card))'
  BY <1>0, AboveStays DEF IInv, Disks, Above, Asked
<1> QED BY <1>2, <1>3, <1>4 DEF Disks

LEMMA DisksSaved ==
    ASSUME IInv, disk' = disk, card' = disk, slots' = slots,
           cardSlots' = slots, proven' = proven, approved' = approved
    PROVE  Disks'
<1>1. Launches(disk, slots)' /\ Launches(card, cardSlots)'
  BY DEF IInv, Disks, Launches, Grounded, Above
<1>2. Above(Floor(disk), Floor(card))'
  BY Typed DEF Above
<1> QED BY <1>1, <1>2 DEF Disks

LEMMA DisksLost ==
    ASSUME IInv, disk' = card, card' = card, slots' = cardSlots,
           cardSlots' = cardSlots, proven' = proven, approved' = approved
    PROVE  Disks'
<1>1. Launches(disk, slots)' /\ Launches(card, cardSlots)'
  BY DEF IInv, Disks, Launches, Grounded, Above
<1>2. Above(Floor(disk), Floor(card))'
  BY Typed DEF Above
<1> QED BY <1>1, <1>2 DEF Disks

LEMMA BeginsStore ==
    ASSUME JournalInv, NEW r \in Records, BeginStore(r),
           disk' = disk, card' \in {card, disk}
    PROVE  /\ JournalInv' /\ store'.record = {r}
           /\ store'.phase \in {"Remove", "Failed"}
<1>1. JournalInv'
  <2> USE DEF JournalInv, JournalTypeOK
  <2>1. {r} \in CopyFiles
    BY DEF CopyFiles
  <2>2. Target \in Copies
    BY SelectedCases DEF Target, Copies
  <2>3. CASE CanStore(r) /\ store' = [phase |-> "Remove", target |-> Target,
                                      record |-> {r}]
    <3>1. JournalTypeOK'
      BY <2>1, <2>2, <2>3 DEF StorePhases
    <3>2. Load(disk)' = Load(disk) /\ Selected(disk)' = Selected(disk)
      BY DEF Load, Selected
    <3>3. store'.record = {r} /\ store'.target = Target
      BY <2>3
    <3>4. /\ \A current \in Load(disk) : r.generation > current.generation
          /\ Load(disk) # {} => Target = 1 - Selected(disk)
      BY <2>3 DEF CanStore, Target
    <3>5. ReplacesStaleCopy'
      BY <3>2, <3>3, <3>4 DEF ReplacesStaleCopy
    <3> QED BY <3>1, <3>5
  <2>4. CASE store' = [phase |-> "Failed", target |-> Target, record |-> {r}]
    BY <2>1, <2>2, <2>4 DEF StorePhases, ReplacesStaleCopy
  <2> QED BY <2>3, <2>4 DEF BeginStore
<1> QED BY <1>1 DEF BeginStore

SlotTypes == /\ slots \in [SlotNames -> Images \cup {0}]
             /\ cardSlots \in [SlotNames -> Images \cup {0}]

ProcTypes == /\ pc \in {"Off", "Dead"} \cup LauncherSteps \cup BrowserSteps
             /\ mem \in CopyFiles
             /\ boot \in [slot : SlotNames, why : Reasons]
             /\ healthPending \in BOOLEAN

InstallTypes == /\ session \in Sessions
                /\ job \in [phase : {"None", "Running", "Complete"},
                            slot : SlotNames, image : Images \cup {0},
                            retired : Images \cup {0}]

GhostTypes == /\ proven \subseteq Images
              /\ approved \subseteq Releases
              /\ tried \in [starts : 0..2, flushed : BOOLEAN]

LEMMA TypesAre ==
    TypeOK <=> JournalTypeOK /\ SlotTypes /\ ProcTypes /\ InstallTypes
                   /\ GhostTypes
BY DEF TypeOK, SlotTypes, ProcTypes, InstallTypes, GhostTypes

LEMMA TypesNext ==
    (TypeOK <=> JournalTypeOK /\ SlotTypes /\ ProcTypes /\ InstallTypes
                    /\ GhostTypes)'
BY TypesAre, PTL

\* The parts of the invariant, so that a lemma shows those a step disturbs.
LEMMA PartsMake ==
    ASSUME JournalInv', SlotTypes', ProcTypes', InstallTypes', GhostTypes',
           Stores', Disks', Incoming', Launcher', Browser', Updating', Starts'
    PROVE  IInv'
BY TypesNext DEF IInv, JournalInv

LEMMA PartsAre ==
    IInv => /\ JournalInv /\ SlotTypes /\ ProcTypes /\ InstallTypes
            /\ GhostTypes /\ Stores /\ Disks /\ Incoming /\ Launcher
            /\ Browser /\ Updating /\ Starts
BY TypesAre DEF IInv, JournalInv

JournalKept == UNCHANGED journalVars

LEMMA JournalStays == JournalInv /\ JournalKept => JournalInv'
BY JournalNextInv DEF JournalKept

\* What is being stored is judged as before when the floor and the slots stay.
LEMMA IncomingKept ==
    ASSUME IInv, store' = store, The(disk') = The(disk), Asked,
           disk' \in [Copies -> CopyFiles],
           \A r \in store.record :
               store.phase \in {"Remove", "Rename"} =>
                   slots'[r.active] = slots[r.active]
    PROVE  Incoming'
<1> SUFFICES ASSUME store.phase \in {"Remove", "Rename"},
                    NEW r \in store.record
             PROVE  /\ slots'[r.active] \in proven'
                    /\ (Grounded(r) /\ Above(r.installed, Floor(disk)))'
  BY DEF Incoming
<1>1. /\ slots[r.active] \in proven /\ Grounded(r)
      /\ Above(r.installed, Floor(disk))
  BY DEF IInv, Incoming
<1>2. Floor(disk') = Floor(disk)
  BY Typed, TheIs
<1>3. slots'[r.active] \in proven'
  BY <1>1 DEF Asked
<1>4. Grounded(r)'
  BY <1>1, GroundedStays DEF Grounded, Above
<1>5. Above(r.installed, Floor(disk))'
  BY <1>1, <1>2, AboveStays DEF Above, Asked
<1> QED BY <1>3, <1>4, <1>5

-----------------------------------------------------------------------------
\* The card: written back, lost, and the steps of a store.

LEMMA WriteBackKeeps == IInv /\ DriverWritesBack => IInv'
<1> SUFFICES ASSUME IInv, DriverWritesBack PROVE IInv'
  OBVIOUS
<1>0. /\ JournalInv /\ SlotTypes /\ ProcTypes /\ InstallTypes
      /\ GhostTypes /\ Stores /\ Incoming /\ Launcher
      /\ Browser /\ Updating /\ Starts
  BY PartsAre
<1>1. /\ card' = disk /\ cardSlots' = slots
      /\ disk' = disk /\ store' = store /\ slots' = slots
      /\ pc' = pc /\ mem' = mem /\ boot' = boot
      /\ healthPending' = healthPending /\ session' = session /\ job' = job
      /\ proven' = proven /\ approved' = approved /\ tried' = tried
  BY DEF DriverWritesBack, Writeback, procVars, installVars, ghostVars
<1>2. JournalInv'
  BY <1>0, <1>1, JournalNextInv DEF JournalNext, Writeback
<1>3. Disks'
  BY <1>1, DisksSaved
<1>4. Incoming'
  BY <1>1, IncomingKept, Typed DEF Asked
<1>5. SlotTypes' /\ ProcTypes' /\ InstallTypes' /\ GhostTypes'
  BY <1>0, <1>1 DEF SlotTypes, ProcTypes, InstallTypes, GhostTypes
<1>6. Stores'
  BY <1>0, <1>1 DEF Stores
<1>7. Launcher'
  BY <1>0, <1>1 DEF Launcher, SameBase, Grounded, Above, running, AwaitsHealth
<1>8. Browser'
  BY <1>0, <1>1 DEF Browser, running, AwaitsHealth
<1>9. Updating'
  BY <1>0, <1>1 DEF Updating, SameBase, InactiveSlot, Above
<1>10. Starts'
  BY <1>0, <1>1 DEF Starts, NotPending, OneUnattendedTrial
<1> QED BY <1>2, <1>3, <1>4, <1>5, <1>6, <1>7, <1>8, <1>9, <1>10, PartsMake
-----------------------------------------------------------------------------
\* A program that stopped leaves only what is on the disk and the card.
LEMMA RestKeeps ==
    ASSUME IInv, Stopped, store'.phase = "None", JournalInv', Disks',
           SlotTypes', tried' = tried, proven' = proven,
           approved' = approved, Load(disk)' \in {Load(disk), Load(card)},
           Load(card)' = Load(card)
    PROVE  IInv'
<1>0. GhostTypes /\ Starts
  BY PartsAre
<1>1. /\ pc' = "Off" /\ mem' = {} /\ boot' = NoBoot /\ healthPending' = FALSE
      /\ session' = {} /\ job' = NoJob
  BY DEF Stopped
<1>2. ProcTypes'
  BY <1>1 DEF ProcTypes, NoBoot, Reasons, SlotNames, CopyFiles
<1>3. InstallTypes'
  BY <1>1 DEF InstallTypes, NoJob, Sessions, SlotNames
<1>4. GhostTypes'
  BY <1>0 DEF GhostTypes
<1>5. Stores'
  BY <1>1 DEF Stores, StoreSteps, LauncherStores
<1>6. Incoming'
  BY DEF Incoming
<1>7. Launcher'
  BY <1>1 DEF Launcher, Deciding, LauncherSteps, Starting, BrowserSteps
<1>8. Browser'
  BY <1>1 DEF Browser, BrowserSteps
<1>9. Updating'
  BY <1>1 DEF Updating, InstallSteps
<1>10. Starts'
  BY <1>0, <1>1 DEF Starts, NotPending, OneUnattendedTrial, Deciding,
                    LauncherSteps, Starting
<1> QED BY <1>2, <1>3, <1>4, <1>5, <1>6, <1>7, <1>8, <1>9, <1>10, PartsMake

LEMMA PowerLossKeeps == IInv /\ PowerLoss => IInv'
<1> SUFFICES ASSUME IInv, PowerLoss PROVE IInv'
  OBVIOUS
<1>0. JournalInv /\ SlotTypes
  BY PartsAre
<1>1. /\ disk' = card /\ card' = card /\ store' = NoStore
      /\ slots' = cardSlots /\ cardSlots' = cardSlots /\ Stopped
      /\ proven' = proven /\ approved' = approved /\ tried' = tried
  BY DEF PowerLoss, LosePower, ghostVars
<1>2. JournalInv'
  BY <1>0, <1>1, JournalNextInv DEF JournalNext, LosePower
<1>3. Disks'
  BY <1>1, DisksLost
<1>4. SlotTypes'
  BY <1>0, <1>1 DEF SlotTypes
<1>5. store'.phase = "None"
  BY <1>1 DEF NoStore
<1>6. Load(disk)' = Load(card) /\ Load(card)' = Load(card)
  BY <1>1 DEF Load, Selected
<1> QED BY <1>1, <1>2, <1>3, <1>4, <1>5, <1>6, RestKeeps

LEMMA LeaveKeeps == IInv /\ Leave => IInv'
<1> SUFFICES ASSUME IInv, Leave PROVE IInv'
  OBVIOUS
<1>0. JournalInv /\ SlotTypes /\ Stores
  BY PartsAre
<1>1. /\ disk' = disk /\ card' = card /\ store' = store
      /\ slots' = slots /\ cardSlots' = cardSlots /\ Stopped
      /\ proven' = proven /\ approved' = approved /\ tried' = tried
      /\ pc \in {"Browser", "Dead"}
  BY DEF Leave, journalVars, slotVars, ghostVars
<1>2. JournalInv'
  BY <1>0, <1>1, JournalStays DEF JournalKept, journalVars
<1>3. Disks'
  BY <1>1, DisksKept DEF Asked
<1>4. SlotTypes'
  BY <1>0, <1>1 DEF SlotTypes
<1>5. store'.phase = "None"
  BY <1>0, <1>1 DEF Stores, StoreSteps, LauncherStores
<1>6. Load(disk)' = Load(disk) /\ Load(card)' = Load(card)
  BY <1>1 DEF Load, Selected
<1> QED BY <1>1, <1>2, <1>3, <1>4, <1>5, <1>6, RestKeeps
StoreStays == /\ card' = card /\ slots' = slots /\ cardSlots' = cardSlots
              /\ pc' = pc /\ mem' = mem /\ boot' = boot
              /\ healthPending' = healthPending /\ session' = session
              /\ job' = job /\ proven' = proven /\ approved' = approved
              /\ tried' = tried

LEMMA StoreStepStays == StoreStep => StoreStays
BY DEF StoreStep, StoreStays, slotVars, procVars, installVars, ghostVars

\* A step of the store after which the same record is read.
LEMMA QuietStoreKeeps ==
    ASSUME IInv, StoreStays, JournalInv', Load(disk') = Load(disk),
           store.phase \in {"Remove", "Rename"},
           store'.phase \in {"Rename", "Failed"},
           store'.record = store.record
    PROVE  IInv'
<1>0. /\ JournalInv /\ SlotTypes /\ ProcTypes /\ InstallTypes
      /\ GhostTypes /\ Stores /\ Incoming /\ Launcher
      /\ Browser /\ Updating /\ Starts
  BY PartsAre
<1>1. /\ The(disk') = The(disk) /\ Found(disk') = Found(disk)
      /\ Floor(disk') = Floor(disk) /\ Load(card') = Load(card)
  BY SameLoad DEF StoreStays
<1>3. Disks'
  BY <1>1, DisksKept DEF Asked, StoreStays
<1>4. Incoming'
  BY <1>0, <1>1 DEF Incoming, StoreStays, Grounded, Above
<1>5. SlotTypes' /\ ProcTypes' /\ InstallTypes' /\ GhostTypes'
  BY <1>0 DEF SlotTypes, ProcTypes, InstallTypes, GhostTypes, StoreStays
<1>6. Stores'
  BY <1>0 DEF Stores, StoreStays
<1>7. Launcher'
  BY <1>0, <1>1 DEF Launcher, SameBase, Grounded, Above, running,
                    AwaitsHealth, StoreStays
<1>8. Browser'
  BY <1>0 DEF Browser, running, AwaitsHealth, StoreStays
<1>9. Updating'
  BY <1>0, <1>1 DEF Updating, SameBase, InactiveSlot, Above, StoreStays
<1>10. Starts'
  BY <1>0, <1>1 DEF Starts, NotPending, OneUnattendedTrial, StoreStays
<1> QED BY <1>3, <1>4, <1>5, <1>6, <1>7, <1>8, <1>9, <1>10, PartsMake

\* The new record takes its name and is the one that is read.
LEMMA RenameKeeps ==
    ASSUME IInv, RenameNew, StoreStays
    PROVE  IInv'
<1>0. /\ JournalInv /\ SlotTypes /\ ProcTypes /\ InstallTypes
      /\ GhostTypes /\ Stores /\ Disks /\ Incoming /\ Launcher
      /\ Browser /\ Updating /\ Starts
  BY PartsAre
<1>1. store.phase = "Rename" /\ store'.phase = "Sync"
      /\ store'.record = store.record
  BY <1>0 DEF RenameNew, JournalInv, JournalTypeOK
<1>2. JournalInv'
  BY <1>0, JournalNextInv DEF JournalNext, FileStep, StoreStays
<1>3. PICK r \in Records : store.record = {r} /\ Load(disk') = {r}
  <2>1. Register!Write
    BY <1>0, RenameImplements DEF StoreStays
  <2>2. PICK r \in Records : store.record = {r}
    BY <1>0, <1>1 DEF Stores
  <2>3. store.target \in Copies /\ disk \in [Copies -> CopyFiles]
    BY <1>0 DEF JournalInv, JournalTypeOK
  <2>4. /\ \A current \in Load(disk) : r.generation > current.generation
        /\ Load(disk) # {} => store.target = 1 - Selected(disk)
    BY <1>0, <1>1, <2>2 DEF JournalInv, ReplacesStaleCopy
  <2>5. Load([disk EXCEPT ![store.target] = {r}]) = {r}
    BY <2>3, <2>4, RenameIsRead
  <2> QED BY <2>2, <2>5 DEF RenameNew
<1>4. The(disk') = r /\ Floor(disk') = r.installed
  BY <1>3 DEF The, Found, Floor
<1>5. pc \in StoreSteps
  BY <1>0, <1>1 DEF Stores
<1>6. Disks'
  <2>1. slots[r.active] \in proven /\ Grounded(r)
        /\ Above(r.installed, Floor(disk))
    BY <1>0, <1>1, <1>3 DEF Incoming
  <2>2. Launches(disk, slots)'
    BY <1>3, <1>4, <2>1 DEF Launches, StoreStays, Grounded, Above
  <2>3. Launches(card, cardSlots)'
    BY <1>0 DEF Disks, Launches, StoreStays, Grounded, Above
  <2>4. r.installed \in Nat
    BY RecordIs
  <2>5. Above(r.installed, Floor(card))
    BY <1>0, <2>1, <2>4, AboveIs, Typed DEF Disks
  <2> QED BY <1>4, <2>2, <2>3, <2>5 DEF Disks, Above, StoreStays
<1>7. Incoming'
  BY <1>1 DEF Incoming
<1>8. SlotTypes' /\ ProcTypes' /\ InstallTypes' /\ GhostTypes'
  BY <1>0 DEF SlotTypes, ProcTypes, InstallTypes, GhostTypes, StoreStays
<1>9. Stores'
  BY <1>0, <1>1, <1>3 DEF Stores, StoreStays
<1>10. Launcher'
  <2>1. pc \in LauncherStores => mem = {r}
    BY <1>0, <1>3 DEF Stores
  <2>2. pc \in Deciding => pc \in LauncherStores /\ pc # "Decide"
    BY <1>5 DEF StoreSteps, LauncherStores, Deciding, LauncherSteps
  <2>3. pc # "HandOff" /\ pc # "Decide"
    BY <1>5 DEF StoreSteps, LauncherStores
  <2>4. pc \in Deciding => Grounded(r)
    BY <1>0, <2>1, <2>2 DEF Launcher
  <2> QED BY <1>0, <1>3, <1>4, <2>1, <2>2, <2>3, <2>4
          DEF Launcher, StoreStays, SameBase, Grounded, Above
<1>11. Browser'
  BY <1>0, <1>1, <1>5
     DEF Browser, StoreStays, running, AwaitsHealth
<1>12. Updating'
  <2>1. session # {} => pc = "PendingStore"
    BY <1>0, <1>5 DEF Updating, Browser, StoreSteps, LauncherStores,
                      BrowserSteps
  <2>2. ASSUME session # {} PROVE \A s \in session : SameBase(s.record, r)
    <3>1. PICK s \in session : SameBase(r, s.record)
      BY <1>0, <1>3, <2>1, <2>2 DEF Updating, InstallSteps
    <3>2. session = {s}
      BY <1>0, <3>1 DEF InstallTypes, Sessions
    <3> QED BY <3>1, <3>2 DEF SameBase
  <2> QED BY <1>0, <1>1, <1>4, <2>2
          DEF Updating, StoreStays, SameBase, InactiveSlot, Above
<1>13. Starts'
  BY <1>0, <1>1, <1>3 DEF Starts, NotPending, OneUnattendedTrial, StoreStays
<1> QED BY <1>2, <1>6, <1>7, <1>8, <1>9, <1>10, <1>11, <1>12, <1>13, PartsMake

LEMMA StoreStepKeeps == IInv /\ StoreStep => IInv'
<1> SUFFICES ASSUME IInv, StoreStep PROVE IInv'
  OBVIOUS
<1>0. JournalInv /\ StoreStays
  BY PartsAre, StoreStepStays
<1>1. CASE StoreFails
  <2>1. JournalInv'
    BY <1>0, <1>1, JournalNextInv DEF JournalNext, FileStep, StoreStays
  <2>2. /\ store.phase \in {"Remove", "Rename"} /\ store'.phase = "Failed"
        /\ store'.record = store.record /\ Load(disk') = Load(disk)
    BY <1>0, <1>1 DEF StoreFails, JournalInv, JournalTypeOK
  <2> QED BY <1>0, <2>1, <2>2, QuietStoreKeeps
<1>2. CASE RemoveStale
  <2>1. JournalInv'
    BY <1>0, <1>2, JournalNextInv DEF JournalNext, FileStep, StoreStays
  <2>2. /\ store.phase \in {"Remove", "Rename"} /\ store'.phase = "Rename"
        /\ store'.record = store.record
    BY <1>0, <1>2 DEF RemoveStale, JournalInv, JournalTypeOK
  <2>3. Load(disk') = Load(disk)
    BY <1>0, <1>2, RemoveImplements DEF StoreStays, Load, Selected
  <2> QED BY <1>0, <2>1, <2>2, <2>3, QuietStoreKeeps
<1>3. CASE RenameNew
  BY <1>0, <1>3, RenameKeeps
<1> QED BY <1>1, <1>2, <1>3 DEF StoreStep
\* The sync: what it saves, and what it says of the start it records.
LEMMA StoreSyncKeeps == IInv /\ StoreSync => IInv'
<1> SUFFICES ASSUME IInv, NEW accepted \in Syncs,
                    SyncStore(accepted),
                    cardSlots' = IF accepted THEN slots ELSE cardSlots,
                    tried' = [tried EXCEPT !.flushed =
                        @ /\ (accepted \/ pc \notin {"StartStore", "RestartStore"})],
                    UNCHANGED <<slots, procVars, installVars, proven, approved>>
             PROVE  IInv'
  BY DEF StoreSync
<1>0. /\ JournalInv /\ SlotTypes /\ ProcTypes /\ InstallTypes
      /\ GhostTypes /\ Stores /\ Disks /\ Incoming /\ Launcher
      /\ Browser /\ Updating /\ Starts
  BY PartsAre
<1>1. /\ disk' = disk /\ slots' = slots /\ pc' = pc /\ mem' = mem
      /\ boot' = boot /\ healthPending' = healthPending
      /\ session' = session /\ job' = job
      /\ proven' = proven /\ approved' = approved
  BY DEF SyncStore, procVars, installVars
<1>2. /\ store.phase = "Sync" /\ store'.phase = "Done"
      /\ store'.record = store.record
      /\ \/ ~accepted /\ card' = card /\ cardSlots' = cardSlots
         \/ accepted /\ card' = disk /\ cardSlots' = slots
  BY <1>0 DEF SyncStore, JournalInv, JournalTypeOK
<1>3. JournalInv'
  BY <1>0, JournalNextInv DEF JournalNext
<1>4. Load(disk') = Load(disk) /\ The(disk') = The(disk)
      /\ Floor(disk') = Floor(disk) /\ Found(disk') = Found(disk)
  BY <1>1
<1>5. Disks'
  BY <1>1, <1>2, <1>4, DisksKept, DisksSaved DEF Asked
<1>6. Incoming'
  BY <1>2 DEF Incoming
<1>7. /\ tried'.starts = tried.starts /\ tried'.flushed \in BOOLEAN
      /\ tried'.flushed => tried.flushed
      /\ tried'.flushed /\ pc \in Starting => accepted
      /\ tried' \in [starts : 0..2, flushed : BOOLEAN]
  <2>1. PICK f \in BOOLEAN :
           f = (tried.flushed /\ (accepted \/ pc \notin {"StartStore", "RestartStore"}))
    OBVIOUS
  <2>2. tried' = [tried EXCEPT !.flushed = f]
    BY <2>1
  <2> QED BY <1>0, <2>1, <2>2 DEF GhostTypes, Starting
<1>8. SlotTypes' /\ ProcTypes' /\ InstallTypes' /\ GhostTypes'
  BY <1>0, <1>1, <1>2, <1>7 DEF SlotTypes, ProcTypes, InstallTypes, GhostTypes
<1>9. Stores'
  BY <1>0, <1>1, <1>2, <1>4 DEF Stores
<1>10. Launcher'
  BY <1>0, <1>1, <1>4 DEF Launcher, SameBase, Grounded, Above, running,
                          AwaitsHealth
<1>11. Browser'
  BY <1>0, <1>1, <1>2, <1>4 DEF Browser, running, AwaitsHealth
<1>12. Updating'
  BY <1>0, <1>1, <1>2, <1>4 DEF Updating, SameBase, InactiveSlot, Above
<1>13. Starts'
  <2>1. Load(card') = Load(card) \/ Load(card') = Load(disk)
    BY <1>2
  <2>2. accepted => Load(card') = Load(disk)
    BY <1>2
  <2>3. OneUnattendedTrial'
    BY <1>0, <1>7 DEF Starts, OneUnattendedTrial
  <2> QED BY <1>0, <1>1, <1>2, <1>4, <1>7, <2>1, <2>2, <2>3
          DEF Starts, NotPending
<1> QED BY <1>3, <1>5, <1>6, <1>8, <1>9, <1>10, <1>11, <1>12, <1>13, PartsMake

-----------------------------------------------------------------------------
\* The launcher.

LEMMA PowerOnKeeps == IInv /\ PowerOn => IInv'
<1> SUFFICES ASSUME IInv, PowerOn PROVE IInv'
  OBVIOUS
<1>0. /\ JournalInv /\ SlotTypes /\ ProcTypes /\ InstallTypes
      /\ GhostTypes /\ Stores /\ Disks /\ Incoming /\ Launcher
      /\ Browser /\ Updating /\ Starts
  BY PartsAre
<1>1. /\ pc = "Off" /\ pc' = "Decide" /\ mem' = Found(disk)
      /\ disk' = disk /\ card' = card /\ store' = store
      /\ slots' = slots /\ cardSlots' = cardSlots /\ boot' = boot
      /\ healthPending' = healthPending /\ session' = session /\ job' = job
      /\ proven' = proven /\ approved' = approved /\ tried' = tried
  BY DEF PowerOn, journalVars, slotVars, installVars, ghostVars
<1>2. /\ Load(disk') = Load(disk) /\ Load(card') = Load(card)
      /\ The(disk') = The(disk) /\ Found(disk') = Found(disk)
  BY <1>1
<1>3. /\ Found(disk) = {The(disk)} /\ The(disk) \in Records
      /\ Load(disk) = {} => The(disk) = DefaultState("A", LauncherSequence)
      /\ Load(disk) # {} => Load(disk) = {The(disk)}
  BY Typed, TheIs
<1>4. JournalInv'
  BY <1>0, <1>1, JournalStays DEF JournalKept, journalVars
<1>5. Disks'
  BY <1>1, <1>2, DisksKept DEF Asked
<1>6. Incoming'
  BY <1>0, <1>1, <1>2 DEF Incoming, Stores, StoreSteps, LauncherStores
<1>7. SlotTypes' /\ ProcTypes' /\ InstallTypes' /\ GhostTypes'
  <2>1. mem' \in CopyFiles
    BY <1>1, <1>3 DEF CopyFiles
  <2> QED BY <1>0, <1>1, <2>1 
          DEF SlotTypes, ProcTypes, InstallTypes, GhostTypes, LauncherSteps
<1>8. Stores'
  BY <1>0, <1>1 DEF Stores, StoreSteps, LauncherStores
<1>9. Launcher'
  <2>1. Grounded(The(disk))
    BY <1>0 DEF Disks, Launches
  <2>2. Grounded(The(disk))'
    BY <1>1, <1>2, <2>1 DEF Grounded, Above
  <2>3. \E s \in Records : mem' = {s} /\ SameBase(s, The(disk'))
                               /\ Grounded(s)'
    <3>1. mem' = {The(disk)} /\ SameBase(The(disk), The(disk'))
      BY <1>1, <1>2, <1>3 DEF SameBase
    <3> QED BY <1>2, <1>3, <2>2, <3>1
  <2> QED BY <1>1, <1>2, <2>3
          DEF Launcher, Starting, BrowserSteps, SameBase
<1>10. Browser'
  BY <1>1 DEF Browser, BrowserSteps
<1>11. Updating'
  BY <1>0, <1>1 DEF Updating, InstallSteps, BrowserSteps
<1>12. Starts'
  <2>1. NotPending(Load(disk)) => NotPending(mem')
    BY <1>1, <1>3 DEF NotPending, DefaultState
  <2> QED BY <1>0, <1>1, <1>2, <2>1
          DEF Starts, NotPending, OneUnattendedTrial, Starting
<1> QED BY <1>4, <1>5, <1>6, <1>7, <1>8, <1>9, <1>10, <1>11, <1>12, PartsMake
\* What the launcher decides on.
LauncherStays == /\ disk' = disk /\ card' = card /\ slots' = slots
                 /\ cardSlots' = cardSlots /\ healthPending' = healthPending
                 /\ session' = session /\ job' = job
                 /\ proven' = proven /\ approved' = approved

LEMMA LauncherHolds ==
    ASSUME IInv, pc \in Deciding, NEW s \in mem
    PROVE  /\ s \in Records /\ mem = {s} /\ SameBase(s, The(disk))
           /\ Grounded(s) /\ session = {}
           /\ pc \in {"Decide", "Menu", "Verify"} => store.phase = "None"
           /\ Load(disk) = {} => /\ s.trial = "None" /\ s.previous = "None"
                                 /\ s.active = "A" /\ s.pending = "None"
           /\ tried.starts # 0 /\ tried.flushed => s.trial # "Pending"
<1>1. Launcher /\ Updating /\ Stores /\ Starts /\ JournalInv
  BY PartsAre
<1>2. s \in Records /\ mem = {s} /\ SameBase(s, The(disk)) /\ Grounded(s)
  BY <1>1 DEF Launcher
<1>3. session = {}
  BY <1>1 DEF Updating, Deciding, LauncherSteps, BrowserSteps
<1>4. pc \in {"Decide", "Menu", "Verify"} => store.phase = "None"
  BY <1>1 DEF Stores, StoreSteps, LauncherStores
<1>5. ASSUME Load(disk) = {}
      PROVE  /\ s.trial = "None" /\ s.previous = "None"
             /\ s.active = "A" /\ s.pending = "None"
  <2>1. mem = Found(disk)
    BY <1>1, <1>5 DEF Launcher
  <2>2. s = DefaultState("A", LauncherSequence)
    BY <1>2, <1>5, <2>1 DEF Found
  <2> QED BY <2>2 DEF DefaultState
<1>6. tried.starts # 0 /\ tried.flushed => s.trial # "Pending"
  BY <1>1 DEF Starts, NotPending
<1> QED BY <1>2, <1>3, <1>4, <1>5, <1>6

\* It changes its record and asks for it to be stored.
LEMMA LauncherAsks ==
    ASSUME IInv, pc \in {"Decide", "Menu", "Verify"}, LauncherStays,
           boot' = boot, tried' \in {tried, NotTried},
           NEW s \in mem, NEW r \in Records, NEW step \in LauncherStores,
           Storing(r, step), Load(disk) # {}, SameBase(r, s), Grounded(r),
           tried'.starts # 0 /\ tried'.flushed => r.trial # "Pending",
           step \in Starting =>
               /\ r.trial = "Started" /\ r.pending \in SlotNames
               /\ slots[r.pending] = r.candidate
               /\ tried'.starts = 0 \/ ~tried'.flushed
    PROVE  IInv'
<1>0. /\ JournalInv /\ SlotTypes /\ ProcTypes /\ InstallTypes
      /\ GhostTypes /\ Stores /\ Disks /\ Incoming /\ Launcher
      /\ Browser /\ Updating /\ Starts
  BY PartsAre
<1>1. /\ disk' = disk /\ card' = card /\ slots' = slots
      /\ cardSlots' = cardSlots /\ healthPending' = healthPending
      /\ session' = session /\ job' = job
      /\ proven' = proven /\ approved' = approved
      /\ mem' = {r} /\ pc' = step /\ BeginStore(r)
  BY DEF LauncherStays, Storing
<1>2. pc \in Deciding
  BY DEF Deciding, LauncherSteps
<1>3. /\ SameBase(s, The(disk)) /\ session = {}
  BY <1>2, LauncherHolds
<1>4. JournalInv' /\ store'.record = {r} /\ store'.phase \in {"Remove", "Failed"}
  BY <1>0, <1>1, BeginsStore
<1>5. /\ Load(disk') = Load(disk) /\ Load(card') = Load(card)
      /\ The(disk') = The(disk) /\ Floor(disk') = Floor(disk)
  BY <1>1
<1>6. SameBase(r, The(disk))
  BY <1>3 DEF SameBase
<1>7. step \in LauncherSteps /\ step \in StoreSteps /\ step \in Deciding
      /\ step \notin BrowserSteps /\ step # "Decide" /\ step # "HandOff"
  BY DEF LauncherStores, LauncherSteps, StoreSteps, Deciding, BrowserSteps
<1>8. Disks'
  BY <1>1, <1>5, DisksKept DEF Asked
<1>9. Incoming'
  <2>1. slots[r.active] \in proven
    BY <1>0, <1>6 DEF Disks, Launches, SameBase
  <2>2. r.installed = Floor(disk) /\ Floor(disk) \in Nat
    BY <1>6, Typed, TheIs DEF SameBase
  <2>3. Above(r.installed, Floor(disk))
    BY <2>2 DEF Above
  <2> QED BY <1>1, <1>4, <1>5, <2>1, <2>3 DEF Incoming, Grounded, Above
<1>10. SlotTypes' /\ ProcTypes' /\ InstallTypes' /\ GhostTypes'
  <2>1. mem' \in CopyFiles
    BY <1>1 DEF CopyFiles
  <2>2. NotTried \in [starts : 0..2, flushed : BOOLEAN]
    BY DEF NotTried
  <2> QED BY <1>0, <1>1, <1>7, <2>1, <2>2
          DEF SlotTypes, ProcTypes, InstallTypes, GhostTypes
<1>11. Stores'
  BY <1>1, <1>4, <1>7 DEF Stores
<1>12. Launcher'
  <2>1. mem' = {r} /\ SameBase(r, The(disk')) /\ Grounded(r)'
    BY <1>1, <1>5, <1>6 DEF Grounded, Above, SameBase
  <2>2. pc' \in Deciding => \E q \in Records :
              mem' = {q} /\ SameBase(q, The(disk')) /\ Grounded(q)'
    BY <1>1, <2>1 DEF SameBase
  <2>3. pc' \in Starting => r.trial = "Started" /\ r.pending \in SlotNames
                                /\ slots'[r.pending] = r.candidate
    BY <1>1
  <2> QED BY <1>1, <1>5, <1>7, <2>1, <2>2, <2>3 DEF Launcher, SameBase
<1>13. Browser'
  BY <1>1, <1>7 DEF Browser, LauncherStores
<1>14. Updating'
  BY <1>1, <1>3, <1>7 DEF Updating, InstallSteps, LauncherStores
<1>15. Starts'
  <2>1. OneUnattendedTrial'
    BY <1>0 DEF Starts, OneUnattendedTrial, NotTried
  <2>2. tried'.starts # 0 /\ tried'.flushed => tried' = tried
    BY DEF NotTried
  <2>3. store'.phase # "Done"
    BY <1>4
  <2> QED BY <1>0, <1>1, <1>4, <1>5, <2>1, <2>2, <2>3
          DEF Starts, NotPending, Starting
<1> QED BY <1>4, <1>8, <1>9, <1>10, <1>11, <1>12, <1>13, <1>14, <1>15, PartsMake

\* It goes on with the record it has, to a menu, a verification or a slot.
LEMMA LauncherGoes ==
    ASSUME IInv, pc \in Deciding, LauncherStays, mem' = mem,
           NEW s \in mem, JournalInv', store'.phase = "None",
           boot' \in [slot : SlotNames, why : Reasons],
           tried' \in [starts : 0..2, flushed : BOOLEAN], Starts',
           pc' \in {"Menu", "Verify", "HandOff"},
           pc' # "HandOff" => Load(disk) # {},
           pc' = "HandOff" =>
               /\ boot'.why = "Current" => boot'.slot = s.active
               /\ boot'.why = "Previous" => boot'.slot = s.previous
               /\ boot'.why = "Trial" =>
                      /\ Load(disk) = {s} /\ s.trial = "Started"
                      /\ s.pending = boot'.slot
                      /\ slots[s.pending] = s.candidate
    PROVE  IInv'
<1>0. /\ JournalInv /\ SlotTypes /\ ProcTypes /\ InstallTypes
      /\ GhostTypes /\ Stores /\ Disks /\ Incoming /\ Launcher
      /\ Browser /\ Updating /\ Starts
  BY PartsAre
<1>1. /\ disk' = disk /\ card' = card /\ slots' = slots
      /\ cardSlots' = cardSlots /\ healthPending' = healthPending
      /\ session' = session /\ job' = job
      /\ proven' = proven /\ approved' = approved
  BY DEF LauncherStays
<1>3. /\ s \in Records /\ mem = {s} /\ SameBase(s, The(disk))
      /\ Grounded(s) /\ session = {}
      /\ Load(disk) = {} => s.active = "A" /\ s.previous = "None"
                                /\ s.trial = "None"
  BY LauncherHolds
<1>5. /\ Load(disk') = Load(disk) /\ Load(card') = Load(card)
      /\ The(disk') = The(disk) /\ Floor(disk') = Floor(disk)
  BY <1>1
<1>7. pc' \in LauncherSteps /\ pc' \notin StoreSteps /\ pc' \notin Starting
      /\ pc' \notin BrowserSteps /\ pc' # "Decide" /\ pc' # "ConfirmStore"
      /\ pc' \notin InstallSteps /\ pc' \notin {"RaiseStore", "ConfirmStore"}
      /\ pc' \notin LauncherStores
  BY DEF LauncherStores, LauncherSteps, StoreSteps, Starting, BrowserSteps,
         InstallSteps
<1>8. Disks'
  BY <1>1, <1>5, DisksKept DEF Asked
<1>9. Incoming'
  BY DEF Incoming
<1>10. SlotTypes' /\ ProcTypes' /\ InstallTypes' /\ GhostTypes'
  BY <1>0, <1>1, <1>7 DEF SlotTypes, ProcTypes, InstallTypes, GhostTypes
<1>11. Stores'
  BY <1>7 DEF Stores
<1>12. Launcher'
  <2>1. pc' \in Deciding => Load(disk') # {} /\ \E q \in Records :
              mem' = {q} /\ SameBase(q, The(disk')) /\ Grounded(q)'
    <3>1. mem' = {s} /\ SameBase(s, The(disk')) /\ Grounded(s)'
      BY <1>1, <1>3, <1>5 DEF SameBase, Grounded, Above
    <3> QED BY <1>3, <1>5, <3>1 DEF Deciding
  <2>2. pc' = "HandOff" =>
            /\ boot'.why = "Current" => boot'.slot = The(disk').active
            /\ boot'.why = "Trial" =>
                  \E r \in Load(disk') :
                      (AwaitsHealth(r) /\ r.candidate = slots[running])'
            /\ Load(disk') = {} => boot'.slot = "A"
    <3> SUFFICES ASSUME pc' = "HandOff"
                 PROVE  /\ boot'.why = "Current" =>
                               boot'.slot = The(disk').active
                        /\ boot'.why = "Trial" =>
                              \E r \in Load(disk') :
                                  (AwaitsHealth(r) /\ r.candidate = slots[running])'
                        /\ Load(disk') = {} => boot'.slot = "A"
      OBVIOUS
    <3>1. boot'.why = "Current" => boot'.slot = The(disk').active
      BY <1>3, <1>5 DEF SameBase
    <3>2. boot'.why = "Trial" =>
              \E r \in Load(disk') :
                  (AwaitsHealth(r) /\ r.candidate = slots[running])'
      BY <1>1, <1>5 DEF AwaitsHealth, running
    <3>3. Load(disk') = {} => boot'.slot = "A"
      <4>1. boot'.slot \in SlotNames /\ boot'.why \in Reasons
        OBVIOUS
      <4> QED BY <1>3, <1>5, <4>1 DEF SlotNames, Reasons
    <3> QED BY <3>1, <3>2, <3>3
  <2> QED BY <1>7, <2>1, <2>2 DEF Launcher, running, SameBase
<1>13. Browser'
  BY <1>7 DEF Browser
<1>14. Updating'
  BY <1>1, <1>3, <1>7 DEF Updating
<1> QED BY <1>8, <1>9, <1>10, <1>11, <1>12, <1>13, <1>14, PartsMake
\* The records a launcher writes keep the active slot and the floor.
LEMMA StartIs ==
    ASSUME NEW s \in Records, CanStartTrial(s)
    PROVE  /\ StartTrial(s) \in Records /\ SameBase(StartTrial(s), s)
           /\ StartTrial(s).trial = "Started"
           /\ StartTrial(s).pending = s.pending /\ s.pending \in SlotNames
           /\ StartTrial(s).candidate = s.candidate
           /\ Grounded(s) => Grounded(StartTrial(s))
<1>1. s.generation + 1 \in 0..MaxGeneration /\ s.pending \in SlotNames
  BY RecordIs, UpdateAssumption DEF CanStartTrial
<1>2. PICK g \in 0..MaxGeneration : g = s.generation + 1
  BY <1>1
<1>3. StartTrial(s) = [s EXCEPT !.generation = g, !.trial = "Started",
                                !.downgrade = FALSE]
  BY <1>2 DEF StartTrial
<1>4. /\ StartTrial(s) \in Records /\ SameBase(StartTrial(s), s)
      /\ StartTrial(s).trial = "Started"
      /\ StartTrial(s).pending = s.pending
      /\ StartTrial(s).candidate = s.candidate
  BY <1>3 DEF Records, Trials, SameBase
<1>5. s.trial # "None"
  BY DEF CanStartTrial
<1> QED BY <1>1, <1>4, <1>5 DEF Grounded, SameBase

LEMMA RetryIs ==
    ASSUME NEW s \in Records, CanRetryTrial(s)
    PROVE  /\ RetryTrial(s) \in Records /\ SameBase(RetryTrial(s), s)
           /\ Grounded(s) => Grounded(RetryTrial(s))
<1>1. s.generation + 1 \in 0..MaxGeneration
  BY RecordIs, UpdateAssumption DEF CanRetryTrial
<1>2. PICK g \in 0..MaxGeneration : g = s.generation + 1
  BY <1>1
<1>3. PICK d \in BOOLEAN : d = (/\ s.candidate # DeveloperSequence
                                /\ s.candidate < s.installed)
  OBVIOUS
<1>4. RetryTrial(s) = [s EXCEPT !.generation = g, !.trial = "Pending",
                                !.downgrade = d]
  BY <1>2, <1>3 DEF RetryTrial
<1>5. /\ RetryTrial(s) \in Records /\ SameBase(RetryTrial(s), s)
      /\ RetryTrial(s).candidate = s.candidate
  BY <1>4 DEF Records, Trials, SameBase
<1>6. s.trial # "None"
  BY DEF CanRetryTrial
<1> QED BY <1>5, <1>6 DEF Grounded, SameBase

LEMMA DiscardIs ==
    ASSUME NEW s \in Records, CanDiscardTrial(s)
    PROVE  /\ DiscardTrial(s) \in Records /\ SameBase(DiscardTrial(s), s)
           /\ DiscardTrial(s).trial = "None" /\ Grounded(DiscardTrial(s))
<1>1. s.generation + 1 \in 0..MaxGeneration
  BY RecordIs, UpdateAssumption DEF CanDiscardTrial
<1>2. PICK g \in 0..MaxGeneration : g = s.generation + 1
  BY <1>1
<1>3. DiscardTrial(s) = [s EXCEPT !.generation = g, !.pending = "None",
                !.trial = "None", !.candidate = 0, !.downgrade = FALSE]
  BY <1>2 DEF DiscardTrial
<1>4. /\ DiscardTrial(s) \in Records /\ SameBase(DiscardTrial(s), s)
      /\ DiscardTrial(s).trial = "None"
  BY <1>3 DEF Records, Trials, SameBase
<1> QED BY <1>4 DEF Grounded

LEMMA DecideIs ==
    ASSUME NEW s \in Records, NEW held \in BOOLEAN, NEW verified \in BOOLEAN,
           NEW d, d = BootDecide(s, held, verified)
    PROVE  /\ d.action = "StartTrial" => s.trial = "Pending" /\ verified
           /\ d.action = "Active" => d.slot = s.active
           /\ d.action = "Previous" => d.slot = s.previous /\ s.previous # "None"
           /\ d.action = "Recovery" /\ s.trial # "Pending" => s.trial = "Started"
<1>1. CASE held /\ s.previous # "None"
  <2>1. d = Boot("Previous", s.previous)
    BY <1>1 DEF BootDecide
  <2>2. d.action = "Previous" /\ d.slot = s.previous
    BY <2>1 DEF Boot
  <2> QED BY <1>1, <2>2
<1>2. CASE ~(held /\ s.previous # "None")
  <2>0. s.trial \in {"None", "Pending", "Started"}
    BY RecordIs DEF Trials
  <2>1. CASE s.trial = "Started"
    <3>1. d = Boot("Recovery", s.active)
      BY <1>2, <2>1 DEF BootDecide
    <3> QED BY <2>1, <3>1 DEF Boot
  <2>2. CASE s.trial = "Pending" /\ verified
    <3>1. d = Boot("StartTrial", s.pending)
      BY <1>2, <2>2 DEF BootDecide
    <3>2. d.action = "StartTrial"
      BY <3>1 DEF Boot
    <3> QED BY <2>2, <3>2
  <2>3. CASE s.trial = "Pending" /\ ~verified
    <3>1. d = Boot("Recovery", s.active)
      BY <1>2, <2>3 DEF BootDecide
    <3> QED BY <2>3, <3>1 DEF Boot
  <2>4. CASE s.trial = "None"
    <3>1. d = Boot("Active", s.active)
      BY <1>2, <2>4 DEF BootDecide
    <3> QED BY <2>4, <3>1 DEF Boot
  <2> QED BY <2>0, <2>1, <2>2, <2>3, <2>4
<1> QED BY <1>1, <1>2

\* The launcher goes on without having stored anything.
LEMMA LauncherMoves ==
    ASSUME IInv, pc \in {"Decide", "Menu", "Verify"}, LauncherStays,
           UNCHANGED <<mem, journalVars, tried>>, NEW s \in mem,
           \/ pc' = "Menu" /\ boot' = boot /\ Load(disk) # {}
           \/ \E slot \in SlotNames, why \in {"Current", "Previous"} :
                  /\ GoTo(slot, why)
                  /\ why = "Current" => slot = s.active
                  /\ why = "Previous" => slot = s.previous
    PROVE  IInv'
<1>0. JournalInv /\ ProcTypes /\ GhostTypes /\ Stores /\ Starts
  BY PartsAre
<1>1. pc \in Deciding /\ pc \notin StoreSteps
  BY DEF Deciding, LauncherSteps, StoreSteps, LauncherStores
<1>2. JournalInv'
  BY <1>0, JournalStays DEF JournalKept
<1>3. store'.phase = "None"
  BY <1>0, <1>1 DEF Stores, journalVars
<1>4. tried' \in [starts : 0..2, flushed : BOOLEAN]
  BY <1>0 DEF GhostTypes
<1>5. pc' \in {"Menu", "HandOff"}
  BY DEF GoTo
<1>6. Starts'
  <2>1. pc' \notin Starting
    BY <1>5 DEF Starting
  <2> QED BY <1>0, <1>1, <1>3, <2>1
          DEF Starts, OneUnattendedTrial, NotPending, LauncherStays, journalVars
<1>7. CASE pc' = "Menu" /\ boot' = boot /\ Load(disk) # {}
  <2>1. boot' \in [slot : SlotNames, why : Reasons]
    BY <1>0, <1>7 DEF ProcTypes
  <2> QED BY <1>1, <1>2, <1>3, <1>4, <1>6, <1>7, <2>1, LauncherGoes
<1>8. ASSUME NEW slot \in SlotNames, NEW why \in {"Current", "Previous"},
             GoTo(slot, why), why = "Current" => slot = s.active,
             why = "Previous" => slot = s.previous
      PROVE  IInv'
  <2>1. boot' = [slot |-> slot, why |-> why] /\ pc' = "HandOff"
    BY <1>8 DEF GoTo
  <2>2. boot' \in [slot : SlotNames, why : Reasons]
    BY <2>1 DEF Reasons
  <2>3. boot'.why = why /\ boot'.slot = slot
    BY <2>1
  <2> QED BY <1>1, <1>2, <1>3, <1>4, <1>6, <1>8, <2>1, <2>2, <2>3, LauncherGoes
<1> QED BY <1>7, <1>8

LEMMA RejectKeeps ==
    ASSUME IInv, pc \in {"Decide", "Menu", "Verify"}, LauncherStays,
           tried' = tried, NEW s \in mem, Reject(s), Load(disk) # {}
    PROVE  IInv'
<1>1. pc \in Deciding
  BY DEF Deciding, LauncherSteps
<1>2. s \in Records
  BY <1>1, LauncherHolds
<1>3. CASE CanDiscardTrial(s) /\ Storing(DiscardTrial(s), "RejectStore")
           /\ UNCHANGED boot
  <2>1. PICK r \in Records : r = DiscardTrial(s)
    BY <1>2, <1>3, DiscardIs
  <2>2. SameBase(r, s) /\ Grounded(r) /\ r.trial = "None"
    BY <1>2, <1>3, <2>1, DiscardIs
  <2>3. "RejectStore" \in LauncherStores /\ "RejectStore" \notin Starting
    BY DEF LauncherStores, Starting
  <2> QED BY <1>3, <2>1, <2>2, <2>3, LauncherAsks
<1>4. CASE ~CanDiscardTrial(s) /\ GoTo(s.active, "Current")
           /\ UNCHANGED <<mem, journalVars>>
  <2>1. s.active \in SlotNames
    BY <1>2, RecordIs
  <2> QED BY <1>4, <2>1, LauncherMoves
<1> QED BY <1>3, <1>4 DEF Reject

LEMMA StartKeeps ==
    ASSUME IInv, pc \in {"Decide", "Menu", "Verify"}, LauncherStays,
           tried' = tried, NEW s \in mem, CanStartTrial(s), Verifies(s),
           NEW step \in Starting, Storing(StartTrial(s), step), boot' = boot
    PROVE  IInv'
<1>1. pc \in Deciding
  BY DEF Deciding, LauncherSteps
<1>2. /\ s \in Records /\ Grounded(s)
      /\ Load(disk) = {} => s.trial = "None"
      /\ tried.starts # 0 /\ tried.flushed => s.trial # "Pending"
  BY <1>1, LauncherHolds
<1>3. PICK r \in Records : r = StartTrial(s)
  BY <1>2, StartIs
<1>4. /\ SameBase(r, s) /\ Grounded(r) /\ r.trial = "Started"
      /\ r.pending = s.pending /\ s.pending \in SlotNames
      /\ r.candidate = s.candidate
  BY <1>2, <1>3, StartIs
<1>5. s.trial = "Pending" /\ slots[s.pending] = s.candidate
  BY DEF CanStartTrial, Verifies
<1>6. step \in LauncherStores
  BY DEF Starting, LauncherStores
<1>7. Load(disk) # {}
  BY <1>2, <1>5
<1>8. tried.starts = 0 \/ ~tried.flushed
  BY <1>2, <1>5
<1> QED BY <1>3, <1>4, <1>5, <1>6, <1>7, <1>8, LauncherAsks

\* What Decide does with a record whose pending slot it verified or not.
Decides(s, held, verified) ==
    LET decision == BootDecide(s, held, verified)
    IN  \/ /\ decision.action = "StartTrial"
           /\ StartPending(s, "StartStore", pc' = "Menu" /\ UNCHANGED boot)
        \/ /\ decision.action # "StartTrial"
           /\ s.trial = "Pending" /\ ~verified
           /\ Reject(s)
        \/ /\ decision.action = "Recovery"
           /\ s.trial # "Pending"
           /\ pc' = "Menu"
           /\ UNCHANGED <<mem, boot, journalVars>>
        \/ /\ decision.action \in {"Active", "Previous"}
           /\ s.trial # "Pending" \/ verified
           /\ GoTo(decision.slot, IF decision.action = "Previous" THEN "Previous"
                                                              ELSE "Current")
           /\ UNCHANGED <<mem, journalVars>>

LEMMA DecideKeeps == IInv /\ Decide => IInv'
<1> SUFFICES ASSUME IInv, Decide PROVE IInv'
  OBVIOUS
<1>0. /\ pc = "Decide"
      /\ UNCHANGED <<slotVars, healthPending, installVars, ghostVars>>
  BY DEF Decide
<1>1. pc \in Deciding /\ pc \in {"Decide", "Menu", "Verify"}
  BY <1>0 DEF Deciding, LauncherSteps
<1>2. PICK s \in mem, held \in BOOLEAN, readable \in BOOLEAN :
         Decides(s, held, s.trial = "Pending" /\ readable /\ Verifies(s))
  BY Zenon DEF Decide, Decides
<1>2a. PICK verified \in BOOLEAN :
         verified = (s.trial = "Pending" /\ readable /\ Verifies(s))
  OBVIOUS
<1>2b. Decides(s, held, verified)
  BY <1>2, <1>2a, Zenon
<1>5a. PICK decision : decision = BootDecide(s, held, verified)
  OBVIOUS
<1>3a. /\ s \in Records
       /\ Load(disk) = {} => s.trial = "None" /\ s.previous = "None"
  BY <1>1, LauncherHolds
<1>3. /\ decision.action = "StartTrial" => s.trial = "Pending" /\ verified
      /\ decision.action = "Active" => decision.slot = s.active
      /\ decision.action = "Previous" =>
             decision.slot = s.previous /\ s.previous # "None"
      /\ decision.action = "Recovery" /\ s.trial # "Pending" =>
             s.trial = "Started"
  BY <1>5a, <1>3a, DecideIs
<1>4. tried' = tried
  BY <1>0 DEF ghostVars
<1>5. UNCHANGED <<disk, card>> => LauncherStays
  BY <1>0 DEF LauncherStays, slotVars, installVars, ghostVars
<1>6. CASE /\ decision.action = "StartTrial"
           /\ StartPending(s, "StartStore", pc' = "Menu" /\ UNCHANGED boot)
  <2>1. s.trial = "Pending" /\ Verifies(s)
    BY <1>2a, <1>3, <1>6
  <2>2. Load(disk) # {}
    BY <1>3a, <2>1
  <2>3. CASE CanStartTrial(s) /\ Storing(StartTrial(s), "StartStore")
             /\ UNCHANGED boot
    <3>1. LauncherStays
      BY <1>5, <2>3 DEF Storing
    <3>2. "StartStore" \in Starting
      BY DEF Starting
    <3> QED BY <1>1, <1>4, <2>1, <2>3, <3>1, <3>2, StartKeeps
  <2>4. CASE pc' = "Menu" /\ UNCHANGED boot /\ UNCHANGED <<mem, journalVars>>
    <3>1. LauncherStays
      BY <1>5, <2>4 DEF journalVars
    <3> QED BY <1>1, <1>4, <2>2, <2>4, <3>1, LauncherMoves
  <2> QED BY <1>6, <2>3, <2>4 DEF StartPending
<1>7. CASE s.trial = "Pending" /\ Reject(s)
  <2>1. LauncherStays
    BY <1>5, <1>7 DEF Reject, Storing, journalVars
  <2> QED BY <1>1, <1>3a, <1>4, <1>7, <2>1, RejectKeeps
<1>8. CASE /\ decision.action = "Recovery" /\ s.trial # "Pending"
           /\ pc' = "Menu" /\ UNCHANGED <<mem, boot, journalVars>>
  <2>1. LauncherStays
    BY <1>5, <1>8 DEF journalVars
  <2>2. Load(disk) # {}
    BY <1>3a, <1>3, <1>8
  <2> QED BY <1>1, <1>4, <1>8, <2>1, <2>2, LauncherMoves
<1>9. CASE /\ decision.action \in {"Active", "Previous"}
           /\ GoTo(decision.slot, IF decision.action = "Previous" THEN "Previous"
                                                               ELSE "Current")
           /\ UNCHANGED <<mem, journalVars>>
  <2>1. LauncherStays
    BY <1>5, <1>9 DEF journalVars
  <2>2. s.active \in SlotNames /\ s.previous \in SlotNames \cup {"None"}
    BY <1>3a, RecordIs
  <2>3. CASE decision.action = "Previous"
    <3>1. GoTo(s.previous, "Previous") /\ s.previous \in SlotNames
      BY <1>3, <1>9, <2>2, <2>3
    <3> QED BY <1>1, <1>4, <1>9, <2>1, <3>1, LauncherMoves
  <2>4. CASE decision.action = "Active"
    <3>1. GoTo(s.active, "Current")
      BY <1>3, <1>9, <2>4
    <3> QED BY <1>1, <1>4, <1>9, <2>1, <2>2, <3>1, LauncherMoves
  <2> QED BY <1>9, <2>3, <2>4
<1> QED BY <1>2b, <1>5a, <1>6, <1>7, <1>8, <1>9 DEF Decides
LEMMA RecoverKeeps == IInv /\ Recover => IInv'
<1> SUFFICES ASSUME IInv, pc = "Menu", NEW s \in mem,
                    \/ /\ CanRetryTrial(s)
                       /\ Storing(RetryTrial(s), "RetryStore")
                       /\ tried' = NotTried
                       /\ UNCHANGED boot
                    \/ Reject(s) /\ UNCHANGED tried
                    \/ GoTo(s.active, "Current") /\ UNCHANGED <<mem, journalVars, tried>>,
                    UNCHANGED <<slotVars, healthPending, installVars, proven, approved>>
             PROVE  IInv'
  BY DEF Recover
<1>1. pc \in Deciding /\ pc \in {"Decide", "Menu", "Verify"}
  BY DEF Deciding, LauncherSteps
<1>2. s \in Records /\ Grounded(s)
  BY <1>1, LauncherHolds
<1>3. Load(disk) # {}
  <2>1. Launcher
    BY PartsAre
  <2> QED BY <1>1, <2>1 DEF Launcher
<1>4. LauncherStays
  BY DEF LauncherStays, slotVars, installVars, Storing, Reject, journalVars
<1>5. CASE CanRetryTrial(s) /\ Storing(RetryTrial(s), "RetryStore")
           /\ tried' = NotTried /\ UNCHANGED boot
  <2>1. PICK r \in Records : r = RetryTrial(s)
    BY <1>2, <1>5, RetryIs
  <2>2. SameBase(r, s) /\ Grounded(r)
    BY <1>2, <1>5, <2>1, RetryIs
  <2>3. "RetryStore" \in LauncherStores /\ "RetryStore" \notin Starting
    BY DEF LauncherStores, Starting
  <2>4. tried'.starts = 0
    BY <1>5 DEF NotTried
  <2> QED BY <1>1, <1>3, <1>4, <1>5, <2>1, <2>2, <2>3, <2>4, LauncherAsks
<1>6. CASE Reject(s) /\ UNCHANGED tried
  BY <1>1, <1>3, <1>4, <1>6, RejectKeeps
<1>7. CASE GoTo(s.active, "Current") /\ UNCHANGED <<mem, journalVars, tried>>
  <2>1. s.active \in SlotNames
    BY <1>2, RecordIs
  <2> QED BY <1>1, <1>4, <1>7, <2>1, LauncherMoves
<1> QED BY <1>5, <1>6, <1>7

LEMMA VerifyAgainKeeps == IInv /\ VerifyAgain => IInv'
<1> SUFFICES ASSUME IInv, pc = "Verify", NEW s \in mem,
                    \/ /\ Verifies(s)
                       /\ StartPending(s, "RestartStore", GoTo(s.active, "Current"))
                    \/ Reject(s),
                    UNCHANGED <<slotVars, healthPending, installVars, ghostVars>>
             PROVE  IInv'
  BY DEF VerifyAgain
<1>1. pc \in Deciding /\ pc \in {"Decide", "Menu", "Verify"}
  BY DEF Deciding, LauncherSteps
<1>2. s \in Records
  BY <1>1, LauncherHolds
<1>3. Load(disk) # {}
  <2>1. Launcher
    BY PartsAre
  <2> QED BY <1>1, <2>1 DEF Launcher
<1>4. LauncherStays /\ tried' = tried
  BY DEF LauncherStays, slotVars, installVars, ghostVars, StartPending,
         Storing, Reject, journalVars
<1>5. CASE Reject(s)
  BY <1>1, <1>3, <1>4, <1>5, RejectKeeps
<1>6. CASE Verifies(s) /\ CanStartTrial(s)
           /\ Storing(StartTrial(s), "RestartStore") /\ UNCHANGED boot
  <2>1. "RestartStore" \in Starting
    BY DEF Starting
  <2> QED BY <1>1, <1>4, <1>6, <2>1, StartKeeps
<1>7. CASE GoTo(s.active, "Current") /\ UNCHANGED <<mem, journalVars>>
  <2>1. s.active \in SlotNames
    BY <1>2, RecordIs
  <2> QED BY <1>1, <1>4, <1>7, <2>1, LauncherMoves
<1> QED BY <1>5, <1>6, <1>7 DEF StartPending

\* What the launcher makes of the result of a store.
LEMMA LauncherStoredKeeps == IInv /\ LauncherStored => IInv'
<1> SUFFICES ASSUME IInv, LauncherStored PROVE IInv'
  OBVIOUS
<1>0. /\ JournalInv /\ ProcTypes /\ GhostTypes /\ Stores /\ Launcher /\ Starts
  BY PartsAre
<1>1. /\ StoreSucceeded \/ StoreFailed
      /\ store' = NoStore /\ mem' = mem /\ LauncherStays
  BY DEF LauncherStored, EndStore, LauncherStays, slotVars, installVars
<1>2. PICK s \in mem :
        \/ /\ pc \in {"StartStore", "RestartStore"}
           /\ StoreSucceeded
           /\ GoTo(s.pending, "Trial")
           /\ tried' = [tried EXCEPT !.starts = IF @ = 2 THEN 2 ELSE @ + 1]
        \/ /\ pc = "StartStore" /\ StoreFailed
           /\ pc' = "Menu"
           /\ UNCHANGED <<boot, tried>>
        \/ /\ pc = "RejectStore"
           /\ GoTo(s.active, "Current")
           /\ UNCHANGED tried
        \/ /\ pc \in {"RetryStore", "RestartStore"}
           /\ StoreFailed
           /\ GoTo(s.active, "Current")
           /\ UNCHANGED tried
        \/ /\ pc = "RetryStore" /\ StoreSucceeded
           /\ pc' = "Verify"
           /\ UNCHANGED <<boot, tried>>
  BY DEF LauncherStored
<1>3. pc \in LauncherStores /\ pc \in Deciding /\ pc # "Decide"
  BY <1>2 DEF LauncherStores, Deciding, LauncherSteps
<1>4. s \in Records /\ mem = {s} /\ Load(disk) # {}
  <2>1. s \in Records /\ mem = {s}
    BY <1>3, LauncherHolds
  <2> QED BY <1>0, <1>3, <2>1 DEF Launcher
<1>5. JournalInv' /\ store'.phase = "None"
  <2>1. Return
    BY <1>1 DEF Return, EndStore, LauncherStays, StoreSucceeded, StoreFailed
  <2> QED BY <1>0, <1>1, <2>1, JournalNextInv DEF JournalNext, NoStore
<1>6. /\ Load(disk') = Load(disk) /\ Load(card') = Load(card)
      /\ s.active \in SlotNames
  BY <1>1, <1>4, RecordIs DEF LauncherStays
<1>7. ASSUME UNCHANGED tried, pc' \in {"Menu", "Verify", "HandOff"}
      PROVE  Starts' /\ tried' \in [starts : 0..2, flushed : BOOLEAN]
  <2>1. pc' \notin Starting
    BY <1>7 DEF Starting
  <2> QED BY <1>0, <1>1, <1>3, <1>5, <1>6, <1>7, <2>1
          DEF Starts, OneUnattendedTrial, NotPending, GhostTypes
<1>8. CASE UNCHANGED <<boot, tried>> /\ pc' \in {"Menu", "Verify"}
  <2>1. boot' \in [slot : SlotNames, why : Reasons]
    BY <1>0, <1>8 DEF ProcTypes
  <2> QED BY <1>1, <1>3, <1>4, <1>5, <1>7, <1>8, <2>1, LauncherGoes
<1>9. CASE GoTo(s.active, "Current") /\ UNCHANGED tried
  <2>1. boot' = [slot |-> s.active, why |-> "Current"] /\ pc' = "HandOff"
    BY <1>9 DEF GoTo
  <2>2. boot' \in [slot : SlotNames, why : Reasons]
    BY <1>6, <2>1 DEF Reasons
  <2>3. boot'.why = "Current" /\ boot'.slot = s.active
    BY <2>1
  <2> QED BY <1>1, <1>3, <1>4, <1>5, <1>7, <1>9, <2>1, <2>2, <2>3, LauncherGoes
<1>10. CASE /\ pc \in Starting /\ StoreSucceeded
            /\ GoTo(s.pending, "Trial")
            /\ tried' = [tried EXCEPT !.starts = IF @ = 2 THEN 2 ELSE @ + 1]
  <2>1. boot' = [slot |-> s.pending, why |-> "Trial"] /\ pc' = "HandOff"
    BY <1>10 DEF GoTo
  <2>2. /\ s.trial = "Started" /\ s.pending \in SlotNames
        /\ slots[s.pending] = s.candidate
    BY <1>0, <1>4, <1>10 DEF Launcher
  <2>3. boot' \in [slot : SlotNames, why : Reasons]
    BY <2>1, <2>2 DEF Reasons
  <2>4. boot'.why = "Trial" /\ boot'.slot = s.pending
    BY <2>1
  <2>5. store.phase = "Done" /\ Load(disk) = {s}
    BY <1>0, <1>3, <1>4, <1>10 DEF StoreSucceeded, Stores
  <2>6. PICK n \in 0..2 :
           n = IF tried.starts = 2 THEN 2 ELSE tried.starts + 1
    BY <1>0 DEF GhostTypes
  <2>7. /\ tried' \in [starts : 0..2, flushed : BOOLEAN]
        /\ tried'.starts = n /\ tried'.flushed = tried.flushed
    <3>1. tried' = [tried EXCEPT !.starts = n]
      BY <1>10, <2>6
    <3> QED BY <1>0, <3>1 DEF GhostTypes
  <2>8. tried.flushed => tried.starts = 0 /\ Load(card) = {s}
    BY <1>0, <1>10, <2>5 DEF Starts
  <2>9. Starts'
    <3>1. OneUnattendedTrial'
      BY <2>6, <2>7, <2>8 DEF OneUnattendedTrial
    <3>2. pc' \notin Starting /\ pc' \notin Deciding
      BY <2>1 DEF Starting, Deciding
    <3> QED BY <1>5, <1>6, <2>2, <2>5, <2>7, <2>8, <3>1, <3>2
            DEF Starts, NotPending
  <2> QED BY <1>1, <1>3, <1>4, <1>5, <2>1, <2>2, <2>3, <2>4, <2>5, <2>7, <2>9,
             LauncherGoes
<1> QED BY <1>2, <1>8, <1>9, <1>10 DEF Starting
-----------------------------------------------------------------------------
\* The browser.

\* Which steps belong to whom, and which wait for a store.
LEMMA StepsApart ==
    /\ BrowserSteps \cap Deciding = {} /\ BrowserSteps \cap Starting = {}
    /\ BrowserSteps \cap LauncherStores = {}
    /\ "Decide" \in Deciding
    /\ "HandOff" \notin BrowserSteps \cup StoreSteps \cup Deciding \cup Starting
    /\ "Browser" \in BrowserSteps /\ "Browser" \notin StoreSteps \cup InstallSteps
    /\ {"RaiseStore", "ConfirmStore"} \subseteq BrowserSteps \cap StoreSteps
    /\ {"RaiseStore", "ConfirmStore"} \cap InstallSteps = {}
    /\ InstallSteps \subseteq BrowserSteps
    /\ {"Retire", "Promote", "SyncSlot"} \cap StoreSteps = {}
    /\ "PendingStore" \in StoreSteps
BY DEF BrowserSteps, StoreSteps, LauncherStores, Deciding, LauncherSteps,
       Starting, InstallSteps

LEMMA HandOffKeeps == IInv /\ HandOff => IInv'
<1> SUFFICES ASSUME IInv, HandOff PROVE IInv'
  OBVIOUS
<1>0. /\ JournalInv /\ SlotTypes /\ ProcTypes /\ InstallTypes
      /\ GhostTypes /\ Stores /\ Disks /\ Incoming /\ Launcher
      /\ Browser /\ Updating /\ Starts
  BY PartsAre
<1>1. /\ pc = "HandOff"
      /\ disk' = disk /\ card' = card /\ slots' = slots
      /\ cardSlots' = cardSlots /\ boot' = boot
      /\ session' = session /\ job' = job
      /\ proven' = proven /\ approved' = approved /\ tried' = tried
  BY DEF HandOff, slotVars, installVars, ghostVars
<1>2. /\ store.phase = "None" /\ session = {}
      /\ Load(disk) = {} => running = "A"
  BY <1>0, <1>1, StepsApart DEF Stores, Updating, Launcher
<1>3. /\ Load(disk') = Load(disk) /\ Load(card') = Load(card)
      /\ The(disk') = The(disk) /\ Floor(disk') = Floor(disk)
      /\ running' = running
  BY <1>1 DEF running
<1>4. Disks'
  BY <1>1, <1>3, DisksKept DEF Asked
<1>5. SlotTypes' /\ InstallTypes' /\ GhostTypes'
  BY <1>0, <1>1 DEF SlotTypes, InstallTypes, GhostTypes
<1>6. Starts' /\ Updating' /\ Launcher'
      /\ (pc' \in {"RaiseStore", "ConfirmStore"} => session' = {})
  <2>1. pc' \in {"Dead", "RaiseStore", "Browser"}
    BY DEF HandOff
  <2>2. pc' \notin Deciding /\ pc' \notin Starting /\ pc' # "HandOff"
        /\ pc' \notin InstallSteps /\ pc' # "Decide"
    BY <2>1, StepsApart DEF Deciding, LauncherSteps, Starting, InstallSteps
  <2>3. tried.starts # 0 /\ tried.flushed /\ store'.phase \in {"Remove", "Rename"}
            => NotPending(store'.record)
    <3>1. CASE store' = store
      BY <1>2, <3>1
    <3>2. CASE store' # store
      <4>1. PICK r \in Load(disk) :
                /\ CanRaiseInstalledFloor(r, running, slots[running])
                /\ BeginStore(RaiseInstalledFloor(r, slots[running]))
        BY <3>2 DEF HandOff
      <4>2. r \in Records
        BY <4>1, Typed, LoadCases, FileCases
      <4>3. RaiseInstalledFloor(r, slots[running]).trial = "None"
        BY <4>1, <4>2 DEF RaiseInstalledFloor, CanRaiseInstalledFloor, Records
      <4>4. store'.record = {RaiseInstalledFloor(r, slots[running])}
        BY <4>1 DEF BeginStore
      <4> QED BY <4>3, <4>4 DEF NotPending
    <3> QED BY <3>1, <3>2
  <2>4. Starts'
    BY <1>0, <1>1, <1>3, <2>2, <2>3
       DEF Starts, OneUnattendedTrial, NotPending
  <2> QED BY <1>1, <1>2, <1>3, <2>2, <2>4 DEF Updating, Launcher
<1>7. CASE pc' = "Dead" /\ UNCHANGED <<store, mem, healthPending>>
  <2>1. JournalInv'
    BY <1>0, <1>1, <1>7, JournalStays DEF JournalKept, journalVars
  <2>2. ProcTypes'
    BY <1>0, <1>1, <1>7 DEF ProcTypes
  <2>3. pc' \notin BrowserSteps \cup StoreSteps
    BY <1>7 DEF BrowserSteps, StoreSteps, LauncherStores
  <2>4. Stores' /\ Incoming' /\ Browser'
    BY <1>2, <1>7, <2>3 DEF Stores, Incoming, Browser, LauncherStores
  <2> QED BY <1>4, <1>5, <1>6, <2>1, <2>2, <2>4, PartsMake
<1>8. ASSUME slots[running] # 0,
             healthPending' = \E r \in Load(disk) : AwaitsHealth(r),
             mem' = {r \in Load(disk) : AwaitsHealth(r)}
      PROVE  /\ mem' \in CopyFiles /\ healthPending' \in BOOLEAN
             /\ mem' \subseteq Load(disk) /\ mem' = {} <=> ~healthPending'
             /\ \A r \in mem' : AwaitsHealth(r)'
             /\ slots[running] \in Images
  <2>1. mem' = {} \/ mem' = Load(disk)
    <3>1. Load(disk) = {} \/ \E r \in Records : Load(disk) = {r}
      BY Typed, LoadCases, FileCases
    <3> QED BY <1>8, <3>1
  <2>2. mem' \in CopyFiles
    BY <2>1, Typed, LoadCases DEF CopyFiles
  <2>3. slots[running] \in Images
    <3>1. running \in SlotNames
      BY <1>0 DEF ProcTypes, running
    <3> QED BY <1>0, <1>8, <3>1 DEF SlotTypes
  <2> QED BY <1>1, <1>8, <2>2, <2>3 DEF AwaitsHealth, running
<1>9. ASSUME slots[running] # 0,
             healthPending' = \E r \in Load(disk) : AwaitsHealth(r),
             mem' = {r \in Load(disk) : AwaitsHealth(r)},
             pc' = "Browser", UNCHANGED store
      PROVE  IInv'
  <2>1. JournalInv'
    BY <1>0, <1>1, <1>9, JournalStays DEF JournalKept, journalVars
  <2>2. ProcTypes'
    BY <1>0, <1>1, <1>8, <1>9, StepsApart DEF ProcTypes
  <2>3. Stores' /\ Incoming'
    BY <1>2, <1>9, StepsApart DEF Stores, Incoming, LauncherStores
  <2>4. Browser'
    BY <1>1, <1>3, <1>8, <1>9 DEF Browser
  <2> QED BY <1>4, <1>5, <1>6, <2>1, <2>2, <2>3, <2>4, PartsMake
<1>10. ASSUME slots[running] # 0,
              healthPending' = \E r \in Load(disk) : AwaitsHealth(r),
              mem' = {r \in Load(disk) : AwaitsHealth(r)},
              NEW r \in Load(disk),
              slots[running] # DeveloperSequence,
              CanRaiseInstalledFloor(r, running, slots[running]),
              BeginStore(RaiseInstalledFloor(r, slots[running])),
              pc' = "RaiseStore"
       PROVE  IInv'
  <2>1. r \in Records /\ Load(disk) = {r} /\ r = The(disk)
        /\ r.installed = Floor(disk)
    BY <1>10, Typed, TheIs
  <2>2. slots[running] \in Releases
    BY <1>8, <1>10 DEF Images
  <2>3. r.generation + 1 \in 0..MaxGeneration
    BY <2>1, <1>10, RecordIs, UpdateAssumption DEF CanRaiseInstalledFloor
  <2>4. PICK g \in 0..MaxGeneration, v \in Releases :
            g = r.generation + 1 /\ v = slots[running]
    BY <2>2, <2>3
  <2>5. PICK q : q = [r EXCEPT !.generation = g, !.installed = v]
    OBVIOUS
  <2>6. /\ q \in Records /\ q.active = r.active /\ q.installed = v
        /\ q.trial = "None" /\ r.trial = "None"
    BY <2>1, <2>5, <1>10 DEF Records, CanRaiseInstalledFloor
  <2>7. BeginStore(q)
    BY <1>10, <2>4, <2>5 DEF RaiseInstalledFloor
  <2>8. JournalInv' /\ store'.record = {q} /\ store'.phase \in {"Remove", "Failed"}
    BY <1>0, <1>1, <2>6, <2>7, BeginsStore
  <2>9. ProcTypes'
    BY <1>0, <1>1, <1>8, <1>10, StepsApart DEF ProcTypes
  <2>10. Stores'
    BY <1>10, <2>6, <2>8, StepsApart DEF Stores, LauncherStores
  <2>11. Incoming'
    <3>1. slots[q.active] \in proven
      BY <1>0, <2>1, <2>6 DEF Disks, Launches
    <3>2. v > r.installed /\ v \in Nat /\ r.installed \in Nat
      BY <1>10, <2>1, <2>4, RecordIs, UpdateAssumption
         DEF CanRaiseInstalledFloor
    <3>3. q.installed >= Floor(disk)
      BY <2>1, <2>6, <3>2
    <3> QED BY <1>1, <1>3, <2>6, <2>8, <3>1, <3>3
            DEF Incoming, Grounded, Above
  <2>12. Browser'
    <3>1. mem' = {}
      BY <1>10, <2>1, <2>6 DEF AwaitsHealth
    <3> QED BY <1>1, <1>3, <1>6, <1>8, <1>10, <3>1 DEF Browser
  <2> QED BY <1>4, <1>5, <1>6, <2>8, <2>9, <2>10, <2>11, <2>12, PartsMake
<1> QED BY <1>7, <1>9, <1>10 DEF HandOff

\* The trial is recorded as healthy: its slot is proven as it is recorded.
LEMMA ConfirmIs ==
    ASSUME NEW r \in Records, CanConfirmHealthy(r), Grounded(r),
           approved \subseteq Releases
    PROVE  /\ ConfirmHealthy(r) \in Records
           /\ ConfirmHealthy(r).active = r.pending
           /\ ConfirmHealthy(r).trial = "None"
           /\ Above(ConfirmHealthy(r).installed, r.installed)
<1>1. r.generation + 1 \in 0..MaxGeneration /\ r.pending \in SlotNames
  BY RecordIs, UpdateAssumption DEF CanConfirmHealthy
<1>2. PICK g \in 0..MaxGeneration : g = r.generation + 1
  BY <1>1
<1>3. PICK v \in Releases \cup {0} :
         v = IF r.candidate # DeveloperSequence THEN r.candidate
                                                ELSE r.installed
  BY RecordIs DEF Images
<1>4. ConfirmHealthy(r) =
        [r EXCEPT !.generation = g, !.active = r.pending, !.installed = v,
                  !.previous = r.active, !.pending = "None", !.trial = "None",
                  !.candidate = 0, !.downgrade = FALSE]
  BY <1>2, <1>3 DEF ConfirmHealthy
<1>5. PICK p \in SlotNames, a \in SlotNames : p = r.pending /\ a = r.active
  BY <1>1, RecordIs
<1>6. ConfirmHealthy(r) =
        [r EXCEPT !.generation = g, !.active = p, !.installed = v,
                  !.previous = a, !.pending = "None", !.trial = "None",
                  !.candidate = 0, !.downgrade = FALSE]
  BY <1>4, <1>5
<1>7. /\ ConfirmHealthy(r) \in Records
      /\ ConfirmHealthy(r).active = p
      /\ ConfirmHealthy(r).installed = v
      /\ ConfirmHealthy(r).trial = "None"
  BY <1>6 DEF Records, Trials
<1>8. Above(v, r.installed)
  <2>1. r.trial # "None"
    BY DEF CanConfirmHealthy
  <2>2. Above(r.installed, r.installed)
    BY AboveIs, RecordIs
  <2> QED BY <1>3, <2>1, <2>2 DEF Grounded
<1> QED BY <1>5, <1>7, <1>8

LEMMA ConfirmKeeps == IInv /\ Confirm => IInv'
<1> SUFFICES ASSUME IInv, Confirm PROVE IInv'
  OBVIOUS
<1>0. /\ JournalInv /\ SlotTypes /\ ProcTypes /\ InstallTypes
      /\ GhostTypes /\ Stores /\ Disks /\ Incoming /\ Launcher
      /\ Browser /\ Updating /\ Starts
  BY PartsAre
<1>1. /\ pc = "Browser" /\ healthPending /\ pc' = "ConfirmStore"
      /\ disk' = disk /\ card' = card /\ slots' = slots
      /\ cardSlots' = cardSlots /\ boot' = boot /\ mem' = mem
      /\ session' = session /\ job' = job /\ healthPending' = healthPending
      /\ proven' = proven \cup {slots[running]} /\ approved' = approved
      /\ tried' = tried
  BY DEF Confirm, slotVars, installVars
<1>2. PICK r \in mem : CanConfirmHealthy(r) /\ BeginStore(ConfirmHealthy(r))
  BY DEF Confirm
<1>3. /\ session = {} /\ r \in Load(disk) /\ AwaitsHealth(r)
      /\ slots[running] \in Images
  BY <1>0, <1>1, StepsApart DEF Updating, Browser
<1>4. r \in Records /\ Load(disk) = {r} /\ r = The(disk)
      /\ r.installed = Floor(disk) /\ Grounded(r)
  <2>1. r \in Records /\ Load(disk) = {r} /\ r = The(disk)
        /\ r.installed = Floor(disk)
    BY <1>3, Typed, TheIs
  <2> QED BY <1>0, <2>1 DEF Disks, Launches
<1>5. PICK q \in Records :
        /\ q = ConfirmHealthy(r) /\ q.active = running /\ q.trial = "None"
        /\ Above(q.installed, Floor(disk))
  BY <1>2, <1>3, <1>4, ConfirmIs, Typed DEF AwaitsHealth
<1>6. JournalInv' /\ store'.record = {q} /\ store'.phase \in {"Remove", "Failed"}
  BY <1>0, <1>1, <1>2, <1>5, BeginsStore
<1>7. /\ Load(disk') = Load(disk) /\ Load(card') = Load(card)
      /\ The(disk') = The(disk) /\ Floor(disk') = Floor(disk)
      /\ running' = running
  BY <1>1 DEF running
<1>8. Asked
  BY <1>1 DEF Asked
<1>9. Disks'
  BY <1>1, <1>7, <1>8, DisksKept
<1>10. Incoming'
  <2>1. slots'[q.active] \in proven'
    BY <1>1, <1>5
  <2>2. Above(q.installed, Floor(disk))'
    BY <1>1, <1>5, <1>7 DEF Above
  <2> QED BY <1>5, <1>6, <2>1, <2>2 DEF Incoming, Grounded
<1>11. SlotTypes' /\ ProcTypes' /\ InstallTypes' /\ GhostTypes'
  BY <1>0, <1>1, <1>3, StepsApart
     DEF SlotTypes, ProcTypes, InstallTypes, GhostTypes
<1>12. Stores'
  BY <1>1, <1>6, StepsApart DEF Stores, LauncherStores
<1>13. Launcher'
  BY <1>0, <1>1, <1>7, StepsApart DEF Launcher
<1>14. Browser'
  BY <1>0, <1>1, <1>3, <1>7, StepsApart DEF Browser, AwaitsHealth
<1>15. Updating'
  BY <1>1, <1>3, StepsApart DEF Updating
<1>16. Starts'
  BY <1>0, <1>1, <1>5, <1>6, <1>7, StepsApart
     DEF Starts, NotPending, OneUnattendedTrial
<1> QED BY <1>6, <1>9, <1>10, <1>11, <1>12, <1>13, <1>14, <1>15, <1>16, PartsMake

LEMMA BrowserStoredKeeps == IInv /\ BrowserStored => IInv'
<1> SUFFICES ASSUME IInv, BrowserStored PROVE IInv'
  OBVIOUS
<1>0. /\ JournalInv /\ SlotTypes /\ ProcTypes /\ InstallTypes
      /\ GhostTypes /\ Stores /\ Disks /\ Incoming /\ Launcher
      /\ Browser /\ Updating /\ Starts
  BY PartsAre
<1>1. /\ pc \in {"RaiseStore", "ConfirmStore"} /\ pc' = "Browser"
      /\ store.phase \in {"Done", "Failed"} /\ store' = NoStore
      /\ disk' = disk /\ card' = card /\ slots' = slots
      /\ cardSlots' = cardSlots /\ boot' = boot
      /\ session' = session /\ job' = job
      /\ healthPending' = (healthPending /\ StoreFailed)
      /\ mem' = IF StoreSucceeded THEN {} ELSE mem
      /\ proven' = proven /\ approved' = approved /\ tried' = tried
  BY DEF BrowserStored, EndStore, slotVars, installVars, ghostVars,
         StoreSucceeded, StoreFailed
<1>2. pc \in BrowserSteps /\ session = {}
  BY <1>0, <1>1, StepsApart DEF Browser
<1>3. JournalInv' /\ store'.phase = "None"
  <2>1. Return
    BY <1>1 DEF Return, EndStore
  <2> QED BY <1>0, <1>1, <2>1, JournalNextInv DEF JournalNext, NoStore
<1>7. /\ Load(disk') = Load(disk) /\ Load(card') = Load(card)
      /\ The(disk') = The(disk) /\ Floor(disk') = Floor(disk)
      /\ running' = running
  BY <1>1 DEF running
<1>9. Disks'
  BY <1>1, <1>7, DisksKept DEF Asked
<1>11. SlotTypes' /\ ProcTypes' /\ InstallTypes' /\ GhostTypes'
  <2>1. mem' \in CopyFiles /\ healthPending' \in BOOLEAN
    BY <1>0, <1>1 DEF ProcTypes, CopyFiles
  <2> QED BY <1>0, <1>1, <2>1, StepsApart
          DEF SlotTypes, ProcTypes, InstallTypes, GhostTypes
<1>12. Stores' /\ Incoming'
  BY <1>1, <1>3, StepsApart DEF Stores, Incoming, LauncherStores
<1>13. Launcher'
  BY <1>0, <1>1, <1>2, <1>7, StepsApart DEF Launcher
<1>14. Browser'
  <2>1. CASE store.phase = "Done"
    <3>1. mem' = {} /\ ~healthPending'
      BY <1>1, <2>1 DEF StoreSucceeded, StoreFailed
    <3> QED BY <1>1, <3>1 DEF Browser
  <2>2. CASE store.phase = "Failed"
    <3>1. mem' = mem /\ healthPending' = healthPending
      BY <1>0, <1>1, <2>2 DEF StoreSucceeded, StoreFailed, ProcTypes
    <3>2. mem \subseteq Load(disk)
      BY <1>0, <1>1, <2>2 DEF Browser
    <3> QED BY <1>0, <1>1, <1>2, <1>7, <3>1, <3>2 DEF Browser, AwaitsHealth
  <2> QED BY <1>1, <2>1, <2>2
<1>15. Updating'
  BY <1>1, <1>2, StepsApart DEF Updating
<1>16. Starts'
  BY <1>0, <1>1, <1>3, <1>7, StepsApart
     DEF Starts, NotPending, OneUnattendedTrial
<1> QED BY <1>3, <1>9, <1>11, <1>12, <1>13, <1>14, <1>15, <1>16, PartsMake
-----------------------------------------------------------------------------
\* The update session and its installer.

\* While the browser is open, not storing, the journal is left alone.
LEMMA Updates ==
    ASSUME IInv, disk' = disk, store' = store, mem' = mem, boot' = boot,
           healthPending' = healthPending, proven' = proven,
           approved \subseteq approved', approved' \subseteq Releases,
           card' = card, cardSlots' = cardSlots, tried' = tried,
           pc \in BrowserSteps, pc \notin StoreSteps,
           pc' \in BrowserSteps, pc' \notin StoreSteps,
           slots' \in [SlotNames -> Images \cup {0}],
           slots'[The(disk).active] = slots[The(disk).active],
           healthPending => slots'[running] \in Images,
           InstallTypes', Updating'
    PROVE  IInv'
<1>0. /\ JournalInv /\ SlotTypes /\ ProcTypes
      /\ GhostTypes /\ Stores /\ Launcher /\ Browser /\ Starts
  BY PartsAre
<1>1. JournalInv'
  BY <1>0, JournalStays DEF JournalKept, journalVars
<1>2. /\ Load(disk') = Load(disk) /\ Load(card') = Load(card)
      /\ The(disk') = The(disk) /\ running' = running
  BY DEF running
<1>3. Disks'
  BY <1>2, DisksKept DEF Asked
<1>4. SlotTypes' /\ ProcTypes' /\ GhostTypes'
  BY <1>0 DEF SlotTypes, ProcTypes, GhostTypes
<1>5. Stores' /\ Incoming'
  BY <1>0, StepsApart DEF Stores, Incoming
<1>6. Launcher'
  BY <1>0, <1>2, StepsApart DEF Launcher
<1>7. Browser'
  BY <1>0, <1>2, StepsApart DEF Browser, AwaitsHealth
<1>8. Starts'
  BY <1>0, <1>2, StepsApart DEF Starts, NotPending, OneUnattendedTrial
<1> QED BY <1>1, <1>3, <1>4, <1>5, <1>6, <1>7, <1>8, PartsMake

LEMMA OpenSessionKeeps ==
    Openings \subseteq {"Settled"} /\ IInv /\ OpenSession => IInv'
<1> SUFFICES ASSUME Openings \subseteq {"Settled"}, IInv, OpenSession
             PROVE  IInv'
  OBVIOUS
<1>0. SlotTypes /\ ProcTypes /\ GhostTypes /\ Disks /\ Launcher /\ Browser
  BY PartsAre
<1>1. /\ pc = "Browser" /\ pc' = pc /\ ~healthPending /\ job' = NoJob
      /\ disk' = disk /\ card' = card /\ store' = store /\ slots' = slots
      /\ cardSlots' = cardSlots /\ boot' = boot /\ mem' = mem
      /\ healthPending' = healthPending
      /\ proven' = proven /\ approved' = approved /\ tried' = tried
  BY DEF OpenSession, journalVars, slotVars, procVars, ghostVars
<1>2. PICK allow \in BOOLEAN :
        session' =
            {[record |-> r, allow |-> allow] :
                r \in IF Load(disk) = {}
                      THEN {DefaultState(running, slots[running])}
                      ELSE Load(disk)}
  BY DEF OpenSession
<1>3. session' = {[record |-> The(disk), allow |-> allow]}
  <2>1. CASE Load(disk) = {}
    <3>1. running = "A"
      BY <1>0, <1>1, <2>1, StepsApart DEF Launcher
    <3>2. slots[running] = LauncherSequence
      BY <1>0, <2>1, <3>1 DEF Disks, Launches
    <3>3. The(disk) = DefaultState("A", LauncherSequence)
      BY <2>1, Typed, TheIs
    <3> QED BY <1>2, <2>1, <3>1, <3>2, <3>3
  <2>2. CASE Load(disk) # {}
    <3>1. Load(disk) = {The(disk)}
      BY <2>2, Typed, TheIs
    <3> QED BY <1>2, <2>2, <3>1
  <2> QED BY <2>1, <2>2
<1>4. PICK s : s = [record |-> The(disk), allow |-> allow]
  OBVIOUS
<1>5. session' = {s} /\ s.record = The(disk)
      /\ s \in [record : Records, allow : BOOLEAN]
  BY <1>3, <1>4, Typed
<1>6. InstallTypes'
  <2>1. session' \in Sessions
    BY <1>5 DEF Sessions
  <2> QED BY <1>1, <2>1 DEF InstallTypes, NoJob, SlotNames
<1>7. Updating'
  BY <1>1, <1>5, StepsApart DEF Updating, SameBase
<1>8. approved' \subseteq Releases
  BY <1>0, <1>1 DEF GhostTypes
<1>9. slots' \in [SlotNames -> Images \cup {0}]
  BY <1>0, <1>1 DEF SlotTypes
<1> QED BY <1>1, <1>6, <1>7, <1>8, <1>9, StepsApart, Updates

LEMMA SessionIs ==
    ASSUME IInv, NEW s \in session
    PROVE  /\ session = {s} /\ s.record \in Records /\ s.allow \in BOOLEAN
           /\ SameBase(s.record, The(disk)) /\ ~healthPending
           /\ InactiveSlot(s) \in SlotNames
           /\ InactiveSlot(s) # The(disk).active
           /\ pc \in BrowserSteps
<1>0. InstallTypes /\ Updating
  BY PartsAre
<1>1. session = {s} /\ s \in [record : Records, allow : BOOLEAN]
  BY <1>0 DEF InstallTypes, Sessions
<1>2. SameBase(s.record, The(disk)) /\ ~healthPending /\ pc \in BrowserSteps
  BY <1>0 DEF Updating
<1>3. s.record.active = The(disk).active /\ The(disk).active \in SlotNames
  BY <1>2, Typed DEF SameBase
<1> QED BY <1>1, <1>2, <1>3 DEF InactiveSlot, Other, SlotNames

LEMMA InstallKeeps ==
    ASSUME IInv, NEW image \in Images, Install(image)
    PROVE  IInv'
<1>0. SlotTypes /\ GhostTypes /\ InstallTypes /\ Updating
  BY PartsAre
<1>1. /\ pc = "Browser" /\ pc' = "Retire" /\ session' = session
      /\ disk' = disk /\ card' = card /\ store' = store /\ slots' = slots
      /\ cardSlots' = cardSlots /\ boot' = boot /\ mem' = mem
      /\ healthPending' = healthPending
      /\ proven' = proven /\ tried' = tried
  BY DEF Install, journalVars, slotVars
<1>2. PICK s \in session :
        /\ Offered(s, image)
        /\ job' = [phase |-> "Running", slot |-> InactiveSlot(s),
                   image |-> image, retired |-> 0]
        /\ approved' = IF s.allow THEN approved \cup {image} ELSE approved
  BY DEF Install
<1>3. /\ session = {s} /\ s.record \in Records /\ s.allow \in BOOLEAN
      /\ SameBase(s.record, The(disk)) /\ ~healthPending
      /\ InactiveSlot(s) \in SlotNames
  BY SessionIs
<1>4. PICK slot \in SlotNames : slot = InactiveSlot(s)
  BY <1>3
<1>5. /\ InstallTypes'
      /\ job'.slot = InactiveSlot(s) /\ job'.image = image
  <2>1. job' = [phase |-> "Running", slot |-> slot, image |-> image,
                retired |-> 0]
    BY <1>2, <1>4
  <2> QED BY <1>0, <1>1, <1>4, <2>1 DEF InstallTypes
<1>6. approved \subseteq approved' /\ approved' \subseteq Releases
  BY <1>0, <1>2 DEF Offered, GhostTypes
<1>7. image = DeveloperSequence \/ Above(image, s.record.installed)'
  <2>1. image \in Nat
    BY UpdateAssumption DEF Images
  <2>2. CASE s.allow
    <3>1. image \in approved' /\ image >= image
      BY <1>2, <2>1, <2>2
    <3> QED BY <3>1 DEF Above
  <2>3. CASE ~s.allow
    <3>1. image = DeveloperSequence \/ image > s.record.installed
      BY <1>2, <2>3 DEF Offered
    <3>2. s.record.installed \in Nat
      BY <1>3, RecordIs
    <3>3. image > s.record.installed => image >= s.record.installed
      BY <2>1, <3>2
    <3> QED BY <1>1, <1>3, <3>1, <3>3 DEF Above
  <2> QED BY <2>2, <2>3
<1>8. pc' \in BrowserSteps /\ pc' \notin StoreSteps
  BY <1>1 DEF BrowserSteps, StoreSteps, LauncherStores
<1>9. slots' \in [SlotNames -> Images \cup {0}]
  BY <1>0, <1>1 DEF SlotTypes
<1>10. Updating'
  BY <1>0, <1>1, <1>3, <1>5, <1>7, <1>8
     DEF Updating, SameBase, InactiveSlot, Above
<1> QED BY <1>1, <1>3, <1>5, <1>6, <1>8, <1>9, <1>10, StepsApart, Updates

\* A step of the installer in the slot that is not active.
LEMMA InstallMoves ==
    ASSUME IInv, pc \in {"Retire", "Promote"}, UNCHANGED journalVars,
           cardSlots' = cardSlots, mem' = mem, boot' = boot,
           healthPending' = healthPending, session' = session,
           UNCHANGED ghostVars,
           NEW image \in Images \cup {0},
           slots' \in {slots, [slots EXCEPT ![job.slot] = image]},
           pc' \in {"Promote", "SyncSlot", "Browser"},
           job' \in [phase : {"None", "Running", "Complete"}, slot : SlotNames,
                     image : Images \cup {0}, retired : Images \cup {0}],
           pc' # "Browser" => job'.slot = job.slot /\ job'.image = job.image
    PROVE  IInv'
<1>0. SlotTypes /\ GhostTypes /\ InstallTypes /\ Updating
  BY PartsAre
<1>1. /\ disk' = disk /\ card' = card /\ store' = store
      /\ proven' = proven /\ approved' = approved /\ tried' = tried
  BY DEF journalVars, ghostVars
<1>2. pc \in InstallSteps /\ pc \in BrowserSteps /\ pc \notin StoreSteps
      /\ pc # "PendingStore"
  BY DEF InstallSteps, BrowserSteps, StoreSteps, LauncherStores
<1>3. pc' \in BrowserSteps /\ pc' \notin StoreSteps /\ pc' # "PendingStore"
  BY DEF BrowserSteps, StoreSteps, LauncherStores
<1>4. PICK s \in session :
        /\ job.slot = InactiveSlot(s) /\ job.image \in Images
        /\ job.image = DeveloperSequence \/ Above(job.image, s.record.installed)
  BY <1>0, <1>2 DEF Updating
<1>5. /\ session = {s} /\ SameBase(s.record, The(disk)) /\ ~healthPending
      /\ job.slot \in SlotNames /\ job.slot # The(disk).active
  BY <1>4, SessionIs
<1>6. slots' \in [SlotNames -> Images \cup {0}]
  BY <1>0, <1>5 DEF SlotTypes
<1>7. slots'[The(disk).active] = slots[The(disk).active]
  BY <1>0, <1>5, Typed DEF SlotTypes
<1>8. InstallTypes'
  BY <1>0 DEF InstallTypes
<1>9. Updating'
  <2>1. pc' \in InstallSteps => pc' # "Browser"
    BY StepsApart
  <2> QED BY <1>1, <1>3, <1>4, <1>5, <2>1
          DEF Updating, SameBase, InactiveSlot, Above
<1>10. approved' \subseteq Releases
  BY <1>0, <1>1 DEF GhostTypes
<1> QED BY <1>1, <1>2, <1>3, <1>5, <1>6, <1>7, <1>8, <1>9, <1>10, Updates

LEMMA RetireKeeps == IInv /\ Retire => IInv'
<1> SUFFICES ASSUME IInv, Retire PROVE IInv'
  OBVIOUS
<1>0. SlotTypes /\ InstallTypes
  BY PartsAre
<1>1. /\ pc = "Retire" /\ UNCHANGED journalVars
      /\ cardSlots' = cardSlots /\ mem' = mem /\ boot' = boot
      /\ healthPending' = healthPending /\ session' = session
      /\ UNCHANGED ghostVars
  BY DEF Retire
<1>2. CASE /\ slots' = [slots EXCEPT ![job.slot] = 0]
           /\ job' = [job EXCEPT !.retired = slots[job.slot]]
           /\ pc' = "Promote"
  <2>1. PICK image \in Images \cup {0} : image = slots[job.slot]
    BY <1>0 DEF SlotTypes, InstallTypes
  <2>2. job' = [job EXCEPT !.retired = image]
    BY <1>2, <2>1
  <2>3. /\ job' \in [phase : {"None", "Running", "Complete"}, slot : SlotNames,
                     image : Images \cup {0}, retired : Images \cup {0}]
        /\ job'.slot = job.slot /\ job'.image = job.image
    BY <1>0, <2>2 DEF InstallTypes
  <2> QED BY <1>1, <1>2, <2>3, InstallMoves
<1>3. CASE pc' = "Browser" /\ job' = NoJob /\ UNCHANGED slots
  <2>1. NoJob \in [phase : {"None", "Running", "Complete"}, slot : SlotNames,
                   image : Images \cup {0}, retired : Images \cup {0}]
    BY DEF NoJob, SlotNames
  <2> QED BY <1>1, <1>3, <2>1, InstallMoves
<1> QED BY <1>2, <1>3 DEF Retire

LEMMA PromoteKeeps == IInv /\ Promote => IInv'
<1> SUFFICES ASSUME IInv, Promote PROVE IInv'
  OBVIOUS
<1>0. SlotTypes /\ InstallTypes
  BY PartsAre
<1>1. /\ pc = "Promote" /\ UNCHANGED journalVars
      /\ cardSlots' = cardSlots /\ mem' = mem /\ boot' = boot
      /\ healthPending' = healthPending /\ session' = session
      /\ UNCHANGED ghostVars
  BY DEF Promote
<1>2. job.image \in Images \cup {0} /\ job.retired \in Images \cup {0}
  BY <1>0 DEF InstallTypes
<1>3. CASE /\ slots' = [slots EXCEPT ![job.slot] = job.image]
           /\ pc' = "SyncSlot"
           /\ UNCHANGED job
  <2>1. job' \in [phase : {"None", "Running", "Complete"}, slot : SlotNames,
                   image : Images \cup {0}, retired : Images \cup {0}]
    BY <1>0, <1>3 DEF InstallTypes
  <2> QED BY <1>1, <1>2, <1>3, <2>1, InstallMoves
<1>4. CASE /\ slots' \in {slots, [slots EXCEPT ![job.slot] = job.retired]}
           /\ pc' = "Browser" /\ job' = NoJob
  <2>1. NoJob \in [phase : {"None", "Running", "Complete"}, slot : SlotNames,
                   image : Images \cup {0}, retired : Images \cup {0}]
    BY DEF NoJob, SlotNames
  <2> QED BY <1>1, <1>2, <1>4, <2>1, InstallMoves
<1> QED BY <1>3, <1>4 DEF Promote

LEMMA PendingIs ==
    ASSUME IInv, NEW s \in session, pc = "SyncSlot",
           s.record.generation < MaxGeneration
    PROVE  /\ PendingRecord(s) \in Records
           /\ SameBase(PendingRecord(s), s.record)
           /\ Grounded(PendingRecord(s))
<1>1. /\ s.record \in Records /\ s.allow \in BOOLEAN /\ session = {s}
      /\ InactiveSlot(s) \in SlotNames
  BY SessionIs
<1>2. /\ job.slot = InactiveSlot(s) /\ job.image \in Images
      /\ job.image = DeveloperSequence \/ Above(job.image, s.record.installed)
  <2>1. Updating
    BY PartsAre
  <2> QED BY <1>1, <2>1 DEF Updating, InstallSteps
<1>3. s.record.generation + 1 \in 0..MaxGeneration
  BY <1>1, RecordIs, UpdateAssumption
<1>4. PICK g \in 0..MaxGeneration, slot \in SlotNames, image \in Images,
           r \in Records, allow \in BOOLEAN :
        /\ g = s.record.generation + 1 /\ slot = job.slot
        /\ image = job.image /\ r = s.record /\ allow = s.allow
  BY <1>1, <1>2, <1>3
<1>5. PendingRecord(s) =
        [r EXCEPT !.generation = g, !.pending = slot, !.trial = "Pending",
                  !.candidate = image, !.downgrade = allow]
  BY <1>4 DEF PendingRecord
<1>6. /\ PendingRecord(s) \in Records /\ SameBase(PendingRecord(s), r)
      /\ PendingRecord(s).candidate = image
      /\ PendingRecord(s).installed = r.installed
  BY <1>5 DEF Records, Trials, SameBase
<1> QED BY <1>2, <1>4, <1>6 DEF Grounded

LEMMA SyncSlotKeeps == IInv /\ SyncSlot => IInv'
<1> SUFFICES ASSUME IInv, pc = "SyncSlot", NEW accepted \in Syncs,
                    NEW s \in session,
                    IF accepted THEN card' = disk /\ cardSlots' = slots
                                ELSE UNCHANGED <<card, cardSlots>>,
                    IF s.record.generation < MaxGeneration
                    THEN /\ BeginStore(PendingRecord(s))
                         /\ pc' = "PendingStore"
                         /\ tried' = NotTried
                         /\ UNCHANGED job
                    ELSE pc' = "Browser" /\ job' = NoJob
                             /\ UNCHANGED <<store, tried>>,
                    UNCHANGED <<disk, slots, mem, boot, healthPending,
                                session, proven, approved>>
             PROVE  IInv'
  BY DEF SyncSlot
<1>0. /\ JournalInv /\ SlotTypes /\ ProcTypes /\ InstallTypes
      /\ GhostTypes /\ Stores /\ Disks /\ Incoming /\ Launcher
      /\ Browser /\ Updating /\ Starts
  BY PartsAre
<1>1. /\ disk' = disk /\ slots' = slots /\ mem' = mem /\ boot' = boot
      /\ healthPending' = healthPending /\ session' = session
      /\ proven' = proven /\ approved' = approved
      /\ \/ card' = card /\ cardSlots' = cardSlots
         \/ card' = disk /\ cardSlots' = slots
  OBVIOUS
<1>2. /\ session = {s} /\ ~healthPending
      /\ SameBase(s.record, The(disk)) /\ pc \in BrowserSteps
      /\ job.slot = InactiveSlot(s) /\ job.image \in Images
      /\ job.image = DeveloperSequence \/ Above(job.image, s.record.installed)
  BY <1>0, SessionIs DEF Updating, InstallSteps
<1>3. /\ Load(disk') = Load(disk)
      /\ The(disk') = The(disk) /\ Floor(disk') = Floor(disk)
      /\ running' = running
      /\ Load(card') = Load(card) \/ Load(card') = Load(disk)
  BY <1>1 DEF running
<1>4. Disks'
  BY <1>1, <1>3, DisksKept, DisksSaved DEF Asked
<1>5. pc' \in {"PendingStore", "Browser"} /\ pc' \in BrowserSteps
      /\ pc \notin StoreSteps
  BY DEF BrowserSteps, StoreSteps, LauncherStores
<1>6. NotTried \in [starts : 0..2, flushed : BOOLEAN] /\ NotTried.starts = 0
  BY DEF NotTried
<1>7. NoJob \in [phase : {"None", "Running", "Complete"}, slot : SlotNames,
                 image : Images \cup {0}, retired : Images \cup {0}]
  BY DEF NoJob, SlotNames
<1>8. SlotTypes' /\ ProcTypes' /\ InstallTypes' /\ GhostTypes'
  BY <1>0, <1>1, <1>5, <1>6, <1>7
     DEF SlotTypes, ProcTypes, InstallTypes, GhostTypes
<1>9. Launcher'
  BY <1>0, <1>1, <1>2, <1>3, <1>5, StepsApart DEF Launcher
<1>10. Browser'
  <2>1. mem' = {}
    BY <1>0, <1>1, <1>2 DEF Browser
  <2> QED BY <1>1, <1>2, <1>5, <2>1 DEF Browser
<1>11. ASSUME s.record.generation < MaxGeneration
       PROVE  /\ JournalInv' /\ Stores' /\ Incoming' /\ Updating' /\ Starts'
  <2>1. PICK q \in Records : q = PendingRecord(s)
    BY <1>11, PendingIs
  <2>2. SameBase(q, s.record) /\ Grounded(q) /\ BeginStore(q)
        /\ pc' = "PendingStore" /\ tried' = NotTried /\ job' = job
    BY <1>11, <2>1, PendingIs
  <2>3. JournalInv' /\ store'.record = {q} /\ store'.phase \in {"Remove", "Failed"}
    BY <1>0, <1>1, <2>2, BeginsStore
  <2>4. Stores'
    BY <2>1, <2>2, <2>3, StepsApart DEF Stores, LauncherStores
  <2>5. Incoming'
    <3>1. q.active = The(disk).active /\ q.installed = Floor(disk)
          /\ Floor(disk) \in Nat
      BY <1>2, <2>2, Typed, TheIs DEF SameBase
    <3>2. slots[q.active] \in proven
      BY <1>0, <3>1 DEF Disks, Launches
    <3> QED BY <1>1, <1>3, <2>2, <2>3, <3>1, <3>2
            DEF Incoming, Grounded, Above
  <2>6. Updating'
    BY <1>1, <1>2, <1>3, <1>5, <2>2, <2>3
       DEF Updating, SameBase, InactiveSlot, Above
  <2>7. Starts'
    BY <1>5, <1>6, <2>2, StepsApart DEF Starts, OneUnattendedTrial
  <2> QED BY <2>3, <2>4, <2>5, <2>6, <2>7
<1>12. ASSUME ~(s.record.generation < MaxGeneration)
       PROVE  /\ JournalInv' /\ Stores' /\ Incoming' /\ Updating' /\ Starts'
  <2>1. pc' = "Browser" /\ job' = NoJob /\ store' = store /\ tried' = tried
    BY <1>12
  <2>2. JournalInv'
    BY <1>0, <1>1, <2>1, JournalNextInv DEF JournalNext, Writeback, journalVars
  <2>3. Stores' /\ Incoming'
    BY <1>0, <1>5, <2>1, StepsApart DEF Stores, Incoming
  <2>4. Updating'
    BY <1>1, <1>2, <1>3, <1>5, <2>1, StepsApart DEF Updating, SameBase
  <2>5. Starts'
    BY <1>0, <1>1, <1>3, <1>5, <2>1, <2>3, StepsApart
       DEF Starts, OneUnattendedTrial, NotPending
  <2> QED BY <2>2, <2>3, <2>4, <2>5
<1> QED BY <1>4, <1>8, <1>9, <1>10, <1>11, <1>12, PartsMake

LEMMA InstallStoredKeeps == IInv /\ InstallStored => IInv'
<1> SUFFICES ASSUME IInv, InstallStored PROVE IInv'
  OBVIOUS
<1>0. /\ JournalInv /\ SlotTypes /\ ProcTypes /\ InstallTypes
      /\ GhostTypes /\ Stores /\ Disks /\ Incoming /\ Launcher
      /\ Browser /\ Updating /\ Starts
  BY PartsAre
<1>1. /\ pc = "PendingStore" /\ pc' = "Browser"
      /\ store.phase \in {"Done", "Failed"} /\ store' = NoStore
      /\ disk' = disk /\ card' = card /\ slots' = slots
      /\ cardSlots' = cardSlots /\ boot' = boot
      /\ session' = session /\ mem' = mem /\ healthPending' = healthPending
      /\ proven' = proven /\ approved' = approved /\ tried' = tried
      /\ job' = [NoJob EXCEPT !.phase = IF StoreSucceeded THEN "Complete" ELSE "None"]
  BY DEF InstallStored, EndStore, slotVars, ghostVars, StoreSucceeded,
         StoreFailed
<1>2. /\ pc \in BrowserSteps /\ ~healthPending /\ mem = {}
      /\ \A s \in session : SameBase(s.record, The(disk))
  BY <1>0, <1>1 DEF Updating, InstallSteps, BrowserSteps, Browser
<1>3. JournalInv' /\ store'.phase = "None"
  <2>1. Return
    BY <1>1 DEF Return, EndStore
  <2> QED BY <1>0, <1>1, <2>1, JournalNextInv DEF JournalNext, NoStore
<1>7. /\ Load(disk') = Load(disk) /\ Load(card') = Load(card)
      /\ The(disk') = The(disk) /\ running' = running
  BY <1>1 DEF running
<1>9. Disks'
  BY <1>1, <1>7, DisksKept DEF Asked
<1>11. SlotTypes' /\ ProcTypes' /\ InstallTypes' /\ GhostTypes'
  <2>1. PICK p \in {"Complete", "None"} :
           p = IF StoreSucceeded THEN "Complete" ELSE "None"
    OBVIOUS
  <2>2. job' = [phase |-> p, slot |-> "A", image |-> 0, retired |-> 0]
    BY <1>1, <2>1 DEF NoJob
  <2>3. job' \in [phase : {"None", "Running", "Complete"}, slot : SlotNames,
                  image : Images \cup {0}, retired : Images \cup {0}]
    BY <2>2 DEF SlotNames
  <2> QED BY <1>0, <1>1, <2>3, StepsApart
          DEF SlotTypes, ProcTypes, InstallTypes, GhostTypes
<1>12. Stores' /\ Incoming'
  BY <1>1, <1>3, StepsApart DEF Stores, Incoming, LauncherStores
<1>13. Launcher'
  BY <1>0, <1>1, <1>2, <1>7, StepsApart DEF Launcher
<1>14. Browser'
  BY <1>1, <1>2 DEF Browser
<1>15. Updating'
  BY <1>1, <1>2, <1>7, StepsApart DEF Updating, SameBase
<1>16. Starts'
  BY <1>0, <1>1, <1>3, <1>7, StepsApart
     DEF Starts, NotPending, OneUnattendedTrial
<1> QED BY <1>3, <1>9, <1>11, <1>12, <1>13, <1>14, <1>15, <1>16, PartsMake
-----------------------------------------------------------------------------
LEMMA InitHolds == Init => IInv
<1> SUFFICES ASSUME Init PROVE IInv
  OBVIOUS
<1>1. PICK image \in InitialImages :
        /\ slots = [A |-> image, B |-> 0]
        /\ disk = [c \in Copies |->
                     IF c = 0 /\ image # LauncherSequence
                     THEN {DefaultState("A", LauncherSequence)} ELSE {}]
        /\ proven = {image}
  BY DEF Init
<1>2. /\ card = disk /\ cardSlots = slots /\ store = NoStore
      /\ pc = "Off" /\ mem = {} /\ boot = NoBoot /\ healthPending = FALSE
      /\ session = {} /\ job = NoJob
      /\ approved = {} /\ tried = NotTried
  BY DEF Init
<1>3. image \in Images
  BY TrialAssumption DEF Images
<1>4. disk \in [Copies -> CopyFiles]
  BY <1>1, DefaultIsRecord DEF CopyFiles
<1>5. /\ Load(disk) = {} => image = LauncherSequence
      /\ The(disk) = DefaultState("A", LauncherSequence)
  <2>1. disk[1] = {} /\ disk[0] = IF image # LauncherSequence
                        THEN {DefaultState("A", LauncherSequence)} ELSE {}
    BY <1>1 DEF Copies
  <2>2. Load(disk) = disk[0]
    BY <2>1 DEF Load, Selected
  <2>3. Found(disk) = {DefaultState("A", LauncherSequence)}
    BY <2>1, <2>2 DEF Found
  <2> QED BY <2>1, <2>2, <2>3 DEF The
<1>6. SlotTypes
  BY <1>1, <1>2, <1>3 DEF SlotTypes, SlotNames
<1>7. TypeOK /\ ReplacesStaleCopy
  <2>1. JournalTypeOK /\ ReplacesStaleCopy
    BY <1>2, <1>4 DEF JournalTypeOK, ReplacesStaleCopy, NoStore, StorePhases,
                      Copies, CopyFiles
  <2>2. ProcTypes
    BY <1>2 DEF ProcTypes, CopyFiles, NoBoot, SlotNames, Reasons
  <2>3. InstallTypes
    BY <1>2 DEF InstallTypes, Sessions, NoJob, SlotNames
  <2>4. GhostTypes
    BY <1>1, <1>2, <1>3 DEF GhostTypes, NotTried
  <2> QED BY <1>6, <2>1, <2>2, <2>3, <2>4, TypesAre
<1>8. Disks
  <2>1. Launches(disk, slots)
    <3>1. The(disk).active = "A" /\ The(disk).trial = "None"
      BY <1>5 DEF DefaultState
    <3>2. slots["A"] = image
      BY <1>1
    <3> QED BY <1>1, <1>5, <3>1, <3>2 DEF Launches, Grounded
  <2>2. Floor(disk) \in Nat
    BY <1>4, TheIs, RecordIs
  <2> QED BY <1>2, <2>1, <2>2 DEF Disks, Above
<1>9. Stores /\ Incoming
  BY <1>2 DEF Stores, Incoming, NoStore, StoreSteps, LauncherStores
<1>10. Launcher
  BY <1>2 DEF Launcher, Deciding, LauncherSteps, Starting, BrowserSteps
<1>11. Browser /\ Updating
  BY <1>2 DEF Browser, Updating, BrowserSteps, InstallSteps
<1>12. Starts
  BY <1>2 DEF Starts, OneUnattendedTrial, NotTried, Starting
<1> QED BY <1>7, <1>8, <1>9, <1>10, <1>11, <1>12 DEF IInv

LEMMA StutterKeeps == IInv /\ UNCHANGED vars => IInv'
<1> SUFFICES ASSUME IInv, UNCHANGED vars PROVE IInv'
  OBVIOUS
<1>1. /\ JournalInv /\ SlotTypes /\ ProcTypes /\ InstallTypes
      /\ GhostTypes /\ Stores /\ Disks /\ Incoming /\ Launcher
      /\ Browser /\ Updating /\ Starts
  BY PartsAre
<1>2. /\ disk' = disk /\ card' = card /\ store' = store
      /\ slots' = slots /\ cardSlots' = cardSlots
      /\ pc' = pc /\ mem' = mem /\ boot' = boot
      /\ healthPending' = healthPending /\ session' = session /\ job' = job
      /\ proven' = proven /\ approved' = approved /\ tried' = tried
  BY DEF vars
<1>3. JournalInv'
  BY <1>1, <1>2, JournalStays DEF JournalKept, journalVars
<1>4. Disks'
  BY <1>2, DisksKept DEF Asked
<1>5. Incoming'
  BY <1>2, IncomingKept, Typed DEF Asked
<1>6. SlotTypes' /\ ProcTypes' /\ InstallTypes' /\ GhostTypes'
  BY <1>1, <1>2 DEF SlotTypes, ProcTypes, InstallTypes, GhostTypes
<1>7. Stores' /\ Browser' /\ Starts'
  BY <1>1, <1>2
     DEF Stores, Browser, Starts, running, AwaitsHealth, OneUnattendedTrial,
         NotPending
<1>8. Launcher'
  BY <1>1, <1>2 DEF Launcher, SameBase, Grounded, Above, running, AwaitsHealth
<1>9. Updating'
  BY <1>1, <1>2 DEF Updating, SameBase, InactiveSlot, Above
<1> QED BY <1>3, <1>4, <1>5, <1>6, <1>7, <1>8, <1>9, PartsMake

LEMMA StepKeeps ==
    Openings \subseteq {"Settled"} /\ IInv /\ [Next]_vars => IInv'
BY WriteBackKeeps, PowerLossKeeps, LeaveKeeps, StoreStepKeeps, StoreSyncKeeps,
   PowerOnKeeps, DecideKeeps, RecoverKeeps, VerifyAgainKeeps,
   LauncherStoredKeeps, HandOffKeeps, ConfirmKeeps, BrowserStoredKeeps,
   OpenSessionKeeps, InstallKeeps, RetireKeeps, PromoteKeeps, SyncSlotKeeps,
   InstallStoredKeeps, StutterKeeps
   DEF Next

-----------------------------------------------------------------------------
\* What a step does to the two journals, on the disk and on the card.
JournalMoves ==
    \/ UNCHANGED <<disk, card>>
    \/ card' = disk /\ disk' = disk
    \/ disk' = card /\ card' = card
    \/ RemoveStale /\ UNCHANGED card
    \/ RenameNew /\ UNCHANGED card

LEMMA StepMoves == [Next]_vars => JournalMoves
<1> SUFFICES ASSUME [Next]_vars PROVE JournalMoves
  OBVIOUS
<1>1. CASE DriverWritesBack \/ PowerLoss \/ Leave
  BY <1>1 DEF DriverWritesBack, Writeback, PowerLoss, LosePower, Leave,
              journalVars, JournalMoves
<1>2. CASE StoreStep \/ StoreSync
  BY <1>2 DEF StoreStep, StoreFails, StoreSync, SyncStore, JournalMoves
<1>3. CASE Decide
  BY <1>3 DEF Decide, StartPending, Reject, Storing, journalVars, JournalMoves
<1>4. CASE PowerOn \/ Recover \/ VerifyAgain \/ LauncherStored
  BY <1>4 DEF PowerOn, Recover, VerifyAgain, LauncherStored, StartPending,
              Reject, Storing, journalVars, JournalMoves
<1>5. CASE HandOff \/ Confirm \/ BrowserStored \/ OpenSession
  BY <1>5 DEF HandOff, Confirm, BrowserStored, OpenSession, journalVars,
              JournalMoves
<1>6. CASE Retire \/ Promote \/ InstallStored
           \/ \E image \in Images : Install(image)
  BY <1>6 DEF Retire, Promote, InstallStored, Install, journalVars,
              JournalMoves
<1>7. CASE SyncSlot
  BY <1>7 DEF SyncSlot, JournalMoves
<1>8. CASE UNCHANGED vars
  BY <1>8 DEF vars, JournalMoves
<1> QED BY <1>1, <1>2, <1>3, <1>4, <1>5, <1>6, <1>7, <1>8 DEF Next

-----------------------------------------------------------------------------
(***************************************************************************)
(* The theorems.  An update session is opened only when no trial awaits    *)
(* its confirmation: one opened before keeps a record that the             *)
(* confirmation makes stale.                                               *)
(***************************************************************************)
\* Wherever the launcher, the browser or an install stands, the two journals
\* and the slots they go with can start a healthy image.
THEOREM IInvHolds == Openings \subseteq {"Settled"} => (Spec => []IInv)
<1> SUFFICES ASSUME Openings \subseteq {"Settled"} PROVE Spec => []IInv
  OBVIOUS
<1>1. IInv /\ [Next]_vars => IInv'
  BY StepKeeps
<1> QED BY <1>1, InitHolds, PTL DEF Spec

\* The records, files and locals of every step have values of their types.
THEOREM TypesHold == Openings \subseteq {"Settled"} => (Spec => []TypeOK)
<1>1. IInv => TypeOK
  BY DEF IInv
<1> QED BY <1>1, IInvHolds, PTL

\* The slot the journal calls active has run healthily, now and after power
\* loss at this moment (tilefinch_update_confirm_healthy, install_promote).
THEOREM HealthySlotLaunches ==
    Openings \subseteq {"Settled"} => (Spec => []KnownGoodLaunches)
<1> SUFFICES ASSUME Openings \subseteq {"Settled"}
             PROVE  Spec => []KnownGoodLaunches
  OBVIOUS
<1>1. IInv => KnownGoodLaunches
  BY DEF IInv, Disks, Launches, KnownGoodLaunches, Fallback, The
<1> QED BY <1>1, IInvHolds, PTL

\* A candidate starts once unless the user asks again or the card refused to
\* save that it had started (launcher_start_pending).
THEOREM OneStartUnattended ==
    Openings \subseteq {"Settled"} => (Spec => []OneUnattendedTrial)
<1> SUFFICES ASSUME Openings \subseteq {"Settled"}
             PROVE  Spec => []OneUnattendedTrial
  OBVIOUS
<1>1. IInv => OneUnattendedTrial
  BY DEF IInv, Starts
<1> QED BY <1>1, IInvHolds, PTL

\* The browser starts from a slot that has run healthily, or from the trial
\* whose start is on record (launcher_boot_slot).
THEOREM HandsOffProvenOrTrial ==
    Openings \subseteq {"Settled"} => (Spec => BootsProvenOrOnTrial)
<1> SUFFICES ASSUME Openings \subseteq {"Settled"}
             PROVE  Spec => BootsProvenOrOnTrial
  OBVIOUS
<1>1. ASSUME IInv, pc = "HandOff", boot.why # "Previous"
      PROVE  \/ slots[running] \in proven
             \/ \E r \in Load(disk) :
                    AwaitsHealth(r) /\ r.candidate = slots[running]
  <2>1. Launcher /\ Disks /\ ProcTypes
    BY <1>1, PartsAre
  <2>2. boot.why \in {"Current", "Trial"}
    BY <1>1, <2>1 DEF ProcTypes, Reasons
  <2> QED BY <1>1, <2>1, <2>2 DEF Launcher, Disks, Launches
<1>2. IInv /\ [Next]_vars =>
        [pc = "HandOff" /\ pc' \in BrowserSteps /\ boot.why # "Previous" =>
            \/ slots[running] \in proven
            \/ \E r \in Load(disk) :
                   AwaitsHealth(r) /\ r.candidate = slots[running]]_vars
  BY <1>1
<1> QED BY <1>2, IInvHolds, PTL DEF Spec, BootsProvenOrOnTrial

\* The floor on the card goes down by the user's choice only
\* (tilefinch_update_raise_installed_floor, tilefinch_update_confirm_healthy).
THEOREM FloorGoesDownByChoice ==
    Openings \subseteq {"Settled"} => (Spec => FloorKept)
<1> SUFFICES ASSUME Openings \subseteq {"Settled"} PROVE Spec => FloorKept
  OBVIOUS
<1>1. IInv /\ [Next]_vars =>
        [\/ Floor(card') >= Floor(card)
         \/ \E release \in approved : Floor(card') >= release]_vars
  <2> SUFFICES ASSUME IInv, [Next]_vars
               PROVE  \/ Floor(card') >= Floor(card)
                      \/ \E release \in approved : Floor(card') >= release
    OBVIOUS
  <2>1. card' = card \/ card' = disk
    BY StepMoves DEF JournalMoves
  <2>2. Above(Floor(disk), Floor(card))
    BY PartsAre DEF Disks
  <2>3. Floor(card) \in Nat
    BY Typed
  <2> QED BY <2>1, <2>2, <2>3 DEF Above
<1> QED BY <1>1, IInvHolds, PTL DEF Spec, FloorKept

\* With its callers the journal is still the register: what the launcher,
\* the browser and the installer store is read whole.
THEOREM InstallationImplementsRegister ==
    Openings \subseteq {"Settled"} => (Spec => ImplementsRegister)
<1> SUFFICES ASSUME Openings \subseteq {"Settled"}
             PROVE  Spec => ImplementsRegister
  OBVIOUS
<1>1. Init => Register!Init
  <2> SUFFICES ASSUME Init PROVE Register!Init
    OBVIOUS
  <2>1. disk \in [Copies -> CopyFiles] /\ card = disk
    BY InitHolds, Typed DEF Init
  <2>2. Load(disk) \subseteq Records
    BY <2>1, LoadCases, FileCases
  <2> QED BY <2>1, <2>2 DEF Register!Init
<1>2. IInv /\ [Next]_vars =>
        [Register!Write \/ Register!WriteBack \/ Register!LosePower]_
            <<Load(disk), Load(card)>>
  <2> SUFFICES ASSUME IInv, [Next]_vars
               PROVE  \/ Register!Write \/ Register!WriteBack
                      \/ Register!LosePower
                      \/ UNCHANGED <<Load(disk), Load(card)>>
    OBVIOUS
  <2>1. JournalInv
    BY PartsAre
  <2>2. CASE RenameNew /\ UNCHANGED card
    BY <2>1, <2>2, RenameImplements
  <2>3. CASE RemoveStale /\ UNCHANGED card
    BY <2>1, <2>3, RemoveImplements
  <2>4. CASE UNCHANGED <<disk, card>>
    BY <2>4 DEF Load, Selected
  <2>5. CASE card' = disk /\ disk' = disk
    BY <2>5 DEF Register!WriteBack, Load, Selected
  <2>6. CASE disk' = card /\ card' = card
    BY <2>6 DEF Register!LosePower, Load, Selected
  <2> QED BY <2>2, <2>3, <2>4, <2>5, <2>6, StepMoves DEF JournalMoves
<1> QED BY <1>1, <1>2, IInvHolds, PTL
        DEF Spec, ImplementsRegister, Register!Spec

=============================================================================
