------------------------------ MODULE SiteLog -------------------------------
(***************************************************************************)
(* session_site_storage.c: the log in which one always-kept site stores    *)
(* its items on the memory stick, with the swap of platform.c that puts a  *)
(* compacted rewrite in its place.                                         *)
(*                                                                         *)
(* A change of an item is a number, and a log is the sequence of changes   *)
(* it records, the first one standing for the items a rewrite began with.  *)
(* files is what the program finds under the three names of the log; card  *)
(* is what power loss would leave of them.                                 *)
(***************************************************************************)
EXTENDS Integers, Sequences, SequencesExt

CONSTANTS
    MaxChanges,     \* bound on the changes of one behaviour
    ClearsUnloaded  \* whether a site may be cleared before it is loaded

ASSUME MaxChangesAssumption == MaxChanges \in Nat
ASSUME ClearsUnloadedAssumption == ClearsUnloaded \in BOOLEAN

VARIABLES
    files,      \* the log's file, the rewrite and the backup
    card,       \* the same as the card holds them
    site,       \* the site's index of its log
    call,       \* the call in progress
    changes,    \* the changes made so far
    emptied     \* the change that left the site without a file, of the
                \* files and of the card

vars == <<files, card, site, call, changes, emptied>>

Names == {"path", "tmp", "bak"}

\* Partial is a rewrite without all its records, Torn a log that ends in a
\* record cut short.
States == {"Missing", "Headless", "Partial", "Torn", "Whole"}

Logs == BoundedSeq(0 .. MaxChanges, MaxChanges + 1)

File(state, log) == [state |-> state, log |-> log]
Missing == File("Missing", <<>>)
Headless == File("Headless", <<>>)

Phases ==
    {"Idle", "Place", "Rename", "DropTmp", "DropBak", "Parse", "DropInvalid",
     "Header", "Record", "Finish", "Rewrite", "Copy", "Aside", "AsideAgain",
     "Install", "Restore", "Refused", "DropBackup", "Clear", "ClearTmp", "ClearBak"}

TypeOK ==
    /\ files \in [Names -> [state : States, log : Logs]]
    /\ card \in [Names -> [state : States, log : Logs]]
    /\ site \in [loaded : BOOLEAN, log : Logs]
    /\ call \in [phase : Phases, chosen : Names, over : BOOLEAN]
    /\ changes \in 0 .. MaxChanges
    /\ emptied \in [files : 0 .. MaxChanges, card : 0 .. MaxChanges]

NoCall == [phase |-> "Idle", chosen |-> "path", over |-> FALSE]

Phase(p) == call.phase = p
Goto(p) == call' = [call EXCEPT !.phase = p]
Return == call' = NoCall

\* At most one file operation: onto path, remove a name, rename a name.
Put(name, file) == files' = [files EXCEPT ![name] = file]
Unlink(name) == Put(name, Missing)
Rename(from, to) ==
    files' = [files EXCEPT ![to] = files[from], ![from] = Missing]

\* A rename does not replace a file on this card.
CanRename(from, to) == files[from] # Missing /\ files[to] = Missing

-----------------------------------------------------------------------------
(***************************************************************************)
(* Which copy is the log.                                                  *)
(***************************************************************************)
\* stick_open_log: the header is there.
Valid(file) == file.state \in {"Partial", "Torn", "Whole"}

\* Mutation: the rewrite is trusted without a look at its records.
IntactHeader(file) == Valid(file)

\* stick_log_intact: every record checks out to the end of the file.
Intact(file) == file.state = "Whole"

Readable(disk) == {n \in Names : Valid(disk[n])}

\* Without a backup the swap never began; with one the rewrite, in the log's
\* place or beside it, was complete when it did.
Chosen(disk) ==
    LET readable == Readable(disk)
        first == IF "path" \in readable THEN "path" ELSE "tmp"
    IN  IF /\ "bak" \in readable
           /\ ~(first \in readable /\ Intact(disk[first]))
        THEN "bak" ELSE first

\* The last change a load would find: of a partial rewrite, none that was
\* ever the site's.
Content(file) == IF file.state = "Partial" THEN -1 ELSE Last(file.log)

Recovered(disk, empty) ==
    IF Readable(disk) = {} THEN empty ELSE Content(disk[Chosen(disk)])

RecoveredNow == Recovered(files, emptied.files)
RecoveredAfterLoss == Recovered(card, emptied.card)

\* file_bytes is 0 when the index has no log.
Tip == IF site.log = <<>> THEN emptied.files ELSE Last(site.log)

-----------------------------------------------------------------------------
(***************************************************************************)
(* stick_load.                                                             *)
(***************************************************************************)
Load ==
    /\ Phase("Idle") /\ ~site.loaded
    /\ IF Readable(files) = {}
       THEN /\ site' = [loaded |-> TRUE, log |-> <<>>]
            /\ Goto("DropInvalid")
       ELSE /\ call' = [call EXCEPT !.chosen = Chosen(files),
                !.phase = IF Chosen(files) = "path" THEN "DropTmp" ELSE "Place"]
            /\ UNCHANGED site
    /\ UNCHANGED <<files, card, changes, emptied>>

\* Whatever has the log's name and was not chosen goes first.
Place ==
    /\ Phase("Place")
    /\ Unlink("path")
    /\ Goto("Rename")
    /\ UNCHANGED <<card, site, changes, emptied>>

RenameChosen ==
    /\ Phase("Rename")
    /\ Rename(call.chosen, "path")
    /\ Goto("DropTmp")
    /\ UNCHANGED <<card, site, changes, emptied>>

DropTmp ==
    /\ Phase("DropTmp")
    /\ Unlink("tmp")
    /\ Goto("DropBak")
    /\ UNCHANGED <<card, site, changes, emptied>>

DropBak ==
    /\ Phase("DropBak")
    /\ Unlink("bak")
    /\ Goto("Parse")
    /\ UNCHANGED <<card, site, changes, emptied>>

\* Nothing usable: the files that are not this site's log go, in order.
DropInvalid ==
    /\ Phase("DropInvalid")
    /\ IF \E n \in Names : files[n] # Missing
       THEN /\ \E n \in Names : files[n] # Missing /\ Unlink(n)
            /\ UNCHANGED call
       ELSE Return /\ UNCHANGED files
    /\ UNCHANGED <<card, site, changes, emptied>>

\* The index is read up to the first bad record; without the memory for it
\* the site stays unloaded. Enough dead records call for a compaction.
Parse ==
    /\ Phase("Parse")
    /\ \/ /\ site' = [loaded |-> TRUE, log |-> files["path"].log]
          /\ \/ Return
             \/ Goto("Rewrite")
       \/ UNCHANGED site /\ Return
    /\ UNCHANGED <<files, card, changes, emptied>>

-----------------------------------------------------------------------------
(***************************************************************************)
(* item_set and item_remove: stick_handle, stick_create, stick_append.     *)
(***************************************************************************)
Write ==
    /\ Phase("Idle") /\ site.loaded
    /\ changes < MaxChanges
    /\ IF site.log = <<>>
       THEN Put("path", Headless) /\ Goto("Header")
       ELSE /\ files["path"] # Missing
            /\ Goto("Record")
            /\ UNCHANGED files
    /\ UNCHANGED <<card, site, changes, emptied>>

WriteHeader ==
    /\ Phase("Header")
    /\ \/ /\ Put("path", File("Whole", <<Tip>>))
          /\ site' = [site EXCEPT !.log = <<Tip>>]
          /\ Goto("Record")
       \/ Unlink("path") /\ UNCHANGED site /\ Return
    /\ UNCHANGED <<card, changes, emptied>>

\* The record's first bytes, over what a torn one may have left there.
WriteRecord ==
    /\ Phase("Record")
    /\ files' = [files EXCEPT !["path"].state = "Torn"]
    /\ call' = [call EXCEPT !.phase = "Finish", !.over = files["path"].state = "Torn"]
    /\ UNCHANGED <<card, site, changes, emptied>>

\* The rest of it, or not: the end of the log moves only with a whole record.
Finish ==
    /\ Phase("Finish")
    /\ \/ /\ site' = [site EXCEPT !.log = Append(@, changes + 1)]
          /\ \E left \in {"Whole"} \cup (IF call.over THEN {"Torn"} ELSE {}) :
              Put("path", File(left, site'.log))
          /\ changes' = changes + 1
          /\ call' \in {NoCall, [NoCall EXCEPT !.phase = "Rewrite"]}
       \/ UNCHANGED <<files, site, changes>> /\ Return
    /\ UNCHANGED <<card, emptied>>

-----------------------------------------------------------------------------
(***************************************************************************)
(* stick_compact, and tilefinch_platform_replace_file with a backup.       *)
(***************************************************************************)
Rewrite ==
    /\ Phase("Rewrite")
    /\ \/ Put("tmp", Headless) /\ Goto("Copy")
       \/ UNCHANGED files /\ Return
    /\ UNCHANGED <<card, site, changes, emptied>>

\* Mutation: a rewrite that failed to reach the stick is taken for done.
CopyUnchecked ==
    /\ Phase("Copy")
    /\ Put("tmp", File(IF files["tmp"] = Headless THEN "Partial" ELSE "Whole", <<Tip>>))
    /\ call' \in {call, [call EXCEPT !.phase = "Aside"]}
    /\ UNCHANGED <<card, site, changes, emptied>>

Copy ==
    /\ Phase("Copy")
    /\ \/ /\ files["tmp"] = Headless
          /\ Put("tmp", File("Partial", <<Tip>>)) /\ UNCHANGED call
       \/ /\ files["tmp"] # Headless
          /\ Put("tmp", File("Whole", <<Tip>>)) /\ Goto("Aside")
       \/ Unlink("tmp") /\ Return
    /\ UNCHANGED <<card, site, changes, emptied>>

\* The log moves aside. A failure is taken for a backup in the way.
MoveAside ==
    /\ Phase("Aside")
    /\ \/ CanRename("path", "bak") /\ Rename("path", "bak") /\ Goto("Install")
       \/ Unlink("bak") /\ Goto("AsideAgain")
    /\ UNCHANGED <<card, site, changes, emptied>>

MoveAsideAgain ==
    /\ Phase("AsideAgain")
    /\ \/ CanRename("path", "bak") /\ Rename("path", "bak") /\ Goto("Install")
       \/ UNCHANGED files /\ Goto("Refused")
    /\ UNCHANGED <<card, site, changes, emptied>>

Install ==
    /\ Phase("Install")
    /\ \/ CanRename("tmp", "path") /\ Rename("tmp", "path") /\ Goto("DropBackup")
       \/ UNCHANGED files /\ Goto("Restore")
    /\ UNCHANGED <<card, site, changes, emptied>>

Restore ==
    /\ Phase("Restore")
    /\ \/ CanRename("bak", "path") /\ Rename("bak", "path")
       \/ UNCHANGED files
    /\ Goto("Refused")
    /\ UNCHANGED <<card, site, changes, emptied>>

\* The swap failed: without a log in its place the complete rewrite stays.
Refused ==
    /\ Phase("Refused")
    /\ IF files["path"] # Missing THEN Unlink("tmp") ELSE UNCHANGED files
    /\ Return
    /\ UNCHANGED <<card, site, changes, emptied>>

\* The rewrite is the log: the index takes its offsets.
DropBackup ==
    /\ Phase("DropBackup")
    /\ Unlink("bak")
    /\ site' = [site EXCEPT !.log = <<Tip>>]
    /\ Return
    /\ UNCHANGED <<card, changes, emptied>>

-----------------------------------------------------------------------------
(***************************************************************************)
(* site_clear_data, on a loaded site or not, and site_remove_file.         *)
(***************************************************************************)
Clear ==
    /\ Phase("Idle") /\ (site.loaded \/ ClearsUnloaded)
    /\ changes < MaxChanges
    /\ changes' = changes + 1
    /\ emptied' = [emptied EXCEPT !.files = changes + 1]
    /\ site' = [loaded |-> TRUE, log |-> <<>>]
    /\ Goto("Clear")
    /\ UNCHANGED <<files, card>>

ClearFiles ==
    /\ \/ Phase("Clear") /\ Unlink("path") /\ Goto("ClearTmp")
       \/ Phase("ClearTmp") /\ Unlink("tmp") /\ Goto("ClearBak")
       \/ Phase("ClearBak") /\ Unlink("bak") /\ Return
    /\ UNCHANGED <<card, site, changes, emptied>>

\* site_storage_destroy: the log is closed; the next start loads it.
Leave ==
    /\ Phase("Idle") /\ site.loaded
    /\ site' = [loaded |-> FALSE, log |-> <<>>]
    /\ UNCHANGED <<files, card, call, changes, emptied>>

-----------------------------------------------------------------------------
(***************************************************************************)
(* The card.                                                               *)
(***************************************************************************)
\* What the program did reaches the card in order.
WriteBack ==
    /\ card' = files
    /\ emptied' = [emptied EXCEPT !.card = emptied.files]
    /\ UNCHANGED <<files, site, call, changes>>

\* The bytes of a rewrite may still be missing while its backup is there.
LosePower ==
    /\ \/ UNCHANGED card
       \/ /\ card["bak"] # Missing
          /\ \E n \in {"path", "tmp"} :
              card[n].state = "Whole" /\ card' = [card EXCEPT ![n].state = "Partial"]
    /\ files' = card'
    /\ site' = [loaded |-> FALSE, log |-> <<>>]
    /\ emptied' = [emptied EXCEPT !.files = emptied.card]
    /\ Return
    /\ UNCHANGED changes

-----------------------------------------------------------------------------
Init ==
    /\ files = [n \in Names |-> Missing]
    /\ card = files
    /\ site = [loaded |-> FALSE, log |-> <<>>]
    /\ call = NoCall
    /\ changes = 0
    /\ emptied = [files |-> 0, card |-> 0]

Next ==
    \/ Load \/ Place \/ RenameChosen \/ DropTmp \/ DropBak \/ DropInvalid \/ Parse
    \/ Write \/ WriteHeader \/ WriteRecord \/ Finish
    \/ Rewrite \/ Copy \/ MoveAside \/ MoveAsideAgain \/ Install \/ Restore
    \/ Refused \/ DropBackup
    \/ Clear \/ ClearFiles \/ Leave
    \/ WriteBack \/ LosePower

Spec == Init /\ [][Next]_vars

-----------------------------------------------------------------------------
\* Whatever step a call is at, a program that stopped there would find at its
\* next start every change it had accepted: a complete log exists under one
\* of the three names (the comment at stick_compact).
CompleteCopyExists ==
    site.loaded /\ call.phase \notin {"Clear", "ClearTmp", "ClearBak"} => RecoveredNow = Tip

\* Power loss costs the newest changes only, across any number of swaps,
\* failures and losses, also during the recovery itself (docs/STORAGE.md,
\* What survives a power cut).
Memory == INSTANCE SiteMemory
    WITH current <- IF site.loaded THEN Tip ELSE RecoveredNow,
         saved <- RecoveredAfterLoss
ImplementsSiteMemory == Memory!Spec

=============================================================================
