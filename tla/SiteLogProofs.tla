--------------------------- MODULE SiteLogProofs ----------------------------
(***************************************************************************)
(* Proofs about the log of one site, for any number of changes.            *)
(*                                                                         *)
(* The three names hold one of four pictures: no log, the log alone with   *)
(* what there is of a rewrite, the log moved aside, or the rewrite put in  *)
(* its place.  Each file operation turns one picture into another of the   *)
(* same value, and so does power loss.                                     *)
(***************************************************************************)
EXTENDS SiteLog, SequenceTheorems, TLAPS

FileShape == [state : States, log : Seq(Nat)]
DiskShape == [Names -> FileShape]

Shapes ==
    /\ files \in DiskShape /\ card \in DiskShape
    /\ site \in [loaded : BOOLEAN, log : Seq(Nat)]
    /\ call \in [phase : Phases, chosen : Names, over : BOOLEAN]
    /\ changes \in Nat
    /\ emptied \in [files : Nat, card : Nat]

-----------------------------------------------------------------------------
\* The pictures, with the last change v that a load would find in them.

IsLog(file, v) == /\ file.state \in {"Torn", "Whole"}
                  /\ file.log # <<>> /\ Last(file.log) = v

IsRewrite(file, v) == file \in {File("Partial", <<v>>), File("Whole", <<v>>)}

Bare(d) == /\ d["path"] \in {Missing, Headless}
           /\ d["tmp"] = Missing /\ d["bak"] = Missing

InPlace(d, v) == /\ IsLog(d["path"], v) /\ d["bak"] = Missing
                 /\ \/ d["tmp"] \in {Missing, Headless}
                    \/ IsRewrite(d["tmp"], v)

MovedAside(d, v) == /\ d["path"] = Missing /\ IsLog(d["bak"], v)
                    /\ d["tmp"] = Missing \/ IsRewrite(d["tmp"], v)

Replaced(d, v) == /\ IsRewrite(d["path"], v) /\ IsLog(d["bak"], v)
                  /\ d["tmp"] = Missing

Holds(d, e, v) == \/ Bare(d) /\ v = e
                  \/ InPlace(d, v) \/ MovedAside(d, v) \/ Replaced(d, v)

-----------------------------------------------------------------------------
\* What each step of a call has found and done so far.

Whole(name) == files[name].state = "Whole"
Gone(name) == files[name] = Missing

\* The index is that of the log in its place, or moved aside.
Indexed(name) == site.log # <<>> /\ files[name].log = site.log

Recovery ==
    /\ Phase("Place") =>
           /\ call.chosen = Chosen(files)
           /\ \/ MovedAside(files, RecoveredNow)
              \/ Replaced(files, RecoveredNow) /\ ~Whole("path")
    /\ Phase("Rename") =>
           call.chosen = Chosen(files) /\ MovedAside(files, RecoveredNow)
    /\ call.phase \in {"DropTmp", "DropBak"} =>
           \/ InPlace(files, RecoveredNow)
           \/ Replaced(files, RecoveredNow) /\ Whole("path")
    /\ Phase("DropBak") => Gone("tmp")
    /\ Phase("Parse") => InPlace(files, RecoveredNow) /\ Gone("tmp")

Empty == site.log = <<>> /\ Bare(files)
Ready == InPlace(files, RecoveredNow) /\ Gone("tmp") /\ Indexed("path")
Stuck == MovedAside(files, RecoveredNow) /\ Whole("tmp") /\ Indexed("bak")
Rewritten == InPlace(files, RecoveredNow) /\ Whole("tmp") /\ Indexed("path")

Clearing ==
    /\ call.phase \in {"Clear", "ClearTmp", "ClearBak"} =>
           /\ site.log = <<>>
           /\ RecoveredNow <= emptied.files /\ emptied.files <= changes
           /\ \/ Bare(files) \/ MovedAside(files, RecoveredNow)
              \/ Phase("Clear") /\ InPlace(files, RecoveredNow) /\ Gone("tmp")
    /\ call.phase \in {"ClearTmp", "ClearBak"} => Gone("path")
    /\ Phase("ClearBak") => Gone("tmp")

Working ==
    /\ Phase("Idle") => Empty \/ Ready \/ Stuck
    /\ Phase("DropInvalid") => Empty
    /\ Phase("Header") => Empty
    /\ call.phase \in {"Record", "Finish", "Rewrite"} => Ready
    /\ Phase("Finish") => ~Whole("path")
    /\ Phase("Copy") =>
           InPlace(files, RecoveredNow) /\ ~Gone("tmp") /\ Indexed("path")
    /\ call.phase \in {"Aside", "AsideAgain"} => Rewritten
    /\ call.phase \in {"Install", "Restore"} => Stuck
    /\ Phase("Refused") => Rewritten \/ Stuck
    /\ Phase("DropBackup") => /\ Replaced(files, RecoveredNow)
                              /\ Whole("path") /\ Indexed("bak")
    /\ Clearing

Recovering == {"Place", "Rename", "DropTmp", "DropBak", "Parse"}

CallInv ==
    /\ site.loaded => call.phase \notin Recovering /\ Working
    /\ ~site.loaded => /\ call.phase \in Recovering \cup {"Idle"}
                       /\ site.log = <<>> /\ Recovery

\* The card holds a picture of its own, no newer than the program's.
DiskInv ==
    /\ RecoveredNow \in Nat /\ RecoveredAfterLoss \in Nat
    /\ Holds(files, emptied.files, RecoveredNow)
    /\ Holds(card, emptied.card, RecoveredAfterLoss)
    /\ RecoveredAfterLoss <= RecoveredNow /\ RecoveredNow <= changes

IInv == Shapes /\ DiskInv /\ CallInv

-----------------------------------------------------------------------------
\* What a load finds in each picture.

LEMMA FileShapes ==
    /\ \A n \in Names : n = "path" \/ n = "tmp" \/ n = "bak"
    /\ "path" \in Names /\ "tmp" \in Names /\ "bak" \in Names
    /\ Missing \in FileShape /\ Headless \in FileShape
    /\ Missing.state = "Missing" /\ Headless.state = "Headless"
    /\ Missing # Headless
    /\ ~Valid(Missing) /\ ~Valid(Headless)
BY DEF Names, Missing, Headless, File, FileShape, States, Valid

LEMMA RewriteIs ==
    ASSUME NEW file, NEW v \in Nat, IsRewrite(file, v)
    PROVE  /\ file \in FileShape /\ Valid(file)
           /\ file.state \in {"Partial", "Whole"} /\ file.log = <<v>>
           /\ file # Missing /\ file # Headless
           /\ file.log # <<>> /\ Last(file.log) = v
<1>1. <<v>> \in Seq(Nat) /\ <<v>> # <<>> /\ Last(<<v>>) = v
  BY DEF Last
<1> DEFINE log == <<v>>
<1>3. log \in Seq(Nat)
  BY <1>1
<1> HIDE DEF log
<1>4. File("Partial", log) \in FileShape /\ File("Whole", log) \in FileShape
  BY <1>3 DEF File, FileShape, States
<1>5. file \in {File("Partial", log), File("Whole", log)}
  BY DEF IsRewrite, log
<1>6. file.state \in {"Partial", "Whole"} /\ file.log = log
  BY <1>5 DEF File
<1>2. file \in FileShape /\ file.state \in {"Partial", "Whole"}
          /\ file.log = <<v>>
  BY <1>4, <1>5, <1>6 DEF log
<1> QED BY <1>1, <1>2, FileShapes DEF Valid

LEMMA LogIs ==
    ASSUME NEW file, NEW v, IsLog(file, v)
    PROVE  Valid(file) /\ file # Missing /\ file # Headless
               /\ Content(file) = v
BY FileShapes DEF IsLog, Valid, Content

LEMMA BareIs ==
    ASSUME NEW d \in DiskShape, Bare(d)
    PROVE  Readable(d) = {} /\ \A e : Recovered(d, e) = e
<1>1. Readable(d) = {}
  BY FileShapes DEF Bare, Readable
<1> QED BY <1>1 DEF Recovered

LEMMA InPlaceIs ==
    ASSUME NEW d \in DiskShape, NEW v \in Nat, InPlace(d, v)
    PROVE  /\ Readable(d) # {} /\ Chosen(d) = "path"
           /\ \A e : Recovered(d, e) = v
<1>1. "path" \in Readable(d) /\ "bak" \notin Readable(d)
  BY LogIs, FileShapes DEF InPlace, Readable
<1>2. Chosen(d) = "path"
  BY <1>1 DEF Chosen
<1> QED BY <1>1, <1>2, LogIs DEF Recovered, InPlace

LEMMA MovedAsideIs ==
    ASSUME NEW d \in DiskShape, NEW v \in Nat, MovedAside(d, v)
    PROVE  /\ Readable(d) # {}
           /\ Chosen(d) = IF d["tmp"].state = "Whole" THEN "tmp" ELSE "bak"
           /\ \A e : Recovered(d, e) = v
<1>1. "path" \notin Readable(d) /\ "bak" \in Readable(d)
  BY LogIs, FileShapes DEF MovedAside, Readable
<1>2. d["tmp"].state = "Whole" =>
          /\ "tmp" \in Readable(d)
          /\ Content(d["tmp"]) = v
  BY FileShapes, RewriteIs DEF MovedAside, Readable, Content
<1>3. Chosen(d) = IF d["tmp"].state = "Whole" THEN "tmp" ELSE "bak"
  BY <1>1, <1>2 DEF Chosen, Intact
<1>4. Content(d["bak"]) = v
  BY LogIs DEF MovedAside
<1> QED BY <1>1, <1>2, <1>3, <1>4 DEF Recovered

LEMMA ReplacedIs ==
    ASSUME NEW d \in DiskShape, NEW v \in Nat, Replaced(d, v)
    PROVE  /\ Readable(d) # {}
           /\ Chosen(d) = IF d["path"].state = "Whole" THEN "path" ELSE "bak"
           /\ \A e : Recovered(d, e) = v
<1>1. "path" \in Readable(d) /\ "bak" \in Readable(d)
  BY LogIs, RewriteIs, FileShapes DEF Replaced, Readable
<1>2. Chosen(d) = IF d["path"].state = "Whole" THEN "path" ELSE "bak"
  BY <1>1 DEF Chosen, Intact
<1>3. Content(d["bak"]) = v
  BY LogIs DEF Replaced
<1>4. d["path"].state = "Whole" => Content(d["path"]) = v
  BY RewriteIs DEF Replaced, Content
<1> QED BY <1>1, <1>2, <1>3, <1>4 DEF Recovered

LEMMA HoldsIs ==
    ASSUME NEW d \in DiskShape, NEW e \in Nat, NEW v \in Nat, Holds(d, e, v)
    PROVE  /\ Recovered(d, e) = v
           /\ Readable(d) = {} <=> Bare(d)
<1>1. CASE Bare(d) /\ v = e
  BY <1>1, BareIs
<1>2. CASE InPlace(d, v)
  <2>1. ~Bare(d)
    BY <1>2, LogIs DEF InPlace, Bare
  <2> QED BY <2>1, <1>2, InPlaceIs
<1>3. CASE MovedAside(d, v)
  <2>1. ~Bare(d)
    BY <1>3, LogIs DEF MovedAside, Bare
  <2> QED BY <2>1, <1>3, MovedAsideIs
<1>4. CASE Replaced(d, v)
  <2>1. ~Bare(d)
    BY <1>4, LogIs DEF Replaced, Bare
  <2> QED BY <2>1, <1>4, ReplacedIs
<1> QED BY <1>1, <1>2, <1>3, <1>4 DEF Holds

-----------------------------------------------------------------------------
\* The three file operations.

LEMMA Puts ==
    ASSUME files \in DiskShape, NEW name \in Names, NEW file \in FileShape,
           Put(name, file)
    PROVE  /\ files' \in DiskShape /\ files'[name] = file
           /\ \A n \in Names : n # name => files'[n] = files[n]
BY DEF Put, DiskShape

LEMMA Unlinks ==
    ASSUME files \in DiskShape, NEW name \in Names, Unlink(name)
    PROVE  /\ files' \in DiskShape /\ files'[name] = Missing
           /\ \A n \in Names : n # name => files'[n] = files[n]
BY Puts, FileShapes DEF Unlink

LEMMA Renames ==
    ASSUME files \in DiskShape, NEW from \in Names, NEW to \in Names,
           from # to, Rename(from, to)
    PROVE  /\ files' \in DiskShape
           /\ files'[to] = files[from] /\ files'[from] = Missing
           /\ \A n \in Names : n # from /\ n # to => files'[n] = files[n]
BY FileShapes DEF Rename, DiskShape

-----------------------------------------------------------------------------
\* A step of a call that keeps the value: what is left is where it stands.

Same == UNCHANGED <<card, changes, emptied>>

LEMMA ValueKept ==
    ASSUME IInv, files' \in DiskShape, Same,
           Holds(files', emptied.files, RecoveredNow)
    PROVE  /\ DiskInv' /\ RecoveredNow' = RecoveredNow
           /\ RecoveredAfterLoss' = RecoveredAfterLoss
<1>1. /\ emptied.files \in Nat /\ RecoveredNow \in Nat
  BY DEF IInv, Shapes, DiskInv
<1>2. Recovered(files', emptied.files) = RecoveredNow
  BY <1>1, HoldsIs
<1>3. emptied' = emptied /\ card' = card /\ changes' = changes
  BY DEF Same
<1>4. RecoveredNow' = RecoveredNow
  BY <1>2, <1>3 DEF RecoveredNow
<1>5. RecoveredAfterLoss' = RecoveredAfterLoss
  BY <1>3 DEF RecoveredAfterLoss
<1> QED BY <1>3, <1>4, <1>5 DEF DiskInv, IInv

\* What a reader sees, as the refinement maps it.
Current == IF site.loaded THEN Tip ELSE RecoveredNow
AtClear == call.phase \in {"Clear", "ClearTmp", "ClearBak"}

LEMMA CurrentIs ==
    IInv => /\ Current \in Nat /\ RecoveredNow <= Current
            /\ ~AtClear => Current = RecoveredNow
            /\ Current <= changes \/ AtClear
<1> SUFFICES ASSUME IInv
             PROVE  /\ Current \in Nat /\ RecoveredNow <= Current
                    /\ ~AtClear => Current = RecoveredNow
                    /\ Current <= changes \/ AtClear
  OBVIOUS
<1>1. /\ RecoveredNow \in Nat /\ changes \in Nat /\ emptied.files \in Nat
      /\ RecoveredNow <= changes
  BY DEF IInv, Shapes, DiskInv
<1>2. CASE ~site.loaded
  <2>1. ~AtClear
    BY <1>2 DEF IInv, CallInv, AtClear, Recovering
  <2> QED BY <2>1, <1>1, <1>2 DEF Current
<1>3. CASE site.loaded /\ AtClear
  <2>1. site.log = <<>> /\ RecoveredNow <= emptied.files
    BY <1>3 DEF IInv, CallInv, Working, Clearing, AtClear
  <2> QED BY <2>1, <1>1, <1>3 DEF Current, Tip
<1>4. CASE site.loaded /\ ~AtClear
  <2>1. Tip = RecoveredNow
    <3>1. \/ call.phase \in {"Idle", "DropInvalid", "Header"}
          \/ call.phase \in {"Record", "Finish", "Rewrite"}
          \/ call.phase \in {"Copy", "Aside", "AsideAgain", "Install"}
          \/ call.phase \in {"Restore", "Refused", "DropBackup"}
      BY <1>4 DEF IInv, Shapes, CallInv, AtClear, Phases, Recovering
    <3>2. CASE Empty
      <4>1. Recovered(files, emptied.files) = emptied.files
        BY <3>2, BareIs DEF Empty, IInv, Shapes
      <4> QED BY <4>1, <3>2 DEF Empty, Tip, RecoveredNow
    <3>3. CASE Indexed("path") /\ InPlace(files, RecoveredNow)
      BY <3>3 DEF Indexed, InPlace, IsLog, Tip
    <3>4. CASE Indexed("bak") /\ (\/ MovedAside(files, RecoveredNow)
                                  \/ Replaced(files, RecoveredNow))
      BY <3>4 DEF Indexed, MovedAside, Replaced, IsLog, Tip
    <3>5. Working
      BY <1>4 DEF IInv, CallInv
    <3>6. \/ Empty
          \/ Indexed("path") /\ InPlace(files, RecoveredNow)
          \/ Indexed("bak") /\ (\/ MovedAside(files, RecoveredNow)
                                \/ Replaced(files, RecoveredNow))
      <4>1. CASE call.phase \in {"Idle", "DropInvalid", "Header"}
        BY <4>1, <3>5 DEF Working, Phase, Ready, Stuck
      <4>2. CASE call.phase \in {"Record", "Finish", "Rewrite"}
        BY <4>2, <3>5 DEF Working, Ready
      <4>3. CASE call.phase \in {"Copy", "Aside", "AsideAgain", "Install"}
        BY <4>3, <3>5 DEF Working, Phase, Rewritten, Stuck
      <4>4. CASE call.phase \in {"Restore", "Refused", "DropBackup"}
        BY <4>4, <3>5 DEF Working, Phase, Rewritten, Stuck
      <4> QED BY <3>1, <4>1, <4>2, <4>3, <4>4
    <3> QED BY <3>2, <3>3, <3>4, <3>6
  <2> QED BY <2>1, <1>1, <1>4 DEF Current
<1> QED BY <1>2, <1>3, <1>4

-----------------------------------------------------------------------------
\* One lemma per action.  Most keep the value and the card.

Keeps == /\ files' \in DiskShape /\ Same
         /\ Holds(files', emptied.files, RecoveredNow)

StepShapes == /\ site' \in [loaded : BOOLEAN, log : Seq(Nat)]
              /\ call' \in [phase : Phases, chosen : Names, over : BOOLEAN]

\* The phase that a kept step leaves, with what is known there.
LEMMA Settles ==
    ASSUME IInv, Keeps, StepShapes,
           RecoveredNow' = RecoveredNow => CallInv'
    PROVE  /\ IInv' /\ RecoveredNow' = RecoveredNow
           /\ RecoveredAfterLoss' = RecoveredAfterLoss
<1>1. /\ DiskInv' /\ RecoveredNow' = RecoveredNow
      /\ RecoveredAfterLoss' = RecoveredAfterLoss
  BY ValueKept DEF Keeps
<1>2. Shapes'
  BY DEF Keeps, StepShapes, Same, IInv, Shapes
<1> QED BY <1>1, <1>2 DEF IInv

LEMMA Steps ==
    ASSUME IInv
    PROVE  /\ files \in DiskShape /\ RecoveredNow \in Nat
           /\ site \in [loaded : BOOLEAN, log : Seq(Nat)]
           /\ call \in [phase : Phases, chosen : Names, over : BOOLEAN]
           /\ Holds(files, emptied.files, RecoveredNow)
           /\ NoCall \in [phase : Phases, chosen : Names, over : BOOLEAN]
           /\ NoCall.phase = "Idle"
           /\ \A p \in Phases : Goto(p) =>
                  /\ call' \in [phase : Phases, chosen : Names, over : BOOLEAN]
                  /\ call'.phase = p /\ call'.chosen = call.chosen
<1>1. NoCall \in [phase : Phases, chosen : Names, over : BOOLEAN]
          /\ NoCall.phase = "Idle"
  BY DEF NoCall, Phases, Names
<1>2. call \in [phase : Phases, chosen : Names, over : BOOLEAN]
  BY DEF IInv, Shapes
<1>3. \A p \in Phases : Goto(p) =>
          /\ call' \in [phase : Phases, chosen : Names, over : BOOLEAN]
          /\ call'.phase = p /\ call'.chosen = call.chosen
  BY <1>2 DEF Goto
<1> QED BY <1>1, <1>2, <1>3 DEF IInv, Shapes, DiskInv

LEMMA LoadKeeps == IInv /\ Load => Keeps /\ IInv'
<1> SUFFICES ASSUME IInv, Load PROVE Keeps /\ IInv'
  OBVIOUS
<1> USE FileShapes
<1> DEFINE v == RecoveredNow
<1>1. /\ ~site.loaded /\ Phase("Idle") /\ files' = files /\ Same
  BY DEF Load, Same
<1>2. Keeps
  BY <1>1, Steps DEF Keeps
<1>3. Readable(files) = {} <=> Bare(files)
  BY Steps, HoldsIs DEF IInv, Shapes
<1>4. CASE Readable(files) = {}
  <2>1. site' = [loaded |-> TRUE, log |-> <<>>] /\ Goto("DropInvalid")
    BY <1>4 DEF Load
  <2>2. StepShapes /\ call'.phase = "DropInvalid"
    BY <2>1, Steps DEF StepShapes, Phases
  <2>3. Empty'
    BY <1>1, <1>3, <1>4, <2>1 DEF Empty
  <2>4. CallInv'
    BY <2>1, <2>2, <2>3 DEF CallInv, Working, Clearing, Phase, Recovering
  <2> QED BY <1>2, <2>2, <2>4, Settles
<1>5. CASE Readable(files) # {}
  <2>1. /\ site' = site
        /\ call' = [call EXCEPT !.chosen = Chosen(files), !.phase =
               IF Chosen(files) = "path" THEN "DropTmp" ELSE "Place"]
    BY <1>5 DEF Load
  <2>2. Chosen(files) \in Names
    BY DEF Chosen
  <2>3. /\ StepShapes /\ call'.chosen = Chosen(files)
        /\ call'.phase = IF Chosen(files) = "path" THEN "DropTmp" ELSE "Place"
    BY <2>1, <2>2, Steps DEF StepShapes, Phases
  <2>4. /\ Chosen(files) = "path" => \/ InPlace(files, v)
                                     \/ Replaced(files, v) /\ Whole("path")
        /\ Chosen(files) # "path" => \/ MovedAside(files, v)
                                     \/ Replaced(files, v) /\ ~Whole("path")
    <3>1. InPlace(files, v) \/ MovedAside(files, v) \/ Replaced(files, v)
      BY <1>3, <1>5, Steps DEF Holds
    <3>2. files \in DiskShape /\ v \in Nat
      BY Steps
    <3> HIDE DEF v
    <3> QED BY <3>1, <3>2, InPlaceIs, MovedAsideIs, ReplacedIs DEF Whole
  <2>5. RecoveredNow' = v => CallInv'
    <3> SUFFICES ASSUME RecoveredNow' = v PROVE CallInv'
      OBVIOUS
    <3>1. site'.loaded = FALSE /\ site'.log = <<>>
      BY <1>1, <2>1 DEF IInv, CallInv
    <3> HIDE DEF v
    <3>2. Recovery'
      BY <1>1, <2>3, <2>4 DEF Recovery, Phase, Whole
    <3> QED BY <2>3, <3>1, <3>2 DEF CallInv, Recovering
  <2> QED BY <1>2, <2>3, <2>5, Settles
<1> QED BY <1>4, <1>5

LEMMA PlaceKeeps == IInv /\ Place => Keeps /\ IInv'
<1> SUFFICES ASSUME IInv, Place PROVE Keeps /\ IInv'
  OBVIOUS
<1> USE FileShapes
<1> DEFINE v == RecoveredNow
<1>1. /\ files \in DiskShape /\ v \in Nat /\ Unlink("path") /\ Goto("Rename")
      /\ site' = site /\ Same /\ Phase("Place")
  BY Steps DEF Place, Same
<1>2. /\ ~site.loaded /\ site.log = <<>> /\ call.chosen = Chosen(files)
      /\ \/ MovedAside(files, v)
         \/ Replaced(files, v) /\ ~Whole("path")
  BY <1>1 DEF IInv, CallInv, Recovering, Recovery, Phase
<1>3. StepShapes /\ call'.phase = "Rename" /\ call'.chosen = call.chosen
  BY <1>1, Steps DEF StepShapes, Phases
<1> HIDE DEF v
<1>4. files' \in DiskShape /\ MovedAside(files', v)
  BY <1>1, <1>2, Unlinks DEF MovedAside, Replaced
<1>5. Chosen(files') = Chosen(files)
  <2>1. CASE MovedAside(files, v)
    <3>1. files'["tmp"] = files["tmp"]
      BY <1>1, Unlinks
    <3> QED BY <2>1, <3>1, <1>1, <1>4, MovedAsideIs
  <2>2. CASE Replaced(files, v) /\ ~Whole("path")
    <3>1. files'["tmp"] = Missing
      BY <1>1, <2>2, Unlinks DEF Replaced
    <3> QED BY <2>2, <3>1, <1>1, <1>4, MovedAsideIs, ReplacedIs DEF Whole
  <2> QED BY <1>2, <2>1, <2>2
<1>6. Keeps
  BY <1>1, <1>4 DEF Keeps, Holds, v
<1>7. RecoveredNow' = v => CallInv'
  BY <1>1, <1>2, <1>3, <1>4, <1>5 DEF CallInv, Recovery, Recovering, Phase
<1> QED BY <1>3, <1>6, <1>7, Settles DEF v

LEMMA RenameKeeps == IInv /\ RenameChosen => Keeps /\ IInv'
<1> SUFFICES ASSUME IInv, RenameChosen PROVE Keeps /\ IInv'
  OBVIOUS
<1> USE FileShapes
<1> DEFINE v == RecoveredNow
<1>1. /\ files \in DiskShape /\ v \in Nat /\ Rename(call.chosen, "path")
      /\ Goto("DropTmp") /\ site' = site /\ Same /\ Phase("Rename")
  BY Steps DEF RenameChosen, Same
<1>2. /\ ~site.loaded /\ site.log = <<>> /\ call.chosen = Chosen(files)
      /\ MovedAside(files, v)
  BY <1>1 DEF IInv, CallInv, Recovering, Recovery, Phase, Working
<1>3. StepShapes /\ call'.phase = "DropTmp"
  BY <1>1, Steps DEF StepShapes, Phases
<1> HIDE DEF v
<1>4. /\ files' \in DiskShape
      /\ \/ InPlace(files', v)
         \/ Replaced(files', v) /\ files'["path"].state = "Whole"
  <2>1. CASE call.chosen = "tmp"
    <3>1. files["tmp"].state = "Whole" /\ IsRewrite(files["tmp"], v)
      BY <1>1, <1>2, <2>1, MovedAsideIs DEF MovedAside
    <3>2. /\ files' \in DiskShape /\ files'["path"] = files["tmp"]
          /\ files'["tmp"] = Missing /\ files'["bak"] = files["bak"]
      BY <1>1, <2>1, Renames
    <3> QED BY <1>2, <3>1, <3>2 DEF MovedAside, Replaced
  <2>2. CASE call.chosen = "bak"
    <3>1. /\ files' \in DiskShape /\ files'["path"] = files["bak"]
          /\ files'["bak"] = Missing /\ files'["tmp"] = files["tmp"]
      BY <1>1, <2>2, Renames
    <3> QED BY <1>2, <3>1 DEF MovedAside, InPlace
  <2> QED BY <1>1, <1>2, <2>1, <2>2, MovedAsideIs
<1>5. Keeps
  BY <1>1, <1>4 DEF Keeps, Holds, v
<1>6. RecoveredNow' = v => CallInv'
  BY <1>1, <1>2, <1>3, <1>4 DEF CallInv, Recovery, Recovering, Phase, Whole
<1> QED BY <1>3, <1>5, <1>6, Settles DEF v

LEMMA DropTmpKeeps == IInv /\ DropTmp => Keeps /\ IInv'
<1> SUFFICES ASSUME IInv, DropTmp PROVE Keeps /\ IInv'
  OBVIOUS
<1> USE FileShapes
<1> DEFINE v == RecoveredNow
<1>1. /\ files \in DiskShape /\ Unlink("tmp") /\ Goto("DropBak")
      /\ site' = site /\ Same /\ Phase("DropTmp")
  BY Steps DEF DropTmp, Same
<1>2. /\ ~site.loaded /\ site.log = <<>>
      /\ \/ InPlace(files, v)
         \/ Replaced(files, v) /\ Whole("path")
  BY <1>1 DEF IInv, CallInv, Recovering, Recovery, Phase
<1>3. StepShapes /\ call'.phase = "DropBak"
  BY <1>1, Steps DEF StepShapes, Phases
<1> HIDE DEF v
<1>4. /\ files' \in DiskShape /\ files'["tmp"] = Missing
      /\ \/ InPlace(files', v)
         \/ Replaced(files', v) /\ files'["path"].state = "Whole"
  BY <1>1, <1>2, Unlinks DEF InPlace, Replaced, Whole
<1>5. Keeps
  BY <1>1, <1>4 DEF Keeps, Holds, v
<1>6. RecoveredNow' = v => CallInv'
  BY <1>1, <1>2, <1>3, <1>4
     DEF CallInv, Recovery, Recovering, Phase, Whole, Gone
<1> QED BY <1>3, <1>5, <1>6, Settles DEF v

LEMMA DropBakKeeps == IInv /\ DropBak => Keeps /\ IInv'
<1> SUFFICES ASSUME IInv, DropBak PROVE Keeps /\ IInv'
  OBVIOUS
<1> USE FileShapes
<1> DEFINE v == RecoveredNow
<1>1. /\ files \in DiskShape /\ v \in Nat /\ Unlink("bak") /\ Goto("Parse")
      /\ site' = site /\ Same /\ Phase("DropBak")
  BY Steps DEF DropBak, Same
<1>2. /\ ~site.loaded /\ site.log = <<>> /\ files["tmp"] = Missing
      /\ \/ InPlace(files, v)
         \/ Replaced(files, v) /\ Whole("path")
  BY <1>1 DEF IInv, CallInv, Recovering, Recovery, Phase, Gone
<1>3. StepShapes /\ call'.phase = "Parse"
  BY <1>1, Steps DEF StepShapes, Phases
<1> HIDE DEF v
<1>4. IsLog(files["path"], v)
  BY <1>1, <1>2, RewriteIs DEF InPlace, Replaced, Whole, IsLog
<1>5. /\ files' \in DiskShape /\ files'["tmp"] = Missing
      /\ InPlace(files', v)
  BY <1>1, <1>2, <1>4, Unlinks DEF InPlace
<1>6. Keeps
  BY <1>1, <1>5 DEF Keeps, Holds, v
<1>7. RecoveredNow' = v => CallInv'
  BY <1>1, <1>2, <1>3, <1>5 DEF CallInv, Recovery, Recovering, Phase, Gone
<1> QED BY <1>3, <1>6, <1>7, Settles DEF v

LEMMA DropInvalidKeeps == IInv /\ DropInvalid => Keeps /\ IInv'
<1> SUFFICES ASSUME IInv, DropInvalid PROVE Keeps /\ IInv'
  OBVIOUS
<1> USE FileShapes
<1>1. /\ files \in DiskShape /\ site' = site /\ Same /\ Phase("DropInvalid")
  BY Steps DEF DropInvalid, Same
<1>2. site.loaded /\ Empty
  BY <1>1 DEF IInv, CallInv, Working, Recovering, Phase
<1>3. /\ files' \in DiskShape /\ Bare(files') /\ StepShapes
      /\ call'.phase \in {"Idle", "DropInvalid"}
  <2>1. CASE \E n \in Names : files[n] # Missing
    <3>1. PICK n \in Names : Unlink(n) /\ call' = call
      BY <2>1 DEF DropInvalid
    <3>2. files' \in DiskShape /\ Bare(files')
      BY <1>1, <1>2, <3>1, Unlinks DEF Empty, Bare
    <3> QED BY <1>1, <3>1, <3>2, Steps DEF StepShapes, Phase
  <2>2. CASE ~(\E n \in Names : files[n] # Missing)
    <3>1. files' = files /\ call' = NoCall
      BY <2>2 DEF DropInvalid, Return
    <3> QED BY <1>1, <1>2, <3>1, Steps DEF StepShapes, Empty
  <2> QED BY <2>1, <2>2
<1>4. RecoveredNow = emptied.files
  BY <1>1, <1>2, BareIs DEF RecoveredNow, Empty
<1>5. Keeps
  BY <1>1, <1>3, <1>4 DEF Keeps, Holds
<1>6. CallInv'
  BY <1>1, <1>2, <1>3 DEF CallInv, Working, Clearing, Recovering, Phase, Empty
<1> QED BY <1>3, <1>5, <1>6, Settles

LEMMA ParseKeeps == IInv /\ Parse => Keeps /\ IInv'
<1> SUFFICES ASSUME IInv, Parse PROVE Keeps /\ IInv'
  OBVIOUS
<1> USE FileShapes
<1> DEFINE v == RecoveredNow
<1>1. /\ files \in DiskShape /\ files' = files /\ Same /\ Phase("Parse")
  BY Steps DEF Parse, Same
<1>2. /\ ~site.loaded /\ site.log = <<>> /\ InPlace(files, v)
      /\ files["tmp"] = Missing
  BY <1>1 DEF IInv, CallInv, Recovering, Recovery, Phase, Gone
<1>3. Keeps
  BY <1>1, Steps DEF Keeps
<1> HIDE DEF v
<1>4. CASE site' = site /\ Return
  <2>1. StepShapes /\ call'.phase = "Idle"
    BY <1>4, Steps DEF StepShapes, Return
  <2>2. CallInv'
    BY <1>2, <1>4, <2>1 DEF CallInv, Recovery, Recovering, Phase
  <2> QED BY <1>3, <2>1, <2>2, Settles DEF v
<1>5. CASE /\ site' = [loaded |-> TRUE, log |-> files["path"].log]
           /\ Return \/ Goto("Rewrite")
  <2>1. StepShapes /\ call'.phase \in {"Idle", "Rewrite"}
    BY <1>1, <1>5, Steps DEF StepShapes, Return, Phases, DiskShape, FileShape
  <2>2. RecoveredNow' = v => CallInv'
    <3> SUFFICES ASSUME RecoveredNow' = v PROVE CallInv'
      OBVIOUS
    <3>1. Ready'
      BY <1>1, <1>2, <1>5 DEF Ready, Gone, Indexed, InPlace, IsLog
    <3> QED BY <1>5, <2>1, <3>1
            DEF CallInv, Working, Clearing, Recovering, Phase
  <2> QED BY <1>3, <2>1, <2>2, Settles DEF v
<1> QED BY <1>4, <1>5 DEF Parse

-----------------------------------------------------------------------------
\* Writing a record, and the swap.

LEMMA Loaded ==
    ASSUME IInv, call.phase \notin Recovering \cup {"Idle"}
    PROVE  site.loaded /\ Working
BY DEF IInv, CallInv

LEMMA EmptyIs ==
    IInv /\ Empty => RecoveredNow = emptied.files /\ Tip = emptied.files
BY BareIs DEF IInv, Shapes, Empty, RecoveredNow, Tip

LEMMA IndexedIs ==
    \A n, v : IsLog(files[n], v) /\ Indexed(n) => Tip = v
BY DEF IsLog, Indexed, Tip

LEMMA WriteKeeps == IInv /\ Write => Keeps /\ IInv'
<1> SUFFICES ASSUME IInv, Write PROVE Keeps /\ IInv'
  OBVIOUS
<1> USE FileShapes
<1> DEFINE v == RecoveredNow
<1>1. /\ files \in DiskShape /\ site' = site /\ Same /\ site.loaded
      /\ Phase("Idle")
  BY Steps DEF Write, Same
<1>2. Empty \/ Ready \/ Stuck
  BY <1>1 DEF IInv, CallInv, Working
<1>3. CASE site.log = <<>>
  <2>1. Empty /\ Put("path", Headless) /\ Goto("Header")
    BY <1>2, <1>3 DEF Write, Ready, Stuck, Indexed
  <2>2. files' \in DiskShape /\ Bare(files')
    BY <1>1, <2>1, Puts DEF Empty, Bare
  <2>3. StepShapes /\ call'.phase = "Header"
    BY <1>1, <2>1, Steps DEF StepShapes, Phases
  <2>4. Keeps
    BY <1>1, <2>1, <2>2, EmptyIs DEF Keeps, Holds
  <2>5. CallInv'
    BY <1>1, <1>3, <2>2, <2>3
       DEF CallInv, Working, Clearing, Recovering, Phase, Empty
  <2> QED BY <2>3, <2>4, <2>5, Settles
<1>4. CASE site.log # <<>>
  <2>1. Ready /\ files' = files /\ Goto("Record")
    BY <1>2, <1>4 DEF Write, Empty, Stuck, MovedAside
  <2>2. StepShapes /\ call'.phase = "Record"
    BY <1>1, <2>1, Steps DEF StepShapes, Phases
  <2>3. Keeps
    BY <1>1, <2>1, Steps DEF Keeps
  <2>4. RecoveredNow' = v => CallInv'
    <3> SUFFICES ASSUME RecoveredNow' = v PROVE CallInv'
      OBVIOUS
    <3>1. Ready'
      BY <1>1, <2>1 DEF Ready, Gone, Indexed
    <3> QED BY <1>1, <2>2, <3>1
            DEF CallInv, Working, Clearing, Recovering, Phase
  <2> QED BY <2>2, <2>3, <2>4, Settles
<1> QED BY <1>3, <1>4

LEMMA HeaderKeeps == IInv /\ WriteHeader => Keeps /\ IInv'
<1> SUFFICES ASSUME IInv, WriteHeader PROVE Keeps /\ IInv'
  OBVIOUS
<1> USE FileShapes
<1> DEFINE v == RecoveredNow
<1>1. files \in DiskShape /\ v \in Nat /\ Same /\ Phase("Header")
  BY Steps DEF WriteHeader, Same
<1>2. site.loaded /\ Empty /\ Tip = v /\ v = emptied.files
  BY <1>1, Loaded, EmptyIs DEF Working, Recovering, Phase
<1> HIDE DEF v
<1>3. CASE Unlink("path") /\ site' = site /\ Return
  <2>1. files' \in DiskShape /\ Bare(files')
    BY <1>1, <1>2, <1>3, Unlinks DEF Empty, Bare
  <2>2. StepShapes /\ call'.phase = "Idle"
    BY <1>3, Steps DEF StepShapes, Return
  <2>3. Keeps
    BY <1>1, <1>2, <2>1 DEF Keeps, Holds, v
  <2>4. CallInv'
    BY <1>2, <1>3, <2>1, <2>2
       DEF CallInv, Working, Clearing, Recovering, Phase, Empty
  <2> QED BY <2>2, <2>3, <2>4, Settles
<1>4. CASE /\ Put("path", File("Whole", <<Tip>>))
           /\ site' = [site EXCEPT !.log = <<Tip>>]
           /\ Goto("Record")
  <2> DEFINE file == File("Whole", <<v>>)
  <2>1. IsRewrite(file, v) /\ file.state = "Whole"
    BY DEF IsRewrite, File
  <2>2. file \in FileShape /\ file.log = <<v>> /\ IsLog(file, v)
    BY <1>1, <2>1, RewriteIs DEF IsLog
  <2> HIDE DEF file
  <2>3. /\ files' \in DiskShape /\ files'["path"] = file
        /\ files'["tmp"] = Missing /\ files'["bak"] = Missing
    BY <1>1, <1>2, <1>4, <2>2, Puts DEF Empty, Bare, file
  <2>4. InPlace(files', v)
    BY <2>2, <2>3 DEF InPlace
  <2>5. /\ StepShapes /\ call'.phase = "Record"
        /\ site'.loaded /\ site'.log = <<v>>
    <3>1. PICK log : log = <<v>>
      OBVIOUS
    <3>2. log \in Seq(Nat) /\ site' = [site EXCEPT !.log = log]
      BY <1>2, <1>4, <2>2, <3>1 DEF FileShape
    <3>3. /\ site' \in [loaded : BOOLEAN, log : Seq(Nat)]
          /\ site'.loaded /\ site'.log = log
      BY <1>2, <3>2, Steps
    <3> QED BY <1>4, <3>1, <3>3, Steps DEF StepShapes, Phases
  <2>6. Keeps
    BY <1>1, <2>3, <2>4 DEF Keeps, Holds, v
  <2>7. RecoveredNow' = v => CallInv'
    <3> SUFFICES ASSUME RecoveredNow' = v PROVE CallInv'
      OBVIOUS
    <3>1. Ready'
      BY <2>2, <2>3, <2>4, <2>5 DEF Ready, Gone, Indexed, IsLog
    <3> QED BY <2>5, <3>1 DEF CallInv, Working, Clearing, Recovering, Phase
  <2> QED BY <2>5, <2>6, <2>7, Settles DEF v
<1> QED BY <1>3, <1>4 DEF WriteHeader

LEMMA RecordKeeps == IInv /\ WriteRecord => Keeps /\ IInv'
<1> SUFFICES ASSUME IInv, WriteRecord PROVE Keeps /\ IInv'
  OBVIOUS
<1> USE FileShapes
<1> DEFINE v == RecoveredNow
<1>1. /\ files \in DiskShape /\ Same /\ Phase("Record") /\ site' = site
      /\ files' = [files EXCEPT !["path"].state = "Torn"]
  BY Steps DEF WriteRecord, Same
<1>2. site.loaded /\ Ready
  BY <1>1, Loaded DEF Working, Recovering, Phase
<1>3. /\ call' \in [phase : Phases, chosen : Names, over : BOOLEAN]
      /\ call'.phase = "Finish"
  BY Steps DEF WriteRecord, Phases
<1>4. StepShapes
  BY <1>1, <1>3, Steps DEF StepShapes
<1>5. files["path"] \in FileShape
  BY <1>1 DEF DiskShape
<1>6. PICK file : file = [files["path"] EXCEPT !.state = "Torn"]
  OBVIOUS
<1>7. /\ file \in FileShape /\ file.state = "Torn"
      /\ file.log = files["path"].log
  BY <1>5, <1>6 DEF FileShape, States
<1>8. Put("path", file)
  BY <1>1, <1>6 DEF Put
<1>9. /\ files' \in DiskShape /\ files'["path"] = file
      /\ files'["tmp"] = files["tmp"] /\ files'["bak"] = files["bak"]
  BY <1>1, <1>7, <1>8, Puts
<1> HIDE DEF v
<1>10. InPlace(files', v) /\ files'["tmp"] = Missing
  BY <1>2, <1>7, <1>9 DEF Ready, Gone, InPlace, IsLog, v
<1>11. Keeps
  BY <1>1, <1>9, <1>10 DEF Keeps, Holds, v
<1>12. RecoveredNow' = v => CallInv'
  <2> SUFFICES ASSUME RecoveredNow' = v PROVE CallInv'
    OBVIOUS
  <2>1. Ready' /\ ~Whole("path")'
    BY <1>1, <1>2, <1>7, <1>9, <1>10 DEF Ready, Gone, Indexed, Whole
  <2> QED BY <1>1, <1>2, <1>3, <2>1
          DEF CallInv, Working, Clearing, Recovering, Phase
<1> QED BY <1>4, <1>11, <1>12, Settles DEF v

LEMMA RewriteKeeps == IInv /\ Rewrite => Keeps /\ IInv'
<1> SUFFICES ASSUME IInv, Rewrite PROVE Keeps /\ IInv'
  OBVIOUS
<1> USE FileShapes
<1> DEFINE v == RecoveredNow
<1>1. files \in DiskShape /\ Same /\ Phase("Rewrite") /\ site' = site
  BY Steps DEF Rewrite, Same
<1>2. site.loaded /\ Ready
  BY <1>1, Loaded DEF Working, Recovering, Phase
<1>3. CASE Put("tmp", Headless) /\ Goto("Copy")
  <2>1. /\ files' \in DiskShape /\ files'["tmp"] = Headless
        /\ files'["path"] = files["path"] /\ files'["bak"] = files["bak"]
    BY <1>1, <1>3, Puts
  <2>2. StepShapes /\ call'.phase = "Copy"
    BY <1>1, <1>3, Steps DEF StepShapes, Phases
  <2> HIDE DEF v
  <2>3. InPlace(files', v)
    BY <1>2, <2>1 DEF Ready, InPlace, v
  <2>4. Keeps
    BY <1>1, <2>1, <2>3 DEF Keeps, Holds, v
  <2>5. RecoveredNow' = v => CallInv'
    BY <1>1, <1>2, <2>1, <2>2, <2>3
       DEF CallInv, Working, Clearing, Recovering, Phase, Ready, Gone, Indexed
  <2> QED BY <2>2, <2>4, <2>5, Settles DEF v
<1>4. CASE files' = files /\ Return
  <2>1. StepShapes /\ call'.phase = "Idle"
    BY <1>1, <1>4, Steps DEF StepShapes, Return
  <2>2. Keeps
    BY <1>1, <1>4, Steps DEF Keeps
  <2>3. RecoveredNow' = v => CallInv'
    BY <1>1, <1>2, <1>4, <2>1
       DEF CallInv, Working, Clearing, Recovering, Phase, Ready, Gone, Indexed
  <2> QED BY <2>1, <2>2, <2>3, Settles
<1> QED BY <1>3, <1>4 DEF Rewrite

LEMMA CopyKeeps == IInv /\ Copy => Keeps /\ IInv'
<1> SUFFICES ASSUME IInv, Copy PROVE Keeps /\ IInv'
  OBVIOUS
<1> USE FileShapes
<1> DEFINE v == RecoveredNow
<1>1. /\ files \in DiskShape /\ v \in Nat /\ Same /\ Phase("Copy")
      /\ site' = site
  BY Steps DEF Copy, Same
<1>2. /\ site.loaded /\ InPlace(files, v) /\ ~Gone("tmp")
      /\ Indexed("path")
  BY <1>1, Loaded DEF Working, Recovering, Phase
<1>3. Tip = v
  BY <1>2, IndexedIs DEF InPlace
<1> HIDE DEF v
<1>4. CASE \E state \in {"Partial", "Whole"} :
               /\ Put("tmp", File(state, <<Tip>>))
               /\ \/ state = "Partial" /\ call' = call
                  \/ state = "Whole" /\ Goto("Aside")
  <2>1. PICK state \in {"Partial", "Whole"} :
            /\ Put("tmp", File(state, <<v>>))
            /\ \/ state = "Partial" /\ call' = call
               \/ state = "Whole" /\ Goto("Aside")
    BY <1>3, <1>4
  <2>2. PICK file : file = File(state, <<v>>)
    OBVIOUS
  <2>3. IsRewrite(file, v) /\ file.state = state
    BY <2>2 DEF IsRewrite, File
  <2>4. file \in FileShape /\ file # Missing
    BY <1>1, <2>3, RewriteIs
  <2>5. /\ files' \in DiskShape /\ files'["tmp"] = file
        /\ files'["path"] = files["path"] /\ files'["bak"] = files["bak"]
    BY <1>1, <2>1, <2>2, <2>4, Puts
  <2>6. /\ StepShapes
        /\ \/ call'.phase = "Copy"
           \/ call'.phase = "Aside" /\ state = "Whole"
    BY <1>1, <2>1, Steps DEF StepShapes, Phases, Phase
  <2>7. InPlace(files', v)
    BY <1>2, <2>3, <2>5 DEF InPlace
  <2>8. Keeps
    BY <1>1, <2>5, <2>7 DEF Keeps, Holds, v
  <2>9. RecoveredNow' = v => CallInv'
    <3> SUFFICES ASSUME RecoveredNow' = v PROVE CallInv'
      OBVIOUS
    <3>1. /\ ~Gone("tmp")' /\ Indexed("path")'
          /\ state = "Whole" => Rewritten'
      BY <1>1, <1>2, <2>3, <2>4, <2>5, <2>7
         DEF Gone, Indexed, Rewritten, Whole
    <3> QED BY <1>1, <1>2, <2>6, <2>7, <3>1
            DEF CallInv, Working, Clearing, Recovering, Phase
  <2> QED BY <2>6, <2>8, <2>9, Settles DEF v
<1>5. CASE Unlink("tmp") /\ Return
  <2>1. /\ files' \in DiskShape /\ files'["tmp"] = Missing
        /\ files'["path"] = files["path"] /\ files'["bak"] = files["bak"]
    BY <1>1, <1>5, Unlinks
  <2>2. StepShapes /\ call'.phase = "Idle"
    BY <1>1, <1>5, Steps DEF StepShapes, Return
  <2>3. InPlace(files', v)
    BY <1>2, <2>1 DEF InPlace
  <2>4. Keeps
    BY <1>1, <2>1, <2>3 DEF Keeps, Holds, v
  <2>5. RecoveredNow' = v => CallInv'
    BY <1>1, <1>2, <2>1, <2>2, <2>3
       DEF CallInv, Working, Clearing, Recovering, Phase, Ready, Gone, Indexed
  <2> QED BY <2>2, <2>4, <2>5, Settles DEF v
<1> QED BY <1>4, <1>5 DEF Copy

\* The log moves aside at the first or at the second attempt.
LEMMA AsideKeeps == IInv /\ (MoveAside \/ MoveAsideAgain) => Keeps /\ IInv'
<1> SUFFICES ASSUME IInv, MoveAside \/ MoveAsideAgain PROVE Keeps /\ IInv'
  OBVIOUS
<1> USE FileShapes
<1> DEFINE v == RecoveredNow
<1>1. /\ files \in DiskShape /\ v \in Nat /\ Same /\ site' = site
      /\ call.phase \in {"Aside", "AsideAgain"}
  BY Steps DEF MoveAside, MoveAsideAgain, Same, Phase
<1>2. site.loaded /\ Rewritten
  BY <1>1, Loaded DEF Working, Recovering
<1>3. IsRewrite(files["tmp"], v)
  BY <1>2 DEF Rewritten, InPlace, Whole
<1>4. CASE Rename("path", "bak") /\ Goto("Install")
  <2>1. /\ files' \in DiskShape /\ files'["bak"] = files["path"]
        /\ files'["path"] = Missing /\ files'["tmp"] = files["tmp"]
    BY <1>1, <1>4, Renames
  <2>2. StepShapes /\ call'.phase = "Install"
    BY <1>1, <1>4, Steps DEF StepShapes, Phases
  <2> HIDE DEF v
  <2>3. MovedAside(files', v)
    BY <1>2, <1>3, <2>1 DEF Rewritten, InPlace, MovedAside, v
  <2>4. Keeps
    BY <1>1, <2>1, <2>3 DEF Keeps, Holds, v
  <2>5. RecoveredNow' = v => CallInv'
    BY <1>1, <1>2, <2>1, <2>2, <2>3
       DEF CallInv, Working, Clearing, Recovering, Phase, Rewritten, Stuck,
           Whole, Indexed
  <2> QED BY <2>2, <2>4, <2>5, Settles DEF v
<1>5. CASE /\ Unlink("bak") \/ files' = files
           /\ Goto("AsideAgain") \/ Goto("Refused")
  <2>1. files' \in DiskShape /\ \A n \in Names : files'[n] = files[n]
    BY <1>1, <1>2, <1>5, Unlinks DEF Rewritten, InPlace
  <2>2. StepShapes /\ call'.phase \in {"AsideAgain", "Refused"}
    BY <1>1, <1>5, Steps DEF StepShapes, Phases
  <2> HIDE DEF v
  <2>3. InPlace(files', v)
    BY <1>2, <2>1 DEF Rewritten, InPlace, v
  <2>4. Keeps
    BY <1>1, <2>1, <2>3 DEF Keeps, Holds, v
  <2>5. RecoveredNow' = v => CallInv'
    BY <1>1, <1>2, <2>1, <2>2, <2>3
       DEF CallInv, Working, Clearing, Recovering, Phase, Rewritten, Whole,
           Indexed
  <2> QED BY <2>2, <2>4, <2>5, Settles DEF v
<1> QED BY <1>4, <1>5 DEF MoveAside, MoveAsideAgain

LEMMA InstallKeeps == IInv /\ Install => Keeps /\ IInv'
<1> SUFFICES ASSUME IInv, Install PROVE Keeps /\ IInv'
  OBVIOUS
<1> USE FileShapes
<1> DEFINE v == RecoveredNow
<1>1. /\ files \in DiskShape /\ v \in Nat /\ Same /\ site' = site
      /\ Phase("Install")
  BY Steps DEF Install, Same
<1>2. site.loaded /\ Stuck
  BY <1>1, Loaded DEF Working, Recovering, Phase
<1>3. IsRewrite(files["tmp"], v)
  BY <1>2 DEF Stuck, MovedAside, Whole
<1>4. CASE Rename("tmp", "path") /\ Goto("DropBackup")
  <2>1. /\ files' \in DiskShape /\ files'["path"] = files["tmp"]
        /\ files'["tmp"] = Missing /\ files'["bak"] = files["bak"]
    BY <1>1, <1>4, Renames
  <2>2. StepShapes /\ call'.phase = "DropBackup"
    BY <1>1, <1>4, Steps DEF StepShapes, Phases
  <2> HIDE DEF v
  <2>3. Replaced(files', v)
    BY <1>2, <1>3, <2>1 DEF Stuck, MovedAside, Replaced, v
  <2>4. Keeps
    BY <1>1, <2>1, <2>3 DEF Keeps, Holds, v
  <2>5. RecoveredNow' = v => CallInv'
    BY <1>1, <1>2, <2>1, <2>2, <2>3
       DEF CallInv, Working, Clearing, Recovering, Phase, Stuck, Whole,
           Indexed
  <2> QED BY <2>2, <2>4, <2>5, Settles DEF v
<1>5. CASE files' = files /\ Goto("Restore")
  <2>1. StepShapes /\ call'.phase = "Restore"
    BY <1>1, <1>5, Steps DEF StepShapes, Phases
  <2>2. Keeps
    BY <1>1, <1>5, Steps DEF Keeps
  <2> HIDE DEF v
  <2>3. RecoveredNow' = v => CallInv'
    BY <1>1, <1>2, <1>5, <2>1
       DEF CallInv, Working, Clearing, Recovering, Phase, Stuck, Whole,
           Indexed, v
  <2> QED BY <2>1, <2>2, <2>3, Settles DEF v
<1> QED BY <1>4, <1>5 DEF Install

LEMMA RestoreKeeps == IInv /\ Restore => Keeps /\ IInv'
<1> SUFFICES ASSUME IInv, Restore PROVE Keeps /\ IInv'
  OBVIOUS
<1> USE FileShapes
<1> DEFINE v == RecoveredNow
<1>1. /\ files \in DiskShape /\ v \in Nat /\ Same /\ site' = site
      /\ Phase("Restore")
  BY Steps DEF Restore, Same
<1>2. site.loaded /\ Stuck
  BY <1>1, Loaded DEF Working, Recovering, Phase
<1>3. StepShapes /\ call'.phase = "Refused"
  BY <1>1, Steps DEF StepShapes, Phases, Restore
<1>4. CASE Rename("bak", "path")
  <2>1. /\ files' \in DiskShape /\ files'["path"] = files["bak"]
        /\ files'["bak"] = Missing /\ files'["tmp"] = files["tmp"]
    BY <1>1, <1>4, Renames
  <2> HIDE DEF v
  <2>2. InPlace(files', v)
    BY <1>2, <2>1 DEF Stuck, MovedAside, InPlace, Whole, v
  <2>3. Keeps
    BY <1>1, <2>1, <2>2 DEF Keeps, Holds, v
  <2>4. RecoveredNow' = v => CallInv'
    BY <1>1, <1>2, <1>3, <2>1, <2>2
       DEF CallInv, Working, Clearing, Recovering, Phase, Stuck, Rewritten,
           Whole, Indexed
  <2> QED BY <1>3, <2>3, <2>4, Settles DEF v
<1>5. CASE files' = files
  <2>1. Keeps
    BY <1>1, <1>5, Steps DEF Keeps
  <2> HIDE DEF v
  <2>2. RecoveredNow' = v => CallInv'
    BY <1>1, <1>2, <1>3, <1>5
       DEF CallInv, Working, Clearing, Recovering, Phase, Stuck, Whole,
           Indexed, v
  <2> QED BY <1>3, <2>1, <2>2, Settles DEF v
<1> QED BY <1>4, <1>5 DEF Restore

LEMMA RefusedKeeps == IInv /\ Refused => Keeps /\ IInv'
<1> SUFFICES ASSUME IInv, Refused PROVE Keeps /\ IInv'
  OBVIOUS
<1> USE FileShapes
<1> DEFINE v == RecoveredNow
<1>1. /\ files \in DiskShape /\ v \in Nat /\ Same /\ site' = site
      /\ Phase("Refused")
  BY Steps DEF Refused, Same
<1>2. site.loaded /\ (Rewritten \/ Stuck)
  BY <1>1, Loaded DEF Working, Recovering, Phase
<1>3. StepShapes /\ call'.phase = "Idle"
  BY <1>1, Steps DEF StepShapes, Return, Refused
<1>4. CASE files["path"] # Missing
  <2>1. Unlink("tmp") /\ Rewritten
    BY <1>2, <1>4 DEF Refused, Stuck, MovedAside
  <2>2. /\ files' \in DiskShape /\ files'["tmp"] = Missing
        /\ files'["path"] = files["path"] /\ files'["bak"] = files["bak"]
    BY <1>1, <2>1, Unlinks
  <2> HIDE DEF v
  <2>3. InPlace(files', v)
    BY <2>1, <2>2 DEF Rewritten, InPlace, v
  <2>4. Keeps
    BY <1>1, <2>2, <2>3 DEF Keeps, Holds, v
  <2>5. RecoveredNow' = v => CallInv'
    BY <1>1, <1>2, <1>3, <2>1, <2>2, <2>3
       DEF CallInv, Working, Clearing, Recovering, Phase, Rewritten, Ready,
           Gone, Indexed
  <2> QED BY <1>3, <2>4, <2>5, Settles DEF v
<1>5. CASE files["path"] = Missing
  <2>1. files' = files /\ Stuck
    <3>1. ~Rewritten
      BY <1>5, LogIs DEF Rewritten, InPlace
    <3> QED BY <1>2, <1>5, <3>1 DEF Refused
  <2>2. Keeps
    BY <1>1, <2>1, Steps DEF Keeps
  <2> HIDE DEF v
  <2>3. RecoveredNow' = v => CallInv'
    BY <1>1, <1>2, <1>3, <2>1
       DEF CallInv, Working, Clearing, Recovering, Phase, Stuck, Whole,
           Indexed, v
  <2> QED BY <1>3, <2>2, <2>3, Settles DEF v
<1> QED BY <1>4, <1>5

LEMMA DropBackupKeeps == IInv /\ DropBackup => Keeps /\ IInv'
<1> SUFFICES ASSUME IInv, DropBackup PROVE Keeps /\ IInv'
  OBVIOUS
<1> USE FileShapes
<1> DEFINE v == RecoveredNow
<1>1. /\ files \in DiskShape /\ v \in Nat /\ Same /\ Phase("DropBackup")
      /\ Unlink("bak") /\ site' = [site EXCEPT !.log = <<Tip>>] /\ Return
  BY Steps DEF DropBackup, Same
<1>2. /\ site.loaded /\ Replaced(files, v) /\ Whole("path")
      /\ Indexed("bak")
  BY <1>1, Loaded DEF Working, Recovering, Phase
<1>3. Tip = v
  BY <1>2, IndexedIs DEF Replaced
<1> HIDE DEF v
<1>4. /\ files' \in DiskShape /\ files'["bak"] = Missing
      /\ files'["path"] = files["path"] /\ files'["tmp"] = Missing
  BY <1>1, <1>2, Unlinks DEF Replaced
<1>5. /\ IsLog(files["path"], v) /\ files["path"].log = <<v>>
      /\ files["path"].log # <<>> /\ files["path"].log \in Seq(Nat)
  BY <1>1, <1>2, RewriteIs DEF Replaced, Whole, IsLog, FileShape
<1>6. site' = [site EXCEPT !.log = files["path"].log]
  BY <1>1, <1>3, <1>5
<1>7. /\ StepShapes /\ call'.phase = "Idle"
      /\ site'.loaded /\ site'.log = files["path"].log
  BY <1>1, <1>2, <1>5, <1>6, Steps DEF StepShapes, Return
<1>8. InPlace(files', v)
  BY <1>4, <1>5 DEF InPlace
<1>9. Keeps
  BY <1>1, <1>4, <1>8 DEF Keeps, Holds, v
<1>10. RecoveredNow' = v => CallInv'
  BY <1>4, <1>5, <1>7, <1>8
     DEF CallInv, Working, Clearing, Recovering, Phase, Ready, Gone, Indexed
<1> QED BY <1>7, <1>9, <1>10, Settles DEF v

\* A whole record is a change, a record cut short none.
LEMMA FinishFails ==
    IInv /\ Finish /\ changes' = changes => Keeps /\ IInv'
<1> SUFFICES ASSUME IInv, Finish, changes' = changes PROVE Keeps /\ IInv'
  OBVIOUS
<1>1. changes \in Nat /\ changes + 1 # changes
  BY DEF IInv, Shapes
<1>2. /\ Phase("Finish") /\ files' = files /\ site' = site /\ Same /\ Return
  BY <1>1 DEF Finish, Same
<1>3. site.loaded /\ Ready
  BY <1>2, Loaded DEF Working, Recovering, Phase
<1>4. StepShapes /\ call'.phase = "Idle"
  BY <1>2, Steps DEF StepShapes, Return
<1>5. Keeps
  BY <1>2, Steps DEF Keeps
<1>6. RecoveredNow' = RecoveredNow => CallInv'
  BY <1>2, <1>3, <1>4
     DEF CallInv, Working, Clearing, Recovering, Phase, Ready, Gone, Indexed
<1> QED BY <1>4, <1>5, <1>6, Settles

LEMMA FinishWrites ==
    IInv /\ Finish /\ changes' # changes =>
        /\ IInv' /\ RecoveredNow' = changes + 1
        /\ RecoveredAfterLoss' = RecoveredAfterLoss
        /\ call'.phase \in {"Idle", "Rewrite"}
<1> SUFFICES ASSUME IInv, Finish, changes' # changes
             PROVE  /\ IInv' /\ RecoveredNow' = changes + 1
                    /\ RecoveredAfterLoss' = RecoveredAfterLoss
                    /\ call'.phase \in {"Idle", "Rewrite"}
  OBVIOUS
<1> USE FileShapes
<1>1. /\ Phase("Finish") /\ card' = card /\ emptied' = emptied
      /\ changes' = changes + 1
      /\ site' = [site EXCEPT !.log = Append(@, changes + 1)]
      /\ \E left \in {"Whole", "Torn"} : Put("path", File(left, site'.log))
      /\ call' \in {NoCall, [NoCall EXCEPT !.phase = "Rewrite"]}
  BY DEF Finish
<1>2. PICK left \in {"Whole", "Torn"} : Put("path", File(left, site'.log))
  BY <1>1
<1>3. site.loaded /\ Ready
  BY <1>1, Loaded DEF Working, Recovering, Phase
<1>4. changes \in Nat /\ files \in DiskShape
  BY DEF IInv, Shapes
<1>5. PICK w : w = changes + 1
  OBVIOUS
<1>6. PICK log : log = Append(site.log, w)
  OBVIOUS
<1>7. log \in Seq(Nat) /\ log # <<>> /\ Last(log) = w
  BY <1>4, <1>5, <1>6, Steps, AppendProperties DEF Last
<1>8. site' = [site EXCEPT !.log = log]
  BY <1>1, <1>5, <1>6
<1>9. /\ site' \in [loaded : BOOLEAN, log : Seq(Nat)]
      /\ site'.loaded /\ site'.log = log
  BY <1>3, <1>7, <1>8, Steps
<1>10. /\ call' \in [phase : Phases, chosen : Names, over : BOOLEAN]
       /\ call'.phase \in {"Idle", "Rewrite"}
  <2>1. CASE call' = NoCall
    BY <2>1, Steps
  <2>2. CASE call' = [NoCall EXCEPT !.phase = "Rewrite"]
    BY <2>2, Steps DEF Phases
  <2> QED BY <1>1, <2>1, <2>2
<1>11. PICK file : file = File(left, log)
  OBVIOUS
<1>12. /\ file \in FileShape /\ file.log = log
       /\ IsLog(file, w)
  BY <1>7, <1>11 DEF File, FileShape, States, IsLog
<1>13. /\ files' \in DiskShape /\ files'["path"] = file
       /\ files'["tmp"] = Missing /\ files'["bak"] = Missing
  BY <1>2, <1>3, <1>4, <1>9, <1>11, <1>12, Puts DEF Ready, InPlace, Gone
<1>14. InPlace(files', w)
  BY <1>12, <1>13 DEF InPlace
<1>15. RecoveredNow' = w
  BY <1>4, <1>5, <1>13, <1>14, InPlaceIs DEF RecoveredNow
<1>16. RecoveredAfterLoss' = RecoveredAfterLoss
  BY <1>1 DEF RecoveredAfterLoss
<1>17. DiskInv'
  <2>1. /\ RecoveredNow \in Nat /\ RecoveredAfterLoss \in Nat
        /\ Holds(card, emptied.card, RecoveredAfterLoss)
        /\ RecoveredAfterLoss <= RecoveredNow /\ RecoveredNow <= changes
    BY DEF IInv, DiskInv
  <2>2. RecoveredAfterLoss <= w /\ w <= changes' /\ w \in Nat
    BY <2>1, <1>1, <1>4, <1>5
  <2> QED BY <2>1, <2>2, <1>1, <1>14, <1>15, <1>16 DEF DiskInv, Holds
<1>18. Shapes'
  BY <1>1, <1>4, <1>9, <1>10, <1>13 DEF IInv, Shapes
<1>19. CallInv'
  <2>1. Ready'
    BY <1>7, <1>9, <1>12, <1>13, <1>14, <1>15 DEF Ready, Gone, Indexed
  <2> QED BY <1>9, <1>10, <2>1
          DEF CallInv, Working, Clearing, Recovering, Phase
<1> QED BY <1>5, <1>10, <1>15, <1>16, <1>17, <1>18, <1>19 DEF IInv

-----------------------------------------------------------------------------
\* Clearing a site, and leaving it.

LEMMA ClearEmpties ==
    IInv /\ Clear /\ ~ClearsUnloaded =>
        /\ IInv' /\ Current' = changes + 1
        /\ RecoveredAfterLoss' = RecoveredAfterLoss
<1> SUFFICES ASSUME IInv, Clear, ~ClearsUnloaded
             PROVE  /\ IInv' /\ Current' = changes + 1
                    /\ RecoveredAfterLoss' = RecoveredAfterLoss
  OBVIOUS
<1> USE FileShapes
<1> DEFINE v == RecoveredNow
<1>1. /\ Phase("Idle") /\ site.loaded /\ files' = files /\ card' = card
      /\ changes' = changes + 1 /\ Goto("Clear")
      /\ emptied' = [emptied EXCEPT !.files = changes + 1]
      /\ site' = [loaded |-> TRUE, log |-> <<>>]
  BY DEF Clear
<1>2. Empty \/ Ready \/ Stuck
  BY <1>1 DEF IInv, CallInv, Working
<1>3. /\ changes \in Nat /\ v \in Nat /\ v <= changes
      /\ files \in DiskShape /\ card \in DiskShape
      /\ emptied \in [files : Nat, card : Nat]
      /\ RecoveredAfterLoss \in Nat /\ RecoveredAfterLoss <= v
      /\ Holds(card, emptied.card, RecoveredAfterLoss)
  BY DEF IInv, Shapes, DiskInv
<1>4. PICK w : w = changes + 1
  OBVIOUS
<1>5. w \in Nat /\ v <= w /\ emptied' = [emptied EXCEPT !.files = w]
  BY <1>1, <1>3, <1>4
<1>6. /\ emptied' \in [files : Nat, card : Nat]
      /\ emptied'.files = w /\ emptied'.card = emptied.card
  BY <1>3, <1>5
<1>7. /\ call' \in [phase : Phases, chosen : Names, over : BOOLEAN]
      /\ call'.phase = "Clear"
  BY <1>1, Steps DEF Phases
<1>8. RecoveredAfterLoss' = RecoveredAfterLoss
  BY <1>1, <1>6 DEF RecoveredAfterLoss
<1> HIDE DEF v
<1>9. /\ RecoveredNow' \in Nat /\ v <= RecoveredNow' /\ RecoveredNow' <= w
      /\ \/ Bare(files') /\ RecoveredNow' = w
         \/ MovedAside(files', RecoveredNow')
         \/ InPlace(files', RecoveredNow') /\ files'["tmp"] = Missing
  <2>1. CASE Bare(files)
    <3>1. RecoveredNow' = w
      BY <1>1, <1>3, <1>6, <2>1, BareIs DEF RecoveredNow
    <3> QED BY <1>1, <1>5, <2>1, <3>1
  <2>2. CASE InPlace(files, v) /\ files["tmp"] = Missing
    <3>1. RecoveredNow' = v
      BY <1>1, <1>3, <2>2, InPlaceIs DEF RecoveredNow
    <3> QED BY <1>1, <1>3, <1>5, <2>2, <3>1
  <2>3. CASE MovedAside(files, v)
    <3>1. RecoveredNow' = v
      BY <1>1, <1>3, <2>3, MovedAsideIs DEF RecoveredNow
    <3> QED BY <1>1, <1>3, <1>5, <2>3, <3>1
  <2> QED BY <1>2, <2>1, <2>2, <2>3 DEF Empty, Ready, Stuck, Gone, v
<1>10. DiskInv'
  <2>1. RecoveredAfterLoss <= RecoveredNow'
    BY <1>3, <1>9
  <2>2. RecoveredNow' <= changes'
    BY <1>1, <1>4, <1>9
  <2>3. Holds(files', emptied'.files, RecoveredNow')
    BY <1>6, <1>9 DEF Holds
  <2> QED BY <1>1, <1>3, <1>6, <1>8, <1>9, <2>1, <2>2, <2>3 DEF DiskInv
<1>11. Shapes'
  <2>1. site' \in [loaded : BOOLEAN, log : Seq(Nat)]
    BY <1>1
  <2> QED BY <1>1, <1>3, <1>6, <1>7, <2>1 DEF Shapes
<1>12. CallInv'
  <2>1. emptied'.files <= changes'
    BY <1>1, <1>4, <1>5, <1>6
  <2> QED BY <1>1, <1>6, <1>7, <1>9, <2>1
          DEF CallInv, Working, Clearing, Recovering, Phase, Gone
<1>13. Current' = w
  BY <1>1, <1>6 DEF Current, Tip
<1> QED BY <1>4, <1>8, <1>10, <1>11, <1>12, <1>13 DEF IInv

LEMMA ClearFilesEmpties ==
    IInv /\ ClearFiles =>
        /\ IInv' /\ Current' = Current
        /\ RecoveredAfterLoss' = RecoveredAfterLoss
<1> SUFFICES ASSUME IInv, ClearFiles
             PROVE  /\ IInv' /\ Current' = Current
                    /\ RecoveredAfterLoss' = RecoveredAfterLoss
  OBVIOUS
<1> USE FileShapes
<1> DEFINE v == RecoveredNow
           e == emptied.files
<1>1. site' = site /\ Same /\ AtClear
  BY DEF ClearFiles, Same, AtClear, Phase
<1>2. site.loaded /\ Clearing
  BY <1>1, Loaded DEF Working, Recovering, AtClear
<1>3. /\ site.log = <<>> /\ v <= e /\ e <= changes
      /\ v \in Nat /\ e \in Nat /\ changes \in Nat /\ files \in DiskShape
  BY <1>1, <1>2 DEF Clearing, AtClear, IInv, Shapes, DiskInv
<1>4. RecoveredAfterLoss' = RecoveredAfterLoss
  BY <1>1 DEF RecoveredAfterLoss, Same
<1>5. Current' = Current
  BY <1>1, <1>2, <1>3 DEF Current, Tip, Same
<1> HIDE DEF v
<1>6. /\ StepShapes
      /\ files' \in DiskShape
      /\ Bare(files') \/ MovedAside(files', v)
      /\ call'.phase \in {"ClearTmp", "ClearBak", "Idle"}
      /\ call'.phase # "Idle" => files'["path"] = Missing
      /\ call'.phase = "ClearBak" => files'["tmp"] = Missing
      /\ call'.phase = "Idle" => Bare(files')
  <2>1. CASE Phase("Clear") /\ Unlink("path") /\ Goto("ClearTmp")
    <3>1. \/ Bare(files) \/ MovedAside(files, v)
          \/ (InPlace(files, v) /\ files["tmp"] = Missing)
      BY <1>2, <2>1 DEF Clearing, Phase, Gone, v
    <3>2. /\ files' \in DiskShape /\ files'["path"] = Missing
          /\ files'["tmp"] = files["tmp"] /\ files'["bak"] = files["bak"]
      BY <1>3, <2>1, Unlinks
    <3>3. Bare(files') \/ MovedAside(files', v)
      BY <3>1, <3>2 DEF Bare, MovedAside, InPlace
    <3> QED BY <1>1, <2>1, <3>2, <3>3, Steps DEF StepShapes, Phases
  <2>2. CASE Phase("ClearTmp") /\ Unlink("tmp") /\ Goto("ClearBak")
    <3>1. /\ Bare(files) \/ MovedAside(files, v)
          /\ files["path"] = Missing
      BY <1>2, <2>2 DEF Clearing, Phase, Gone, v
    <3>2. /\ files' \in DiskShape /\ files'["tmp"] = Missing
          /\ files'["path"] = files["path"] /\ files'["bak"] = files["bak"]
      BY <1>3, <2>2, Unlinks
    <3>3. Bare(files') \/ MovedAside(files', v)
      BY <3>1, <3>2 DEF Bare, MovedAside
    <3> QED BY <1>1, <2>2, <3>1, <3>2, <3>3, Steps DEF StepShapes, Phases
  <2>3. CASE Phase("ClearBak") /\ Unlink("bak") /\ Return
    <3>1. files["path"] = Missing /\ files["tmp"] = Missing
      BY <1>2, <2>3 DEF Clearing, Phase, Gone
    <3>2. /\ files' \in DiskShape /\ files'["bak"] = Missing
          /\ files'["path"] = files["path"] /\ files'["tmp"] = files["tmp"]
      BY <1>3, <2>3, Unlinks
    <3>3. Bare(files')
      BY <3>1, <3>2 DEF Bare
    <3> QED BY <1>1, <2>3, <3>2, <3>3, Steps DEF StepShapes, Return
  <2> QED BY <2>1, <2>2, <2>3 DEF ClearFiles
<1>7. /\ RecoveredNow' \in Nat /\ v <= RecoveredNow' /\ RecoveredNow' <= e
      /\ \/ Bare(files') /\ RecoveredNow' = e
         \/ MovedAside(files', RecoveredNow')
  <2>1. emptied' = emptied
    BY <1>1 DEF Same
  <2>2. CASE Bare(files')
    <3>1. RecoveredNow' = e
      BY <1>6, <2>1, <2>2, BareIs DEF RecoveredNow
    <3> QED BY <1>3, <2>2, <3>1
  <2>3. CASE MovedAside(files', v)
    <3>1. RecoveredNow' = v
      BY <1>3, <1>6, <2>3, MovedAsideIs DEF RecoveredNow
    <3> QED BY <1>3, <2>3, <3>1
  <2> QED BY <1>6, <2>2, <2>3
<1>8. DiskInv'
  <2>1. /\ RecoveredAfterLoss \in Nat /\ RecoveredAfterLoss <= v
        /\ Holds(card, emptied.card, RecoveredAfterLoss)
    BY DEF IInv, DiskInv, v
  <2>2. RecoveredAfterLoss <= RecoveredNow' /\ RecoveredNow' <= changes
    BY <1>3, <1>7, <2>1
  <2>3. Holds(files', emptied.files, RecoveredNow')
    BY <1>7 DEF Holds
  <2> QED BY <1>1, <1>4, <1>7, <2>1, <2>2, <2>3 DEF DiskInv, Same
<1>9. Shapes'
  BY <1>1, <1>6 DEF IInv, Shapes, StepShapes, Same
<1>10. CallInv'
  BY <1>1, <1>2, <1>3, <1>6, <1>7
     DEF CallInv, Working, Clearing, Recovering, Phase, Empty, Gone, Same
<1> QED BY <1>4, <1>5, <1>8, <1>9, <1>10 DEF IInv

LEMMA LeaveKeeps == IInv /\ Leave => Keeps /\ IInv'
<1> SUFFICES ASSUME IInv, Leave PROVE Keeps /\ IInv'
  OBVIOUS
<1>1. /\ site' = [loaded |-> FALSE, log |-> <<>>] /\ call' = call
      /\ files' = files /\ Same /\ Phase("Idle")
  BY DEF Leave, Same
<1>2. StepShapes
  <2>1. site' \in [loaded : BOOLEAN, log : Seq(Nat)]
    BY <1>1
  <2> QED BY <1>1, <2>1, Steps DEF StepShapes
<1>3. Keeps
  BY <1>1, Steps DEF Keeps
<1>4. CallInv'
  BY <1>1 DEF CallInv, Recovery, Recovering, Phase
<1> QED BY <1>2, <1>3, <1>4, Settles

-----------------------------------------------------------------------------
\* The card.

LEMMA WriteBackSaves ==
    IInv /\ WriteBack =>
        /\ IInv' /\ Current' = Current
        /\ RecoveredAfterLoss' = RecoveredNow
<1> SUFFICES ASSUME IInv, WriteBack
             PROVE  /\ IInv' /\ Current' = Current
                    /\ RecoveredAfterLoss' = RecoveredNow
  OBVIOUS
<1>1. /\ card' = files /\ files' = files /\ site' = site /\ call' = call
      /\ changes' = changes
      /\ emptied' \in [files : Nat, card : Nat]
      /\ emptied'.files = emptied.files /\ emptied'.card = emptied.files
  BY DEF WriteBack, IInv, Shapes
<1>2. RecoveredNow' = RecoveredNow /\ RecoveredAfterLoss' = RecoveredNow
  BY <1>1 DEF RecoveredNow, RecoveredAfterLoss
<1>3. Shapes'
  BY <1>1 DEF IInv, Shapes
<1>4. DiskInv'
  BY <1>1, <1>2 DEF IInv, DiskInv
<1>5. CallInv'
  <2>1. Recovery => Recovery'
    BY <1>1, <1>2 DEF Recovery, Phase, Whole, Gone
  <2>2. Working => Working'
    BY <1>1, <1>2 DEF Working, Clearing, Empty, Ready, Stuck, Rewritten,
                      Phase, Whole, Gone, Indexed
  <2> QED BY <1>1, <2>1, <2>2 DEF IInv, CallInv
<1>6. Current' = Current
  BY <1>1, <1>2 DEF Current, Tip
<1> QED BY <1>2, <1>3, <1>4, <1>5, <1>6 DEF IInv

\* A rewrite that lost records has its backup.
LEMMA PartialKeeps ==
    ASSUME NEW d \in DiskShape, NEW e \in Nat, NEW v \in Nat, Holds(d, e, v),
           d["bak"] # Missing, NEW n \in {"path", "tmp"},
           d[n].state = "Whole", NEW x, x = [d EXCEPT ![n].state = "Partial"]
    PROVE  x \in DiskShape /\ Holds(x, e, v)
<1> USE FileShapes
<1>1. IsRewrite(d[n], v)
  BY DEF Holds, Bare, InPlace, MovedAside, Replaced
<1>2. d[n] = File("Whole", <<v>>)
  BY <1>1 DEF IsRewrite, File
<1>3. PICK file : file = [d[n] EXCEPT !.state = "Partial"]
  OBVIOUS
<1>4. file = File("Partial", <<v>>)
  BY <1>2, <1>3 DEF File
<1>5. IsRewrite(file, v)
  BY <1>4 DEF IsRewrite
<1>6. file \in FileShape
  BY <1>5, RewriteIs
<1>7. x = [d EXCEPT ![n] = file]
  BY <1>3
<1>8. /\ x \in DiskShape /\ x[n] = file
      /\ \A m \in Names : m # n => x[m] = d[m]
  BY <1>6, <1>7 DEF DiskShape
<1>9. \/ MovedAside(d, v) /\ n = "tmp"
      \/ Replaced(d, v) /\ n = "path"
  BY DEF Holds, Bare, InPlace, MovedAside, Replaced
<1>10. MovedAside(x, v) \/ Replaced(x, v)
  BY <1>5, <1>8, <1>9 DEF MovedAside, Replaced
<1> QED BY <1>8, <1>10 DEF Holds

LEMMA LosePowerReverts ==
    IInv /\ LosePower =>
        /\ IInv' /\ Current' = RecoveredAfterLoss
        /\ RecoveredAfterLoss' = RecoveredAfterLoss
<1> SUFFICES ASSUME IInv, LosePower
             PROVE  /\ IInv' /\ Current' = RecoveredAfterLoss
                    /\ RecoveredAfterLoss' = RecoveredAfterLoss
  OBVIOUS
<1> DEFINE u == RecoveredAfterLoss
           e == emptied.card
<1>1. /\ card \in DiskShape /\ e \in Nat /\ u \in Nat /\ changes \in Nat
      /\ Holds(card, e, u) /\ u <= RecoveredNow /\ RecoveredNow <= changes
      /\ RecoveredNow \in Nat
  BY DEF IInv, Shapes, DiskInv
<1>2. /\ files' = card' /\ site' = [loaded |-> FALSE, log |-> <<>>]
      /\ changes' = changes /\ call' = NoCall
      /\ emptied' \in [files : Nat, card : Nat]
      /\ emptied'.files = e /\ emptied'.card = e
  BY DEF LosePower, Return, IInv, Shapes
<1> HIDE DEF u, e
<1>3. card' \in DiskShape /\ Holds(card', e, u)
  <2>1. CASE card' = card
    BY <1>1, <2>1
  <2>2. CASE /\ card["bak"] # Missing
             /\ \E n \in {"path", "tmp"} :
                    /\ card[n].state = "Whole"
                    /\ card' = [card EXCEPT ![n].state = "Partial"]
    BY <1>1, <2>2, PartialKeeps
  <2> QED BY <2>1, <2>2 DEF LosePower
<1>4. RecoveredNow' = u /\ RecoveredAfterLoss' = u
  <2>1. Recovered(card', e) = u
    BY <1>1, <1>3, HoldsIs
  <2> QED BY <1>2, <2>1 DEF RecoveredNow, RecoveredAfterLoss
<1>5. /\ site' \in [loaded : BOOLEAN, log : Seq(Nat)]
      /\ ~site'.loaded /\ site'.log = <<>>
  BY <1>2
<1>6. Shapes'
  BY <1>1, <1>2, <1>3, <1>5, Steps DEF Shapes
<1>7. DiskInv'
  <2>1. u <= u /\ u <= changes
    BY <1>1
  <2> QED BY <1>1, <1>2, <1>3, <1>4, <2>1 DEF DiskInv
<1>8. CallInv'
  BY <1>2, <1>5, Steps DEF CallInv, Recovery, Recovering, Phase
<1>9. Current' = u
  BY <1>4, <1>5 DEF Current
<1> QED BY <1>4, <1>6, <1>7, <1>8, <1>9 DEF IInv, u

-----------------------------------------------------------------------------
\* The steps of the specification, and what each is to a reader.

Quiet == \/ Load \/ Place \/ RenameChosen \/ DropTmp \/ DropBak
         \/ DropInvalid \/ Parse \/ Write \/ WriteHeader \/ WriteRecord
         \/ Finish /\ changes' = changes
         \/ Rewrite \/ Copy \/ MoveAside \/ MoveAsideAgain \/ Install
         \/ Restore \/ Refused \/ DropBackup \/ Leave

LEMMA QuietPhases ==
    IInv /\ Quiet => ~AtClear /\ ~AtClear'
<1> SUFFICES ASSUME IInv, Quiet PROVE ~AtClear /\ ~AtClear'
  OBVIOUS
<1> DEFINE Others == Phases \ {"Clear", "ClearTmp", "ClearBak"}
           Moves == \/ call' = call \/ Return
                    \/ \E p \in Others : Goto(p)
                    \/ Load \/ WriteRecord
<1>0. \A p \in {"Idle", "Place", "Rename", "DropTmp", "DropBak", "Parse",
                "DropInvalid", "Header", "Record", "Finish", "Rewrite",
                "Copy", "Aside", "AsideAgain", "Install", "Restore",
                "Refused", "DropBackup"} : p \in Others
  BY DEF Phases
<1> HIDE DEF Others
<1>1. ~AtClear /\ Moves
  <2>1. CASE Load \/ Place \/ RenameChosen \/ DropTmp \/ DropBak
    BY <2>1, <1>0
       DEF Load, Place, RenameChosen, DropTmp, DropBak, Phase, AtClear
  <2>2. CASE DropInvalid \/ Parse \/ Write \/ WriteHeader \/ WriteRecord
    BY <2>2, <1>0
       DEF DropInvalid, Parse, Write, WriteHeader, WriteRecord, Phase, AtClear
  <2>3. CASE Finish /\ changes' = changes
    <3>1. changes \in Nat /\ changes + 1 # changes
      BY DEF IInv, Shapes
    <3> QED BY <2>3, <3>1 DEF Finish, Phase, AtClear
  <2>4. CASE Rewrite \/ Copy \/ MoveAside \/ MoveAsideAgain
    BY <2>4, <1>0
       DEF Rewrite, Copy, MoveAside, MoveAsideAgain, Phase, AtClear
  <2>5. CASE Install \/ Restore \/ Refused \/ DropBackup \/ Leave
    BY <2>5, <1>0
       DEF Install, Restore, Refused, DropBackup, Leave, Phase, AtClear
  <2> QED BY <2>1, <2>2, <2>3, <2>4, <2>5 DEF Quiet
<1>2. call'.phase \in {"Place", "DropTmp", "DropInvalid"} \/ ~Load
  BY Steps DEF Load, Phases
<1>3. call'.phase = "Finish" \/ ~WriteRecord
  BY Steps DEF WriteRecord
<1>4. \A p \in Others :
          p \in Phases /\ p \notin {"Clear", "ClearTmp", "ClearBak"}
  BY DEF Others
<1> QED BY <1>1, <1>2, <1>3, <1>4, Steps DEF AtClear, Return

LEMMA QuietKeeps ==
    IInv /\ Quiet => /\ IInv' /\ Current' = Current
                     /\ RecoveredAfterLoss' = RecoveredAfterLoss
<1> SUFFICES ASSUME IInv, Quiet
             PROVE  /\ IInv' /\ Current' = Current
                    /\ RecoveredAfterLoss' = RecoveredAfterLoss
  OBVIOUS
<1>1. Keeps /\ IInv'
  BY LoadKeeps, PlaceKeeps, RenameKeeps, DropTmpKeeps, DropBakKeeps,
     DropInvalidKeeps, ParseKeeps, WriteKeeps, HeaderKeeps, RecordKeeps,
     FinishFails, RewriteKeeps, CopyKeeps, AsideKeeps, InstallKeeps,
     RestoreKeeps, RefusedKeeps, DropBackupKeeps, LeaveKeeps DEF Quiet
<1>2. /\ RecoveredNow' = RecoveredNow
      /\ RecoveredAfterLoss' = RecoveredAfterLoss
  BY <1>1, ValueKept DEF Keeps
<1>3. Current = RecoveredNow
  BY CurrentIs, QuietPhases
<1>4. (IInv => (~AtClear => Current = RecoveredNow))'
  BY CurrentIs, PTL
<1>5. Current' = RecoveredNow'
  BY <1>1, <1>4, QuietPhases
<1> QED BY <1>1, <1>2, <1>3, <1>5

\* A change is accepted, the card follows, or power is lost.
MemoryStep ==
    Memory!Change \/ Memory!Save \/ Memory!LosePower
        \/ UNCHANGED <<Current, RecoveredAfterLoss>>

LEMMA StepKeeps ==
    IInv /\ [Next]_vars /\ ~ClearsUnloaded => IInv' /\ MemoryStep
<1> SUFFICES ASSUME IInv, [Next]_vars, ~ClearsUnloaded
             PROVE  IInv' /\ MemoryStep
  OBVIOUS
<1>1. /\ Current \in Nat /\ RecoveredNow \in Nat /\ changes \in Nat
      /\ RecoveredAfterLoss \in Nat /\ RecoveredAfterLoss <= RecoveredNow
      /\ RecoveredNow <= changes /\ RecoveredNow <= Current
  BY CurrentIs DEF IInv, DiskInv, Shapes
<1>2. CASE Quiet
  BY <1>2, QuietKeeps DEF MemoryStep
<1>3. CASE Finish /\ changes' # changes
  <2>1. /\ IInv' /\ RecoveredNow' = changes + 1
        /\ RecoveredAfterLoss' = RecoveredAfterLoss
        /\ call'.phase \in {"Idle", "Rewrite"}
    BY <1>3, FinishWrites
  <2>2. (IInv => (~AtClear => Current = RecoveredNow))'
    BY CurrentIs, PTL
  <2>3. Current' = changes + 1
    BY <2>1, <2>2 DEF AtClear
  <2>4. Current = RecoveredNow
    BY <1>3, CurrentIs DEF Finish, Phase, AtClear
  <2>5. Memory!Change
    BY <1>1, <2>1, <2>3, <2>4 DEF Memory!Change, Current
  <2> QED BY <2>1, <2>5 DEF MemoryStep
<1>4. CASE Clear
  <2>1. /\ IInv' /\ Current' = changes + 1
        /\ RecoveredAfterLoss' = RecoveredAfterLoss
    BY <1>4, ClearEmpties
  <2>2. Current = RecoveredNow
    BY <1>4, CurrentIs DEF Clear, Phase, AtClear
  <2>3. Memory!Change
    BY <1>1, <2>1, <2>2 DEF Memory!Change, Current
  <2> QED BY <2>1, <2>3 DEF MemoryStep
<1>5. CASE ClearFiles
  BY <1>5, ClearFilesEmpties DEF MemoryStep
<1>6. CASE WriteBack
  <2>1. /\ IInv' /\ Current' = Current /\ RecoveredAfterLoss' = RecoveredNow
    BY <1>6, WriteBackSaves
  <2>2. Memory!Save
    BY <1>1, <2>1 DEF Memory!Save, Current
  <2> QED BY <2>1, <2>2 DEF MemoryStep
<1>7. CASE LosePower
  <2>1. /\ IInv' /\ Current' = RecoveredAfterLoss
        /\ RecoveredAfterLoss' = RecoveredAfterLoss
    BY <1>7, LosePowerReverts
  <2>2. Memory!LosePower
    BY <2>1 DEF Memory!LosePower, Current
  <2> QED BY <2>1, <2>2 DEF MemoryStep
<1>8. CASE UNCHANGED vars
  <2>1. /\ RecoveredNow' = RecoveredNow /\ Current' = Current
        /\ RecoveredAfterLoss' = RecoveredAfterLoss
    BY <1>8 DEF vars, RecoveredNow, RecoveredAfterLoss, Current, Tip
  <2>2. DiskInv' /\ Shapes'
    BY <1>8, <2>1 DEF vars, IInv, DiskInv, Shapes
  <2>3. CallInv'
    <3>1. Recovery => Recovery'
      BY <1>8, <2>1 DEF vars, Recovery, Phase, Whole, Gone
    <3>2. Working => Working'
      BY <1>8, <2>1 DEF vars, Working, Clearing, Empty, Ready, Stuck,
                        Rewritten, Phase, Whole, Gone, Indexed
    <3> QED BY <1>8, <3>1, <3>2 DEF vars, IInv, CallInv
  <2> QED BY <2>1, <2>2, <2>3 DEF MemoryStep, IInv
<1> QED BY <1>2, <1>3, <1>4, <1>5, <1>6, <1>7, <1>8 DEF Next, Quiet

LEMMA InitHolds == Init => IInv
<1> SUFFICES ASSUME Init PROVE IInv
  OBVIOUS
<1> USE FileShapes
<1>1. /\ files \in DiskShape /\ Bare(files) /\ card = files
      /\ emptied.files = 0 /\ emptied.card = 0
  BY DEF Init, DiskShape, Bare
<1>2. RecoveredNow = 0 /\ RecoveredAfterLoss = 0
  BY <1>1, BareIs DEF RecoveredNow, RecoveredAfterLoss
<1>3. /\ NoCall \in [phase : Phases, chosen : Names, over : BOOLEAN]
      /\ NoCall.phase = "Idle"
  BY DEF NoCall, Phases, Names
<1>4. Shapes
  BY <1>1, <1>3 DEF Init, Shapes
<1>5. DiskInv
  BY <1>1, <1>2 DEF Init, DiskInv, Holds
<1>6. CallInv
  BY <1>3 DEF Init, CallInv, Recovery, Recovering, Phase
<1> QED BY <1>4, <1>5, <1>6 DEF IInv

-----------------------------------------------------------------------------
(***************************************************************************)
(* The theorems.  A site is cleared only after it was loaded: otherwise a  *)
(* clear removes the log before the rewrite that is left beside it.        *)
(***************************************************************************)
\* At every step of every call the three names hold one of the pictures, and
\* the call knows which (stick_load, stick_append, stick_compact).
THEOREM IInvHolds == ClearsUnloaded = FALSE => (Spec => []IInv)
<1> SUFFICES ASSUME ClearsUnloaded = FALSE PROVE Spec => []IInv
  OBVIOUS
<1>1. IInv /\ [Next]_vars => IInv'
  BY StepKeeps
<1> QED BY <1>1, InitHolds, PTL DEF Spec

\* A program that stopped at any step of an append or a compaction would find
\* every change it had accepted.
THEOREM CopyExists == ClearsUnloaded = FALSE => (Spec => []CompleteCopyExists)
<1> SUFFICES ASSUME ClearsUnloaded = FALSE PROVE Spec => []CompleteCopyExists
  OBVIOUS
<1>1. IInv => CompleteCopyExists
  BY CurrentIs DEF CompleteCopyExists, AtClear, Current
<1> QED BY <1>1, IInvHolds, PTL

\* Power loss costs the newest changes only, wherever it strikes.
THEOREM RemembersChanges ==
    ClearsUnloaded = FALSE => (Spec => ImplementsSiteMemory)
<1> SUFFICES ASSUME ClearsUnloaded = FALSE PROVE Spec => ImplementsSiteMemory
  OBVIOUS
<1>1. Init => Memory!Init
  <2> SUFFICES ASSUME Init PROVE Memory!Init
    OBVIOUS
  <2>1. ~site.loaded /\ card = files /\ emptied.card = emptied.files
    BY DEF Init
  <2>2. RecoveredNow \in Nat /\ RecoveredAfterLoss = RecoveredNow
    BY <2>1, InitHolds DEF IInv, DiskInv, RecoveredNow, RecoveredAfterLoss
  <2> QED BY <2>1, <2>2 DEF Memory!Init
<1>2. IInv /\ [Next]_vars =>
          [Memory!Change \/ Memory!Save \/ Memory!LosePower]_<<
              IF site.loaded THEN Tip ELSE RecoveredNow, RecoveredAfterLoss>>
  BY StepKeeps DEF MemoryStep, Current
<1> QED BY <1>1, <1>2, IInvHolds, PTL DEF Spec, ImplementsSiteMemory,
        Memory!Spec

=============================================================================
