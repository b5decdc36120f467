-------------------------- MODULE JournalRegister --------------------------
(***************************************************************************)
(* What the update journal promises: one register, written at once, whose  *)
(* generations only rise, and which power loss can set back to a value it  *)
(* has held since the last one known to be on the card, but never to       *)
(* nothing and never to a mixture.                                         *)
(***************************************************************************)
EXTENDS Integers

CONSTANT Value  \* records with a generation

VARIABLES
    current,    \* {} or the one value a reader finds now
    saved       \* {} or the one value it would find after losing power

Init == current \subseteq Value /\ saved = current

Write ==
    \E new \in current' :
        /\ current' = {new}
        /\ new \in Value
        /\ \A old \in current : new.generation > old.generation
        /\ UNCHANGED saved

WriteBack == saved' = current /\ UNCHANGED current

LosePower == current' = saved /\ UNCHANGED saved

Spec == Init /\ [][Write \/ WriteBack \/ LosePower]_<<current, saved>>
=============================================================================
