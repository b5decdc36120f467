----------------------------- MODULE SiteMemory -----------------------------
(***************************************************************************)
(* What a site is promised of the storage it keeps on the memory stick:    *)
(* its changes, numbered as they are accepted, take effect at once; the    *)
(* card follows, and power loss keeps every change up to some point and    *)
(* none after it, never fewer than were on the card before.                *)
(***************************************************************************)
EXTENDS Integers

VARIABLES
    current,    \* the last change a reader sees
    saved       \* the last change power loss would leave

Init == current \in Nat /\ saved = current

Change ==
    /\ current' \in Nat
    /\ current' > current
    /\ saved' \in saved .. current'

Save == saved' \in saved .. current /\ UNCHANGED current

LosePower == current' = saved /\ UNCHANGED saved

Spec == Init /\ [][Change \/ Save \/ LosePower]_<<current, saved>>
=============================================================================
