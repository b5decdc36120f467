--------------------------- MODULE NetworkCustody ---------------------------
(***************************************************************************)
(* What the network supervisor promises its consumers, and nothing of how  *)
(* it keeps the promise.  The native network stack is in one of six hands: *)
(*                                                                         *)
(*   Absent    no stack (or only its resident code modules)                *)
(*   Building  the connection ladder is putting the stack up               *)
(*   Serving   the stack is up and new consumers are admitted              *)
(*   Held      the stack is up, nobody new is admitted, nothing is torn    *)
(*             down: the link is being re-verified, or the device sleeps   *)
(*   Draining  consumers have been told to leave, the stack is untouched   *)
(*   Teardown  the stack is being taken apart                              *)
(*                                                                         *)
(* A consumer is only ever admitted while Serving; a stack that has served *)
(* is never taken apart without a Draining phase first; and a teardown,    *)
(* once begun, is finished: a half-dismantled stack is never served, held  *)
(* or drained again.                                                       *)
(***************************************************************************)

VARIABLES custody, admitting

vars == <<custody, admitting>>

Init == custody = "Absent" /\ admitting = FALSE

Build ==
    /\ custody \in {"Absent", "Draining", "Teardown"}
    /\ custody' = "Building"
    /\ admitting' = FALSE

Serve ==
    /\ custody \in {"Building", "Held"}
    /\ custody' = "Serving"
    /\ admitting' = TRUE

Hold ==
    /\ custody \in {"Serving", "Draining"}
    /\ custody' = "Held"
    /\ admitting' = FALSE

(***************************************************************************)
(* Absent stacks are drained too: code modules that refused to unload are  *)
(* owned by nobody else, so a later request walks the whole stop again.    *)
(***************************************************************************)
Drain ==
    /\ custody \in {"Absent", "Building", "Serving", "Held"}
    /\ custody' = "Draining"
    /\ admitting' = FALSE

Dismantle ==
    /\ custody = "Draining"
    /\ custody' = "Teardown"
    /\ admitting' = FALSE

Vacate ==
    /\ custody \in {"Draining", "Teardown"}
    /\ custody' = "Absent"
    /\ admitting' = FALSE

Next == Build \/ Serve \/ Hold \/ Drain \/ Dismantle \/ Vacate

Spec == Init /\ [][Next]_vars

=============================================================================
