--------------------------- MODULE TransportLease ---------------------------
(***************************************************************************)
(* What the network frontend relies on about one slot of the transport: a  *)
(* lease is taken by the browser, started and finished by the worker, and  *)
(* once its owner has given it up it only ever becomes free.               *)
(***************************************************************************)
VARIABLE lease

Leases == {"Free", "Queued", "Running", "Cancelling", "Complete"}

Move(from, to) == lease = from /\ lease' = to

Take     == Move("Free", "Queued")
Start    == Move("Queued", "Running")
Finish   == Move("Running", "Complete")
Consume  == Move("Complete", "Free")

\* A cancel frees what the worker does not hold and marks what it does; a
\* transfer that is starting at that moment is marked too.
Cancel   == Move("Queued", "Free") \/ Move("Queued", "Cancelling")
                \/ Move("Running", "Cancelling")
Retire   == Move("Cancelling", "Free")

Init == lease = "Free"
Next == Take \/ Start \/ Finish \/ Consume \/ Cancel \/ Retire

\* An abandoned transfer is retired.
Spec == Init /\ [][Next]_lease /\ WF_lease(Retire)
=============================================================================
