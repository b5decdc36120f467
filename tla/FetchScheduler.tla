--------------------------- MODULE FetchScheduler ---------------------------
(***************************************************************************)
(* The page's fetch schedulers (src/src/fetch/scheduler.inc) over the      *)
(* shared transport.  A page has several schedulers, its views: resources, *)
(* scripts, frames.  Each has a few request slots and a pool of response   *)
(* bytes; together they share a domain with a limit on requests at once    *)
(* and a hold that a media player puts on the page.                        *)
(*                                                                         *)
(* The browser thread owns every view.  It enqueues, pumps, takes and      *)
(* cancels; a pump visits the slots in turn and at each goes through the   *)
(* headers, one chunk and the end of the hop.  The transport worker        *)
(* outranks it and may run between any two of those, which is where a pump *)
(* is split.  Consumers that a pump calls only store what they are given.  *)
(*                                                                         *)
(* Modelled is the backend of the console, where every hop is a lane of    *)
(* the transport (a slot in TransportSlot, seen here between two calls).   *)
(* That backend hands a chunk on whole, so nothing is ever staged.         *)
(***************************************************************************)
EXTENDS Integers, FiniteSets

CONSTANTS Views,          (* the schedulers of the domain                  *)
          Capacity,       (* maximum_concurrent of each: its request slots *)
          Pool,           (* maximum_reserved_bytes of each, in units      *)
          DomainSlots,    (* maximum_active_slots of the domain            *)
          Lanes,          (* slots of the transport                        *)
          Sizes,          (* maximum_bytes a request may ask for           *)
          MaxRedirects,   (* FETCH_REDIRECT_LIMIT                          *)
          Nobody          (* what stands for no lane and no owner          *)

ASSUME CapacityAssumption == Capacity \in [Views -> Nat \ {0}]
ASSUME LimitsAssumption == /\ {Pool, DomainSlots, MaxRedirects} \subseteq Nat
                           /\ IsFiniteSet(Sizes) /\ Sizes \subseteq 1 .. Pool

Slots(v) == 0 .. Capacity[v] - 1
Requests == UNION {{v} \X Slots(v) : v \in Views}

ASSUME NobodyAssumption == Nobody \notin Lanes \cup Requests

VARIABLES item,     (* ScheduledFetch, per request slot                    *)
          view,     (* FetchScheduler: reserved_bytes, pending, pump_cursor *)
          domain,   (* FetchSchedulerDomain: active_slots and held         *)
          lane,     (* the transport's slots                               *)
          pump      (* where fetch_scheduler_pump_bounded is               *)

vars == <<item, view, domain, lane, pump>>

Phases == {"Empty", "Active", "Complete"}
Replies == {"None", "Final", "Redirect", "Opaque"}
LaneStates == {"Free", "Queued", "Running", "Cancelling", "Complete", "Other"}
Points == {"Idle", "Visit", "Headers", "Chunk", "End", "Next hop"}

\* heads: background_headers_delivered and what they were; got: the body
\* bytes delivered so far; late: the deadline has passed; reply: the status a
\* complete request reports.
EmptyItem == [phase |-> "Empty", reserved |-> 0, lane |-> Nobody,
              heads |-> "None", got |-> 0, redirects |-> 0, late |-> FALSE,
              ok |-> FALSE, reply |-> "None"]

EmptyLane == [state |-> "Free", owner |-> Nobody, reply |-> "None",
              chunk |-> 0, total |-> 0, ok |-> FALSE]
LeavingLane == [EmptyLane EXCEPT !.state = "Cancelling"]

EmptyView == [reserved |-> 0, pending |-> 0, cursor |-> 0]
NoPump == [at |-> "Idle", view |-> Nobody, visited |-> 0, done |-> 0,
           most |-> 0]

Init == /\ item = [r \in Requests |-> EmptyItem]
        /\ view = [v \in Views |-> EmptyView]
        /\ domain = [active |-> 0, held |-> FALSE]
        /\ lane = [l \in Lanes |-> EmptyLane]
        /\ pump = NoPump

-----------------------------------------------------------------------------
\* fetch_background_slot_matches: the lane still serves this request.
Serves(l, r) == l # Nobody /\ lane[l].owner = r

Active == {r \in Requests : item[r].phase = "Active"}
Of(v) == {r \in Requests : r[1] = v}

\* Of the lanes ls, those a hop can be queued on.
FreeLanes(ls) == {l \in Lanes : ls[l].state = "Free"}

\* scheduled_background_start_hop before the deadline: request r, as it, takes
\* a free lane of ls; without one it waits for a later pump.
StartHop(r, it, ls) ==
    \/ /\ FreeLanes(ls) = {}
       /\ item' = [item EXCEPT ![r] = [it EXCEPT !.lane = Nobody]]
       /\ lane' = ls
    \/ \E l \in FreeLanes(ls) :
           /\ item' = [item EXCEPT ![r] = [it EXCEPT !.lane = l]]
           /\ lane' = [ls EXCEPT ![l] = [EmptyLane EXCEPT !.state = "Queued",
                                                          !.owner = r]]

\* Mutation: a transfer that is running is written off at once.
AbandonedAtOnce(la) == {EmptyLane}

\* fetch_background_transport_cancel: what becomes of a lane.  One that is
\* being started at that moment is left to the worker to retire.
Abandoned(la) ==
    CASE la.state = "Queued"                     -> {EmptyLane, LeavingLane}
      [] la.state \in {"Running", "Cancelling"} -> {LeavingLane}
      [] OTHER                                  -> {EmptyLane}

\* Mutation: the lanes of requests that end are left alone.
KeepLanes(rs, ls) == lane' = ls

\* What the requests rs have on the lanes ls is cancelled.
DropLanes(rs, ls) ==
    LET gone == {l \in Lanes : ls[l].owner \in rs
                                 /\ item[ls[l].owner].lane = l}
    IN \E after \in [gone -> {EmptyLane, LeavingLane}] :
           /\ \A l \in gone : after[l] \in Abandoned(ls[l])
           /\ lane' = [l \in Lanes |-> IF l \in gone THEN after[l] ELSE ls[l]]

\* scheduled_release_unused_reservation: what a finished response keeps of
\* its reservation.  A buffer may be larger than the body in it.
Kept(it) == IF it.got = 0 THEN {0} ELSE it.got .. it.reserved

\* A request that is over and keeps n bytes.
Ended(ok, reply, n) == [EmptyItem EXCEPT !.phase = "Complete", !.ok = ok,
                                         !.reply = reply, !.reserved = n]

\* What the requests rs have reserved, unit by unit, so that it can be counted
\* over many requests, and what of it they give back if they keep kept.
Units(rs) == {u \in rs \X (1 .. Pool) : u[2] <= item[u[1]].reserved}
Unused(rs, kept) == {u \in Units(rs) : u[2] > kept[u[1]]}

\* The views, when the requests rs are over and keep what kept says.
Settled(rs, kept) ==
    [v \in Views |-> [view[v] EXCEPT
        !.pending = @ - Cardinality(rs \cap Of(v)),
        !.reserved = @ - Cardinality(Unused(rs \cap Of(v), kept))]]

\* scheduled_mark_complete for the requests rs; ls are the lanes before it.
MarkComplete(rs, ok, reply, ls) ==
    /\ \E kept \in [rs -> 0 .. Pool] :
         /\ \A r \in rs : kept[r] \in Kept(item[r])
         /\ item' = [r \in Requests |->
                IF r \in rs THEN Ended(ok, reply, kept[r]) ELSE item[r]]
         /\ view' = Settled(rs, kept)
    /\ DropLanes(rs, ls)

-----------------------------------------------------------------------------
(***************************************************************************)
(* The calls of the browser thread between pumps.                          *)
(***************************************************************************)
Between == pump.at = "Idle" /\ UNCHANGED pump

\* What fetch_scheduler_enqueue refuses for want of room: bytes, a slot of
\* the view, a slot of the domain.
NoRoom(v, n) == \/ n > Pool - view[v].reserved
                \/ \A i \in Slots(v) : item[<<v, i>>].phase # "Empty"
                \/ domain.active >= DomainSlots

\* fetch_scheduler_enqueue and fetch_scheduler_enqueue_stream, admitted.
Enqueue(v, n) ==
    /\ Between
    /\ ~domain.held /\ ~NoRoom(v, n)
    /\ \E i \in Slots(v) :
         /\ item[<<v, i>>].phase = "Empty"
         /\ \A j \in 0 .. i - 1 : item[<<v, j>>].phase # "Empty"
         /\ StartHop(<<v, i>>, [EmptyItem EXCEPT !.phase = "Active",
                                                 !.reserved = n], lane)
    /\ view' = [view EXCEPT ![v].reserved = @ + n, ![v].pending = @ + 1]
    /\ domain' = [domain EXCEPT !.active = @ + 1]

\* fetch_scheduler_take, take_stream and discard: they find complete requests
\* only and clear them.
Take(r) ==
    /\ Between
    /\ item[r].phase = "Complete"
    /\ item' = [item EXCEPT ![r] = EmptyItem]
    /\ view' = [view EXCEPT ![r[1]].reserved = @ - item[r].reserved]
    /\ domain' = [domain EXCEPT !.active = @ - 1]
    /\ UNCHANGED lane

\* fetch_scheduler_cancel.
CancelRequest(r) ==
    /\ Between
    /\ item[r].phase = "Active"
    /\ MarkComplete({r}, FALSE, "None", lane)
    /\ UNCHANGED domain

\* Mutation: only requests that still run give back their slot of the domain.
DestroyKeepsSlots(v) ==
    /\ Between
    /\ \E r \in Of(v) : item[r].phase # "Empty"
    /\ item' = [r \in Requests |-> IF r \in Of(v) THEN EmptyItem ELSE item[r]]
    /\ view' = [view EXCEPT ![v] = EmptyView]
    /\ domain' = [domain EXCEPT !.active = @ - Cardinality(Active \cap Of(v))]
    /\ DropLanes(Of(v), lane)

\* fetch_scheduler_destroy clears every slot of a view; the page later
\* creates the view anew in the same domain.
Destroy(v) ==
    /\ Between
    /\ \E r \in Of(v) : item[r].phase # "Empty"
    /\ item' = [r \in Requests |-> IF r \in Of(v) THEN EmptyItem ELSE item[r]]
    /\ view' = [view EXCEPT ![v] = EmptyView]
    /\ domain' = [domain EXCEPT !.active =
           @ - Cardinality({r \in Of(v) : item[r].phase # "Empty"})]
    /\ DropLanes(Of(v), lane)

\* Mutation: one view of the page is forgotten.
HoldForgets ==
    /\ Between
    /\ ~domain.held
    /\ \E v \in Views : MarkComplete(Active \ Of(v), FALSE, "None", lane)
    /\ domain' = [domain EXCEPT !.held = TRUE]

\* navigation_hold_network_work: every view of the page is cancelled and its
\* domain held, which the player's end releases.
Hold ==
    /\ Between
    /\ ~domain.held
    /\ MarkComplete(Active, FALSE, "None", lane)
    /\ domain' = [domain EXCEPT !.held = TRUE]

Release ==
    /\ Between
    /\ domain.held
    /\ domain' = [domain EXCEPT !.held = FALSE]
    /\ UNCHANGED <<item, view, lane>>

-----------------------------------------------------------------------------
(***************************************************************************)
(* fetch_scheduler_pump_bounded.                                           *)
(***************************************************************************)
Current == <<pump.view, (view[pump.view].cursor + pump.visited)
                              % Capacity[pump.view]>>

At(p) == pump.at = p /\ UNCHANGED domain
GoOn(p) == pump' = [pump EXCEPT !.at = p]
\* The next slot, with n more completions.
NextSlot(n) == pump' = [pump EXCEPT !.at = "Visit", !.visited = @ + 1,
                                    !.done = @ + n]

\* scheduled_background_abort.
Abort == /\ MarkComplete({Current}, FALSE, "None", lane)
         /\ NextSlot(1)

BeginPump(v) ==
    /\ At("Idle")
    /\ \E most \in 1 .. Capacity[v] :
           pump' = [NoPump EXCEPT !.at = "Visit", !.view = v, !.most = most]
    /\ UNCHANGED <<item, view, lane>>

PumpIsDone == pump.visited = Capacity[pump.view] \/ pump.done >= pump.most

EndPump ==
    /\ At("Visit") /\ PumpIsDone
    /\ view' = [view EXCEPT ![pump.view].cursor =
                                (@ + 1) % Capacity[pump.view]]
    /\ pump' = NoPump
    /\ UNCHANGED <<item, lane>>

\* A request without a lane asks for one; the deadline is looked at first.
Visiting == At("Visit") /\ ~PumpIsDone
Waits(r) == item[r].phase = "Active" /\ item[r].lane = Nobody

PassOver == /\ Visiting /\ item[Current].phase # "Active"
            /\ NextSlot(0) /\ UNCHANGED <<item, view, lane>>

HasLane == /\ Visiting
           /\ item[Current].phase = "Active" /\ item[Current].lane # Nobody
           /\ GoOn("Headers") /\ UNCHANGED <<item, view, lane>>

OutOfTime == Visiting /\ Waits(Current) /\ item[Current].late /\ Abort

AskForLane == /\ Visiting /\ Waits(Current) /\ ~item[Current].late
              /\ StartHop(Current, item[Current], lane)
              /\ IF FreeLanes(lane) = {} THEN NextSlot(0) ELSE GoOn("Headers")
              /\ UNCHANGED view

Visit == PassOver \/ HasLane \/ OutOfTime \/ AskForLane

\* scheduled_background_deliver_headers: a policy or the consumer may reject.
HeadersReady ==
    LET l == item[Current].lane
    IN Serves(l, Current) /\ item[Current].heads = "None"
           /\ lane[l].reply # "None"

AcceptHeaders ==
    /\ At("Headers") /\ HeadersReady
    /\ item' = [item EXCEPT ![Current].heads = lane[item[Current].lane].reply]
    /\ GoOn("Chunk") /\ UNCHANGED <<view, lane>>

DeliverHeaders ==
    \/ AcceptHeaders
    \/ At("Headers") /\ HeadersReady /\ Abort
    \/ /\ At("Headers") /\ ~HeadersReady
       /\ GoOn("Chunk") /\ UNCHANGED <<item, view, lane>>

\* scheduled_background_deliver_chunk: the whole chunk goes to the consumer,
\* whatever is left of the pump's quota.
ChunkReady ==
    LET l == item[Current].lane
    IN Serves(l, Current) /\ item[Current].heads = "Final" /\ lane[l].chunk # 0

AcceptChunk ==
    /\ At("Chunk") /\ ChunkReady
    /\ item' = [item EXCEPT ![Current].got =
                                @ + lane[item[Current].lane].chunk]
    /\ lane' = [lane EXCEPT ![item[Current].lane].chunk = 0]
    /\ GoOn("End") /\ UNCHANGED view

DeliverChunk ==
    \/ AcceptChunk
    \/ At("Chunk") /\ ChunkReady /\ Abort
    \/ /\ At("Chunk") /\ ~ChunkReady
       /\ GoOn("End") /\ UNCHANGED <<item, view, lane>>

\* Mutation: background_headers_delivered is not cleared for the next hop.
FollowRedirectKeepsHeaders(r, ls) ==
    \/ /\ item[r].redirects < MaxRedirects
       /\ item' = [item EXCEPT ![r].lane = Nobody, ![r].redirects = @ + 1]
       /\ lane' = ls
       /\ GoOn("Next hop") /\ UNCHANGED view
    \/ MarkComplete({r}, FALSE, "None", ls) /\ NextSlot(1)

\* A redirect is the request's next hop, unless its mode is manual or forbids
\* it, the limit is reached or the target is refused; ls are the lanes without
\* the one that served it.
FollowRedirect(r, ls) ==
    \/ /\ item[r].redirects < MaxRedirects
       /\ item' = [item EXCEPT ![r].lane = Nobody, ![r].heads = "None",
                               ![r].redirects = @ + 1]
       /\ lane' = ls
       /\ GoOn("Next hop") /\ UNCHANGED view
    \/ /\ item[r].redirects = 0
       /\ MarkComplete({r}, TRUE, "Opaque", ls) /\ NextSlot(1)
    \/ MarkComplete({r}, FALSE, "None", ls) /\ NextSlot(1)

\* scheduled_background_finish_hop: it asks whether the hop is complete, not
\* whether its headers have been delivered, and takes the result.
HopEnded ==
    LET l == item[Current].lane
    IN Serves(l, Current) /\ lane[l].state = "Complete" /\ lane[l].chunk = 0

HopIsWhole == LET l == item[Current].lane
              IN lane[l].ok /\ item[Current].got = lane[l].total

\* The lanes once the result is taken.
Rest == [lane EXCEPT ![item[Current].lane] = EmptyLane]

FinishHop ==
    \/ /\ At("End") /\ ~HopEnded
       /\ NextSlot(0) /\ UNCHANGED <<item, view, lane>>
    \/ /\ At("End") /\ HopEnded  \* also when the cookies do not fit in memory
       /\ MarkComplete({Current}, FALSE, "None", Rest) /\ NextSlot(1)
    \/ /\ At("End") /\ HopEnded /\ HopIsWhole
       /\ item[Current].heads = "Redirect" /\ FollowRedirect(Current, Rest)
    \/ /\ At("End") /\ HopEnded /\ HopIsWhole
       /\ item[Current].heads # "Redirect"
       /\ MarkComplete({Current}, TRUE, lane[item[Current].lane].reply, Rest)
       /\ NextSlot(1)

\* The end of finish_hop for a redirect: the next hop starts, or waits for a
\* lane, under the deadline of the first.
StartNextHop ==
    \/ At("Next hop") /\ item[Current].late /\ Abort
    \/ /\ At("Next hop") /\ ~item[Current].late
       /\ StartHop(Current, item[Current], lane) /\ NextSlot(0)
       /\ UNCHANGED view

PumpStep == EndPump \/ Visit \/ DeliverHeaders \/ DeliverChunk
                \/ FinishHop \/ StartNextHop

-----------------------------------------------------------------------------
(***************************************************************************)
(* The transport worker on one lane, its other users, and the clock.       *)
(***************************************************************************)
OnLane(l) == UNCHANGED <<item, view, domain, pump>>
Becomes(l, la) == lane' = [lane EXCEPT ![l] = la]

StartTransfer(l) ==
    /\ OnLane(l)
    /\ lane[l].state = "Queued"
    /\ Becomes(l, [lane[l] EXCEPT !.state = "Running"])

\* fetch_background_receive_header at the end of a block.
ReceiveHeaders(l) ==
    /\ OnLane(l)
    /\ lane[l].state = "Running" /\ lane[l].reply = "None"
    /\ \E reply \in {"Final", "Redirect"} :
           Becomes(l, [lane[l] EXCEPT !.reply = reply])

\* fetch_background_receive_body up to a published chunk; a redirect's body
\* is discarded.
ReceiveBody(l) ==
    /\ OnLane(l)
    /\ lane[l].state = "Running" /\ lane[l].reply = "Final"
    /\ lane[l].chunk = 0 /\ lane[l].total < item[lane[l].owner].reserved
    /\ Becomes(l, [lane[l] EXCEPT !.chunk = 1, !.total = @ + 1])

\* Mutation: the transfer is complete while its last chunk waits.
EndTransferEarly(l) ==
    /\ OnLane(l)
    /\ lane[l].state = "Running"
    /\ \E ok \in BOOLEAN :
           /\ ok => lane[l].reply # "None"
           /\ Becomes(l, [lane[l] EXCEPT !.state = "Complete", !.ok = ok])

\* fetch_background_finish_easy: only once the last chunk has been taken, and
\* well only with a status.
EndTransfer(l) ==
    /\ OnLane(l)
    /\ lane[l].state = "Running" /\ lane[l].chunk = 0
    /\ \E ok \in BOOLEAN :
           /\ ok => lane[l].reply # "None"
           /\ Becomes(l, [lane[l] EXCEPT !.state = "Complete", !.ok = ok])

RetireTransfer(l) ==
    /\ OnLane(l)
    /\ lane[l].state = "Cancelling"
    /\ Becomes(l, EmptyLane)

\* Media, navigation and updates use lanes too, or keep some from the page
\* (fetch_background_admission_slot_limit).
OthersTake(l) ==
    /\ OnLane(l)
    /\ lane[l].state = "Free"
    /\ Becomes(l, [EmptyLane EXCEPT !.state = "Other"])
OthersLeave(l) ==
    /\ OnLane(l)
    /\ lane[l].state = "Other"
    /\ Becomes(l, EmptyLane)

\* fetch_hop_remaining_ms reaches zero.
Deadline(r) ==
    /\ item[r].phase = "Active" /\ ~item[r].late
    /\ item' = [item EXCEPT ![r].late = TRUE]
    /\ UNCHANGED <<view, domain, lane, pump>>

Worker(l) == StartTransfer(l) \/ ReceiveHeaders(l) \/ ReceiveBody(l)
                \/ EndTransfer(l) \/ RetireTransfer(l)

Next == \/ \E v \in Views : \/ \E n \in Sizes : Enqueue(v, n)
                            \/ Destroy(v) \/ BeginPump(v)
        \/ \E r \in Requests : Take(r) \/ CancelRequest(r) \/ Deadline(r)
        \/ Hold \/ Release \/ PumpStep
        \/ \E l \in Lanes : Worker(l) \/ OthersTake(l) \/ OthersLeave(l)

\* The browser pumps every view that has requests, again and again, and a
\* pump runs to its end; the worker starts, ends and retires what it has, at
\* the latest at the hop's own deadline; time passes.
Fairness ==
    /\ \A v \in Views : SF_vars(BeginPump(v))
    /\ WF_vars(PumpStep)
    /\ \A l \in Lanes : /\ WF_vars(StartTransfer(l)) /\ WF_vars(EndTransfer(l))
                        /\ WF_vars(RetireTransfer(l))
    /\ \A r \in Requests : WF_vars(Deadline(r))

Spec == Init /\ [][Next]_vars
FairSpec == Spec /\ Fairness

-----------------------------------------------------------------------------
Items == [phase : Phases, reserved : 0 .. Pool, lane : Lanes \cup {Nobody},
          heads : {"None", "Final", "Redirect"}, got : 0 .. Pool,
          redirects : 0 .. MaxRedirects, late : BOOLEAN, ok : BOOLEAN,
          reply : Replies]
LaneRecords == [state : LaneStates, owner : Requests \cup {Nobody},
                reply : {"None", "Final", "Redirect"},
                chunk : 0 .. 1, total : 0 .. Pool, ok : BOOLEAN]

\* Every variable has its type.
TypeOK ==
    /\ item \in [Requests -> Items]
    /\ view \in [Views -> [reserved : 0 .. Pool, pending : Nat, cursor : Nat]]
    /\ \A v \in Views : /\ view[v].pending <= Capacity[v]
                        /\ view[v].cursor \in Slots(v)
    /\ domain \in [active : 0 .. DomainSlots, held : BOOLEAN]
    /\ lane \in [Lanes -> LaneRecords]
    /\ pump \in [at : Points, view : Views \cup {Nobody},
                 visited : Nat, done : Nat, most : Nat]

\* The counters that admission reads are exact after any mix of completions,
\* cancellations, holds and destroyed views: nothing a request was given (its
\* slot of the domain, its bytes of the pool) is lost or given back twice.
LedgerIsExact ==
    /\ domain.active = Cardinality({r \in Requests : item[r].phase # "Empty"})
    /\ \A v \in Views : /\ view[v].pending = Cardinality(Active \cap Of(v))
                        /\ view[v].reserved = Cardinality(Units(Of(v)))

\* Whatever order completions, redirects and cancellations take, a lane in use
\* for the page belongs to one active request, and that request knows it: none
\* runs on for a request that is over, and no request waits on a lane that
\* serves another.
LanesAreOwned ==
    /\ \A l \in Lanes : lane[l].owner # Nobody =>
           /\ item[lane[l].owner].phase = "Active"
           /\ item[lane[l].owner].lane = l
    /\ \A r \in Requests : item[r].lane # Nobody => Serves(item[r].lane, r)

\* The worker's count of a finished hop and the consumer's agree whenever the
\* scheduler can look: a good response is never refused as incomplete and
\* nothing of it is still to come.
FinishedIsDelivered ==
    \A r \in Requests :
        LET l == item[r].lane
        IN l # Nobody /\ lane[l].state = "Complete" =>
               lane[l].chunk = 0 /\ lane[l].total = item[r].got

\* While a player holds the page, the page has no transfer that is not being
\* given up and no request that could start one, whatever its scripts ask for.
HeldIsQuiet ==
    domain.held => /\ Active = {}
                   /\ \A l \in Lanes : lane[l].state \in
                          {"Free", "Cancelling", "Other"}

\* Every request ends: delivered, failed, out of time or cancelled, also one
\* that never gets a lane.
RequestsEnd == \A r \in Requests : item[r].phase = "Active"
                                      ~> item[r].phase # "Active"

\* What the page does to a lane is what the transport promises of one
\* (TransportSlot implements the same TransportLease); lanes are alike.
ALane == CHOOSE l \in Lanes : TRUE
Held == IF lane[ALane].state = "Other" THEN "Free" ELSE lane[ALane].state
Lease == INSTANCE TransportLease WITH lease <- Held
LanesAreLeases == Lease!Spec
=============================================================================
