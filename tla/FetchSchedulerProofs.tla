------------------------ MODULE FetchSchedulerProofs ------------------------
(***************************************************************************)
(* Proofs about the fetch schedulers of a page, for any number of views,   *)
(* slots and lanes, any limits and any sizes.                              *)
(*                                                                         *)
(* The argument follows the tie between a request and its lane.  A step    *)
(* makes a tie (StartHop), moves data along it, or cuts it at both ends at *)
(* once, and no step may do that to one end only.  The counters come last: *)
(* what a view has reserved is a number of units, so that a step changes   *)
(* it by those it adds or removes.                                         *)
(***************************************************************************)
EXTENDS FetchScheduler, FiniteSetTheorems, TLAPS

Heads == {"None", "Final", "Redirect"}

ItemShape == [phase : Phases, reserved : Nat, lane : Lanes \cup {Nobody},
              heads : Heads, got : Nat, redirects : Nat, late : BOOLEAN,
              ok : BOOLEAN, reply : Replies]

LaneShape == [state : LaneStates, owner : Requests \cup {Nobody},
              reply : Heads, chunk : Nat, total : Nat, ok : BOOLEAN]

PumpShape == [at : Points, view : Views \cup {Nobody}, visited : Nat,
              done : Nat, most : Nat]

Shapes == /\ item \in [Requests -> ItemShape]
          /\ lane \in [Lanes -> LaneShape]

\* Where a pump stands.
ViewsStand ==
    /\ view = [v \in Views |-> [reserved |-> view[v].reserved,
                                pending |-> view[v].pending,
                                cursor |-> view[v].cursor]]
    /\ \A v \in Views : view[v].cursor \in Nat
PumpStands ==
    /\ pump \in PumpShape
    /\ pump.at # "Idle" => pump.view \in Views
Turns == ViewsStand /\ PumpStands
DomainStands == domain = [active |-> domain.active, held |-> domain.held]

\* A lane has an owner exactly while it works for the page.
InUse == {"Queued", "Running", "Complete"}
UsedIsOwned ==
    \A l \in Lanes : lane[l].owner # Nobody <=> lane[l].state \in InUse

\* What a request and the lane that serves it know of one hop: the headers are
\* the lane's, and each byte is delivered, in the chunk or not yet received.
Fresh(it) == it.heads = "None" /\ it.got = 0
Together(it, la) == /\ it.heads \in {"None", la.reply}
                    /\ it.got + la.chunk = la.total
                    /\ la.state = "Complete" => la.chunk = 0

Delivered ==
    \A r \in Requests :
        /\ item[r].lane = Nobody => Fresh(item[r])
        /\ item[r].lane # Nobody => Together(item[r], lane[item[r].lane])
        /\ item[r].got # 0 => item[r].heads = "Final"

\* Under a hold nothing runs, and only a running request is between two hops.
Quiet ==
    /\ domain.held => Active = {}
    /\ pump.at = "Next hop" => Waits(Current)

Ties == LanesAreOwned /\ UsedIsOwned /\ Delivered
IInv == Shapes /\ Turns /\ DomainStands /\ Ties /\ Quiet

-----------------------------------------------------------------------------
\* Ways in which a step changes requests and lanes.

\* The requests rs have no lane and nothing of a hop.
ItemsPart(rs) ==
    \A r \in Requests : IF r \in rs
                           THEN item'[r].lane = Nobody /\ Fresh(item'[r])
                           ELSE item'[r] = item[r]

\* Of the lanes ls, what served rs is given up and nothing else changes.
Holds(l, la, rs) == la.owner \in rs /\ item[la.owner].lane = l
LanesGo(rs, ls) ==
    \A l \in Lanes :
        IF Holds(l, ls[l], rs) THEN lane'[l] \in Abandoned(ls[l])
                               ELSE lane'[l] = ls[l]

\* Requests rs and their lanes part.
Parts(rs) == /\ ItemsPart(rs)
             /\ \A l \in Lanes : \/ lane'[l] = lane[l] /\ ~Holds(l, lane[l], rs)
                                 \/ /\ Holds(l, lane[l], rs)
                                    /\ lane'[l] \in Abandoned(lane[l])

\* What a lane's state may become, and no step wakes a request that was over.
Moves == {<<"Free", "Queued">>, <<"Queued", "Running">>,
          <<"Running", "Complete">>, <<"Complete", "Free">>,
          <<"Queued", "Free">>, <<"Queued", "Cancelling">>,
          <<"Running", "Cancelling">>, <<"Cancelling", "Free">>,
          <<"Free", "Other">>, <<"Other", "Free">>}
LanesMove == \A l \in Lanes : \/ lane'[l].state = lane[l].state
                              \/ <<lane[l].state, lane'[l].state>> \in Moves
NoneWakes == \A r \in Requests : item'[r].phase = "Active"
                                     => item[r].phase = "Active"

-----------------------------------------------------------------------------
\* Slots of a view are requests, also the one a pump is at.
LEMMA CurrentIsRequest ==
    ASSUME Turns, pump.at # "Idle" PROVE Current \in Requests
<1>1. /\ pump.view \in Views /\ view[pump.view].cursor \in Nat
      /\ pump.visited \in Nat
  BY DEF Turns, ViewsStand, PumpStands, PumpShape
<1>2. Capacity[pump.view] \in Nat \ {0}
  BY <1>1, CapacityAssumption
<1>3. view[pump.view].cursor + pump.visited \in Nat
  BY <1>1
<1>4. (view[pump.view].cursor + pump.visited) % Capacity[pump.view]
          \in 0 .. Capacity[pump.view] - 1
  BY <1>2, <1>3
<1>5. Current \in {pump.view} \X Slots(pump.view)
  BY <1>4 DEF Current, Slots
<1> QED BY <1>1, <1>5 DEF Requests

LEMMA OfIsRequests == \A v \in Views : Of(v) \subseteq Requests
BY DEF Of

LEMMA EmptyShapes == /\ EmptyItem \in ItemShape
                     /\ EmptyLane \in LaneShape /\ LeavingLane \in LaneShape
BY DEF EmptyItem, ItemShape, EmptyLane, LeavingLane, LaneShape, Phases, Heads,
       Replies, LaneStates

LEMMA EmptyFields ==
    /\ EmptyItem.phase # "Active" /\ EmptyItem.lane = Nobody /\ Fresh(EmptyItem)
    /\ EmptyLane.owner = Nobody /\ EmptyLane.state = "Free"
    /\ LeavingLane.owner = Nobody /\ LeavingLane.state = "Cancelling"
BY DEF EmptyItem, EmptyLane, LeavingLane, Fresh

LEMMA AbandonedIsGone ==
    ASSUME NEW la \in LaneShape, NEW lb \in Abandoned(la)
    PROVE  /\ lb \in LaneShape /\ lb.owner = Nobody
           /\ lb.state \in {"Free", "Cancelling"}
<1>1. lb \in {EmptyLane, LeavingLane}
  BY DEF Abandoned
<1> QED BY <1>1, EmptyShapes, EmptyFields

\* DropLanes gives up what served rs.
LEMMA DropLanesEffect ==
    ASSUME NEW rs, NEW ls \in [Lanes -> LaneShape], DropLanes(rs, ls)
    PROVE  LanesGo(rs, ls) /\ lane' \in [Lanes -> LaneShape]
<1> DEFINE gone == {l \in Lanes : Holds(l, ls[l], rs)}
<1>1. PICK after \in [gone -> {EmptyLane, LeavingLane}] :
           /\ \A l \in gone : after[l] \in Abandoned(ls[l])
           /\ lane' = [l \in Lanes |-> IF l \in gone THEN after[l] ELSE ls[l]]
  BY DEF DropLanes, Holds
<1>2. \A l \in gone : after[l] \in LaneShape
  BY <1>1, EmptyShapes
<1>3. lane' \in [Lanes -> LaneShape]
  BY <1>1, <1>2
<1>4. LanesGo(rs, ls)
  BY <1>1 DEF LanesGo
<1> QED BY <1>3, <1>4

\* scheduled_mark_complete ends exactly the requests rs.
LEMMA MarkCompleteEffect ==
    ASSUME Shapes, NEW rs \in SUBSET Requests, NEW ok \in BOOLEAN,
           NEW reply \in Replies, NEW ls \in [Lanes -> LaneShape],
           MarkComplete(rs, ok, reply, ls)
    PROVE  /\ Shapes' /\ ItemsPart(rs) /\ LanesGo(rs, ls)
           /\ \A r \in rs : item'[r].phase = "Complete"
           /\ \E kept : view' = Settled(rs, kept)
<1>1. PICK kept \in [rs -> 0 .. Pool] :
         /\ item' = [r \in Requests |->
                IF r \in rs THEN Ended(ok, reply, kept[r]) ELSE item[r]]
         /\ view' = Settled(rs, kept)
  BY DEF MarkComplete
<1>2. \A r \in rs : kept[r] \in Nat
  BY LimitsAssumption
<1>3. ASSUME NEW n \in Nat
      PROVE  /\ Ended(ok, reply, n) \in ItemShape
             /\ Ended(ok, reply, n).phase = "Complete"
             /\ Ended(ok, reply, n).lane = Nobody
             /\ Fresh(Ended(ok, reply, n))
  BY <1>3 DEF Ended, EmptyItem, ItemShape, Phases, Heads, Fresh
<1>4. item' \in [Requests -> ItemShape]
  BY <1>1, <1>2, <1>3 DEF Shapes
<1>5. ItemsPart(rs) /\ \A r \in rs : item'[r].phase = "Complete"
  BY <1>1, <1>2, <1>3 DEF ItemsPart
<1>6. LanesGo(rs, ls) /\ lane' \in [Lanes -> LaneShape]
  BY DropLanesEffect DEF MarkComplete
<1> QED BY <1>1, <1>4, <1>5, <1>6 DEF Shapes

\* Two fields of a view's record replaced, the third kept.
LEMMA NewSums ==
    ASSUME NEW w, NEW x, NEW p, NEW n,
           w = [reserved |-> w.reserved, pending |-> w.pending,
                cursor |-> w.cursor],
           x = [w EXCEPT !.pending = p, !.reserved = n]
    PROVE  x = [reserved |-> n, pending |-> p, cursor |-> w.cursor]
OBVIOUS

\* It leaves the cursors alone.
LEMMA SettledKeepsTurns ==
    ASSUME Turns, NEW rs, NEW kept, view' = Settled(rs, kept)
    PROVE  /\ view' = [v \in Views |-> [reserved |-> view'[v].reserved,
                                        pending |-> view'[v].pending,
                                        cursor |-> view'[v].cursor]]
           /\ \A v \in Views : view'[v].cursor = view[v].cursor
<1> DEFINE p(v) == view[v].pending - Cardinality(rs \cap Of(v))
           n(v) == view[v].reserved
                       - Cardinality(Unused(rs \cap Of(v), kept))
           e(v) == [view[v] EXCEPT !.pending = p(v), !.reserved = n(v)]
<1>1. view' = [v \in Views |-> e(v)]
  BY DEF Settled
<1>2. ASSUME NEW v \in Views
      PROVE  view'[v] = [reserved |-> n(v), pending |-> p(v),
                         cursor |-> view[v].cursor]
  <2>1. view[v] = [reserved |-> view[v].reserved,
                   pending |-> view[v].pending, cursor |-> view[v].cursor]
    BY DEF Turns, ViewsStand, PumpStands
  <2>2. view'[v] = e(v)
    <3> HIDE DEF e
    <3> QED BY <1>1
  <2> HIDE DEF p, n
  <2> QED BY <2>1, <2>2, NewSums
<1> HIDE DEF p, n, e
<1> QED BY <1>1, <1>2

-----------------------------------------------------------------------------
\* Ties survive when both ends part.
LEMMA PartKeepsTies ==
    ASSUME Shapes, Ties, NEW rs \in SUBSET Requests, Parts(rs) PROVE Ties'
<1>1. \A l \in Lanes : \/ lane'[l] = lane[l] /\ ~Holds(l, lane[l], rs)
                       \/ /\ Holds(l, lane[l], rs)
                          /\ lane'[l].owner = Nobody
                          /\ lane'[l].state \in {"Free", "Cancelling"}
  BY AbandonedIsGone DEF Parts, Shapes
<1>2. \A r \in Requests : IF r \in rs
                            THEN /\ item'[r].lane = Nobody /\ Fresh(item'[r])
                            ELSE item'[r] = item[r]
  BY DEF Parts, ItemsPart
<1>3. ASSUME NEW l \in Lanes, lane'[l].owner # Nobody
      PROVE  /\ lane'[l] = lane[l] /\ lane[l].owner \in Requests
             /\ item[lane[l].owner].phase = "Active"
             /\ item[lane[l].owner].lane = l
             /\ item'[lane[l].owner] = item[lane[l].owner]
  <2>1. lane'[l] = lane[l] /\ ~Holds(l, lane[l], rs)
    BY <1>1, <1>3
  <2>2. lane[l].owner \in Requests
    BY <1>3, <2>1 DEF Shapes, LaneShape
  <2> QED BY <1>2, <1>3, <2>1, <2>2 DEF Ties, LanesAreOwned, Holds
<1>4. ASSUME NEW r \in Requests, item'[r].lane # Nobody
      PROVE  /\ item'[r] = item[r] /\ item[r].lane \in Lanes
             /\ lane[item[r].lane].owner = r
             /\ lane'[item[r].lane] = lane[item[r].lane]
  <2>1. item'[r] = item[r] /\ r \notin rs
    BY <1>2, <1>4
  <2>2. item[r].lane \in Lanes /\ lane[item[r].lane].owner = r
    BY <1>4, <2>1 DEF Shapes, ItemShape, Ties, LanesAreOwned, Serves
  <2> QED BY <1>1, <2>1, <2>2 DEF Holds
<1>5. LanesAreOwned'
  BY <1>3, <1>4 DEF LanesAreOwned, Serves
<1>6. UsedIsOwned'
  BY <1>1 DEF Ties, UsedIsOwned, InUse
<1>7. Delivered'
  BY <1>2, <1>4 DEF Ties, Delivered, Fresh
<1> QED BY <1>5, <1>6, <1>7 DEF Ties

\* What MarkComplete does to the lanes as they are parts the requests from
\* them, and so does taking the current one's result first.
LEMMA DropIsParting ==
    ASSUME NEW rs, ItemsPart(rs), LanesGo(rs, lane) PROVE Parts(rs)
BY DEF Parts, LanesGo

LEMMA ResultIsParting ==
    ASSUME Shapes, Ties, Turns, pump.at = "End", HopEnded,
           ItemsPart({Current}), LanesGo({Current}, Rest)
    PROVE  Parts({Current})
<1> DEFINE l0 == item[Current].lane
<1>1. Current \in Requests
  BY CurrentIsRequest
<1>2. /\ l0 # Nobody /\ lane[l0].owner = Current
      /\ lane[l0].state = "Complete"
  BY DEF HopEnded, Serves
<1>3. l0 \in Lanes
  BY <1>1, <1>2 DEF Shapes, ItemShape
<1>4. Rest = [lane EXCEPT ![l0] = EmptyLane]
  BY DEF Rest
<1>5. Nobody # Current
  BY <1>1, NobodyAssumption
<1>6. ~Holds(l0, EmptyLane, {Current})
  BY <1>5, EmptyFields DEF Holds
<1>7. Rest[l0] = EmptyLane /\ \A l \in Lanes \ {l0} : Rest[l] = lane[l]
  BY <1>3, <1>4 DEF Shapes
<1>8. lane'[l0] = EmptyLane
  BY <1>3, <1>6, <1>7 DEF LanesGo
<1>9. EmptyLane \in Abandoned(lane[l0])
  BY <1>2 DEF Abandoned
<1>10. Holds(l0, lane[l0], {Current})
  BY <1>2 DEF Holds
<1>11. \A l \in Lanes \ {l0} : ~Holds(l, lane[l], {Current})
  BY DEF Holds
<1>12. \A l \in Lanes \ {l0} : lane'[l] = lane[l]
  BY <1>7, <1>11 DEF LanesGo
<1> HIDE DEF l0
<1> QED BY <1>3, <1>8, <1>9, <1>10, <1>11, <1>12 DEF Parts
-----------------------------------------------------------------------------
\* StartHop ties a request that has no lane to a free one, or leaves it waiting.
LEMMA StartEffect ==
    ASSUME Shapes, NEW r \in Requests, NEW it \in ItemShape,
           it.phase = "Active", Fresh(it), StartHop(r, it, lane)
    PROVE  /\ Shapes'
           /\ \A q \in Requests \ {r} : item'[q] = item[q]
           /\ item'[r].phase = "Active" /\ Fresh(item'[r])
           /\ \/ item'[r].lane = Nobody /\ lane' = lane
              \/ \E l \in FreeLanes(lane) :
                    /\ item'[r].lane = l /\ lane'[l].owner = r
                    /\ lane'[l].state = "Queued"
                    /\ lane'[l].chunk = 0 /\ lane'[l].total = 0
                    /\ \A k \in Lanes \ {l} : lane'[k] = lane[k]
<1> DEFINE Tied(l) == [it EXCEPT !.lane = l]
           Given == [EmptyLane EXCEPT !.state = "Queued", !.owner = r]
<1>1. ASSUME NEW l \in Lanes \cup {Nobody}
      PROVE  /\ Tied(l) \in ItemShape /\ Tied(l).phase = "Active"
             /\ Fresh(Tied(l)) /\ Tied(l).lane = l
  BY DEF ItemShape, Fresh
<1>2. /\ Given \in LaneShape /\ Given.state = "Queued" /\ Given.owner = r
      /\ Given.chunk = 0 /\ Given.total = 0
  BY DEF EmptyLane, LaneShape, LaneStates, Heads
<1>3. CASE /\ item' = [item EXCEPT ![r] = Tied(Nobody)]
           /\ lane' = lane
  <2> HIDE DEF Tied, Given
  <2> QED BY <1>1, <1>3 DEF Shapes
<1>4. ASSUME NEW l \in FreeLanes(lane),
             item' = [item EXCEPT ![r] = Tied(l)],
             lane' = [lane EXCEPT ![l] = Given]
      PROVE  /\ Shapes'
             /\ \A q \in Requests \ {r} : item'[q] = item[q]
             /\ item'[r] = Tied(l) /\ lane'[l] = Given
             /\ \A k \in Lanes \ {l} : lane'[k] = lane[k]
  <2>1. l \in Lanes
    BY DEF FreeLanes
  <2> HIDE DEF Tied, Given
  <2> QED BY <1>1, <1>2, <1>4, <2>1 DEF Shapes
<1>5. \/ /\ item' = [item EXCEPT ![r] = Tied(Nobody)]
         /\ lane' = lane
      \/ \E l \in FreeLanes(lane) : /\ item' = [item EXCEPT ![r] = Tied(l)]
                                    /\ lane' = [lane EXCEPT ![l] = Given]
  BY DEF StartHop
<1>6. FreeLanes(lane) \subseteq Lanes
  BY DEF FreeLanes
<1>7. CASE \E l \in FreeLanes(lane) : /\ item' = [item EXCEPT ![r] = Tied(l)]
                                      /\ lane' = [lane EXCEPT ![l] = Given]
  <2>1. PICK l \in FreeLanes(lane) : /\ item' = [item EXCEPT ![r] = Tied(l)]
                                     /\ lane' = [lane EXCEPT ![l] = Given]
    BY <1>7
  <2> HIDE DEF Tied, Given
  <2>2. item'[r] = Tied(l) /\ lane'[l] = Given
    BY <1>4, <2>1
  <2>3. /\ Shapes'
        /\ \A q \in Requests \ {r} : item'[q] = item[q]
        /\ \A k \in Lanes \ {l} : lane'[k] = lane[k]
    BY <1>4, <2>1
  <2> QED BY <1>1, <1>2, <1>6, <2>2, <2>3
<1>8. CASE /\ item' = [item EXCEPT ![r] = Tied(Nobody)]
           /\ lane' = lane
  <2> HIDE DEF Tied, Given
  <2>1. item'[r] = Tied(Nobody) /\ \A q \in Requests \ {r} : item'[q] = item[q]
    BY <1>8 DEF Shapes
  <2>2. Shapes'
    BY <1>1, <1>8 DEF Shapes
  <2> QED BY <1>1, <1>8, <2>1, <2>2
<1> HIDE DEF Tied, Given
<1> QED BY <1>5, <1>7, <1>8

LEMMA StartKeepsTies ==
    ASSUME Shapes, Ties, NEW r \in Requests, item[r].lane = Nobody,
           NEW it \in ItemShape, it.phase = "Active", Fresh(it),
           StartHop(r, it, lane)
    PROVE  Ties'
<1>1. /\ \A q \in Requests \ {r} : item'[q] = item[q]
      /\ item'[r].phase = "Active" /\ Fresh(item'[r])
  BY StartEffect
<1>2. \A l \in Lanes : lane[l].owner # r
  BY NobodyAssumption DEF Ties, LanesAreOwned
<1>3. ASSUME item'[r].lane = Nobody, lane' = lane PROVE Ties'
  <2>1. LanesAreOwned'
    BY <1>1, <1>2, <1>3 DEF Ties, LanesAreOwned, Serves, Shapes, LaneShape
  <2>2. UsedIsOwned'
    BY <1>3 DEF Ties, UsedIsOwned
  <2>3. Delivered'
    BY <1>1, <1>3 DEF Ties, Delivered, Fresh
  <2> QED BY <2>1, <2>2, <2>3 DEF Ties
<1>4. ASSUME NEW l \in FreeLanes(lane), item'[r].lane = l, lane'[l].owner = r,
             lane'[l].state = "Queued", lane'[l].chunk = 0, lane'[l].total = 0,
             \A k \in Lanes \ {l} : lane'[k] = lane[k]
      PROVE  Ties'
  <2>1. l \in Lanes /\ lane[l].owner = Nobody /\ l # Nobody /\ r # Nobody
    BY NobodyAssumption DEF FreeLanes, Ties, UsedIsOwned, InUse
  <2>2. \A q \in Requests : item[q].lane # l
    BY <2>1, NobodyAssumption DEF Ties, LanesAreOwned, Serves
  <2>3. \A k \in Lanes : lane[k].owner # Nobody =>
             lane[k].owner \in Requests \ {r} /\ k # l
    BY <1>2, <2>1 DEF Shapes, LaneShape
  <2>4. LanesAreOwned'
    <3>1. ASSUME NEW k \in Lanes, lane'[k].owner # Nobody
          PROVE  /\ item'[lane'[k].owner].phase = "Active"
                 /\ item'[lane'[k].owner].lane = k
      BY <1>1, <1>4, <2>3, <3>1 DEF Ties, LanesAreOwned
    <3>2. ASSUME NEW q \in Requests, item'[q].lane # Nobody
          PROVE  lane'[item'[q].lane].owner = q
      <4>1. CASE q = r
        BY <1>4, <4>1
      <4>2. CASE q # r
        <5>1. item'[q] = item[q] /\ item[q].lane \in Lanes \ {l}
          BY <1>1, <2>2, <3>2, <4>2 DEF Shapes, ItemShape
        <5> QED BY <1>4, <3>2, <5>1 DEF Ties, LanesAreOwned, Serves
      <4> QED BY <4>1, <4>2
    <3> QED BY <3>1, <3>2 DEF LanesAreOwned, Serves
  <2>5. UsedIsOwned'
    BY <1>4, <2>1 DEF Ties, UsedIsOwned, InUse
  <2>6. Delivered'
    <3>1. ASSUME NEW q \in Requests \ {r}
          PROVE  /\ item'[q] = item[q]
                 /\ item[q].lane # Nobody =>
                        lane'[item[q].lane] = lane[item[q].lane]
      BY <1>1, <1>4, <2>2 DEF Shapes, ItemShape
    <3>2. Together(item'[r], lane'[l])
      BY <1>1, <1>4 DEF Together, Fresh
    <3>3. item'[r].got = 0
      BY <1>1 DEF Fresh
    <3> QED BY <1>4, <2>1, <3>1, <3>2, <3>3 DEF Ties, Delivered
  <2> QED BY <2>4, <2>5, <2>6 DEF Ties
<1> QED BY <1>3, <1>4, StartEffect
-----------------------------------------------------------------------------
\* The same for the promise of a lease: a lane that is given up was in use.
LEMMA PartIsMove ==
    ASSUME Shapes, Ties, NEW rs \in SUBSET Requests, Parts(rs) PROVE LanesMove
<1>1. ASSUME NEW l \in Lanes, Holds(l, lane[l], rs),
             lane'[l] \in Abandoned(lane[l])
      PROVE  <<lane[l].state, lane'[l].state>> \in Moves
  <2>1. lane[l].state \in InUse
    BY <1>1, NobodyAssumption DEF Ties, UsedIsOwned, Holds
  <2>2. CASE lane[l].state = "Queued"
    BY <1>1, <2>2, EmptyFields DEF Abandoned, Moves
  <2>3. CASE lane[l].state = "Running"
    BY <1>1, <2>3, EmptyFields DEF Abandoned, Moves
  <2>4. CASE lane[l].state = "Complete"
    BY <1>1, <2>4, EmptyFields DEF Abandoned, Moves
  <2> QED BY <2>1, <2>2, <2>3, <2>4 DEF InUse
<1> QED BY <1>1 DEF Parts, LanesMove

\* Requests that end where their lanes stand.
LEMMA EndStep ==
    ASSUME Shapes, Ties, NEW rs \in SUBSET Requests, NEW ok \in BOOLEAN,
           NEW reply \in Replies, MarkComplete(rs, ok, reply, lane)
    PROVE  /\ Shapes' /\ Ties' /\ LanesMove /\ NoneWakes
           /\ \A r \in rs : item'[r].phase = "Complete"
           /\ \E kept : view' = Settled(rs, kept)
<1>1. lane \in [Lanes -> LaneShape]
  BY DEF Shapes
<1>2. /\ Shapes' /\ ItemsPart(rs) /\ LanesGo(rs, lane)
      /\ \A r \in rs : item'[r].phase = "Complete"
      /\ \E kept : view' = Settled(rs, kept)
  BY <1>1, MarkCompleteEffect
<1>3. Parts(rs)
  BY <1>2, DropIsParting
<1>4. NoneWakes
  BY <1>2 DEF NoneWakes, ItemsPart
<1> QED BY <1>2, <1>3, <1>4, PartKeepsTies, PartIsMove

\* A request that ends when its result has been taken.
LEMMA ResultStep ==
    ASSUME Shapes, Ties, Turns, pump.at = "End", HopEnded,
           NEW ok \in BOOLEAN, NEW reply \in Replies,
           MarkComplete({Current}, ok, reply, Rest)
    PROVE  /\ Shapes' /\ Ties' /\ LanesMove /\ NoneWakes
           /\ \E kept : view' = Settled({Current}, kept)
<1>1. Rest \in [Lanes -> LaneShape]
  BY EmptyShapes DEF Rest, Shapes
<1>2. {Current} \in SUBSET Requests
  BY CurrentIsRequest
<1>3. /\ Shapes' /\ ItemsPart({Current}) /\ LanesGo({Current}, Rest)
      /\ \A r \in {Current} : item'[r].phase = "Complete"
      /\ \E kept : view' = Settled({Current}, kept)
  BY <1>1, <1>2, MarkCompleteEffect
<1>4. Parts({Current})
  BY <1>3, ResultIsParting
<1>5. NoneWakes
  BY <1>3 DEF NoneWakes, ItemsPart
<1> QED BY <1>2, <1>3, <1>4, <1>5, PartKeepsTies, PartIsMove

\* Data that moves along a tie leaves it as it is.
LEMMA DataKeepsTies ==
    ASSUME Shapes, Ties, Delivered',
           \A r \in Requests : /\ item'[r].phase = item[r].phase
                               /\ item'[r].lane = item[r].lane,
           \A l \in Lanes : /\ lane'[l].owner = lane[l].owner
                            /\ lane'[l].state \in InUse
                                   <=> lane[l].state \in InUse
    PROVE  Ties'
<1>1. LanesAreOwned'
  BY DEF Ties, LanesAreOwned, Serves, Shapes, LaneShape, ItemShape
<1>2. UsedIsOwned'
  BY DEF Ties, UsedIsOwned
<1> QED BY <1>1, <1>2 DEF Ties

\* One lane moves on by itself.
LEMMA LaneKeepsTies ==
    ASSUME Shapes, Ties, UNCHANGED item, NEW l \in Lanes, NEW la \in LaneShape,
           Becomes(l, la), la.owner = lane[l].owner,
           la.state \in InUse <=> lane[l].state \in InUse,
           \A r \in Requests : item[r].lane = l => Together(item[r], la)
    PROVE  Shapes' /\ Ties'
<1>1. lane' = [lane EXCEPT ![l] = la]
  BY DEF Becomes
<1>2. Shapes'
  BY <1>1 DEF Shapes
<1>3. lane'[l] = la /\ \A k \in Lanes \ {l} : lane'[k] = lane[k]
  BY <1>1 DEF Shapes
<1>4. Delivered'
  <2>1. ASSUME NEW r \in Requests, item[r].lane # Nobody
        PROVE  Together(item[r], lane'[item[r].lane])
    <3>1. item[r].lane \in Lanes
      BY <2>1 DEF Shapes, ItemShape
    <3> QED BY <1>3, <2>1, <3>1 DEF Ties, Delivered
  <2> QED BY <2>1 DEF Ties, Delivered
<1> QED BY <1>2, <1>3, <1>4, DataKeepsTies
-----------------------------------------------------------------------------
\* The cursors and the pump's place.

\* Requests that end leave the cursors alone.
LEMMA ViewKept ==
    ASSUME Turns,
           \/ UNCHANGED view
           \/ \E rs, kept : view' = Settled(rs, kept)
    PROVE  ViewsStand'
<1>1. CASE UNCHANGED view
  BY <1>1 DEF Turns, ViewsStand
<1>2. ASSUME NEW rs, NEW kept, view' = Settled(rs, kept) PROVE ViewsStand'
  BY <1>2, SettledKeepsTurns DEF ViewsStand, Turns
<1> QED BY <1>1, <1>2

\* A record of a view with one field replaced or two.
LEMMA EnqueueKeepsViews ==
    ASSUME Turns, NEW v \in Views, NEW n \in Sizes, Enqueue(v, n)
    PROVE  ViewsStand'
<1>1. view' = [view EXCEPT ![v].reserved = @ + n, ![v].pending = @ + 1]
  BY DEF Enqueue
<1>2. view[v] = [reserved |-> view[v].reserved, pending |-> view[v].pending,
                 cursor |-> view[v].cursor]
  BY DEF Turns, ViewsStand
<1>3. view'[v] = [reserved |-> view[v].reserved + n,
                  pending |-> view[v].pending + 1,
                  cursor |-> view[v].cursor]
  BY <1>1, <1>2 DEF Turns, ViewsStand
<1>4. \A w \in Views \ {v} : view'[w] = view[w]
  BY <1>1 DEF Turns, ViewsStand
<1>5. DOMAIN view' = Views /\ view' = [w \in Views |-> view'[w]]
  BY <1>1 DEF Turns, ViewsStand
<1> QED BY <1>3, <1>4, <1>5 DEF Turns, ViewsStand

LEMMA TakeKeepsViews ==
    ASSUME Turns, NEW r \in Requests, Take(r)
    PROVE  ViewsStand'
<1> DEFINE w == [view[r[1]] EXCEPT !.reserved = @ - item[r].reserved]
<1>1. view' = [view EXCEPT ![r[1]] = w]
  BY DEF Take
<1>2. r[1] \in Views
  BY DEF Requests
<1>3. w = [reserved |-> view[r[1]].reserved - item[r].reserved,
           pending |-> view[r[1]].pending, cursor |-> view[r[1]].cursor]
  BY <1>2 DEF Turns, ViewsStand
<1> HIDE DEF w
<1> QED BY <1>1, <1>2, <1>3 DEF Turns, ViewsStand

LEMMA DestroyKeepsViews ==
    ASSUME Turns, NEW v \in Views, Destroy(v)
    PROVE  ViewsStand'
<1>1. view' = [view EXCEPT ![v] = EmptyView]
  BY DEF Destroy
<1>2. EmptyView = [reserved |-> 0, pending |-> 0, cursor |-> 0]
  BY DEF EmptyView
<1> QED BY <1>1, <1>2 DEF Turns, ViewsStand

LEMMA EndPumpKeepsViews ==
    ASSUME Turns, EndPump
    PROVE  ViewsStand'
<1> DEFINE v == pump.view
           c == (view[v].cursor + 1) % Capacity[v]
           w == [view[v] EXCEPT !.cursor = c]
<1>1. view' = [view EXCEPT ![v] = w]
  BY DEF EndPump
<1>2. v \in Views
  BY DEF Turns, PumpStands, EndPump, At
<1>3. c \in Nat
  BY <1>2, CapacityAssumption DEF Turns, ViewsStand
<1> HIDE DEF c
<1>4. w = [reserved |-> view[v].reserved, pending |-> view[v].pending,
           cursor |-> c]
  BY <1>2 DEF Turns, ViewsStand
<1> HIDE DEF w, v
<1> QED BY <1>1, <1>2, <1>3, <1>4 DEF Turns, ViewsStand

\* Every step of a pump but its end.
LEMMA PumpKept ==
    ASSUME Turns,
           \/ UNCHANGED pump
           \/ pump.at # "Idle" /\ \E n \in {0, 1} : NextSlot(n)
           \/ pump.at # "Idle" /\ \E p \in Points : GoOn(p)
    PROVE  PumpStands'
<1>1. CASE UNCHANGED pump
  BY <1>1 DEF Turns, PumpStands
<1>2. ASSUME NEW n \in {0, 1}, pump.at # "Idle", NextSlot(n) PROVE PumpStands'
  <2>1. pump.visited + 1 \in Nat /\ pump.done + n \in Nat
    BY DEF Turns, PumpStands, PumpShape
  <2>2. PICK i \in Nat, j \in Nat :
            pump' = [pump EXCEPT !.at = "Visit", !.visited = i, !.done = j]
    BY <1>2, <2>1 DEF NextSlot
  <2> QED BY <1>2, <2>2 DEF Turns, PumpStands, PumpShape, Points
<1>3. ASSUME NEW p \in Points, pump.at # "Idle", GoOn(p) PROVE PumpStands'
  BY <1>3 DEF Turns, PumpStands, PumpShape, GoOn
<1> QED BY <1>1, <1>2, <1>3
\* Starting a hop is a lease taken.
LEMMA StartIsMove ==
    ASSUME Shapes, NEW r \in Requests, NEW it \in ItemShape,
           it.phase = "Active", Fresh(it), StartHop(r, it, lane)
    PROVE  LanesMove
BY StartEffect DEF LanesMove, Moves, FreeLanes

\* What a domain counts does not touch its hold.
LEMMA DomainKept ==
    ASSUME DomainStands, UNCHANGED domain
                             \/ \E n : domain' = [domain EXCEPT !.active = n]
    PROVE  DomainStands' /\ domain'.held = domain.held
<1>1. ASSUME NEW n, domain' = [domain EXCEPT !.active = n]
      PROVE  DomainStands' /\ domain'.held = domain.held
  BY <1>1 DEF DomainStands
<1> QED BY <1>1 DEF DomainStands

LEMMA HoldKept ==
    ASSUME DomainStands, NEW b, domain' = [domain EXCEPT !.held = b]
    PROVE  DomainStands' /\ domain'.held = b
BY DEF DomainStands

-----------------------------------------------------------------------------
\* A hold and the point between two hops, where no request starts.
LEMMA QuietStays ==
    ASSUME Quiet, NoneWakes, domain'.held => domain.held,
           pump'.at # "Next hop"
    PROVE  Quiet'
BY DEF Quiet, NoneWakes, Active

\* Without a lane, or over: a request that no lane serves.
LEMMA OnlyActiveHasLane ==
    ASSUME Shapes, Ties, NEW r \in Requests, item[r].phase # "Active"
    PROVE  item[r].lane = Nobody
BY NobodyAssumption DEF Shapes, ItemShape, Ties, LanesAreOwned, Serves

-----------------------------------------------------------------------------
\* The calls of the browser thread between pumps.

LEMMA EnqueueStep ==
    ASSUME IInv, NEW v \in Views, NEW n \in Sizes, Enqueue(v, n)
    PROVE  IInv' /\ LanesMove
<1> DEFINE it == [EmptyItem EXCEPT !.phase = "Active", !.reserved = n]
<1>1. PICK i \in Slots(v) : /\ item[<<v, i>>].phase = "Empty"
                            /\ StartHop(<<v, i>>, it, lane)
  BY DEF Enqueue
<1>2. n \in Nat
  BY LimitsAssumption
<1>3. it \in ItemShape /\ it.phase = "Active" /\ Fresh(it)
  BY <1>2 DEF EmptyItem, ItemShape, Phases, Heads, Replies, Fresh
<1>4. <<v, i>> \in Requests
  BY DEF Requests
<1>5. item[<<v, i>>].lane = Nobody
  BY <1>1, <1>4, OnlyActiveHasLane DEF IInv
<1> HIDE DEF it
<1>6. Shapes' /\ Ties'
  BY <1>1, <1>3, <1>4, <1>5, StartEffect, StartKeepsTies DEF IInv
<1>7. LanesMove
  BY <1>1, <1>3, <1>4, StartIsMove DEF IInv
<1>8. Turns'
  BY EnqueueKeepsViews, PumpKept DEF IInv, Turns, Enqueue, Between
<1>9. DomainStands' /\ domain'.held = domain.held
  BY DomainKept DEF Enqueue, IInv
<1>10. Quiet'
  <2>1. domain.held = FALSE /\ pump'.at = "Idle"
    BY DEF Enqueue, Between
  <2> QED BY <1>9, <2>1 DEF Quiet
<1> QED BY <1>6, <1>7, <1>8, <1>10, <1>9 DEF IInv

LEMMA TakeStep ==
    ASSUME IInv, NEW r \in Requests, Take(r)
    PROVE  IInv' /\ LanesMove
<1>1. item' = [item EXCEPT ![r] = EmptyItem] /\ lane' = lane
  BY DEF Take
<1>2. /\ item'[r] = EmptyItem
      /\ \A q \in Requests \ {r} : item'[q] = item[q]
  BY <1>1 DEF IInv, Shapes
<1>3. Shapes'
  BY <1>1, EmptyShapes DEF IInv, Shapes
<1>4. \A l \in Lanes : ~Holds(l, lane[l], {r})
  BY OnlyActiveHasLane, NobodyAssumption DEF Take, Holds, IInv
<1>5. Parts({r})
  BY <1>1, <1>2, <1>4, EmptyFields DEF Parts, ItemsPart
<1>6. Ties' /\ LanesMove
  BY <1>5, PartKeepsTies, PartIsMove DEF IInv
<1>7. Turns'
  BY TakeKeepsViews, PumpKept DEF IInv, Turns, Take, Between
<1>8. NoneWakes
  BY <1>2, EmptyFields DEF NoneWakes
<1>9. DomainStands' /\ domain'.held = domain.held /\ pump'.at # "Next hop"
  <2>1. UNCHANGED pump /\ pump.at = "Idle"
    BY DEF Take, Between
  <2>2. \E n : domain' = [domain EXCEPT !.active = n]
    BY DEF Take
  <2> QED BY <2>1, <2>2, DomainKept DEF IInv
<1>10. Quiet'
  BY <1>8, <1>9, QuietStays DEF IInv
<1> QED BY <1>3, <1>6, <1>7, <1>9, <1>10 DEF IInv

LEMMA CancelRequestStep ==
    ASSUME IInv, NEW r \in Requests, CancelRequest(r)
    PROVE  IInv' /\ LanesMove
<1>1. MarkComplete({r}, FALSE, "None", lane) /\ UNCHANGED <<pump, domain>>
      /\ pump.at = "Idle"
  BY DEF CancelRequest, Between
<1>2. "None" \in Replies /\ FALSE \in BOOLEAN /\ {r} \in SUBSET Requests
  BY DEF Replies
<1>3. /\ Shapes' /\ Ties' /\ LanesMove /\ NoneWakes
      /\ \E kept : view' = Settled({r}, kept)
  BY <1>1, <1>2, EndStep DEF IInv
<1>4. Turns'
  BY <1>1, <1>3, ViewKept, PumpKept DEF IInv, Turns
<1>5. DomainStands' /\ domain'.held = domain.held
  BY <1>1, DomainKept DEF IInv
<1>6. Quiet'
  BY <1>1, <1>3, <1>5, QuietStays DEF IInv
<1> QED BY <1>3, <1>4, <1>5, <1>6 DEF IInv

LEMMA HoldStep ==
    ASSUME IInv, Hold PROVE IInv' /\ LanesMove
<1>1. MarkComplete(Active, FALSE, "None", lane) /\ UNCHANGED pump
      /\ pump.at = "Idle"
  BY DEF Hold, Between
<1>2. "None" \in Replies /\ FALSE \in BOOLEAN /\ Active \in SUBSET Requests
  BY DEF Replies, Active
<1>3. /\ Shapes' /\ Ties' /\ LanesMove /\ NoneWakes
      /\ \A r \in Active : item'[r].phase = "Complete"
      /\ \E kept : view' = Settled(Active, kept)
  BY <1>1, <1>2, EndStep DEF IInv
<1>4. Turns'
  BY <1>1, <1>3, ViewKept, PumpKept DEF IInv, Turns
<1>5. Active' = {}
  BY <1>3 DEF Active, NoneWakes
<1>6. Quiet'
  BY <1>1, <1>5 DEF Quiet
<1>7. DomainStands'
  BY HoldKept DEF Hold, IInv
<1> QED BY <1>3, <1>4, <1>6, <1>7 DEF IInv

LEMMA DestroyStep ==
    ASSUME IInv, NEW v \in Views, Destroy(v) PROVE IInv' /\ LanesMove
<1>1. /\ item' = [r \in Requests |-> IF r \in Of(v) THEN EmptyItem ELSE item[r]]
      /\ DropLanes(Of(v), lane)
  BY DEF Destroy
<1>2. Of(v) \in SUBSET Requests
  BY OfIsRequests
<1>3. ItemsPart(Of(v)) /\ NoneWakes
  BY <1>1, EmptyFields DEF ItemsPart, NoneWakes
<1>4. item' \in [Requests -> ItemShape]
  BY <1>1, EmptyShapes DEF IInv, Shapes
<1>5. LanesGo(Of(v), lane) /\ lane' \in [Lanes -> LaneShape]
  BY <1>1, DropLanesEffect DEF IInv, Shapes
<1>6. Ties' /\ LanesMove
  BY <1>2, <1>3, <1>5, DropIsParting, PartKeepsTies, PartIsMove DEF IInv
<1>7. Turns'
  BY DestroyKeepsViews, PumpKept DEF IInv, Turns, Destroy, Between
<1>8. DomainStands' /\ domain'.held = domain.held /\ pump'.at # "Next hop"
  <2>1. UNCHANGED pump /\ pump.at = "Idle"
    BY DEF Destroy, Between
  <2>2. \E n : domain' = [domain EXCEPT !.active = n]
    BY DEF Destroy
  <2> QED BY <2>1, <2>2, DomainKept DEF IInv
<1>9. Quiet'
  BY <1>3, <1>8, QuietStays DEF IInv
<1> QED BY <1>4, <1>5, <1>6, <1>7, <1>8, <1>9 DEF IInv, Shapes

LEMMA ReleaseStep ==
    ASSUME IInv, Release PROVE IInv' /\ LanesMove
<1>1. UNCHANGED <<item, view, lane, pump>> /\ pump.at = "Idle"
  BY DEF Release, Between
<1>2. Turns' /\ Shapes' /\ Ties'
  BY <1>1 DEF IInv, Turns, ViewsStand, PumpStands, Shapes, Ties,
              LanesAreOwned, Serves, UsedIsOwned, Delivered
<1>3. DomainStands' /\ domain'.held = FALSE
  BY HoldKept DEF Release, IInv
<1>4. Quiet'
  BY <1>1, <1>3 DEF Quiet
<1> QED BY <1>1, <1>2, <1>3, <1>4 DEF IInv, LanesMove
-----------------------------------------------------------------------------
\* The steps of a pump.

\* Where a step of the pump leads.
LEMMA PumpGoes ==
    ASSUME PumpStands
    PROVE  /\ \A n \in {0, 1} : NextSlot(n) => pump'.at = "Visit"
           /\ \A p \in Points : GoOn(p) => /\ pump'.at = p
                                           /\ pump'.view = pump.view
                                           /\ pump'.visited = pump.visited
<1>1. ASSUME NEW n \in {0, 1}, NextSlot(n) PROVE pump'.at = "Visit"
  <2>1. PICK i, j : pump' = [pump EXCEPT !.at = "Visit", !.visited = i,
                                         !.done = j]
    BY <1>1 DEF NextSlot
  <2> QED BY <2>1 DEF PumpStands, PumpShape
<1>2. ASSUME NEW p \in Points, GoOn(p)
      PROVE  pump'.at = p /\ pump'.view = pump.view
                 /\ pump'.visited = pump.visited
  BY <1>2 DEF GoOn, PumpStands, PumpShape
<1> QED BY <1>1, <1>2

\* The pump moves on and nothing else happens.
LEMMA StillStep ==
    ASSUME IInv, UNCHANGED <<item, lane, domain>>, ViewsStand', PumpStands',
           pump'.at # "Next hop"
    PROVE  IInv' /\ LanesMove
<1>1. Shapes' /\ Ties'
  BY DEF IInv, Shapes, Ties, LanesAreOwned, Serves, UsedIsOwned, Delivered
<1>2. NoneWakes /\ LanesMove
  BY DEF NoneWakes, LanesMove
<1>3. DomainStands' /\ domain'.held = domain.held
  BY DomainKept DEF IInv
<1>4. Quiet'
  BY <1>2, <1>3, QuietStays DEF IInv
<1> QED BY <1>1, <1>2, <1>3, <1>4 DEF IInv, Turns

LEMMA BeginPumpStep ==
    ASSUME IInv, NEW v \in Views, BeginPump(v) PROVE IInv' /\ LanesMove
<1>1. PICK most \in 1 .. Capacity[v] :
          pump' = [NoPump EXCEPT !.at = "Visit", !.view = v, !.most = most]
  BY DEF BeginPump
<1>2. most \in Nat
  BY CapacityAssumption
<1>3. PumpStands' /\ pump'.at = "Visit"
  BY <1>1, <1>2 DEF PumpStands, PumpShape, NoPump, Points
<1>4. UNCHANGED <<item, lane, domain, view>>
  BY DEF BeginPump, At
<1>5. ViewsStand'
  BY <1>4, ViewKept DEF IInv
<1> QED BY <1>3, <1>4, <1>5, StillStep

LEMMA EndPumpStep ==
    ASSUME IInv, EndPump PROVE IInv' /\ LanesMove
<1>1. pump' = NoPump /\ UNCHANGED <<item, lane, domain>>
  BY DEF EndPump, At
<1>2. PumpStands' /\ pump'.at = "Idle"
  BY <1>1 DEF PumpStands, PumpShape, NoPump, Points
<1> QED BY <1>1, <1>2, EndPumpKeepsViews, StillStep DEF IInv

\* A slot or a point of the pump at which there is nothing to do.
LEMMA MoveOnStep ==
    ASSUME IInv, pump.at # "Idle", UNCHANGED <<item, lane, domain, view>>,
           NextSlot(0) \/ \E p \in Points \ {"Next hop"} : GoOn(p)
    PROVE  IInv' /\ LanesMove
<1>1. ViewsStand' /\ PumpStands'
  BY ViewKept, PumpKept DEF IInv
<1>2. pump'.at # "Next hop"
  BY PumpGoes DEF IInv, Turns
<1> QED BY <1>1, <1>2, StillStep

LEMMA AbortStep ==
    ASSUME IInv, pump.at # "Idle", UNCHANGED domain, Abort
    PROVE  IInv' /\ LanesMove
<1>1. MarkComplete({Current}, FALSE, "None", lane) /\ NextSlot(1)
  BY DEF Abort
<1>2. "None" \in Replies /\ FALSE \in BOOLEAN /\ {Current} \in SUBSET Requests
  BY CurrentIsRequest DEF IInv, Replies
<1>3. /\ Shapes' /\ Ties' /\ LanesMove /\ NoneWakes
      /\ \E kept : view' = Settled({Current}, kept)
  BY <1>1, <1>2, EndStep DEF IInv
<1>4. Turns' /\ pump'.at # "Next hop"
  BY <1>1, <1>3, ViewKept, PumpKept, PumpGoes DEF IInv, Turns
<1>5. DomainStands' /\ domain'.held = domain.held
  BY DomainKept DEF IInv
<1>6. Quiet'
  BY <1>3, <1>4, <1>5, QuietStays DEF IInv
<1> QED BY <1>3, <1>4, <1>5, <1>6 DEF IInv

\* A request that ends with the result of its hop.
LEMMA FinishStep ==
    ASSUME IInv, pump.at = "End", UNCHANGED domain, HopEnded,
           NEW ok \in BOOLEAN, NEW reply \in Replies,
           MarkComplete({Current}, ok, reply, Rest), NextSlot(1)
    PROVE  IInv' /\ LanesMove
<1>1. /\ Shapes' /\ Ties' /\ LanesMove /\ NoneWakes
      /\ \E kept : view' = Settled({Current}, kept)
  BY ResultStep DEF IInv
<1>2. Turns' /\ pump'.at # "Next hop"
  BY <1>1, ViewKept, PumpKept, PumpGoes DEF IInv, Turns
<1>3. DomainStands' /\ domain'.held = domain.held
  BY DomainKept DEF IInv
<1>4. Quiet'
  BY <1>1, <1>2, <1>3, QuietStays DEF IInv
<1> QED BY <1>1, <1>2, <1>3, <1>4 DEF IInv

\* A waiting request gets a lane or goes on waiting.
LEMMA WaiterStep ==
    ASSUME IInv, pump.at # "Idle", UNCHANGED <<domain, view>>, Waits(Current),
           StartHop(Current, item[Current], lane),
           NextSlot(0) \/ GoOn("Headers")
    PROVE  IInv' /\ LanesMove
<1>1. Current \in Requests
  BY CurrentIsRequest DEF IInv
<1>2. /\ item[Current] \in ItemShape /\ item[Current].phase = "Active"
      /\ item[Current].lane = Nobody
  BY <1>1 DEF IInv, Shapes, Waits
<1>3. Fresh(item[Current])
  BY <1>1, <1>2 DEF IInv, Ties, Delivered
<1> DEFINE r == Current
<1> HIDE DEF r
<1>4. /\ r \in Requests /\ item[r] \in ItemShape /\ item[r].phase = "Active"
      /\ item[r].lane = Nobody /\ Fresh(item[r]) /\ StartHop(r, item[r], lane)
  BY <1>1, <1>2, <1>3 DEF r
<1>5. Shapes' /\ Ties' /\ LanesMove
  BY <1>4, StartEffect, StartKeepsTies, StartIsMove DEF IInv
<1>6. NoneWakes
  BY <1>4, StartEffect DEF IInv, NoneWakes
<1>7. "Headers" \in Points
  BY DEF Points
<1>8. Turns' /\ pump'.at # "Next hop"
  BY <1>7, ViewKept, PumpKept, PumpGoes DEF IInv, Turns
<1>9. DomainStands' /\ domain'.held = domain.held
  BY DomainKept DEF IInv
<1>10. Quiet'
  BY <1>6, <1>8, <1>9, QuietStays DEF IInv
<1> QED BY <1>5, <1>8, <1>9, <1>10 DEF IInv

LEMMA VisitStep ==
    ASSUME IInv, Visit PROVE IInv' /\ LanesMove
<1>1. CASE PassOver
  BY <1>1, MoveOnStep DEF PassOver, Visiting, At
<1>2. CASE HasLane
  <2>1. "Headers" \in Points \ {"Next hop"}
    BY DEF Points
  <2> QED BY <1>2, <2>1, MoveOnStep DEF HasLane, Visiting, At
<1>3. CASE OutOfTime
  BY <1>3, AbortStep DEF OutOfTime, Visiting, At
<1>4. CASE AskForLane
  BY <1>4, WaiterStep DEF AskForLane, Visiting, At
<1> QED BY <1>1, <1>2, <1>3, <1>4 DEF Visit
-----------------------------------------------------------------------------
\* Headers and chunks.

\* The lane that serves the current request is its own.
LEMMA ServedFromOwn ==
    ASSUME IInv, pump.at # "Idle", Serves(item[Current].lane, Current)
    PROVE  /\ Current \in Requests /\ item[Current].lane \in Lanes
           /\ item[Current].phase = "Active"
           /\ lane[item[Current].lane].owner = Current
           /\ Together(item[Current], lane[item[Current].lane])
           /\ \A q \in Requests \ {Current} : item[q].lane # item[Current].lane
<1> DEFINE r == Current
<1>1. r \in Requests
  BY CurrentIsRequest DEF IInv
<1> HIDE DEF r
<1>2. item[r].lane # Nobody /\ lane[item[r].lane].owner = r
  BY DEF Serves, r
<1>3. item[r].lane \in Lanes
  BY <1>1, <1>2 DEF IInv, Shapes, ItemShape
<1>4. Together(item[r], lane[item[r].lane])
  BY <1>1, <1>2 DEF IInv, Ties, Delivered
<1>5. item[r].phase = "Active"
  BY <1>1, <1>2, <1>3, NobodyAssumption DEF IInv, Ties, LanesAreOwned
<1>6. \A q \in Requests \ {r} : item[q].lane # item[r].lane
  BY <1>2 DEF IInv, Ties, LanesAreOwned, Serves
<1> QED BY <1>1, <1>2, <1>3, <1>4, <1>5, <1>6 DEF r

\* A step along the tie of the current request, from which the pump goes on.
LEMMA AlongStep ==
    ASSUME IInv, pump.at # "Idle", UNCHANGED <<domain, view>>,
           Shapes', Delivered', NEW p \in Points \ {"Next hop"}, GoOn(p),
           \A r \in Requests : /\ item'[r].phase = item[r].phase
                               /\ item'[r].lane = item[r].lane,
           \A l \in Lanes : /\ lane'[l].owner = lane[l].owner
                            /\ lane'[l].state = lane[l].state
    PROVE  IInv' /\ LanesMove
<1>1. Ties'
  BY DataKeepsTies DEF IInv
<1>2. LanesMove /\ NoneWakes
  BY DEF LanesMove, NoneWakes
<1>3. Turns' /\ pump'.at # "Next hop"
  BY ViewKept, PumpKept, PumpGoes DEF IInv, Turns
<1>4. DomainStands' /\ domain'.held = domain.held
  BY DomainKept DEF IInv
<1>5. Quiet'
  BY <1>2, <1>3, <1>4, QuietStays DEF IInv
<1> QED BY <1>1, <1>2, <1>3, <1>4, <1>5 DEF IInv

LEMMA AcceptHeadersStep ==
    ASSUME IInv, AcceptHeaders PROVE IInv' /\ LanesMove
<1> DEFINE r == Current
           l == item[r].lane
           it == [item[r] EXCEPT !.heads = lane[l].reply]
<1>1. /\ pump.at = "Headers" /\ UNCHANGED <<domain, view, lane>>
      /\ GoOn("Chunk") /\ Serves(l, r) /\ item[r].heads = "None"
      /\ item' = [item EXCEPT ![r] = it]
  BY DEF AcceptHeaders, At, HeadersReady
<1>2. /\ r \in Requests /\ l \in Lanes /\ Together(item[r], lane[l])
      /\ item[r] \in ItemShape /\ lane[l] \in LaneShape
  BY <1>1, ServedFromOwn DEF IInv, Shapes
<1>3. l # Nobody
  BY <1>1 DEF Serves
<1>4. item[r].got = 0
  BY <1>1, <1>2 DEF IInv, Ties, Delivered
<1> HIDE DEF r, l
<1>5. /\ it \in ItemShape /\ it.phase = item[r].phase
      /\ it.lane = item[r].lane /\ it.got = item[r].got
      /\ it.heads = lane[l].reply
  BY <1>2 DEF ItemShape, LaneShape
<1>6. Together(it, lane[l])
  BY <1>2, <1>5 DEF Together
<1> HIDE DEF it
<1>7. item'[r] = it /\ \A q \in Requests \ {r} : item'[q] = item[q]
  BY <1>1, <1>2 DEF IInv, Shapes
<1>8. Shapes'
  BY <1>1, <1>2, <1>5 DEF IInv, Shapes
<1>9. it.lane = l
  BY <1>5 DEF l
<1>10. Delivered'
  <2>1. ASSUME NEW q \in Requests \ {r}
        PROVE  /\ item'[q] = item[q]
               /\ item[q].lane = Nobody => Fresh(item[q])
               /\ item[q].lane # Nobody => Together(item[q], lane[item[q].lane])
               /\ item[q].got # 0 => item[q].heads = "Final"
    BY <1>7 DEF IInv, Ties, Delivered
  <2> QED BY <1>1, <1>2, <1>3, <1>4, <1>5, <1>6, <1>7, <1>9, <2>1 DEF Delivered
<1>11. "Chunk" \in Points \ {"Next hop"}
  BY DEF Points
<1>12. \A q \in Requests : item'[q].phase = item[q].phase
                               /\ item'[q].lane = item[q].lane
  BY <1>5, <1>7
<1> QED BY <1>1, <1>8, <1>10, <1>11, <1>12, AlongStep

LEMMA DeliverHeadersStep ==
    ASSUME IInv, DeliverHeaders PROVE IInv' /\ LanesMove
<1>1. CASE AcceptHeaders
  BY <1>1, AcceptHeadersStep
<1>2. CASE At("Headers") /\ HeadersReady /\ Abort
  BY <1>2, AbortStep DEF At
<1>3. CASE /\ At("Headers") /\ GoOn("Chunk") /\ UNCHANGED <<item, view, lane>>
  <2>1. "Chunk" \in Points \ {"Next hop"}
    BY DEF Points
  <2> QED BY <1>3, <2>1, MoveOnStep DEF At
<1> QED BY <1>1, <1>2, <1>3 DEF DeliverHeaders

\* A chunk that is handed on counts once, on the other side.
LEMMA ChunkMoves ==
    ASSUME NEW got \in Nat, NEW chunk \in Nat
    PROVE  got + chunk \in Nat /\ (got + chunk) + 0 = got + chunk
OBVIOUS

LEMMA AcceptChunkStep ==
    ASSUME IInv, AcceptChunk PROVE IInv' /\ LanesMove
<1> DEFINE r == Current
           l == item[r].lane
           n == item[r].got + lane[l].chunk
           it == [item[r] EXCEPT !.got = n]
           la == [lane[l] EXCEPT !.chunk = 0]
<1>1. /\ pump.at = "Chunk" /\ UNCHANGED <<domain, view>>
      /\ GoOn("End") /\ Serves(l, r) /\ item[r].heads = "Final"
      /\ item' = [item EXCEPT ![r] = it]
      /\ lane' = [lane EXCEPT ![l] = la]
  BY DEF AcceptChunk, At, ChunkReady
<1>2. /\ r \in Requests /\ l \in Lanes /\ Together(item[r], lane[l])
      /\ item[r] \in ItemShape /\ lane[l] \in LaneShape
      /\ \A q \in Requests \ {r} : item[q].lane # l
  BY <1>1, ServedFromOwn DEF IInv, Shapes
<1>3. l # Nobody
  BY <1>1 DEF Serves
<1> HIDE DEF r, l
<1>4. n \in Nat /\ n + 0 = n /\ n = lane[l].total
  BY <1>2, ChunkMoves DEF ItemShape, LaneShape, Together
<1> HIDE DEF n
<1>5. /\ it \in ItemShape /\ it.phase = item[r].phase
      /\ it.lane = item[r].lane /\ it.got = n /\ it.heads = item[r].heads
  BY <1>2, <1>4 DEF ItemShape
<1>6. /\ la \in LaneShape /\ la.owner = lane[l].owner
      /\ la.state = lane[l].state /\ la.reply = lane[l].reply
      /\ la.chunk = 0 /\ la.total = lane[l].total
  BY <1>2 DEF LaneShape
<1> HIDE DEF it, la
<1>7. Together(it, la)
  BY <1>2, <1>4, <1>5, <1>6 DEF Together
<1>8. /\ item'[r] = it /\ \A q \in Requests \ {r} : item'[q] = item[q]
      /\ lane'[l] = la /\ \A k \in Lanes \ {l} : lane'[k] = lane[k]
  BY <1>1, <1>2 DEF IInv, Shapes
<1>9. Shapes'
  BY <1>1, <1>2, <1>5, <1>6 DEF IInv, Shapes
<1>10. it.lane = l
  BY <1>5 DEF l
<1>11. Delivered'
  <2>1. ASSUME NEW q \in Requests \ {r}
        PROVE  /\ item'[q] = item[q]
               /\ item[q].lane = Nobody => Fresh(item[q])
               /\ item[q].lane # Nobody
                      => Together(item[q], lane'[item[q].lane])
               /\ item[q].got # 0 => item[q].heads = "Final"
    BY <1>2, <1>8 DEF IInv, Ties, Delivered, Shapes, ItemShape
  <2> QED BY <1>1, <1>2, <1>3, <1>5, <1>7, <1>8, <1>10, <2>1 DEF Delivered
<1>12. "End" \in Points \ {"Next hop"}
  BY DEF Points
<1>13. \A q \in Requests : item'[q].phase = item[q].phase
                               /\ item'[q].lane = item[q].lane
  BY <1>5, <1>8
<1>14. \A k \in Lanes : lane'[k].owner = lane[k].owner
                            /\ lane'[k].state = lane[k].state
  BY <1>6, <1>8
<1> QED BY <1>1, <1>9, <1>11, <1>12, <1>13, <1>14, AlongStep

LEMMA DeliverChunkStep ==
    ASSUME IInv, DeliverChunk PROVE IInv' /\ LanesMove
<1>1. CASE AcceptChunk
  BY <1>1, AcceptChunkStep
<1>2. CASE At("Chunk") /\ ChunkReady /\ Abort
  BY <1>2, AbortStep DEF At
<1>3. CASE /\ At("Chunk") /\ GoOn("End") /\ UNCHANGED <<item, view, lane>>
  <2>1. "End" \in Points \ {"Next hop"}
    BY DEF Points
  <2> QED BY <1>3, <2>1, MoveOnStep DEF At
<1> QED BY <1>1, <1>2, <1>3 DEF DeliverChunk

-----------------------------------------------------------------------------
\* The end of a hop.

LEMMA RedirectsCount ==
    ASSUME NEW it \in ItemShape PROVE it.redirects + 1 \in Nat
<1>1. it.redirects \in Nat
  BY DEF ItemShape
<1> QED BY <1>1

\* A redirect that is followed: its lane is free again, and as no byte of its
\* body was delivered the request is as fresh as a new one.
LEMMA NextHopStep ==
    ASSUME IInv, pump.at = "End", UNCHANGED <<domain, view>>, HopEnded,
           item[Current].heads = "Redirect",
           item' = [item EXCEPT ![Current].lane = Nobody,
                                ![Current].heads = "None",
                                ![Current].redirects = @ + 1],
           lane' = Rest, GoOn("Next hop")
    PROVE  IInv' /\ LanesMove
<1> DEFINE r == Current
           l == item[r].lane
<1>1. Serves(l, r)
  BY DEF HopEnded
<1>2. /\ r \in Requests /\ l \in Lanes /\ lane[l].owner = r
      /\ item[r] \in ItemShape /\ item[r].phase = "Active"
  BY <1>1, ServedFromOwn DEF IInv, Shapes
<1>3. lane' = [lane EXCEPT ![l] = EmptyLane]
  BY DEF Rest
<1>4. item[r].got = 0
  BY <1>2 DEF IInv, Ties, Delivered
<1>5. item[r].redirects + 1 \in Nat
  BY <1>2, RedirectsCount
<1>6. PICK n \in Nat : item' = [item EXCEPT ![r].lane = Nobody,
                                            ![r].heads = "None",
                                            ![r].redirects = n]
  BY <1>5
<1> DEFINE it == [item[r] EXCEPT !.lane = Nobody, !.heads = "None",
                                 !.redirects = n]
<1> HIDE DEF r, l
<1>7. item'[r] = it
  BY <1>2, <1>6 DEF IInv, Shapes
<1>8. /\ it \in ItemShape /\ it.lane = Nobody
       /\ it.heads = "None" /\ it.got = item[r].got
       /\ it.phase = item[r].phase
  BY <1>2 DEF ItemShape, Heads
<1> HIDE DEF it
<1>9. /\ item'[r] \in ItemShape /\ item'[r].lane = Nobody
      /\ item'[r].heads = "None" /\ item'[r].got = 0
      /\ item'[r].phase = "Active"
  BY <1>2, <1>4, <1>7, <1>8
<1>10. \A q \in Requests \ {r} : item'[q] = item[q]
  BY <1>2, <1>6 DEF IInv, Shapes
<1>11. Shapes'
  <2>1. item' \in [Requests -> ItemShape]
    BY <1>2, <1>6, <1>9, <1>10 DEF IInv, Shapes
  <2> QED BY <1>2, <1>3, <2>1, EmptyShapes DEF IInv, Shapes
<1>12. ItemsPart({r})
  BY <1>9, <1>10 DEF ItemsPart, Fresh
<1>13. LanesGo({r}, Rest)
  <2>1. r # Nobody
    BY <1>2, NobodyAssumption
  <2>2. Rest[l] = EmptyLane
    BY <1>2, <1>3 DEF IInv, Shapes
  <2>3. ASSUME NEW k \in Lanes PROVE ~Holds(k, Rest[k], {r})
    BY <2>1, <2>2, EmptyFields DEF Holds, l
  <2> QED BY <2>3 DEF LanesGo
<1>14. Parts({r})
  BY <1>12, <1>13, ResultIsParting DEF IInv, r
<1>15. Ties' /\ LanesMove
  BY <1>2, <1>14, PartKeepsTies, PartIsMove DEF IInv
<1>16. "Next hop" \in Points
  BY DEF Points
<1>17. Turns'
  BY <1>16, ViewKept, PumpKept DEF IInv, Turns
<1>18. DomainStands' /\ domain'.held = domain.held
  BY DomainKept DEF IInv
<1>19. Current' = r
  BY <1>16, PumpGoes DEF Current, r, IInv, Turns
<1>20. NoneWakes
  BY <1>2, <1>10 DEF NoneWakes
<1>21. Active' \subseteq Active
  BY <1>20 DEF Active, NoneWakes
<1>22. Quiet'
  BY <1>9, <1>18, <1>19, <1>21 DEF Quiet, Waits, IInv
<1> QED BY <1>11, <1>15, <1>17, <1>18, <1>22 DEF IInv

LEMMA FollowRedirectStep ==
    ASSUME IInv, pump.at = "End", UNCHANGED domain, HopEnded,
           item[Current].heads = "Redirect", FollowRedirect(Current, Rest)
    PROVE  IInv' /\ LanesMove
<1>1. /\ FALSE \in BOOLEAN /\ TRUE \in BOOLEAN
      /\ {"None", "Opaque"} \subseteq Replies
  BY DEF Replies
<1>2. CASE MarkComplete({Current}, TRUE, "Opaque", Rest) /\ NextSlot(1)
  BY <1>1, <1>2, FinishStep
<1>3. CASE MarkComplete({Current}, FALSE, "None", Rest) /\ NextSlot(1)
  BY <1>1, <1>3, FinishStep
<1>4. CASE /\ item' = [item EXCEPT ![Current].lane = Nobody,
                                   ![Current].heads = "None",
                                   ![Current].redirects = @ + 1]
           /\ lane' = Rest /\ GoOn("Next hop") /\ UNCHANGED view
  BY <1>4, NextHopStep
<1> QED BY <1>2, <1>3, <1>4 DEF FollowRedirect

LEMMA FinishHopStep ==
    ASSUME IInv, FinishHop PROVE IInv' /\ LanesMove
<1>1. /\ pump.at = "End" /\ UNCHANGED domain
  BY DEF FinishHop, At
<1>2. CASE NextSlot(0) /\ UNCHANGED <<item, view, lane>>
  BY <1>1, <1>2, MoveOnStep
<1>3. CASE /\ HopEnded /\ NextSlot(1)
           /\ MarkComplete({Current}, FALSE, "None", Rest)
  <2>1. FALSE \in BOOLEAN /\ "None" \in Replies
    BY DEF Replies
  <2> QED BY <1>1, <1>3, <2>1, FinishStep
<1>4. CASE /\ HopEnded /\ item[Current].heads = "Redirect"
           /\ FollowRedirect(Current, Rest)
  BY <1>1, <1>4, FollowRedirectStep
<1>5. CASE /\ HopEnded /\ NextSlot(1)
           /\ MarkComplete({Current}, TRUE, lane[item[Current].lane].reply,
                           Rest)
  <2>1. item[Current].lane \in Lanes
    BY <1>1, <1>5, ServedFromOwn DEF HopEnded
  <2>2. lane[item[Current].lane].reply \in Replies /\ TRUE \in BOOLEAN
    BY <2>1 DEF IInv, Shapes, LaneShape, Heads, Replies
  <2> QED BY <1>1, <1>5, <2>2, FinishStep
<1> QED BY <1>2, <1>3, <1>4, <1>5 DEF FinishHop

LEMMA StartNextHopStep ==
    ASSUME IInv, StartNextHop PROVE IInv' /\ LanesMove
<1>1. CASE At("Next hop") /\ Abort
  BY <1>1, AbortStep DEF At
<1>2. CASE /\ At("Next hop") /\ StartHop(Current, item[Current], lane)
           /\ NextSlot(0) /\ UNCHANGED view
  BY <1>2, WaiterStep DEF At, IInv, Quiet
<1> QED BY <1>1, <1>2 DEF StartNextHop

LEMMA PumpStepStep ==
    ASSUME IInv, PumpStep PROVE IInv' /\ LanesMove
BY EndPumpStep, VisitStep, DeliverHeadersStep, DeliverChunkStep, FinishHopStep,
   StartNextHopStep DEF PumpStep
-----------------------------------------------------------------------------
\* The transport worker, the other users of lanes and the clock.

\* A lane moves on by itself, and the page sees nothing of it yet.
LEMMA LaneStep ==
    ASSUME IInv, NEW l \in Lanes, OnLane(l), NEW la \in LaneShape,
           Becomes(l, la), la.owner = lane[l].owner,
           la.state \in InUse <=> lane[l].state \in InUse,
           la.state = lane[l].state \/ <<lane[l].state, la.state>> \in Moves,
           \A r \in Requests : item[r].lane = l => Together(item[r], la)
    PROVE  IInv' /\ LanesMove
<1>1. UNCHANGED <<item, view, domain, pump>>
  BY DEF OnLane
<1>2. Shapes' /\ Ties'
  BY <1>1, LaneKeepsTies DEF IInv
<1>3. LanesMove
  BY DEF LanesMove, Becomes, IInv, Shapes
<1>4. Turns' /\ DomainStands' /\ Quiet'
  BY <1>1 DEF IInv, Turns, ViewsStand, PumpStands, DomainStands, Quiet, Active,
              Waits, Current
<1> QED BY <1>2, <1>3, <1>4 DEF IInv

\* What the current hop of its request knows of a lane.
LEMMA ServedTogether ==
    ASSUME IInv, NEW l \in Lanes, NEW r \in Requests, item[r].lane = l
    PROVE  Together(item[r], lane[l]) /\ item[r].got \in Nat
               /\ lane[l].owner = r
BY NobodyAssumption DEF IInv, Ties, Delivered, LanesAreOwned, Serves, Shapes,
                        ItemShape

LEMMA StartTransferStep ==
    ASSUME IInv, NEW l \in Lanes, StartTransfer(l) PROVE IInv' /\ LanesMove
<1> DEFINE la == [lane[l] EXCEPT !.state = "Running"]
<1>1. OnLane(l) /\ Becomes(l, la) /\ lane[l].state = "Queued"
  BY DEF StartTransfer
<1>2. lane[l] \in LaneShape
  BY DEF IInv, Shapes
<1>3. /\ la \in LaneShape /\ la.state = "Running" /\ la.owner = lane[l].owner
      /\ la.reply = lane[l].reply /\ la.chunk = lane[l].chunk
      /\ la.total = lane[l].total
  BY <1>2 DEF LaneShape, LaneStates
<1> HIDE DEF la
<1>4. \A r \in Requests : item[r].lane = l => Together(item[r], la)
  BY <1>3, ServedTogether DEF Together
<1>5. /\ la.state \in InUse <=> lane[l].state \in InUse
      /\ <<lane[l].state, la.state>> \in Moves
  BY <1>1, <1>3 DEF InUse, Moves
<1> QED BY <1>1, <1>3, <1>4, <1>5, LaneStep

LEMMA ReceiveHeadersStep ==
    ASSUME IInv, NEW l \in Lanes, ReceiveHeaders(l) PROVE IInv' /\ LanesMove
<1>1. PICK reply \in {"Final", "Redirect"} :
          Becomes(l, [lane[l] EXCEPT !.reply = reply])
  BY DEF ReceiveHeaders
<1> DEFINE la == [lane[l] EXCEPT !.reply = reply]
<1>2. OnLane(l) /\ lane[l].state = "Running" /\ lane[l].reply = "None"
  BY DEF ReceiveHeaders
<1>3. lane[l] \in LaneShape
  BY DEF IInv, Shapes
<1>4. /\ la \in LaneShape /\ la.state = lane[l].state
      /\ la.owner = lane[l].owner /\ la.chunk = lane[l].chunk
      /\ la.total = lane[l].total
  BY <1>3 DEF LaneShape, Heads
<1> HIDE DEF la
<1>5. \A r \in Requests : item[r].lane = l => Together(item[r], la)
  BY <1>2, <1>4, ServedTogether DEF Together
<1>6. Becomes(l, la)
  BY <1>1 DEF la
<1> QED BY <1>2, <1>4, <1>5, <1>6, LaneStep

\* A byte received is a byte in the chunk.
LEMMA ByteReceived ==
    ASSUME NEW got \in Nat, NEW total \in Nat, got + 0 = total
    PROVE  got + 1 = total + 1 /\ total + 1 \in Nat
OBVIOUS

LEMMA ReceiveBodyStep ==
    ASSUME IInv, NEW l \in Lanes, ReceiveBody(l) PROVE IInv' /\ LanesMove
<1> DEFINE n == lane[l].total + 1
           la == [lane[l] EXCEPT !.chunk = 1, !.total = n]
<1>1. /\ OnLane(l) /\ Becomes(l, la) /\ lane[l].state = "Running"
      /\ lane[l].chunk = 0
  BY DEF ReceiveBody
<1>2. lane[l] \in LaneShape /\ lane[l].total \in Nat
  BY DEF IInv, Shapes, LaneShape
<1>3. n \in Nat
  BY <1>2
<1>4. \A r \in Requests : item[r].lane = l => item[r].got + 1 = n
  BY <1>1, <1>2, ServedTogether, ByteReceived DEF Together
<1> HIDE DEF n
<1>5. /\ la \in LaneShape /\ la.state = lane[l].state
      /\ la.owner = lane[l].owner /\ la.chunk = 1 /\ la.total = n
      /\ la.reply = lane[l].reply
  BY <1>2, <1>3 DEF LaneShape
<1> HIDE DEF la
<1>6. \A r \in Requests : item[r].lane = l => Together(item[r], la)
  BY <1>1, <1>4, <1>5, ServedTogether DEF Together
<1> QED BY <1>1, <1>5, <1>6, LaneStep

LEMMA EndTransferStep ==
    ASSUME IInv, NEW l \in Lanes, EndTransfer(l) PROVE IInv' /\ LanesMove
<1>1. PICK ok \in BOOLEAN :
          Becomes(l, [lane[l] EXCEPT !.state = "Complete", !.ok = ok])
  BY DEF EndTransfer
<1> DEFINE la == [lane[l] EXCEPT !.state = "Complete", !.ok = ok]
<1>2. OnLane(l) /\ lane[l].state = "Running" /\ lane[l].chunk = 0
  BY DEF EndTransfer
<1>3. lane[l] \in LaneShape
  BY DEF IInv, Shapes
<1>4. /\ la \in LaneShape /\ la.state = "Complete"
      /\ la.owner = lane[l].owner /\ la.chunk = lane[l].chunk
      /\ la.total = lane[l].total /\ la.reply = lane[l].reply
  BY <1>3 DEF LaneShape, LaneStates
<1> HIDE DEF la
<1>5. \A r \in Requests : item[r].lane = l => Together(item[r], la)
  BY <1>2, <1>4, ServedTogether DEF Together
<1>6. Becomes(l, la)
  BY <1>1 DEF la
<1>7. /\ la.state \in InUse <=> lane[l].state \in InUse
      /\ <<lane[l].state, la.state>> \in Moves
  BY <1>2, <1>4 DEF InUse, Moves
<1> QED BY <1>2, <1>4, <1>5, <1>6, <1>7, LaneStep

\* A lane that serves no request.
LEMMA UnownedStep ==
    ASSUME IInv, NEW l \in Lanes, OnLane(l), NEW la \in LaneShape,
           Becomes(l, la), lane[l].state \notin InUse, la.owner = Nobody,
           la.state \notin InUse, <<lane[l].state, la.state>> \in Moves
    PROVE  IInv' /\ LanesMove
<1>1. lane[l].owner = Nobody
  BY DEF IInv, Ties, UsedIsOwned
<1>2. \A r \in Requests : item[r].lane # l
  BY <1>1, ServedTogether, NobodyAssumption
<1> QED BY <1>1, <1>2, LaneStep

LEMMA RetireStep ==
    ASSUME IInv, NEW l \in Lanes, RetireTransfer(l) \/ OthersLeave(l)
    PROVE  IInv' /\ LanesMove
<1>1. /\ OnLane(l) /\ Becomes(l, EmptyLane)
      /\ lane[l].state \in {"Cancelling", "Other"}
  BY DEF RetireTransfer, OthersLeave
<1>2. /\ lane[l].state \notin InUse /\ EmptyLane.state \notin InUse
      /\ <<lane[l].state, EmptyLane.state>> \in Moves
  BY <1>1, EmptyFields DEF InUse, Moves
<1> QED BY <1>1, <1>2, EmptyShapes, EmptyFields, UnownedStep

LEMMA OthersTakeStep ==
    ASSUME IInv, NEW l \in Lanes, OthersTake(l) PROVE IInv' /\ LanesMove
<1> DEFINE la == [EmptyLane EXCEPT !.state = "Other"]
<1>1. OnLane(l) /\ Becomes(l, la) /\ lane[l].state = "Free"
  BY DEF OthersTake
<1>2. la \in LaneShape /\ la.state = "Other" /\ la.owner = Nobody
  BY DEF EmptyLane, LaneShape, LaneStates, Heads
<1> HIDE DEF la
<1>3. /\ lane[l].state \notin InUse /\ la.state \notin InUse
      /\ <<lane[l].state, la.state>> \in Moves
  BY <1>1, <1>2 DEF InUse, Moves
<1> QED BY <1>1, <1>2, <1>3, UnownedStep

LEMMA DeadlineStep ==
    ASSUME IInv, NEW r \in Requests, Deadline(r) PROVE IInv' /\ LanesMove
<1> DEFINE it == [item[r] EXCEPT !.late = TRUE]
<1>1. item' = [item EXCEPT ![r] = it] /\ UNCHANGED <<view, domain, lane, pump>>
  BY DEF Deadline
<1>2. /\ it \in ItemShape /\ it.phase = item[r].phase
      /\ it.lane = item[r].lane /\ it.heads = item[r].heads
      /\ it.got = item[r].got
  BY DEF IInv, Shapes, ItemShape
<1> HIDE DEF it
<1>3. Shapes'
  BY <1>1, <1>2 DEF IInv, Shapes
<1>4. \A q \in Requests : /\ item'[q].phase = item[q].phase
                          /\ item'[q].lane = item[q].lane
                          /\ item'[q].heads = item[q].heads
                          /\ item'[q].got = item[q].got
  BY <1>1, <1>2 DEF IInv, Shapes
<1>5. Delivered'
  BY <1>1, <1>4 DEF IInv, Ties, Delivered, Together, Fresh
<1>6. Ties'
  BY <1>1, <1>4, <1>5, DataKeepsTies DEF IInv
<1>7. Turns' /\ DomainStands'
  BY <1>1 DEF IInv, Turns, ViewsStand, PumpStands, DomainStands
<1>8. Quiet'
  <2>1. Active' = Active /\ Current' = Current
    BY <1>1, <1>4 DEF Active, Current
  <2>2. pump.at = "Next hop" => Current \in Requests
    BY CurrentIsRequest DEF IInv
  <2> QED BY <1>1, <1>4, <2>1, <2>2 DEF IInv, Quiet, Waits
<1> QED BY <1>1, <1>3, <1>6, <1>7, <1>8 DEF IInv, LanesMove
-----------------------------------------------------------------------------
LEMMA StartInv == Init => IInv
<1> SUFFICES ASSUME Init PROVE IInv
  OBVIOUS
<1>1. /\ item = [r \in Requests |-> EmptyItem]
      /\ view = [v \in Views |-> EmptyView]
      /\ domain = [active |-> 0, held |-> FALSE]
      /\ lane = [l \in Lanes |-> EmptyLane] /\ pump = NoPump
  BY DEF Init
<1>2. Shapes
  BY <1>1, EmptyShapes DEF Shapes
<1>3. Turns /\ DomainStands
  BY <1>1 DEF Turns, ViewsStand, PumpStands, DomainStands, EmptyView, NoPump,
              PumpShape, Points
<1>4. \A r \in Requests : item[r] = EmptyItem
  BY <1>1
<1>5. \A l \in Lanes : lane[l] = EmptyLane
  BY <1>1
<1>6. EmptyItem.got = 0
  BY DEF EmptyItem
<1>7. Ties
  BY <1>4, <1>5, <1>6, EmptyFields
     DEF Ties, LanesAreOwned, UsedIsOwned, Delivered, InUse
<1>8. Quiet
  BY <1>1, <1>4, EmptyFields DEF Quiet, Active, NoPump
<1> QED BY <1>2, <1>3, <1>7, <1>8 DEF IInv

\* Every step of the page, of the transport and of the clock.
LEMMA NextStep == ASSUME IInv, Next PROVE IInv' /\ LanesMove
<1>1. CASE \E v \in Views : \E n \in Sizes : Enqueue(v, n)
  BY <1>1, EnqueueStep
<1>2. CASE \E v \in Views : Destroy(v) \/ BeginPump(v)
  BY <1>2, DestroyStep, BeginPumpStep
<1>3. CASE \E r \in Requests : Take(r) \/ CancelRequest(r) \/ Deadline(r)
  BY <1>3, TakeStep, CancelRequestStep, DeadlineStep
<1>4. CASE Hold \/ Release \/ PumpStep
  BY <1>4, HoldStep, ReleaseStep, PumpStepStep
<1>5. CASE \E l \in Lanes : Worker(l) \/ OthersTake(l) \/ OthersLeave(l)
  BY <1>5, StartTransferStep, ReceiveHeadersStep, ReceiveBodyStep,
     EndTransferStep, RetireStep, OthersTakeStep DEF Worker
<1> QED BY <1>1, <1>2, <1>3, <1>4, <1>5 DEF Next

LEMMA StutterStep == ASSUME IInv, UNCHANGED vars PROVE IInv' /\ LanesMove
<1>1. UNCHANGED <<item, view, domain, lane, pump>>
  BY DEF vars
<1> QED BY <1>1 DEF IInv, Shapes, Turns, ViewsStand, PumpStands, DomainStands,
        Ties, LanesAreOwned, Serves, UsedIsOwned, Delivered, Quiet, Active,
        Waits, Current, LanesMove

\* The invariant that carries the others.
THEOREM IInvHolds == Spec => []IInv
<1>1. IInv /\ [Next]_vars => IInv'
  BY NextStep, StutterStep
<1> QED BY <1>1, StartInv, PTL DEF Spec

\* A lane that works for the page belongs to one active request, which knows
\* it, through completions, redirects, cancellations and holds.
THEOREM LanesOwned == Spec => []LanesAreOwned
<1>1. IInv => LanesAreOwned
  BY DEF IInv, Ties
<1> QED BY <1>1, IInvHolds, PTL

\* When a hop is complete the consumer has every byte the worker counted.
THEOREM FinishedDelivered == Spec => []FinishedIsDelivered
<1>1. IInv => FinishedIsDelivered
  <2> SUFFICES ASSUME IInv, NEW r \in Requests, item[r].lane # Nobody,
                      lane[item[r].lane].state = "Complete"
               PROVE  /\ lane[item[r].lane].chunk = 0
                      /\ lane[item[r].lane].total = item[r].got
    BY DEF FinishedIsDelivered
  <2>1. item[r].lane \in Lanes
    BY DEF IInv, Shapes, ItemShape
  <2>2. Together(item[r], lane[item[r].lane]) /\ item[r].got \in Nat
    BY <2>1, ServedTogether
  <2> QED BY <2>2 DEF Together
<1> QED BY <1>1, IInvHolds, PTL

\* While a player holds the page no request is active and no lane works.
THEOREM HeldQuiet == Spec => []HeldIsQuiet
<1>1. IInv => HeldIsQuiet
  <2> SUFFICES ASSUME IInv, domain.held
               PROVE  /\ Active = {}
                      /\ \A l \in Lanes : lane[l].state \in
                             {"Free", "Cancelling", "Other"}
    BY DEF HeldIsQuiet
  <2>1. Active = {}
    BY DEF IInv, Quiet
  <2>2. ASSUME NEW l \in Lanes, lane[l].state \in InUse PROVE FALSE
    <3>1. lane[l].owner # Nobody /\ lane[l].owner \in Requests
      BY <2>2 DEF IInv, Ties, UsedIsOwned, Shapes, LaneShape
    <3>2. item[lane[l].owner].phase = "Active"
      BY <3>1 DEF IInv, Ties, LanesAreOwned
    <3> QED BY <2>1, <3>1, <3>2 DEF Active
  <2>3. \A l \in Lanes : lane[l].state \in LaneStates
    BY DEF IInv, Shapes, LaneShape
  <2> QED BY <2>1, <2>2, <2>3 DEF InUse, LaneStates
<1> QED BY <1>1, IInvHolds, PTL

\* What the page and the worker do to a lane is what a lease allows: it is
\* taken, started, finished and consumed in that order, and once given up it
\* only becomes free.
THEOREM LanesMoveAsLeases ==
    ASSUME Lanes # {} PROVE Spec => Lease!Init /\ [][Lease!Next]_Held
<1>1. ALane \in Lanes
  BY DEF ALane
<1>2. Init => Lease!Init
  BY <1>1 DEF Init, Lease!Init, Held, EmptyLane
<1>3. IInv /\ [Next]_vars => [Lease!Next]_Held
  <2> SUFFICES ASSUME IInv, [Next]_vars PROVE [Lease!Next]_Held
    OBVIOUS
  <2>1. LanesMove
    BY NextStep, StutterStep
  <2>2. \/ lane'[ALane].state = lane[ALane].state
        \/ <<lane[ALane].state, lane'[ALane].state>> \in Moves
    BY <1>1, <2>1 DEF LanesMove
  <2> QED BY <2>2 DEF Moves, Held, Lease!Next, Lease!Take, Lease!Start,
          Lease!Finish, Lease!Consume, Lease!Cancel, Lease!Retire, Lease!Move
<1> QED BY <1>2, <1>3, IInvHolds, PTL DEF Spec

\* What requests were given: nothing for an empty slot, and never more than
\* the pool has.
Used == {r \in Requests : item[r].phase # "Empty"}
Booked ==
    \A r \in Requests : /\ item[r].reserved \in 0 .. Pool
                        /\ item[r].phase = "Empty" => item[r].reserved = 0
Ledger == Booked /\ IsFiniteSet(Used) /\ LedgerIsExact

LEMMA SlotsAreFew ==
    ASSUME NEW v \in Views
    PROVE  IsFiniteSet(Of(v)) /\ Cardinality(Of(v)) = Capacity[v]
<1>1. Of(v) = {v} \X Slots(v)
  <2>1. ASSUME NEW r \in Of(v) PROVE r \in {v} \X Slots(v)
    <3>1. PICK w \in Views : r \in {w} \X Slots(w)
      BY DEF Of, Requests
    <3>2. w = v
      BY <3>1 DEF Of
    <3> QED BY <3>1, <3>2
  <2>2. ASSUME NEW r \in {v} \X Slots(v) PROVE r \in Of(v)
    BY DEF Of, Requests
  <2> QED BY <2>1, <2>2
<1>2. Capacity[v] \in Nat /\ Capacity[v] >= 1
  BY CapacityAssumption
<1>3. /\ IsFiniteSet(0 .. Capacity[v] - 1)
      /\ Cardinality(0 .. Capacity[v] - 1) = Capacity[v]
  BY <1>2, FS_Interval
<1>4. IsFiniteSet({v}) /\ Cardinality({v}) = 1
  BY FS_Singleton
<1>5. /\ IsFiniteSet({v} \X Slots(v))
      /\ Cardinality({v} \X Slots(v)) = 1 * Capacity[v]
  BY <1>3, <1>4, FS_Product DEF Slots
<1> QED BY <1>1, <1>2, <1>5

LEMMA UnitsAreFinite ==
    ASSUME NEW rs, IsFiniteSet(rs)
    PROVE  IsFiniteSet(Units(rs)) /\ Cardinality(Units(rs)) \in Nat
<1>1. Pool \in Nat
  BY LimitsAssumption
<1>2. IsFiniteSet(1 .. Pool)
  BY <1>1, FS_Interval
<1>3. IsFiniteSet(rs \X (1 .. Pool))
  BY <1>2, FS_Product
<1>4. Units(rs) \subseteq rs \X (1 .. Pool)
  BY DEF Units
<1> QED BY <1>3, <1>4, FS_Subset, FS_CardinalityType

\* The units of one request are as many as it has reserved.
LEMMA UnitsOfOne ==
    ASSUME NEW r, NEW n \in Nat
    PROVE  /\ IsFiniteSet({r} \X (1 .. n))
           /\ Cardinality({r} \X (1 .. n)) = n
<1>1. IsFiniteSet(1 .. n) /\ Cardinality(1 .. n) = n
  BY FS_Interval
<1>2. IsFiniteSet({r}) /\ Cardinality({r}) = 1
  BY FS_Singleton
<1> QED BY <1>1, <1>2, FS_Product

\* A set that grows by as many as are new, or shrinks by what it had.
LEMMA Grows ==
    ASSUME NEW S, NEW T, IsFiniteSet(S), IsFiniteSet(T), S \cap T = {}
    PROVE  /\ IsFiniteSet(S \cup T)
           /\ Cardinality(S \cup T) = Cardinality(S) + Cardinality(T)
<1>1. Cardinality(S \cap T) = 0
  BY FS_EmptySet
<1>2. Cardinality(S) \in Nat /\ Cardinality(T) \in Nat
  BY FS_CardinalityType
<1>3. /\ IsFiniteSet(S \cup T)
      /\ Cardinality(S \cup T)
             = Cardinality(S) + Cardinality(T) - Cardinality(S \cap T)
  BY FS_Union
<1> QED BY <1>1, <1>2, <1>3

LEMMA Shrinks ==
    ASSUME NEW S, NEW T \in SUBSET S, IsFiniteSet(S)
    PROVE  /\ IsFiniteSet(S \ T) /\ IsFiniteSet(T)
           /\ Cardinality(S \ T) = Cardinality(S) - Cardinality(T)
           /\ Cardinality(T) <= Cardinality(S)
<1>1. S \cap T = T
  OBVIOUS
<1> QED BY <1>1, FS_Difference, FS_Subset

\* The views after requests ended.
LEMMA SettledSums ==
    ASSUME Turns, NEW rs, NEW kept, view' = Settled(rs, kept), NEW v \in Views
    PROVE  /\ view'[v].pending = view[v].pending - Cardinality(rs \cap Of(v))
           /\ view'[v].reserved = view[v].reserved
                  - Cardinality(Unused(rs \cap Of(v), kept))
<1> DEFINE p == view[v].pending - Cardinality(rs \cap Of(v))
           n == view[v].reserved - Cardinality(Unused(rs \cap Of(v), kept))
           e == [view[v] EXCEPT !.pending = p, !.reserved = n]
<1>1. view'[v] = e
  BY DEF Settled
<1>2. view[v] = [reserved |-> view[v].reserved, pending |-> view[v].pending,
                 cursor |-> view[v].cursor]
  BY DEF Turns, ViewsStand
<1> HIDE DEF p, n
<1>3. view'[v] = [reserved |-> n, pending |-> p, cursor |-> view[v].cursor]
  BY <1>1, <1>2, NewSums
<1> HIDE DEF e
<1> QED BY <1>3 DEF p, n

\* Nothing that the ledger counts has changed.
LEMMA StillBooked ==
    ASSUME Ledger,
           \A r \in Requests : /\ item'[r].phase = item[r].phase
                               /\ item'[r].reserved = item[r].reserved,
           domain'.active = domain.active,
           \A v \in Views : /\ view'[v].pending = view[v].pending
                            /\ view'[v].reserved = view[v].reserved
    PROVE  Ledger'
<1>1. Booked'
  BY DEF Ledger, Booked
<1>2. Used' = Used /\ Active' = Active
  BY DEF Used, Active
<1>3. ASSUME NEW v \in Views PROVE Units(Of(v))' = Units(Of(v))
  BY OfIsRequests DEF Units
<1>4. LedgerIsExact'
  BY <1>2, <1>3 DEF Ledger, LedgerIsExact, Used
<1> QED BY <1>1, <1>2, <1>4 DEF Ledger

\* Requests that end leave the count of active ones and give back what they do
\* not keep.
LEMMA EndBooks ==
    ASSUME Shapes, Turns, Ledger, NEW rs \in SUBSET Active,
           NEW ok \in BOOLEAN, NEW reply \in Replies, NEW ls,
           MarkComplete(rs, ok, reply, ls), domain'.active = domain.active
    PROVE  Ledger'
<1>1. PICK kept \in [rs -> 0 .. Pool] :
         /\ \A r \in rs : kept[r] \in Kept(item[r])
         /\ item' = [r \in Requests |->
                IF r \in rs THEN Ended(ok, reply, kept[r]) ELSE item[r]]
         /\ view' = Settled(rs, kept)
  BY DEF MarkComplete
<1>2. ASSUME NEW n
      PROVE  /\ Ended(ok, reply, n).phase = "Complete"
             /\ Ended(ok, reply, n).reserved = n
  BY DEF Ended, EmptyItem
<1>3. rs \subseteq Requests /\ Pool \in Nat
  BY LimitsAssumption DEF Active
<1>4. /\ \A r \in rs : item'[r].phase = "Complete" /\ item'[r].reserved = kept[r]
      /\ \A r \in Requests \ rs : item'[r] = item[r]
  BY <1>1, <1>2, <1>3
<1>5. \A r \in rs : kept[r] \in 0 .. Pool /\ kept[r] <= item[r].reserved
  <2> SUFFICES ASSUME NEW r \in rs
               PROVE  kept[r] \in 0 .. Pool /\ kept[r] <= item[r].reserved
    OBVIOUS
  <2>1. kept[r] \in 0 .. Pool /\ kept[r] \in Kept(item[r])
    BY <1>1
  <2>2. item[r].reserved \in Nat /\ item[r].got \in Nat
    BY <1>3 DEF Shapes, ItemShape
  <2> QED BY <2>1, <2>2 DEF Kept
<1>6. Booked'
  BY <1>4, <1>5 DEF Ledger, Booked
<1>7. Used' = Used
  BY <1>3, <1>4 DEF Used, Active
<1>8. Active' = Active \ rs
  BY <1>3, <1>4 DEF Active
<1>9. ASSUME NEW v \in Views
      PROVE  /\ view'[v].pending = Cardinality(Active' \cap Of(v))
             /\ view'[v].reserved = Cardinality(Units(Of(v))')
  <2> DEFINE gone == rs \cap Of(v)
  <2>1. IsFiniteSet(Of(v))
    BY SlotsAreFew
  <2>2. IsFiniteSet(Active \cap Of(v))
    BY <2>1, FS_Intersection
  <2>3. Active' \cap Of(v) = (Active \cap Of(v)) \ gone
    BY <1>8
  <2>4. gone \in SUBSET (Active \cap Of(v))
    OBVIOUS
  <2>5. Cardinality(Active' \cap Of(v))
            = Cardinality(Active \cap Of(v)) - Cardinality(gone)
    BY <2>2, <2>3, <2>4, Shrinks
  <2>6. IsFiniteSet(Units(Of(v)))
    BY <2>1, UnitsAreFinite
  <2>7. Unused(gone, kept) \in SUBSET Units(Of(v))
    BY DEF Unused, Units
  <2>8. Units(Of(v))' = Units(Of(v)) \ Unused(gone, kept)
    <3>1. ASSUME NEW r \in Of(v), NEW k \in 1 .. Pool
          PROVE  k <= item'[r].reserved <=>
                     k <= item[r].reserved /\ ~(r \in rs /\ k > kept[r])
      <4>1. CASE r \in rs
        <5>1. item'[r].reserved = kept[r]
          BY <1>4, <4>1
        <5>2. kept[r] \in Int /\ kept[r] <= item[r].reserved
          BY <1>5, <4>1
        <5>3. item[r].reserved \in Int
          BY <1>3, <4>1 DEF Ledger, Booked
        <5> QED BY <4>1, <5>1, <5>2, <5>3, <1>3
      <4>2. CASE r \notin rs
        BY <1>4, <4>2, OfIsRequests
      <4> QED BY <4>1, <4>2
    <3>2. Units(Of(v))' = {u \in Of(v) \X (1 .. Pool) :
                               u[2] <= item'[u[1]].reserved}
      BY DEF Units
    <3> QED BY <3>1, <3>2 DEF Units, Unused
  <2>9. Cardinality(Units(Of(v))')
            = Cardinality(Units(Of(v))) - Cardinality(Unused(gone, kept))
    BY <2>6, <2>7, <2>8, Shrinks
  <2>10. /\ view'[v].pending = view[v].pending - Cardinality(gone)
         /\ view'[v].reserved = view[v].reserved
                                    - Cardinality(Unused(gone, kept))
    BY <1>1, SettledSums
  <2> QED BY <2>5, <2>9, <2>10 DEF Ledger, LedgerIsExact
<1>10. LedgerIsExact'
  BY <1>7, <1>9 DEF Ledger, LedgerIsExact, Used
<1> QED BY <1>6, <1>7, <1>10 DEF Ledger
-----------------------------------------------------------------------------
\* A request admitted.
LEMMA EnqueueBooks ==
    ASSUME IInv, Ledger, NEW v \in Views, NEW n \in Sizes, Enqueue(v, n)
    PROVE  Ledger' /\ view'[v].reserved <= Pool /\ domain'.active <= DomainSlots
<1>1. n \in 1 .. Pool /\ Pool \in Nat /\ DomainSlots \in Nat
  BY LimitsAssumption
<1>2. PICK i \in Slots(v) :
         /\ item[<<v, i>>].phase = "Empty"
         /\ StartHop(<<v, i>>, [EmptyItem EXCEPT !.phase = "Active",
                                                 !.reserved = n], lane)
  BY DEF Enqueue
<1> DEFINE r == <<v, i>>
           it == [EmptyItem EXCEPT !.phase = "Active", !.reserved = n]
<1>3. r \in Requests /\ r \in Of(v)
  BY DEF Requests, Of
<1>4. \A w \in Views \ {v} : r \notin Of(w)
  BY DEF Of
<1>5. PICK l : item' = [item EXCEPT ![r] = [it EXCEPT !.lane = l]]
  BY <1>2 DEF StartHop
<1>6. [it EXCEPT !.lane = l].phase = "Active"
      /\ [it EXCEPT !.lane = l].reserved = n
  BY DEF EmptyItem
<1> DEFINE new == [it EXCEPT !.lane = l]
<1> HIDE DEF r, new
<1>7. /\ item'[r].phase = "Active" /\ item'[r].reserved = n
      /\ \A q \in Requests \ {r} : item'[q] = item[q]
  BY <1>3, <1>5, <1>6 DEF IInv, Shapes, new
<1>8. item[r].phase = "Empty" /\ item[r].reserved = 0
  BY <1>2, <1>3 DEF Ledger, Booked, r
<1>9. /\ view'[v].reserved = view[v].reserved + n
      /\ view'[v].pending = view[v].pending + 1
      /\ \A w \in Views \ {v} : view'[w] = view[w]
      /\ domain'.active = domain.active + 1
      /\ n <= Pool - view[v].reserved /\ domain.active < DomainSlots
  <2>1. view' = [view EXCEPT ![v].reserved = @ + n, ![v].pending = @ + 1]
    BY DEF Enqueue
  <2>2. view[v] = [reserved |-> view[v].reserved, pending |-> view[v].pending,
                   cursor |-> view[v].cursor] /\ v \in DOMAIN view
    BY DEF IInv, Turns, ViewsStand
  <2>3. domain' = [domain EXCEPT !.active = @ + 1]
        /\ domain = [active |-> domain.active, held |-> domain.held]
    BY DEF Enqueue, IInv, DomainStands
  <2>4. /\ domain.active \in Nat /\ view[v].reserved \in Nat
    BY SlotsAreFew, UnitsAreFinite, FS_CardinalityType
       DEF Ledger, LedgerIsExact, Used
  <2>5. n <= Pool - view[v].reserved /\ domain.active < DomainSlots
    BY <1>1, <2>4 DEF Enqueue, NoRoom
  <2>6. view'[v] = [reserved |-> view[v].reserved + n,
                    pending |-> view[v].pending + 1,
                    cursor |-> view[v].cursor]
    BY <2>1, <2>2
  <2>7. \A w \in Views \ {v} : view'[w] = view[w]
    BY <2>1 DEF IInv, Turns, ViewsStand
  <2>8. domain'.active = domain.active + 1
    BY <2>3
  <2> QED BY <2>5, <2>6, <2>7, <2>8
<1>10. Booked'
  BY <1>1, <1>7 DEF Ledger, Booked
<1>11. /\ IsFiniteSet(Used') /\ Cardinality(Used') = Cardinality(Used) + 1
  <2>1. Used' = Used \cup {r} /\ r \notin Used
    BY <1>3, <1>7, <1>8 DEF Used
  <2> QED BY <2>1, FS_AddElement DEF Ledger
<1>12. ASSUME NEW w \in Views \ {v}
       PROVE  /\ Active' \cap Of(w) = Active \cap Of(w)
              /\ Units(Of(w))' = Units(Of(w))
  <2>1. \A q \in Of(w) : item'[q] = item[q]
    BY <1>4, <1>7, OfIsRequests
  <2> QED BY <2>1 DEF Active, Units
<1>13. Cardinality(Active' \cap Of(v)) = Cardinality(Active \cap Of(v)) + 1
  <2>1. IsFiniteSet(Active \cap Of(v))
    BY SlotsAreFew, FS_Intersection
  <2>2. Active' \cap Of(v) = (Active \cap Of(v)) \cup {r}
    BY <1>3, <1>7 DEF Active
  <2>3. r \notin Active
    BY <1>8 DEF Active
  <2> QED BY <2>1, <2>2, <2>3, FS_AddElement
<1>14. Cardinality(Units(Of(v))') = Cardinality(Units(Of(v))) + n
  <2>1. IsFiniteSet(Units(Of(v)))
    BY SlotsAreFew, UnitsAreFinite
  <2>2. Units(Of(v))' = Units(Of(v)) \cup ({r} \X (1 .. n))
    <3>1. Units(Of(v))' = {u \in Of(v) \X (1 .. Pool) :
                               u[2] <= item'[u[1]].reserved}
      BY DEF Units
    <3>2. ASSUME NEW q \in Of(v), NEW k \in 1 .. Pool
          PROVE  k <= item'[q].reserved <=>
                     k <= item[q].reserved \/ (q = r /\ k \in 1 .. n)
      <4>1. CASE q = r
        BY <1>1, <1>7, <1>8, <4>1
      <4>2. CASE q # r
        BY <1>7, <4>2, OfIsRequests
      <4> QED BY <4>1, <4>2
    <3>3. {r} \X (1 .. n) \subseteq Of(v) \X (1 .. Pool)
      BY <1>1, <1>3
    <3> QED BY <3>1, <3>2, <3>3 DEF Units
  <2>3. Units(Of(v)) \cap ({r} \X (1 .. n)) = {}
    BY <1>1, <1>8 DEF Units
  <2>4. /\ IsFiniteSet({r} \X (1 .. n))
        /\ Cardinality({r} \X (1 .. n)) = n
    <3>1. n \in Nat
      BY <1>1
    <3> QED BY <3>1, UnitsOfOne
  <2> HIDE DEF r
  <2> QED BY <2>1, <2>2, <2>3, <2>4, Grows
<1>15. LedgerIsExact'
  <2>1. domain'.active = Cardinality(Used')
    BY <1>9, <1>11 DEF Ledger, LedgerIsExact, Used
  <2>2. ASSUME NEW w \in Views
        PROVE  /\ view'[w].pending = Cardinality(Active' \cap Of(w))
               /\ view'[w].reserved = Cardinality(Units(Of(w))')
    <3>1. CASE w = v
      BY <1>9, <1>13, <1>14, <3>1 DEF Ledger, LedgerIsExact
    <3>2. CASE w # v
      BY <1>9, <1>12, <3>2 DEF Ledger, LedgerIsExact
    <3> QED BY <3>1, <3>2
  <2> QED BY <2>1, <2>2 DEF LedgerIsExact, Used
<1>16. view'[v].reserved <= Pool /\ domain'.active <= DomainSlots
  <2>1. /\ domain.active \in Nat /\ view[v].reserved \in Nat
    BY SlotsAreFew, UnitsAreFinite, FS_CardinalityType
       DEF Ledger, LedgerIsExact, Used
  <2> QED BY <1>1, <1>9, <2>1
<1> QED BY <1>10, <1>11, <1>15, <1>16 DEF Ledger

\* A result taken.
LEMMA TakeBooks ==
    ASSUME IInv, Ledger, NEW r \in Requests, Take(r)
    PROVE  Ledger'
<1> DEFINE v == r[1]
           n == item[r].reserved
<1>1. v \in Views /\ r \in Of(v)
  BY DEF Requests, Of
<1>2. /\ item' = [item EXCEPT ![r] = EmptyItem]
      /\ view' = [view EXCEPT ![v].reserved = @ - n]
      /\ domain' = [domain EXCEPT !.active = @ - 1]
      /\ item[r].phase = "Complete"
  BY DEF Take
<1>3. n \in 0 .. Pool /\ Pool \in Nat
  BY LimitsAssumption DEF Ledger, Booked
<1>4. EmptyItem.phase = "Empty" /\ EmptyItem.reserved = 0
  BY DEF EmptyItem
<1>5. /\ item'[r].phase = "Empty" /\ item'[r].reserved = 0
      /\ \A q \in Requests \ {r} : item'[q] = item[q]
  BY <1>2, <1>4 DEF IInv, Shapes
<1>6. \A w \in Views \ {v} : r \notin Of(w)
  BY DEF Of
<1> HIDE DEF v
<1>7. /\ view'[v].reserved = view[v].reserved - n
      /\ view'[v].pending = view[v].pending
      /\ \A w \in Views \ {v} : view'[w] = view[w]
      /\ domain'.active = domain.active - 1
  <2>1. view[v] = [reserved |-> view[v].reserved, pending |-> view[v].pending,
                   cursor |-> view[v].cursor] /\ v \in DOMAIN view
    BY <1>1 DEF IInv, Turns, ViewsStand
  <2>2. domain = [active |-> domain.active, held |-> domain.held]
    BY DEF IInv, DomainStands
  <2> HIDE DEF n
  <2> QED BY <1>2, <2>1, <2>2
<1>8. Booked'
  BY <1>3, <1>5 DEF Ledger, Booked
<1>9. /\ IsFiniteSet(Used') /\ Cardinality(Used') = Cardinality(Used) - 1
  <2>1. Used' = Used \ {r} /\ r \in Used
    BY <1>2, <1>5 DEF Used
  <2> QED BY <2>1, FS_RemoveElement DEF Ledger
<1>10. Active' = Active
  BY <1>2, <1>5 DEF Active
<1>11. ASSUME NEW w \in Views \ {v} PROVE Units(Of(w))' = Units(Of(w))
  <2>1. \A q \in Of(w) : item'[q] = item[q]
    BY <1>5, <1>6, OfIsRequests
  <2> QED BY <2>1 DEF Units
<1>12. Cardinality(Units(Of(v))') = Cardinality(Units(Of(v))) - n
  <2>1. IsFiniteSet(Units(Of(v)))
    BY <1>1, SlotsAreFew, UnitsAreFinite
  <2>2. Units(Of(v))' = Units(Of(v)) \ ({r} \X (1 .. n))
    <3>1. Units(Of(v))' = {u \in Of(v) \X (1 .. Pool) :
                               u[2] <= item'[u[1]].reserved}
      BY DEF Units
    <3>2. ASSUME NEW q \in Of(v), NEW k \in 1 .. Pool
          PROVE  k <= item'[q].reserved <=>
                     k <= item[q].reserved /\ ~(q = r /\ k \in 1 .. n)
      <4>1. CASE q = r
        BY <1>3, <1>5, <4>1
      <4>2. CASE q # r
        BY <1>1, <1>5, <4>2, OfIsRequests
      <4> QED BY <4>1, <4>2
    <3> QED BY <3>1, <3>2 DEF Units
  <2>3. {r} \X (1 .. n) \in SUBSET Units(Of(v))
    BY <1>1, <1>3 DEF Units
  <2>4. Cardinality({r} \X (1 .. n)) = n
    <3>1. n \in Nat
      BY <1>3
    <3> HIDE DEF n
    <3> QED BY <3>1, UnitsOfOne
  <2> QED BY <2>1, <2>2, <2>3, <2>4, Shrinks
<1>13. LedgerIsExact'
  <2>1. domain'.active = Cardinality(Used')
    BY <1>7, <1>9 DEF Ledger, LedgerIsExact, Used
  <2>2. ASSUME NEW w \in Views
        PROVE  /\ view'[w].pending = Cardinality(Active' \cap Of(w))
               /\ view'[w].reserved = Cardinality(Units(Of(w))')
    <3>1. CASE w = v
      BY <1>7, <1>10, <1>12, <3>1 DEF Ledger, LedgerIsExact
    <3>2. CASE w # v
      BY <1>7, <1>10, <1>11, <3>2 DEF Ledger, LedgerIsExact
    <3> QED BY <3>1, <3>2
  <2> QED BY <2>1, <2>2 DEF LedgerIsExact, Used
<1> QED BY <1>8, <1>9, <1>13 DEF Ledger

\* A view destroyed.
LEMMA DestroyBooks ==
    ASSUME IInv, Ledger, NEW v \in Views, Destroy(v)
    PROVE  Ledger'
<1> DEFINE n == Cardinality({r \in Of(v) : item[r].phase # "Empty"})
<1>1. /\ item' = [r \in Requests |-> IF r \in Of(v) THEN EmptyItem ELSE item[r]]
      /\ view' = [view EXCEPT ![v] = EmptyView]
      /\ domain' = [domain EXCEPT !.active = @ - n]
  BY DEF Destroy
<1>2. EmptyItem.phase = "Empty" /\ EmptyItem.reserved = 0
      /\ EmptyView.pending = 0 /\ EmptyView.reserved = 0
  BY DEF EmptyItem, EmptyView
<1>3. /\ \A r \in Of(v) : item'[r].phase = "Empty" /\ item'[r].reserved = 0
      /\ \A r \in Requests \ Of(v) : item'[r] = item[r]
  BY <1>1, <1>2, OfIsRequests
<1>4. /\ view'[v] = EmptyView /\ \A w \in Views \ {v} : view'[w] = view[w]
      /\ domain'.active = domain.active - n
  <2>1. DOMAIN view = Views
    BY DEF IInv, Turns, ViewsStand
  <2>2. domain = [active |-> domain.active, held |-> domain.held]
    BY DEF IInv, DomainStands
  <2> HIDE DEF n
  <2> QED BY <1>1, <2>1, <2>2
<1>5. Booked'
  BY <1>3, LimitsAssumption DEF Ledger, Booked
<1>6. /\ IsFiniteSet(Used') /\ Cardinality(Used') = Cardinality(Used) - n
  <2> DEFINE gone == {r \in Of(v) : item[r].phase # "Empty"}
  <2>1. Used' = Used \ gone /\ gone \in SUBSET Used
    BY <1>3, OfIsRequests DEF Used
  <2> HIDE DEF gone
  <2>2. Cardinality(gone) = n
    BY DEF gone
  <2> QED BY <2>1, <2>2, Shrinks DEF Ledger
<1> HIDE DEF n
<1>7. ASSUME NEW w \in Views \ {v}
      PROVE  /\ Active' \cap Of(w) = Active \cap Of(w)
             /\ Units(Of(w))' = Units(Of(w))
  <2>1. \A q \in Of(w) : item'[q] = item[q]
    BY <1>3, OfIsRequests DEF Of
  <2> QED BY <2>1 DEF Active, Units, Of
<1>8. Active' \cap Of(v) = {} /\ Units(Of(v))' = {}
  BY <1>3 DEF Active, Units
<1>9. LedgerIsExact'
  <2>1. domain'.active = Cardinality(Used')
    BY <1>4, <1>6 DEF Ledger, LedgerIsExact, Used
  <2>2. ASSUME NEW w \in Views
        PROVE  /\ view'[w].pending = Cardinality(Active' \cap Of(w))
               /\ view'[w].reserved = Cardinality(Units(Of(w))')
    <3>1. CASE w = v
      BY <1>2, <1>4, <1>8, <3>1, FS_EmptySet
    <3>2. CASE w # v
      BY <1>4, <1>7, <3>2 DEF Ledger, LedgerIsExact
    <3> QED BY <3>1, <3>2
  <2> QED BY <2>1, <2>2 DEF LedgerIsExact, Used
<1> QED BY <1>5, <1>6, <1>9 DEF Ledger

-----------------------------------------------------------------------------
\* Steps that touch one request, or none, and nothing that is counted.
LEMMA TouchBooks ==
    ASSUME IInv, Ledger, UNCHANGED <<view, domain>>, NEW r \in Requests,
           NEW it, it.phase = item[r].phase, it.reserved = item[r].reserved,
           item' = [item EXCEPT ![r] = it]
    PROVE  Ledger'
<1>1. \A q \in Requests : /\ item'[q].phase = item[q].phase
                          /\ item'[q].reserved = item[q].reserved
  BY DEF IInv, Shapes
<1> QED BY <1>1, StillBooked

LEMMA RestBooks ==
    ASSUME Ledger, UNCHANGED <<item, view, domain>> PROVE Ledger'
BY StillBooked

LEMMA HopBooks ==
    ASSUME IInv, Ledger, UNCHANGED <<view, domain>>, NEW r \in Requests,
           StartHop(r, item[r], lane)
    PROVE  Ledger'
<1>1. PICK l : item' = [item EXCEPT ![r] = [item[r] EXCEPT !.lane = l]]
  BY DEF StartHop
<1>2. /\ [item[r] EXCEPT !.lane = l].phase = item[r].phase
      /\ [item[r] EXCEPT !.lane = l].reserved = item[r].reserved
  <2>1. item[r] \in ItemShape
    BY DEF IInv, Shapes
  <2> QED BY <2>1 DEF ItemShape
<1> QED BY <1>1, <1>2, TouchBooks

LEMMA CancelBooks ==
    ASSUME IInv, Ledger, NEW r \in Requests, CancelRequest(r) PROVE Ledger'
<1>1. MarkComplete({r}, FALSE, "None", lane) /\ UNCHANGED domain
      /\ {r} \in SUBSET Active
  BY DEF CancelRequest, Active
<1>2. "None" \in Replies /\ FALSE \in BOOLEAN
  BY DEF Replies
<1> QED BY <1>1, <1>2, EndBooks DEF IInv

LEMMA HoldBooks ==
    ASSUME IInv, Ledger, Hold PROVE Ledger'
<1>1. MarkComplete(Active, FALSE, "None", lane)
  BY DEF Hold
<1>2. "None" \in Replies /\ FALSE \in BOOLEAN /\ Active \in SUBSET Active
  BY DEF Replies
<1>3. domain'.active = domain.active
  BY DEF Hold, IInv, DomainStands
<1> QED BY <1>1, <1>2, <1>3, EndBooks DEF IInv

LEMMA ReleaseBooks ==
    ASSUME IInv, Ledger, Release PROVE Ledger'
<1>1. domain'.active = domain.active
  BY DEF Release, IInv, DomainStands
<1> QED BY <1>1, StillBooked DEF Release

LEMMA AbortBooks ==
    ASSUME IInv, Ledger, UNCHANGED domain, Current \in Active, Abort
    PROVE  Ledger'
<1>1. MarkComplete({Current}, FALSE, "None", lane)
  BY DEF Abort
<1>2. "None" \in Replies /\ FALSE \in BOOLEAN /\ {Current} \in SUBSET Active
  BY DEF Replies
<1> QED BY <1>1, <1>2, EndBooks DEF IInv

LEMMA EndPumpBooks ==
    ASSUME IInv, Ledger, EndPump PROVE Ledger'
<1> DEFINE c == (view[pump.view].cursor + 1) % Capacity[pump.view]
           w == [view[pump.view] EXCEPT !.cursor = c]
<1>1. /\ view' = [view EXCEPT ![pump.view] = w] /\ UNCHANGED <<item, domain>>
      /\ pump.view \in Views
  BY DEF EndPump, At, IInv, Turns, PumpStands
<1> HIDE DEF c
<1>2. w.reserved = view[pump.view].reserved
      /\ w.pending = view[pump.view].pending
  <2>1. view[pump.view] = [reserved |-> view[pump.view].reserved,
                           pending |-> view[pump.view].pending,
                           cursor |-> view[pump.view].cursor]
    BY <1>1 DEF IInv, Turns, ViewsStand
  <2> QED BY <2>1
<1> HIDE DEF w
<1>3. \A v \in Views : /\ view'[v].pending = view[v].pending
                       /\ view'[v].reserved = view[v].reserved
  BY <1>1, <1>2 DEF IInv, Turns, ViewsStand
<1> QED BY <1>1, <1>3, StillBooked

LEMMA VisitBooks ==
    ASSUME IInv, Ledger, Visit PROVE Ledger'
<1>1. Current \in Requests /\ UNCHANGED domain
  BY CurrentIsRequest DEF Visit, PassOver, HasLane, OutOfTime, AskForLane,
     Visiting, At, IInv
<1>2. CASE PassOver \/ HasLane
  BY <1>1, <1>2, RestBooks DEF PassOver, HasLane
<1>3. CASE OutOfTime
  BY <1>1, <1>3, AbortBooks DEF OutOfTime, Waits, Active
<1>4. CASE AskForLane
  BY <1>1, <1>4, HopBooks DEF AskForLane
<1> QED BY <1>2, <1>3, <1>4 DEF Visit

LEMMA DeliverHeadersBooks ==
    ASSUME IInv, Ledger, DeliverHeaders PROVE Ledger'
<1>1. pump.at = "Headers" /\ UNCHANGED domain
  BY DEF DeliverHeaders, AcceptHeaders, At
<1>2. HeadersReady => Current \in Active
  BY <1>1, ServedFromOwn DEF HeadersReady, Active
<1>3. CASE AcceptHeaders
  <2>1. Current \in Requests
    BY <1>1, CurrentIsRequest DEF IInv
  <2> DEFINE r == Current
             it == [item[r] EXCEPT !.heads = lane[item[r].lane].reply]
  <2>2. item' = [item EXCEPT ![r] = it] /\ UNCHANGED view
    BY <1>3 DEF AcceptHeaders
  <2> HIDE DEF r
  <2>3. item[r] \in ItemShape /\ r \in Requests
    BY <2>1 DEF IInv, Shapes, r
  <2>4. it.phase = item[r].phase /\ it.reserved = item[r].reserved
    BY <2>3 DEF ItemShape
  <2> HIDE DEF it
  <2> QED BY <1>1, <2>2, <2>3, <2>4, TouchBooks
<1>4. CASE HeadersReady /\ Abort
  BY <1>1, <1>2, <1>4, AbortBooks
<1>5. CASE UNCHANGED <<item, view, lane>>
  BY <1>1, <1>5, RestBooks
<1> QED BY <1>3, <1>4, <1>5 DEF DeliverHeaders

LEMMA DeliverChunkBooks ==
    ASSUME IInv, Ledger, DeliverChunk PROVE Ledger'
<1>1. pump.at = "Chunk" /\ UNCHANGED domain
  BY DEF DeliverChunk, AcceptChunk, At
<1>2. ChunkReady => Current \in Active
  BY <1>1, ServedFromOwn DEF ChunkReady, Active
<1>3. CASE AcceptChunk
  <2>1. Current \in Requests
    BY <1>1, CurrentIsRequest DEF IInv
  <2> DEFINE r == Current
             n == item[r].got + lane[item[r].lane].chunk
             it == [item[r] EXCEPT !.got = n]
  <2>2. item' = [item EXCEPT ![r] = it] /\ UNCHANGED view
    BY <1>3 DEF AcceptChunk
  <2> HIDE DEF r, n
  <2>3. item[r] \in ItemShape /\ r \in Requests
    BY <2>1 DEF IInv, Shapes, r
  <2>4. it.phase = item[r].phase /\ it.reserved = item[r].reserved
    BY <2>3 DEF ItemShape
  <2> HIDE DEF it
  <2> QED BY <1>1, <2>2, <2>3, <2>4, TouchBooks
<1>4. CASE ChunkReady /\ Abort
  BY <1>1, <1>2, <1>4, AbortBooks
<1>5. CASE UNCHANGED <<item, view, lane>>
  BY <1>1, <1>5, RestBooks
<1> QED BY <1>3, <1>4, <1>5 DEF DeliverChunk

\* The request that a hop ends for.
LEMMA FinishBooks ==
    ASSUME IInv, Ledger, pump.at = "End", UNCHANGED domain, HopEnded,
           NEW ok \in BOOLEAN, NEW reply \in Replies,
           MarkComplete({Current}, ok, reply, Rest)
    PROVE  Ledger'
<1>1. {Current} \in SUBSET Active
  BY ServedFromOwn DEF HopEnded, Active
<1> QED BY <1>1, EndBooks DEF IInv

LEMMA RedirectBooks ==
    ASSUME IInv, Ledger, pump.at = "End", UNCHANGED <<domain, view>>,
           item' = [item EXCEPT ![Current].lane = Nobody,
                                ![Current].heads = "None",
                                ![Current].redirects = @ + 1]
    PROVE  Ledger'
<1> DEFINE r == Current
           n == item[r].redirects + 1
           it == [item[r] EXCEPT !.lane = Nobody, !.heads = "None",
                                 !.redirects = n]
<1>1. r \in Requests /\ item[r] \in ItemShape
  BY CurrentIsRequest DEF IInv, Shapes
<1>2. item' = [item EXCEPT ![r] = it]
  BY <1>1 DEF IInv, Shapes
<1> HIDE DEF r, n
<1>3. it.phase = item[r].phase /\ it.reserved = item[r].reserved
  BY <1>1 DEF ItemShape
<1> HIDE DEF it
<1> QED BY <1>1, <1>2, <1>3, TouchBooks

LEMMA FinishHopBooks ==
    ASSUME IInv, Ledger, FinishHop PROVE Ledger'
<1>1. pump.at = "End" /\ UNCHANGED domain
  BY DEF FinishHop, At
<1>2. /\ FALSE \in BOOLEAN /\ TRUE \in BOOLEAN
      /\ {"None", "Opaque"} \subseteq Replies
  BY DEF Replies
<1>3. HopEnded => lane[item[Current].lane].reply \in Replies
  <2>1. HopEnded => item[Current].lane \in Lanes
    BY <1>1, ServedFromOwn DEF HopEnded
  <2> QED BY <2>1 DEF IInv, Shapes, LaneShape, Heads, Replies
<1>4. CASE UNCHANGED <<item, view, lane>>
  BY <1>1, <1>4, RestBooks
<1>5. CASE /\ HopEnded
           /\ \/ MarkComplete({Current}, FALSE, "None", Rest)
              \/ MarkComplete({Current}, TRUE, "Opaque", Rest)
              \/ MarkComplete({Current}, TRUE, lane[item[Current].lane].reply,
                              Rest)
  BY <1>1, <1>2, <1>3, <1>5, FinishBooks
<1>6. CASE /\ UNCHANGED view
           /\ item' = [item EXCEPT ![Current].lane = Nobody,
                                   ![Current].heads = "None",
                                   ![Current].redirects = @ + 1]
  BY <1>1, <1>6, RedirectBooks
<1> QED BY <1>4, <1>5, <1>6 DEF FinishHop, FollowRedirect

LEMMA StartNextHopBooks ==
    ASSUME IInv, Ledger, StartNextHop PROVE Ledger'
<1>1. pump.at = "Next hop" /\ UNCHANGED domain /\ Current \in Requests
  BY CurrentIsRequest DEF StartNextHop, At, IInv
<1>2. Current \in Active
  BY <1>1 DEF IInv, Quiet, Waits, Active
<1>3. CASE Abort
  BY <1>1, <1>2, <1>3, AbortBooks
<1>4. CASE StartHop(Current, item[Current], lane) /\ UNCHANGED view
  BY <1>1, <1>4, HopBooks
<1> QED BY <1>3, <1>4 DEF StartNextHop

LEMMA DeadlineBooks ==
    ASSUME IInv, Ledger, NEW r \in Requests, Deadline(r) PROVE Ledger'
<1> DEFINE it == [item[r] EXCEPT !.late = TRUE]
<1>1. item' = [item EXCEPT ![r] = it] /\ UNCHANGED <<view, domain>>
  BY DEF Deadline
<1>2. it.phase = item[r].phase /\ it.reserved = item[r].reserved
  BY DEF IInv, Shapes, ItemShape
<1> HIDE DEF it
<1> QED BY <1>1, <1>2, TouchBooks

LEMMA NextBooks == ASSUME IInv, Ledger, [Next]_vars PROVE Ledger'
<1>1. CASE \E v \in Views : \/ \E n \in Sizes : Enqueue(v, n)
                            \/ Destroy(v) \/ BeginPump(v)
  BY <1>1, EnqueueBooks, DestroyBooks, RestBooks DEF BeginPump, At
<1>2. CASE \E r \in Requests : Take(r) \/ CancelRequest(r) \/ Deadline(r)
  BY <1>2, TakeBooks, CancelBooks, DeadlineBooks
<1>3. CASE Hold \/ Release
  BY <1>3, HoldBooks, ReleaseBooks
<1>4. CASE PumpStep
  BY <1>4, EndPumpBooks, VisitBooks, DeliverHeadersBooks, DeliverChunkBooks,
     FinishHopBooks, StartNextHopBooks DEF PumpStep
<1>5. CASE \E l \in Lanes : Worker(l) \/ OthersTake(l) \/ OthersLeave(l)
  BY <1>5, RestBooks DEF Worker, StartTransfer, ReceiveHeaders, ReceiveBody,
     EndTransfer, RetireTransfer, OthersTake, OthersLeave, OnLane
<1>6. CASE UNCHANGED vars
  BY <1>6, RestBooks DEF vars
<1> QED BY <1>1, <1>2, <1>3, <1>4, <1>5, <1>6 DEF Next

LEMMA StartBooks == Init => Ledger
<1> SUFFICES ASSUME Init PROVE Ledger
  OBVIOUS
<1>1. /\ \A r \in Requests : item[r] = EmptyItem
      /\ \A v \in Views : view[v] = EmptyView
      /\ domain.active = 0
  BY DEF Init
<1>2. EmptyItem.phase = "Empty" /\ EmptyItem.reserved = 0
      /\ EmptyView.pending = 0 /\ EmptyView.reserved = 0
  BY DEF EmptyItem, EmptyView
<1>3. Booked
  BY <1>1, <1>2, LimitsAssumption DEF Booked
<1>4. Used = {} /\ Active = {}
  BY <1>1, <1>2 DEF Used, Active
<1>5. ASSUME NEW v \in Views PROVE Units(Of(v)) = {}
  BY <1>1, <1>2, OfIsRequests DEF Units
<1>6. Active = {} => \A v \in Views : Active \cap Of(v) = {}
  OBVIOUS
<1> QED BY <1>1, <1>2, <1>3, <1>4, <1>5, <1>6, FS_EmptySet
        DEF Ledger, LedgerIsExact, Used

\* The counters that admission reads are exact, for any number of views, slots
\* and requests and any pool, whatever completions, cancellations, holds and
\* destroyed views a page goes through.
THEOREM LedgerExact == Spec => []LedgerIsExact
<1>1. Ledger /\ IInv /\ [Next]_vars => Ledger'
  BY NextBooks
<1>2. Ledger => LedgerIsExact
  BY DEF Ledger
<1> QED BY <1>1, <1>2, StartBooks, IInvHolds, PTL DEF Spec

-----------------------------------------------------------------------------
\* The bounds of the types: what a request is given comes out of the pool, and
\* no more bytes arrive than that.
ItemBounds == \A r \in Requests : item[r].redirects <= MaxRedirects
LaneBounds == \A l \in Lanes : lane[l].chunk <= 1 /\ lane[l].total <= Pool
ViewBounds == \A v \in Views : /\ view[v].reserved <= Pool
                               /\ view[v].cursor \in Slots(v)
DomainBounds == domain.active <= DomainSlots /\ domain.held \in BOOLEAN
Bounds == ItemBounds /\ LaneBounds /\ ViewBounds /\ DomainBounds

LEMMA EmptyBounds ==
    /\ EmptyItem.redirects = 0
    /\ EmptyLane.chunk = 0 /\ EmptyLane.total = 0
    /\ LeavingLane.chunk = 0 /\ LeavingLane.total = 0
    /\ EmptyView.reserved = 0 /\ EmptyView.cursor = 0
BY DEF EmptyItem, EmptyLane, LeavingLane, EmptyView

\* What ends is bounded as nothing is.
LEMMA EndBounds ==
    ASSUME IInv, Ledger, Bounds, NEW rs \in SUBSET Requests,
           NEW ok \in BOOLEAN, NEW reply \in Replies,
           NEW ls \in [Lanes -> LaneShape],
           \A l \in Lanes : ls[l].chunk <= 1 /\ ls[l].total <= Pool,
           MarkComplete(rs, ok, reply, ls)
    PROVE  ItemBounds' /\ LaneBounds' /\ ViewBounds'
<1>1. PICK kept \in [rs -> 0 .. Pool] :
         /\ item' = [r \in Requests |->
                IF r \in rs THEN Ended(ok, reply, kept[r]) ELSE item[r]]
         /\ view' = Settled(rs, kept)
  BY DEF MarkComplete
<1>2. Pool \in Nat /\ MaxRedirects \in Nat
  BY LimitsAssumption
<1>3. \A n : Ended(ok, reply, n).redirects = 0
  BY DEF Ended, EmptyItem
<1>4. ItemBounds'
  BY <1>1, <1>2, <1>3 DEF ItemBounds, Bounds
<1>5. LaneBounds'
  <2>1. LanesGo(rs, ls)
    BY DropLanesEffect DEF MarkComplete
  <2>2. \A l \in Lanes : lane'[l] \in {EmptyLane, LeavingLane, ls[l]}
    BY <2>1 DEF LanesGo, Abandoned
  <2> QED BY <1>2, <2>2, EmptyBounds DEF LaneBounds
<1>6. ASSUME NEW v \in Views
      PROVE  view'[v].reserved <= Pool /\ view'[v].cursor \in Slots(v)
  <2>1. view'[v].cursor = view[v].cursor
    BY <1>1, SettledKeepsTurns DEF IInv
  <2>2. view'[v].reserved = view[v].reserved
                                - Cardinality(Unused(rs \cap Of(v), kept))
    BY <1>1, SettledSums DEF IInv
  <2>3. IsFiniteSet(Units(Of(v))) /\ Cardinality(Units(Of(v))) \in Nat
    BY SlotsAreFew, UnitsAreFinite
  <2>4. Unused(rs \cap Of(v), kept) \in SUBSET Units(Of(v))
    BY DEF Unused, Units
  <2>5. Cardinality(Unused(rs \cap Of(v), kept)) \in Nat
    BY <2>3, <2>4, FS_Subset, FS_CardinalityType
  <2>6. view[v].reserved \in Nat /\ view[v].reserved <= Pool
    BY <2>3 DEF Ledger, LedgerIsExact, Bounds, ViewBounds
  <2> QED BY <1>2, <2>1, <2>2, <2>5, <2>6 DEF Bounds, ViewBounds
<1> QED BY <1>4, <1>5, <1>6 DEF ViewBounds

\* A hop that starts or waits.
LEMMA StartBounds ==
    ASSUME IInv, Bounds, NEW r \in Requests, NEW it, it.redirects <= MaxRedirects,
           StartHop(r, it, lane),
           \A l : [it EXCEPT !.lane = l].redirects = it.redirects
    PROVE  ItemBounds' /\ LaneBounds'
<1>1. Pool \in Nat
  BY LimitsAssumption
<1>2. PICK l : item' = [item EXCEPT ![r] = [it EXCEPT !.lane = l]]
  BY DEF StartHop
<1>3. item'[r].redirects = it.redirects
      /\ \A q \in Requests \ {r} : item'[q] = item[q]
  BY <1>2 DEF IInv, Shapes
<1>4. ItemBounds'
  BY <1>3 DEF ItemBounds, Bounds
<1>5. LaneBounds'
  <2>1. CASE lane' = lane
    BY <2>1 DEF Bounds, LaneBounds
  <2>2. CASE \E k \in Lanes : lane' = [lane EXCEPT ![k] =
                [EmptyLane EXCEPT !.state = "Queued", !.owner = r]]
    <3>1. PICK k \in Lanes : lane' = [lane EXCEPT ![k] =
                [EmptyLane EXCEPT !.state = "Queued", !.owner = r]]
      BY <2>2
    <3> DEFINE la == [EmptyLane EXCEPT !.state = "Queued", !.owner = r]
    <3>2. la.chunk = 0 /\ la.total = 0
      BY DEF EmptyLane
    <3> HIDE DEF la
    <3>3. lane'[k] = la /\ \A j \in Lanes \ {k} : lane'[j] = lane[j]
      BY <3>1 DEF IInv, Shapes, la
    <3> QED BY <1>1, <3>2, <3>3 DEF Bounds, LaneBounds
  <2> QED BY <2>1, <2>2 DEF StartHop, FreeLanes
<1> QED BY <1>4, <1>5

LEMMA EnqueueBounds ==
    ASSUME IInv, Ledger, Bounds, NEW v \in Views, NEW n \in Sizes, Enqueue(v, n)
    PROVE  Bounds'
<1>1. view'[v].reserved <= Pool /\ domain'.active <= DomainSlots
  BY EnqueueBooks
<1>2. PICK i \in Slots(v) :
         StartHop(<<v, i>>, [EmptyItem EXCEPT !.phase = "Active",
                                              !.reserved = n], lane)
  BY DEF Enqueue
<1> DEFINE it == [EmptyItem EXCEPT !.phase = "Active", !.reserved = n]
<1>3. it.redirects = 0 /\ \A l : [it EXCEPT !.lane = l].redirects = it.redirects
  BY DEF EmptyItem
<1>4. <<v, i>> \in Requests /\ MaxRedirects \in Nat
  BY LimitsAssumption DEF Requests
<1> HIDE DEF it
<1>5. ItemBounds' /\ LaneBounds'
  <2>1. StartHop(<<v, i>>, it, lane)
    BY <1>2 DEF it
  <2>2. it.redirects <= MaxRedirects
    BY <1>3, <1>4
  <2> QED BY <1>3, <1>4, <2>1, <2>2, StartBounds
<1>6. ViewBounds'
  <2>1. view' = [view EXCEPT ![v].reserved = @ + n, ![v].pending = @ + 1]
    BY DEF Enqueue
  <2>2. view[v] = [reserved |-> view[v].reserved, pending |-> view[v].pending,
                   cursor |-> view[v].cursor] /\ DOMAIN view = Views
    BY DEF IInv, Turns, ViewsStand
  <2>3. view'[v].cursor = view[v].cursor
    BY <2>1, <2>2
  <2>4. \A w \in Views \ {v} : view'[w] = view[w]
    BY <2>1, <2>2
  <2> QED BY <1>1, <2>3, <2>4 DEF Bounds, ViewBounds
<1>7. DomainBounds'
  <2>1. domain' = [domain EXCEPT !.active = @ + 1]
        /\ domain = [active |-> domain.active, held |-> domain.held]
    BY DEF Enqueue, IInv, DomainStands
  <2> QED BY <1>1, <2>1 DEF Bounds, DomainBounds
<1> QED BY <1>5, <1>6, <1>7 DEF Bounds

LEMMA TakeBounds ==
    ASSUME IInv, Ledger, Bounds, NEW r \in Requests, Take(r)
    PROVE  Bounds'
<1> DEFINE v == r[1]
           n == item[r].reserved
<1>1. /\ item' = [item EXCEPT ![r] = EmptyItem]
      /\ view' = [view EXCEPT ![v].reserved = @ - n]
      /\ domain' = [domain EXCEPT !.active = @ - 1]
      /\ UNCHANGED lane /\ v \in Views
  BY DEF Take, Requests
<1>2. n \in Nat /\ Pool \in Nat /\ MaxRedirects \in Nat /\ DomainSlots \in Nat
  BY LimitsAssumption DEF Ledger, Booked
<1>3. view[v].reserved \in Nat /\ domain.active \in Nat
  BY <1>1, SlotsAreFew, UnitsAreFinite, FS_CardinalityType
     DEF Ledger, LedgerIsExact, Used
<1> HIDE DEF v, n
<1>4. ItemBounds'
  BY <1>1, <1>2, EmptyBounds DEF Bounds, ItemBounds, IInv, Shapes
<1>5. LaneBounds'
  BY <1>1 DEF Bounds, LaneBounds
<1>6. ViewBounds'
  <2>1. view[v] = [reserved |-> view[v].reserved, pending |-> view[v].pending,
                   cursor |-> view[v].cursor] /\ DOMAIN view = Views
    BY <1>1 DEF IInv, Turns, ViewsStand
  <2>2. view'[v].reserved = view[v].reserved - n
        /\ view'[v].cursor = view[v].cursor
    BY <1>1, <2>1
  <2>3. \A w \in Views \ {v} : view'[w] = view[w]
    BY <1>1, <2>1
  <2>4. view'[v].reserved <= Pool
    BY <1>1, <1>2, <1>3, <2>2 DEF Bounds, ViewBounds
  <2> QED BY <1>1, <2>2, <2>3, <2>4 DEF Bounds, ViewBounds
<1>7. DomainBounds'
  <2>1. domain = [active |-> domain.active, held |-> domain.held]
    BY DEF IInv, DomainStands
  <2>2. domain'.active = domain.active - 1 /\ domain'.held = domain.held
    BY <1>1, <2>1
  <2> QED BY <1>2, <1>3, <2>2 DEF Bounds, DomainBounds
<1> QED BY <1>4, <1>5, <1>6, <1>7 DEF Bounds

LEMMA DestroyBounds ==
    ASSUME IInv, Ledger, Bounds, NEW v \in Views, Destroy(v)
    PROVE  Bounds'
<1> DEFINE n == Cardinality({r \in Of(v) : item[r].phase # "Empty"})
<1>1. /\ item' = [r \in Requests |-> IF r \in Of(v) THEN EmptyItem ELSE item[r]]
      /\ view' = [view EXCEPT ![v] = EmptyView]
      /\ domain' = [domain EXCEPT !.active = @ - n]
      /\ DropLanes(Of(v), lane)
  BY DEF Destroy
<1>2. /\ Pool \in Nat /\ MaxRedirects \in Nat /\ DomainSlots \in Nat
      /\ Capacity[v] \in Nat \ {0}
  BY LimitsAssumption, CapacityAssumption
<1>3. n \in Nat
  <2>1. IsFiniteSet({r \in Of(v) : item[r].phase # "Empty"})
    BY SlotsAreFew, FS_Subset
  <2> QED BY <2>1, FS_CardinalityType
<1>4. domain.active \in Nat
  BY FS_CardinalityType DEF Ledger, LedgerIsExact, Used
<1> HIDE DEF n
<1>5. ItemBounds'
  BY <1>1, <1>2, EmptyBounds DEF Bounds, ItemBounds
<1>6. LaneBounds'
  <2>1. LanesGo(Of(v), lane)
    BY <1>1, DropLanesEffect DEF IInv, Shapes
  <2>2. \A l \in Lanes : lane'[l] \in {EmptyLane, LeavingLane, lane[l]}
    BY <2>1 DEF LanesGo, Abandoned
  <2> QED BY <1>2, <2>2, EmptyBounds DEF LaneBounds, Bounds
<1>7. ViewBounds'
  <2>1. 0 \in Slots(v)
    BY <1>2 DEF Slots
  <2>2. view'[v] = EmptyView /\ \A w \in Views \ {v} : view'[w] = view[w]
    BY <1>1 DEF IInv, Turns, ViewsStand
  <2> QED BY <1>2, <2>1, <2>2, EmptyBounds DEF Bounds, ViewBounds
<1>8. DomainBounds'
  <2>1. domain = [active |-> domain.active, held |-> domain.held]
    BY DEF IInv, DomainStands
  <2>2. domain'.active = domain.active - n /\ domain'.held = domain.held
    BY <1>1, <2>1
  <2> QED BY <1>2, <1>3, <1>4, <2>2 DEF Bounds, DomainBounds
<1> QED BY <1>5, <1>6, <1>7, <1>8 DEF Bounds

\* A step that ends requests and nothing else.
LEMMA EndingBounds ==
    ASSUME IInv, Ledger, Bounds, NEW rs \in SUBSET Requests, UNCHANGED domain,
           NEW ok \in BOOLEAN, NEW reply \in Replies,
           MarkComplete(rs, ok, reply, lane)
    PROVE  Bounds'
<1>1. ItemBounds' /\ LaneBounds' /\ ViewBounds'
  BY EndBounds DEF Bounds, LaneBounds, IInv, Shapes
<1> QED BY <1>1 DEF Bounds, DomainBounds

LEMMA AbortBounds ==
    ASSUME IInv, Ledger, Bounds, UNCHANGED domain, Current \in Requests, Abort
    PROVE  Bounds'
<1>1. MarkComplete({Current}, FALSE, "None", lane)
  BY DEF Abort
<1>2. "None" \in Replies /\ FALSE \in BOOLEAN /\ {Current} \in SUBSET Requests
  BY DEF Replies
<1> QED BY <1>1, <1>2, EndingBounds

LEMMA CallBounds ==
    ASSUME IInv, Ledger, Bounds,
           \/ \E r \in Requests : CancelRequest(r)
           \/ Hold
           \/ Release
    PROVE  Bounds'
<1>1. /\ "None" \in Replies /\ FALSE \in BOOLEAN /\ Active \in SUBSET Requests
      /\ \A r \in Requests : {r} \in SUBSET Requests
  BY DEF Replies, Active
<1>2. CASE \E r \in Requests : CancelRequest(r)
  BY <1>1, <1>2, EndingBounds DEF CancelRequest
<1>3. CASE Hold
  <2>1. ItemBounds' /\ LaneBounds' /\ ViewBounds'
    BY <1>1, <1>3, EndBounds DEF Bounds, LaneBounds, IInv, Shapes, Hold
  <2>2. DomainBounds'
    BY <1>3 DEF Hold, IInv, DomainStands, Bounds, DomainBounds
  <2> QED BY <2>1, <2>2 DEF Bounds
<1>4. CASE Release
  BY <1>4 DEF Release, IInv, DomainStands, Bounds, DomainBounds, ItemBounds,
     LaneBounds, ViewBounds
<1> QED BY <1>2, <1>3, <1>4

\* A request that is touched while nothing is counted.
LEMMA TouchBounds ==
    ASSUME IInv, Bounds, UNCHANGED <<view, domain>>, LaneBounds',
           NEW r \in Requests, NEW it, it.redirects <= MaxRedirects,
           item' = [item EXCEPT ![r] = it]
    PROVE  Bounds'
<1>1. ItemBounds'
  BY DEF Bounds, ItemBounds, IInv, Shapes
<1> QED BY <1>1 DEF Bounds, ViewBounds, DomainBounds

LEMMA RestBounds ==
    ASSUME Bounds, UNCHANGED <<item, view, domain>>, LaneBounds' PROVE Bounds'
BY DEF Bounds, ItemBounds, ViewBounds, DomainBounds

LEMMA HopBounds ==
    ASSUME IInv, Bounds, UNCHANGED <<view, domain>>, NEW r \in Requests,
           StartHop(r, item[r], lane)
    PROVE  Bounds'
<1> DEFINE it == item[r]
<1>1. it.redirects <= MaxRedirects
  BY DEF Bounds, ItemBounds
<1>2. \A l : [it EXCEPT !.lane = l].redirects = it.redirects
  <2>1. it \in ItemShape
    BY DEF IInv, Shapes
  <2> HIDE DEF it
  <2> QED BY <2>1 DEF ItemShape
<1>3. StartHop(r, it, lane)
  OBVIOUS
<1> HIDE DEF it
<1>4. ItemBounds' /\ LaneBounds'
  BY <1>1, <1>2, <1>3, StartBounds
<1> QED BY <1>4 DEF Bounds, ViewBounds, DomainBounds

LEMMA EndPumpBounds ==
    ASSUME IInv, Bounds, EndPump PROVE Bounds'
<1> DEFINE v == pump.view
           c == (view[v].cursor + 1) % Capacity[v]
           w == [view[v] EXCEPT !.cursor = c]
<1>1. /\ view' = [view EXCEPT ![v] = w] /\ UNCHANGED <<item, lane, domain>>
      /\ v \in Views
  BY DEF EndPump, At, IInv, Turns, PumpStands
<1>2. c \in Slots(v)
  <2>1. Capacity[v] \in Nat \ {0} /\ view[v].cursor \in Nat
    BY <1>1, CapacityAssumption DEF IInv, Turns, ViewsStand
  <2> HIDE DEF v
  <2> QED BY <2>1 DEF Slots
<1> HIDE DEF v, c
<1>3. w.reserved = view[v].reserved /\ w.cursor = c
  <2>1. view[v] = [reserved |-> view[v].reserved,
                   pending |-> view[v].pending, cursor |-> view[v].cursor]
    BY <1>1 DEF IInv, Turns, ViewsStand
  <2> QED BY <2>1
<1> HIDE DEF w
<1>4. view'[v] = w /\ \A u \in Views \ {v} : view'[u] = view[u]
  BY <1>1 DEF IInv, Turns, ViewsStand
<1> QED BY <1>1, <1>2, <1>3, <1>4
        DEF Bounds, ItemBounds, LaneBounds, ViewBounds, DomainBounds

LEMMA VisitBounds ==
    ASSUME IInv, Ledger, Bounds, Visit PROVE Bounds'
<1>1. Current \in Requests /\ UNCHANGED domain
  BY CurrentIsRequest DEF Visit, PassOver, HasLane, OutOfTime, AskForLane,
     Visiting, At, IInv
<1>2. CASE PassOver \/ HasLane
  BY <1>1, <1>2, RestBounds DEF PassOver, HasLane, Bounds, LaneBounds
<1>3. CASE OutOfTime
  BY <1>1, <1>3, AbortBounds DEF OutOfTime
<1>4. CASE AskForLane
  BY <1>1, <1>4, HopBounds DEF AskForLane
<1> QED BY <1>2, <1>3, <1>4 DEF Visit

LEMMA DeliverHeadersBounds ==
    ASSUME IInv, Ledger, Bounds, DeliverHeaders PROVE Bounds'
<1>1. pump.at = "Headers" /\ UNCHANGED domain /\ Current \in Requests
  BY CurrentIsRequest DEF DeliverHeaders, AcceptHeaders, At, IInv
<1>2. CASE AcceptHeaders
  <2> DEFINE r == Current
             it == [item[r] EXCEPT !.heads = lane[item[r].lane].reply]
  <2>1. item' = [item EXCEPT ![r] = it] /\ UNCHANGED <<view, lane>>
    BY <1>2 DEF AcceptHeaders
  <2>2. item[r] \in ItemShape /\ item[r].redirects <= MaxRedirects
    BY <1>1 DEF IInv, Shapes, Bounds, ItemBounds
  <2> HIDE DEF r
  <2>3. it.redirects = item[r].redirects
    BY <2>2 DEF ItemShape
  <2> HIDE DEF it
  <2>4. r \in Requests /\ LaneBounds'
    BY <1>1, <2>1 DEF r, Bounds, LaneBounds
  <2> QED BY <1>1, <2>1, <2>2, <2>3, <2>4, TouchBounds
<1>3. CASE Abort
  BY <1>1, <1>3, AbortBounds
<1>4. CASE UNCHANGED <<item, view, lane>>
  BY <1>1, <1>4, RestBounds DEF Bounds, LaneBounds
<1> QED BY <1>2, <1>3, <1>4 DEF DeliverHeaders

LEMMA DeliverChunkBounds ==
    ASSUME IInv, Ledger, Bounds, DeliverChunk PROVE Bounds'
<1>1. pump.at = "Chunk" /\ UNCHANGED domain /\ Current \in Requests
  BY CurrentIsRequest DEF DeliverChunk, AcceptChunk, At, IInv
<1>2. CASE AcceptChunk
  <2> DEFINE r == Current
             l == item[r].lane
             n == item[r].got + lane[l].chunk
             it == [item[r] EXCEPT !.got = n]
             la == [lane[l] EXCEPT !.chunk = 0]
  <2>1. /\ item' = [item EXCEPT ![r] = it] /\ lane' = [lane EXCEPT ![l] = la]
        /\ UNCHANGED view
    BY <1>2 DEF AcceptChunk
  <2>2. item[r] \in ItemShape /\ item[r].redirects <= MaxRedirects
    BY <1>1 DEF IInv, Shapes, Bounds, ItemBounds
  <2> HIDE DEF n, l
  <2>3. r \in Requests
    BY <1>1
  <2> HIDE DEF r
  <2>4. it.redirects = item[r].redirects
    BY <2>2 DEF ItemShape
  <2> HIDE DEF it
  <2>5. LaneBounds'
    <3>1. ASSUME NEW k \in Lanes
          PROVE  lane'[k].chunk <= 1 /\ lane'[k].total <= Pool
      <4>1. lane[k] \in LaneShape /\ lane[k].chunk <= 1 /\ lane[k].total <= Pool
        BY DEF IInv, Shapes, Bounds, LaneBounds
      <4>2. CASE k = l
        <5>1. lane'[k] = [lane[k] EXCEPT !.chunk = 0]
          BY <2>1, <4>2 DEF IInv, Shapes
        <5> QED BY <4>1, <5>1 DEF LaneShape
      <4>3. CASE k # l
        <5> HIDE DEF la
        <5>1. lane'[k] = lane[k]
          BY <2>1, <4>3 DEF IInv, Shapes
        <5> QED BY <4>1, <5>1
      <4> QED BY <4>2, <4>3
    <3> QED BY <3>1 DEF LaneBounds
  <2> QED BY <1>1, <2>1, <2>2, <2>3, <2>4, <2>5, TouchBounds
<1>3. CASE Abort
  BY <1>1, <1>3, AbortBounds
<1>4. CASE UNCHANGED <<item, view, lane>>
  BY <1>1, <1>4, RestBounds DEF Bounds, LaneBounds
<1> QED BY <1>2, <1>3, <1>4 DEF DeliverChunk

\* The lanes without the one that served the current request.
LEMMA RestIsBounded ==
    ASSUME IInv, Bounds
    PROVE  /\ Rest \in [Lanes -> LaneShape]
           /\ \A l \in Lanes : Rest[l].chunk <= 1 /\ Rest[l].total <= Pool
<1>1. Pool \in Nat
  BY LimitsAssumption
<1>2. ASSUME NEW l \in Lanes PROVE Rest[l] \in {lane[l], EmptyLane}
  BY DEF Rest, IInv, Shapes
<1>3. DOMAIN Rest = Lanes /\ Rest = [l \in Lanes |-> Rest[l]]
  BY DEF Rest, IInv, Shapes
<1>4. EmptyLane \in LaneShape /\ EmptyLane.chunk = 0 /\ EmptyLane.total = 0
  BY EmptyShapes, EmptyBounds
<1>5. ASSUME NEW l \in Lanes
      PROVE  /\ Rest[l] \in LaneShape
             /\ Rest[l].chunk <= 1 /\ Rest[l].total <= Pool
  <2>1. /\ lane[l] \in LaneShape /\ lane[l].chunk <= 1
        /\ lane[l].total <= Pool
    BY DEF IInv, Shapes, Bounds, LaneBounds
  <2>2. CASE Rest[l] = lane[l]
    BY <2>1, <2>2
  <2>3. CASE Rest[l] = EmptyLane
    BY <1>1, <1>4, <2>3
  <2> QED BY <1>2, <2>2, <2>3
<1> QED BY <1>3, <1>5

LEMMA FinishBounds ==
    ASSUME IInv, Ledger, Bounds, UNCHANGED domain, Current \in Requests,
           NEW ok \in BOOLEAN, NEW reply \in Replies,
           MarkComplete({Current}, ok, reply, Rest)
    PROVE  Bounds'
<1>1. {Current} \in SUBSET Requests
  OBVIOUS
<1>2. ItemBounds' /\ LaneBounds' /\ ViewBounds'
  BY <1>1, RestIsBounded, EndBounds
<1> QED BY <1>2 DEF Bounds, DomainBounds

LEMMA RedirectBounds ==
    ASSUME IInv, Bounds, UNCHANGED <<domain, view>>, Current \in Requests,
           item[Current].redirects < MaxRedirects, lane' = Rest,
           item' = [item EXCEPT ![Current].lane = Nobody,
                                ![Current].heads = "None",
                                ![Current].redirects = @ + 1]
    PROVE  Bounds'
<1> DEFINE r == Current
           n == item[r].redirects + 1
           it == [item[r] EXCEPT !.lane = Nobody, !.heads = "None",
                                 !.redirects = n]
<1>1. r \in Requests /\ item[r] \in ItemShape
  BY DEF IInv, Shapes
<1>2. item' = [item EXCEPT ![r] = it]
  BY <1>1 DEF IInv, Shapes
<1>3. n <= MaxRedirects
  <2>1. item[r].redirects \in Nat /\ MaxRedirects \in Nat
    BY <1>1, LimitsAssumption DEF ItemShape
  <2> QED BY <2>1
<1> HIDE DEF r, n
<1>4. it.redirects = n
  BY <1>1 DEF ItemShape
<1> HIDE DEF it
<1>5. LaneBounds'
  BY RestIsBounded DEF LaneBounds
<1> QED BY <1>1, <1>2, <1>3, <1>4, <1>5, TouchBounds

LEMMA FinishHopBounds ==
    ASSUME IInv, Ledger, Bounds, FinishHop PROVE Bounds'
<1>1. pump.at = "End" /\ UNCHANGED domain /\ Current \in Requests
  BY CurrentIsRequest DEF FinishHop, At, IInv
<1>2. /\ FALSE \in BOOLEAN /\ TRUE \in BOOLEAN
      /\ {"None", "Opaque"} \subseteq Replies
  BY DEF Replies
<1>3. HopEnded => lane[item[Current].lane].reply \in Replies
  <2>1. HopEnded => item[Current].lane \in Lanes
    BY <1>1, ServedFromOwn DEF HopEnded
  <2> QED BY <2>1 DEF IInv, Shapes, LaneShape, Heads, Replies
<1>4. CASE UNCHANGED <<item, view, lane>>
  BY <1>1, <1>4, RestBounds DEF Bounds, LaneBounds
<1>5. CASE /\ HopEnded
           /\ \/ MarkComplete({Current}, FALSE, "None", Rest)
              \/ MarkComplete({Current}, TRUE, "Opaque", Rest)
              \/ MarkComplete({Current}, TRUE, lane[item[Current].lane].reply,
                              Rest)
  BY <1>1, <1>2, <1>3, <1>5, FinishBounds
<1>6. CASE /\ UNCHANGED view /\ lane' = Rest
           /\ item[Current].redirects < MaxRedirects
           /\ item' = [item EXCEPT ![Current].lane = Nobody,
                                   ![Current].heads = "None",
                                   ![Current].redirects = @ + 1]
  BY <1>1, <1>6, RedirectBounds
<1> QED BY <1>4, <1>5, <1>6 DEF FinishHop, FollowRedirect

LEMMA StartNextHopBounds ==
    ASSUME IInv, Ledger, Bounds, StartNextHop PROVE Bounds'
<1>1. pump.at = "Next hop" /\ UNCHANGED domain /\ Current \in Requests
  BY CurrentIsRequest DEF StartNextHop, At, IInv
<1>2. CASE Abort
  BY <1>1, <1>2, AbortBounds
<1>3. CASE StartHop(Current, item[Current], lane) /\ UNCHANGED view
  BY <1>1, <1>3, HopBounds
<1> QED BY <1>2, <1>3 DEF StartNextHop

LEMMA DeadlineBounds ==
    ASSUME IInv, Bounds, NEW r \in Requests, Deadline(r) PROVE Bounds'
<1> DEFINE it == [item[r] EXCEPT !.late = TRUE]
<1>1. item' = [item EXCEPT ![r] = it] /\ UNCHANGED <<view, domain, lane>>
  BY DEF Deadline
<1>2. it.redirects <= MaxRedirects
  BY DEF IInv, Shapes, ItemShape, Bounds, ItemBounds
<1> HIDE DEF it
<1>3. LaneBounds'
  BY <1>1 DEF Bounds, LaneBounds
<1> QED BY <1>1, <1>2, <1>3, TouchBounds

\* A lane is written in pieces of one unit, up to what was reserved.
LEMMA BecomesBounds ==
    ASSUME IInv, Bounds, NEW l \in Lanes, OnLane(l), NEW la, Becomes(l, la),
           la.chunk <= 1, la.total <= Pool
    PROVE  Bounds'
<1>1. \A k \in Lanes : lane'[k] = IF k = l THEN la ELSE lane[k]
  BY DEF Becomes, IInv, Shapes
<1>2. LaneBounds'
  BY <1>1 DEF Bounds, LaneBounds
<1> QED BY <1>2, RestBounds DEF OnLane

LEMMA LaneStepBounds ==
    ASSUME IInv, Ledger, Bounds, NEW l \in Lanes,
           Worker(l) \/ OthersTake(l) \/ OthersLeave(l)
    PROVE  Bounds'
<1>1. /\ lane[l] \in LaneShape /\ lane[l].chunk <= 1 /\ lane[l].total <= Pool
      /\ Pool \in Nat
  BY LimitsAssumption DEF IInv, Shapes, Bounds, LaneBounds
<1>2. CASE StartTransfer(l)
  <2>1. /\ [lane[l] EXCEPT !.state = "Running"].chunk = lane[l].chunk
        /\ [lane[l] EXCEPT !.state = "Running"].total = lane[l].total
    BY <1>1 DEF LaneShape
  <2> QED BY <1>1, <1>2, <2>1, BecomesBounds DEF StartTransfer
<1>3. CASE ReceiveHeaders(l)
  <2>1. PICK reply : Becomes(l, [lane[l] EXCEPT !.reply = reply]) /\ OnLane(l)
    BY <1>3 DEF ReceiveHeaders
  <2>2. /\ [lane[l] EXCEPT !.reply = reply].chunk = lane[l].chunk
        /\ [lane[l] EXCEPT !.reply = reply].total = lane[l].total
    BY <1>1 DEF LaneShape
  <2> QED BY <1>1, <2>1, <2>2, BecomesBounds
<1>4. CASE ReceiveBody(l)
  <2> DEFINE n == lane[l].total + 1
             la == [lane[l] EXCEPT !.chunk = 1, !.total = n]
  <2>1. Becomes(l, la) /\ OnLane(l) /\ lane[l].state = "Running"
        /\ lane[l].total < item[lane[l].owner].reserved
    BY <1>4 DEF ReceiveBody
  <2>2. lane[l].owner \in Requests
    BY <1>1, <2>1 DEF IInv, Ties, UsedIsOwned, InUse, LaneShape
  <2>3. n <= Pool
    <3>1. item[lane[l].owner].reserved \in 0 .. Pool /\ lane[l].total \in Nat
      BY <1>1, <2>2 DEF Ledger, Booked, LaneShape
    <3> QED BY <1>1, <2>1, <3>1
  <2> HIDE DEF n
  <2>4. la.chunk = 1 /\ la.total = n
    BY <1>1 DEF LaneShape
  <2> HIDE DEF la
  <2> QED BY <2>1, <2>3, <2>4, BecomesBounds
<1>5. CASE EndTransfer(l)
  <2>1. PICK ok : /\ Becomes(l, [lane[l] EXCEPT !.state = "Complete", !.ok = ok])
                  /\ OnLane(l)
    BY <1>5 DEF EndTransfer
  <2> DEFINE la == [lane[l] EXCEPT !.state = "Complete", !.ok = ok]
  <2>2. la.chunk = lane[l].chunk /\ la.total = lane[l].total
    BY <1>1 DEF LaneShape
  <2> HIDE DEF la
  <2> QED BY <1>1, <2>1, <2>2, BecomesBounds DEF la
<1>6. CASE RetireTransfer(l) \/ OthersLeave(l)
  BY <1>1, <1>6, EmptyBounds, BecomesBounds DEF RetireTransfer, OthersLeave
<1>7. CASE OthersTake(l)
  <2> DEFINE la == [EmptyLane EXCEPT !.state = "Other"]
  <2>1. la.chunk = 0 /\ la.total = 0
    BY DEF EmptyLane
  <2>2. Becomes(l, la) /\ OnLane(l)
    BY <1>7 DEF OthersTake
  <2> HIDE DEF la
  <2>3. la.chunk <= 1 /\ la.total <= Pool
    BY <1>1, <2>1
  <2> QED BY <2>2, <2>3, BecomesBounds
<1> QED BY <1>2, <1>3, <1>4, <1>5, <1>6, <1>7 DEF Worker

LEMMA NextBounds == ASSUME IInv, Ledger, Bounds, [Next]_vars PROVE Bounds'
<1>1. CASE \E v \in Views : \/ \E n \in Sizes : Enqueue(v, n)
                            \/ Destroy(v)
  BY <1>1, EnqueueBounds, DestroyBounds
<1>2. CASE \E v \in Views : BeginPump(v)
  BY <1>2, RestBounds DEF BeginPump, At, Bounds, LaneBounds
<1>3. CASE \E r \in Requests : Take(r) \/ CancelRequest(r) \/ Deadline(r)
  BY <1>3, TakeBounds, CallBounds, DeadlineBounds
<1>4. CASE Hold \/ Release
  BY <1>4, CallBounds
<1>5. CASE PumpStep
  BY <1>5, EndPumpBounds, VisitBounds, DeliverHeadersBounds, DeliverChunkBounds,
     FinishHopBounds, StartNextHopBounds DEF PumpStep
<1>6. CASE \E l \in Lanes : Worker(l) \/ OthersTake(l) \/ OthersLeave(l)
  BY <1>6, LaneStepBounds
<1>7. CASE UNCHANGED vars
  BY <1>7, RestBounds DEF vars, Bounds, LaneBounds
<1> QED BY <1>1, <1>2, <1>3, <1>4, <1>5, <1>6, <1>7 DEF Next

LEMMA StartsBounded == Init => Bounds
<1> SUFFICES ASSUME Init PROVE Bounds
  OBVIOUS
<1>1. /\ \A r \in Requests : item[r] = EmptyItem
      /\ \A v \in Views : view[v] = EmptyView
      /\ \A l \in Lanes : lane[l] = EmptyLane
      /\ domain.active = 0 /\ domain.held = FALSE
  BY DEF Init
<1>2. /\ Pool \in Nat /\ MaxRedirects \in Nat /\ DomainSlots \in Nat
      /\ \A v \in Views : 0 \in Slots(v)
  BY LimitsAssumption, CapacityAssumption DEF Slots
<1>3. ItemBounds
  BY <1>1, <1>2, EmptyBounds DEF ItemBounds
<1>4. LaneBounds
  BY <1>1, <1>2, EmptyBounds DEF LaneBounds
<1>5. ViewBounds
  BY <1>1, <1>2, EmptyBounds DEF ViewBounds
<1>6. DomainBounds
  <2>1. domain.active <= DomainSlots
    BY <1>1, <1>2
  <2>2. domain.held \in BOOLEAN
    <3>1. domain = [active |-> 0, held |-> FALSE]
      BY DEF Init
    <3> QED BY <3>1
  <2> QED BY <2>1, <2>2 DEF DomainBounds
<1> QED BY <1>3, <1>4, <1>5, <1>6 DEF Bounds

LEMMA BoundedIsTyped == IInv /\ Ledger /\ Bounds => TypeOK
<1> SUFFICES ASSUME IInv, Ledger, Bounds PROVE TypeOK
  OBVIOUS
<1>1. Pool \in Nat /\ MaxRedirects \in Nat /\ DomainSlots \in Nat
  BY LimitsAssumption
<1>2. ASSUME NEW l \in Lanes PROVE lane[l] \in LaneRecords
  <2>1. lane[l] \in LaneShape /\ lane[l].chunk <= 1 /\ lane[l].total <= Pool
    BY DEF IInv, Shapes, Bounds, LaneBounds
  <2> QED BY <1>1, <2>1 DEF LaneShape, LaneRecords, Heads
<1>3. ASSUME NEW r \in Requests PROVE item[r] \in Items
  <2>1. /\ item[r] \in ItemShape /\ item[r].reserved \in 0 .. Pool
        /\ item[r].redirects <= MaxRedirects
    BY DEF IInv, Shapes, Bounds, ItemBounds, Ledger, Booked
  <2>2. item[r].got \in 0 .. Pool
    <3>1. CASE item[r].lane = Nobody
      BY <1>1, <3>1 DEF IInv, Ties, Delivered, Fresh
    <3>2. CASE item[r].lane # Nobody
      <4> DEFINE la == lane[item[r].lane]
      <4>1. item[r].lane \in Lanes
        BY <2>1, <3>2 DEF ItemShape
      <4>2. la \in LaneShape /\ la.total <= Pool
            /\ Together(item[r], la)
        BY <3>2, <4>1 DEF IInv, Shapes, Bounds, LaneBounds, Ties, Delivered
      <4> HIDE DEF la
      <4>3. item[r].got \in Nat /\ la.chunk \in Nat /\ la.total \in Nat
            /\ item[r].got + la.chunk = la.total
        BY <2>1, <4>2 DEF ItemShape, LaneShape, Together
      <4> QED BY <1>1, <4>2, <4>3
    <3> QED BY <3>1, <3>2
  <2>3. item[r].redirects \in 0 .. MaxRedirects
    BY <1>1, <2>1 DEF ItemShape
  <2> QED BY <2>1, <2>2, <2>3 DEF ItemShape, Items, Heads
<1>4. ASSUME NEW v \in Views
      PROVE  /\ view[v] \in [reserved : 0 .. Pool, pending : Nat, cursor : Nat]
             /\ view[v].pending <= Capacity[v] /\ view[v].cursor \in Slots(v)
  <2>1. view[v] = [reserved |-> view[v].reserved, pending |-> view[v].pending,
                   cursor |-> view[v].cursor] /\ view[v].cursor \in Nat
    BY DEF IInv, Turns, ViewsStand
  <2>2. view[v].reserved \in 0 .. Pool
    <3>1. view[v].reserved \in Nat /\ view[v].reserved <= Pool
      BY SlotsAreFew, UnitsAreFinite
         DEF Ledger, LedgerIsExact, Bounds, ViewBounds
    <3> QED BY <1>1, <3>1
  <2>3. view[v].pending \in Nat /\ view[v].pending <= Capacity[v]
    <3>1. IsFiniteSet(Of(v)) /\ Cardinality(Of(v)) = Capacity[v]
          /\ Active \cap Of(v) \in SUBSET Of(v)
      BY SlotsAreFew
    <3>2. /\ IsFiniteSet(Active \cap Of(v))
          /\ Cardinality(Active \cap Of(v)) <= Capacity[v]
      BY <3>1, FS_Subset
    <3> QED BY <3>2, FS_CardinalityType DEF Ledger, LedgerIsExact
  <2> QED BY <2>1, <2>2, <2>3 DEF Bounds, ViewBounds
<1>5. domain \in [active : 0 .. DomainSlots, held : BOOLEAN]
  <2>1. domain.active \in Nat
    BY FS_CardinalityType DEF Ledger, LedgerIsExact, Used
  <2>2. domain = [active |-> domain.active, held |-> domain.held]
    BY DEF IInv, DomainStands
  <2> QED BY <1>1, <2>1, <2>2 DEF Bounds, DomainBounds
<1>6. item \in [Requests -> Items] /\ lane \in [Lanes -> LaneRecords]
  BY <1>2, <1>3 DEF IInv, Shapes
<1>7. view \in [Views -> [reserved : 0 .. Pool, pending : Nat, cursor : Nat]]
  BY <1>4 DEF IInv, Turns, ViewsStand
<1>8. pump \in [at : Points, view : Views \cup {Nobody},
                visited : Nat, done : Nat, most : Nat]
  BY DEF IInv, Turns, PumpStands, PumpShape
<1> QED BY <1>4, <1>5, <1>6, <1>7, <1>8 DEF TypeOK

\* Requests, lanes and views stay in their types: no view gives out more than
\* its pool and its slots, the domain no more than its slots, and no hop brings
\* more than was reserved for it.
THEOREM TypesHold == Spec => []TypeOK
<1>1. Ledger /\ IInv /\ [Next]_vars => Ledger'
  BY NextBooks
<1>2. Bounds /\ Ledger /\ IInv /\ [Next]_vars => Bounds'
  BY NextBounds
<1> QED BY <1>1, <1>2, StartBooks, StartsBounded, BoundedIsTyped, IInvHolds, PTL
        DEF Spec
=============================================================================
