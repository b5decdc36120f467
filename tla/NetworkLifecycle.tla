-------------------------- MODULE NetworkLifecycle --------------------------
(***************************************************************************)
(* The network frontend of the PSP browser: the supervisor of              *)
(* NetworkReducer driven by the one browser thread, over the native        *)
(* connection ladder, the reverse unwind, the APCTL rejoin, the shared     *)
(* transport's lease table and the multiplayer worker.                     *)
(*                                                                         *)
(* The browser thread runs the frame loop (browser.at = "Loop") and three  *)
(* blocking loops inside it; the transport worker and the multiplayer      *)
(* worker interleave with every step of them.  Firmware results, elapsed   *)
(* timeouts, user input and page requests are nondeterministic.            *)
(***************************************************************************)
EXTENDS NetworkReducer, FiniteSets

CONSTANTS Slots,     (* the transport's request, preconnect and socket     *)
                     (* slots, every one of them a lease                   *)
          Profile,   (* config.network_profile                             *)
          Activities (* what the user, the page and the system do in an    *)
                     (* instance besides navigating and fetching           *)

ASSUME SlotsAssumption == IsFiniteSet(Slots) /\ Cardinality(Slots) <= MaxLeases
ASSUME ProfileAssumption == Profile \in Profiles

AllActivities == {"WarmUp", "Media", "OfflineItem", "Voice", "Sleep", "Exit",
                  "Multiplayer"}
ASSUME ActivitiesAssumption == Activities \subseteq AllActivities

Requesters == {"Boot", "Navigation", "Multiplayer",
               "Voice", "Suspend", "Shutdown"}

\* PspNetworkStatus, in the order the ladder walks it.
Rungs == <<"CheckingProfile", "LoadingCommon", "LoadingInet", "InitCore",
           "InitInet", "InitResolver", "InitApctl", "Connecting",
           "WaitingForIp">>
ActiveStatuses == {Rungs[i] : i \in DOMAIN Rungs}
Statuses == ActiveStatuses \cup {"Idle", "Ready", "Failed", "Cancelled"}

Modules == {"Common", "Inet"}
Services == {"Core", "InetService", "Resolver", "Apctl"}

\* PspNetworkShutdownPhase; "Idle" is a lifecycle without shutdown_active.
ShutdownPhases == {"Idle", "Leaving", "TermApctl", "TermResolver", "TermInet",
                   "TermCore", "UnloadInet", "UnloadCommon"}

\* PspNetworkRejoinServicePhase; "None" is a lifecycle without rejoin_active.
RejoinServicePhases == {"None", "Leaving", "WaitingIp", "Failed"}

\* A slot's state word together with its cancel and discard flags: Running
\* is a transfer, Cancelling a running one told to stop, Complete a result
\* its owner can take.
SlotStates == {"Free", "Queued", "Running", "Cancelling", "Complete"}

\* The multiplayer session: Waiting has no thread yet, Running is inside the
\* socket calls, Done has published worker_done and is not joined, Closed has
\* only its close event left.
SessionPhases == {"None", "Waiting", "Running", "Done", "Closed"}

(***************************************************************************)
(* browser.at is where the browser thread is; browser.then is what the     *)
(* blocking call it is in returns to or, while the device sleeps, what the *)
(* network was when it fell asleep (lifecycle_network_was_started/_ready). *)
(***************************************************************************)
Places == {"Boot", "Loop", "Shutdown", "Recover", "Connect", "Asleep",
           "Exiting", "Quitting", "Halted"}
Returns == {"Loop", "Dial", "Asleep", "Halt", "Halted",
            "Navigation", "Resume", "Startup", "Off", "Started", "Ready"}

VARIABLES lifecycle, (* PspNetworkLifecycle and the admission gate         *)
          net,       (* PspNetwork                                         *)
          slots,     (* the lease table of background_transport.inc        *)
          session,   (* the multiplayer session and its stop flags         *)
          browser    (* the browser thread and the facts a suspend keeps   *)

vars == <<lifecycle, net, slots, session, browser>>

World == [lifecycle |-> lifecycle, net |-> net, slots |-> slots,
          session |-> session]

Become(w) ==
    /\ lifecycle' = w.lifecycle
    /\ net' = w.net
    /\ slots' = w.slots
    /\ session' = w.session

-----------------------------------------------------------------------------
(***************************************************************************)
(* Snapshots and dispatch.                                                 *)
(***************************************************************************)
StatusActive(n) == n.status \in ActiveStatuses

StackOf(n) ==
    CASE n.services = Services -> "Full"
      [] n.services # {} /\ n.services # Services -> "Partial"
      [] n.services = {} /\ n.modules # {} -> "ModulesOnly"
      [] OTHER -> "None"

ActiveOperations(table) == Cardinality({i \in Slots : table[i] # "Free"})

Snapshot(w) == [stack |-> StackOf(w.net),
                lease_count |-> ActiveOperations(w.slots)]

Send(w, decision) ==
    [w EXCEPT !.lifecycle.machine = decision.next,
              !.lifecycle.gate = GateAfter(@, decision.commands)]

RequestTarget(requests) ==
    CASE "Shutdown" \in requests -> Target("Off", "Shutdown", 0)
      [] "Suspend" \in requests /\ "Shutdown" \notin requests ->
            Target("Suspend", "Suspend", 0)
      [] "Voice" \in requests /\ {"Shutdown", "Suspend"} \cap requests = {} ->
            Target("Off", "Voice", 0)
      [] {"Shutdown", "Suspend", "Voice"} \cap requests = {} ->
            IF "Navigation" \in requests
            THEN Target("Ready", "Navigation", Profile)
            ELSE IF "Multiplayer" \in requests
            THEN Target("Ready", "Multiplayer", Profile)
            ELSE IF "Boot" \in requests THEN Target("Ready", "Boot", Profile)
            ELSE Target("Off", "None", 0)

\* psp_network_lifecycle_request: the generation is always a new one, so the
\* set and the clear both take effect; then the target is recomputed.
Request(w, requester, active) ==
    LET requests == IF active THEN w.lifecycle.requests \cup {requester}
                              ELSE w.lifecycle.requests \ {requester}
        w1 == [w EXCEPT !.lifecycle.requests = requests]
    IN  Send(w1, OnTargetChanged(w1.lifecycle.machine, Snapshot(w1),
                                 RequestTarget(requests)))

Started(m) == m.stack = "ModulesOnly" \/ m.state \notin Resting
NeedsRecovery(m) ==
    \/ m.state = "Rejoining"
    \/ m.state = "Stopping" /\ m.stopping_target = "Restart"

LifecycleReady(w) ==
    w.lifecycle.machine.state = "Ready" /\ w.net.status = "Ready"

\* Every outcome of step F from every world of ws.
Then(ws, F(_)) == UNION {F(w) : w \in ws}

-----------------------------------------------------------------------------
(***************************************************************************)
(* The native ladder: psp_network_begin and one unit of psp_network_pump.  *)
(***************************************************************************)
IdleNetwork(modules) ==
    [status |-> "Idle", modules |-> modules, services |-> {}]

\* psp_network_reset_ladder forgets everything but the loaded modules.
BeginLadder(n) == [IdleNetwork(n.modules) EXCEPT !.status = "CheckingProfile"]

Climb(n) ==
    CASE n.status = "CheckingProfile" -> [n EXCEPT !.status = "LoadingCommon"]
      [] n.status = "LoadingCommon" ->
            [n EXCEPT !.status = "LoadingInet",
                      !.modules = @ \cup {"Common"}]
      [] n.status = "LoadingInet" ->
            [n EXCEPT !.status = "InitCore", !.modules = @ \cup {"Inet"}]
      [] n.status = "InitCore" ->
            [n EXCEPT !.status = "InitInet", !.services = @ \cup {"Core"}]
      [] n.status = "InitInet" ->
            [n EXCEPT !.status = "InitResolver",
                      !.services = @ \cup {"InetService"}]
      [] n.status = "InitResolver" ->
            [n EXCEPT !.status = "InitApctl",
                      !.services = @ \cup {"Resolver"}]
      [] n.status = "InitApctl" ->
            [n EXCEPT !.status = "Connecting", !.services = @ \cup {"Apctl"}]
      [] n.status = "Connecting" -> [n EXCEPT !.status = "WaitingForIp"]
      [] n.status = "WaitingForIp" -> n

\* Every outcome of one unit: a refusal or the association timeout, the next
\* rung, or an address that is already there.
LadderUnit(n) ==
    IF ~StatusActive(n) THEN {n}
    ELSE {[n EXCEPT !.status = "Failed"], Climb(n)}
            \cup (IF n.status \in {"Connecting", "WaitingForIp"}
                  THEN {[n EXCEPT !.status = "Ready"]} ELSE {})

\* Mutation: every ladder that was not cancelled is reported as a ready one.
LadderTerminalReady(w) ==
    LET m == w.lifecycle.machine
    IN  IF w.net.status = "Cancelled"
        THEN Send(w, OnLadderFailed(m, Snapshot(w), "Cancelled"))
        ELSE Send(w, OnLadderReady(m))

LadderTerminal(w) ==
    LET m == w.lifecycle.machine
    IN  IF w.net.status = "Ready" THEN Send(w, OnLadderReady(m))
        ELSE Send(w, OnLadderFailed(m, Snapshot(w),
                        IF w.net.status = "Cancelled" THEN "Cancelled"
                                                      ELSE "Start"))

-----------------------------------------------------------------------------
(***************************************************************************)
(* Workers: psp_network_workers.inc over background_transport.inc and      *)
(* psp_multiplayer_lifecycle.inc.                                          *)
(***************************************************************************)
\* A cancel frees a queued or published slot itself and leaves a running one
\* to the worker.
CancelSlot(state) ==
    IF state \in {"Running", "Cancelling"} THEN "Cancelling" ELSE "Free"

CancelSlots(table, which) ==
    [i \in Slots |-> IF i \in which THEN CancelSlot(table[i]) ELSE table[i]]

SessionOwned(s) == s.phase \in {"Running", "Done"}

RequestQuiesce(w) == [w EXCEPT !.slots = CancelSlots(@, Slots),
                               !.session.network_stop = TRUE]

Quiesced(w) == ActiveOperations(w.slots) = 0 /\ ~SessionOwned(w.session)

-----------------------------------------------------------------------------
(***************************************************************************)
(* The pumped stop: psp_network_lifecycle_pump_stopping, one call of which *)
(* passes through the stages below in order.                               *)
(***************************************************************************)
AdmissionStage(w) ==
    LET m == w.lifecycle.machine
    IN  IF InPhase(m, "Admission")
        THEN Send(w, OnAdmissionStopped(m, Snapshot(w))) ELSE w

\* Mutations: a deadline that counts as a release, and a release that does
\* not take the request back.
DrainStageGivesUp(w) ==
    LET m == w.lifecycle.machine
    IN  IF ~InPhase(m, "DrainLeases") /\ ~InPhase(m, "LeaseWedged") THEN {w}
        ELSE {Send(RequestQuiesce(w), OnLeasesReleased(m))}

DrainStageStaysAsked(w) ==
    LET m == w.lifecycle.machine
        asked == [RequestQuiesce(w) EXCEPT !.lifecycle.quiesce_requested = TRUE]
    IN  IF ~InPhase(m, "DrainLeases") /\ ~InPhase(m, "LeaseWedged") THEN {w}
        ELSE IF Quiesced(asked) THEN {Send(asked, OnLeasesReleased(m))}
        ELSE {asked, Send(asked, OnDrainTimeout(m, Snapshot(asked)))}

\* The first visit requests the quiesce and arms the deadline; a deadline
\* that an earlier stop armed may already have passed.
DrainStage(w) ==
    LET m == w.lifecycle.machine
        armed == w.lifecycle.quiesce_requested
        asked == IF armed THEN w
                 ELSE [RequestQuiesce(w) EXCEPT
                            !.lifecycle.quiesce_requested = TRUE]
    IN  IF ~InPhase(m, "DrainLeases") /\ ~InPhase(m, "LeaseWedged") THEN {w}
        ELSE IF Quiesced(asked)
        THEN {[Send(asked, OnLeasesReleased(m)) EXCEPT
                    !.lifecycle.quiesce_requested = FALSE]}
        ELSE {asked} \cup
             (IF armed /\ InPhase(m, "DrainLeases")
              THEN {Send(asked, OnDrainTimeout(m, Snapshot(asked)))} ELSE {})

LeaveFinished(w) == Send(w, OnLeaveFinished(w.lifecycle.machine))

\* Mutation: a visit in the middle of the unwind begins it again.
BeginUnwindAgain(w) ==
    IF "Apctl" \in w.net.services
    THEN [w EXCEPT !.lifecycle.shutdown = "Leaving"]
    ELSE LeaveFinished([w EXCEPT !.lifecycle.shutdown = "TermResolver"])

\* psp_network_shutdown_begin: without APCTL there is nothing to leave.
BeginUnwind(w) ==
    IF w.lifecycle.shutdown # "Idle" THEN w
    ELSE IF "Apctl" \in w.net.services
    THEN [w EXCEPT !.lifecycle.shutdown = "Leaving"]
    ELSE LeaveFinished([w EXCEPT !.lifecycle.shutdown = "TermResolver"])

RungUnwound(w, phase, services, modules) ==
    Send([w EXCEPT !.lifecycle.shutdown = phase,
                   !.net.services = @ \ services,
                   !.net.modules = @ \ modules],
         OnRungUnwound(w.lifecycle.machine))

\* psp_network_lifecycle_finish_legacy_shutdown.
FinishLegacyShutdown(w) ==
    LET w1 == AdmissionStage(w)
        w2 == LeaveFinished(w1)
    IN  Send(w2, OnUnwound(w2.lifecycle.machine, Snapshot(w2)))

UnwindComplete(w) ==
    FinishLegacyShutdown([w EXCEPT !.lifecycle.shutdown = "Idle",
                                   !.lifecycle.quiesce_requested = FALSE,
                                   !.net = IdleNetwork(w.net.modules)])

\* One unit of psp_network_shutdown_pump and the event it is reported by.  A
\* stop on its way to another ladder keeps the code modules; a refused unload
\* keeps them too.
UnwindUnit(w) ==
    LET phase == w.lifecycle.shutdown
        retain == w.lifecycle.machine.stopping_target
                        \in {"Restart", "Offline"}
    IN  CASE phase = "Leaving" ->
                {w, LeaveFinished([w EXCEPT
                                        !.lifecycle.shutdown = "TermApctl"])}
          [] phase = "TermApctl" ->
                {RungUnwound(w, "TermResolver", {"Apctl"}, {})}
          [] phase = "TermResolver" ->
                {RungUnwound(w, "TermInet", {"Resolver"}, {})}
          [] phase = "TermInet" ->
                {RungUnwound(w, "TermCore", {"InetService"}, {})}
          [] phase = "TermCore" ->
                LET down == RungUnwound(w, "UnloadInet", {"Core"}, {})
                IN  {IF retain THEN UnwindComplete(down) ELSE down}
          [] phase = "UnloadInet" ->
                {RungUnwound(w, "UnloadCommon", {}, unloaded) :
                    unloaded \in {{}, {"Inet"}}}
          [] phase = "UnloadCommon" ->
                {UnwindComplete([w EXCEPT !.net.modules = @ \ unloaded]) :
                    unloaded \in {{}, {"Common"}}}

UnwindStage(w) ==
    IF InPhase(w.lifecycle.machine, "LeaveApctl")
            \/ InPhase(w.lifecycle.machine, "UnwindRungs")
    THEN UnwindUnit(BeginUnwind(w)) ELSE {w}

PumpStopping(w) == Then(DrainStage(AdmissionStage(w)), UnwindStage)

-----------------------------------------------------------------------------
(***************************************************************************)
(* One service unit of the supervisor: psp_network_lifecycle_pump.         *)
(***************************************************************************)

\* psp_network_rejoin_begin.
BeginRejoin(w) ==
    [w EXCEPT !.lifecycle.rejoin =
        IF "Apctl" \in w.net.services THEN "Leaving" ELSE "Failed"]

PumpStarting(w) ==
    LET m == w.lifecycle.machine
        begun == IF StatusActive(w.net) THEN w.net ELSE BeginLadder(w.net)
        settle(v) == IF StatusActive(v.net) THEN v ELSE LadderTerminal(v)
    IN  IF ~StatusActive(w.net) /\ m.target.profile = 0
        THEN {Send(w, OnLadderFailed(m, Snapshot(w), "Start"))}
        ELSE {settle([w EXCEPT !.net = n]) : n \in LadderUnit(begun)}

\* A probe is healthy only over an initialised APCTL and a ready ladder.
PumpProbing(w) ==
    LET m == w.lifecycle.machine
        probe == w.net.status = "Ready" /\ "Apctl" \in w.net.services
    IN  {BeginRejoin(Send(w, OnProbeFailed(m)))}
            \cup (IF probe THEN {Send(w, OnLinkUp(m))} ELSE {})

\* One unit of psp_network_rejoin_pump; TRUE in "joined" is REJOIN_COMPLETE.
RejoinOver(w, joined) ==
    LET m == w.lifecycle.machine
        w1 == [w EXCEPT !.lifecycle.rejoin = "None",
                        !.net.status = IF joined THEN "Ready" ELSE @]
    IN  Send(w1, IF joined THEN OnLinkUp(m) ELSE OnRejoinFailed(m))

\* Mutation: the wait for an address has no deadline.
PumpApctlWaits(w) ==
    CASE w.lifecycle.rejoin = "None" -> {BeginRejoin(w)}
      [] w.lifecycle.rejoin = "Failed" -> {RejoinOver(w, FALSE)}
      [] w.lifecycle.rejoin = "Leaving" ->
            {w, [w EXCEPT !.lifecycle.rejoin = "WaitingIp"]}
      [] w.lifecycle.rejoin = "WaitingIp" -> {w}

PumpApctl(w) ==
    CASE w.lifecycle.rejoin = "None" -> {BeginRejoin(w)}
      [] w.lifecycle.rejoin = "Failed" -> {RejoinOver(w, FALSE)}
      [] w.lifecycle.rejoin = "Leaving" ->
            {w, [w EXCEPT !.lifecycle.rejoin = "WaitingIp"],
             RejoinOver(w, FALSE)}
      [] w.lifecycle.rejoin = "WaitingIp" ->
            {w, RejoinOver(w, TRUE), RejoinOver(w, FALSE)}

\* Mutation: a stop on its way to a restart is not pumped.
LifecyclePumpSkipsRestart(w) ==
    LET m == w.lifecycle.machine
    IN  CASE m.state = "Starting" -> PumpStarting(w)
          [] m.state = "Ready" -> {w, Send(w, OnRegressionHint(m))}
          [] m.state = "Rejoining" /\ m.rejoin_phase = "Probing" ->
                PumpProbing(w)
          [] m.state = "Rejoining" /\ m.rejoin_phase = "Apctl" -> PumpApctl(w)
          [] OTHER -> {w}

LifecyclePump(w) ==
    LET m == w.lifecycle.machine
    IN  CASE m.state = "Starting" -> PumpStarting(w)
          [] m.state = "Ready" -> {w, Send(w, OnRegressionHint(m))}
          [] m.state = "Rejoining" /\ m.rejoin_phase = "Probing" ->
                PumpProbing(w)
          [] m.state = "Rejoining" /\ m.rejoin_phase = "Apctl" -> PumpApctl(w)
          [] m.state = "Stopping"
                /\ m.stopping_target \in {"Restart", "Offline"} ->
                PumpStopping(w)
          [] OTHER -> {w}

\* psp_multiplayer_pump, after the supervisor's unit in every frame.
ReleaseSession(w) ==
    IF w.session.phase = "Running" THEN w
    ELSE Request([w EXCEPT !.session.phase = "None",
                           !.session.cancel_pending = FALSE],
                 "Multiplayer", FALSE)

MultiplayerPump(w) ==
    LET s == w.session
    IN  CASE s.phase = "None" -> {w}
          [] s.phase # "None" /\ s.cancel_pending -> {ReleaseSession(w)}
          [] s.phase # "None" /\ ~s.cancel_pending /\ s.network_stop ->
                {IF s.phase = "Running" THEN w
                 ELSE [w EXCEPT !.session.phase = "Closed"]}
          [] s.phase = "Waiting" /\ ~s.cancel_pending /\ ~s.network_stop ->
                {[w EXCEPT !.session.phase = "Closed"]}
                    \cup (IF LifecycleReady(w)
                          THEN {[w EXCEPT !.session.phase = "Running"]}
                          ELSE {w})
          [] OTHER -> {w}

-----------------------------------------------------------------------------
(***************************************************************************)
(* Calls of the browser thread and what they return to.                    *)
(***************************************************************************)
GoTo(at, then) == browser' = [at |-> at, then |-> then]
At(place) == browser.at = place

\* psp_shutdown_network_logged: the target before the loop.
LegacyOff(w) ==
    LET m == w.lifecycle.machine
    IN  IF m.state = "Stopping" THEN w
        ELSE Send(w, OnTargetChanged(m, Snapshot(w), Target("Off", "None", 0)))

StartShutdown(w, then) == Become(LegacyOff(w)) /\ GoTo("Shutdown", then)

\* psp_connect_network: voice gives way, then the navigation demand is set.
StartDial(w, then) ==
    /\ Become(Request(Request(w, "Voice", FALSE), "Navigation", TRUE))
    /\ GoTo("Recover", then)

\* The halted epilogue of psp_script_main.
StartHalt(w) ==
    IF Started(w.lifecycle.machine)
    THEN StartShutdown(Request(w, "Shutdown", TRUE), "Halted")
    ELSE Become(w) /\ GoTo("Halted", "Halted")

ToLoop(w) == Become(w) /\ GoTo("Loop", "Loop")

\* What each caller of psp_connect_network does with a refusal.
DialFailed(w, caller) ==
    LET m == w.lifecycle.machine
    IN  CASE caller = "Navigation" ->
                IF Started(m) /\ ~NeedsRecovery(m)
                THEN StartShutdown(w, "Loop") ELSE ToLoop(w)
          [] caller = "Resume" ->
                IF Started(m) THEN StartShutdown(w, "Loop") ELSE ToLoop(w)
          [] caller = "Startup" ->
                IF Started(m) THEN StartShutdown(w, "Halt") ELSE StartHalt(w)

ShutdownReturns(w, stopped) ==
    CASE browser.then = "Dial" ->
            IF stopped THEN StartDial(w, "Navigation") ELSE ToLoop(w)
      [] browser.then = "Halt" -> StartHalt(w)
      [] browser.then = "Asleep" -> Become(w) /\ GoTo("Asleep", "Started")
      [] browser.then \in {"Loop", "Halted"} ->
            Become(w) /\ GoTo(browser.then, browser.then)

-----------------------------------------------------------------------------
(***************************************************************************)
(* Actions of the browser thread.                                          *)
(***************************************************************************)
Init ==
    /\ lifecycle = [machine |-> InitialMachine, gate |-> FALSE,
                    requests |-> {}, quiesce_requested |-> FALSE,
                    shutdown |-> "Idle", rejoin |-> "None"]
    /\ net = IdleNetwork({})
    /\ slots = [i \in Slots |-> "Free"]
    /\ session = [phase |-> "None", network_stop |-> FALSE,
                  cancel_pending |-> FALSE]
    /\ browser = [at |-> "Boot", then |-> "Loop"]

\* A local home page: the warm-up ladder is begun and the BOOT request set,
\* unless the firmware launch or the configuration forbids it.
BootHome ==
    /\ At("Boot")
    /\ \/ ToLoop(World)
       \/ /\ "WarmUp" \in Activities
          /\ ToLoop(Request([World EXCEPT !.net = BeginLadder(net)],
                            "Boot", TRUE))

\* A start page that needs the network connects before the first frame.
BootOnline == At("Boot") /\ StartDial(World, "Startup")

\* The tail of a frame.
FramePump ==
    /\ At("Loop")
    /\ \E w \in Then(LifecyclePump(World), MultiplayerPump) : Become(w)
    /\ UNCHANGED browser

\* psp_ensure_network_for_navigation for a URL that needs the network.
Navigate ==
    LET m == lifecycle.machine
    IN  /\ At("Loop")
        /\ ~LifecycleReady(World)
        /\ IF /\ Started(m)
              /\ m.stack # "ModulesOnly"
              /\ ~StatusActive(net)
              /\ ~NeedsRecovery(m)
           THEN StartShutdown(World, "Dial")
           ELSE StartDial(World, "Navigation")

\* One iteration of the blocking stop.
ShutdownStep ==
    /\ At("Shutdown")
    /\ \E w \in PumpStopping(World) :
        LET m == w.lifecycle.machine
        IN  IF m.state # "Stopping" THEN ShutdownReturns(w, TRUE)
            ELSE IF m.stopping_phase = "LeaseWedged"
            THEN ShutdownReturns(w, FALSE)
            ELSE Become(w) /\ UNCHANGED browser

\* psp_network_lifecycle_drive_demand_recovery: one unit of its slice.
RecoverStep ==
    /\ At("Recover")
    /\ NeedsRecovery(lifecycle.machine)
    /\ \E w \in LifecyclePump(World) : Become(w)
    /\ UNCHANGED browser

\* Mutation: the foreground ladder does not look at the supervisor's verdict.
RecoverEndUnchecked ==
    /\ At("Recover")
    /\ IF LifecycleReady(World) THEN ToLoop(World)
       ELSE /\ Become([World EXCEPT
                        !.net = IF StatusActive(net) THEN net
                                ELSE BeginLadder(net)])
            /\ GoTo("Connect", browser.then)

\* psp_connect_network_prepared once recovery is over, or stopped by the user.
RecoverEnd ==
    LET m == lifecycle.machine
        late == LadderTerminal(World)
    IN  /\ At("Recover")
        /\ IF LifecycleReady(World) THEN ToLoop(World)
           ELSE IF NeedsRecovery(m) \/ m.state = "Offline"
           THEN DialFailed(World, browser.then)
           ELSE IF net.status = "Ready"
           THEN IF LifecycleReady(late) THEN ToLoop(late)
                                        ELSE DialFailed(late, browser.then)
           ELSE /\ Become([World EXCEPT
                            !.net = IF StatusActive(net) THEN net
                                    ELSE BeginLadder(net)])
                /\ GoTo("Connect", browser.then)

\* One unit of the foreground ladder, or the user's cancel.
ConnectStep ==
    /\ At("Connect")
    /\ \E n \in LadderUnit(net) \cup {[net EXCEPT !.status = "Cancelled"]} :
        LET w == [World EXCEPT !.net = n]
        IN  IF StatusActive(n) THEN Become(w) /\ UNCHANGED browser
            ELSE IF n.status = "Ready" THEN ToLoop(LadderTerminal(w))
            ELSE DialFailed(LadderTerminal(w), browser.then)

\* psp_media_prepare_network: demand without a blocking dialog.
MediaConnect ==
    /\ At("Loop")
    /\ "Media" \in Activities
    /\ ~LifecycleReady(World)
    /\ Become(Request(World, "Navigation", TRUE))
    /\ UNCHANGED browser

\* Opening an offline item gives up the warm-up only.
OfflineOpen ==
    /\ At("Loop")
    /\ "OfflineItem" \in Activities
    /\ Become(Request(World, "Boot", FALSE))
    /\ UNCHANGED browser

\* Voice input reclaims the stack's memory after cancelling page work.
VoiceReclaim ==
    /\ At("Loop")
    /\ "Voice" \in Activities
    /\ \E which \in SUBSET Slots :
        LET w == [World EXCEPT !.slots = CancelSlots(@, which)]
        IN  IF Started(lifecycle.machine)
            THEN StartShutdown(Request(w, "Voice", TRUE), "Loop")
            ELSE Become(w) /\ UNCHANGED browser

(***************************************************************************)
(* Suspend and resume.  A ready stack is retained: the callback asks the   *)
(* workers to stop and only looks once, by when some of them may be done.  *)
(***************************************************************************)
Retain(w) ==
    LET stopped == Send(w, OnAdmissionStopped(w.lifecycle.machine,
                                              Snapshot(w)))
        asked == RequestQuiesce(stopped)
        late == {i \in Slots : asked.slots[i] = "Cancelling"}
        looked(done) == [asked EXCEPT
            !.slots = [i \in Slots |-> IF i \in done THEN "Free" ELSE @[i]]]
        reported(v) ==
            LET m == v.lifecycle.machine
            IN  Send(v, IF Quiesced(v) THEN OnLeasesReleased(m)
                                       ELSE OnDrainTimeout(m, Snapshot(v)))
    IN  IF InPhase(stopped.lifecycle.machine, "DrainLeases")
        THEN {reported(looked(done)) : done \in SUBSET late}
        ELSE {stopped}

Suspend ==
    LET started == Started(lifecycle.machine)
        ready == LifecycleReady(World)
        asked == Request(World, "Suspend", TRUE)
    IN  /\ At("Loop")
        /\ "Sleep" \in Activities
        /\ \/ ~started /\ Become(World) /\ GoTo("Asleep", "Off")
           \/ /\ started /\ ready
              /\ \E w \in Retain(asked) : Become(w)
              /\ GoTo("Asleep", "Ready")
           \/ /\ started /\ ~ready
              /\ \E which \in SUBSET Slots :
                    StartShutdown([asked EXCEPT !.slots =
                                        CancelSlots(@, which)], "Asleep")

\* psp_network_lifecycle_resume_result.
ResumeResult(w, retained, healthy) ==
    LET held(v) == /\ v.lifecycle.machine.state = "SuspendedRetained"
                   /\ v.lifecycle.machine.stack = "RetainedWedged"
        cleared == IF retained /\ held(w) /\ Quiesced(w)
                   THEN Send(w, OnLeasesReleased(w.lifecycle.machine)) ELSE w
        awake == Request(cleared, "Suspend", FALSE)
        probing == Send(awake, OnResume(awake.lifecycle.machine))
        m == probing.lifecycle.machine
    IN  IF ~retained \/ held(cleared) THEN awake
        ELSE Send(probing, IF healthy THEN OnLinkUp(m) ELSE OnProbeFailed(m))

Resume ==
    LET probe == net.status = "Ready" /\ "Apctl" \in net.services
    IN  /\ At("Asleep")
        /\ \/ browser.then = "Off" /\ ToLoop(World)
           \/ /\ browser.then = "Ready"
              /\ \E healthy \in IF probe THEN BOOLEAN ELSE {FALSE},
                    which \in SUBSET Slots :
                    LET w == ResumeResult(World, TRUE, healthy)
                    IN  IF LifecycleReady(w) THEN ToLoop(w)
                        ELSE StartDial([w EXCEPT !.slots =
                                            CancelSlots(@, which)], "Resume")
           \/ /\ browser.then = "Started"
              /\ StartDial(ResumeResult(World, FALSE, FALSE), "Resume")

(***************************************************************************)
(* Exit: the multiplayer session is cancelled, the engine gives up its     *)
(* requests, the transport is told to quiesce; the stack is taken down     *)
(* only when both workers have really stopped.                             *)
(***************************************************************************)
Exit ==
    /\ At("Loop")
    /\ "Exit" \in Activities
    /\ Become([World EXCEPT !.slots = CancelSlots(@, Slots),
                            !.session.cancel_pending = session.phase # "None"])
    /\ GoTo("Exiting", "Halted")

ExitSession ==
    /\ At("Exiting")
    /\ session.phase \notin {"None", "Running"}
    /\ Become(ReleaseSession(World))
    /\ UNCHANGED browser

ExitTransport ==
    /\ At("Exiting")
    /\ Become([World EXCEPT !.slots = CancelSlots(@, Slots)])
    /\ GoTo("Quitting", "Halted")

\* Either both workers are gone, or a bounded wait for one of them ran out
\* and the process exits over the retained stack.
ExitStack ==
    /\ At("Quitting")
    /\ IF session.phase = "None" /\ ActiveOperations(slots) = 0
       THEN StartHalt(World)
       ELSE Become(World) /\ GoTo("Halted", "Halted")

(***************************************************************************)
(* Consumers: the page and the media session, on the browser thread.       *)
(***************************************************************************)
Enqueue ==
    /\ At("Loop")
    /\ lifecycle.gate
    /\ \E i \in Slots : slots[i] = "Free"
                        /\ slots' = [slots EXCEPT ![i] = "Queued"]
    /\ UNCHANGED <<lifecycle, net, session, browser>>

TakeResult ==
    /\ At("Loop")
    /\ \E i \in Slots : slots[i] = "Complete"
                        /\ slots' = [slots EXCEPT ![i] = "Free"]
    /\ UNCHANGED <<lifecycle, net, session, browser>>

CancelRequest ==
    /\ At("Loop")
    /\ \E i \in Slots : /\ slots[i] \in {"Queued", "Running", "Complete"}
                        /\ slots' = CancelSlots(slots, {i})
    /\ UNCHANGED <<lifecycle, net, session, browser>>

\* multiplayer_backend_open: a new session takes the stop flag back.
OpenSession ==
    /\ At("Loop")
    /\ "Multiplayer" \in Activities
    /\ session.phase = "None"
    /\ Become(Request([World EXCEPT !.session.phase = "Waiting",
                                    !.session.network_stop = FALSE],
                      "Multiplayer", TRUE))
    /\ UNCHANGED browser

CancelSession ==
    /\ At("Loop")
    /\ session.phase # "None"
    /\ Become(ReleaseSession([World EXCEPT !.session.cancel_pending = TRUE]))
    /\ UNCHANGED browser

\* The page takes the close event, which releases the session.
TakeClose ==
    /\ At("Loop")
    /\ session.phase \in {"Done", "Closed"}
    /\ Become(ReleaseSession(World))
    /\ UNCHANGED browser

-----------------------------------------------------------------------------
(***************************************************************************)
(* Actions of the workers.                                                 *)
(***************************************************************************)
Advance(i, from, to) ==
    /\ slots[i] = from
    /\ slots' = [slots EXCEPT ![i] = to]
    /\ UNCHANGED <<lifecycle, net, session, browser>>

StartTransfer(i) == Advance(i, "Queued", "Running")
FinishTransfer(i) == Advance(i, "Running", "Complete")

RetireTransfer(i) == Advance(i, "Cancelling", "Free")

\* The multiplayer worker leaves its loop and publishes worker_done.
WorkerDone ==
    /\ session.phase = "Running"
    /\ session' = [session EXCEPT !.phase = "Done"]
    /\ UNCHANGED <<lifecycle, net, slots, browser>>

Transport == \E i \in Slots : \/ StartTransfer(i) \/ FinishTransfer(i)
                              \/ RetireTransfer(i)

Next ==
    \/ BootHome \/ BootOnline \/ FramePump \/ Navigate \/ ShutdownStep
    \/ RecoverStep \/ RecoverEnd \/ ConnectStep \/ MediaConnect
    \/ OfflineOpen \/ VoiceReclaim \/ Suspend \/ Resume
    \/ Exit \/ ExitSession \/ ExitTransport \/ ExitStack
    \/ Enqueue \/ TakeResult \/ CancelRequest
    \/ OpenSession \/ CancelSession \/ TakeClose
    \/ Transport \/ WorkerDone

Spec == Init /\ [][Next]_vars

(***************************************************************************)
(* Fairness: the browser thread keeps running inside every blocking call,  *)
(* and each firmware wait in it is bounded by a timeout of the code, so a  *)
(* unit that changes nothing is not repeated for ever.  The frame loop     *)
(* pumps the supervisor and the session once per frame whatever the user   *)
(* does in it, hence the strong fairness.  A worker that has been told to  *)
(* stop does.  Nothing obliges the user, the page or a healthy link.       *)
(***************************************************************************)
BlockedThreadStep ==
    \/ BootHome \/ BootOnline
    \/ ShutdownStep \/ ConnectStep \/ RecoverStep
    \/ RecoverEnd /\ ~NeedsRecovery(lifecycle.machine)
    \/ ExitTransport \/ ExitStack

LifecycleProgress ==
    /\ At("Loop")
    /\ lifecycle.machine.state # "Ready"
    /\ \E v \in LifecyclePump(World) \ {World} :
            \E w \in MultiplayerPump(v) : Become(w)
    /\ UNCHANGED browser

SessionProgress ==
    /\ At("Loop")
    /\ session.cancel_pending \/ session.network_stop
    /\ \E v \in LifecyclePump(World) :
            \E w \in MultiplayerPump(v) \ {v} : Become(w)
    /\ UNCHANGED browser

StoppedWorker ==
    (session.cancel_pending \/ session.network_stop) /\ WorkerDone

Fairness ==
    /\ WF_vars(BlockedThreadStep)
    /\ SF_vars(LifecycleProgress) /\ SF_vars(SessionProgress)
    /\ WF_vars(StoppedWorker)
    /\ \A i \in Slots : WF_vars(RetireTransfer(i))

FairSpec == Spec /\ Fairness

-----------------------------------------------------------------------------
(***************************************************************************)
(* Properties.                                                             *)
(***************************************************************************)

\* Every variable stays within its type.
TypeOK ==
    /\ lifecycle \in [machine : Machine, gate : BOOLEAN,
                      requests : SUBSET Requesters,
                      quiesce_requested : BOOLEAN,
                      shutdown : ShutdownPhases,
                      rejoin : RejoinServicePhases]
    /\ net \in [status : Statuses, modules : SUBSET Modules,
                services : SUBSET Services]
    /\ slots \in [Slots -> SlotStates]
    /\ session \in [phase : SessionPhases, network_stop : BOOLEAN,
                    cancel_pending : BOOLEAN]
    /\ browser \in [at : Places, then : Returns]

\* What the reducer believes of the native stack is true of it: the services
\* are all down in Off, Offline and SuspendedOff, all up in Rejoining and
\* SuspendedRetained, and up with an address in Ready (the resource table of
\* docs/engineering/PSP_NETWORK_SUPERVISOR.md), although the ladder and the
\* unwind run outside the reducer and only report to it.
MachineKnowsStack ==
    LET state == lifecycle.machine.state
    IN  /\ state \in Resting => net.services = {}
        /\ state \in {"Ready", "Rejoining", "SuspendedRetained"} =>
                net.services = Services
        /\ state = "Ready" => net.status = "Ready"

\* The gate is open only over a full stack: nothing is admitted to a stack
\* that is coming up, being probed, held for a suspend or coming down.
AdmissionOverFullStack ==
    lifecycle.gate => net.services = Services /\ net.status = "Ready"

\* No transfer is in curl or the resolver, cancelled or not, while a service
\* is missing: a drain that times out, a suspend in the middle of a stop and
\* a retargeted stop all leave the stack to the transfer.
TransferOwnsStack ==
    (\E i \in Slots : slots[i] \in {"Running", "Cancelling"}) =>
        net.services = Services

\* A Starting machine's ladder tells exactly which services are up, whoever
\* pumped it last and however the previous one was interrupted: no ladder is
\* adopted or begun over services that another one initialised ("retry can
\* never construct a second stack over initialized services").
ServicesBelow(status) ==
    CASE status = "InitInet" -> {"Core"}
      [] status = "InitResolver" -> {"Core", "InetService"}
      [] status = "InitApctl" -> {"Core", "InetService", "Resolver"}
      [] status \in {"Connecting", "WaitingForIp"} -> Services
      [] OTHER -> {}
LadderMatchesServices ==
    lifecycle.machine.state = "Starting" =>
        net.services = ServicesBelow(net.status)

\* What the machine, the gate and the ladder each believe of the services
\* stays true, although firmware, suspend and the blocking calls move these
\* behind the reducer's back.
BeliefIsTrue ==
    MachineKnowsStack /\ AdmissionOverFullStack /\ LadderMatchesServices

\* The foreground ladder only ever runs for a machine that is Starting, so
\* its result is never reported into a state that ignores it and a successful
\* connect really leaves the machine Ready.
ForegroundLadderIsOwned ==
    At("Connect") =>
        lifecycle.machine.state = "Starting" /\ StatusActive(net)

\* A quiesce that a stop believes to have requested covers every operation
\* that is still alive: none was admitted, queued or started after it, and
\* the multiplayer worker has its stop flag.
QuiesceCoversAll ==
    lifecycle.quiesce_requested =>
        /\ \A i \in Slots : slots[i] \in {"Free", "Cancelling"}
        /\ SessionOwned(session) => session.network_stop

\* No stop, ladder or exit that blocks the browser thread waits for ever for
\* the firmware or a worker, and the nested calls of a failed navigation,
\* resume or start-up do not chase each other.
BlockingCallsReturn ==
    At("Shutdown") \/ At("Connect") \/ At("Exiting") \/ At("Quitting")
        ~> At("Loop") \/ At("Recover") \/ At("Asleep") \/ At("Halted")

\* The reconnect wait of a navigation ends without the user's cancel, over a
\* wedge too, unless a multiplayer session is still owned: that session is
\* only joined by the frame loop, which the wait keeps from running.
RecoveryNeedsNoUser ==
    At("Recover") /\ ~SessionOwned(session) ~> ~At("Recover")

\* A stop that meets a demand for the network ends, wedged or not: its leases
\* are released once their workers have stopped and the frame loop pumps the
\* supervisor until it has noticed ("stack alive; unload forbidden until
\* release").  Sleep, exit and the wait above suspend the obligation.
DemandOutlivesStop ==
    (lifecycle.machine.state = "Stopping"
            /\ lifecycle.machine.target.kind = "Ready")
        ~> \/ lifecycle.machine.state # "Stopping"
           \/ lifecycle.machine.target.kind # "Ready"
           \/ At("Asleep") \/ At("Exiting") \/ At("Quitting") \/ At("Halted")
           \/ At("Recover") /\ SessionOwned(session)

-----------------------------------------------------------------------------
(***************************************************************************)
(* What the repository says of this code and the code does not do.         *)
(***************************************************************************)

\* "No timeout grants permission to terminate a stack while another thread
\* might still be executing inside it", and "neither worker may be omitted
\* from teardown": the multiplayer worker never runs over a stack that is
\* being taken apart.
WorkerOwnsStack ==
    session.phase = "Running" => net.services = Services

=============================================================================
