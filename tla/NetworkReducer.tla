--------------------------- MODULE NetworkReducer ---------------------------
(***************************************************************************)
(* The outer lifecycle reducer of the PSP network stack                    *)
(* (src/src/psp_network_supervisor.c): a pure function from a machine, a   *)
(* snapshot of the native stack and one event to the next machine and a    *)
(* set of commands.  Each event is an operator On<Event> that returns a    *)
(* decision [next, commands]; deliberate no-ops are Ignore.                *)
(***************************************************************************)
EXTENDS Integers

CONSTANTS Profiles,   (* saved connection profiles a target may name       *)
          MaxLeases   (* the largest lease count a snapshot reports        *)

ASSUME ProfilesAssumption == Profiles \subseteq Nat \ {0}
ASSUME MaxLeasesAssumption == MaxLeases \in Nat

(***************************************************************************)
(* Enumerations of psp_network_supervisor.h.                               *)
(***************************************************************************)
States == {"Off", "Starting", "Ready", "Rejoining", "Stopping",
           "SuspendedRetained", "SuspendedOff", "Offline"}

\* What psp_network_lifecycle_stack can observe; the wedge is only ever
\* concluded by the reducer itself.
NativeStacks == {"None", "Partial", "Full", "ModulesOnly"}
Stacks == NativeStacks \cup {"RetainedWedged"}

RejoinPhases == {"None", "Probing", "Apctl"}
StoppingPhases == {"None", "Admission", "DrainLeases", "LeaseWedged",
                   "LeaveApctl", "UnwindRungs"}
StoppingTargets == {"None", "Off", "Offline", "SuspendedOff",
                    "SuspendedRetained", "Restart"}
Failures == {"None", "Start", "Rejoin", "WlanOff", "LeaseWedged",
             "Cancelled"}
Commands == {"StartLadder", "OpenAdmission", "StopAdmission",
             "CancelConsumers", "ProbeLink", "RejoinApctl",
             "DisconnectApctl", "UnwindOneRung", "RecordLeaseWedge"}

\* The targets psp_network_request_target can compute.
Target(kind, cause, profile) ==
    [kind |-> kind, cause |-> cause, profile |-> profile]

Targets ==
    [kind : {"Off"}, cause : {"None", "Voice", "Shutdown"}, profile : {0}]
    \cup [kind : {"Suspend"}, cause : {"Suspend"}, profile : {0}]
    \cup [kind : {"Ready"}, cause : {"Boot", "Navigation", "Multiplayer"},
          profile : Profiles]

RejoinBudget == 2

Machine ==
    [state : States, stack : Stacks, target : Targets,
     rejoin_phase : RejoinPhases, stopping_phase : StoppingPhases,
     stopping_target : StoppingTargets, failure : Failures,
     rejoin_attempts : 0 .. RejoinBudget,
     retained_lease_count : 0 .. MaxLeases, admission_open : BOOLEAN]

Snapshots == [stack : NativeStacks, lease_count : 0 .. MaxLeases]

InitialMachine ==
    [state |-> "Off", stack |-> "None", target |-> Target("Off", "None", 0),
     rejoin_phase |-> "None", stopping_phase |-> "None",
     stopping_target |-> "None", failure |-> "None", rejoin_attempts |-> 0,
     retained_lease_count |-> 0, admission_open |-> FALSE]

-----------------------------------------------------------------------------
(***************************************************************************)
(* Decisions and the helpers that enter a state.                           *)
(***************************************************************************)
Decide(m, cmds) == [next |-> m, commands |-> cmds]
Ignore(m) == Decide(m, {})

ClearChildren(m) ==
    [m EXCEPT !.rejoin_phase = "None", !.stopping_phase = "None",
              !.stopping_target = "None"]

EnterStarting(m) ==
    Decide([ClearChildren(m) EXCEPT
                !.state = "Starting",
                !.stack = IF @ = "ModulesOnly" THEN @ ELSE "None",
                !.admission_open = FALSE,
                !.retained_lease_count = 0],
           {"StartLadder"})

EnterReady(m) ==
    Decide([ClearChildren(m) EXCEPT
                !.state = "Ready", !.stack = "Full",
                !.admission_open = TRUE, !.failure = "None",
                !.rejoin_attempts = 0, !.retained_lease_count = 0],
           {"OpenAdmission"})

EnterRejoining(m) ==
    Decide([ClearChildren(m) EXCEPT
                !.state = "Rejoining", !.rejoin_phase = "Probing",
                !.stack = "Full", !.admission_open = FALSE],
           {"StopAdmission", "ProbeLink"})

\* Mutation: a stop that keeps the child phase it interrupts.
EnterStoppingDirty(m, target, failure) ==
    Decide([m EXCEPT
                !.state = "Stopping", !.stopping_phase = "Admission",
                !.stopping_target = target, !.admission_open = FALSE],
           {"StopAdmission"})

EnterStopping(m, target, failure) ==
    Decide([ClearChildren(m) EXCEPT
                !.state = "Stopping", !.stopping_phase = "Admission",
                !.stopping_target = target, !.admission_open = FALSE,
                !.failure = IF failure = "None" THEN @ ELSE failure],
           {"StopAdmission"})

FinishStopping(m, remaining) ==
    LET gone == [ClearChildren(m) EXCEPT
                    !.stack = IF remaining = "ModulesOnly" THEN remaining
                                                           ELSE "None",
                    !.admission_open = FALSE,
                    !.retained_lease_count = 0]
    IN  CASE m.stopping_target = "Off" ->
                Ignore([gone EXCEPT !.state = "Off", !.failure = "None"])
          [] m.stopping_target = "Offline" ->
                Ignore([gone EXCEPT
                    !.state = "Offline",
                    !.failure = IF @ = "None" THEN "Start" ELSE @])
          [] m.stopping_target = "SuspendedOff" ->
                Ignore([gone EXCEPT !.state = "SuspendedOff"])
          [] m.stopping_target = "Restart" -> EnterStarting(gone)
          [] m.stopping_target \in {"None", "SuspendedRetained"} ->
                Ignore([gone EXCEPT !.state = "Offline", !.failure = "Start"])

BeginLeaveOrFinish(m) ==
    IF m.stopping_target = "SuspendedRetained"
    THEN Ignore([ClearChildren(m) EXCEPT
                    !.state = "SuspendedRetained", !.stack = "Full",
                    !.admission_open = FALSE, !.retained_lease_count = 0])
    ELSE IF m.stack = "None"
    THEN FinishStopping(m, "None")
    ELSE Decide([m EXCEPT !.stopping_phase = "LeaveApctl"],
                {"DisconnectApctl"})

-----------------------------------------------------------------------------
(***************************************************************************)
(* TARGET_CHANGED: psp_network_apply_target.                               *)
(***************************************************************************)
Resting == {"Off", "Offline", "SuspendedOff"}

\* A refused unload left code modules behind: going off or to sleep retries
\* the unload instead of believing in an empty stack.
RetriesUnload(m, kind) ==
    m.state \in Resting /\ m.stack = "ModulesOnly" /\ kind # "Ready"

\* Where an ordinary stop goes when the target changes under it.
Retarget(m, kind) ==
    CASE kind = "Ready" -> "Restart"
      [] kind = "Suspend" -> IF m.stack \in {"Full", "RetainedWedged"}
                             THEN "SuspendedRetained" ELSE "SuspendedOff"
      [] kind = "Off" -> "Off"

\* Mutation: a demand that resumes over a wedge.
TargetReadyOverWedge(m) ==
    CASE m.state \in Resting -> EnterStarting(m)
      [] m.state = "SuspendedRetained" -> EnterRejoining(m)
      [] OTHER -> Ignore(m)

TargetReady(m) ==
    CASE m.state \in Resting -> EnterStarting(m)
      [] m.state = "SuspendedRetained" /\ m.stack # "RetainedWedged" ->
            EnterRejoining(m)
      [] OTHER -> Ignore(m)

TargetSuspend(m, s) ==
    CASE m.state \in Resting ->
            Ignore([ClearChildren(m) EXCEPT !.state = "SuspendedOff",
                                            !.stack = "None",
                                            !.admission_open = FALSE])
      [] m.state \in {"Ready", "Rejoining"} ->
            EnterStopping(m, "SuspendedRetained", "None")
      [] m.state = "Starting" ->
            EnterStopping([m EXCEPT !.stack = s.stack], "SuspendedOff", "None")
      [] OTHER -> Ignore(m)

TargetOff(m, s) ==
    CASE m.state \in {"Offline", "SuspendedOff"} ->
            Ignore([ClearChildren(m) EXCEPT !.state = "Off",
                                            !.stack = "None",
                                            !.failure = "None"])
      [] m.state \in {"SuspendedRetained", "Ready", "Rejoining"} ->
            EnterStopping(m, "Off", "None")
      [] m.state = "Starting" ->
            EnterStopping([m EXCEPT !.stack = s.stack], "Off", "None")
      [] OTHER -> Ignore(m)

OnTargetChanged(old, s, target) ==
    LET m == [old EXCEPT !.target = target]
        kind == target.kind
    IN  CASE RetriesUnload(m, kind) ->
                EnterStopping(m, IF kind = "Suspend" THEN "SuspendedOff"
                                                     ELSE "Off", "None")
          [] m.state = "Stopping" ->
                Ignore([m EXCEPT !.stopping_target = Retarget(m, kind)])
          [] OTHER ->
                CASE kind = "Ready" -> TargetReady(m)
                  [] kind = "Suspend" -> TargetSuspend(m, s)
                  [] kind = "Off" -> TargetOff(m, s)

-----------------------------------------------------------------------------
(***************************************************************************)
(* The events of a stop: psp_network_transition_stopping.                  *)
(***************************************************************************)
InPhase(m, phase) == m.state = "Stopping" /\ m.stopping_phase = phase

OnAdmissionStopped(m, s) ==
    IF ~InPhase(m, "Admission") THEN Ignore(m)
    ELSE IF s.lease_count # 0
    THEN Decide([m EXCEPT !.stopping_phase = "DrainLeases"],
                {"CancelConsumers"})
    ELSE BeginLeaveOrFinish(m)

\* The release report also ends the retained wedge of a suspend.
OnLeasesReleased(m) ==
    LET freed == [m EXCEPT !.stack = "Full", !.retained_lease_count = 0]
    IN  CASE InPhase(m, "DrainLeases") -> BeginLeaveOrFinish(m)
          [] InPhase(m, "LeaseWedged") -> BeginLeaveOrFinish(freed)
          [] m.state = "SuspendedRetained" /\ m.stack = "RetainedWedged" ->
                IF m.target.kind = "Ready" THEN EnterRejoining(freed)
                                           ELSE Ignore(freed)
          [] OTHER -> Ignore(m)

\* Mutation: a timeout that gives up waiting and tears down.
OnDrainTimeoutProceeds(m, s) ==
    IF InPhase(m, "DrainLeases") THEN BeginLeaveOrFinish(m) ELSE Ignore(m)

OnDrainTimeout(m, s) ==
    LET wedged == [m EXCEPT !.retained_lease_count = s.lease_count,
                            !.stack = "RetainedWedged"]
    IN  IF ~InPhase(m, "DrainLeases") THEN Ignore(m)
        ELSE IF m.stopping_target = "SuspendedRetained"
        THEN Decide([ClearChildren(wedged) EXCEPT
                        !.state = "SuspendedRetained"], {"RecordLeaseWedge"})
        ELSE Decide([wedged EXCEPT !.stopping_phase = "LeaseWedged",
                                   !.failure = "LeaseWedged"],
                    {"RecordLeaseWedge"})

\* APCTL_DISCONNECTED and LEAVE_TIMEOUT are one step of the reducer.
OnLeaveFinished(m) ==
    IF InPhase(m, "LeaveApctl")
    THEN Decide([m EXCEPT !.stopping_phase = "UnwindRungs"],
                {"UnwindOneRung"})
    ELSE Ignore(m)

OnRungUnwound(m) ==
    IF InPhase(m, "UnwindRungs") THEN Decide(m, {"UnwindOneRung"})
                                 ELSE Ignore(m)

OnUnwound(m, s) ==
    IF InPhase(m, "UnwindRungs") THEN FinishStopping(m, s.stack)
                                 ELSE Ignore(m)

-----------------------------------------------------------------------------
(***************************************************************************)
(* The remaining events: psp_network_supervisor_transition.                *)
(***************************************************************************)
OnLadderReady(m) ==
    IF m.state = "Starting" THEN EnterReady(m) ELSE Ignore(m)

OnLadderFailed(m, s, failure) ==
    IF m.state = "Starting"
    THEN EnterStopping([m EXCEPT !.stack = s.stack], "Offline",
                       IF failure = "None" THEN "Start" ELSE failure)
    ELSE Ignore(m)

OnRegressionHint(m) ==
    IF m.state = "Ready" THEN EnterRejoining(m) ELSE Ignore(m)

\* Mutation: a late link report is believed in any state.
OnLinkUpAnywhere(m) == EnterReady(m)

\* PROBE_HEALTHY and REJOINED.
OnLinkUp(m) ==
    IF m.state = "Rejoining" THEN EnterReady(m) ELSE Ignore(m)

OnProbeFailed(m) ==
    IF m.state = "Rejoining"
    THEN Decide([m EXCEPT !.rejoin_phase = "Apctl", !.rejoin_attempts = 1],
                {"RejoinApctl"})
    ELSE Ignore(m)

OnRejoinFailed(m) ==
    IF m.state # "Rejoining" THEN Ignore(m)
    ELSE IF m.rejoin_attempts < RejoinBudget
    THEN EnterStopping([m EXCEPT !.rejoin_attempts = @ + 1],
                       "Restart", "Rejoin")
    ELSE EnterStopping(m, "Offline", "Rejoin")

OnResume(m) ==
    CASE m.state = "SuspendedRetained" /\ m.stack # "RetainedWedged" ->
            EnterRejoining(m)
      [] m.state = "SuspendedOff" /\ m.target.kind = "Ready" ->
            EnterStarting(m)
      [] OTHER -> Ignore(m)

OnRetry(m) ==
    IF m.state = "Offline" /\ m.target.kind = "Ready" THEN EnterStarting(m)
                                                      ELSE Ignore(m)

\* The two commands psp_network_lifecycle_dispatch executes itself; the other
\* ones are carried out by the pump that finds the machine in their phase.
GateAfter(open, cmds) ==
    (open /\ "StopAdmission" \notin cmds) \/ "OpenAdmission" \in cmds

-----------------------------------------------------------------------------
(***************************************************************************)
(* psp_network_supervisor_violations, one conjunct per violation bit       *)
(* (the range checks of the state and the target are part of TypeOK).      *)
(***************************************************************************)
StackAgrees(m) ==
    CASE m.state \in Resting -> m.stack \in {"None", "ModulesOnly"}
      [] m.state \in {"Starting", "Stopping"} -> m.stack \in Stacks
      [] m.state \in {"Ready", "Rejoining"} -> m.stack = "Full"
      [] m.state = "SuspendedRetained" ->
            m.stack \in {"Full", "RetainedWedged"}

ChildAgrees(m) ==
    /\ (m.state = "Stopping") <=> (/\ m.stopping_phase # "None"
                                   /\ m.stopping_target # "None")
    /\ (m.state = "Rejoining") <=> (m.rejoin_phase # "None")

AdmissionAgrees(m) == m.admission_open <=> m.state = "Ready"

LeaseAgrees(m) ==
    /\ m.retained_lease_count # 0 => m.stack = "RetainedWedged"
    /\ m.stack = "RetainedWedged" =>
            m.state \in {"Stopping", "SuspendedRetained"}

\* The abstract view of the machine.
CustodyOf(m) ==
    CASE m.state \in Resting -> "Absent"
      [] m.state = "Starting" -> "Building"
      [] m.state = "Ready" -> "Serving"
      [] m.state \in {"Rejoining", "SuspendedRetained"} -> "Held"
      [] m.state = "Stopping" ->
            IF m.stopping_phase \in {"LeaveApctl", "UnwindRungs"}
            THEN "Teardown" ELSE "Draining"

=============================================================================
