------------------------- MODULE NetworkSupervisor -------------------------
(***************************************************************************)
(* The network reducer under every driver: any event may arrive in any     *)
(* state with any snapshot the native layer can report, and each decision  *)
(* is applied the way psp_network_lifecycle_dispatch does it.  What holds  *)
(* here holds for every frontend, whatever it does between events.         *)
(***************************************************************************)
EXTENDS NetworkReducer

VARIABLES machine,   (* lifecycle->machine                                 *)
          commands,  (* the commands of the last decision                  *)
          gate,      (* fetch_background_admission_open                    *)
          released   (* history: since the current stop was entered, the   *)
                     (* reducer has been told that no lease is left        *)

supervisorVars == <<machine, commands, gate, released>>

SupervisorInit ==
    /\ machine = InitialMachine
    /\ commands = {}
    /\ gate = FALSE
    /\ released = FALSE

\* psp_network_lifecycle_dispatch: apply one decision.  noLease says that
\* the event reported an empty lease table.
Dispatch(decision, noLease) ==
    /\ machine' = decision.next
    /\ commands' = decision.commands
    /\ gate' = GateAfter(gate, decision.commands)
    /\ released' = /\ ~InPhase(decision.next, "Admission")
                   /\ released \/ noLease

TargetChangedEvent ==
    \E t \in Targets, s \in Snapshots :
        Dispatch(OnTargetChanged(machine, s, t), FALSE)
ResumeEvent == Dispatch(OnResume(machine), FALSE)
LadderReadyEvent == Dispatch(OnLadderReady(machine), FALSE)
LadderFailedEvent ==
    \E f \in Failures, s \in Snapshots :
        Dispatch(OnLadderFailed(machine, s, f), FALSE)
RegressionHintEvent == Dispatch(OnRegressionHint(machine), FALSE)
LinkUpEvent == Dispatch(OnLinkUp(machine), FALSE)
ProbeFailedEvent == Dispatch(OnProbeFailed(machine), FALSE)
RejoinFailedEvent == Dispatch(OnRejoinFailed(machine), FALSE)
AdmissionStoppedEvent ==
    \E s \in Snapshots :
        Dispatch(OnAdmissionStopped(machine, s), s.lease_count = 0)
LeasesReleasedEvent == Dispatch(OnLeasesReleased(machine), TRUE)
DrainTimeoutEvent ==
    \E s \in Snapshots : Dispatch(OnDrainTimeout(machine, s), FALSE)
LeaveFinishedEvent == Dispatch(OnLeaveFinished(machine), FALSE)
RungUnwoundEvent == Dispatch(OnRungUnwound(machine), FALSE)
UnwoundEvent == \E s \in Snapshots : Dispatch(OnUnwound(machine, s), FALSE)
RetryEvent == Dispatch(OnRetry(machine), FALSE)

SupervisorNext ==
    \/ TargetChangedEvent \/ ResumeEvent
    \/ LadderReadyEvent \/ LadderFailedEvent \/ RegressionHintEvent
    \/ LinkUpEvent \/ ProbeFailedEvent \/ RejoinFailedEvent
    \/ AdmissionStoppedEvent \/ LeasesReleasedEvent \/ DrainTimeoutEvent
    \/ LeaveFinishedEvent \/ RungUnwoundEvent \/ UnwoundEvent \/ RetryEvent

SupervisorSpec == SupervisorInit /\ [][SupervisorNext]_supervisorVars

-----------------------------------------------------------------------------
(***************************************************************************)
(* Properties.                                                             *)
(***************************************************************************)

\* Every field of the machine stays within its enumeration, the attempt
\* counter within its budget and the retained lease count within what a
\* snapshot can report (psp_network_supervisor_violations, bits STATE and
\* TARGET).
SupervisorTypeOK ==
    /\ machine \in Machine
    /\ commands \subseteq Commands
    /\ gate \in BOOLEAN
    /\ released \in BOOLEAN

\* psp_network_supervisor_violations returns zero after every event, in
\* whatever order the frontend delivers events and snapshots: a state never
\* claims a stack it cannot have, child phases exist exactly in their parent
\* state, admission is open exactly in Ready, and a retained lease count
\* names a wedged stack that is still held.
NoViolations ==
    /\ StackAgrees(machine)
    /\ ChildAgrees(machine)
    /\ AdmissionAgrees(machine)
    /\ LeaseAgrees(machine)

\* The transport's admission gate is moved only by the commands of the
\* decisions (psp_network_lifecycle_dispatch), never by the admission_open
\* field itself: the two agree in every state, so no transition that closes
\* the field forgets the command that closes the gate.
GateFollowsMachine == gate = machine.admission_open

\* Whatever order events, targets and drain results come in, the machine never
\* contradicts itself (psp_network_supervisor_violations) nor its gate.
MachineIsConsistent == NoViolations /\ GateFollowsMachine

\* The stack is left and unwound only in a stop during which the reducer was
\* told that no lease is left: a drain timeout alone never leads to the
\* native teardown (PSP_NETWORK_STOP_LEASE_WEDGED keeps the stack).
TeardownHasRelease ==
    machine.stopping_phase \in {"LeaveApctl", "UnwindRungs"} => released

\* A wedged stack stays wedged until a consumer's release is reported, the
\* admission-stopped snapshot shows an empty lease table, or the teardown
\* that such a report allowed completes (psp_network_transition_stopping):
\* no resume, retarget or timeout washes the wedge away.
WedgeNeedsRelease ==
    [][(machine.stack = "RetainedWedged" /\ machine'.stack # "RetainedWedged")
            => released']_supervisorVars

Custody == INSTANCE NetworkCustody WITH custody <- CustodyOf(machine),
                                        admitting <- gate

\* The reducer implements the custody protocol: consumers are admitted only
\* while Serving, a served stack is drained before it is dismantled and a
\* dismantled one is rebuilt from nothing (the state diagram of
\* docs/engineering/PSP_NETWORK_SUPERVISOR.md).
ImplementsCustody == Custody!Spec

=============================================================================
