---------------------------- MODULE NetworkProofs ----------------------------
(***************************************************************************)
(* Proofs about the network: first the supervisor under any driver, for    *)
(* every set of profiles and every bound on the lease count, then the      *)
(* frontend that drives it, for every set of transport slots, every        *)
(* profile and every choice of activities.                                 *)
(*                                                                         *)
(* The supervisor.  Every event operator is shown to return a decision     *)
(* that is StepOK from a Sound machine; one lemma about Dispatch then      *)
(* carries each of them to the inductive invariant, to the wedge property  *)
(* and to the custody refinement.                                          *)
(*                                                                         *)
(* The frontend.  The machine, the native stack and the lease table are    *)
(* related by Fits, which every operator on worlds keeps; Placed adds      *)
(* what each place of the browser thread allows.  IInv is their            *)
(* conjunction with the types.                                             *)
(***************************************************************************)
EXTENDS NetworkSupervisor, NetworkLifecycle, FiniteSetTheorems, TLAPS

-----------------------------------------------------------------------------
(***************************************************************************)
(* The values the operators assign belong to their enumerations.           *)
(***************************************************************************)
LEMMA EnumFacts ==
    /\ \A st \in {"Off", "Starting", "Ready", "Rejoining", "Stopping",
                  "SuspendedRetained", "SuspendedOff", "Offline"} :
            st \in States
    /\ \A k \in {"None", "Partial", "Full", "RetainedWedged", "ModulesOnly"} :
            k \in Stacks
    /\ "None" \in RejoinPhases /\ "Probing" \in RejoinPhases
    /\ "Apctl" \in RejoinPhases
    /\ \A p \in {"None", "Admission", "DrainLeases", "LeaseWedged",
                 "LeaveApctl", "UnwindRungs"} : p \in StoppingPhases
    /\ \A t \in {"None", "Off", "Offline", "SuspendedOff",
                 "SuspendedRetained", "Restart"} : t \in StoppingTargets
    /\ \A f \in {"None", "Start", "Rejoin", "LeaseWedged", "Cancelled"} :
            f \in Failures
    /\ 0 \in 0 .. RejoinBudget /\ 1 \in 0 .. RejoinBudget
    /\ 0 \in 0 .. MaxLeases
BY MaxLeasesAssumption DEF States, Stacks, NativeStacks, RejoinPhases,
   StoppingPhases, StoppingTargets, Failures, RejoinBudget

-----------------------------------------------------------------------------
(***************************************************************************)
(* The supervisor under any driver.                                        *)
(***************************************************************************)

\* A machine psp_network_supervisor_violations finds nothing wrong with.
Sound(m) ==
    /\ m \in Machine
    /\ StackAgrees(m)
    /\ ChildAgrees(m)
    /\ AdmissionAgrees(m)
    /\ LeaseAgrees(m)

InTeardown(m) == m.stopping_phase \in {"LeaveApctl", "UnwindRungs"}

\* The custody moves of NetworkCustody, as a relation on its states.
CustodyMove(from, to) ==
    \/ from = to
    \/ from \in {"Absent", "Draining", "Teardown"} /\ to = "Building"
    \/ from \in {"Building", "Held"} /\ to = "Serving"
    \/ from \in {"Serving", "Draining"} /\ to = "Held"
    \/ from \in {"Absent", "Building", "Serving", "Held"} /\ to = "Draining"
    \/ from = "Draining" /\ to = "Teardown"
    \/ from \in {"Draining", "Teardown"} /\ to = "Absent"

\* What a decision d taken in machine m owes, when its event did (noLease)
\* or did not report an empty lease table.
StepOK(m, d, noLease) ==
    /\ Sound(d.next)
    /\ d.commands \subseteq Commands
    /\ GateAfter(m.admission_open, d.commands) <=> d.next.admission_open
    /\ CustodyMove(CustodyOf(m), CustodyOf(d.next))
    /\ InTeardown(d.next) => InTeardown(m) \/ noLease
    /\ (m.stack = "RetainedWedged" /\ d.next.stack # "RetainedWedged") =>
            /\ InTeardown(m) \/ noLease
            /\ ~InPhase(d.next, "Admission")

SupervisorInv ==
    /\ SupervisorTypeOK
    /\ NoViolations
    /\ GateFollowsMachine
    /\ TeardownHasRelease

-----------------------------------------------------------------------------
(***************************************************************************)
(* The effect of each helper, field by field.                              *)
(***************************************************************************)
LEMMA StartingEntered ==
    ASSUME NEW m \in Machine
    PROVE  /\ EnterStarting(m).next \in Machine
           /\ EnterStarting(m).next.state = "Starting"
           /\ EnterStarting(m).next.stack \in {"None", "ModulesOnly"}
           /\ EnterStarting(m).next.rejoin_phase = "None"
           /\ EnterStarting(m).next.stopping_phase = "None"
           /\ EnterStarting(m).next.stopping_target = "None"
           /\ EnterStarting(m).next.admission_open = FALSE
           /\ EnterStarting(m).next.retained_lease_count = 0
           /\ EnterStarting(m).commands = {"StartLadder"}
BY EnumFacts DEF EnterStarting, Decide, ClearChildren, Machine

\* psp_network_enter_ready.
LEMMA ReadyEntered ==
    ASSUME NEW m \in Machine
    PROVE  /\ EnterReady(m).next \in Machine
           /\ EnterReady(m).next.state = "Ready"
           /\ EnterReady(m).next.stack = "Full"
           /\ EnterReady(m).next.rejoin_phase = "None"
           /\ EnterReady(m).next.stopping_phase = "None"
           /\ EnterReady(m).next.stopping_target = "None"
           /\ EnterReady(m).next.admission_open = TRUE
           /\ EnterReady(m).next.retained_lease_count = 0
           /\ EnterReady(m).commands = {"OpenAdmission"}
BY EnumFacts DEF EnterReady, Decide, ClearChildren, Machine

\* psp_network_enter_rejoining.
LEMMA RejoiningEntered ==
    ASSUME NEW m \in Machine
    PROVE  /\ EnterRejoining(m).next \in Machine
           /\ EnterRejoining(m).next.state = "Rejoining"
           /\ EnterRejoining(m).next.stack = "Full"
           /\ EnterRejoining(m).next.rejoin_phase = "Probing"
           /\ EnterRejoining(m).next.stopping_phase = "None"
           /\ EnterRejoining(m).next.stopping_target = "None"
           /\ EnterRejoining(m).next.admission_open = FALSE
           /\ EnterRejoining(m).next.retained_lease_count
                = m.retained_lease_count
           /\ EnterRejoining(m).commands = {"StopAdmission", "ProbeLink"}
BY EnumFacts DEF EnterRejoining, Decide, ClearChildren, Machine

\* psp_network_enter_stopping: the stack and the retained count are kept.
LEMMA StoppingEntered ==
    ASSUME NEW m \in Machine,
           NEW target \in StoppingTargets,
           NEW failure \in Failures
    PROVE  /\ EnterStopping(m, target, failure).next \in Machine
           /\ EnterStopping(m, target, failure).next.state = "Stopping"
           /\ EnterStopping(m, target, failure).next.stack = m.stack
           /\ EnterStopping(m, target, failure).next.rejoin_phase = "None"
           /\ EnterStopping(m, target, failure).next.stopping_phase
                = "Admission"
           /\ EnterStopping(m, target, failure).next.stopping_target = target
           /\ EnterStopping(m, target, failure).next.admission_open = FALSE
           /\ EnterStopping(m, target, failure).next.retained_lease_count
                = m.retained_lease_count
BY EnumFacts DEF EnterStopping, Decide, ClearChildren, Machine

\* Every entered stop closes the admission gate.
LEMMA EnterStoppingCommands ==
    ASSUME NEW m, NEW target, NEW failure
    PROVE  EnterStopping(m, target, failure).commands = {"StopAdmission"}
BY DEF EnterStopping, Decide

-----------------------------------------------------------------------------
(***************************************************************************)
(* Arriving in a state is a good decision from the machines that do it: m  *)
(* is the machine the event found, e the one the helper was called with.   *)
(***************************************************************************)
LEMMA ArriveStarting ==
    ASSUME NEW m, NEW e \in Machine, NEW noLease \in BOOLEAN, Sound(m),
           CustodyOf(m) \in {"Absent", "Draining", "Teardown"},
           m.stack = "RetainedWedged" => InTeardown(m) \/ noLease
    PROVE  StepOK(m, EnterStarting(e), noLease)
<1>1. m.state \in Resting \cup {"Stopping"} /\ m.admission_open = FALSE
  BY DEF Sound, CustodyOf, AdmissionAgrees, Resting, Machine, States
<1>2. CustodyOf(EnterStarting(e).next) = "Building"
  BY StartingEntered DEF CustodyOf, Resting
<1>3. Sound(EnterStarting(e).next)
  BY StartingEntered, EnumFacts
     DEF Sound, StackAgrees, ChildAgrees, AdmissionAgrees, LeaseAgrees, Resting
<1>4. /\ EnterStarting(e).commands \subseteq Commands
      /\ GateAfter(m.admission_open, EnterStarting(e).commands)
            <=> EnterStarting(e).next.admission_open
  <2>1. /\ EnterStarting(e).commands = {"StartLadder"}
        /\ EnterStarting(e).next.admission_open = FALSE
    BY StartingEntered
  <2>2. QED
    BY <1>1, <2>1 DEF GateAfter, Commands
<1>5. CustodyMove(CustodyOf(m), CustodyOf(EnterStarting(e).next))
  BY <1>2 DEF CustodyMove
<1>6. /\ ~InTeardown(EnterStarting(e).next)
      /\ ~InPhase(EnterStarting(e).next, "Admission")
  BY StartingEntered DEF InTeardown, InPhase
<1>7. QED
  BY <1>3, <1>4, <1>5, <1>6 DEF StepOK

\* Only a finished ladder or a re-verified link opens admission.
LEMMA ArriveReady ==
    ASSUME NEW m, NEW e \in Machine, Sound(m),
           m.state \in {"Starting", "Rejoining"}
    PROVE  StepOK(m, EnterReady(e), FALSE)
<1>1. m.admission_open = FALSE /\ m.stack # "RetainedWedged"
  BY DEF Sound, StackAgrees, AdmissionAgrees, LeaseAgrees, Resting, Machine
<1>2. /\ CustodyOf(m) \in {"Building", "Held"}
      /\ CustodyOf(EnterReady(e).next) = "Serving"
  BY ReadyEntered DEF CustodyOf, Resting
<1>3. Sound(EnterReady(e).next)
  BY ReadyEntered
     DEF Sound, StackAgrees, ChildAgrees, AdmissionAgrees, LeaseAgrees, Resting
<1>4. /\ EnterReady(e).commands \subseteq Commands
      /\ GateAfter(m.admission_open, EnterReady(e).commands)
            <=> EnterReady(e).next.admission_open
  <2>1. /\ EnterReady(e).commands = {"OpenAdmission"}
        /\ EnterReady(e).next.admission_open = TRUE
    BY ReadyEntered
  <2>2. QED
    BY <1>1, <2>1 DEF GateAfter, Commands
<1>5. CustodyMove(CustodyOf(m), CustodyOf(EnterReady(e).next))
  BY <1>2 DEF CustodyMove
<1>6. ~InTeardown(EnterReady(e).next)
  BY ReadyEntered DEF InTeardown
<1>7. QED
  BY <1>1, <1>3, <1>4, <1>5, <1>6 DEF StepOK

\* A wedged stack is re-verified only once its leases are gone.
LEMMA ArriveRejoining ==
    ASSUME NEW m, NEW e \in Machine, NEW noLease \in BOOLEAN, Sound(m),
           m.state \in {"Ready", "SuspendedRetained"},
           m.stack = "RetainedWedged" => noLease,
           e.retained_lease_count = 0
    PROVE  StepOK(m, EnterRejoining(e), noLease)
<1>1. /\ CustodyOf(m) \in {"Serving", "Held"}
      /\ CustodyOf(EnterRejoining(e).next) = "Held"
  BY RejoiningEntered DEF CustodyOf, Resting
<1>2. Sound(EnterRejoining(e).next)
  BY RejoiningEntered
     DEF Sound, StackAgrees, ChildAgrees, AdmissionAgrees, LeaseAgrees, Resting
<1>3. /\ EnterRejoining(e).commands \subseteq Commands
      /\ GateAfter(m.admission_open, EnterRejoining(e).commands)
            <=> EnterRejoining(e).next.admission_open
  <2>1. /\ EnterRejoining(e).commands = {"StopAdmission", "ProbeLink"}
        /\ EnterRejoining(e).next.admission_open = FALSE
    BY RejoiningEntered
  <2>2. QED
    BY <2>1 DEF GateAfter, Commands
<1>4. CustodyMove(CustodyOf(m), CustodyOf(EnterRejoining(e).next))
  BY <1>1 DEF CustodyMove
<1>5. /\ ~InTeardown(EnterRejoining(e).next)
      /\ ~InPhase(EnterRejoining(e).next, "Admission")
  BY RejoiningEntered DEF InTeardown, InPhase
<1>6. QED
  BY <1>2, <1>3, <1>4, <1>5 DEF StepOK

\* A stop is entered with its evidence of a wedge intact.
LEMMA ArriveStopping ==
    ASSUME NEW m, NEW e \in Machine, Sound(m), m.state # "Stopping",
           NEW target \in StoppingTargets, target # "None",
           NEW failure \in Failures,
           m.stack = "RetainedWedged" => e.stack = "RetainedWedged",
           e.retained_lease_count # 0 => e.stack = "RetainedWedged"
    PROVE  StepOK(m, EnterStopping(e, target, failure), FALSE)
<1> DEFINE d == EnterStopping(e, target, failure)
<1>1. /\ d.next \in Machine
      /\ d.next.state = "Stopping"
      /\ d.next.stack = e.stack
      /\ d.next.rejoin_phase = "None"
      /\ d.next.stopping_phase = "Admission"
      /\ d.next.stopping_target = target
      /\ d.next.admission_open = FALSE
      /\ d.next.retained_lease_count = e.retained_lease_count
  BY StoppingEntered
<1>2. d.commands = {"StopAdmission"}
  BY EnterStoppingCommands
<1> HIDE DEF d
<1>3. /\ CustodyOf(m) \in {"Absent", "Building", "Serving", "Held"}
      /\ CustodyOf(d.next) = "Draining"
  BY <1>1 DEF Sound, CustodyOf, Resting, Machine, States
<1>4. Sound(d.next)
  BY <1>1 DEF Sound, StackAgrees, ChildAgrees, AdmissionAgrees, LeaseAgrees,
     Resting, Machine
<1>5. /\ d.commands \subseteq Commands
      /\ (GateAfter(m.admission_open, d.commands)
            <=> d.next.admission_open)
  BY <1>1, <1>2 DEF GateAfter, Commands
<1>6. CustodyMove(CustodyOf(m), CustodyOf(d.next))
  BY <1>3 DEF CustodyMove
<1>7. ~InTeardown(d.next)
  BY <1>1 DEF InTeardown
<1>8. StepOK(m, d, FALSE)
  BY <1>1, <1>4, <1>5, <1>6, <1>7 DEF StepOK
<1>9. QED
  BY <1>8 DEF d

\* An ignored event owes nothing.
LEMMA IgnoreOK ==
    ASSUME NEW m, Sound(m), NEW noLease \in BOOLEAN
    PROVE  StepOK(m, Ignore(m), noLease)
BY DEF StepOK, Sound, Ignore, Decide, GateAfter, CustodyMove, Machine

(***************************************************************************)
(* A decision without a gate command that stays in the same custody.       *)
(***************************************************************************)
LEMMA StayOK ==
    ASSUME NEW m, Sound(m), NEW n, Sound(n), NEW cmds \in SUBSET Commands,
           NEW noLease \in BOOLEAN,
           {"OpenAdmission", "StopAdmission"} \cap cmds = {},
           CustodyMove(CustodyOf(m), CustodyOf(n)),
           m.state # "Ready", n.state # "Ready",
           InTeardown(n) => InTeardown(m) \/ noLease,
           (m.stack = "RetainedWedged" /\ n.stack # "RetainedWedged") =>
                (InTeardown(m) \/ noLease) /\ ~InPhase(n, "Admission")
    PROVE  StepOK(m, Decide(n, cmds), noLease)
<1>1. m.admission_open = FALSE /\ n.admission_open = FALSE
  BY DEF Sound, AdmissionAgrees, Machine
<1>2. QED
  BY <1>1 DEF StepOK, Decide, GateAfter

\* Coming to rest, from a stop or from another resting state.
LEMMA ArriveResting ==
    ASSUME NEW m, Sound(m), NEW n \in Machine, NEW noLease \in BOOLEAN,
           m.state \in Resting
                \/ (m.state = "Stopping" /\ (InTeardown(m) \/ noLease)),
           n.state \in Resting, n.stack \in {"None", "ModulesOnly"},
           n.rejoin_phase = "None", n.stopping_phase = "None",
           n.stopping_target = "None", n.admission_open = FALSE,
           n.retained_lease_count = 0
    PROVE  StepOK(m, Ignore(n), noLease)
<1>1. Sound(n)
  BY DEF Sound, StackAgrees, ChildAgrees, AdmissionAgrees, LeaseAgrees, Resting
<1>2. CustodyMove(CustodyOf(m), CustodyOf(n))
  <2>1. CustodyOf(n) = "Absent"
    BY DEF CustodyOf, Resting
  <2>2. CustodyOf(m) \in {"Absent", "Draining", "Teardown"}
    BY DEF CustodyOf, Resting
  <2>3. QED
    BY <2>1, <2>2 DEF CustodyMove
<1>3. m.state # "Ready" /\ n.state # "Ready"
  BY DEF Resting
<1>4. ~InTeardown(n) /\ ~InPhase(n, "Admission")
  BY DEF InTeardown, InPhase
<1>5. m.stack = "RetainedWedged" => InTeardown(m) \/ noLease
  BY DEF Sound, LeaseAgrees, Resting
<1>6. StepOK(m, Decide(n, {}), noLease)
  BY <1>1, <1>2, <1>3, <1>4, <1>5, StayOK
<1>7. QED
  BY <1>6 DEF Ignore

\* psp_network_finish_stopping, whatever the firmware left behind.
LEMMA FinishOK ==
    ASSUME NEW m, Sound(m), m.state = "Stopping", NEW e \in Machine,
           NEW remaining, NEW noLease \in BOOLEAN,
           InTeardown(m) \/ noLease
    PROVE  StepOK(m, FinishStopping(e, remaining), noLease)
<1> DEFINE gone ==
        [ClearChildren(e) EXCEPT
            !.stack = IF remaining = "ModulesOnly" THEN remaining ELSE "None",
            !.admission_open = FALSE,
            !.retained_lease_count = 0]
<1>1. /\ gone \in Machine
      /\ gone.stack \in {"None", "ModulesOnly"}
      /\ gone.rejoin_phase = "None"
      /\ gone.stopping_phase = "None"
      /\ gone.stopping_target = "None"
      /\ gone.admission_open = FALSE
      /\ gone.retained_lease_count = 0
  BY EnumFacts DEF ClearChildren, Machine
<1>2. e.stopping_target \in {"None", "Off", "Offline", "SuspendedOff",
                             "SuspendedRetained", "Restart"}
  BY DEF Machine, StoppingTargets
<1> HIDE DEF gone
<1>3. ASSUME NEW rest \in Resting, NEW failure \in Failures
      PROVE  StepOK(m, Ignore([gone EXCEPT !.state = rest,
                                           !.failure = failure]), noLease)
  <2> DEFINE n == [gone EXCEPT !.state = rest, !.failure = failure]
  <2>1. /\ n \in Machine
        /\ n.state = rest
        /\ n.stack = gone.stack
        /\ n.rejoin_phase = "None"
        /\ n.stopping_phase = "None"
        /\ n.stopping_target = "None"
        /\ n.admission_open = FALSE
        /\ n.retained_lease_count = 0
    BY <1>1, EnumFacts DEF Machine, Resting
  <2> HIDE DEF n
  <2>2. StepOK(m, Ignore(n), noLease)
    BY <1>1, <2>1, ArriveResting
  <2>3. QED
    BY <2>2 DEF n
<1>4. StepOK(m, Ignore([gone EXCEPT !.state = "SuspendedOff"]), noLease)
  <2> DEFINE n == [gone EXCEPT !.state = "SuspendedOff"]
  <2>1. /\ n \in Machine
        /\ n.state = "SuspendedOff"
        /\ n.stack = gone.stack
        /\ n.rejoin_phase = "None"
        /\ n.stopping_phase = "None"
        /\ n.stopping_target = "None"
        /\ n.admission_open = FALSE
        /\ n.retained_lease_count = 0
    BY <1>1, EnumFacts DEF Machine
  <2> HIDE DEF n
  <2>2. n.state \in Resting
    BY <2>1 DEF Resting
  <2>3. StepOK(m, Ignore(n), noLease)
    BY <1>1, <2>1, <2>2, ArriveResting
  <2>4. QED
    BY <2>3 DEF n
<1>5. CASE e.stopping_target = "Off"
  <2>1. FinishStopping(e, remaining)
            = Ignore([gone EXCEPT !.state = "Off", !.failure = "None"])
    BY <1>5 DEF FinishStopping, gone
  <2>2. QED
    BY <1>3, <2>1, EnumFacts DEF Resting
<1>6. CASE e.stopping_target = "Offline"
  <2> DEFINE why == IF gone.failure = "None" THEN "Start" ELSE gone.failure
  <2>1. FinishStopping(e, remaining)
            = Ignore([gone EXCEPT !.state = "Offline", !.failure = why])
    BY <1>6 DEF FinishStopping, gone
  <2>2. why \in Failures /\ "Offline" \in Resting
    BY <1>1, EnumFacts DEF Machine, Resting
  <2> HIDE DEF why
  <2>3. QED
    BY <1>3, <2>1, <2>2
<1>7. CASE e.stopping_target = "SuspendedOff"
  BY <1>4, <1>7 DEF FinishStopping, gone
<1>8. CASE e.stopping_target = "Restart"
  <2>1. FinishStopping(e, remaining) = EnterStarting(gone)
    BY <1>8 DEF FinishStopping, gone
  <2>2. CustodyOf(m) \in {"Draining", "Teardown"}
    BY DEF CustodyOf, Resting
  <2>3. QED
    BY <1>1, <2>1, <2>2, ArriveStarting
<1>9. CASE e.stopping_target \in {"None", "SuspendedRetained"}
  <2>1. FinishStopping(e, remaining)
            = Ignore([gone EXCEPT !.state = "Offline", !.failure = "Start"])
    BY <1>9 DEF FinishStopping, gone
  <2>2. QED
    BY <1>3, <2>1, EnumFacts DEF Resting
<1>10. QED
  BY <1>2, <1>5, <1>6, <1>7, <1>8, <1>9

\* psp_network_begin_leave_or_finish, called with the lease table empty.
LEMMA LeaveOK ==
    ASSUME NEW m, Sound(m), m.state = "Stopping", ~InTeardown(m),
           NEW e \in Machine, e.state = "Stopping",
           e.stopping_target # "None", e.rejoin_phase = "None",
           e.admission_open = FALSE,
           e.retained_lease_count # 0 => e.stack = "RetainedWedged"
    PROVE  StepOK(m, BeginLeaveOrFinish(e), TRUE)
<1>1. CustodyOf(m) = "Draining"
  BY DEF CustodyOf, InTeardown, Resting
<1>2. CASE e.stopping_target = "SuspendedRetained"
  <2> DEFINE n == [ClearChildren(e) EXCEPT
                        !.state = "SuspendedRetained", !.stack = "Full",
                        !.admission_open = FALSE,
                        !.retained_lease_count = 0]
  <2>1. /\ n \in Machine
        /\ n.state = "SuspendedRetained"
        /\ n.stack = "Full"
        /\ n.rejoin_phase = "None"
        /\ n.stopping_phase = "None"
        /\ n.stopping_target = "None"
        /\ n.admission_open = FALSE
        /\ n.retained_lease_count = 0
    BY EnumFacts DEF ClearChildren, Machine
  <2>2. BeginLeaveOrFinish(e) = Decide(n, {})
    BY <1>2 DEF BeginLeaveOrFinish, Ignore
  <2> HIDE DEF n
  <2>3. Sound(n)
    BY <2>1 DEF Sound, StackAgrees, ChildAgrees, AdmissionAgrees, LeaseAgrees,
       Resting
  <2>4. CustodyMove(CustodyOf(m), CustodyOf(n))
    BY <1>1, <2>1 DEF CustodyMove, CustodyOf, Resting
  <2>5. ~InTeardown(n) /\ ~InPhase(n, "Admission") /\ n.state # "Ready"
    BY <2>1 DEF InTeardown, InPhase
  <2>6. StepOK(m, Decide(n, {}), TRUE)
    BY <2>3, <2>4, <2>5, StayOK
  <2>7. QED
    BY <2>2, <2>6
<1>3. CASE e.stopping_target # "SuspendedRetained" /\ e.stack = "None"
  <2>1. BeginLeaveOrFinish(e) = FinishStopping(e, "None")
    BY <1>3 DEF BeginLeaveOrFinish
  <2>2. QED
    BY <2>1, FinishOK
<1>4. CASE e.stopping_target # "SuspendedRetained" /\ e.stack # "None"
  <2> DEFINE n == [e EXCEPT !.stopping_phase = "LeaveApctl"]
  <2>1. /\ n \in Machine
        /\ n.state = "Stopping"
        /\ n.stack = e.stack
        /\ n.rejoin_phase = "None"
        /\ n.stopping_phase = "LeaveApctl"
        /\ n.stopping_target = e.stopping_target
        /\ n.admission_open = FALSE
        /\ n.retained_lease_count = e.retained_lease_count
    BY EnumFacts DEF Machine
  <2>2. BeginLeaveOrFinish(e) = Decide(n, {"DisconnectApctl"})
    BY <1>4 DEF BeginLeaveOrFinish
  <2> HIDE DEF n
  <2>3. Sound(n)
    BY <2>1 DEF Sound, StackAgrees, ChildAgrees, AdmissionAgrees, LeaseAgrees,
       Resting, Machine
  <2>4. CustodyMove(CustodyOf(m), CustodyOf(n))
    BY <1>1, <2>1 DEF CustodyMove, CustodyOf, Resting
  <2>5. ~InPhase(n, "Admission") /\ n.state # "Ready"
    BY <2>1 DEF InPhase
  <2>6. /\ {"DisconnectApctl"} \in SUBSET Commands
        /\ {"OpenAdmission", "StopAdmission"} \cap {"DisconnectApctl"} = {}
    BY DEF Commands
  <2>7. StepOK(m, Decide(n, {"DisconnectApctl"}), TRUE)
    BY <2>3, <2>4, <2>5, <2>6, StayOK
  <2>8. QED
    BY <2>2, <2>7
<1>5. QED
  BY <1>2, <1>3, <1>4

-----------------------------------------------------------------------------
(***************************************************************************)
(* One lemma per event.                                                    *)
(***************************************************************************)
LEMMA ResumeOK ==
    ASSUME NEW m, Sound(m)
    PROVE  StepOK(m, OnResume(m), FALSE)
<1>1. CASE m.state = "SuspendedRetained" /\ m.stack # "RetainedWedged"
  <2>1. OnResume(m) = EnterRejoining(m) /\ m \in Machine
    BY <1>1 DEF OnResume, Sound
  <2>2. m.retained_lease_count = 0
    BY <1>1 DEF Sound, LeaseAgrees
  <2>3. QED
    BY <1>1, <2>1, <2>2, ArriveRejoining
<1>2. CASE m.state = "SuspendedOff" /\ m.target.kind = "Ready"
  <2>1. OnResume(m) = EnterStarting(m) /\ m \in Machine
    BY <1>2 DEF OnResume, Sound
  <2>2. CustodyOf(m) = "Absent" /\ m.stack # "RetainedWedged"
    BY <1>2 DEF CustodyOf, Resting, Sound, LeaseAgrees
  <2>3. QED
    BY <2>1, <2>2, ArriveStarting
<1>3. CASE /\ ~(m.state = "SuspendedRetained" /\ m.stack # "RetainedWedged")
           /\ ~(m.state = "SuspendedOff" /\ m.target.kind = "Ready")
  BY <1>3, IgnoreOK DEF OnResume
<1>4. QED
  BY <1>1, <1>2, <1>3

\* RETRY is a good step.
LEMMA RetryOK ==
    ASSUME NEW m, Sound(m)
    PROVE  StepOK(m, OnRetry(m), FALSE)
<1>1. CASE m.state = "Offline" /\ m.target.kind = "Ready"
  <2>1. OnRetry(m) = EnterStarting(m) /\ m \in Machine
    BY <1>1 DEF OnRetry, Sound
  <2>2. CustodyOf(m) = "Absent" /\ m.stack # "RetainedWedged"
    BY <1>1 DEF CustodyOf, Resting, Sound, LeaseAgrees
  <2>3. QED
    BY <2>1, <2>2, ArriveStarting
<1>2. CASE ~(m.state = "Offline" /\ m.target.kind = "Ready")
  BY <1>2, IgnoreOK DEF OnRetry
<1>3. QED
  BY <1>1, <1>2

\* LADDER_READY is a good step.
LEMMA LadderReadyOK ==
    ASSUME NEW m, Sound(m)
    PROVE  StepOK(m, OnLadderReady(m), FALSE)
<1>1. CASE m.state = "Starting"
  BY <1>1, ArriveReady DEF OnLadderReady, Sound
<1>2. CASE m.state # "Starting"
  BY <1>2, IgnoreOK DEF OnLadderReady
<1>3. QED
  BY <1>1, <1>2

\* PROBE_HEALTHY and REJOINED are good steps.
LEMMA LinkUpOK ==
    ASSUME NEW m, Sound(m)
    PROVE  StepOK(m, OnLinkUp(m), FALSE)
<1>1. CASE m.state = "Rejoining"
  BY <1>1, ArriveReady DEF OnLinkUp, Sound
<1>2. CASE m.state # "Rejoining"
  BY <1>2, IgnoreOK DEF OnLinkUp
<1>3. QED
  BY <1>1, <1>2

\* REGRESSION_HINT is a good step.
LEMMA RegressionHintOK ==
    ASSUME NEW m, Sound(m)
    PROVE  StepOK(m, OnRegressionHint(m), FALSE)
<1>1. CASE m.state = "Ready"
  <2>1. m.stack # "RetainedWedged" /\ m.retained_lease_count = 0
    BY <1>1 DEF Sound, LeaseAgrees
  <2>2. QED
    BY <1>1, <2>1, ArriveRejoining DEF OnRegressionHint, Sound
<1>2. CASE m.state # "Ready"
  BY <1>2, IgnoreOK DEF OnRegressionHint
<1>3. QED
  BY <1>1, <1>2

\* A starting machine adopts the stack the ladder really left.
LEMMA StopStarting ==
    ASSUME NEW m, Sound(m), m.state = "Starting", NEW s \in Snapshots,
           NEW target \in StoppingTargets, target # "None",
           NEW failure \in Failures
    PROVE  StepOK(m, EnterStopping([m EXCEPT !.stack = s.stack],
                                   target, failure), FALSE)
<1> DEFINE e == [m EXCEPT !.stack = s.stack]
<1>1. s.stack \in Stacks
  BY DEF Snapshots, Stacks
<1>2. e \in Machine /\ e.retained_lease_count = m.retained_lease_count
  BY <1>1 DEF Sound, Machine
<1>3. m.stack # "RetainedWedged" /\ m.retained_lease_count = 0
  BY DEF Sound, LeaseAgrees
<1> HIDE DEF e
<1>4. StepOK(m, EnterStopping(e, target, failure), FALSE)
  BY <1>2, <1>3, ArriveStopping
<1>5. QED
  BY <1>4 DEF e

\* LADDER_FAILED is a good step, whatever stack the snapshot shows.
LEMMA LadderFailedOK ==
    ASSUME NEW m, Sound(m), NEW s \in Snapshots, NEW failure \in Failures
    PROVE  StepOK(m, OnLadderFailed(m, s, failure), FALSE)
<1>1. CASE m.state = "Starting"
  <2> DEFINE why == IF failure = "None" THEN "Start" ELSE failure
  <2>1. why \in Failures /\ "Offline" \in StoppingTargets
    BY EnumFacts
  <2>2. OnLadderFailed(m, s, failure)
            = EnterStopping([m EXCEPT !.stack = s.stack], "Offline", why)
    BY <1>1 DEF OnLadderFailed
  <2> HIDE DEF why
  <2>3. QED
    BY <1>1, <2>1, <2>2, StopStarting
<1>2. CASE m.state # "Starting"
  BY <1>2, IgnoreOK DEF OnLadderFailed
<1>3. QED
  BY <1>1, <1>2

\* PROBE_FAILED is a good step: the stack is still held.
LEMMA ProbeFailedOK ==
    ASSUME NEW m, Sound(m)
    PROVE  StepOK(m, OnProbeFailed(m), FALSE)
<1>1. CASE m.state = "Rejoining"
  <2> DEFINE n == [m EXCEPT !.rejoin_phase = "Apctl", !.rejoin_attempts = 1]
  <2>1. /\ n \in Machine
        /\ n.state = "Rejoining"
        /\ n.stack = m.stack
        /\ n.rejoin_phase = "Apctl"
        /\ n.stopping_phase = m.stopping_phase
        /\ n.stopping_target = m.stopping_target
        /\ n.admission_open = m.admission_open
        /\ n.retained_lease_count = m.retained_lease_count
    BY <1>1, EnumFacts DEF Sound, Machine
  <2>2. OnProbeFailed(m) = Decide(n, {"RejoinApctl"})
    BY <1>1 DEF OnProbeFailed
  <2> HIDE DEF n
  <2>3. Sound(n)
    BY <1>1, <2>1 DEF Sound, StackAgrees, ChildAgrees, AdmissionAgrees,
       LeaseAgrees, Resting, Machine
  <2>4. CustodyMove(CustodyOf(m), CustodyOf(n))
    BY <1>1, <2>1 DEF CustodyMove, CustodyOf, Resting
  <2>5. InTeardown(n) => InTeardown(m)
    BY <2>1 DEF InTeardown
  <2>6. /\ {"RejoinApctl"} \in SUBSET Commands
        /\ {"OpenAdmission", "StopAdmission"} \cap {"RejoinApctl"} = {}
    BY DEF Commands
  <2>7. StepOK(m, Decide(n, {"RejoinApctl"}), FALSE)
    BY <1>1, <2>1, <2>3, <2>4, <2>5, <2>6, StayOK
  <2>8. QED
    BY <2>2, <2>7
<1>2. CASE m.state # "Rejoining"
  BY <1>2, IgnoreOK DEF OnProbeFailed
<1>3. QED
  BY <1>1, <1>2

\* REJOIN_FAILED is a good step: the stack is drained, not dropped.
LEMMA RejoinFailedOK ==
    ASSUME NEW m, Sound(m)
    PROVE  StepOK(m, OnRejoinFailed(m), FALSE)
<1>1. /\ "Restart" \in StoppingTargets
      /\ "Offline" \in StoppingTargets
      /\ "Rejoin" \in Failures
  BY DEF StoppingTargets, Failures
<1>2. CASE m.state = "Rejoining" /\ m.rejoin_attempts < RejoinBudget
  <2> DEFINE e == [m EXCEPT !.rejoin_attempts = @ + 1]
  <2>1. m.rejoin_attempts + 1 \in 0 .. RejoinBudget
    BY <1>2 DEF Sound, Machine, RejoinBudget
  <2>2. /\ e \in Machine
        /\ e.stack = m.stack
        /\ e.retained_lease_count = m.retained_lease_count
    BY <2>1 DEF Sound, Machine
  <2>3. OnRejoinFailed(m) = EnterStopping(e, "Restart", "Rejoin")
    BY <1>2 DEF OnRejoinFailed
  <2> HIDE DEF e
  <2>4. e.retained_lease_count # 0 => e.stack = "RetainedWedged"
    BY <2>2 DEF Sound, LeaseAgrees
  <2>5. QED
    BY <1>1, <1>2, <2>2, <2>3, <2>4, ArriveStopping
<1>3. CASE m.state = "Rejoining" /\ ~(m.rejoin_attempts < RejoinBudget)
  <2>1. OnRejoinFailed(m) = EnterStopping(m, "Offline", "Rejoin")
    BY <1>3 DEF OnRejoinFailed
  <2>2. m \in Machine /\ m.retained_lease_count # 0 => m.stack = "RetainedWedged"
    BY DEF Sound, LeaseAgrees
  <2>3. QED
    BY <1>1, <1>3, <2>1, <2>2, ArriveStopping DEF Sound
<1>4. CASE m.state # "Rejoining"
  BY <1>4, IgnoreOK DEF OnRejoinFailed
<1>5. QED
  BY <1>2, <1>3, <1>4

\* A stopping machine is a fit argument of BeginLeaveOrFinish.
LEMMA StoppingFacts ==
    ASSUME NEW m, Sound(m), m.state = "Stopping"
    PROVE  /\ m \in Machine
           /\ m.stopping_target # "None"
           /\ m.stopping_phase # "None"
           /\ m.rejoin_phase = "None"
           /\ m.admission_open = FALSE
           /\ m.retained_lease_count # 0 => m.stack = "RetainedWedged"
BY DEF Sound, ChildAgrees, AdmissionAgrees, LeaseAgrees, Machine

\* ADMISSION_STOPPED leaves the stack only on an empty lease count.
LEMMA AdmissionStoppedOK ==
    ASSUME NEW m, Sound(m), NEW s \in Snapshots
    PROVE  StepOK(m, OnAdmissionStopped(m, s), s.lease_count = 0)
<1>1. CASE ~InPhase(m, "Admission")
  BY <1>1, IgnoreOK DEF OnAdmissionStopped
<1>2. CASE InPhase(m, "Admission") /\ s.lease_count # 0
  <2> DEFINE n == [m EXCEPT !.stopping_phase = "DrainLeases"]
  <2>1. /\ n \in Machine
        /\ n.state = "Stopping"
        /\ n.stack = m.stack
        /\ n.rejoin_phase = m.rejoin_phase
        /\ n.stopping_phase = "DrainLeases"
        /\ n.stopping_target = m.stopping_target
        /\ n.admission_open = m.admission_open
        /\ n.retained_lease_count = m.retained_lease_count
    BY <1>2, EnumFacts DEF Sound, Machine, InPhase
  <2>2. OnAdmissionStopped(m, s) = Decide(n, {"CancelConsumers"})
    BY <1>2 DEF OnAdmissionStopped
  <2> HIDE DEF n
  <2>3. Sound(n)
    BY <1>2, <2>1, StoppingFacts DEF Sound, StackAgrees, ChildAgrees,
       AdmissionAgrees, LeaseAgrees, Resting, Machine, InPhase
  <2>4. CustodyMove(CustodyOf(m), CustodyOf(n))
    BY <1>2, <2>1 DEF CustodyMove, CustodyOf, Resting, InPhase
  <2>5. ~InTeardown(n) /\ n.state # "Ready" /\ m.state # "Ready"
    BY <1>2, <2>1 DEF InTeardown, InPhase
  <2>6. /\ {"CancelConsumers"} \in SUBSET Commands
        /\ {"OpenAdmission", "StopAdmission"} \cap {"CancelConsumers"} = {}
    BY DEF Commands
  <2>7. StepOK(m, Decide(n, {"CancelConsumers"}), FALSE)
    BY <2>1, <2>3, <2>4, <2>5, <2>6, StayOK
  <2>8. (s.lease_count = 0) = FALSE
    BY <1>2
  <2>9. QED
    BY <2>2, <2>7, <2>8
<1>3. CASE InPhase(m, "Admission") /\ s.lease_count = 0
  <2>1. OnAdmissionStopped(m, s) = BeginLeaveOrFinish(m)
    BY <1>3 DEF OnAdmissionStopped
  <2>2. m.state = "Stopping" /\ ~InTeardown(m)
    BY <1>3 DEF InPhase, InTeardown
  <2>3. StepOK(m, BeginLeaveOrFinish(m), TRUE)
    BY <2>2, StoppingFacts, LeaveOK
  <2>4. (s.lease_count = 0) = TRUE
    BY <1>3
  <2>5. QED
    BY <2>1, <2>3, <2>4
<1>4. QED
  BY <1>1, <1>2, <1>3

\* LEASES_RELEASED is the report that frees a drained or wedged stack.
LEMMA LeasesReleasedOK ==
    ASSUME NEW m, Sound(m)
    PROVE  StepOK(m, OnLeasesReleased(m), TRUE)
<1> DEFINE freed == [m EXCEPT !.stack = "Full", !.retained_lease_count = 0]
<1>1. /\ freed \in Machine
      /\ freed.state = m.state
      /\ freed.stack = "Full"
      /\ freed.rejoin_phase = m.rejoin_phase
      /\ freed.stopping_phase = m.stopping_phase
      /\ freed.stopping_target = m.stopping_target
      /\ freed.admission_open = m.admission_open
      /\ freed.retained_lease_count = 0
  BY EnumFacts DEF Sound, Machine
<1>2. CASE InPhase(m, "DrainLeases")
  <2>1. OnLeasesReleased(m) = BeginLeaveOrFinish(m)
    BY <1>2 DEF OnLeasesReleased, InPhase
  <2>2. m.state = "Stopping" /\ ~InTeardown(m)
    BY <1>2 DEF InPhase, InTeardown
  <2>3. QED
    BY <2>1, <2>2, StoppingFacts, LeaveOK
<1>3. CASE InPhase(m, "LeaseWedged")
  <2>1. OnLeasesReleased(m) = BeginLeaveOrFinish(freed)
    BY <1>3 DEF OnLeasesReleased, InPhase
  <2> HIDE DEF freed
  <2>2. m.state = "Stopping" /\ ~InTeardown(m)
    BY <1>3 DEF InPhase, InTeardown
  <2>3. QED
    BY <1>1, <2>1, <2>2, StoppingFacts, LeaveOK
<1>4. CASE m.state = "SuspendedRetained" /\ m.stack = "RetainedWedged"
  <2>1. CASE m.target.kind = "Ready"
    <3>1. OnLeasesReleased(m) = EnterRejoining(freed)
      BY <1>4, <2>1 DEF OnLeasesReleased, InPhase
    <3>2. QED
      BY <1>1, <1>4, <3>1, ArriveRejoining
  <2>2. CASE m.target.kind # "Ready"
    <3>1. OnLeasesReleased(m) = Decide(freed, {})
      BY <1>4, <2>2 DEF OnLeasesReleased, InPhase, Ignore
    <3> HIDE DEF freed
    <3>2. Sound(freed)
      BY <1>1, <1>4 DEF Sound, StackAgrees, ChildAgrees, AdmissionAgrees,
         LeaseAgrees, Resting, Machine
    <3>3. CustodyMove(CustodyOf(m), CustodyOf(freed))
      BY <1>1, <1>4 DEF CustodyMove, CustodyOf, Resting
    <3>4. ~InPhase(freed, "Admission")
      BY <1>1, <1>4 DEF InPhase
    <3>5. StepOK(m, Decide(freed, {}), TRUE)
      BY <1>1, <1>4, <3>2, <3>3, <3>4, StayOK
    <3>6. QED
      BY <3>1, <3>5
  <2>3. QED
    BY <2>1, <2>2
<1>5. CASE /\ ~InPhase(m, "DrainLeases")
           /\ ~InPhase(m, "LeaseWedged")
           /\ ~(m.state = "SuspendedRetained" /\ m.stack = "RetainedWedged")
  BY <1>5, IgnoreOK DEF OnLeasesReleased
<1>6. QED
  BY <1>2, <1>3, <1>4, <1>5

\* DRAIN_TIMEOUT records a wedge and never tears down.
LEMMA DrainTimeoutOK ==
    ASSUME NEW m, Sound(m), NEW s \in Snapshots
    PROVE  StepOK(m, OnDrainTimeout(m, s), FALSE)
<1> DEFINE wedged == [m EXCEPT !.retained_lease_count = s.lease_count,
                               !.stack = "RetainedWedged"]
<1>1. /\ {"RecordLeaseWedge"} \in SUBSET Commands
      /\ {"OpenAdmission", "StopAdmission"} \cap {"RecordLeaseWedge"} = {}
  BY DEF Commands
<1>2. /\ wedged \in Machine
      /\ wedged.state = m.state
      /\ wedged.stack = "RetainedWedged"
      /\ wedged.rejoin_phase = m.rejoin_phase
      /\ wedged.stopping_target = m.stopping_target
      /\ wedged.admission_open = m.admission_open
  <2>1. s.lease_count \in 0 .. MaxLeases
    BY DEF Snapshots
  <2>2. QED
    BY <2>1, EnumFacts DEF Sound, Machine
<1>3. CASE /\ InPhase(m, "DrainLeases")
           /\ m.stopping_target = "SuspendedRetained"
  <2> DEFINE n == [ClearChildren(wedged) EXCEPT !.state = "SuspendedRetained"]
  <2>1. OnDrainTimeout(m, s) = Decide(n, {"RecordLeaseWedge"})
    BY <1>3 DEF OnDrainTimeout
  <2> HIDE DEF wedged
  <2>2. /\ n \in Machine
        /\ n.state = "SuspendedRetained"
        /\ n.stack = "RetainedWedged"
        /\ n.rejoin_phase = "None"
        /\ n.stopping_phase = "None"
        /\ n.stopping_target = "None"
        /\ n.admission_open = m.admission_open
    BY <1>2, EnumFacts DEF ClearChildren, Machine
  <2> HIDE DEF n
  <2>3. m.state = "Stopping" /\ m.stopping_phase = "DrainLeases"
    BY <1>3 DEF InPhase
  <2>4. Sound(n)
    BY <2>2, <2>3, StoppingFacts DEF Sound, StackAgrees, ChildAgrees,
       AdmissionAgrees, LeaseAgrees, Resting
  <2>5. CustodyMove(CustodyOf(m), CustodyOf(n))
    BY <2>2, <2>3 DEF CustodyMove, CustodyOf, Resting
  <2>6. ~InTeardown(n) /\ n.state # "Ready" /\ m.state # "Ready"
    BY <2>2, <2>3 DEF InTeardown
  <2>7. StepOK(m, Decide(n, {"RecordLeaseWedge"}), FALSE)
    BY <1>1, <2>2, <2>4, <2>5, <2>6, StayOK
  <2>8. QED
    BY <2>1, <2>7
<1>4. CASE /\ InPhase(m, "DrainLeases")
           /\ m.stopping_target # "SuspendedRetained"
  <2> DEFINE n == [wedged EXCEPT !.stopping_phase = "LeaseWedged",
                                 !.failure = "LeaseWedged"]
  <2>1. OnDrainTimeout(m, s) = Decide(n, {"RecordLeaseWedge"})
    BY <1>4 DEF OnDrainTimeout
  <2> HIDE DEF wedged
  <2>2. /\ n \in Machine
        /\ n.state = m.state
        /\ n.stack = "RetainedWedged"
        /\ n.rejoin_phase = m.rejoin_phase
        /\ n.stopping_phase = "LeaseWedged"
        /\ n.stopping_target = m.stopping_target
        /\ n.admission_open = m.admission_open
    BY <1>2, EnumFacts DEF Machine
  <2> HIDE DEF n
  <2>3. m.state = "Stopping" /\ m.stopping_phase = "DrainLeases"
    BY <1>4 DEF InPhase
  <2>4. Sound(n)
    BY <2>2, <2>3, StoppingFacts, EnumFacts DEF Sound, StackAgrees,
       ChildAgrees, AdmissionAgrees, LeaseAgrees, Resting
  <2>5. CustodyMove(CustodyOf(m), CustodyOf(n))
    BY <2>2, <2>3 DEF CustodyMove, CustodyOf, Resting
  <2>6. ~InTeardown(n) /\ n.state # "Ready" /\ m.state # "Ready"
    BY <2>2, <2>3 DEF InTeardown
  <2>7. StepOK(m, Decide(n, {"RecordLeaseWedge"}), FALSE)
    BY <1>1, <2>2, <2>4, <2>5, <2>6, StayOK
  <2>8. QED
    BY <2>1, <2>7
<1>5. CASE ~InPhase(m, "DrainLeases")
  BY <1>5, IgnoreOK DEF OnDrainTimeout
<1>6. QED
  BY <1>3, <1>4, <1>5

\* APCTL_DISCONNECTED and LEAVE_TIMEOUT are good steps.
LEMMA LeaveFinishedOK ==
    ASSUME NEW m, Sound(m)
    PROVE  StepOK(m, OnLeaveFinished(m), FALSE)
<1>1. CASE InPhase(m, "LeaveApctl")
  <2> DEFINE n == [m EXCEPT !.stopping_phase = "UnwindRungs"]
  <2>1. /\ n \in Machine
        /\ n.state = m.state
        /\ n.stack = m.stack
        /\ n.rejoin_phase = m.rejoin_phase
        /\ n.stopping_phase = "UnwindRungs"
        /\ n.stopping_target = m.stopping_target
        /\ n.admission_open = m.admission_open
        /\ n.retained_lease_count = m.retained_lease_count
    BY EnumFacts DEF Sound, Machine
  <2>2. OnLeaveFinished(m) = Decide(n, {"UnwindOneRung"})
    BY <1>1 DEF OnLeaveFinished
  <2> HIDE DEF n
  <2>3. m.state = "Stopping" /\ m.stopping_phase = "LeaveApctl"
    BY <1>1 DEF InPhase
  <2>4. Sound(n)
    BY <2>1, <2>3, StoppingFacts DEF Sound, StackAgrees, ChildAgrees,
       AdmissionAgrees, LeaseAgrees, Resting, Machine
  <2>5. CustodyMove(CustodyOf(m), CustodyOf(n))
    BY <2>1, <2>3 DEF CustodyMove, CustodyOf, Resting
  <2>6. InTeardown(m) /\ n.state # "Ready" /\ m.state # "Ready"
    BY <2>1, <2>3 DEF InTeardown
  <2>7. /\ {"UnwindOneRung"} \in SUBSET Commands
        /\ {"OpenAdmission", "StopAdmission"} \cap {"UnwindOneRung"} = {}
    BY DEF Commands
  <2>8. StepOK(m, Decide(n, {"UnwindOneRung"}), FALSE)
    BY <2>1, <2>4, <2>5, <2>6, <2>7, StayOK
  <2>9. QED
    BY <2>2, <2>8
<1>2. CASE ~InPhase(m, "LeaveApctl")
  BY <1>2, IgnoreOK DEF OnLeaveFinished
<1>3. QED
  BY <1>1, <1>2

\* RUNG_UNWOUND is a good step.
LEMMA RungUnwoundOK ==
    ASSUME NEW m, Sound(m)
    PROVE  StepOK(m, OnRungUnwound(m), FALSE)
<1>1. CASE InPhase(m, "UnwindRungs")
  <2>1. /\ {"UnwindOneRung"} \in SUBSET Commands
        /\ {"OpenAdmission", "StopAdmission"} \cap {"UnwindOneRung"} = {}
    BY DEF Commands
  <2>2. m.state # "Ready" /\ CustodyMove(CustodyOf(m), CustodyOf(m))
    BY <1>1 DEF InPhase, CustodyMove
  <2>3. StepOK(m, Decide(m, {"UnwindOneRung"}), FALSE)
    BY <2>1, <2>2, StayOK
  <2>4. QED
    BY <1>1, <2>3 DEF OnRungUnwound
<1>2. CASE ~InPhase(m, "UnwindRungs")
  BY <1>2, IgnoreOK DEF OnRungUnwound
<1>3. QED
  BY <1>1, <1>2

\* UNWOUND is a good step for every stop target and every remainder.
LEMMA UnwoundOK ==
    ASSUME NEW m, Sound(m), NEW s \in Snapshots
    PROVE  StepOK(m, OnUnwound(m, s), FALSE)
<1>1. CASE InPhase(m, "UnwindRungs")
  <2>1. m.state = "Stopping" /\ InTeardown(m)
    BY <1>1 DEF InPhase, InTeardown
  <2>2. OnUnwound(m, s) = FinishStopping(m, s.stack)
    BY <1>1 DEF OnUnwound
  <2>3. QED
    BY <2>1, <2>2, StoppingFacts, FinishOK
<1>2. CASE ~InPhase(m, "UnwindRungs")
  BY <1>2, IgnoreOK DEF OnUnwound
<1>3. QED
  BY <1>1, <1>2

\* StepOK does not look at the target.
LEMMA RetargetedGood ==
    ASSUME NEW m, Sound(m), NEW t \in Targets
    PROVE  /\ Sound([m EXCEPT !.target = t])
           /\ \A d, noLease : StepOK([m EXCEPT !.target = t], d, noLease)
                                <=> StepOK(m, d, noLease)
<1> DEFINE e == [m EXCEPT !.target = t]
<1>1. /\ e \in Machine
      /\ e.state = m.state
      /\ e.stack = m.stack
      /\ e.rejoin_phase = m.rejoin_phase
      /\ e.stopping_phase = m.stopping_phase
      /\ e.stopping_target = m.stopping_target
      /\ e.admission_open = m.admission_open
      /\ e.retained_lease_count = m.retained_lease_count
  BY DEF Sound, Machine
<1> HIDE DEF e
<1>2. Sound(e)
  BY <1>1 DEF Sound, StackAgrees, ChildAgrees, AdmissionAgrees, LeaseAgrees,
     Resting
<1>3. CustodyOf(e) = CustodyOf(m)
  BY <1>1 DEF CustodyOf, Resting
<1>4. ASSUME NEW d, NEW noLease
      PROVE  StepOK(e, d, noLease) <=> StepOK(m, d, noLease)
  BY <1>1, <1>3 DEF StepOK, InTeardown
<1>5. QED
  BY <1>2, <1>4 DEF e

\* A target of Ready is a good step outside a stop.
LEMMA TargetReadyOK ==
    ASSUME NEW m, Sound(m)
    PROVE  StepOK(m, TargetReady(m), FALSE)
<1>1. CASE m.state \in Resting
  <2>1. TargetReady(m) = EnterStarting(m) /\ m \in Machine
    BY <1>1 DEF TargetReady, Sound, Resting
  <2>2. CustodyOf(m) = "Absent" /\ m.stack # "RetainedWedged"
    BY <1>1 DEF CustodyOf, Resting, Sound, LeaseAgrees
  <2>3. QED
    BY <2>1, <2>2, ArriveStarting
<1>2. CASE m.state = "SuspendedRetained" /\ m.stack # "RetainedWedged"
  <2>1. TargetReady(m) = EnterRejoining(m) /\ m \in Machine
    BY <1>2 DEF TargetReady, Sound, Resting
  <2>2. m.retained_lease_count = 0
    BY <1>2 DEF Sound, LeaseAgrees
  <2>3. QED
    BY <1>2, <2>1, <2>2, ArriveRejoining
<1>3. CASE /\ m.state \notin Resting
           /\ ~(m.state = "SuspendedRetained" /\ m.stack # "RetainedWedged")
  BY <1>3, IgnoreOK DEF TargetReady
<1>4. QED
  BY <1>1, <1>2, <1>3

\* A plain stop of a machine that owns a whole stack.
LEMMA StopWhole ==
    ASSUME NEW m, Sound(m), m.state # "Stopping",
           NEW target \in StoppingTargets, target # "None"
    PROVE  StepOK(m, EnterStopping(m, target, "None"), FALSE)
<1>1. m \in Machine
  BY DEF Sound
<1>2. m.retained_lease_count # 0 => m.stack = "RetainedWedged"
  BY DEF Sound, LeaseAgrees
<1>3. "None" \in Failures
  BY EnumFacts
<1>4. QED
  BY <1>1, <1>2, <1>3, ArriveStopping

\* A suspend is a good step outside a stop.
LEMMA TargetSuspendOK ==
    ASSUME NEW m, Sound(m), NEW s \in Snapshots,
           ~RetriesUnload(m, "Suspend")
    PROVE  StepOK(m, TargetSuspend(m, s), FALSE)
<1>1. CASE m.state \in Resting
  <2> DEFINE n == [ClearChildren(m) EXCEPT !.state = "SuspendedOff",
                                           !.stack = "None",
                                           !.admission_open = FALSE]
  <2>1. /\ n \in Machine
        /\ n.state = "SuspendedOff"
        /\ n.stack = "None"
        /\ n.rejoin_phase = "None"
        /\ n.stopping_phase = "None"
        /\ n.stopping_target = "None"
        /\ n.admission_open = FALSE
        /\ n.retained_lease_count = m.retained_lease_count
    BY EnumFacts DEF Sound, ClearChildren, Machine
  <2>2. TargetSuspend(m, s) = Ignore(n)
    BY <1>1 DEF TargetSuspend, Resting
  <2> HIDE DEF n
  <2>3. m.retained_lease_count = 0 /\ n.state \in Resting
    BY <1>1, <2>1 DEF Sound, LeaseAgrees, Resting
  <2>4. QED
    BY <1>1, <2>1, <2>2, <2>3, ArriveResting
<1>2. CASE m.state \in {"Ready", "Rejoining"}
  <2>1. TargetSuspend(m, s) = EnterStopping(m, "SuspendedRetained", "None")
    BY <1>2 DEF TargetSuspend, Resting
  <2>2. QED
    BY <1>2, <2>1, EnumFacts, StopWhole
<1>3. CASE m.state = "Starting"
  <2>1. TargetSuspend(m, s)
            = EnterStopping([m EXCEPT !.stack = s.stack],
                            "SuspendedOff", "None")
    BY <1>3 DEF TargetSuspend, Resting
  <2>2. QED
    BY <1>3, <2>1, EnumFacts, StopStarting
<1>4. CASE m.state \notin Resting \cup {"Ready", "Rejoining", "Starting"}
  BY <1>4, IgnoreOK DEF TargetSuspend
<1>5. QED
  BY <1>1, <1>2, <1>3, <1>4

\* Going off is a good step outside a stop.
LEMMA TargetOffOK ==
    ASSUME NEW m, Sound(m), NEW s \in Snapshots, ~RetriesUnload(m, "Off")
    PROVE  StepOK(m, TargetOff(m, s), FALSE)
<1>1. CASE m.state \in {"Offline", "SuspendedOff"}
  <2> DEFINE n == [ClearChildren(m) EXCEPT !.state = "Off",
                                           !.stack = "None",
                                           !.failure = "None"]
  <2>1. /\ n \in Machine
        /\ n.state = "Off"
        /\ n.stack = "None"
        /\ n.rejoin_phase = "None"
        /\ n.stopping_phase = "None"
        /\ n.stopping_target = "None"
        /\ n.admission_open = m.admission_open
        /\ n.retained_lease_count = m.retained_lease_count
    BY EnumFacts DEF Sound, ClearChildren, Machine
  <2>2. TargetOff(m, s) = Ignore(n)
    BY <1>1 DEF TargetOff
  <2> HIDE DEF n
  <2>3. /\ m.retained_lease_count = 0
        /\ m.admission_open = FALSE
        /\ m.state \in Resting
        /\ n.state \in Resting
    BY <1>1, <2>1 DEF Sound, LeaseAgrees, AdmissionAgrees, Machine, Resting
  <2>4. QED
    BY <2>1, <2>2, <2>3, ArriveResting
<1>2. CASE m.state \in {"SuspendedRetained", "Ready", "Rejoining"}
  <2>1. TargetOff(m, s) = EnterStopping(m, "Off", "None")
    BY <1>2 DEF TargetOff
  <2>2. QED
    BY <1>2, <2>1, EnumFacts, StopWhole
<1>3. CASE m.state = "Starting"
  <2>1. TargetOff(m, s)
            = EnterStopping([m EXCEPT !.stack = s.stack], "Off", "None")
    BY <1>3 DEF TargetOff
  <2>2. QED
    BY <1>3, <2>1, EnumFacts, StopStarting
<1>4. CASE m.state \notin {"Offline", "SuspendedOff", "SuspendedRetained",
                           "Ready", "Rejoining", "Starting"}
  BY <1>4, IgnoreOK DEF TargetOff
<1>5. QED
  BY <1>1, <1>2, <1>3, <1>4

\* TARGET_CHANGED is a good step: retried unload, retarget, or new target.
LEMMA TargetChangedOK ==
    ASSUME NEW m, Sound(m), NEW s \in Snapshots, NEW t \in Targets
    PROVE  StepOK(m, OnTargetChanged(m, s, t), FALSE)
<1> DEFINE e == [m EXCEPT !.target = t]
           kind == t.kind
<1>1. /\ Sound(e) /\ e \in Machine
      /\ \A d : StepOK(e, d, FALSE) <=> StepOK(m, d, FALSE)
  BY RetargetedGood DEF Sound
<1>2. kind \in {"Ready", "Suspend", "Off"}
  BY DEF Targets
<1>3. CASE RetriesUnload(e, kind)
  <2> DEFINE to == IF kind = "Suspend" THEN "SuspendedOff" ELSE "Off"
  <2>1. OnTargetChanged(m, s, t) = EnterStopping(e, to, "None")
    BY <1>3 DEF OnTargetChanged, RetriesUnload, Resting
  <2>2. to \in StoppingTargets /\ to # "None" /\ e.state # "Stopping"
    BY <1>3, EnumFacts DEF RetriesUnload, Resting
  <2> HIDE DEF e, to
  <2>3. StepOK(e, EnterStopping(e, to, "None"), FALSE)
    BY <1>1, <2>2, StopWhole
  <2>4. QED
    BY <1>1, <2>1, <2>3
<1>4. CASE e.state = "Stopping"
  <2> DEFINE to == Retarget(e, kind)
             n == [e EXCEPT !.stopping_target = to]
  <2>1. OnTargetChanged(m, s, t) = Decide(n, {})
    BY <1>4 DEF OnTargetChanged, RetriesUnload, Resting, Ignore
  <2>2. to \in StoppingTargets /\ to # "None"
    BY <1>2, EnumFacts DEF Retarget
  <2> HIDE DEF e, to
  <2>3. /\ n \in Machine
        /\ n.state = "Stopping"
        /\ n.stack = e.stack
        /\ n.rejoin_phase = e.rejoin_phase
        /\ n.stopping_phase = e.stopping_phase
        /\ n.stopping_target = to
        /\ n.admission_open = e.admission_open
        /\ n.retained_lease_count = e.retained_lease_count
    BY <1>1, <1>4, <2>2 DEF Machine
  <2> HIDE DEF n
  <2>4. Sound(n)
    BY <1>1, <1>4, <2>2, <2>3, StoppingFacts DEF Sound, StackAgrees,
       ChildAgrees, AdmissionAgrees, LeaseAgrees, Resting, Machine
  <2>5. CustodyMove(CustodyOf(e), CustodyOf(n))
    BY <1>4, <2>3 DEF CustodyMove, CustodyOf, Resting
  <2>6. InTeardown(n) => InTeardown(e)
    BY <2>3 DEF InTeardown
  <2>7. StepOK(e, Decide(n, {}), FALSE)
    BY <1>1, <1>4, <2>3, <2>4, <2>5, <2>6, StayOK
  <2>8. QED
    BY <1>1, <2>1, <2>7
<1>5. CASE ~RetriesUnload(e, kind) /\ e.state # "Stopping"
  <2>1. CASE kind = "Ready"
    <3>1. OnTargetChanged(m, s, t) = TargetReady(e)
      BY <1>5, <2>1 DEF OnTargetChanged
    <3> HIDE DEF e
    <3>2. QED
      BY <1>1, <3>1, TargetReadyOK
  <2>2. CASE kind = "Suspend"
    <3>1. OnTargetChanged(m, s, t) = TargetSuspend(e, s)
      BY <1>5, <2>2 DEF OnTargetChanged
    <3> HIDE DEF e
    <3>2. QED
      BY <1>1, <1>5, <2>2, <3>1, TargetSuspendOK
  <2>3. CASE kind = "Off"
    <3>1. OnTargetChanged(m, s, t) = TargetOff(e, s)
      BY <1>5, <2>3 DEF OnTargetChanged
    <3> HIDE DEF e
    <3>2. QED
      BY <1>1, <1>5, <2>3, <3>1, TargetOffOK
  <2>4. QED
    BY <1>2, <2>1, <2>2, <2>3
<1>6. QED
  BY <1>3, <1>4, <1>5

-----------------------------------------------------------------------------
(***************************************************************************)
(* From decisions to steps.                                                *)
(***************************************************************************)
\* The wedge clause of WedgeNeedsRelease, for one step.
WedgeStep ==
    (machine.stack = "RetainedWedged" /\ machine'.stack # "RetainedWedged")
        => released'

\* What every step of the machine does, stuttering aside.
StepFacts == SupervisorInv' /\ WedgeStep /\ [Custody!Next]_(Custody!vars)

\* The gate is open exactly in custody Serving.
LEMMA ServingIsOpen ==
    ASSUME NEW m, Sound(m)
    PROVE  m.admission_open <=> CustodyOf(m) = "Serving"
BY DEF Sound, AdmissionAgrees, CustodyOf, Resting, Machine, States

\* psp_network_lifecycle_dispatch: applying a StepOK decision keeps the
\* invariant, obeys the wedge clause and is a custody step.
LEMMA DispatchStep ==
    ASSUME SupervisorInv, NEW d, NEW noLease \in BOOLEAN,
           StepOK(machine, d, noLease),
           Dispatch(d, noLease)
    PROVE  StepFacts
<1>1. /\ machine' = d.next
      /\ commands' = d.commands
      /\ gate' = GateAfter(gate, d.commands)
      /\ released' = (~InPhase(d.next, "Admission") /\ (released \/ noLease))
  BY DEF Dispatch
<1>2. /\ Sound(machine)
      /\ gate = machine.admission_open
      /\ InTeardown(machine) => released
  BY DEF SupervisorInv, SupervisorTypeOK, NoViolations, GateFollowsMachine,
     TeardownHasRelease,
     Sound, InTeardown
<1>3. /\ Sound(d.next)
      /\ d.commands \subseteq Commands
      /\ GateAfter(gate, d.commands) <=> d.next.admission_open
      /\ CustodyMove(CustodyOf(machine), CustodyOf(d.next))
  BY <1>2 DEF StepOK
<1>4. gate' = d.next.admission_open /\ gate' \in BOOLEAN
  <2>1. d.next.admission_open \in BOOLEAN
    BY <1>3 DEF Sound, Machine
  <2>2. gate' \in BOOLEAN
    BY <1>1 DEF GateAfter
  <2>3. QED
    BY <1>1, <1>3, <2>1, <2>2
<1>5. InTeardown(d.next) => released'
  <2>1. InTeardown(d.next) => ~InPhase(d.next, "Admission")
    BY DEF InTeardown, InPhase
  <2>2. QED
    BY <1>1, <1>2, <2>1 DEF StepOK
<1>6. SupervisorInv'
  <2>1. SupervisorTypeOK'
    BY <1>1, <1>3, <1>4 DEF SupervisorTypeOK, Sound
  <2>2. NoViolations'
    BY <1>1, <1>3 DEF NoViolations, Sound
  <2>3. GateFollowsMachine' /\ TeardownHasRelease'
    BY <1>1, <1>4, <1>5 DEF GateFollowsMachine, TeardownHasRelease, InTeardown
  <2>4. QED
    BY <2>1, <2>2, <2>3 DEF SupervisorInv
<1>7. WedgeStep
  BY <1>1, <1>2 DEF StepOK, WedgeStep
<1>8. [Custody!Next]_(Custody!vars)
  <2>1. (gate <=> CustodyOf(machine) = "Serving") /\ gate \in BOOLEAN
    BY <1>2, ServingIsOpen DEF Sound, Machine
  <2>2. gate' <=> CustodyOf(machine') = "Serving"
    BY <1>1, <1>3, <1>4, ServingIsOpen
  <2>3. CustodyMove(CustodyOf(machine), CustodyOf(machine'))
    BY <1>1, <1>3
  <2>4. QED
    BY <1>4, <2>1, <2>2, <2>3 DEF CustodyMove, Custody!Next, Custody!vars,
       Custody!Build, Custody!Serve, Custody!Hold, Custody!Drain,
       Custody!Dismantle, Custody!Vacate
<1>9. QED
  BY <1>6, <1>7, <1>8 DEF StepFacts

\* The initialiser of psp_network_supervisor_init is a good machine.
LEMMA InitOK == SupervisorInit => SupervisorInv /\ Custody!Init
<1> SUFFICES ASSUME SupervisorInit PROVE SupervisorInv /\ Custody!Init
  OBVIOUS
<1>1. machine = InitialMachine /\ commands = {} /\ gate = FALSE
      /\ released = FALSE
  BY DEF SupervisorInit
<1>2. Target("Off", "None", 0) \in Targets
  BY DEF Target, Targets
<1>3. InitialMachine \in Machine
  BY <1>2, EnumFacts DEF InitialMachine, Machine
<1>4. SupervisorInv
  BY <1>1, <1>3 DEF SupervisorInv, SupervisorTypeOK, NoViolations,
     GateFollowsMachine,
     TeardownHasRelease, InitialMachine, StackAgrees, ChildAgrees,
     AdmissionAgrees, LeaseAgrees, Resting
<1>5. Custody!Init
  BY <1>1 DEF Custody!Init, CustodyOf, InitialMachine, Resting
<1>6. QED
  BY <1>4, <1>5

\* One case per event of psp_network_supervisor_transition.
LEMMA NextOK == SupervisorInv /\ [SupervisorNext]_supervisorVars => StepFacts
<1> SUFFICES ASSUME SupervisorInv, [SupervisorNext]_supervisorVars
             PROVE  StepFacts
  OBVIOUS
<1>1. Sound(machine)
  BY DEF SupervisorInv, SupervisorTypeOK, NoViolations, Sound
<1>2. CASE TargetChangedEvent
  <2>1. PICK t \in Targets, s \in Snapshots :
            Dispatch(OnTargetChanged(machine, s, t), FALSE)
    BY <1>2 DEF TargetChangedEvent
  <2>2. QED
    BY <1>1, <2>1, TargetChangedOK, DispatchStep
<1>3. CASE ResumeEvent
  BY <1>1, <1>3, ResumeOK, DispatchStep DEF ResumeEvent
<1>4. CASE LadderReadyEvent
  BY <1>1, <1>4, LadderReadyOK, DispatchStep DEF LadderReadyEvent
<1>5. CASE LadderFailedEvent
  <2>1. PICK f \in Failures, s \in Snapshots :
            Dispatch(OnLadderFailed(machine, s, f), FALSE)
    BY <1>5 DEF LadderFailedEvent
  <2>2. QED
    BY <1>1, <2>1, LadderFailedOK, DispatchStep
<1>6. CASE RegressionHintEvent
  BY <1>1, <1>6, RegressionHintOK, DispatchStep DEF RegressionHintEvent
<1>7. CASE LinkUpEvent
  BY <1>1, <1>7, LinkUpOK, DispatchStep DEF LinkUpEvent
<1>8. CASE ProbeFailedEvent
  BY <1>1, <1>8, ProbeFailedOK, DispatchStep DEF ProbeFailedEvent
<1>9. CASE RejoinFailedEvent
  BY <1>1, <1>9, RejoinFailedOK, DispatchStep DEF RejoinFailedEvent
<1>10. CASE AdmissionStoppedEvent
  <2>1. PICK s \in Snapshots :
            Dispatch(OnAdmissionStopped(machine, s), s.lease_count = 0)
    BY <1>10 DEF AdmissionStoppedEvent
  <2>2. (s.lease_count = 0) \in BOOLEAN
    OBVIOUS
  <2>3. QED
    BY <1>1, <2>1, <2>2, AdmissionStoppedOK, DispatchStep
<1>11. CASE LeasesReleasedEvent
  BY <1>1, <1>11, LeasesReleasedOK, DispatchStep DEF LeasesReleasedEvent
<1>12. CASE DrainTimeoutEvent
  <2>1. PICK s \in Snapshots : Dispatch(OnDrainTimeout(machine, s), FALSE)
    BY <1>12 DEF DrainTimeoutEvent
  <2>2. QED
    BY <1>1, <2>1, DrainTimeoutOK, DispatchStep
<1>13. CASE LeaveFinishedEvent
  BY <1>1, <1>13, LeaveFinishedOK, DispatchStep DEF LeaveFinishedEvent
<1>14. CASE RungUnwoundEvent
  BY <1>1, <1>14, RungUnwoundOK, DispatchStep DEF RungUnwoundEvent
<1>15. CASE UnwoundEvent
  <2>1. PICK s \in Snapshots : Dispatch(OnUnwound(machine, s), FALSE)
    BY <1>15 DEF UnwoundEvent
  <2>2. QED
    BY <1>1, <2>1, UnwoundOK, DispatchStep
<1>16. CASE RetryEvent
  BY <1>1, <1>16, RetryOK, DispatchStep DEF RetryEvent
<1>17. CASE UNCHANGED supervisorVars
  BY <1>17 DEF supervisorVars, StepFacts, WedgeStep, SupervisorInv,
     SupervisorTypeOK, NoViolations,
     GateFollowsMachine, TeardownHasRelease, Custody!vars
<1>18. QED
  BY <1>2, <1>3, <1>4, <1>5, <1>6, <1>7, <1>8, <1>9, <1>10, <1>11, <1>12,
     <1>13, <1>14, <1>15, <1>16, <1>17 DEF SupervisorNext

-----------------------------------------------------------------------------
(***************************************************************************)
(* The theorems.                                                           *)
(***************************************************************************)
\* The inductive invariant holds in every state.
THEOREM Inductive == SupervisorSpec => []SupervisorInv
<1>1. SupervisorInit => SupervisorInv
  BY InitOK
<1>2. SupervisorInv /\ [SupervisorNext]_supervisorVars => SupervisorInv'
  BY NextOK DEF StepFacts
<1>3. QED
  BY <1>1, <1>2, PTL DEF SupervisorSpec

\* The machine, its commands and the gate stay within their types for every
\* set of profiles and every bound on the lease count
\* (psp_network_supervisor.h).
THEOREM TypeCorrect == SupervisorSpec => []SupervisorTypeOK
<1>1. SupervisorInv => SupervisorTypeOK
  BY DEF SupervisorInv
<1>2. QED
  BY <1>1, Inductive, PTL

\* psp_network_supervisor_violations is zero after every sequence of events,
\* and the admission gate the commands leave behind is the one the machine
\* records.
THEOREM Consistent == SupervisorSpec => []MachineIsConsistent
<1>1. SupervisorInv => MachineIsConsistent
  BY DEF SupervisorInv, MachineIsConsistent
<1>2. QED
  BY <1>1, Inductive, PTL

\* No stop reaches the native teardown before a report of an empty lease
\* table.
THEOREM TeardownIsReleased == SupervisorSpec => []TeardownHasRelease
<1>1. SupervisorInv => TeardownHasRelease
  BY DEF SupervisorInv
<1>2. QED
  BY <1>1, Inductive, PTL

\* A wedge is cleared only after such a report.
THEOREM WedgeIsKept == SupervisorSpec => WedgeNeedsRelease
<1>1. SupervisorInv /\ [SupervisorNext]_supervisorVars =>
        [(machine.stack = "RetainedWedged"
            /\ machine'.stack # "RetainedWedged") => released']_supervisorVars
  BY NextOK DEF StepFacts, WedgeStep
<1>2. QED
  BY <1>1, Inductive, PTL DEF SupervisorSpec, WedgeNeedsRelease

\* The reducer implements the abstract custody protocol.
THEOREM Refinement == SupervisorSpec => ImplementsCustody
<1>1. SupervisorInit => Custody!Init
  BY InitOK
<1>2. SupervisorInv /\ [SupervisorNext]_supervisorVars
        => [Custody!Next]_(Custody!vars)
  BY NextOK DEF StepFacts
<1>3. QED
  BY <1>1, <1>2, Inductive, PTL
     DEF SupervisorSpec, ImplementsCustody, Custody!Spec

-----------------------------------------------------------------------------
(***************************************************************************)
(* The frontend.                                                           *)
(***************************************************************************)

-----------------------------------------------------------------------------
(***************************************************************************)
(* The inductive invariant.                                                *)
(***************************************************************************)
Lifecycles == [machine : Machine, gate : BOOLEAN,
               requests : SUBSET Requesters,
               quiesce_requested : BOOLEAN,
               shutdown : ShutdownPhases,
               rejoin : RejoinServicePhases]
Nets == [status : Statuses, modules : SUBSET Modules,
         services : SUBSET Services]
Tables == [Slots -> SlotStates]
Sessions == [phase : SessionPhases, network_stop : BOOLEAN,
             cancel_pending : BOOLEAN]
Worlds == [lifecycle : Lifecycles, net : Nets, slots : Tables,
           session : Sessions]

(***************************************************************************)
(* The machines of each state: what psp_network_supervisor_violations      *)
(* accepts, with no child phase left of a stop and one attempt behind a    *)
(* rejoin.                                                                 *)
(***************************************************************************)
Childless(n) ==
    /\ n \in Machine
    /\ n.rejoin_phase = "None"
    /\ n.stopping_phase = "None" /\ n.stopping_target = "None"

Starts(n) ==
    /\ Childless(n)
    /\ n.state = "Starting" /\ n.stack \in {"None", "ModulesOnly"}
    /\ ~n.admission_open /\ n.retained_lease_count = 0

Rests(n) ==
    /\ Childless(n)
    /\ n.state \in Resting /\ n.stack \in {"None", "ModulesOnly"}
    /\ ~n.admission_open /\ n.retained_lease_count = 0

Serves(n) ==
    /\ Childless(n)
    /\ n.state = "Ready" /\ n.stack = "Full"
    /\ n.admission_open /\ n.retained_lease_count = 0

Rejoins(n, phase) ==
    /\ n \in Machine
    /\ n.state = "Rejoining" /\ n.stack = "Full"
    /\ n.rejoin_phase = phase /\ phase # "None"
    /\ phase = "Apctl" => n.rejoin_attempts = 1
    /\ n.stopping_phase = "None" /\ n.stopping_target = "None"
    /\ ~n.admission_open /\ n.retained_lease_count = 0

Retains(n, stack) ==
    /\ Childless(n)
    /\ n.state = "SuspendedRetained" /\ n.stack = stack
    /\ ~n.admission_open
    /\ \/ stack = "Full" /\ n.retained_lease_count = 0
       \/ stack = "RetainedWedged"

Stops(n, phase, target, stack) ==
    /\ n \in Machine
    /\ n.state = "Stopping" /\ n.stack = stack
    /\ n.rejoin_phase = "None"
    /\ n.stopping_phase = phase /\ phase # "None"
    /\ n.stopping_target = target /\ target # "None"
    /\ ~n.admission_open
    /\ n.retained_lease_count # 0 => stack = "RetainedWedged"

Good(m) ==
    /\ m \in Machine
    /\ m.state \in Resting => Rests(m)
    /\ m.state = "Starting" => Starts(m)
    /\ m.state = "Ready" => Serves(m)
    /\ m.state = "Rejoining" => Rejoins(m, m.rejoin_phase)
    /\ m.state = "SuspendedRetained" => Retains(m, m.stack)
    /\ m.state = "Stopping" =>
            Stops(m, m.stopping_phase, m.stopping_target, m.stack)

\* A ladder that has not initialised a service, and a stack that serves.
Unbuilt(n) ==
    n.services = {} /\ n.status # "Ready" /\ ServicesBelow(n.status) = {}
Serving(n) == n.services = Services /\ n.status = "Ready"

Waits(m) == InPhase(m, "DrainLeases") \/ InPhase(m, "LeaseWedged")
Unwinds(m) == InPhase(m, "LeaveApctl") \/ InPhase(m, "UnwindRungs")
Wedged(m) == m.state = "SuspendedRetained" /\ m.stack = "RetainedWedged"

\* What the state of the machine says of the native stack.
StackFits(m, n) ==
    /\ m.state \in Resting => Unbuilt(n)
    /\ m.state = "Starting" =>
            n.services = ServicesBelow(n.status) /\ n.status # "Ready"
    /\ m.state \in {"Ready", "Rejoining", "SuspendedRetained"} =>
            n.services = Services
    /\ m.state = "Ready" \/ Wedged(m) \/ Waits(m) => Serving(n)
    /\ Waits(m) => m.stack # "None"
    /\ InPhase(m, "Admission") =>
            /\ m.stack \in {"Full", "RetainedWedged"} =>
                    n.services = Services
            /\ m.stack = "None" => Unbuilt(n)
            /\ m.stopping_target = "SuspendedRetained" =>
                    m.stack \in {"Full", "RetainedWedged"}

\* A lease outlives neither the stack it was admitted to nor its drain.
LeasesFit(m, n, table) ==
    (\E i \in Slots : table[i] # "Free") =>
        /\ Serving(n)
        /\ m.state \in {"Ready", "Rejoining", "SuspendedRetained", "Stopping"}
        /\ ~Unwinds(m)

\* The services that may still be up when the unwind comes to a phase.
ServicesLeft(phase) ==
    CASE phase = "TermResolver" -> Services \ {"Apctl"}
      [] phase = "TermInet" -> {"Core", "InetService"}
      [] phase = "TermCore" -> {"Core"}
      [] phase \in {"UnloadInet", "UnloadCommon"} -> {}
      [] OTHER -> Services

UnwindFits(m, n, phase) ==
    /\ phase = "Leaving" => InPhase(m, "LeaveApctl")
    /\ phase \in {"Idle", "Leaving"} <=> ~InPhase(m, "UnwindRungs")
    /\ n.services \subseteq ServicesLeft(phase)

QuiesceFits(m, quiesce_requested, table, s) ==
    quiesce_requested =>
        /\ \A i \in Slots : table[i] \in {"Free", "Cancelling"}
        /\ SessionOwned(s) => s.network_stop
        /\ m.state = "Stopping" \/ Wedged(m)
        /\ InPhase(m, "Admission") =>
                /\ m.stack = "RetainedWedged"
                /\ m.stopping_target # "SuspendedRetained"

\* Everything a world says of a machine m that it may hold.
Fits(m, w) ==
    /\ Good(m)
    /\ StackFits(m, w.net)
    /\ LeasesFit(m, w.net, w.slots)
    /\ UnwindFits(m, w.net, w.lifecycle.shutdown)
    /\ QuiesceFits(m, w.lifecycle.quiesce_requested, w.slots, w.session)

Coherent(w) ==
    /\ w \in Worlds
    /\ w.lifecycle.gate = w.lifecycle.machine.admission_open
    /\ Fits(w.lifecycle.machine, w)

-----------------------------------------------------------------------------
(***************************************************************************)
(* Where the browser thread is, and what it knows there.                   *)
(***************************************************************************)
Callers == {"Navigation", "Resume", "Startup"}

\* A machine the reconnect wait of psp_connect_network can find.
Dialled(m) ==
    \/ m.state \in {"Starting", "Ready", "Rejoining"}
    \/ m.state = "Stopping" /\ m.stopping_target = "Restart"
    \/ Wedged(m)

Suspending(b) == b = [at |-> "Shutdown", then |-> "Asleep"]
Sleeping(b) == b.at = "Asleep" /\ b.then # "Off"
Halting(b) == b.at = "Halted" \/ b = [at |-> "Shutdown", then |-> "Halted"]
Waking(b) == b = [at |-> "Recover", then |-> "Resume"]

ThreadKnows(w, b) ==
    LET m == w.lifecycle.machine
    IN  /\ b.at = "Boot" => m.state \in Resting
        /\ b.at = "Shutdown" =>
                b.then \in {"Dial", "Halt", "Asleep", "Loop", "Halted"}
        /\ b.at \in {"Recover", "Connect"} => b.then \in Callers
        /\ b.at = "Asleep" => b.then \in {"Off", "Started", "Ready"}
        /\ b.at = "Asleep" /\ b.then = "Off" => m.state \in Resting
        /\ b.at = "Asleep" /\ b.then = "Ready" =>
                ~w.lifecycle.quiesce_requested
        /\ b.at = "Recover" => Dialled(m)
        /\ b.at = "Connect" => m.state = "Starting" /\ StatusActive(w.net)

\* What only a suspend, a resume or the end of the process may leave.
OnlyThere(w, b) ==
    LET m == w.lifecycle.machine
    IN  /\ "Suspend" \in w.lifecycle.requests => Suspending(b) \/ Sleeping(b)
        /\ "Shutdown" \in w.lifecycle.requests => Halting(b)
        /\ m.state = "SuspendedRetained" => Sleeping(b) \/ Waking(b)
        /\ m.state = "Stopping" /\ m.stopping_target = "SuspendedRetained" =>
                Suspending(b) \/ Sleeping(b)
        /\ w.lifecycle.quiesce_requested /\ InPhase(m, "Admission") =>
                b.at = "Shutdown" \/ Waking(b)

Placed(w, b) ==
    /\ b \in [at : Places, then : Returns]
    /\ ThreadKnows(w, b)
    /\ OnlyThere(w, b)

IInv == Coherent(World) /\ Placed(World, browser)

LEMMA ActiveStatusFacts ==
    /\ ActiveStatuses =
            {"CheckingProfile", "LoadingCommon", "LoadingInet", "InitCore",
             "InitInet", "InitResolver", "InitApctl", "Connecting",
             "WaitingForIp"}
    /\ ActiveStatuses \subseteq Statuses
    /\ \A st \in {"Idle", "Ready", "Failed", "Cancelled"} :
            st \in Statuses /\ st \notin ActiveStatuses
<1>1. DOMAIN Rungs = 1 .. 9
  BY DEF Rungs
<1>2. ActiveStatuses = {Rungs[1], Rungs[2], Rungs[3], Rungs[4], Rungs[5],
                        Rungs[6], Rungs[7], Rungs[8], Rungs[9]}
  <2>1. 1 .. 9 = {1, 2, 3, 4, 5, 6, 7, 8, 9}
    OBVIOUS
  <2>2. QED
    BY <1>1, <2>1 DEF ActiveStatuses
<1>3. ActiveStatuses =
            {"CheckingProfile", "LoadingCommon", "LoadingInet", "InitCore",
             "InitInet", "InitResolver", "InitApctl", "Connecting",
             "WaitingForIp"}
  BY <1>2 DEF Rungs
<1>4. QED
  BY <1>3 DEF Statuses

-----------------------------------------------------------------------------
LEMMA ShapesAreGood ==
    ASSUME NEW n
    PROVE  /\ Starts(n) => Good(n)
           /\ Rests(n) => Good(n)
           /\ Serves(n) => Good(n)
           /\ \A phase : Rejoins(n, phase) => Good(n)
           /\ \A stack : Retains(n, stack) => Good(n)
           /\ \A phase, target, stack :
                Stops(n, phase, target, stack) => Good(n)
BY DEF Good, Childless, Resting, Starts, Rests, Serves, Rejoins, Retains,
   Stops
-----------------------------------------------------------------------------
(***************************************************************************)
(* The effect of each helper of the reducer.                               *)
(***************************************************************************)
LEMMA DecideFields ==
    ASSUME NEW n, NEW cmds
    PROVE  /\ Decide(n, cmds).next = n /\ Decide(n, cmds).commands = cmds
           /\ Ignore(n).next = n /\ Ignore(n).commands = {}
BY DEF Decide, Ignore

LEMMA EnterStartingEffect ==
    ASSUME NEW m \in Machine
    PROVE  /\ Starts(EnterStarting(m).next)
           /\ EnterStarting(m).commands = {"StartLadder"}
BY EnumFacts DEF EnterStarting, Decide, ClearChildren, Machine, Starts,
   Childless

LEMMA EnterReadyEffect ==
    ASSUME NEW m \in Machine
    PROVE  /\ Serves(EnterReady(m).next)
           /\ EnterReady(m).commands = {"OpenAdmission"}
BY EnumFacts DEF EnterReady, Decide, ClearChildren, Machine, Serves,
   Childless

LEMMA EnterRejoiningEffect ==
    ASSUME NEW m \in Machine, m.retained_lease_count = 0
    PROVE  /\ Rejoins(EnterRejoining(m).next, "Probing")
           /\ EnterRejoining(m).commands = {"StopAdmission", "ProbeLink"}
BY EnumFacts DEF EnterRejoining, Decide, ClearChildren, Machine, Rejoins

LEMMA EnterStoppingEffect ==
    ASSUME NEW m \in Machine,
           NEW target \in StoppingTargets \ {"None"},
           NEW failure \in Failures,
           m.retained_lease_count # 0 => m.stack = "RetainedWedged"
    PROVE  /\ Stops(EnterStopping(m, target, failure).next,
                    "Admission", target, m.stack)
           /\ EnterStopping(m, target, failure).commands = {"StopAdmission"}
BY EnumFacts DEF EnterStopping, Decide, ClearChildren, Machine, Stops

\* A finished stop rests or, on its way to another ladder, starts.
LEMMA FinishStoppingEffect ==
    ASSUME NEW m \in Machine, NEW remaining
    PROVE  LET d == FinishStopping(m, remaining)
           IN  /\ IF m.stopping_target = "Restart" THEN Starts(d.next)
                                                   ELSE Rests(d.next)
               /\ d.commands \in {{}, {"StartLadder"}}
<1> DEFINE gone ==
        [ClearChildren(m) EXCEPT
            !.stack = IF remaining = "ModulesOnly" THEN remaining ELSE "None",
            !.admission_open = FALSE,
            !.retained_lease_count = 0]
<1>1. /\ Childless(gone)
      /\ gone.stack \in {"None", "ModulesOnly"}
      /\ gone.admission_open = FALSE
      /\ gone.retained_lease_count = 0
  BY EnumFacts DEF ClearChildren, Machine, Childless
<1>2. m.stopping_target \in {"None", "Off", "Offline", "SuspendedOff",
                             "SuspendedRetained", "Restart"}
  BY DEF Machine, StoppingTargets
<1> HIDE DEF gone
<1>3. ASSUME NEW rest \in Resting, NEW failure \in Failures
      PROVE  Rests(Ignore([gone EXCEPT !.state = rest,
                                       !.failure = failure]).next)
  <2>1. Rests([gone EXCEPT !.state = rest, !.failure = failure])
    BY <1>1, EnumFacts DEF Rests, Childless, Machine, Resting
  <2>2. QED
    BY <2>1, DecideFields, Zenon
<1>4. Rests([gone EXCEPT !.state = "SuspendedOff"])
  BY <1>1, EnumFacts DEF Rests, Childless, Machine, Resting
<1>5. CASE m.stopping_target = "Off"
  <2>1. FinishStopping(m, remaining)
            = Ignore([gone EXCEPT !.state = "Off", !.failure = "None"])
    BY <1>5 DEF FinishStopping, gone
  <2>2. "Off" \in Resting /\ "None" \in Failures
    BY EnumFacts DEF Resting
  <2>3. Rests(FinishStopping(m, remaining).next)
    BY <1>3, <2>1, <2>2
  <2>4. FinishStopping(m, remaining).commands = {}
    BY <2>1, DecideFields
  <2>5. QED
    BY <1>5, <2>3, <2>4
<1>6. CASE m.stopping_target = "Offline"
  <2> DEFINE why == IF gone.failure = "None" THEN "Start" ELSE gone.failure
  <2>1. FinishStopping(m, remaining)
            = Ignore([gone EXCEPT !.state = "Offline", !.failure = why])
    BY <1>6 DEF FinishStopping, gone
  <2>2. why \in Failures /\ "Offline" \in Resting
    BY <1>1, EnumFacts DEF Childless, Machine, Resting
  <2> HIDE DEF why
  <2>3. Rests(FinishStopping(m, remaining).next)
    BY <1>3, <2>1, <2>2
  <2>4. FinishStopping(m, remaining).commands = {}
    BY <2>1, DecideFields
  <2>5. QED
    BY <1>6, <2>3, <2>4
<1>7. CASE m.stopping_target = "SuspendedOff"
  <2>1. FinishStopping(m, remaining)
            = Ignore([gone EXCEPT !.state = "SuspendedOff"])
    BY <1>7 DEF FinishStopping, gone
  <2>2. Rests(FinishStopping(m, remaining).next)
    BY <1>4, <2>1, DecideFields
  <2>3. FinishStopping(m, remaining).commands = {}
    BY <2>1, DecideFields
  <2>4. QED
    BY <1>7, <2>2, <2>3
<1>8. CASE m.stopping_target = "Restart"
  <2>1. FinishStopping(m, remaining) = EnterStarting(gone)
    BY <1>8 DEF FinishStopping, gone
  <2>2. QED
    BY <1>1, <1>8, <2>1, EnterStartingEffect DEF Childless
<1>9. CASE m.stopping_target \in {"None", "SuspendedRetained"}
  <2>1. FinishStopping(m, remaining)
            = Ignore([gone EXCEPT !.state = "Offline", !.failure = "Start"])
    BY <1>9 DEF FinishStopping, gone
  <2>2. "Offline" \in Resting /\ "Start" \in Failures
    BY EnumFacts DEF Resting
  <2>3. Rests(FinishStopping(m, remaining).next)
    BY <1>3, <2>1, <2>2
  <2>4. FinishStopping(m, remaining).commands = {}
    BY <2>1, DecideFields
  <2>5. QED
    BY <1>9, <2>3, <2>4
<1>10. QED
  BY <1>2, <1>5, <1>6, <1>7, <1>8, <1>9

-----------------------------------------------------------------------------
(***************************************************************************)
(* What each event makes of the machine it finds.                          *)
(***************************************************************************)
\* The gate after a decision is what the next machine says of it.
GateAgrees(m, d) ==
    GateAfter(m.admission_open, d.commands) = d.next.admission_open

LEMMA GateFacts ==
    ASSUME NEW m, NEW d, m.admission_open \in BOOLEAN
    PROVE  /\ d.commands = {"OpenAdmission"} /\ d.next.admission_open = TRUE
                => GateAgrees(m, d)
           /\ "StopAdmission" \in d.commands /\ "OpenAdmission" \notin d.commands
                /\ d.next.admission_open = FALSE => GateAgrees(m, d)
           /\ {"StopAdmission", "OpenAdmission"} \cap d.commands = {}
                /\ d.next.admission_open = m.admission_open
                => GateAgrees(m, d)
BY DEF GateAgrees, GateAfter

\* psp_network_begin_leave_or_finish.
LeaveOutcome(m, n) ==
    \/ m.stopping_target = "SuspendedRetained" /\ Retains(n, "Full")
    \/ /\ m.stopping_target # "SuspendedRetained" /\ m.stack = "None"
       /\ IF m.stopping_target = "Restart" THEN Starts(n) ELSE Rests(n)
    \/ /\ m.stopping_target # "SuspendedRetained" /\ m.stack # "None"
       /\ Stops(n, "LeaveApctl", m.stopping_target, m.stack)
       /\ n.retained_lease_count = m.retained_lease_count

LEMMA BeginLeaveEffect ==
    ASSUME NEW m, Stops(m, m.stopping_phase, m.stopping_target, m.stack)
    PROVE  LET d == BeginLeaveOrFinish(m)
           IN  LeaveOutcome(m, d.next) /\ GateAgrees(m, d)
<1> DEFINE d == BeginLeaveOrFinish(m)
<1>0. /\ m \in Machine /\ m.admission_open = FALSE
      /\ m.stopping_target # "None"
  BY DEF Stops, Machine
<1>1. CASE m.stopping_target = "SuspendedRetained"
  <2>1. d = Ignore([ClearChildren(m) EXCEPT
                    !.state = "SuspendedRetained", !.stack = "Full",
                    !.admission_open = FALSE, !.retained_lease_count = 0])
    BY <1>1 DEF BeginLeaveOrFinish
  <2>2. d.commands = {} /\ d.next = [ClearChildren(m) EXCEPT
                    !.state = "SuspendedRetained", !.stack = "Full",
                    !.admission_open = FALSE, !.retained_lease_count = 0]
    BY <2>1, DecideFields
  <2>3. Retains(d.next, "Full") /\ d.next.admission_open = FALSE
    BY <1>0, <2>2, EnumFacts DEF ClearChildren, Machine, Retains, Childless
  <2>4. GateAgrees(m, d)
    BY <1>0, <2>2, <2>3 DEF GateAgrees, GateAfter
  <2>5. QED
    BY <1>1, <2>3, <2>4 DEF LeaveOutcome
<1>2. CASE m.stopping_target # "SuspendedRetained" /\ m.stack = "None"
  <2>1. d = FinishStopping(m, "None")
    BY <1>2 DEF BeginLeaveOrFinish
  <2>2. /\ IF m.stopping_target = "Restart" THEN Starts(d.next)
                                            ELSE Rests(d.next)
        /\ d.commands \in {{}, {"StartLadder"}}
    BY <1>0, <2>1, FinishStoppingEffect
  <2>3. d.next.admission_open = FALSE
    BY <2>2 DEF Starts, Rests, Childless, Machine
  <2>4. GateAgrees(m, d)
    BY <1>0, <2>2, <2>3 DEF GateAgrees, GateAfter
  <2>5. QED
    BY <1>2, <2>2, <2>4 DEF LeaveOutcome
<1>3. CASE m.stopping_target # "SuspendedRetained" /\ m.stack # "None"
  <2>1. d = Decide([m EXCEPT !.stopping_phase = "LeaveApctl"],
                   {"DisconnectApctl"})
    BY <1>3 DEF BeginLeaveOrFinish
  <2>2. /\ Stops(d.next, "LeaveApctl", m.stopping_target, m.stack)
        /\ d.next.retained_lease_count = m.retained_lease_count
        /\ d.commands = {"DisconnectApctl"}
        /\ d.next.admission_open = FALSE
    BY <1>0, <2>1, EnumFacts DEF Decide, Machine, Stops
  <2>3. GateAgrees(m, d)
    BY <1>0, <2>2 DEF GateAgrees, GateAfter
  <2>4. QED
    BY <1>3, <2>2, <2>3 DEF LeaveOutcome
<1>4. QED
  BY <1>1, <1>2, <1>3
\* ADMISSION_STOPPED: a stop with leases drains, one without leaves.
LEMMA AdmissionStoppedEffect ==
    ASSUME NEW m, Good(m), InPhase(m, "Admission"), NEW s \in Snapshots
    PROVE  LET d == OnAdmissionStopped(m, s)
           IN  /\ GateAgrees(m, d)
               /\ s.lease_count = 0 => LeaveOutcome(m, d.next)
               /\ s.lease_count # 0 =>
                    Stops(d.next, "DrainLeases", m.stopping_target, m.stack)
<1> DEFINE d == OnAdmissionStopped(m, s)
<1>1. /\ m \in Machine /\ m.admission_open = FALSE
      /\ Stops(m, m.stopping_phase, m.stopping_target, m.stack)
  BY DEF Good, InPhase, Stops, Machine
<1>2. CASE s.lease_count = 0
  <2>1. d = BeginLeaveOrFinish(m)
    BY <1>2 DEF OnAdmissionStopped
  <2>2. QED
    BY <1>1, <1>2, <2>1, BeginLeaveEffect
<1>3. CASE s.lease_count # 0
  <2>1. d = Decide([m EXCEPT !.stopping_phase = "DrainLeases"],
                   {"CancelConsumers"})
    BY <1>3 DEF OnAdmissionStopped
  <2>2. /\ Stops(d.next, "DrainLeases", m.stopping_target, m.stack)
        /\ d.commands = {"CancelConsumers"}
        /\ d.next.admission_open = FALSE
    BY <1>1, <2>1, EnumFacts DEF Decide, Machine, Stops
  <2>3. GateAgrees(m, d)
    BY <1>1, <2>2 DEF GateAgrees, GateAfter
  <2>4. QED
    BY <1>3, <2>2, <2>3
<1>4. QED
  BY <1>2, <1>3

\* LEASES_RELEASED during a drain that keeps a stack.
LEMMA LeasesReleasedEffect ==
    ASSUME NEW m, Good(m), Waits(m), m.stack # "None"
    PROVE  LET d == OnLeasesReleased(m)
           IN  /\ GateAgrees(m, d)
               /\ m.stopping_target = "SuspendedRetained" =>
                    Retains(d.next, "Full")
               /\ m.stopping_target # "SuspendedRetained" =>
                    \E stack \in Stacks :
                        Stops(d.next, "LeaveApctl", m.stopping_target, stack)
<1> DEFINE d == OnLeasesReleased(m)
           freed == [m EXCEPT !.stack = "Full", !.retained_lease_count = 0]
<1>1. /\ m \in Machine /\ m.admission_open = FALSE /\ m.stack \in Stacks
      /\ Stops(m, m.stopping_phase, m.stopping_target, m.stack)
  BY DEF Good, Waits, InPhase, Stops, Machine
<1>2. CASE InPhase(m, "DrainLeases")
  <2>1. d = BeginLeaveOrFinish(m)
    BY <1>2 DEF OnLeasesReleased, InPhase
  <2>2. LeaveOutcome(m, d.next) /\ GateAgrees(m, d)
    BY <1>1, <2>1, BeginLeaveEffect
  <2>3. QED
    BY <1>1, <2>2 DEF LeaveOutcome
<1>3. CASE InPhase(m, "LeaseWedged")
  <2>1. d = BeginLeaveOrFinish(freed)
    BY <1>3 DEF OnLeasesReleased, InPhase
  <2>2. /\ Stops(freed, freed.stopping_phase, freed.stopping_target,
                 freed.stack)
        /\ freed.stopping_target = m.stopping_target
        /\ freed.stack = "Full" /\ freed.admission_open = m.admission_open
    BY <1>1, EnumFacts DEF Stops, Machine
  <2> HIDE DEF freed
  <2>3. LeaveOutcome(freed, d.next) /\ GateAgrees(freed, d)
    BY <2>1, <2>2, BeginLeaveEffect
  <2>4. GateAgrees(m, d)
    BY <2>2, <2>3 DEF GateAgrees
  <2>5. QED
    BY <2>2, <2>3, <2>4, EnumFacts DEF LeaveOutcome
<1>4. QED
  BY <1>2, <1>3 DEF Waits

\* LEASES_RELEASED after a suspend that kept a wedged stack.
LEMMA WedgeReleasedEffect ==
    ASSUME NEW m, Good(m), Wedged(m)
    PROVE  LET d == OnLeasesReleased(m)
           IN  /\ GateAgrees(m, d)
               /\ Rejoins(d.next, "Probing") \/ Retains(d.next, "Full")
<1> DEFINE d == OnLeasesReleased(m)
           freed == [m EXCEPT !.stack = "Full", !.retained_lease_count = 0]
<1>1. m \in Machine /\ m.admission_open = FALSE /\ Retains(m, m.stack)
  BY DEF Good, Wedged, Retains, Childless, Machine
<1>2. /\ Retains(freed, "Full") /\ freed.admission_open = FALSE
      /\ freed \in Machine /\ freed.retained_lease_count = 0
  BY <1>1, EnumFacts DEF Retains, Childless, Machine
<1>3. d = IF m.target.kind = "Ready" THEN EnterRejoining(freed)
                                     ELSE Ignore(freed)
  BY DEF OnLeasesReleased, Wedged, InPhase
<1> HIDE DEF freed
<1>4. CASE m.target.kind = "Ready"
  <2>1. /\ Rejoins(d.next, "Probing")
        /\ d.commands = {"StopAdmission", "ProbeLink"}
    BY <1>2, <1>3, <1>4, EnterRejoiningEffect
  <2>2. d.next.admission_open = FALSE
    BY <2>1 DEF Rejoins, Machine
  <2>3. QED
    BY <1>1, <2>1, <2>2 DEF GateAgrees, GateAfter
<1>5. CASE m.target.kind # "Ready"
  <2>1. d.next = freed /\ d.commands = {}
    BY <1>3, <1>5, DecideFields
  <2>2. QED
    BY <1>1, <1>2, <2>1 DEF GateAgrees, GateAfter
<1>6. QED
  BY <1>4, <1>5

\* DRAIN_TIMEOUT: the stack is kept for the leases, in a suspend or a stop.
LEMMA DrainTimeoutEffect ==
    ASSUME NEW m, Good(m), InPhase(m, "DrainLeases"), NEW s \in Snapshots
    PROVE  LET d == OnDrainTimeout(m, s)
           IN  /\ GateAgrees(m, d)
               /\ m.stopping_target = "SuspendedRetained" =>
                    Retains(d.next, "RetainedWedged")
               /\ m.stopping_target # "SuspendedRetained" =>
                    Stops(d.next, "LeaseWedged", m.stopping_target,
                          "RetainedWedged")
<1> DEFINE d == OnDrainTimeout(m, s)
           wedged == [m EXCEPT !.retained_lease_count = s.lease_count,
                               !.stack = "RetainedWedged"]
<1>1. /\ m \in Machine /\ m.admission_open = FALSE /\ m.state = "Stopping"
      /\ m.stopping_target # "None" /\ m.rejoin_phase = "None"
  BY DEF Good, InPhase, Stops, Machine
<1>2. /\ wedged \in Machine /\ wedged.stack = "RetainedWedged"
      /\ wedged.stopping_target = m.stopping_target
      /\ wedged.state = "Stopping" /\ wedged.rejoin_phase = "None"
      /\ wedged.admission_open = FALSE
  BY <1>1, EnumFacts DEF Machine, Snapshots
<1>3. d = IF m.stopping_target = "SuspendedRetained"
          THEN Decide([ClearChildren(wedged) EXCEPT
                        !.state = "SuspendedRetained"], {"RecordLeaseWedge"})
          ELSE Decide([wedged EXCEPT !.stopping_phase = "LeaseWedged",
                                     !.failure = "LeaseWedged"],
                      {"RecordLeaseWedge"})
  BY DEF OnDrainTimeout
<1> HIDE DEF wedged
<1>4. CASE m.stopping_target = "SuspendedRetained"
  <2>1. /\ d.next = [ClearChildren(wedged) EXCEPT
                        !.state = "SuspendedRetained"]
        /\ d.commands = {"RecordLeaseWedge"}
    BY <1>3, <1>4, DecideFields
  <2>2. Retains(d.next, "RetainedWedged") /\ d.next.admission_open = FALSE
    BY <1>2, <2>1, EnumFacts DEF ClearChildren, Machine, Retains, Childless
  <2>3. QED
    BY <1>1, <1>4, <2>1, <2>2 DEF GateAgrees, GateAfter
<1>5. CASE m.stopping_target # "SuspendedRetained"
  <2>1. /\ d.next = [wedged EXCEPT !.stopping_phase = "LeaseWedged",
                                   !.failure = "LeaseWedged"]
        /\ d.commands = {"RecordLeaseWedge"}
    BY <1>3, <1>5, DecideFields
  <2>2. /\ Stops(d.next, "LeaseWedged", m.stopping_target, "RetainedWedged")
        /\ d.next.admission_open = FALSE
    BY <1>1, <1>2, <2>1, EnumFacts DEF Machine, Stops
  <2>3. QED
    BY <1>1, <1>5, <2>1, <2>2 DEF GateAgrees, GateAfter
<1>6. QED
  BY <1>4, <1>5

\* The events of the unwind.
LEMMA LeaveFinishedEffect ==
    ASSUME NEW m, Good(m), InPhase(m, "LeaveApctl")
    PROVE  LET d == OnLeaveFinished(m)
           IN  /\ GateAgrees(m, d)
               /\ Stops(d.next, "UnwindRungs", m.stopping_target, m.stack)
<1>1. m \in Machine /\ m.admission_open = FALSE /\ m.state = "Stopping"
  BY DEF Good, InPhase, Stops, Machine
<1>2. /\ OnLeaveFinished(m).next = [m EXCEPT !.stopping_phase = "UnwindRungs"]
      /\ OnLeaveFinished(m).commands = {"UnwindOneRung"}
  BY DecideFields DEF OnLeaveFinished
<1>3. Stops(OnLeaveFinished(m).next, "UnwindRungs", m.stopping_target,
            m.stack)
  BY <1>1, <1>2, EnumFacts DEF Machine, Stops, Good
<1>4. QED
  BY <1>1, <1>2, <1>3 DEF GateAgrees, GateAfter, Stops, Machine

LEMMA RungUnwoundEffect ==
    ASSUME NEW m, Good(m), InPhase(m, "UnwindRungs")
    PROVE  LET d == OnRungUnwound(m)
           IN  GateAgrees(m, d) /\ d.next = m
<1>1. m.admission_open \in BOOLEAN
  BY DEF Good, Machine
<1>2. OnRungUnwound(m).next = m
      /\ OnRungUnwound(m).commands = {"UnwindOneRung"}
  BY DecideFields DEF OnRungUnwound
<1>3. QED
  BY <1>1, <1>2 DEF GateAgrees, GateAfter

LEMMA UnwoundEffect ==
    ASSUME NEW m, Good(m), InPhase(m, "UnwindRungs"), NEW s
    PROVE  LET d == OnUnwound(m, s)
           IN  /\ GateAgrees(m, d)
               /\ IF m.stopping_target = "Restart" THEN Starts(d.next)
                                                   ELSE Rests(d.next)
<1>1. m \in Machine /\ m.admission_open = FALSE
  BY DEF Good, InPhase, Stops, Machine
<1>2. OnUnwound(m, s) = FinishStopping(m, s.stack)
  BY DEF OnUnwound
<1>3. /\ IF m.stopping_target = "Restart" THEN Starts(OnUnwound(m, s).next)
                                          ELSE Rests(OnUnwound(m, s).next)
      /\ OnUnwound(m, s).commands \in {{}, {"StartLadder"}}
  BY <1>1, <1>2, FinishStoppingEffect
<1>4. OnUnwound(m, s).next.admission_open = FALSE
  BY <1>3 DEF Starts, Rests, Childless, Machine
<1>5. QED
  BY <1>1, <1>3, <1>4 DEF GateAgrees, GateAfter
\* The events of the ladder, the link and the rejoin.
LEMMA LadderReadyEffect ==
    ASSUME NEW m, Good(m)
    PROVE  LET d == OnLadderReady(m)
           IN  /\ GateAgrees(m, d)
               /\ m.state = "Starting" => Serves(d.next)
               /\ m.state # "Starting" => d.next = m
<1>1. m \in Machine /\ m.admission_open \in BOOLEAN
  BY DEF Good, Machine
<1>2. CASE m.state = "Starting"
  <2>1. OnLadderReady(m) = EnterReady(m)
    BY <1>2 DEF OnLadderReady
  <2>2. /\ Serves(OnLadderReady(m).next)
        /\ OnLadderReady(m).commands = {"OpenAdmission"}
    BY <1>1, <2>1, EnterReadyEffect
  <2>3. OnLadderReady(m).next.admission_open = TRUE
    BY <2>2 DEF Serves, Childless, Machine
  <2>4. QED
    BY <1>2, <2>2, <2>3 DEF GateAgrees, GateAfter
<1>3. CASE m.state # "Starting"
  <2>1. OnLadderReady(m).next = m /\ OnLadderReady(m).commands = {}
    BY <1>3, DecideFields DEF OnLadderReady
  <2>2. QED
    BY <1>1, <1>3, <2>1 DEF GateAgrees, GateAfter
<1>4. QED
  BY <1>2, <1>3

LEMMA LadderFailedEffect ==
    ASSUME NEW m, Good(m), NEW s \in Snapshots,
           NEW failure \in {"Start", "Cancelled"}
    PROVE  LET d == OnLadderFailed(m, s, failure)
           IN  /\ GateAgrees(m, d)
               /\ m.state = "Starting" =>
                    Stops(d.next, "Admission", "Offline", s.stack)
               /\ m.state # "Starting" => d.next = m
<1> DEFINE d == OnLadderFailed(m, s, failure)
           seen == [m EXCEPT !.stack = s.stack]
<1>1. m \in Machine /\ m.admission_open \in BOOLEAN
  BY DEF Good, Machine
<1>2. CASE m.state = "Starting"
  <2>1. d = EnterStopping(seen, "Offline", failure)
    BY <1>2 DEF OnLadderFailed
  <2>2. /\ seen \in Machine /\ seen.stack = s.stack
        /\ seen.retained_lease_count = 0
    BY <1>1, <1>2 DEF Good, Starts, Machine, Snapshots, Stacks
  <2>3. failure \in Failures /\ "Offline" \in StoppingTargets \ {"None"}
    BY EnumFacts
  <2> HIDE DEF seen
  <2>4. /\ Stops(d.next, "Admission", "Offline", s.stack)
        /\ d.commands = {"StopAdmission"}
    BY <2>1, <2>2, <2>3, EnterStoppingEffect
  <2>5. d.next.admission_open = FALSE
    BY <2>4 DEF Stops, Machine
  <2>6. QED
    BY <1>2, <2>4, <2>5 DEF GateAgrees, GateAfter
<1>3. CASE m.state # "Starting"
  <2>1. d.next = m /\ d.commands = {}
    BY <1>3, DecideFields DEF OnLadderFailed
  <2>2. QED
    BY <1>1, <1>3, <2>1 DEF GateAgrees, GateAfter
<1>4. QED
  BY <1>2, <1>3

LEMMA RegressionHintEffect ==
    ASSUME NEW m, Good(m), m.state = "Ready"
    PROVE  LET d == OnRegressionHint(m)
           IN  GateAgrees(m, d) /\ Rejoins(d.next, "Probing")
<1>1. m \in Machine /\ m.retained_lease_count = 0
  BY DEF Good, Serves
<1>2. OnRegressionHint(m) = EnterRejoining(m)
  BY DEF OnRegressionHint
<1>3. /\ Rejoins(OnRegressionHint(m).next, "Probing")
      /\ OnRegressionHint(m).commands = {"StopAdmission", "ProbeLink"}
  BY <1>1, <1>2, EnterRejoiningEffect
<1>4. OnRegressionHint(m).next.admission_open = FALSE
  BY <1>3 DEF Rejoins, Machine
<1>5. QED
  BY <1>3, <1>4 DEF GateAgrees, GateAfter

LEMMA LinkUpEffect ==
    ASSUME NEW m, Good(m)
    PROVE  LET d == OnLinkUp(m)
           IN  /\ GateAgrees(m, d)
               /\ m.state = "Rejoining" => Serves(d.next)
               /\ m.state # "Rejoining" => d.next = m
<1>1. m \in Machine /\ m.admission_open \in BOOLEAN
  BY DEF Good, Machine
<1>2. CASE m.state = "Rejoining"
  <2>1. OnLinkUp(m) = EnterReady(m)
    BY <1>2 DEF OnLinkUp
  <2>2. /\ Serves(OnLinkUp(m).next)
        /\ OnLinkUp(m).commands = {"OpenAdmission"}
    BY <1>1, <2>1, EnterReadyEffect
  <2>3. OnLinkUp(m).next.admission_open = TRUE
    BY <2>2 DEF Serves, Childless, Machine
  <2>4. QED
    BY <1>2, <2>2, <2>3 DEF GateAgrees, GateAfter
<1>3. CASE m.state # "Rejoining"
  <2>1. OnLinkUp(m).next = m /\ OnLinkUp(m).commands = {}
    BY <1>3, DecideFields DEF OnLinkUp
  <2>2. QED
    BY <1>1, <1>3, <2>1 DEF GateAgrees, GateAfter
<1>4. QED
  BY <1>2, <1>3

LEMMA ProbeFailedEffect ==
    ASSUME NEW m, Good(m)
    PROVE  LET d == OnProbeFailed(m)
           IN  /\ GateAgrees(m, d)
               /\ m.state = "Rejoining" => Rejoins(d.next, "Apctl")
               /\ m.state # "Rejoining" => d.next = m
<1>1. m \in Machine /\ m.admission_open \in BOOLEAN
  BY DEF Good, Machine
<1>2. CASE m.state = "Rejoining"
  <2>1. /\ OnProbeFailed(m).next = [m EXCEPT !.rejoin_phase = "Apctl",
                                             !.rejoin_attempts = 1]
        /\ OnProbeFailed(m).commands = {"RejoinApctl"}
    BY <1>2, DecideFields DEF OnProbeFailed
  <2>2. /\ Rejoins(OnProbeFailed(m).next, "Apctl")
        /\ OnProbeFailed(m).next.admission_open = m.admission_open
    BY <1>1, <1>2, <2>1, EnumFacts DEF Good, Rejoins, Machine
  <2>3. QED
    BY <1>1, <1>2, <2>1, <2>2 DEF GateAgrees, GateAfter
<1>3. CASE m.state # "Rejoining"
  <2>1. OnProbeFailed(m).next = m /\ OnProbeFailed(m).commands = {}
    BY <1>3, DecideFields DEF OnProbeFailed
  <2>2. QED
    BY <1>1, <1>3, <2>1 DEF GateAgrees, GateAfter
<1>4. QED
  BY <1>2, <1>3

\* The one rejoin that failed is followed by a whole restart.
LEMMA RejoinFailedEffect ==
    ASSUME NEW m, Good(m), m.state = "Rejoining", m.rejoin_phase = "Apctl"
    PROVE  LET d == OnRejoinFailed(m)
           IN  /\ GateAgrees(m, d)
               /\ Stops(d.next, "Admission", "Restart", "Full")
<1> DEFINE d == OnRejoinFailed(m)
           again == [m EXCEPT !.rejoin_attempts = @ + 1]
<1>1. /\ m \in Machine /\ m.rejoin_attempts = 1 /\ m.stack = "Full"
      /\ m.retained_lease_count = 0
  BY DEF Good, Rejoins
<1>2. d = EnterStopping(again, "Restart", "Rejoin")
  BY <1>1 DEF OnRejoinFailed, RejoinBudget
<1>3. again \in Machine /\ again.stack = "Full"
      /\ again.retained_lease_count = 0
  BY <1>1 DEF Machine, RejoinBudget
<1>4. "Rejoin" \in Failures /\ "Restart" \in StoppingTargets \ {"None"}
  BY EnumFacts
<1> HIDE DEF again
<1>5. /\ Stops(d.next, "Admission", "Restart", "Full")
      /\ d.commands = {"StopAdmission"}
  BY <1>2, <1>3, <1>4, EnterStoppingEffect
<1>6. d.next.admission_open = FALSE
  BY <1>5 DEF Stops, Machine
<1>7. QED
  BY <1>5, <1>6 DEF GateAgrees, GateAfter

LEMMA ResumeEffect ==
    ASSUME NEW m, Good(m)
    PROVE  LET d == OnResume(m)
           IN  /\ GateAgrees(m, d)
               /\ \/ m.state = "SuspendedRetained" /\ ~Wedged(m)
                     /\ Rejoins(d.next, "Probing")
                  \/ m.state = "SuspendedOff" /\ Starts(d.next)
                  \/ (m.state = "SuspendedRetained" => Wedged(m))
                     /\ d.next = m
<1> DEFINE d == OnResume(m)
<1>1. m \in Machine /\ m.admission_open \in BOOLEAN
  BY DEF Good, Machine
<1>2. CASE m.state = "SuspendedRetained" /\ m.stack # "RetainedWedged"
  <2>1. d = EnterRejoining(m) /\ m.retained_lease_count = 0
    BY <1>2 DEF OnResume, Good, Retains
  <2>2. /\ Rejoins(d.next, "Probing")
        /\ d.commands = {"StopAdmission", "ProbeLink"}
    BY <1>1, <2>1, EnterRejoiningEffect
  <2>3. d.next.admission_open = FALSE
    BY <2>2 DEF Rejoins, Machine
  <2>4. QED
    BY <1>2, <2>2, <2>3 DEF GateAgrees, GateAfter, Wedged
<1>3. CASE m.state = "SuspendedOff" /\ m.target.kind = "Ready"
  <2>1. d = EnterStarting(m)
    BY <1>3 DEF OnResume
  <2>2. Starts(d.next) /\ d.commands = {"StartLadder"}
    BY <1>1, <2>1, EnterStartingEffect
  <2>3. d.next.admission_open = FALSE /\ m.admission_open = FALSE
    BY <1>1, <1>3, <2>2 DEF Starts, Childless, Machine, Good, Rests, Resting
  <2>4. QED
    BY <1>3, <2>2, <2>3 DEF GateAgrees, GateAfter
<1>4. CASE /\ ~(m.state = "SuspendedRetained" /\ m.stack # "RetainedWedged")
           /\ ~(m.state = "SuspendedOff" /\ m.target.kind = "Ready")
  <2>1. d.next = m /\ d.commands = {}
    BY <1>4, DecideFields DEF OnResume
  <2>2. QED
    BY <1>1, <1>4, <2>1 DEF GateAgrees, GateAfter, Wedged
<1>5. QED
  BY <1>2, <1>3, <1>4
-----------------------------------------------------------------------------
(***************************************************************************)
(* TARGET_CHANGED, one lemma per kind of target.                           *)
(***************************************************************************)
\* A decision to enter a stop.
LEMMA EnterStoppingGate ==
    ASSUME NEW m \in Machine, NEW e \in Machine,
           NEW target \in StoppingTargets \ {"None"},
           e.retained_lease_count # 0 => e.stack = "RetainedWedged"
    PROVE  LET d == EnterStopping(e, target, "None")
           IN  /\ GateAgrees(m, d)
               /\ Stops(d.next, "Admission", target, e.stack)
<1> DEFINE d == EnterStopping(e, target, "None")
<1>1. /\ Stops(d.next, "Admission", target, e.stack)
      /\ d.commands = {"StopAdmission"}
  BY EnterStoppingEffect, EnumFacts
<1>2. d.next.admission_open = FALSE
  BY <1>1 DEF Stops, Machine
<1>3. QED
  BY <1>1, <1>2 DEF GateAgrees, GateAfter

LEMMA ClearedRests ==
    ASSUME NEW e \in Machine, ~e.admission_open, e.retained_lease_count = 0
    PROVE  /\ \A n : n = [ClearChildren(e) EXCEPT !.state = "SuspendedOff",
                                                  !.stack = "None",
                                                  !.admission_open = FALSE]
                => Rests(n) /\ n.admission_open = FALSE
           /\ \A n : n = [ClearChildren(e) EXCEPT !.state = "Off",
                                                  !.stack = "None",
                                                  !.failure = "None"]
                => Rests(n) /\ n.admission_open = FALSE
<1> DEFINE c == ClearChildren(e)
<1>1. Childless(c) /\ c.admission_open = FALSE /\ c.retained_lease_count = 0
  BY EnumFacts DEF ClearChildren, Machine, Childless
<1> HIDE DEF c
<1>2. ASSUME NEW n, n = [c EXCEPT !.state = "SuspendedOff", !.stack = "None",
                                  !.admission_open = FALSE]
      PROVE  Rests(n) /\ n.admission_open = FALSE
  BY <1>1, <1>2, EnumFacts DEF Childless, Machine, Rests, Resting
<1>3. ASSUME NEW n, n = [c EXCEPT !.state = "Off", !.stack = "None",
                                  !.failure = "None"]
      PROVE  Rests(n) /\ n.admission_open = FALSE
  BY <1>1, <1>3, EnumFacts DEF Childless, Machine, Rests, Resting
<1>4. QED
  BY <1>2, <1>3 DEF c

LEMMA RetargetEffect ==
    ASSUME NEW m, Good(m), m.state = "Stopping",
           NEW s, NEW target \in Targets
    PROVE  LET d == OnTargetChanged(m, s, target)
               to == Retarget(m, target.kind)
           IN  /\ GateAgrees(m, d)
               /\ to \in StoppingTargets \ {"None"}
               /\ Stops(d.next, m.stopping_phase, to, m.stack)
<1> DEFINE e == [m EXCEPT !.target = target]
           d == OnTargetChanged(m, s, target)
           to == Retarget(m, target.kind)
<1>1. m \in Machine /\ m.admission_open = FALSE
      /\ Stops(m, m.stopping_phase, m.stopping_target, m.stack)
  BY DEF Good, Stops, Machine
<1>2. target.kind \in {"Ready", "Suspend", "Off"}
  BY DEF Targets
<1>3. to \in StoppingTargets \ {"None"} /\ Retarget(e, target.kind) = to
  BY <1>1, <1>2 DEF Retarget, StoppingTargets, Machine
<1>4. ~RetriesUnload(e, target.kind)
  BY <1>1 DEF RetriesUnload, Resting, Machine
<1>5. d = Ignore([e EXCEPT !.stopping_target = Retarget(e, target.kind)])
  BY <1>1, <1>4 DEF OnTargetChanged, Machine
<1>6. /\ d.next = [e EXCEPT !.stopping_target = Retarget(e, target.kind)]
      /\ d.commands = {}
  BY <1>5, DecideFields
<1> HIDE DEF to
<1>7. /\ Stops(d.next, m.stopping_phase, to, m.stack)
      /\ d.next.admission_open = FALSE
  BY <1>1, <1>3, <1>6 DEF Stops, Machine
<1>8. QED
  BY <1>1, <1>3, <1>6, <1>7 DEF GateAgrees, GateAfter, to

\* A demand starts what rests and re-verifies what was retained.
LEMMA TargetReadyEffect ==
    ASSUME NEW m, Good(m), m.state # "Stopping",
           NEW s, NEW target \in Targets, target.kind = "Ready"
    PROVE  LET d == OnTargetChanged(m, s, target)
           IN  /\ GateAgrees(m, d)
               /\ m.state \in Resting => Starts(d.next)
               /\ m.state = "SuspendedRetained" /\ ~Wedged(m) =>
                    Rejoins(d.next, "Probing")
               /\ Wedged(m) => Retains(d.next, "RetainedWedged")
               /\ m.state = "Starting" => Starts(d.next)
               /\ m.state = "Ready" => Serves(d.next)
               /\ m.state = "Rejoining" => Rejoins(d.next, m.rejoin_phase)
<1> DEFINE e == [m EXCEPT !.target = target]
           d == OnTargetChanged(m, s, target)
<1>1. /\ m \in Machine /\ m.admission_open \in BOOLEAN
      /\ e \in Machine /\ e.state = m.state /\ e.stack = m.stack
      /\ e.admission_open = m.admission_open
      /\ e.retained_lease_count = m.retained_lease_count
  BY DEF Good, Machine
<1>2. d = TargetReady(e)
  BY <1>1 DEF OnTargetChanged, RetriesUnload
<1>3. CASE m.state \in Resting
  <2>1. d = EnterStarting(e)
    BY <1>1, <1>2, <1>3 DEF TargetReady, Resting
  <2>2. Starts(d.next) /\ d.commands = {"StartLadder"}
    BY <1>1, <2>1, EnterStartingEffect
  <2>3. d.next.admission_open = FALSE /\ m.admission_open = FALSE
    BY <1>1, <1>3, <2>2 DEF Starts, Childless, Machine, Good, Rests
  <2>4. GateAgrees(m, d)
    BY <2>2, <2>3 DEF GateAgrees, GateAfter
  <2>5. QED
    BY <1>3, <2>2, <2>4 DEF Resting, Wedged
<1>4. CASE m.state = "SuspendedRetained" /\ m.stack # "RetainedWedged"
  <2>1. d = EnterRejoining(e) /\ e.retained_lease_count = 0
    BY <1>1, <1>2, <1>4 DEF TargetReady, Resting, Good, Retains
  <2>2. /\ Rejoins(d.next, "Probing")
        /\ d.commands = {"StopAdmission", "ProbeLink"}
    BY <1>1, <2>1, EnterRejoiningEffect
  <2>3. d.next.admission_open = FALSE
    BY <2>2 DEF Rejoins, Machine
  <2>4. GateAgrees(m, d)
    BY <2>2, <2>3 DEF GateAgrees, GateAfter
  <2>5. QED
    BY <1>4, <2>2, <2>4 DEF Resting, Wedged
<1>5. CASE Wedged(m) \/ m.state \in {"Starting", "Ready", "Rejoining"}
  <2>1. d = Ignore(e)
    BY <1>1, <1>2, <1>5 DEF TargetReady, Resting, Wedged
  <2>2. d.next = e /\ d.commands = {}
    BY <2>1, DecideFields
  <2>3. GateAgrees(m, d)
    BY <1>1, <2>2 DEF GateAgrees, GateAfter
  <2>4. /\ Wedged(m) => Retains(e, "RetainedWedged")
        /\ m.state = "Starting" => Starts(e)
        /\ m.state = "Ready" => Serves(e)
        /\ m.state = "Rejoining" => Rejoins(e, m.rejoin_phase)
    BY DEF Good, Machine, Wedged, Retains, Starts, Serves, Rejoins,
       Childless
  <2>5. QED
    BY <1>5, <2>2, <2>3, <2>4 DEF Resting, Wedged
<1>6. QED
  BY <1>1, <1>3, <1>4, <1>5 DEF Machine, States, Resting, Wedged

\* A suspend retains a stack that is up and stops a ladder.
LEMMA TargetSuspendEffect ==
    ASSUME NEW m, Good(m), m.state # "Stopping",
           NEW s \in Snapshots, NEW target \in Targets,
           target.kind = "Suspend"
    PROVE  LET d == OnTargetChanged(m, s, target)
           IN  /\ GateAgrees(m, d)
               /\ m.state \in Resting =>
                    \/ Rests(d.next)
                    \/ Stops(d.next, "Admission", "SuspendedOff",
                             "ModulesOnly")
               /\ m.state \in {"Ready", "Rejoining"} =>
                    Stops(d.next, "Admission", "SuspendedRetained", "Full")
               /\ m.state = "Starting" =>
                    Stops(d.next, "Admission", "SuspendedOff", s.stack)
               /\ m.state = "SuspendedRetained" => Retains(d.next, m.stack)
<1> DEFINE e == [m EXCEPT !.target = target]
           d == OnTargetChanged(m, s, target)
<1>1. /\ m \in Machine /\ m.admission_open \in BOOLEAN
      /\ e \in Machine /\ e.state = m.state /\ e.stack = m.stack
      /\ e.admission_open = m.admission_open
      /\ e.retained_lease_count = m.retained_lease_count
  BY DEF Good, Machine
<1>2. /\ "SuspendedOff" \in StoppingTargets \ {"None"}
      /\ "SuspendedRetained" \in StoppingTargets \ {"None"}
  BY EnumFacts
<1>3. CASE RetriesUnload(e, "Suspend")
  <2>1. d = EnterStopping(e, "SuspendedOff", "None")
    BY <1>3 DEF OnTargetChanged
  <2>2. /\ m.state \in Resting /\ e.stack = "ModulesOnly"
        /\ e.retained_lease_count = 0
    BY <1>1, <1>3 DEF RetriesUnload, Good, Rests
  <2>3. /\ GateAgrees(m, d)
        /\ Stops(d.next, "Admission", "SuspendedOff", e.stack)
    BY <1>1, <1>2, <2>1, <2>2, EnterStoppingGate
  <2>4. QED
    BY <2>2, <2>3 DEF Resting
<1>4. CASE ~RetriesUnload(e, "Suspend")
  <2>1. d = TargetSuspend(e, s)
    BY <1>1, <1>4 DEF OnTargetChanged
  <2>2. CASE m.state \in Resting
    <3>1. d = Ignore([ClearChildren(e) EXCEPT !.state = "SuspendedOff",
                                              !.stack = "None",
                                              !.admission_open = FALSE])
      BY <1>1, <2>1, <2>2 DEF TargetSuspend, Resting
    <3>2. /\ d.next = [ClearChildren(e) EXCEPT !.state = "SuspendedOff",
                                               !.stack = "None",
                                               !.admission_open = FALSE]
          /\ d.commands = {}
      BY <3>1, DecideFields
    <3>3. /\ m.admission_open = FALSE /\ e.admission_open = FALSE
          /\ e.retained_lease_count = 0 /\ e \in Machine
      BY <1>1, <2>2 DEF Good, Rests
    <3> HIDE DEF e
    <3>4. Rests(d.next) /\ d.next.admission_open = FALSE
      BY <3>2, <3>3, ClearedRests
    <3>5. GateAgrees(m, d)
      BY <3>2, <3>3, <3>4 DEF GateAgrees, GateAfter
    <3>6. QED
      BY <2>2, <3>4, <3>5 DEF Resting
  <2>3. CASE m.state \in {"Ready", "Rejoining"}
    <3>1. d = EnterStopping(e, "SuspendedRetained", "None")
      BY <1>1, <2>1, <2>3 DEF TargetSuspend, Resting
    <3>2. e.stack = "Full" /\ e.retained_lease_count = 0
      BY <1>1, <2>3 DEF Good, Serves, Rejoins
    <3>3. /\ GateAgrees(m, d)
          /\ Stops(d.next, "Admission", "SuspendedRetained", e.stack)
      BY <1>1, <1>2, <3>1, <3>2, EnterStoppingGate
    <3>4. QED
      BY <2>3, <3>2, <3>3 DEF Resting
  <2>4. CASE m.state = "Starting"
    <3> DEFINE seen == [e EXCEPT !.stack = s.stack]
    <3>1. d = EnterStopping(seen, "SuspendedOff", "None")
      BY <1>1, <2>1, <2>4 DEF TargetSuspend, Resting
    <3>2. /\ seen \in Machine /\ seen.stack = s.stack
          /\ seen.retained_lease_count = 0
      BY <1>1, <2>4 DEF Good, Starts, Machine, Snapshots, Stacks
    <3> HIDE DEF seen
    <3>3. /\ GateAgrees(m, d)
          /\ Stops(d.next, "Admission", "SuspendedOff", s.stack)
      BY <1>1, <1>2, <3>1, <3>2, EnterStoppingGate
    <3>4. QED
      BY <2>4, <3>3 DEF Resting
  <2>5. CASE m.state = "SuspendedRetained"
    <3>1. d = Ignore(e)
      BY <1>1, <2>1, <2>5 DEF TargetSuspend, Resting
    <3>2. d.next = e /\ d.commands = {}
      BY <3>1, DecideFields
    <3>3. Retains(e, m.stack)
      BY <2>5 DEF Good, Machine, Retains, Childless
    <3>4. QED
      BY <1>1, <2>5, <3>2, <3>3 DEF GateAgrees, GateAfter, Resting
  <2>6. QED
    BY <1>1, <2>2, <2>3, <2>4, <2>5 DEF Machine, States, Resting
<1>5. QED
  BY <1>3, <1>4

\* Going off stops whatever is up.
LEMMA TargetOffEffect ==
    ASSUME NEW m, Good(m), m.state # "Stopping",
           NEW s \in Snapshots, NEW target \in Targets,
           target.kind = "Off"
    PROVE  LET d == OnTargetChanged(m, s, target)
           IN  /\ GateAgrees(m, d)
               /\ m.state \in Resting =>
                    \/ Rests(d.next)
                    \/ Stops(d.next, "Admission", "Off", "ModulesOnly")
               /\ m.state \in {"Ready", "Rejoining", "SuspendedRetained"} =>
                    Stops(d.next, "Admission", "Off", m.stack)
               /\ m.state = "Starting" =>
                    Stops(d.next, "Admission", "Off", s.stack)
<1> DEFINE e == [m EXCEPT !.target = target]
           d == OnTargetChanged(m, s, target)
<1>1. /\ m \in Machine /\ m.admission_open \in BOOLEAN
      /\ e \in Machine /\ e.state = m.state /\ e.stack = m.stack
      /\ e.admission_open = m.admission_open
      /\ e.retained_lease_count = m.retained_lease_count
  BY DEF Good, Machine
<1>2. "Off" \in StoppingTargets \ {"None"}
  BY EnumFacts
<1>3. CASE RetriesUnload(e, "Off")
  <2>1. d = EnterStopping(e, "Off", "None")
    BY <1>3 DEF OnTargetChanged
  <2>2. /\ m.state \in Resting /\ e.stack = "ModulesOnly"
        /\ e.retained_lease_count = 0
    BY <1>1, <1>3 DEF RetriesUnload, Good, Rests
  <2>3. /\ GateAgrees(m, d)
        /\ Stops(d.next, "Admission", "Off", e.stack)
    BY <1>1, <1>2, <2>1, <2>2, EnterStoppingGate
  <2>4. QED
    BY <2>2, <2>3 DEF Resting
<1>4. CASE ~RetriesUnload(e, "Off")
  <2>1. d = TargetOff(e, s)
    BY <1>1, <1>4 DEF OnTargetChanged
  <2>2. CASE m.state \in {"Offline", "SuspendedOff"}
    <3>1. d = Ignore([ClearChildren(e) EXCEPT !.state = "Off",
                                              !.stack = "None",
                                              !.failure = "None"])
      BY <1>1, <2>1, <2>2 DEF TargetOff
    <3>2. /\ d.next = [ClearChildren(e) EXCEPT !.state = "Off",
                                               !.stack = "None",
                                               !.failure = "None"]
          /\ d.commands = {}
      BY <3>1, DecideFields
    <3>3. /\ m.admission_open = FALSE /\ e.admission_open = FALSE
          /\ e.retained_lease_count = 0 /\ e \in Machine
      BY <1>1, <2>2 DEF Good, Rests, Resting
    <3> HIDE DEF e
    <3>4. Rests(d.next) /\ d.next.admission_open = FALSE
      BY <3>2, <3>3, ClearedRests
    <3>5. GateAgrees(m, d)
      BY <3>2, <3>3, <3>4 DEF GateAgrees, GateAfter
    <3>6. QED
      BY <2>2, <3>4, <3>5 DEF Resting
  <2>3. CASE m.state = "Off"
    <3>1. d = Ignore(e)
      BY <1>1, <2>1, <2>3 DEF TargetOff
    <3>2. d.next = e /\ d.commands = {}
      BY <3>1, DecideFields
    <3>3. Rests(e)
      BY <2>3 DEF Good, Machine, Rests, Childless, Resting
    <3>4. QED
      BY <1>1, <2>3, <3>2, <3>3 DEF GateAgrees, GateAfter, Resting
  <2>4. CASE m.state \in {"Ready", "Rejoining", "SuspendedRetained"}
    <3>1. d = EnterStopping(e, "Off", "None")
      BY <1>1, <2>1, <2>4 DEF TargetOff
    <3>2. e.retained_lease_count # 0 => e.stack = "RetainedWedged"
      BY <1>1, <2>4 DEF Good, Serves, Rejoins, Retains
    <3>3. /\ GateAgrees(m, d)
          /\ Stops(d.next, "Admission", "Off", e.stack)
      BY <1>1, <1>2, <3>1, <3>2, EnterStoppingGate
    <3>4. QED
      BY <1>1, <2>4, <3>3 DEF Resting
  <2>5. CASE m.state = "Starting"
    <3> DEFINE seen == [e EXCEPT !.stack = s.stack]
    <3>1. d = EnterStopping(seen, "Off", "None")
      BY <1>1, <2>1, <2>5 DEF TargetOff
    <3>2. /\ seen \in Machine /\ seen.stack = s.stack
          /\ seen.retained_lease_count = 0
      BY <1>1, <2>5 DEF Good, Starts, Machine, Snapshots, Stacks
    <3> HIDE DEF seen
    <3>3. /\ GateAgrees(m, d)
          /\ Stops(d.next, "Admission", "Off", s.stack)
      BY <1>1, <1>2, <3>1, <3>2, EnterStoppingGate
    <3>4. QED
      BY <2>5, <3>3 DEF Resting
  <2>6. QED
    BY <1>1, <2>2, <2>3, <2>4, <2>5 DEF Machine, States, Resting
<1>5. QED
  BY <1>3, <1>4
-----------------------------------------------------------------------------
(***************************************************************************)
(* Worlds, snapshots and the dispatch of a decision.                       *)
(***************************************************************************)
LEMMA WorldFields ==
    ASSUME NEW w \in Worlds
    PROVE  /\ w.lifecycle \in Lifecycles /\ w.net \in Nets
           /\ w.slots \in Tables /\ w.session \in Sessions
           /\ w.lifecycle.machine \in Machine
           /\ w.lifecycle.gate \in BOOLEAN
           /\ w.lifecycle.requests \subseteq Requesters
           /\ w.lifecycle.quiesce_requested \in BOOLEAN
           /\ w.lifecycle.shutdown \in ShutdownPhases
           /\ w.lifecycle.rejoin \in RejoinServicePhases
           /\ w.net.status \in Statuses /\ w.net.modules \subseteq Modules
           /\ w.net.services \subseteq Services
           /\ w.session.phase \in SessionPhases
           /\ w.session.network_stop \in BOOLEAN
           /\ w.session.cancel_pending \in BOOLEAN
BY DEF Worlds, Lifecycles, Nets, Sessions

LEMMA StackOfFacts ==
    ASSUME NEW n \in Nets
    PROVE  /\ StackOf(n) \in NativeStacks
           /\ StackOf(n) # "RetainedWedged"
           /\ StackOf(n) = "Full" => n.services = Services
           /\ StackOf(n) = "None" => n.services = {} /\ n.modules = {}
BY DEF StackOf, NativeStacks

LEMMA SnapshotFacts ==
    ASSUME NEW w \in Worlds
    PROVE  /\ Snapshot(w) \in Snapshots
           /\ Snapshot(w).stack = StackOf(w.net)
           /\ ActiveOperations(w.slots) = 0
                <=> \A i \in Slots : w.slots[i] = "Free"
           /\ Snapshot(w).lease_count = 0
                <=> \A i \in Slots : w.slots[i] = "Free"
<1> DEFINE busy == {i \in Slots : w.slots[i] # "Free"}
<1>1. IsFiniteSet(Slots) /\ Cardinality(Slots) <= MaxLeases
  BY SlotsAssumption
<1>2. busy \subseteq Slots
  OBVIOUS
<1>3. /\ IsFiniteSet(busy) /\ Cardinality(busy) \in Nat
      /\ Cardinality(Slots) \in Nat
      /\ Cardinality(busy) <= Cardinality(Slots)
  BY <1>1, <1>2, FS_Subset, FS_CardinalityType
<1>4. Cardinality(busy) = 0 <=> busy = {}
  BY <1>3, FS_EmptySet
<1>5. Cardinality(busy) \in 0 .. MaxLeases
  BY <1>1, <1>3, MaxLeasesAssumption
<1>6. ActiveOperations(w.slots) = Cardinality(busy)
  BY DEF ActiveOperations
<1> HIDE DEF busy
<1>7. /\ Snapshot(w).stack = StackOf(w.net)
      /\ Snapshot(w).lease_count = Cardinality(busy)
      /\ Snapshot(w) \in Snapshots
  BY <1>5, <1>6, StackOfFacts, WorldFields DEF Snapshot, Snapshots
<1>8. QED
  BY <1>4, <1>6, <1>7 DEF busy

\* A dispatch changes the machine and the gate.
LEMMA SendFields ==
    ASSUME NEW w \in Worlds, NEW d, d.next \in Machine
    PROVE  /\ Send(w, d) \in Worlds
           /\ Send(w, d).lifecycle.machine = d.next
           /\ Send(w, d).lifecycle.gate
                = GateAfter(w.lifecycle.gate, d.commands)
           /\ Send(w, d).lifecycle.requests = w.lifecycle.requests
           /\ Send(w, d).lifecycle.quiesce_requested
                = w.lifecycle.quiesce_requested
           /\ Send(w, d).lifecycle.shutdown = w.lifecycle.shutdown
           /\ Send(w, d).lifecycle.rejoin = w.lifecycle.rejoin
           /\ Send(w, d).net = w.net
           /\ Send(w, d).slots = w.slots
           /\ Send(w, d).session = w.session
BY DEF Send, Worlds, Lifecycles, GateAfter

\* The fields a dispatch leaves alone.
SameBut(v, w) ==
    /\ v.lifecycle.requests = w.lifecycle.requests
    /\ v.lifecycle.quiesce_requested = w.lifecycle.quiesce_requested
    /\ v.lifecycle.shutdown = w.lifecycle.shutdown
    /\ v.lifecycle.rejoin = w.lifecycle.rejoin
    /\ v.net = w.net
    /\ v.slots = w.slots
    /\ v.session = w.session

LEMMA SendKeeps ==
    ASSUME NEW w \in Worlds,
           w.lifecycle.gate = w.lifecycle.machine.admission_open,
           NEW d, Fits(d.next, w), GateAgrees(w.lifecycle.machine, d)
    PROVE  /\ Coherent(Send(w, d))
           /\ Send(w, d).lifecycle.machine = d.next
           /\ SameBut(Send(w, d), w)
<1>1. d.next \in Machine
  BY DEF Fits, Good
<1>2. SameBut(Send(w, d), w) /\ Send(w, d) \in Worlds
      /\ Send(w, d).lifecycle.machine = d.next
  BY <1>1, SendFields DEF SameBut
<1>3. Send(w, d).lifecycle.gate = d.next.admission_open
  BY <1>1, SendFields DEF GateAgrees
<1>4. Fits(d.next, Send(w, d))
  BY <1>2 DEF Fits, SameBut
<1>5. QED
  BY <1>2, <1>3, <1>4 DEF Coherent
-----------------------------------------------------------------------------
(***************************************************************************)
(* When a machine of each shape fits a world, and a change of target.      *)
(***************************************************************************)
NoLease(w) == \A i \in Slots : w.slots[i] = "Free"

QuiesceCovers(w) ==
    w.lifecycle.quiesce_requested =>
        /\ \A i \in Slots : w.slots[i] \in {"Free", "Cancelling"}
        /\ SessionOwned(w.session) => w.session.network_stop

LEMMA FitsOutsideStop ==
    ASSUME NEW w \in Worlds, w.lifecycle.shutdown = "Idle", NEW n
    PROVE  /\ /\ Starts(n) /\ NoLease(w)
              /\ ~w.lifecycle.quiesce_requested
              /\ w.net.services = ServicesBelow(w.net.status)
              /\ w.net.status # "Ready"
              => Fits(n, w)
           /\ /\ Rests(n) /\ NoLease(w)
              /\ ~w.lifecycle.quiesce_requested
              /\ Unbuilt(w.net)
              => Fits(n, w)
           /\ /\ Serves(n) /\ ~w.lifecycle.quiesce_requested
              /\ Serving(w.net)
              => Fits(n, w)
           /\ \A phase :
                /\ Rejoins(n, phase) /\ ~w.lifecycle.quiesce_requested
                /\ w.net.services = Services
                /\ NoLease(w) \/ Serving(w.net)
                => Fits(n, w)
           /\ /\ Retains(n, "Full") /\ ~w.lifecycle.quiesce_requested
              /\ w.net.services = Services
              /\ NoLease(w) \/ Serving(w.net)
              => Fits(n, w)
           /\ /\ Retains(n, "RetainedWedged") /\ QuiesceCovers(w)
              /\ Serving(w.net)
              => Fits(n, w)
<1> DEFINE q == w.lifecycle.quiesce_requested
<1> USE ShapesAreGood, WorldFields
        DEF Fits, StackFits, LeasesFit, UnwindFits, QuiesceFits,
            ServicesLeft, InPhase, Waits, Unwinds, Wedged, NoLease
<1>1. /\ Starts(n) /\ NoLease(w) /\ ~q
      /\ w.net.services = ServicesBelow(w.net.status)
      /\ w.net.status # "Ready"
      => Fits(n, w)
  BY DEF Starts, Resting
<1>2. Rests(n) /\ NoLease(w) /\ ~q /\ Unbuilt(w.net) => Fits(n, w)
  BY DEF Rests, Resting
<1>3. Serves(n) /\ ~q /\ Serving(w.net) => Fits(n, w)
  BY DEF Serves, Resting, Serving
<1>4. ASSUME NEW phase, Rejoins(n, phase), ~q, w.net.services = Services,
             NoLease(w) \/ Serving(w.net)
      PROVE  Fits(n, w)
  BY <1>4 DEF Rejoins, Resting
<1>5. /\ Retains(n, "Full") /\ ~q /\ w.net.services = Services
      /\ NoLease(w) \/ Serving(w.net)
      => Fits(n, w)
  BY DEF Retains, Resting
<1>6. Retains(n, "RetainedWedged") /\ QuiesceCovers(w) /\ Serving(w.net)
      => Fits(n, w)
  BY DEF Retains, Resting, QuiesceCovers, Serving
<1>7. QED
  BY <1>1, <1>2, <1>3, <1>4, <1>5, <1>6

LEMMA FitsStop ==
    ASSUME NEW w \in Worlds, w.lifecycle.shutdown = "Idle",
           QuiesceCovers(w), NEW n, NEW target, NEW stack
    PROVE  /\ /\ Stops(n, "Admission", target, stack)
              /\ stack \in {"Full", "RetainedWedged"} =>
                    w.net.services = Services
              /\ stack = "None" => Unbuilt(w.net)
              /\ target = "SuspendedRetained" =>
                    stack \in {"Full", "RetainedWedged"}
              /\ NoLease(w) \/ Serving(w.net)
              /\ w.lifecycle.quiesce_requested =>
                    stack = "RetainedWedged" /\ target # "SuspendedRetained"
              => Fits(n, w)
           /\ \A phase \in {"DrainLeases", "LeaseWedged"} :
                /\ Stops(n, phase, target, stack) /\ stack # "None"
                /\ Serving(w.net)
                => Fits(n, w)
           /\ Stops(n, "LeaveApctl", target, stack) /\ NoLease(w)
              => Fits(n, w)
<1> USE ShapesAreGood, WorldFields
        DEF Fits, StackFits, LeasesFit, UnwindFits, QuiesceFits,
            QuiesceCovers, ServicesLeft, InPhase, Waits, Unwinds, Wedged,
            NoLease, Resting, Stops
<1>1. /\ Stops(n, "Admission", target, stack)
      /\ stack \in {"Full", "RetainedWedged"} => w.net.services = Services
      /\ stack = "None" => Unbuilt(w.net)
      /\ target = "SuspendedRetained" => stack \in {"Full", "RetainedWedged"}
      /\ NoLease(w) \/ Serving(w.net)
      /\ w.lifecycle.quiesce_requested =>
            stack = "RetainedWedged" /\ target # "SuspendedRetained"
      => Fits(n, w)
  OBVIOUS
<1>2. ASSUME NEW phase \in {"DrainLeases", "LeaseWedged"},
             Stops(n, phase, target, stack), stack # "None",
             Serving(w.net)
      PROVE  Fits(n, w)
  BY <1>2 DEF Serving
<1>3. Stops(n, "LeaveApctl", target, stack) /\ NoLease(w) => Fits(n, w)
  OBVIOUS
<1>4. QED
  BY <1>1, <1>2, <1>3

\* What a coherent world knows by the state of its machine.
LEMMA CoherentFacts ==
    ASSUME NEW w, Coherent(w)
    PROVE  LET m == w.lifecycle.machine
           IN  /\ w \in Worlds /\ Good(m)
               /\ w.lifecycle.gate = m.admission_open
               /\ QuiesceCovers(w)
               /\ NoLease(w) \/ Serving(w.net)
               /\ ~Unwinds(m) => w.lifecycle.shutdown = "Idle"
               /\ m.state # "Stopping" => ~Unwinds(m) /\ ~Waits(m)
               /\ m.state # "Stopping" /\ ~Wedged(m) =>
                    ~w.lifecycle.quiesce_requested
               /\ m.state \in Resting => Unbuilt(w.net) /\ NoLease(w)
               /\ m.state = "Starting" =>
                    /\ w.net.services = ServicesBelow(w.net.status)
                    /\ w.net.status # "Ready" /\ NoLease(w)
               /\ Unwinds(m) => NoLease(w)
<1> DEFINE m == w.lifecycle.machine
<1> USE WorldFields
        DEF Coherent, Fits, StackFits, LeasesFit, UnwindFits, QuiesceFits,
            QuiesceCovers, InPhase, Waits, Unwinds, Wedged, NoLease, Resting
<1>1. /\ w \in Worlds /\ Good(m) /\ w.lifecycle.gate = m.admission_open
      /\ QuiesceCovers(w)
      /\ NoLease(w) \/ Serving(w.net)
  OBVIOUS
<1>2. ~Unwinds(m) => w.lifecycle.shutdown = "Idle"
  OBVIOUS
<1>3. /\ m.state # "Stopping" => ~Unwinds(m) /\ ~Waits(m)
      /\ m.state # "Stopping" /\ ~Wedged(m) => ~w.lifecycle.quiesce_requested
  OBVIOUS
<1>4. /\ m.state \in Resting => Unbuilt(w.net) /\ NoLease(w)
      /\ m.state = "Starting" =>
            /\ w.net.services = ServicesBelow(w.net.status)
            /\ w.net.status # "Ready" /\ NoLease(w)
      /\ Unwinds(m) => NoLease(w)
  OBVIOUS
<1>5. QED
  BY <1>1, <1>2, <1>3, <1>4
\* A new target from any coherent world; a suspend does not meet a stop that
\* has inherited the quiesce of a wedge.
SuspendIsPlain(w, kind) ==
    kind = "Suspend" =>
        ~(/\ w.lifecycle.quiesce_requested
          /\ InPhase(w.lifecycle.machine, "Admission"))

TargetOutcome(w, kind, n) ==
    LET m == w.lifecycle.machine
    IN  /\ kind = "Ready" => Dialled(n)
        /\ n.state = "SuspendedRetained" /\ kind # "Suspend" =>
                Wedged(m) /\ kind = "Ready"
        /\ n.state = "Stopping" /\ n.stopping_target = "SuspendedRetained" =>
                kind = "Suspend"
        /\ kind = "Suspend" /\ m.state = "Ready" =>
                Stops(n, "Admission", "SuspendedRetained", "Full")
        /\ w.lifecycle.quiesce_requested /\ InPhase(n, "Admission") =>
                InPhase(m, "Admission") \/ m.state = "SuspendedRetained"

LEMMA TargetFits ==
    ASSUME NEW w, Coherent(w), NEW target \in Targets,
           SuspendIsPlain(w, target.kind)
    PROVE  LET m == w.lifecycle.machine
               d == OnTargetChanged(m, Snapshot(w), target)
           IN  /\ GateAgrees(m, d)
               /\ Fits(d.next, w)
               /\ TargetOutcome(w, target.kind, d.next)
<1> DEFINE m == w.lifecycle.machine
           s == Snapshot(w)
           d == OnTargetChanged(m, s, target)
           n == d.next
           kind == target.kind
<1>0. /\ w \in Worlds /\ Good(m) /\ s \in Snapshots
      /\ s.stack = StackOf(w.net) /\ w.net \in Nets
      /\ m \in Machine
  BY CoherentFacts, SnapshotFacts, WorldFields
<1>1. kind \in {"Ready", "Suspend", "Off"}
  BY DEF Targets
<1>2. CASE m.state = "Stopping"
  <2> DEFINE to == Retarget(m, kind)
  <2>1. /\ GateAgrees(m, d) /\ Stops(n, m.stopping_phase, to, m.stack)
    BY <1>0, <1>2, RetargetEffect
  <2>2. /\ to = "SuspendedRetained" =>
                kind = "Suspend" /\ m.stack \in {"Full", "RetainedWedged"}
        /\ kind = "Ready" => to = "Restart"
    BY <1>1 DEF Retarget
  <2> HIDE DEF n, d, m, to, kind, s
  <2>3. Good(n) /\ n.state = "Stopping" /\ n.stack = m.stack
        /\ n.stopping_phase = m.stopping_phase /\ n.stopping_target = to
    BY <2>1, ShapesAreGood DEF Stops
  <2>4. Fits(m, w)
    BY DEF Coherent, m
  <2>5. StackFits(n, w.net) /\ LeasesFit(n, w.net, w.slots)
    BY <1>2, <2>2, <2>3, <2>4
       DEF Fits, StackFits, LeasesFit, InPhase, Waits, Unwinds, Wedged,
           Resting
  <2>6. UnwindFits(n, w.net, w.lifecycle.shutdown)
    BY <1>2, <2>3, <2>4 DEF Fits, UnwindFits, InPhase
  <2>7. w.lifecycle.quiesce_requested /\ InPhase(m, "Admission")
            => kind # "Suspend"
    BY DEF SuspendIsPlain, m, kind
  <2>8. QuiesceFits(n, w.lifecycle.quiesce_requested, w.slots, w.session)
    BY <1>2, <2>2, <2>3, <2>4, <2>7 DEF Fits, QuiesceFits, InPhase
  <2>9. Fits(n, w)
    BY <2>3, <2>5, <2>6, <2>8 DEF Fits
  <2>10. TargetOutcome(w, kind, n)
    BY <1>2, <2>2, <2>3 DEF TargetOutcome, Dialled, InPhase, m
  <2>11. QED
    BY <2>1, <2>9, <2>10 DEF n, d, m, kind, s
<1>3. CASE m.state # "Stopping"
  <2>1. /\ QuiesceCovers(w) /\ w.lifecycle.shutdown = "Idle"
        /\ NoLease(w) \/ Serving(w.net)
        /\ ~Wedged(m) => ~w.lifecycle.quiesce_requested
        /\ m.state \in Resting => Unbuilt(w.net) /\ NoLease(w)
        /\ m.state = "Starting" =>
                /\ w.net.services = ServicesBelow(w.net.status)
                /\ w.net.status # "Ready" /\ NoLease(w)
    BY <1>3, CoherentFacts
  <2>2. /\ m.state \in {"Ready", "Rejoining", "SuspendedRetained"} =>
                w.net.services = Services
        /\ m.state = "Ready" \/ Wedged(m) => Serving(w.net)
    BY DEF Coherent, Fits, StackFits
  <2>3. m.state \in States /\ m.state \in Resting \cup
            {"Starting", "Ready", "Rejoining", "SuspendedRetained"}
    BY <1>0, <1>3 DEF Machine, States, Resting
  <2>4. /\ s.stack = "Full" => w.net.services = Services
        /\ s.stack = "None" => w.net.services = {} /\ w.net.modules = {}
        /\ s.stack # "RetainedWedged"
    BY <1>0, StackOfFacts
  <2>5. /\ m.state \in Resting => m.stack \in {"None", "ModulesOnly"}
        /\ m.state \in {"Ready", "Rejoining"} => m.stack = "Full"
        /\ m.state = "SuspendedRetained" =>
                m.stack \in {"Full", "RetainedWedged"}
    BY <1>0 DEF Good, Rests, Serves, Rejoins, Retains
  <2>6. m.state = "Starting" /\ s.stack = "None" => Unbuilt(w.net)
    BY <2>1, <2>4 DEF Unbuilt
  <2>7. CASE kind = "Ready"
    <3>1. /\ GateAgrees(m, d)
          /\ m.state \in Resting => Starts(n)
          /\ m.state = "SuspendedRetained" /\ ~Wedged(m) =>
                Rejoins(n, "Probing")
          /\ Wedged(m) => Retains(n, "RetainedWedged")
          /\ m.state = "Starting" => Starts(n)
          /\ m.state = "Ready" => Serves(n)
          /\ m.state = "Rejoining" => Rejoins(n, m.rejoin_phase)
      BY <1>0, <1>3, <2>7, TargetReadyEffect
    <3> HIDE DEF n, d, m, kind, s
    <3>2. Fits(n, w)
      <4>1. CASE m.state \in Resting
        BY <1>0, <2>1, <3>1, <4>1, FitsOutsideStop DEF Unbuilt, Wedged,
           Resting
      <4>2. CASE m.state = "Starting"
        BY <1>0, <2>1, <3>1, <4>2, FitsOutsideStop DEF Wedged
      <4>3. CASE m.state = "Ready"
        BY <1>0, <2>1, <2>2, <3>1, <4>3, FitsOutsideStop DEF Wedged
      <4>4. CASE m.state = "Rejoining"
        BY <1>0, <2>1, <2>2, <3>1, <4>4, FitsOutsideStop DEF Wedged
      <4>5. CASE m.state = "SuspendedRetained" /\ ~Wedged(m)
        BY <1>0, <2>1, <2>2, <3>1, <4>5, FitsOutsideStop
      <4>6. CASE Wedged(m)
        BY <1>0, <2>1, <2>2, <3>1, <4>6, FitsOutsideStop
      <4>7. QED
        BY <2>3, <4>1, <4>2, <4>3, <4>4, <4>5, <4>6
    <3>3. TargetOutcome(w, kind, n)
      BY <2>3, <2>7, <3>1
         DEF TargetOutcome, Dialled, InPhase, Starts, Serves, Rejoins,
             Retains, Wedged, m
    <3>4. QED
      BY <3>1, <3>2, <3>3 DEF n, d, m, kind, s
  <2>8. CASE kind = "Suspend"
    <3>1. /\ GateAgrees(m, d)
          /\ m.state \in Resting =>
                \/ Rests(n)
                \/ Stops(n, "Admission", "SuspendedOff", "ModulesOnly")
          /\ m.state \in {"Ready", "Rejoining"} =>
                Stops(n, "Admission", "SuspendedRetained", "Full")
          /\ m.state = "Starting" =>
                Stops(n, "Admission", "SuspendedOff", s.stack)
          /\ m.state = "SuspendedRetained" => Retains(n, m.stack)
      BY <1>0, <1>3, <2>8, TargetSuspendEffect
    <3> HIDE DEF n, d, m, kind, s
    <3>2. Fits(n, w)
      <4>1. CASE m.state \in Resting
        BY <1>0, <2>1, <3>1, <4>1, FitsOutsideStop, FitsStop DEF Wedged,
           Resting
      <4>2. CASE m.state = "Starting"
        BY <1>0, <2>1, <2>4, <2>6, <3>1, <4>2, FitsStop DEF Wedged
      <4>3. CASE m.state \in {"Ready", "Rejoining"}
        BY <1>0, <2>1, <2>2, <3>1, <4>3, FitsStop DEF Wedged
      <4>4. CASE m.state = "SuspendedRetained"
        BY <1>0, <2>1, <2>2, <2>5, <3>1, <4>4, FitsOutsideStop DEF Wedged
      <4>5. QED
        BY <2>3, <4>1, <4>2, <4>3, <4>4
    <3>3. TargetOutcome(w, kind, n)
      BY <2>1, <2>3, <2>8, <3>1
         DEF TargetOutcome, InPhase, Rests, Retains, Stops, Wedged, Resting,
             m
    <3>4. QED
      BY <3>1, <3>2, <3>3 DEF n, d, m, kind, s
  <2>9. CASE kind = "Off"
    <3>1. /\ GateAgrees(m, d)
          /\ m.state \in Resting =>
                \/ Rests(n)
                \/ Stops(n, "Admission", "Off", "ModulesOnly")
          /\ m.state \in {"Ready", "Rejoining", "SuspendedRetained"} =>
                Stops(n, "Admission", "Off", m.stack)
          /\ m.state = "Starting" =>
                Stops(n, "Admission", "Off", s.stack)
      BY <1>0, <1>3, <2>9, TargetOffEffect
    <3> HIDE DEF n, d, m, kind, s
    <3>2. Fits(n, w)
      <4>1. CASE m.state \in Resting
        BY <1>0, <2>1, <3>1, <4>1, FitsOutsideStop, FitsStop DEF Wedged,
           Resting
      <4>2. CASE m.state = "Starting"
        BY <1>0, <2>1, <2>4, <2>6, <3>1, <4>2, FitsStop DEF Wedged
      <4>3. CASE m.state \in {"Ready", "Rejoining", "SuspendedRetained"}
        BY <1>0, <2>1, <2>2, <2>5, <3>1, <4>3, FitsStop DEF Wedged
      <4>4. QED
        BY <2>3, <4>1, <4>2, <4>3
    <3>3. TargetOutcome(w, kind, n)
      BY <2>1, <2>3, <2>9, <3>1
         DEF TargetOutcome, InPhase, Rests, Stops, Wedged, Resting, m
    <3>4. QED
      BY <3>1, <3>2, <3>3 DEF n, d, m, kind, s
  <2>10. QED
    BY <1>1, <2>7, <2>8, <2>9
<1>4. QED
  BY <1>2, <1>3
-----------------------------------------------------------------------------
(***************************************************************************)
(* Requests, the legacy target and changes outside the machine.            *)
(***************************************************************************)
LEMMA RequestTargetFacts ==
    ASSUME NEW requests \in SUBSET Requesters
    PROVE  /\ RequestTarget(requests) \in Targets
           /\ "Suspend" \notin requests =>
                RequestTarget(requests).kind # "Suspend"
           /\ "Suspend" \in requests /\ "Shutdown" \notin requests =>
                RequestTarget(requests).kind = "Suspend"
           /\ "Navigation" \in requests
                /\ {"Shutdown", "Suspend", "Voice"} \cap requests = {} =>
                RequestTarget(requests).kind = "Ready"
<1> DEFINE t == RequestTarget(requests)
<1>1. Target("Off", "Shutdown", 0) \in Targets
      /\ Target("Off", "Voice", 0) \in Targets
      /\ Target("Off", "None", 0) \in Targets
      /\ Target("Suspend", "Suspend", 0) \in Targets
      /\ \A cause \in {"Boot", "Navigation", "Multiplayer"} :
            Target("Ready", cause, Profile) \in Targets
  BY ProfileAssumption DEF Target, Targets
<1>2. CASE "Shutdown" \in requests
  <2>1. t = Target("Off", "Shutdown", 0)
    BY <1>2 DEF RequestTarget
  <2>2. QED
    BY <1>1, <1>2, <2>1 DEF Target
<1>3. CASE "Suspend" \in requests /\ "Shutdown" \notin requests
  <2>1. t = Target("Suspend", "Suspend", 0)
    BY <1>3 DEF RequestTarget
  <2>2. QED
    BY <1>1, <1>3, <2>1 DEF Target
<1>4. CASE "Voice" \in requests
           /\ {"Shutdown", "Suspend"} \cap requests = {}
  <2>1. t = Target("Off", "Voice", 0)
    BY <1>4 DEF RequestTarget
  <2>2. QED
    BY <1>1, <1>4, <2>1 DEF Target
<1>5. CASE {"Shutdown", "Suspend", "Voice"} \cap requests = {}
  <2>1. t = IF "Navigation" \in requests
            THEN Target("Ready", "Navigation", Profile)
            ELSE IF "Multiplayer" \in requests
            THEN Target("Ready", "Multiplayer", Profile)
            ELSE IF "Boot" \in requests THEN Target("Ready", "Boot", Profile)
            ELSE Target("Off", "None", 0)
    BY <1>5 DEF RequestTarget
  <2>2. t \in Targets /\ t.kind # "Suspend"
    BY <1>1, <2>1 DEF Target
  <2>3. "Navigation" \in requests => t.kind = "Ready"
    BY <2>1 DEF Target
  <2>4. QED
    BY <1>5, <2>2, <2>3
<1>6. QED
  BY <1>2, <1>3, <1>4, <1>5

\* A change that leaves the machine and the stack alone, admits nothing and
\* takes no stop flag back.
LEMMA ReframeKeeps ==
    ASSUME NEW w, Coherent(w), NEW v \in Worlds,
           v.lifecycle.machine = w.lifecycle.machine,
           v.lifecycle.gate = w.lifecycle.gate,
           v.lifecycle.shutdown = w.lifecycle.shutdown,
           v.lifecycle.quiesce_requested = w.lifecycle.quiesce_requested,
           v.net = w.net,
           \A i \in Slots : v.slots[i] # "Free" => w.slots[i] # "Free",
           QuiesceCovers(v)
    PROVE  Coherent(v)
<1> DEFINE m == w.lifecycle.machine
<1>1. Fits(m, w) /\ w.lifecycle.gate = m.admission_open
  BY DEF Coherent
<1>2. Good(m) /\ StackFits(m, v.net)
      /\ UnwindFits(m, v.net, v.lifecycle.shutdown)
  BY <1>1 DEF Fits
<1>3. LeasesFit(m, v.net, v.slots)
  BY <1>1 DEF Fits, LeasesFit
<1>4. QuiesceFits(m, v.lifecycle.quiesce_requested, v.slots, v.session)
  BY <1>1 DEF Fits, QuiesceFits, QuiesceCovers
<1>5. QED
  BY <1>1, <1>2, <1>3, <1>4 DEF Coherent, Fits

\* psp_network_lifecycle_request.
After(requests, requester, active) ==
    IF active THEN requests \cup {requester} ELSE requests \ {requester}

LEMMA RequestKeeps ==
    ASSUME NEW w, Coherent(w), NEW requester \in Requesters,
           NEW active \in BOOLEAN,
           SuspendIsPlain(w, RequestTarget(
                After(w.lifecycle.requests, requester, active)).kind)
    PROVE  LET v == Request(w, requester, active)
               requests == After(w.lifecycle.requests, requester, active)
           IN  /\ Coherent(v)
               /\ v.lifecycle.requests = requests
               /\ v.lifecycle.quiesce_requested
                    = w.lifecycle.quiesce_requested
               /\ v.net = w.net /\ v.slots = w.slots
               /\ v.session = w.session
               /\ TargetOutcome(w, RequestTarget(requests).kind,
                                v.lifecycle.machine)
<1> DEFINE requests == After(w.lifecycle.requests, requester, active)
           w1 == [w EXCEPT !.lifecycle.requests = requests]
           target == RequestTarget(requests)
<1>1. w \in Worlds /\ w.lifecycle.requests \subseteq Requesters
  BY WorldFields DEF Coherent
<1>2. requests \in SUBSET Requesters
  BY <1>1 DEF After
<1>3. /\ w1 \in Worlds
      /\ w1.lifecycle.machine = w.lifecycle.machine
      /\ w1.lifecycle.gate = w.lifecycle.gate
      /\ w1.lifecycle.shutdown = w.lifecycle.shutdown
      /\ w1.lifecycle.quiesce_requested = w.lifecycle.quiesce_requested
      /\ w1.lifecycle.requests = requests
      /\ w1.net = w.net /\ w1.slots = w.slots /\ w1.session = w.session
  BY <1>1, <1>2 DEF Worlds, Lifecycles
<1>4. Request(w, requester, active)
        = Send(w1, OnTargetChanged(w1.lifecycle.machine, Snapshot(w1),
                                   target))
  BY DEF Request, After
<1> HIDE DEF w1, requests
<1>5. QuiesceCovers(w1)
  BY <1>3, CoherentFacts DEF QuiesceCovers
<1>6. Coherent(w1)
  BY <1>3, <1>5, ReframeKeeps
<1>7. target \in Targets /\ SuspendIsPlain(w1, target.kind)
  BY <1>2, <1>3, RequestTargetFacts DEF SuspendIsPlain, requests
<1> HIDE DEF target
<1> DEFINE d == OnTargetChanged(w1.lifecycle.machine, Snapshot(w1), target)
<1>8. /\ GateAgrees(w1.lifecycle.machine, d) /\ Fits(d.next, w1)
      /\ TargetOutcome(w1, target.kind, d.next)
  BY <1>6, <1>7, TargetFits
<1> HIDE DEF d
<1>9. /\ Coherent(Send(w1, d)) /\ Send(w1, d).lifecycle.machine = d.next
      /\ SameBut(Send(w1, d), w1)
  BY <1>6, <1>8, SendKeeps DEF Coherent
<1>10. TargetOutcome(w, target.kind, d.next)
  BY <1>3, <1>8 DEF TargetOutcome
<1>11. QED
  BY <1>3, <1>4, <1>9, <1>10 DEF SameBut, d, requests, target

\* The target the blocking stop sets before its loop.
LEMMA LegacyOffKeeps ==
    ASSUME NEW w, Coherent(w)
    PROVE  LET v == LegacyOff(w)
           IN  /\ Coherent(v)
               /\ SameBut(v, w)
               /\ w.lifecycle.machine.state = "Stopping" => v = w
               /\ w.lifecycle.machine.state # "Stopping" =>
                    TargetOutcome(w, "Off", v.lifecycle.machine)
<1> DEFINE m == w.lifecycle.machine
           target == Target("Off", "None", 0)
           d == OnTargetChanged(m, Snapshot(w), target)
<1>1. CASE m.state = "Stopping"
  BY <1>1 DEF LegacyOff, SameBut
<1>2. CASE m.state # "Stopping"
  <2>1. target \in Targets /\ target.kind = "Off"
    BY DEF Target, Targets
  <2>2. SuspendIsPlain(w, target.kind)
    BY <2>1 DEF SuspendIsPlain
  <2>3. LegacyOff(w) = Send(w, d)
    BY <1>2 DEF LegacyOff
  <2> HIDE DEF target
  <2>4. GateAgrees(m, d) /\ Fits(d.next, w)
        /\ TargetOutcome(w, target.kind, d.next)
    BY <2>1, <2>2, TargetFits
  <2> HIDE DEF d
  <2>5. /\ Coherent(Send(w, d)) /\ Send(w, d).lifecycle.machine = d.next
        /\ SameBut(Send(w, d), w)
    BY <2>4, SendKeeps DEF Coherent
  <2>6. QED
    BY <1>2, <2>1, <2>3, <2>4, <2>5
<1>3. QED
  BY <1>1, <1>2
-----------------------------------------------------------------------------
(***************************************************************************)
(* The pumped stop.                                                        *)
(***************************************************************************)
\* Where pumping takes a stop; a machine that does not stop is left alone.
StopsOn(m, n) ==
    /\ m.state # "Stopping" => n = m
    /\ m.state = "Stopping" =>
        \/ n.state = "Stopping" /\ n.stopping_target = m.stopping_target
        \/ n.state = "Starting" /\ m.stopping_target = "Restart"
        \/ n.state \in Resting /\ m.stopping_target # "Restart"
        \/ /\ n.state = "SuspendedRetained"
           /\ m.stopping_target = "SuspendedRetained"
    /\ InPhase(n, "Admission") => InPhase(m, "Admission")

\* The worlds v that pumping the stop of w may leave.
Pumped(w, v) ==
    /\ Coherent(v)
    /\ StopsOn(w.lifecycle.machine, v.lifecycle.machine)
    /\ v.lifecycle.requests = w.lifecycle.requests
    /\ w.lifecycle.machine.state # "Stopping" => v = w

LEMMA StopsOnChains ==
    ASSUME NEW a, NEW b, NEW c, StopsOn(a, b), StopsOn(b, c)
    PROVE  StopsOn(a, c)
BY DEF StopsOn, Resting, InPhase

LEMMA PumpedChains ==
    ASSUME NEW a, NEW b, NEW c, Pumped(a, b), Pumped(b, c)
    PROVE  Pumped(a, c)
BY StopsOnChains DEF Pumped, StopsOn

LEMMA AdmissionStageKeeps ==
    ASSUME NEW w, Coherent(w)
    PROVE  LET v == AdmissionStage(w)
           IN  /\ Pumped(w, v)
               /\ ~InPhase(v.lifecycle.machine, "Admission")
               /\ ~InPhase(w.lifecycle.machine, "Admission") => v = w
               /\ SameBut(v, w)
               /\ InPhase(w.lifecycle.machine, "Admission")
                    /\ w.lifecycle.machine.stopping_target
                            = "SuspendedRetained" =>
                    \/ v.lifecycle.machine.state = "SuspendedRetained"
                    \/ InPhase(v.lifecycle.machine, "DrainLeases")
<1> DEFINE m == w.lifecycle.machine
           s == Snapshot(w)
           d == OnAdmissionStopped(m, s)
           n == d.next
<1>1. CASE ~InPhase(m, "Admission")
  <2>1. AdmissionStage(w) = w
    BY <1>1 DEF AdmissionStage
  <2>2. QED
    BY <1>1, <2>1 DEF Pumped, StopsOn, SameBut
<1>2. CASE InPhase(m, "Admission")
  <2>1. AdmissionStage(w) = Send(w, d)
    BY <1>2 DEF AdmissionStage
  <2>2. /\ w \in Worlds /\ Good(m) /\ QuiesceCovers(w)
        /\ NoLease(w) \/ Serving(w.net)
        /\ w.lifecycle.shutdown = "Idle"
    BY <1>2, CoherentFacts DEF Unwinds, InPhase
  <2>3. s \in Snapshots /\ (s.lease_count = 0 <=> NoLease(w))
    BY <2>2, SnapshotFacts DEF NoLease
  <2>4. /\ m.stack \in {"Full", "RetainedWedged"} => w.net.services = Services
        /\ m.stack = "None" => Unbuilt(w.net)
        /\ m.stopping_target = "SuspendedRetained" =>
                m.stack \in {"Full", "RetainedWedged"}
        /\ w.lifecycle.quiesce_requested =>
                /\ m.stack = "RetainedWedged"
                /\ m.stopping_target # "SuspendedRetained"
    BY <1>2 DEF Coherent, Fits, StackFits, QuiesceFits
  <2>5. /\ GateAgrees(m, d)
        /\ s.lease_count = 0 => LeaveOutcome(m, n)
        /\ s.lease_count # 0 =>
                Stops(n, "DrainLeases", m.stopping_target, m.stack)
    BY <1>2, <2>2, <2>3, AdmissionStoppedEffect
  <2> HIDE DEF n, d, m, s
  <2>6. Fits(n, w) /\ StopsOn(m, n) /\ ~InPhase(n, "Admission")
        /\ (m.stopping_target = "SuspendedRetained" =>
                n.state = "SuspendedRetained" \/ InPhase(n, "DrainLeases"))
    <3>1. CASE s.lease_count # 0
      <4>1. /\ Stops(n, "DrainLeases", m.stopping_target, m.stack)
            /\ Serving(w.net) /\ m.stack # "None"
        BY <2>2, <2>3, <2>4, <2>5, <3>1 DEF Serving, Unbuilt
      <4>2. Fits(n, w)
        BY <2>2, <4>1, FitsStop
      <4>3. QED
        BY <1>2, <4>1, <4>2 DEF Stops, StopsOn, InPhase
    <3>2. CASE s.lease_count = 0
      <4>1. LeaveOutcome(m, n) /\ NoLease(w)
        BY <2>3, <2>5, <3>2
      <4>2. CASE m.stopping_target = "SuspendedRetained"
                 /\ Retains(n, "Full")
        <5>1. Fits(n, w)
          BY <2>2, <2>4, <4>1, <4>2, FitsOutsideStop
        <5>2. QED
          BY <1>2, <4>2, <5>1 DEF Retains, StopsOn, InPhase
      <4>3. CASE /\ m.stopping_target # "SuspendedRetained"
                 /\ m.stack = "None"
                 /\ IF m.stopping_target = "Restart" THEN Starts(n)
                                                     ELSE Rests(n)
        <5>1. ~w.lifecycle.quiesce_requested /\ Unbuilt(w.net)
          BY <2>4, <4>3
        <5>2. Fits(n, w)
          BY <2>2, <4>1, <4>3, <5>1, FitsOutsideStop DEF Unbuilt
        <5>3. QED
          BY <1>2, <4>3, <5>2 DEF Starts, Rests, StopsOn, InPhase, Resting
      <4>4. CASE /\ m.stopping_target # "SuspendedRetained"
                 /\ Stops(n, "LeaveApctl", m.stopping_target, m.stack)
        <5>1. Fits(n, w)
          BY <2>2, <4>1, <4>4, FitsStop
        <5>2. QED
          BY <1>2, <4>4, <5>1 DEF Stops, StopsOn, InPhase
      <4>5. QED
        BY <4>1, <4>2, <4>3, <4>4 DEF LeaveOutcome
    <3>3. QED
      BY <3>1, <3>2
  <2>7. /\ Coherent(Send(w, d)) /\ Send(w, d).lifecycle.machine = n
        /\ SameBut(Send(w, d), w)
    BY <2>5, <2>6, SendKeeps DEF Coherent, m, n
  <2>8. m.state = "Stopping"
    BY <1>2 DEF InPhase
  <2>9. QED
    BY <1>2, <2>1, <2>6, <2>7, <2>8 DEF Pumped, SameBut, m
<1>3. QED
  BY <1>1, <1>2

\* psp_network_request_quiesce: every slot is let go or told to stop.
LEMMA CancelSlotsFacts ==
    ASSUME NEW table \in Tables, NEW which
    PROVE  LET t == CancelSlots(table, which)
           IN  /\ t \in Tables
               /\ \A i \in Slots : t[i] # "Free" => table[i] # "Free"
               /\ \A i \in Slots : table[i] \in {"Free", "Cancelling"} =>
                    t[i] \in {"Free", "Cancelling"}
               /\ which = Slots =>
                    \A i \in Slots : t[i] \in {"Free", "Cancelling"}
BY DEF CancelSlots, CancelSlot, Tables, SlotStates

LEMMA RequestQuiesceFields ==
    ASSUME NEW w \in Worlds
    PROVE  LET v == RequestQuiesce(w)
           IN  /\ v \in Worlds /\ v.lifecycle = w.lifecycle
               /\ v.net = w.net
               /\ v.slots = CancelSlots(w.slots, Slots)
               /\ v.session.network_stop = TRUE
               /\ v.session.phase = w.session.phase
BY CancelSlotsFacts DEF RequestQuiesce, Worlds, Sessions

LEMMA RequestQuiesceKeeps ==
    ASSUME NEW w, Coherent(w)
    PROVE  LET v == RequestQuiesce(w)
           IN  /\ Coherent(v) /\ v.lifecycle = w.lifecycle
               /\ v.net = w.net
               /\ \A i \in Slots : v.slots[i] \in {"Free", "Cancelling"}
               /\ v.session.network_stop = TRUE
<1> DEFINE v == RequestQuiesce(w)
<1>1. w \in Worlds /\ w.slots \in Tables
  BY WorldFields DEF Coherent
<1> DEFINE t == CancelSlots(w.slots, Slots)
<1>a. /\ v \in Worlds /\ v.lifecycle = w.lifecycle /\ v.net = w.net
      /\ v.slots = t /\ v.session.network_stop = TRUE
  BY <1>1, RequestQuiesceFields
<1>b. /\ \A i \in Slots : t[i] # "Free" => w.slots[i] # "Free"
      /\ \A i \in Slots : t[i] \in {"Free", "Cancelling"}
  BY <1>1, CancelSlotsFacts
<1> HIDE DEF v, t
<1>2. /\ v \in Worlds /\ v.lifecycle = w.lifecycle /\ v.net = w.net
      /\ \A i \in Slots : v.slots[i] # "Free" => w.slots[i] # "Free"
      /\ \A i \in Slots : v.slots[i] \in {"Free", "Cancelling"}
      /\ v.session.network_stop = TRUE
  BY <1>a, <1>b
<1>3. QuiesceCovers(v)
  BY <1>2 DEF QuiesceCovers
<1>4. Coherent(v)
  BY <1>2, <1>3, ReframeKeeps
<1>5. QED
  BY <1>2, <1>4 DEF v

LEMMA QuiescedFacts ==
    ASSUME NEW w \in Worlds, Quiesced(w)
    PROVE  NoLease(w) /\ ~SessionOwned(w.session)
BY SnapshotFacts DEF Quiesced, NoLease
\* The drain asks once, and then every operation that is alive is covered.
Asked(w) ==
    IF w.lifecycle.quiesce_requested THEN w
    ELSE [RequestQuiesce(w) EXCEPT !.lifecycle.quiesce_requested = TRUE]

LEMMA AskedKeeps ==
    ASSUME NEW w, Coherent(w), Waits(w.lifecycle.machine)
    PROVE  LET v == Asked(w)
           IN  /\ Coherent(v)
               /\ v.lifecycle.machine = w.lifecycle.machine
               /\ v.lifecycle.requests = w.lifecycle.requests
               /\ v.net = w.net
<1>1. CASE w.lifecycle.quiesce_requested
  BY <1>1 DEF Asked
<1>2. CASE ~w.lifecycle.quiesce_requested
  <2> DEFINE r == RequestQuiesce(w)
             v == [r EXCEPT !.lifecycle.quiesce_requested = TRUE]
  <2>1. /\ Coherent(r) /\ r.lifecycle = w.lifecycle /\ r.net = w.net
        /\ \A i \in Slots : r.slots[i] \in {"Free", "Cancelling"}
        /\ r.session.network_stop = TRUE
    BY RequestQuiesceKeeps
  <2>2. r \in Worlds
    BY <2>1 DEF Coherent
  <2> HIDE DEF r
  <2>3. /\ v \in Worlds
        /\ v.lifecycle.machine = r.lifecycle.machine
        /\ v.lifecycle.gate = r.lifecycle.gate
        /\ v.lifecycle.shutdown = r.lifecycle.shutdown
        /\ v.lifecycle.requests = r.lifecycle.requests
        /\ v.net = r.net /\ v.slots = r.slots /\ v.session = r.session
    BY <2>2 DEF Worlds, Lifecycles
  <2> HIDE DEF v
  <2>4. Asked(w) = v
    BY <1>2 DEF Asked, v, r
  <2>5. v.lifecycle.machine.state = "Stopping"
        /\ ~InPhase(v.lifecycle.machine, "Admission")
    BY <2>1, <2>3 DEF Waits, InPhase
  <2>6. Fits(v.lifecycle.machine, v)
    BY <2>1, <2>3, <2>5
       DEF Coherent, Fits, StackFits, LeasesFit, UnwindFits, QuiesceFits
  <2>7. Coherent(v)
    BY <2>1, <2>3, <2>6 DEF Coherent
  <2>8. QED
    BY <2>1, <2>3, <2>4, <2>7
<1>3. QED
  BY <1>1, <1>2

\* Its leases gone, the drain takes the request back and lets the stop go on.
LEMMA ReleasedKeeps ==
    ASSUME NEW w, Coherent(w), Waits(w.lifecycle.machine), Quiesced(w)
    PROVE  LET m == w.lifecycle.machine
               v == [Send(w, OnLeasesReleased(m)) EXCEPT
                        !.lifecycle.quiesce_requested = FALSE]
           IN  /\ Pumped(w, v)
               /\ v.net = w.net
<1> DEFINE m == w.lifecycle.machine
           d == OnLeasesReleased(m)
           n == d.next
           u == Send(w, d)
           v == [u EXCEPT !.lifecycle.quiesce_requested = FALSE]
<1>1. /\ w \in Worlds /\ Good(m) /\ w.lifecycle.gate = m.admission_open
      /\ w.lifecycle.shutdown = "Idle" /\ m.state = "Stopping"
      /\ ~InPhase(m, "Admission")
  BY CoherentFacts DEF Waits, Unwinds, InPhase
<1>2. Serving(w.net) /\ NoLease(w)
  BY <1>1, QuiescedFacts DEF Coherent, Fits, StackFits
<1>3. m.stack # "None"
  BY DEF Coherent, Fits, StackFits
<1>4. /\ GateAgrees(m, d)
      /\ m.stopping_target = "SuspendedRetained" => Retains(n, "Full")
      /\ m.stopping_target # "SuspendedRetained" =>
            \E stack \in Stacks :
                Stops(n, "LeaveApctl", m.stopping_target, stack)
  BY <1>1, <1>3, LeasesReleasedEffect
<1> HIDE DEF n, d, m
<1>5. Good(n) /\ n \in Machine
  BY <1>4, ShapesAreGood DEF Good
<1>6. /\ u \in Worlds /\ u.lifecycle.machine = n
      /\ u.lifecycle.gate = n.admission_open
      /\ SameBut(u, w)
  BY <1>1, <1>4, <1>5, SendFields DEF SameBut, GateAgrees, m, n
<1> HIDE DEF u
<1>7. /\ v \in Worlds /\ v.lifecycle.machine = n
      /\ v.lifecycle.gate = n.admission_open
      /\ v.lifecycle.shutdown = "Idle"
      /\ v.lifecycle.quiesce_requested = FALSE
      /\ v.lifecycle.requests = w.lifecycle.requests
      /\ v.net = w.net /\ v.slots = w.slots /\ v.session = w.session
  BY <1>1, <1>6 DEF Worlds, Lifecycles, SameBut
<1> HIDE DEF v
<1>8. NoLease(v) /\ QuiesceCovers(v) /\ Serving(v.net)
  BY <1>2, <1>7 DEF NoLease, QuiesceCovers
<1>9. Fits(n, v) /\ StopsOn(m, n)
  <2>1. CASE m.stopping_target = "SuspendedRetained"
    BY <1>1, <1>4, <1>7, <1>8, <2>1, FitsOutsideStop
       DEF Serving, StopsOn, Retains, InPhase
  <2>2. CASE m.stopping_target # "SuspendedRetained"
    <3>1. PICK stack \in Stacks :
                Stops(n, "LeaveApctl", m.stopping_target, stack)
      BY <1>4, <2>2
    <3>2. Fits(n, v)
      BY <1>7, <1>8, <3>1, FitsStop
    <3>3. StopsOn(m, n)
      BY <1>1, <3>1 DEF StopsOn, Stops, InPhase
    <3>4. QED
      BY <3>2, <3>3
  <2>3. QED
    BY <2>1, <2>2
<1>10. Coherent(v)
  BY <1>7, <1>9 DEF Coherent
<1>11. Pumped(w, v)
  BY <1>1, <1>7, <1>9, <1>10 DEF Pumped, m
<1>12. QED
  BY <1>7, <1>11 DEF v, u, d, m

\* Its deadline passed, it keeps the stack for them.
LEMMA TimedOutKeeps ==
    ASSUME NEW w, Coherent(w), InPhase(w.lifecycle.machine, "DrainLeases")
    PROVE  LET m == w.lifecycle.machine
               v == Send(w, OnDrainTimeout(m, Snapshot(w)))
           IN  /\ Pumped(w, v) /\ SameBut(v, w)
               /\ m.stopping_target = "SuspendedRetained" =>
                    Wedged(v.lifecycle.machine)
<1> DEFINE m == w.lifecycle.machine
           d == OnDrainTimeout(m, Snapshot(w))
           n == d.next
<1>1. /\ w \in Worlds /\ Good(m) /\ w.lifecycle.shutdown = "Idle"
      /\ m.state = "Stopping" /\ ~InPhase(m, "Admission")
      /\ QuiesceCovers(w) /\ Snapshot(w) \in Snapshots
  BY CoherentFacts, SnapshotFacts DEF Unwinds, InPhase
<1>2. Serving(w.net)
  BY DEF Coherent, Fits, StackFits, Waits
<1>3. /\ GateAgrees(m, d)
      /\ m.stopping_target = "SuspendedRetained" =>
            Retains(n, "RetainedWedged")
      /\ m.stopping_target # "SuspendedRetained" =>
            Stops(n, "LeaseWedged", m.stopping_target, "RetainedWedged")
  BY <1>1, DrainTimeoutEffect
<1> HIDE DEF n, d, m
<1>4. Fits(n, w)
  BY <1>1, <1>2, <1>3, FitsOutsideStop, FitsStop
<1>5. StopsOn(m, n)
  BY <1>1, <1>3 DEF StopsOn, Retains, Stops, InPhase
<1>6. /\ Coherent(Send(w, d)) /\ Send(w, d).lifecycle.machine = n
      /\ SameBut(Send(w, d), w)
  BY <1>3, <1>4, SendKeeps DEF Coherent, m, n
<1>7. m.stopping_target = "SuspendedRetained" => Wedged(n)
  BY <1>3 DEF Retains, Wedged
<1>8. QED
  BY <1>1, <1>5, <1>6, <1>7 DEF Pumped, SameBut, d, m

LEMMA DrainStageKeeps ==
    ASSUME NEW w, Coherent(w), ~InPhase(w.lifecycle.machine, "Admission"),
           NEW v \in DrainStage(w)
    PROVE  Pumped(w, v)
<1> DEFINE m == w.lifecycle.machine
           a == Asked(w)
<1>1. CASE ~Waits(m)
  <2>1. v = w
    BY <1>1 DEF DrainStage, Waits
  <2>2. QED
    BY <2>1 DEF Pumped, StopsOn
<1>2. CASE Waits(m)
  <2>1. /\ Coherent(a) /\ a.lifecycle.machine = m
        /\ a.lifecycle.requests = w.lifecycle.requests
    BY <1>2, AskedKeeps
  <2>2. m.state = "Stopping"
    BY <1>2 DEF Waits, InPhase
  <2>3. Pumped(w, a)
    BY <2>1, <2>2 DEF Pumped, StopsOn, InPhase
  <2>4. \/ Quiesced(a) /\ v = [Send(a, OnLeasesReleased(m)) EXCEPT
                                !.lifecycle.quiesce_requested = FALSE]
        \/ v = a
        \/ /\ InPhase(m, "DrainLeases")
           /\ v = Send(a, OnDrainTimeout(m, Snapshot(a)))
    BY <1>2 DEF DrainStage, Asked, Waits
  <2> HIDE DEF a, m
  <2>5. CASE Quiesced(a) /\ v = [Send(a, OnLeasesReleased(m)) EXCEPT
                                !.lifecycle.quiesce_requested = FALSE]
    <3>1. Pumped(a, v)
      BY <1>2, <2>1, <2>5, ReleasedKeeps
    <3>2. QED
      BY <2>3, <3>1, PumpedChains
  <2>6. CASE v = a
    BY <2>3, <2>6
  <2>7. CASE /\ InPhase(m, "DrainLeases")
             /\ v = Send(a, OnDrainTimeout(m, Snapshot(a)))
    <3>1. Pumped(a, v)
      BY <2>1, <2>7, TimedOutKeeps
    <3>2. QED
      BY <2>3, <3>1, PumpedChains
  <2>8. QED
    BY <2>4, <2>5, <2>6, <2>7
<1>3. QED
  BY <1>1, <1>2
-----------------------------------------------------------------------------
(***************************************************************************)
(* The unwind: its phases, the machine's and the services that are left.   *)
(***************************************************************************)
LEMMA FitsUnwind ==
    ASSUME NEW w \in Worlds, NEW n, NEW target, NEW stack,
           Stops(n, "UnwindRungs", target, stack),
           NoLease(w), QuiesceCovers(w),
           w.lifecycle.shutdown \notin {"Idle", "Leaving"},
           w.net.services \subseteq ServicesLeft(w.lifecycle.shutdown)
    PROVE  Fits(n, w)
BY ShapesAreGood
   DEF Fits, StackFits, LeasesFit, UnwindFits, QuiesceFits, QuiesceCovers,
       InPhase, Waits, Unwinds, Wedged, NoLease, Resting, Stops

LEMMA ShutdownField ==
    ASSUME NEW w \in Worlds, NEW phase \in ShutdownPhases
    PROVE  LET v == [w EXCEPT !.lifecycle.shutdown = phase]
           IN  /\ v \in Worlds /\ v.lifecycle.shutdown = phase
               /\ v.lifecycle.machine = w.lifecycle.machine
               /\ v.lifecycle.gate = w.lifecycle.gate
               /\ v.lifecycle.requests = w.lifecycle.requests
               /\ v.lifecycle.quiesce_requested
                    = w.lifecycle.quiesce_requested
               /\ v.net = w.net /\ v.slots = w.slots
               /\ v.session = w.session
BY DEF Worlds, Lifecycles

\* The leave is over: the rungs go next, from the phase the unwind is in.
LEMMA LeftKeeps ==
    ASSUME NEW w, Coherent(w), InPhase(w.lifecycle.machine, "LeaveApctl"),
           NEW phase \in ShutdownPhases \ {"Idle", "Leaving"},
           w.net.services \subseteq ServicesLeft(phase)
    PROVE  LET v == LeaveFinished([w EXCEPT !.lifecycle.shutdown = phase])
           IN  /\ Pumped(w, v)
               /\ InPhase(v.lifecycle.machine, "UnwindRungs")
               /\ v.lifecycle.shutdown = phase
<1> DEFINE m == w.lifecycle.machine
           u == [w EXCEPT !.lifecycle.shutdown = phase]
           d == OnLeaveFinished(m)
           n == d.next
<1>1. /\ w \in Worlds /\ Good(m) /\ w.lifecycle.gate = m.admission_open
      /\ QuiesceCovers(w) /\ NoLease(w) /\ m.state = "Stopping"
  BY CoherentFacts DEF Unwinds, InPhase
<1>2. /\ u \in Worlds /\ u.lifecycle.shutdown = phase
      /\ u.lifecycle.machine = m
      /\ u.lifecycle.gate = w.lifecycle.gate
      /\ u.lifecycle.requests = w.lifecycle.requests
      /\ u.lifecycle.quiesce_requested = w.lifecycle.quiesce_requested
      /\ u.net = w.net /\ u.slots = w.slots /\ u.session = w.session
  BY <1>1, ShutdownField
<1>3. /\ GateAgrees(m, d)
      /\ Stops(n, "UnwindRungs", m.stopping_target, m.stack)
  BY <1>1, LeaveFinishedEffect
<1>4. LeaveFinished(u) = Send(u, d)
  BY <1>2 DEF LeaveFinished
<1> HIDE DEF u, n, d, m
<1>5. NoLease(u) /\ QuiesceCovers(u)
  BY <1>1, <1>2 DEF NoLease, QuiesceCovers
<1>6. Fits(n, u)
  BY <1>2, <1>3, <1>5, FitsUnwind
<1>7. /\ Coherent(Send(u, d)) /\ Send(u, d).lifecycle.machine = n
      /\ SameBut(Send(u, d), u)
  BY <1>1, <1>2, <1>3, <1>6, SendKeeps DEF n
<1>8. StopsOn(m, n) /\ InPhase(n, "UnwindRungs")
  BY <1>1, <1>3 DEF StopsOn, Stops, InPhase
<1>9. QED
  BY <1>1, <1>2, <1>4, <1>7, <1>8 DEF Pumped, SameBut, u, m

LEMMA BeginUnwindKeeps ==
    ASSUME NEW w, Coherent(w), Unwinds(w.lifecycle.machine)
    PROVE  LET v == BeginUnwind(w)
           IN  /\ Pumped(w, v)
               /\ Unwinds(v.lifecycle.machine)
               /\ v.lifecycle.shutdown # "Idle"
<1> DEFINE m == w.lifecycle.machine
<1>1. /\ w \in Worlds /\ Good(m) /\ m.state = "Stopping"
  BY CoherentFacts DEF Unwinds, InPhase
<1>2. CASE w.lifecycle.shutdown # "Idle"
  <2>1. BeginUnwind(w) = w
    BY <1>2 DEF BeginUnwind
  <2>2. QED
    BY <1>2, <2>1 DEF Pumped, StopsOn
<1>3. CASE w.lifecycle.shutdown = "Idle"
  <2>1. InPhase(m, "LeaveApctl")
    BY <1>3 DEF Coherent, Fits, UnwindFits, Unwinds
  <2>2. CASE "Apctl" \in w.net.services
    <3> DEFINE v == [w EXCEPT !.lifecycle.shutdown = "Leaving"]
    <3>1. BeginUnwind(w) = v
      BY <1>3, <2>2 DEF BeginUnwind
    <3>2. /\ v \in Worlds /\ v.lifecycle.shutdown = "Leaving"
          /\ v.lifecycle.machine = m
          /\ v.lifecycle.gate = w.lifecycle.gate
          /\ v.lifecycle.requests = w.lifecycle.requests
          /\ v.lifecycle.quiesce_requested = w.lifecycle.quiesce_requested
          /\ v.net = w.net /\ v.slots = w.slots /\ v.session = w.session
      BY <1>1, ShutdownField DEF ShutdownPhases
    <3> HIDE DEF v
    <3>3. UnwindFits(m, v.net, v.lifecycle.shutdown)
      BY <1>1, <2>1, <3>2, WorldFields DEF UnwindFits, InPhase, ServicesLeft
    <3>4. Coherent(v)
      BY <3>2, <3>3 DEF Coherent, Fits, m
    <3>5. QED
      BY <1>1, <2>1, <3>1, <3>2, <3>4 DEF Pumped, StopsOn, Unwinds, InPhase
  <2>3. CASE "Apctl" \notin w.net.services
    <3>1. BeginUnwind(w)
            = LeaveFinished([w EXCEPT !.lifecycle.shutdown = "TermResolver"])
      BY <1>3, <2>3 DEF BeginUnwind
    <3>2. w.net.services \subseteq ServicesLeft("TermResolver")
      BY <1>1, <2>3, WorldFields DEF ServicesLeft
    <3>3. "TermResolver" \in ShutdownPhases \ {"Idle", "Leaving"}
      BY DEF ShutdownPhases
    <3>4. QED
      BY <2>1, <3>1, <3>2, <3>3, LeftKeeps DEF Unwinds
  <2>4. QED
    BY <2>2, <2>3
<1>4. QED
  BY <1>2, <1>3

\* A world whose machine unwinds, whatever the stack under it.
Unwinding(w) ==
    /\ w \in Worlds
    /\ Good(w.lifecycle.machine)
    /\ w.lifecycle.gate = w.lifecycle.machine.admission_open
    /\ InPhase(w.lifecycle.machine, "UnwindRungs")
    /\ NoLease(w) /\ QuiesceCovers(w)

LEMMA UnwindCompleteKeeps ==
    ASSUME NEW w, Unwinding(w)
    PROVE  LET v == UnwindComplete(w)
           IN  /\ Coherent(v)
               /\ StopsOn(w.lifecycle.machine, v.lifecycle.machine)
               /\ v.lifecycle.requests = w.lifecycle.requests
<1> DEFINE m == w.lifecycle.machine
           w0 == [w EXCEPT !.lifecycle.shutdown = "Idle",
                           !.lifecycle.quiesce_requested = FALSE,
                           !.net = IdleNetwork(w.net.modules)]
           w2 == LeaveFinished(w0)
           d == OnUnwound(m, Snapshot(w2))
           n == d.next
<1>1. w \in Worlds /\ Good(m) /\ w.lifecycle.gate = m.admission_open
      /\ InPhase(m, "UnwindRungs") /\ NoLease(w)
      /\ m \in Machine /\ m.admission_open \in BOOLEAN
  BY DEF Unwinding, Good, Machine
<1>2. IdleNetwork(w.net.modules) \in Nets
      /\ Unbuilt(IdleNetwork(w.net.modules))
  BY <1>1, WorldFields, ActiveStatusFacts
     DEF IdleNetwork, Nets, Unbuilt, ServicesBelow
<1>3. /\ w0 \in Worlds /\ w0.lifecycle.shutdown = "Idle"
      /\ w0.lifecycle.machine = m
      /\ w0.lifecycle.gate = w.lifecycle.gate
      /\ w0.lifecycle.requests = w.lifecycle.requests
      /\ w0.lifecycle.quiesce_requested = FALSE
      /\ w0.net = IdleNetwork(w.net.modules)
      /\ w0.slots = w.slots /\ w0.session = w.session
  BY <1>1, <1>2 DEF Worlds, Lifecycles, ShutdownPhases
<1> HIDE DEF w0, m
<1>4. AdmissionStage(w0) = w0
  BY <1>1, <1>3 DEF AdmissionStage, InPhase
<1>5. w2 = Send(w0, Ignore(m))
  BY <1>1, <1>3 DEF LeaveFinished, OnLeaveFinished, InPhase
<1>6. Ignore(m).next = m /\ Ignore(m).commands = {}
  BY DecideFields
<1>7. /\ w2 \in Worlds /\ w2.lifecycle.machine = m
      /\ w2.lifecycle.gate = m.admission_open /\ SameBut(w2, w0)
  BY <1>1, <1>3, <1>5, <1>6, SendFields DEF SameBut, GateAfter
<1>8. UnwindComplete(w) = Send(w2, d)
  BY <1>4, <1>7 DEF UnwindComplete, FinishLegacyShutdown, w0
<1> HIDE DEF w2
<1>9. /\ GateAgrees(m, d)
      /\ IF m.stopping_target = "Restart" THEN Starts(n) ELSE Rests(n)
  BY <1>1, UnwoundEffect
<1> HIDE DEF n, d
<1>10. /\ w2.lifecycle.shutdown = "Idle" /\ NoLease(w2)
       /\ ~w2.lifecycle.quiesce_requested /\ Unbuilt(w2.net)
  BY <1>1, <1>2, <1>3, <1>7 DEF SameBut, NoLease
<1>11. Fits(n, w2)
  BY <1>7, <1>9, <1>10, FitsOutsideStop DEF Unbuilt
<1>12. /\ Coherent(Send(w2, d)) /\ Send(w2, d).lifecycle.machine = n
       /\ SameBut(Send(w2, d), w2)
  BY <1>7, <1>9, <1>11, SendKeeps DEF n
<1>13. StopsOn(m, n)
  BY <1>1, <1>9 DEF StopsOn, Starts, Rests, InPhase, Resting
<1>14. QED
  BY <1>3, <1>7, <1>8, <1>12, <1>13 DEF SameBut, m
\* One rung down: the services it terminates and the modules it unloads.
LEMMA RungUnwoundKeeps ==
    ASSUME NEW w, Coherent(w), InPhase(w.lifecycle.machine, "UnwindRungs"),
           NEW phase \in ShutdownPhases \ {"Idle", "Leaving"},
           NEW services, NEW modules,
           w.net.services \ services \subseteq ServicesLeft(phase)
    PROVE  LET v == RungUnwound(w, phase, services, modules)
           IN  /\ Coherent(v)
               /\ v.lifecycle.machine = w.lifecycle.machine
               /\ v.lifecycle.requests = w.lifecycle.requests
<1> DEFINE m == w.lifecycle.machine
           u == [w EXCEPT !.lifecycle.shutdown = phase,
                          !.net.services = @ \ services,
                          !.net.modules = @ \ modules]
           d == OnRungUnwound(m)
<1>1. /\ w \in Worlds /\ Good(m) /\ w.lifecycle.gate = m.admission_open
      /\ QuiesceCovers(w) /\ NoLease(w)
  BY CoherentFacts DEF Unwinds
<1>2. /\ u \in Worlds /\ u.lifecycle.shutdown = phase
      /\ u.lifecycle.machine = m
      /\ u.lifecycle.gate = w.lifecycle.gate
      /\ u.lifecycle.requests = w.lifecycle.requests
      /\ u.lifecycle.quiesce_requested = w.lifecycle.quiesce_requested
      /\ u.net.services = w.net.services \ services
      /\ u.slots = w.slots /\ u.session = w.session
  BY <1>1 DEF Worlds, Lifecycles, Nets
<1>3. RungUnwound(w, phase, services, modules) = Send(u, d)
  BY <1>2 DEF RungUnwound
<1> HIDE DEF u
<1>4. GateAgrees(m, d) /\ d.next = m
  BY <1>1, RungUnwoundEffect
<1> HIDE DEF d, m
<1>5. Stops(m, "UnwindRungs", m.stopping_target, m.stack)
  BY <1>1 DEF Good, InPhase, m
<1>6. NoLease(u) /\ QuiesceCovers(u)
  BY <1>1, <1>2 DEF NoLease, QuiesceCovers
<1>7. Fits(m, u)
  BY <1>2, <1>5, <1>6, FitsUnwind
<1>8. /\ Coherent(Send(u, d)) /\ Send(u, d).lifecycle.machine = m
      /\ SameBut(Send(u, d), u)
  BY <1>1, <1>2, <1>4, <1>7, SendKeeps
<1>9. QED
  BY <1>2, <1>3, <1>8 DEF SameBut, m

LEMMA UnwindUnitKeeps ==
    ASSUME NEW w, Coherent(w), Unwinds(w.lifecycle.machine),
           w.lifecycle.shutdown # "Idle", NEW v \in UnwindUnit(w)
    PROVE  Pumped(w, v)
<1> DEFINE m == w.lifecycle.machine
           phase == w.lifecycle.shutdown
           Rung(p, services, modules) == RungUnwound(w, p, services, modules)
<1>1. /\ w \in Worlds /\ Good(m) /\ m.state = "Stopping"
      /\ QuiesceCovers(w) /\ NoLease(w)
      /\ w.net.services \subseteq ServicesLeft(phase)
      /\ w.net.services \subseteq Services
      /\ phase \in ShutdownPhases
      /\ phase = "Leaving" => InPhase(m, "LeaveApctl")
      /\ phase # "Leaving" => InPhase(m, "UnwindRungs")
  BY CoherentFacts, WorldFields
     DEF Unwinds, InPhase, Coherent, Fits, UnwindFits
<1>2. ASSUME NEW p \in ShutdownPhases \ {"Idle", "Leaving"},
             NEW services, NEW modules, phase # "Leaving",
             w.net.services \ services \subseteq ServicesLeft(p)
      PROVE  Coherent(Rung(p, services, modules))
             /\ Pumped(w, Rung(p, services, modules))
             /\ Rung(p, services, modules).lifecycle.machine = m
  <2>1. InPhase(m, "UnwindRungs") /\ m.state = "Stopping"
    BY <1>1, <1>2
  <2>2. /\ Coherent(Rung(p, services, modules))
        /\ Rung(p, services, modules).lifecycle.machine = m
        /\ Rung(p, services, modules).lifecycle.requests
            = w.lifecycle.requests
    BY <1>2, <2>1, RungUnwoundKeeps
  <2> HIDE DEF Rung
  <2>3. QED
    BY <2>1, <2>2 DEF Pumped, StopsOn, InPhase
<1>3. ASSUME NEW u, Unwinding(u), u.lifecycle.machine = m,
             u.lifecycle.requests = w.lifecycle.requests
      PROVE  Pumped(w, UnwindComplete(u))
  <2>1. /\ Coherent(UnwindComplete(u))
        /\ StopsOn(m, UnwindComplete(u).lifecycle.machine)
        /\ UnwindComplete(u).lifecycle.requests = w.lifecycle.requests
    BY <1>3, UnwindCompleteKeeps
  <2>2. QED
    BY <1>1, <2>1 DEF Pumped
<1>4. /\ \A p \in {"TermApctl", "TermResolver", "TermInet", "TermCore",
                   "UnloadInet", "UnloadCommon"} :
            p \in ShutdownPhases \ {"Idle", "Leaving"}
      /\ phase \in {"Leaving", "TermApctl", "TermResolver", "TermInet",
                    "TermCore", "UnloadInet", "UnloadCommon"}
  BY <1>1 DEF ShutdownPhases
<1>5. CASE phase = "Leaving"
  <2>1. v = w \/ v = LeaveFinished([w EXCEPT
                                        !.lifecycle.shutdown = "TermApctl"])
    BY <1>5 DEF UnwindUnit
  <2>2. Pumped(w, w)
    BY DEF Pumped, StopsOn
  <2>3. w.net.services \subseteq ServicesLeft("TermApctl")
    BY <1>1 DEF ServicesLeft
  <2>4. QED
    BY <1>1, <1>4, <1>5, <2>1, <2>2, <2>3, LeftKeeps
<1>6. CASE phase = "TermApctl"
  <2>1. v = Rung("TermResolver", {"Apctl"}, {})
    BY <1>6 DEF UnwindUnit
  <2>2. w.net.services \ {"Apctl"} \subseteq ServicesLeft("TermResolver")
    BY <1>1 DEF ServicesLeft
  <2> HIDE DEF Rung
  <2>3. QED
    BY <1>2, <1>4, <1>6, <2>1, <2>2
<1>7. CASE phase = "TermResolver"
  <2>1. v = Rung("TermInet", {"Resolver"}, {})
    BY <1>7 DEF UnwindUnit
  <2>2. w.net.services \ {"Resolver"} \subseteq ServicesLeft("TermInet")
    BY <1>1, <1>7 DEF ServicesLeft, Services
  <2> HIDE DEF Rung
  <2>3. QED
    BY <1>2, <1>4, <1>7, <2>1, <2>2
<1>8. CASE phase = "TermInet"
  <2>1. v = Rung("TermCore", {"InetService"}, {})
    BY <1>8 DEF UnwindUnit
  <2>2. w.net.services \ {"InetService"} \subseteq ServicesLeft("TermCore")
    BY <1>1, <1>8 DEF ServicesLeft
  <2> HIDE DEF Rung
  <2>3. QED
    BY <1>2, <1>4, <1>8, <2>1, <2>2
<1>9. CASE phase = "TermCore"
  <2> DEFINE down == Rung("UnloadInet", {"Core"}, {})
  <2>1. v \in {down, UnwindComplete(down)}
    BY <1>9 DEF UnwindUnit
  <2>2. w.net.services \ {"Core"} \subseteq ServicesLeft("UnloadInet")
    BY <1>1, <1>9 DEF ServicesLeft
  <2> HIDE DEF Rung
  <2>3. /\ Coherent(down) /\ Pumped(w, down) /\ down.lifecycle.machine = m
    BY <1>2, <1>4, <1>9, <2>2
  <2> HIDE DEF down
  <2>4. Unwinding(down)
    BY <1>1, <1>9, <2>3, CoherentFacts DEF Unwinding, Unwinds
  <2>5. down.lifecycle.requests = w.lifecycle.requests
    BY <2>3 DEF Pumped
  <2>6. QED
    BY <1>3, <2>1, <2>3, <2>4, <2>5
<1>10. CASE phase = "UnloadInet"
  <2>1. PICK unloaded : v = Rung("UnloadCommon", {}, unloaded)
    BY <1>10 DEF UnwindUnit
  <2>2. w.net.services \ {} \subseteq ServicesLeft("UnloadCommon")
    BY <1>1, <1>10 DEF ServicesLeft
  <2> HIDE DEF Rung
  <2>3. QED
    BY <1>2, <1>4, <1>10, <2>1, <2>2
<1>11. CASE phase = "UnloadCommon"
  <2>1. PICK unloaded \in {{}, {"Common"}} :
            v = UnwindComplete([w EXCEPT !.net.modules = @ \ unloaded])
    BY <1>11 DEF UnwindUnit
  <2> DEFINE u == [w EXCEPT !.net.modules = @ \ unloaded]
  <2>2. /\ u \in Worlds /\ u.lifecycle = w.lifecycle
        /\ u.slots = w.slots /\ u.session = w.session
    BY <1>1 DEF Worlds, Nets
  <2> HIDE DEF u
  <2>3. NoLease(u) /\ QuiesceCovers(u)
    BY <1>1, <2>2 DEF NoLease, QuiesceCovers
  <2>4. Unwinding(u)
    BY <1>1, <1>11, <2>2, <2>3 DEF Unwinding, Coherent
  <2>5. Pumped(w, UnwindComplete(u))
    BY <1>3, <2>2, <2>4
  <2>6. QED
    BY <2>1, <2>5 DEF u
<1>12. QED
  BY <1>4, <1>5, <1>6, <1>7, <1>8, <1>9, <1>10, <1>11

LEMMA UnwindStageKeeps ==
    ASSUME NEW w, Coherent(w), NEW v \in UnwindStage(w)
    PROVE  Pumped(w, v)
<1>1. CASE Unwinds(w.lifecycle.machine)
  <2> DEFINE u == BeginUnwind(w)
  <2>1. v \in UnwindUnit(u)
    BY <1>1 DEF UnwindStage, Unwinds
  <2>2. Pumped(w, u) /\ Unwinds(u.lifecycle.machine)
        /\ u.lifecycle.shutdown # "Idle"
    BY <1>1, BeginUnwindKeeps
  <2> HIDE DEF u
  <2>3. Pumped(u, v)
    BY <2>1, <2>2, UnwindUnitKeeps DEF Pumped
  <2>4. QED
    BY <2>2, <2>3, PumpedChains
<1>2. CASE ~Unwinds(w.lifecycle.machine)
  <2>1. v = w
    BY <1>2 DEF UnwindStage, Unwinds
  <2>2. QED
    BY <2>1 DEF Pumped, StopsOn
<1>3. QED
  BY <1>1, <1>2

\* One call of psp_network_lifecycle_pump_stopping, from any world.
LEMMA PumpStoppingKeeps ==
    ASSUME NEW w, Coherent(w), NEW v \in PumpStopping(w)
    PROVE  Pumped(w, v) /\ ~InPhase(v.lifecycle.machine, "Admission")
<1> DEFINE a == AdmissionStage(w)
<1>1. Pumped(w, a) /\ ~InPhase(a.lifecycle.machine, "Admission")
  BY AdmissionStageKeeps
<1>2. PICK u \in DrainStage(a) : v \in UnwindStage(u)
  BY DEF PumpStopping, Then
<1> HIDE DEF a
<1>3. Pumped(a, u)
  BY <1>1, <1>2, DrainStageKeeps DEF Pumped
<1>4. Pumped(u, v)
  BY <1>2, <1>3, UnwindStageKeeps DEF Pumped
<1>5. Pumped(w, v)
  BY <1>1, <1>3, <1>4, PumpedChains
<1>6. ~InPhase(v.lifecycle.machine, "Admission")
  BY <1>1, <1>3, <1>4 DEF Pumped, StopsOn
<1>7. QED
  BY <1>5, <1>6
-----------------------------------------------------------------------------
(***************************************************************************)
(* One service unit of the supervisor: the ladder, the probe, the rejoin.  *)
(***************************************************************************)
\* A ladder in step with its services, and what one unit makes of it.
Climbing(n) ==
    n \in Nets /\ n.status # "Ready" /\ n.services = ServicesBelow(n.status)

Ended(n) ==
    /\ n \in Nets /\ n.status \in {"Ready", "Failed", "Cancelled"}
    /\ n.status = "Ready" => n.services = Services

LEMMA ClimbStep ==
    ASSUME NEW n, Climbing(n), StatusActive(n)
    PROVE  Climbing(Climb(n)) /\ StatusActive(Climb(n))
<1> USE ActiveStatusFacts
        DEF Climbing, StatusActive, Nets, Services, Modules
<1>1. n.status \in
            {"CheckingProfile", "LoadingCommon", "LoadingInet", "InitCore",
             "InitInet", "InitResolver", "InitApctl", "Connecting",
             "WaitingForIp"}
  OBVIOUS
<1>2. CASE n.status = "CheckingProfile"
  BY <1>2 DEF Climb, ServicesBelow
<1>3. CASE n.status = "LoadingCommon"
  BY <1>3 DEF Climb, ServicesBelow
<1>4. CASE n.status = "LoadingInet"
  BY <1>4 DEF Climb, ServicesBelow
<1>5. CASE n.status = "InitCore"
  BY <1>5 DEF Climb, ServicesBelow
<1>6. CASE n.status = "InitInet"
  BY <1>6 DEF Climb, ServicesBelow
<1>7. CASE n.status = "InitResolver"
  BY <1>7 DEF Climb, ServicesBelow
<1>8. CASE n.status = "InitApctl"
  BY <1>8 DEF Climb, ServicesBelow
<1>9. CASE n.status = "Connecting"
  BY <1>9 DEF Climb, ServicesBelow
<1>10. CASE n.status = "WaitingForIp"
  BY <1>10 DEF Climb, ServicesBelow
<1>11. QED
  BY <1>1, <1>2, <1>3, <1>4, <1>5, <1>6, <1>7, <1>8, <1>9, <1>10

LEMMA LadderUnitStep ==
    ASSUME NEW n, Climbing(n), StatusActive(n),
           NEW r \in LadderUnit(n) \cup {[n EXCEPT !.status = "Cancelled"]}
    PROVE  IF StatusActive(r) THEN Climbing(r) ELSE Ended(r)
<1>1. \/ r = [n EXCEPT !.status = "Failed"]
      \/ r = [n EXCEPT !.status = "Cancelled"]
      \/ r = Climb(n)
      \/ /\ n.status \in {"Connecting", "WaitingForIp"}
         /\ r = [n EXCEPT !.status = "Ready"]
  BY DEF LadderUnit
<1>2. CASE r = [n EXCEPT !.status = "Failed"]
  BY <1>2, ActiveStatusFacts DEF Climbing, Ended, Nets, StatusActive
<1>3. CASE r = [n EXCEPT !.status = "Cancelled"]
  BY <1>3, ActiveStatusFacts DEF Climbing, Ended, Nets, StatusActive
<1>4. CASE r = Climb(n)
  BY <1>4, ClimbStep
<1>5. CASE /\ n.status \in {"Connecting", "WaitingForIp"}
           /\ r = [n EXCEPT !.status = "Ready"]
  <2>1. n.services = Services
    BY <1>5 DEF Climbing, ServicesBelow
  <2>2. QED
    BY <1>5, <2>1, ActiveStatusFacts DEF Climbing, Ended, Nets, StatusActive
<1>6. QED
  BY <1>1, <1>2, <1>3, <1>4, <1>5

LEMMA BeginLadderClimbs ==
    ASSUME NEW n \in Nets
    PROVE  LET r == BeginLadder(n)
           IN  Climbing(r) /\ StatusActive(r)
BY ActiveStatusFacts
   DEF BeginLadder, IdleNetwork, Nets, Climbing, StatusActive, ServicesBelow

\* The net of a world that starts, replaced.
Restacked(w, n) == [w EXCEPT !.net = n]

LEMMA RestackedFields ==
    ASSUME NEW w \in Worlds, NEW n \in Nets
    PROVE  LET v == Restacked(w, n)
           IN  /\ v \in Worlds /\ v.net = n /\ v.lifecycle = w.lifecycle
               /\ v.slots = w.slots /\ v.session = w.session
BY DEF Restacked, Worlds

LEMMA ClimbedKeeps ==
    ASSUME NEW w, Coherent(w), w.lifecycle.machine.state = "Starting",
           NEW n, Climbing(n)
    PROVE  Coherent(Restacked(w, n))
<1> DEFINE m == w.lifecycle.machine
           v == Restacked(w, n)
<1>1. /\ w \in Worlds /\ Good(m) /\ w.lifecycle.gate = m.admission_open
      /\ w.lifecycle.shutdown = "Idle" /\ NoLease(w)
      /\ ~w.lifecycle.quiesce_requested
  BY CoherentFacts DEF Wedged
<1>2. /\ v \in Worlds /\ v.net = n /\ v.lifecycle = w.lifecycle
      /\ v.slots = w.slots
  BY <1>1, RestackedFields DEF Climbing
<1> HIDE DEF v
<1>3. NoLease(v) /\ Starts(m)
  BY <1>1, <1>2 DEF NoLease, Good
<1>4. Fits(m, v)
  BY <1>1, <1>2, <1>3, FitsOutsideStop DEF Climbing
<1>5. QED
  BY <1>1, <1>2, <1>4 DEF Coherent, v

\* The end of a ladder, reported to the machine that started it.
LEMMA TerminalKeeps ==
    ASSUME NEW w, Coherent(w), w.lifecycle.machine.state = "Starting",
           NEW n, Ended(n)
    PROVE  LET v == LadderTerminal(Restacked(w, n))
               vm == v.lifecycle.machine
           IN  /\ Coherent(v)
               /\ v.lifecycle.requests = w.lifecycle.requests
               /\ ~v.lifecycle.quiesce_requested
               /\ v.net = n
               /\ IF n.status = "Ready" THEN Serves(vm)
                  ELSE Stops(vm, "Admission", "Offline", StackOf(n))
<1> DEFINE m == w.lifecycle.machine
           u == Restacked(w, n)
           failure == IF n.status = "Cancelled" THEN "Cancelled" ELSE "Start"
           d == IF n.status = "Ready" THEN OnLadderReady(m)
                ELSE OnLadderFailed(m, Snapshot(u), failure)
<1>1. /\ w \in Worlds /\ Good(m) /\ w.lifecycle.gate = m.admission_open
      /\ w.lifecycle.shutdown = "Idle" /\ NoLease(w)
      /\ ~w.lifecycle.quiesce_requested
  BY CoherentFacts DEF Wedged
<1>2. /\ u \in Worlds /\ u.net = n /\ u.lifecycle = w.lifecycle
      /\ u.slots = w.slots
  BY <1>1, RestackedFields DEF Ended
<1>3. LadderTerminal(u) = Send(u, d)
  BY <1>2 DEF LadderTerminal
<1> HIDE DEF u
<1>4. Snapshot(u) \in Snapshots /\ Snapshot(u).stack = StackOf(n)
      /\ n \in Nets
  BY <1>2, SnapshotFacts DEF Ended
<1>5. failure \in {"Start", "Cancelled"}
  OBVIOUS
<1>6. /\ GateAgrees(m, d)
      /\ IF n.status = "Ready" THEN Serves(d.next)
         ELSE Stops(d.next, "Admission", "Offline", StackOf(n))
  BY <1>1, <1>4, <1>5, LadderReadyEffect, LadderFailedEffect
<1> HIDE DEF d, failure
<1>7. NoLease(u) /\ QuiesceCovers(u) /\ ~u.lifecycle.quiesce_requested
      /\ u.lifecycle.shutdown = "Idle"
  BY <1>1, <1>2 DEF NoLease, QuiesceCovers
<1>8. Fits(d.next, u)
  <2>1. CASE n.status = "Ready"
    BY <1>2, <1>6, <1>7, <2>1, FitsOutsideStop DEF Ended, Serving
  <2>2. CASE n.status # "Ready"
    <3>1. StackOf(n) = "Full" => n.services = Services
      BY <1>4, StackOfFacts
    <3>2. StackOf(n) # "RetainedWedged"
      BY <1>4, StackOfFacts
    <3>3. StackOf(n) = "None" => Unbuilt(n)
      BY <1>4, <2>2, StackOfFacts DEF Ended, Unbuilt, ServicesBelow
    <3>4. QED
      BY <1>2, <1>6, <1>7, <2>2, <3>1, <3>2, <3>3, FitsStop
  <2>3. QED
    BY <2>1, <2>2
<1>9. /\ Coherent(Send(u, d)) /\ Send(u, d).lifecycle.machine = d.next
      /\ SameBut(Send(u, d), u)
  BY <1>1, <1>2, <1>6, <1>8, SendKeeps
<1>10. QED
  BY <1>1, <1>2, <1>3, <1>6, <1>9 DEF SameBut, u

\* The worlds v that one unit of the supervisor may leave of w.
Serviced(w, v) ==
    LET m == w.lifecycle.machine
        n == v.lifecycle.machine
    IN  /\ Coherent(v)
        /\ v.lifecycle.requests = w.lifecycle.requests
        /\ n.state = "SuspendedRetained" =>
                \/ m.state = "SuspendedRetained"
                \/ /\ m.state = "Stopping"
                   /\ m.stopping_target = "SuspendedRetained"
        /\ n.state = "Stopping" /\ n.stopping_target = "SuspendedRetained" =>
                /\ m.state = "Stopping"
                /\ m.stopping_target = "SuspendedRetained"
        /\ v.lifecycle.quiesce_requested /\ InPhase(n, "Admission") =>
                w.lifecycle.quiesce_requested /\ InPhase(m, "Admission")
        /\ NeedsRecovery(m) => Dialled(n)

\* A ladder that may not even be begun.
LEMMA NoProfileKeeps ==
    ASSUME NEW w, Coherent(w), w.lifecycle.machine.state = "Starting",
           ~StatusActive(w.net)
    PROVE  Serviced(w, Send(w, OnLadderFailed(w.lifecycle.machine,
                                              Snapshot(w), "Start")))
<1> DEFINE m == w.lifecycle.machine
           s == Snapshot(w)
           d == OnLadderFailed(m, s, "Start")
<1>1. /\ w \in Worlds /\ Good(m) /\ QuiesceCovers(w)
      /\ w.lifecycle.shutdown = "Idle" /\ NoLease(w)
      /\ ~w.lifecycle.quiesce_requested
      /\ w.net.services = ServicesBelow(w.net.status)
      /\ w.net.status # "Ready"
  BY CoherentFacts DEF Wedged
<1>2. /\ s \in Snapshots /\ s.stack = StackOf(w.net)
      /\ s.stack = "Full" => w.net.services = Services
      /\ s.stack = "None" => w.net.services = {}
      /\ s.stack # "RetainedWedged"
  BY <1>1, SnapshotFacts, StackOfFacts, WorldFields
<1>3. /\ GateAgrees(m, d)
      /\ Stops(d.next, "Admission", "Offline", s.stack)
  BY <1>1, <1>2, LadderFailedEffect
<1> HIDE DEF d, s
<1>4. s.stack = "None" => Unbuilt(w.net)
  BY <1>1, <1>2 DEF Unbuilt
<1>5. Fits(d.next, w)
  BY <1>1, <1>2, <1>3, <1>4, FitsStop
<1>6. /\ Coherent(Send(w, d)) /\ Send(w, d).lifecycle.machine = d.next
      /\ SameBut(Send(w, d), w)
  BY <1>3, <1>5, SendKeeps DEF Coherent
<1>7. Serviced(w, Send(w, d))
  BY <1>1, <1>3, <1>6 DEF Serviced, SameBut, Stops, NeedsRecovery
<1>8. QED
  BY <1>7 DEF d, s

LEMMA PumpStartingKeeps ==
    ASSUME NEW w, Coherent(w), w.lifecycle.machine.state = "Starting",
           NEW v \in PumpStarting(w)
    PROVE  Serviced(w, v)
<1> DEFINE m == w.lifecycle.machine
           begun == IF StatusActive(w.net) THEN w.net ELSE BeginLadder(w.net)
<1>1. CASE ~StatusActive(w.net) /\ m.target.profile = 0
  <2>1. v = Send(w, OnLadderFailed(m, Snapshot(w), "Start"))
    BY <1>1 DEF PumpStarting
  <2>2. QED
    BY <1>1, <2>1, NoProfileKeeps
<1>2. CASE ~(~StatusActive(w.net) /\ m.target.profile = 0)
  <2>1. PICK n \in LadderUnit(begun) :
            v = IF StatusActive(Restacked(w, n).net) THEN Restacked(w, n)
                ELSE LadderTerminal(Restacked(w, n))
    BY <1>2 DEF PumpStarting, Restacked
  <2>2. /\ w \in Worlds /\ w.net \in Nets /\ w.net.status # "Ready"
        /\ w.net.services = ServicesBelow(w.net.status)
    BY CoherentFacts, WorldFields
  <2>3. Climbing(begun) /\ StatusActive(begun)
    BY <2>2, BeginLadderClimbs DEF Climbing
  <2> HIDE DEF begun
  <2>4. IF StatusActive(n) THEN Climbing(n) ELSE Ended(n)
    BY <2>1, <2>3, LadderUnitStep
  <2>5. /\ Restacked(w, n).net = n
        /\ Restacked(w, n).lifecycle = w.lifecycle
    BY <2>2, <2>4, RestackedFields DEF Climbing, Ended
  <2>6. CASE StatusActive(n)
    <3>1. v = Restacked(w, n)
      BY <2>1, <2>5, <2>6
    <3>2. Coherent(v)
      BY <2>4, <2>6, <3>1, ClimbedKeeps
    <3>3. QED
      BY <2>5, <3>1, <3>2 DEF Serviced, NeedsRecovery
  <2>7. CASE ~StatusActive(n)
    <3>1. v = LadderTerminal(Restacked(w, n))
      BY <2>1, <2>5, <2>7
    <3>2. /\ Coherent(v)
          /\ v.lifecycle.requests = w.lifecycle.requests
          /\ ~v.lifecycle.quiesce_requested
          /\ \/ Serves(v.lifecycle.machine)
             \/ Stops(v.lifecycle.machine, "Admission", "Offline",
                      StackOf(n))
      BY <2>4, <2>7, <3>1, TerminalKeeps
    <3>3. QED
      BY <3>2 DEF Serviced, NeedsRecovery, Serves, Stops
  <2>8. QED
    BY <2>6, <2>7
<1>3. QED
  BY <1>1, <1>2

\* psp_network_rejoin_begin marks the operation only.
LEMMA BeginRejoinKeeps ==
    ASSUME NEW w, Coherent(w)
    PROVE  LET v == BeginRejoin(w)
           IN  /\ Coherent(v)
               /\ v.lifecycle.machine = w.lifecycle.machine
               /\ v.lifecycle.requests = w.lifecycle.requests
               /\ v.lifecycle.quiesce_requested
                    = w.lifecycle.quiesce_requested
<1> DEFINE phase == IF "Apctl" \in w.net.services THEN "Leaving" ELSE "Failed"
           v == [w EXCEPT !.lifecycle.rejoin = phase]
<1>1. w \in Worlds /\ QuiesceCovers(w)
  BY CoherentFacts
<1>2. phase \in RejoinServicePhases
  BY DEF RejoinServicePhases
<1>3. BeginRejoin(w) = v
  BY DEF BeginRejoin
<1> HIDE DEF phase
<1>4. /\ v \in Worlds
      /\ v.lifecycle.machine = w.lifecycle.machine
      /\ v.lifecycle.gate = w.lifecycle.gate
      /\ v.lifecycle.requests = w.lifecycle.requests
      /\ v.lifecycle.shutdown = w.lifecycle.shutdown
      /\ v.lifecycle.quiesce_requested = w.lifecycle.quiesce_requested
      /\ v.net = w.net /\ v.slots = w.slots /\ v.session = w.session
  BY <1>1, <1>2 DEF Worlds, Lifecycles
<1> HIDE DEF v
<1>5. QuiesceCovers(v)
  BY <1>1, <1>4 DEF QuiesceCovers
<1>6. Coherent(v)
  BY <1>4, <1>5, ReframeKeeps
<1>7. QED
  BY <1>3, <1>4, <1>6

LEMMA RejoiningFacts ==
    ASSUME NEW w, Coherent(w), w.lifecycle.machine.state = "Rejoining"
    PROVE  /\ w \in Worlds /\ Good(w.lifecycle.machine)
           /\ w.lifecycle.gate = w.lifecycle.machine.admission_open
           /\ w.lifecycle.shutdown = "Idle"
           /\ ~w.lifecycle.quiesce_requested /\ QuiesceCovers(w)
           /\ w.net.services = Services
           /\ NoLease(w) \/ Serving(w.net)
<1>1. w.net.services = Services
  BY DEF Coherent, Fits, StackFits
<1>2. QED
  BY <1>1, CoherentFacts DEF Wedged

LEMMA ProbeFailedKeeps ==
    ASSUME NEW w, Coherent(w), w.lifecycle.machine.state = "Rejoining"
    PROVE  LET v == Send(w, OnProbeFailed(w.lifecycle.machine))
           IN  /\ Coherent(v) /\ SameBut(v, w)
               /\ Rejoins(v.lifecycle.machine, "Apctl")
<1> DEFINE m == w.lifecycle.machine
           d == OnProbeFailed(m)
<1>1. GateAgrees(m, d) /\ Rejoins(d.next, "Apctl")
  BY RejoiningFacts, ProbeFailedEffect
<1> HIDE DEF d
<1>2. Fits(d.next, w)
  BY <1>1, RejoiningFacts, FitsOutsideStop
<1>3. QED
  BY <1>1, <1>2, SendKeeps, RejoiningFacts DEF d

LEMMA LinkUpKeeps ==
    ASSUME NEW w, Coherent(w), w.lifecycle.machine.state = "Rejoining",
           w.net.status = "Ready"
    PROVE  LET v == Send(w, OnLinkUp(w.lifecycle.machine))
           IN  /\ Coherent(v) /\ SameBut(v, w)
               /\ Serves(v.lifecycle.machine)
<1> DEFINE m == w.lifecycle.machine
           d == OnLinkUp(m)
<1>1. GateAgrees(m, d) /\ Serves(d.next)
  BY RejoiningFacts, LinkUpEffect
<1> HIDE DEF d
<1>2. Fits(d.next, w)
  BY <1>1, RejoiningFacts, FitsOutsideStop DEF Serving
<1>3. QED
  BY <1>1, <1>2, SendKeeps, RejoiningFacts DEF d

LEMMA PumpProbingKeeps ==
    ASSUME NEW w, Coherent(w), w.lifecycle.machine.state = "Rejoining",
           NEW v \in PumpProbing(w)
    PROVE  Serviced(w, v)
<1> DEFINE m == w.lifecycle.machine
           failed == Send(w, OnProbeFailed(m))
<1>1. CASE v = BeginRejoin(failed)
  <2>1. /\ Coherent(failed) /\ SameBut(failed, w)
        /\ Rejoins(failed.lifecycle.machine, "Apctl")
    BY ProbeFailedKeeps
  <2> HIDE DEF failed
  <2>2. /\ Coherent(v)
        /\ v.lifecycle.machine = failed.lifecycle.machine
        /\ v.lifecycle.requests = failed.lifecycle.requests
    BY <1>1, <2>1, BeginRejoinKeeps
  <2>3. QED
    BY <2>1, <2>2 DEF Serviced, SameBut, Rejoins, Dialled, InPhase
<1>2. CASE w.net.status = "Ready" /\ v = Send(w, OnLinkUp(m))
  <2>1. Coherent(v) /\ SameBut(v, w) /\ Serves(v.lifecycle.machine)
    BY <1>2, LinkUpKeeps
  <2>2. QED
    BY <2>1 DEF Serviced, SameBut, Serves, Dialled, InPhase
<1>3. QED
  BY <1>1, <1>2 DEF PumpProbing

\* The rejoin is over: an address serves again, a failure restarts.
LEMMA RejoinOverKeeps ==
    ASSUME NEW w, Coherent(w), w.lifecycle.machine.state = "Rejoining",
           w.lifecycle.machine.rejoin_phase = "Apctl", NEW joined \in BOOLEAN
    PROVE  Serviced(w, RejoinOver(w, joined))
<1> DEFINE m == w.lifecycle.machine
           status == IF joined THEN "Ready" ELSE w.net.status
           u == [w EXCEPT !.lifecycle.rejoin = "None", !.net.status = status]
           v == RejoinOver(w, joined)
<1>1. /\ w \in Worlds /\ Good(m) /\ w.lifecycle.gate = m.admission_open
      /\ w.lifecycle.shutdown = "Idle"
      /\ ~w.lifecycle.quiesce_requested
      /\ w.net.services = Services
      /\ NoLease(w) \/ Serving(w.net)
  BY RejoiningFacts
<1>2. status \in Statuses /\ "None" \in RejoinServicePhases
  BY <1>1, WorldFields DEF Statuses, RejoinServicePhases
<1>3. v = Send(u, IF joined THEN OnLinkUp(m) ELSE OnRejoinFailed(m))
  BY DEF RejoinOver
<1>a. joined => status = "Ready"
  OBVIOUS
<1>b. ~joined => status = w.net.status
  OBVIOUS
<1> HIDE DEF status
<1>4. /\ u \in Worlds
      /\ u.lifecycle.machine = m
      /\ u.lifecycle.gate = w.lifecycle.gate
      /\ u.lifecycle.requests = w.lifecycle.requests
      /\ u.lifecycle.shutdown = w.lifecycle.shutdown
      /\ u.lifecycle.quiesce_requested = w.lifecycle.quiesce_requested
      /\ u.net.services = w.net.services /\ u.net.status = status
      /\ u.slots = w.slots /\ u.session = w.session
  BY <1>1, <1>2 DEF Worlds, Lifecycles, Nets
<1> HIDE DEF u, v
<1>5. NoLease(u) \/ Serving(u.net)
  BY <1>1, <1>4, <1>a, <1>b DEF NoLease, Serving
<1>6. QuiesceCovers(u)
  BY <1>1, <1>4 DEF QuiesceCovers
<1>7. CASE joined
  <2> DEFINE d == OnLinkUp(m)
  <2>1. GateAgrees(m, d) /\ Serves(d.next)
    BY <1>1, LinkUpEffect
  <2> HIDE DEF d
  <2>2. Fits(d.next, u)
    BY <1>1, <1>4, <1>7, <1>a, <2>1, FitsOutsideStop DEF Serving
  <2>3. /\ Coherent(Send(u, d)) /\ Send(u, d).lifecycle.machine = d.next
        /\ SameBut(Send(u, d), u)
    BY <1>1, <1>4, <2>1, <2>2, SendKeeps
  <2>4. v = Send(u, d)
    BY <1>3, <1>7 DEF d
  <2>5. Serviced(w, v)
    BY <1>4, <2>1, <2>3, <2>4
       DEF Serviced, SameBut, Serves, Dialled, InPhase
  <2>6. QED
    BY <2>5 DEF v
<1>8. CASE ~joined
  <2> DEFINE d == OnRejoinFailed(m)
  <2>1. GateAgrees(m, d) /\ Stops(d.next, "Admission", "Restart", "Full")
    BY <1>1, RejoinFailedEffect
  <2> HIDE DEF d
  <2>2. Fits(d.next, u)
    BY <1>1, <1>4, <1>5, <1>6, <2>1, FitsStop
  <2>3. /\ Coherent(Send(u, d)) /\ Send(u, d).lifecycle.machine = d.next
        /\ SameBut(Send(u, d), u)
    BY <1>1, <1>4, <2>1, <2>2, SendKeeps
  <2>4. v = Send(u, d)
    BY <1>3, <1>8 DEF d
  <2>5. Serviced(w, v)
    BY <1>1, <1>4, <2>1, <2>3, <2>4
       DEF Serviced, SameBut, Stops, Dialled, InPhase
  <2>6. QED
    BY <2>5 DEF v
<1>9. QED
  BY <1>7, <1>8

LEMMA StaysServiced ==
    ASSUME NEW w, Coherent(w), NEW v, Coherent(v),
           v.lifecycle.machine = w.lifecycle.machine,
           v.lifecycle.requests = w.lifecycle.requests,
           v.lifecycle.quiesce_requested = w.lifecycle.quiesce_requested
    PROVE  Serviced(w, v)
BY DEF Serviced, NeedsRecovery, Dialled

LEMMA PumpApctlKeeps ==
    ASSUME NEW w, Coherent(w), w.lifecycle.machine.state = "Rejoining",
           w.lifecycle.machine.rejoin_phase = "Apctl",
           NEW v \in PumpApctl(w)
    PROVE  Serviced(w, v)
<1> DEFINE u == [w EXCEPT !.lifecycle.rejoin = "WaitingIp"]
<1>1. w \in Worlds
  BY DEF Coherent
<1>2. w.lifecycle.rejoin \in {"None", "Leaving", "WaitingIp", "Failed"}
  BY <1>1, WorldFields DEF RejoinServicePhases
<1>3. \/ v = w
      \/ v = BeginRejoin(w)
      \/ v = u
      \/ v = RejoinOver(w, TRUE)
      \/ v = RejoinOver(w, FALSE)
  BY <1>2 DEF PumpApctl
<1>4. CASE v = w
  BY <1>4, StaysServiced
<1>5. CASE v = BeginRejoin(w)
  BY <1>5, BeginRejoinKeeps, StaysServiced
<1>6. CASE v = u
  <2>1. /\ u \in Worlds
        /\ u.lifecycle.machine = w.lifecycle.machine
        /\ u.lifecycle.gate = w.lifecycle.gate
        /\ u.lifecycle.requests = w.lifecycle.requests
        /\ u.lifecycle.shutdown = w.lifecycle.shutdown
        /\ u.lifecycle.quiesce_requested = w.lifecycle.quiesce_requested
        /\ u.net = w.net /\ u.slots = w.slots /\ u.session = w.session
    BY <1>1 DEF Worlds, Lifecycles, RejoinServicePhases
  <2> HIDE DEF u
  <2>2. QuiesceCovers(u)
    BY <2>1, CoherentFacts DEF QuiesceCovers
  <2>3. Coherent(u)
    BY <2>1, <2>2, ReframeKeeps
  <2>4. QED
    BY <1>6, <2>1, <2>3, StaysServiced
<1>7. CASE v = RejoinOver(w, TRUE) \/ v = RejoinOver(w, FALSE)
  BY <1>7, RejoinOverKeeps
<1>8. QED
  BY <1>3, <1>4, <1>5, <1>6, <1>7

\* psp_network_lifecycle_pump.
LEMMA LifecyclePumpKeeps ==
    ASSUME NEW w, Coherent(w), NEW v \in LifecyclePump(w)
    PROVE  Serviced(w, v)
<1> DEFINE m == w.lifecycle.machine
<1>1. \/ m.state = "Starting" /\ v \in PumpStarting(w)
      \/ m.state = "Ready" /\ v = Send(w, OnRegressionHint(m))
      \/ m.state = "Rejoining" /\ v \in PumpProbing(w)
      \/ /\ m.state = "Rejoining" /\ m.rejoin_phase = "Apctl"
         /\ v \in PumpApctl(w)
      \/ /\ m.state = "Stopping" /\ m.stopping_target \in {"Restart", "Offline"}
         /\ v \in PumpStopping(w)
      \/ v = w
  BY DEF LifecyclePump
<1>2. CASE m.state = "Starting" /\ v \in PumpStarting(w)
  BY <1>2, PumpStartingKeeps
<1>3. CASE m.state = "Ready" /\ v = Send(w, OnRegressionHint(m))
  <2> DEFINE d == OnRegressionHint(m)
  <2>1. /\ w \in Worlds /\ Good(m) /\ w.lifecycle.gate = m.admission_open
        /\ w.lifecycle.shutdown = "Idle" /\ ~w.lifecycle.quiesce_requested
        /\ NoLease(w) \/ Serving(w.net)
    BY <1>3, CoherentFacts DEF Wedged
  <2>2. w.net.services = Services
    BY <1>3 DEF Coherent, Fits, StackFits
  <2>3. GateAgrees(m, d) /\ Rejoins(d.next, "Probing")
    BY <1>3, <2>1, RegressionHintEffect
  <2> HIDE DEF d
  <2>4. Fits(d.next, w)
    BY <2>1, <2>2, <2>3, FitsOutsideStop
  <2>5. /\ Coherent(Send(w, d)) /\ Send(w, d).lifecycle.machine = d.next
        /\ SameBut(Send(w, d), w)
    BY <2>1, <2>3, <2>4, SendKeeps
  <2>6. v = Send(w, d)
    BY <1>3 DEF d
  <2>7. QED
    BY <2>1, <2>3, <2>5, <2>6
       DEF Serviced, SameBut, Rejoins, Dialled, InPhase
<1>4. CASE m.state = "Rejoining" /\ v \in PumpProbing(w)
  BY <1>4, PumpProbingKeeps
<1>5. CASE /\ m.state = "Rejoining" /\ m.rejoin_phase = "Apctl"
           /\ v \in PumpApctl(w)
  BY <1>5, PumpApctlKeeps
<1>6. CASE /\ m.state = "Stopping"
           /\ m.stopping_target \in {"Restart", "Offline"}
           /\ v \in PumpStopping(w)
  <2>1. Pumped(w, v) /\ ~InPhase(v.lifecycle.machine, "Admission")
    BY <1>6, PumpStoppingKeeps
  <2>2. QED
    BY <1>6, <2>1
       DEF Pumped, StopsOn, Serviced, NeedsRecovery, Dialled, Resting
<1>7. CASE v = w
  BY <1>7, StaysServiced
<1>8. QED
  BY <1>1, <1>2, <1>3, <1>4, <1>5, <1>6, <1>7
-----------------------------------------------------------------------------
(***************************************************************************)
(* Worlds without a suspend or a shutdown: a resume may still find the     *)
(* stack it retained, a blocking stop does not, and everywhere else no     *)
(* stop has inherited the quiesce of a wedge either.                       *)
(***************************************************************************)
Wakes(w) ==
    /\ Coherent(w)
    /\ "Suspend" \notin w.lifecycle.requests
    /\ "Shutdown" \notin w.lifecycle.requests
    /\ ~(/\ w.lifecycle.machine.state = "Stopping"
         /\ w.lifecycle.machine.stopping_target = "SuspendedRetained")

Settles(w) == Wakes(w) /\ w.lifecycle.machine.state # "SuspendedRetained"

Awake(w) ==
    /\ Settles(w)
    /\ ~(w.lifecycle.quiesce_requested
            /\ InPhase(w.lifecycle.machine, "Admission"))

Rouses(w, caller) == Awake(w) \/ (Wakes(w) /\ caller = "Resume")

Locations == [at : Places, then : Returns]

LEMMA PlacesOfAwake ==
    ASSUME NEW w, NEW b \in Locations
    PROVE  /\ Awake(w) /\ b.at \in {"Loop", "Exiting", "Quitting", "Halted"}
                => Placed(w, b)
           /\ Settles(w) /\ b.at = "Shutdown"
                /\ b.then \in {"Dial", "Halt", "Asleep", "Loop", "Halted"}
                => Placed(w, b)
           /\ Rouses(w, b.then) /\ Dialled(w.lifecycle.machine)
                /\ b.at = "Recover" /\ b.then \in Callers
                => Placed(w, b)
           /\ Awake(w) /\ w.lifecycle.machine.state = "Starting"
                /\ StatusActive(w.net)
                /\ b.at = "Connect" /\ b.then \in Callers
                => Placed(w, b)
           /\ Awake(w) /\ w.lifecycle.machine.state \in Resting
                /\ b = [at |-> "Asleep", then |-> "Off"]
                => Placed(w, b)
<1> USE DEF Placed, ThreadKnows, OnlyThere, Awake, Settles, Wakes, Suspending,
            Sleeping, Halting, Waking
<1>1. /\ Awake(w) /\ b.at \in {"Loop", "Exiting", "Quitting", "Halted"}
         => Placed(w, b)
      /\ Settles(w) /\ b.at = "Shutdown"
         /\ b.then \in {"Dial", "Halt", "Asleep", "Loop", "Halted"}
         => Placed(w, b)
  BY DEF Locations
<1>2. Rouses(w, b.then) /\ Dialled(w.lifecycle.machine)
         /\ b.at = "Recover" /\ b.then \in Callers
         => Placed(w, b)
  BY DEF Locations, Rouses
<1>3. /\ Awake(w) /\ w.lifecycle.machine.state = "Starting"
         /\ StatusActive(w.net) /\ b.at = "Connect" /\ b.then \in Callers
         => Placed(w, b)
      /\ Awake(w) /\ w.lifecycle.machine.state \in Resting
         /\ b = [at |-> "Asleep", then |-> "Off"]
         => Placed(w, b)
  BY DEF Locations
<1>4. QED
  BY <1>1, <1>2, <1>3

LEMMA AwakeInPlaces ==
    ASSUME NEW w, Coherent(w), NEW b, Placed(w, b)
    PROVE  /\ b.at \in {"Boot", "Loop", "Exiting", "Quitting", "Connect"}
                => Awake(w)
           /\ b.at = "Recover" => Rouses(w, b.then)
           /\ b.at = "Shutdown" /\ b.then \in {"Dial", "Halt", "Loop"}
                => Settles(w)
           /\ b = [at |-> "Asleep", then |-> "Off"] => Awake(w)
<1> USE DEF Placed, ThreadKnows, OnlyThere, Awake, Settles, Wakes, Suspending,
            Sleeping, Halting, Waking
<1>1. b.at \in {"Boot", "Loop", "Exiting", "Quitting", "Connect"} => Awake(w)
  OBVIOUS
<1>2. ASSUME b.at = "Recover"
      PROVE  Rouses(w, b.then)
  <2>1. Wakes(w)
    BY <1>2
  <2>2. Awake(w) \/ Waking(b)
    BY <1>2, <2>1
  <2>3. Waking(b) => b.then = "Resume"
    OBVIOUS
  <2> HIDE DEF Awake, Settles, Wakes, Waking
  <2>4. QED
    BY <2>1, <2>2, <2>3 DEF Rouses
<1>3. b.at = "Shutdown" /\ b.then \in {"Dial", "Halt", "Loop"} => Settles(w)
  OBVIOUS
<1>4. b = [at |-> "Asleep", then |-> "Off"] => Awake(w)
  BY DEF InPhase, Resting
<1>5. QED
  BY <1>1, <1>2, <1>3, <1>4

\* The browser thread's next step leaves world w and goes to b.
LEMMA ArrivalKeeps ==
    ASSUME NEW w, Coherent(w), NEW b, Placed(w, b), Become(w), browser' = b
    PROVE  IInv'
<1>1. w \in Worlds
  BY DEF Coherent
<1>2. w = [lifecycle |-> w.lifecycle, net |-> w.net, slots |-> w.slots,
           session |-> w.session]
  BY <1>1 DEF Worlds
<1>3. World' = w
  BY <1>2 DEF World, Become
<1>4. QED
  BY <1>3 DEF IInv
-----------------------------------------------------------------------------
(***************************************************************************)
(* The calls of the browser thread on such worlds.                         *)
(***************************************************************************)
\* A request that is no suspend and no shutdown.
LEMMA RequestWakes ==
    ASSUME NEW w, Wakes(w), NEW requester \in Requesters,
           NEW active \in BOOLEAN,
           requester \in {"Suspend", "Shutdown"} => ~active
    PROVE  LET v == Request(w, requester, active)
           IN  /\ Wakes(v)
               /\ Settles(w) => Settles(v)
               /\ Awake(w) => Awake(v)
               /\ v.lifecycle.requests
                    = After(w.lifecycle.requests, requester, active)
               /\ v.net = w.net
               /\ RequestTarget(v.lifecycle.requests).kind = "Ready"
                    => Dialled(v.lifecycle.machine)
<1> DEFINE requests == After(w.lifecycle.requests, requester, active)
           v == Request(w, requester, active)
           kind == RequestTarget(requests).kind
<1>1. Coherent(w) /\ w.lifecycle.requests \subseteq Requesters
  BY WorldFields DEF Wakes, Coherent
<1>2. /\ requests \in SUBSET Requesters
      /\ "Suspend" \notin requests /\ "Shutdown" \notin requests
  BY <1>1 DEF After, Wakes
<1>3. kind # "Suspend"
  BY <1>2, RequestTargetFacts
<1>4. SuspendIsPlain(w, kind)
  BY <1>3 DEF SuspendIsPlain
<1>5. /\ Coherent(v) /\ v.lifecycle.requests = requests
      /\ v.lifecycle.quiesce_requested = w.lifecycle.quiesce_requested
      /\ v.net = w.net
      /\ TargetOutcome(w, kind, v.lifecycle.machine)
  BY <1>1, <1>4, RequestKeeps
<1> HIDE DEF v, kind, requests
<1>6. Wakes(v)
  BY <1>2, <1>3, <1>5 DEF Wakes, TargetOutcome
<1>7. Settles(w) => Settles(v)
  BY <1>3, <1>5, <1>6 DEF Settles, TargetOutcome, Wedged
<1>8. Awake(w) => Awake(v)
  BY <1>5, <1>7 DEF Awake, Settles, TargetOutcome
<1>9. kind = "Ready" => Dialled(v.lifecycle.machine)
  BY <1>5 DEF TargetOutcome
<1>10. QED
  BY <1>5, <1>6, <1>7, <1>8, <1>9 DEF v, kind, requests

\* psp_connect_network: the demand it sets finds a machine to recover.
LEMMA StartDialKeeps ==
    ASSUME NEW w, NEW caller \in Callers, Rouses(w, caller),
           StartDial(w, caller)
    PROVE  IInv'
<1> DEFINE v == Request(w, "Voice", FALSE)
           u == Request(v, "Navigation", TRUE)
           b == [at |-> "Recover", then |-> caller]
<1>1. Wakes(w) /\ "Voice" \in Requesters /\ "Navigation" \in Requesters
  BY DEF Rouses, Awake, Settles, Requesters
<1>2. /\ Wakes(v) /\ (Awake(w) => Awake(v))
      /\ v.lifecycle.requests = w.lifecycle.requests \ {"Voice"}
  BY <1>1, RequestWakes DEF After
<1> HIDE DEF v
<1>3. /\ Wakes(u) /\ (Awake(v) => Awake(u))
      /\ u.lifecycle.requests = v.lifecycle.requests \cup {"Navigation"}
      /\ RequestTarget(u.lifecycle.requests).kind = "Ready"
            => Dialled(u.lifecycle.machine)
  BY <1>1, <1>2, RequestWakes DEF After
<1> HIDE DEF u
<1>4. u.lifecycle.requests \in SUBSET Requesters
  BY <1>3, WorldFields DEF Wakes, Coherent
<1>5. {"Shutdown", "Suspend", "Voice"} \cap u.lifecycle.requests = {}
  BY <1>2, <1>3 DEF Wakes
<1>6. RequestTarget(u.lifecycle.requests).kind = "Ready"
  BY <1>3, <1>4, <1>5, RequestTargetFacts
<1>7. b \in Locations /\ b.at = "Recover" /\ b.then = caller
  BY DEF Locations, Places, Returns, Callers
<1>8. Rouses(u, caller)
  BY <1>2, <1>3 DEF Rouses
<1> HIDE DEF b
<1>9. Placed(u, b)
  BY <1>3, <1>6, <1>7, <1>8, PlacesOfAwake
<1>10. Become(u) /\ browser' = b
  BY DEF StartDial, GoTo, u, v, b
<1>11. Coherent(u)
  BY <1>3 DEF Wakes
<1>12. QED
  BY <1>9, <1>10, <1>11, ArrivalKeeps

\* The target of a blocking stop leaves nothing retained.
LEMMA LegacyOffSettles ==
    ASSUME NEW w, Wakes(w)
    PROVE  Settles(LegacyOff(w))
<1> DEFINE v == LegacyOff(w)
           m == w.lifecycle.machine
<1>1. /\ Coherent(v) /\ SameBut(v, w)
      /\ m.state = "Stopping" => v = w
      /\ m.state # "Stopping" => TargetOutcome(w, "Off", v.lifecycle.machine)
  BY LegacyOffKeeps DEF Wakes
<1> HIDE DEF v
<1>2. m.state = "Stopping" => Settles(v)
  BY <1>1 DEF Settles
<1>3. m.state # "Stopping" => Settles(v)
  BY <1>1 DEF Settles, Wakes, SameBut, TargetOutcome
<1>4. QED
  BY <1>2, <1>3 DEF v

LEMMA StartShutdownKeeps ==
    ASSUME NEW w, Wakes(w), NEW then \in {"Dial", "Halt", "Loop"},
           StartShutdown(w, then)
    PROVE  IInv'
<1> DEFINE v == LegacyOff(w)
           b == [at |-> "Shutdown", then |-> then]
<1>1. Settles(v) /\ Coherent(v)
  BY LegacyOffSettles DEF Settles, Wakes
<1>2. b \in Locations /\ b.at = "Shutdown" /\ b.then = then
  BY DEF Locations, Places, Returns
<1>3. Become(v) /\ browser' = b
  BY DEF StartShutdown, GoTo
<1> HIDE DEF v, b
<1>4. Placed(v, b)
  BY <1>1, <1>2, PlacesOfAwake
<1>5. QED
  BY <1>1, <1>3, <1>4, ArrivalKeeps

LEMMA ToLoopKeeps ==
    ASSUME NEW w, Awake(w), ToLoop(w)
    PROVE  IInv'
<1> DEFINE b == [at |-> "Loop", then |-> "Loop"]
<1>1. b \in Locations /\ b.at = "Loop"
  BY DEF Locations, Places, Returns
<1>2. Become(w) /\ browser' = b
  BY DEF ToLoop, GoTo
<1> HIDE DEF b
<1>3. Placed(w, b)
  BY <1>1, PlacesOfAwake
<1>4. QED
  BY <1>2, <1>3, ArrivalKeeps DEF Awake, Settles, Wakes

\* The process ends: the one request that is never taken back.
LEMMA StartHaltKeeps ==
    ASSUME NEW w, Awake(w), StartHalt(w)
    PROVE  IInv'
<1>1. Coherent(w) /\ Wakes(w) /\ Settles(w)
  BY DEF Awake, Settles, Wakes
<1>2. CASE ~Started(w.lifecycle.machine)
  <2> DEFINE b == [at |-> "Halted", then |-> "Halted"]
  <2>1. b \in Locations /\ b.at = "Halted"
    BY DEF Locations, Places, Returns
  <2>2. Become(w) /\ browser' = b
    BY <1>2 DEF StartHalt, GoTo
  <2> HIDE DEF b
  <2>3. Placed(w, b)
    BY <2>1, PlacesOfAwake
  <2>4. QED
    BY <1>1, <2>2, <2>3, ArrivalKeeps
<1>3. CASE Started(w.lifecycle.machine)
  <2> DEFINE v == Request(w, "Shutdown", TRUE)
             u == LegacyOff(v)
             b == [at |-> "Shutdown", then |-> "Halted"]
             requests == After(w.lifecycle.requests, "Shutdown", TRUE)
             kind == RequestTarget(requests).kind
  <2>1. Become(u) /\ browser' = b
    BY <1>3 DEF StartHalt, StartShutdown, GoTo
  <2>2. "Shutdown" \in Requesters
    BY DEF Requesters
  <2>3. requests \in SUBSET Requesters /\ "Suspend" \notin requests
    BY <1>1, <2>2, WorldFields DEF After, Coherent, Wakes
  <2>4. kind # "Suspend"
    BY <2>3, RequestTargetFacts
  <2>5. SuspendIsPlain(w, kind)
    BY <2>4 DEF SuspendIsPlain
  <2>6. /\ Coherent(v) /\ v.lifecycle.requests = requests
        /\ TargetOutcome(w, kind, v.lifecycle.machine)
    BY <1>1, <2>2, <2>5, RequestKeeps
  <2> HIDE DEF v, kind, requests
  <2>7. v.lifecycle.machine.state # "SuspendedRetained"
        /\ ~(/\ v.lifecycle.machine.state = "Stopping"
             /\ v.lifecycle.machine.stopping_target = "SuspendedRetained")
    BY <1>1, <2>4, <2>6 DEF TargetOutcome, Wedged, Settles
  <2>8. /\ Coherent(u) /\ SameBut(u, v)
        /\ u.lifecycle.machine.state # "SuspendedRetained"
        /\ ~(/\ u.lifecycle.machine.state = "Stopping"
             /\ u.lifecycle.machine.stopping_target = "SuspendedRetained")
    BY <2>6, <2>7, LegacyOffKeeps DEF SameBut, TargetOutcome
  <2> HIDE DEF u
  <2>9. b \in Locations /\ b.at = "Shutdown" /\ b.then = "Halted"
    BY DEF Locations, Places, Returns
  <2>10. Halting(b)
    BY DEF Halting
  <2> HIDE DEF b
  <2>11. "Suspend" \notin u.lifecycle.requests
    BY <2>3, <2>6, <2>8 DEF SameBut
  <2>12. ThreadKnows(u, b) /\ OnlyThere(u, b)
    BY <2>8, <2>9, <2>10, <2>11 DEF ThreadKnows, OnlyThere
  <2>13. Placed(u, b)
    BY <2>9, <2>12 DEF Placed, Locations
  <2>14. QED
    BY <2>1, <2>8, <2>13, ArrivalKeeps
<1>4. QED
  BY <1>2, <1>3

\* A machine that has not started rests.
LEMMA NotStartedRests ==
    ASSUME NEW w, Coherent(w), ~Started(w.lifecycle.machine)
    PROVE  w.lifecycle.machine.state \in Resting
BY DEF Started

\* What each caller of psp_connect_network does with a refusal.
LEMMA DialFailedKeeps ==
    ASSUME NEW w, NEW caller \in Callers, Rouses(w, caller),
           DialFailed(w, caller)
    PROVE  IInv'
<1> DEFINE m == w.lifecycle.machine
<1>1. Wakes(w) /\ (caller # "Resume" => Awake(w))
  BY DEF Rouses, Awake, Settles
<1>2. CASE caller = "Navigation"
  <2>1. Awake(w)
    BY <1>1, <1>2
  <2>2. StartShutdown(w, "Loop") \/ ToLoop(w)
    BY <1>2 DEF DialFailed
  <2>3. QED
    BY <1>1, <2>1, <2>2, StartShutdownKeeps, ToLoopKeeps
<1>3. CASE caller = "Resume"
  <2>1. CASE Started(m)
    <3>1. StartShutdown(w, "Loop")
      BY <1>3, <2>1 DEF DialFailed
    <3>2. QED
      BY <1>1, <3>1, StartShutdownKeeps
  <2>2. CASE ~Started(m)
    <3>1. ToLoop(w)
      BY <1>3, <2>2 DEF DialFailed
    <3>2. m.state \in Resting
      BY <1>1, <2>2, NotStartedRests DEF Wakes
    <3>3. Awake(w)
      BY <1>1, <3>2 DEF Awake, Settles, Resting, InPhase
    <3>4. QED
      BY <3>1, <3>3, ToLoopKeeps
  <2>3. QED
    BY <2>1, <2>2
<1>4. CASE caller = "Startup"
  <2>1. Awake(w)
    BY <1>1, <1>4
  <2>2. StartShutdown(w, "Halt") \/ StartHalt(w)
    BY <1>4 DEF DialFailed
  <2>3. QED
    BY <1>1, <2>1, <2>2, StartShutdownKeeps, StartHaltKeeps
<1>5. QED
  BY <1>2, <1>3, <1>4 DEF Callers

\* Transfers that are cancelled by their owner.
LEMMA CancelledKeeps ==
    ASSUME NEW w, Coherent(w), NEW which
    PROVE  LET v == [w EXCEPT !.slots = CancelSlots(@, which)]
           IN  /\ Coherent(v) /\ v.lifecycle = w.lifecycle
               /\ v.net = w.net
               /\ Wakes(w) => Wakes(v)
               /\ Awake(w) => Awake(v)
<1> DEFINE t == CancelSlots(w.slots, which)
           v == [w EXCEPT !.slots = t]
<1>1. w \in Worlds /\ w.slots \in Tables /\ QuiesceCovers(w)
  BY CoherentFacts, WorldFields
<1>2. /\ t \in Tables
      /\ \A i \in Slots : t[i] # "Free" => w.slots[i] # "Free"
      /\ \A i \in Slots : w.slots[i] \in {"Free", "Cancelling"} =>
            t[i] \in {"Free", "Cancelling"}
  BY <1>1, CancelSlotsFacts
<1> HIDE DEF t
<1>3. /\ v \in Worlds /\ v.lifecycle = w.lifecycle /\ v.net = w.net
      /\ v.slots = t /\ v.session = w.session
  BY <1>1, <1>2 DEF Worlds
<1> HIDE DEF v
<1>4. QuiesceCovers(v)
  BY <1>1, <1>2, <1>3 DEF QuiesceCovers
<1>5. Coherent(v)
  BY <1>2, <1>3, <1>4, ReframeKeeps
<1>6. (Wakes(w) => Wakes(v)) /\ (Awake(w) => Awake(v))
  BY <1>3, <1>5 DEF Awake, Settles, Wakes
<1>7. QED
  BY <1>3, <1>5, <1>6 DEF v, t
-----------------------------------------------------------------------------
(***************************************************************************)
(* The multiplayer session.                                                *)
(***************************************************************************)
\* A session that changes without taking its stop flag back.
LEMMA SessionKeeps ==
    ASSUME NEW w, Coherent(w), NEW s \in Sessions,
           w.lifecycle.quiesce_requested =>
                (SessionOwned(s) => s.network_stop)
    PROVE  \A v : v = [w EXCEPT !.session = s] =>
                /\ Coherent(v) /\ v.lifecycle = w.lifecycle /\ v.net = w.net
                /\ v.slots = w.slots /\ v.session = s
                /\ Wakes(w) => Wakes(v)
                /\ Awake(w) => Awake(v)
<1> SUFFICES ASSUME NEW v, v = [w EXCEPT !.session = s]
             PROVE  /\ Coherent(v) /\ v.lifecycle = w.lifecycle
                    /\ v.net = w.net
                    /\ v.slots = w.slots /\ v.session = s
                    /\ Wakes(w) => Wakes(v)
                    /\ Awake(w) => Awake(v)
  OBVIOUS
<1>1. w \in Worlds /\ QuiesceCovers(w)
  BY CoherentFacts
<1>2. /\ v \in Worlds /\ v.lifecycle = w.lifecycle /\ v.net = w.net
      /\ v.slots = w.slots /\ v.session = s
  BY <1>1 DEF Worlds
<1>3. QuiesceCovers(v)
  BY <1>1, <1>2 DEF QuiesceCovers
<1>4. Coherent(v)
  BY <1>2, <1>3, ReframeKeeps
<1>5. QED
  BY <1>2, <1>4 DEF Awake, Settles, Wakes

\* Coherence says that a covering quiesce stops an owned session.
LEMMA StopFlagFacts ==
    ASSUME NEW w, Coherent(w)
    PROVE  /\ w.lifecycle.quiesce_requested =>
                (SessionOwned(w.session) => w.session.network_stop)
           /\ w.session \in Sessions
BY CoherentFacts, WorldFields DEF QuiesceCovers

LEMMA ReleaseKeeps ==
    ASSUME NEW w, Awake(w)
    PROVE  Awake(ReleaseSession(w))
<1>1. CASE w.session.phase = "Running"
  BY <1>1 DEF ReleaseSession
<1>2. CASE w.session.phase # "Running"
  <2> DEFINE s == [w.session EXCEPT !.phase = "None",
                                    !.cancel_pending = FALSE]
             v == [w EXCEPT !.session = s]
  <2>1. Coherent(w)
    BY DEF Awake, Settles, Wakes
  <2>2. w \in Worlds /\ w.session \in Sessions
    BY <2>1, StopFlagFacts DEF Coherent
  <2>3. [w EXCEPT !.session.phase = "None", !.session.cancel_pending = FALSE]
            = v
    BY <2>2 DEF Worlds, Sessions
  <2>4. ReleaseSession(w) = Request(v, "Multiplayer", FALSE)
    BY <1>2, <2>3 DEF ReleaseSession
  <2>5. s \in Sessions /\ s.phase = "None"
    BY <2>2 DEF Sessions, SessionPhases
  <2> HIDE DEF s
  <2>6. Awake(v)
    BY <2>1, <2>5, SessionKeeps DEF SessionOwned
  <2> HIDE DEF v
  <2>7. "Multiplayer" \in Requesters /\ Wakes(v)
    BY <2>6 DEF Requesters, Awake, Settles
  <2>8. Awake(Request(v, "Multiplayer", FALSE))
    BY <2>6, <2>7, RequestWakes
  <2>9. QED
    BY <2>4, <2>8
<1>3. QED
  BY <1>1, <1>2

\* A session is started over a ready network only, so never during a drain.
LEMMA MultiplayerPumpKeeps ==
    ASSUME NEW w, Awake(w), NEW v \in MultiplayerPump(w)
    PROVE  Awake(v)
<1> DEFINE s == w.session
           closed == [w.session EXCEPT !.phase = "Closed"]
           running == [w.session EXCEPT !.phase = "Running"]
<1>1. Coherent(w) /\ w \in Worlds /\ s \in Sessions
  BY StopFlagFacts DEF Awake, Settles, Wakes, Coherent
<1>2. \/ v = w
      \/ v = ReleaseSession(w)
      \/ v = [w EXCEPT !.session.phase = "Closed"]
      \/ LifecycleReady(w) /\ v = [w EXCEPT !.session.phase = "Running"]
  BY DEF MultiplayerPump
<1>3. CASE v = w
  BY <1>3
<1>4. CASE v = ReleaseSession(w)
  BY <1>4, ReleaseKeeps
<1>5. CASE v = [w EXCEPT !.session.phase = "Closed"]
  <2>1. v = [w EXCEPT !.session = closed]
    BY <1>1, <1>5 DEF Worlds, Sessions
  <2>2. closed \in Sessions /\ ~SessionOwned(closed)
    BY <1>1 DEF Sessions, SessionPhases, SessionOwned
  <2> HIDE DEF closed
  <2>3. QED
    BY <1>1, <2>1, <2>2, SessionKeeps
<1>6. CASE LifecycleReady(w) /\ v = [w EXCEPT !.session.phase = "Running"]
  <2>1. v = [w EXCEPT !.session = running]
    BY <1>1, <1>6 DEF Worlds, Sessions
  <2>2. running \in Sessions
    BY <1>1 DEF Sessions, SessionPhases
  <2>3. ~w.lifecycle.quiesce_requested
    BY <1>1, <1>6, CoherentFacts DEF LifecycleReady, Wedged
  <2> HIDE DEF running
  <2>4. QED
    BY <1>1, <2>1, <2>2, <2>3, SessionKeeps
<1>7. QED
  BY <1>2, <1>3, <1>4, <1>5, <1>6

LEMMA PumpAwake ==
    ASSUME NEW w, Awake(w), NEW v \in LifecyclePump(w)
    PROVE  Awake(v)
<1>1. Serviced(w, v)
  BY LifecyclePumpKeeps DEF Awake, Settles, Wakes
<1>2. QED
  BY <1>1 DEF Serviced, Awake, Settles, Wakes
-----------------------------------------------------------------------------
(***************************************************************************)
(* The actions of the browser thread, one lemma each.                      *)
(***************************************************************************)
LEMMA HereFacts ==
    ASSUME IInv
    PROVE  /\ Coherent(World) /\ Placed(World, browser)
           /\ browser \in Locations
           /\ browser.at \in {"Boot", "Loop", "Exiting", "Quitting", "Connect"}
                => Awake(World) /\ Wakes(World)
           /\ World.lifecycle = lifecycle /\ World.net = net
           /\ World.slots = slots /\ World.session = session
<1>1. Coherent(World) /\ Placed(World, browser)
  BY DEF IInv
<1>2. browser \in Locations
  BY <1>1 DEF Placed, Locations
<1>3. browser.at \in {"Boot", "Loop", "Exiting", "Quitting", "Connect"}
        => Awake(World) /\ Wakes(World)
  BY <1>1, AwakeInPlaces DEF Awake, Settles
<1>4. QED
  BY <1>1, <1>2, <1>3 DEF World

\* The thread stays where it is, over another world that is awake.
LEMMA HereKeeps ==
    ASSUME IInv, NEW w, Awake(w), Become(w), UNCHANGED browser,
           browser.at \in {"Loop", "Exiting", "Quitting", "Halted"}
    PROVE  IInv'
<1>1. browser \in Locations /\ browser' = browser
  BY HereFacts
<1>2. Placed(w, browser)
  BY <1>1, PlacesOfAwake
<1>3. Coherent(w)
  BY DEF Awake, Settles, Wakes
<1>4. QED
  BY <1>1, <1>2, <1>3, ArrivalKeeps

\* The warm-up of a local home page begins a ladder under a resting machine.
LEMMA BootHomeKeeps ==
    ASSUME IInv, BootHome
    PROVE  IInv'
<1>1. /\ browser.at = "Boot" /\ Awake(World)
      /\ lifecycle.machine.state \in Resting
      /\ World \in Worlds /\ Coherent(World)
  BY HereFacts DEF BootHome, At, Placed, ThreadKnows, Coherent
<1>2. CASE ToLoop(World)
  BY <1>1, <1>2, ToLoopKeeps
<1>3. CASE ToLoop(Request([World EXCEPT !.net = BeginLadder(net)],
                          "Boot", TRUE))
  <2> DEFINE n == BeginLadder(net)
             v == Restacked(World, n)
             m == lifecycle.machine
  <2>1. net \in Nets /\ Climbing(n) /\ n.services = {}
        /\ n.status = "CheckingProfile"
    BY <1>1, HereFacts, WorldFields, BeginLadderClimbs
       DEF BeginLadder, IdleNetwork
  <2>2. /\ v \in Worlds /\ v.net = n /\ v.lifecycle = lifecycle
        /\ v.slots = slots
    BY <1>1, <2>1, HereFacts, RestackedFields DEF Climbing
  <2>3. /\ Good(m) /\ lifecycle.gate = m.admission_open
        /\ lifecycle.shutdown = "Idle" /\ ~lifecycle.quiesce_requested
        /\ \A i \in Slots : slots[i] = "Free"
    BY <1>1, HereFacts, CoherentFacts DEF Wedged, Resting, NoLease
  <2>4. Unbuilt(n)
    BY <2>1 DEF Unbuilt, ServicesBelow
  <2> HIDE DEF v, n, m
  <2>5. Rests(m) /\ NoLease(v)
    BY <1>1, <2>2, <2>3 DEF Good, NoLease, m
  <2>6. Fits(m, v)
    BY <2>2, <2>3, <2>4, <2>5, FitsOutsideStop
  <2>7. Coherent(v)
    BY <2>2, <2>3, <2>6 DEF Coherent, m
  <2>8. Awake(v) /\ Wakes(v)
    BY <1>1, <2>2, <2>7, HereFacts DEF Awake, Settles, Wakes
  <2>9. Awake(Request(v, "Boot", TRUE))
    BY <2>8, RequestWakes DEF Requesters
  <2>10. ToLoop(Request(v, "Boot", TRUE))
    BY <1>3 DEF v, n, Restacked
  <2>11. QED
    BY <2>9, <2>10, ToLoopKeeps
<1>4. QED
  BY <1>2, <1>3 DEF BootHome

LEMMA BootOnlineKeeps ==
    ASSUME IInv, BootOnline
    PROVE  IInv'
<1>1. Awake(World) /\ StartDial(World, "Startup")
  BY HereFacts DEF BootOnline, At
<1>2. Rouses(World, "Startup") /\ "Startup" \in Callers
  BY <1>1 DEF Rouses, Callers
<1>3. QED
  BY <1>1, <1>2, StartDialKeeps

LEMMA FramePumpKeeps ==
    ASSUME IInv, FramePump
    PROVE  IInv'
<1>1. Awake(World) /\ browser.at = "Loop"
  BY HereFacts DEF FramePump, At
<1>2. PICK v \in LifecyclePump(World) :
        \E w \in MultiplayerPump(v) : Become(w)
  BY DEF FramePump, Then
<1>3. PICK w \in MultiplayerPump(v) : Become(w)
  BY <1>2
<1>4. Awake(v)
  BY <1>1, <1>2, PumpAwake
<1>5. Awake(w)
  BY <1>3, <1>4, MultiplayerPumpKeeps
<1>6. QED
  BY <1>1, <1>3, <1>5, HereKeeps DEF FramePump

LEMMA NavigateKeeps ==
    ASSUME IInv, Navigate
    PROVE  IInv'
<1>1. Awake(World) /\ Wakes(World)
  BY HereFacts DEF Navigate, At
<1>2. StartShutdown(World, "Dial") \/ StartDial(World, "Navigation")
  BY DEF Navigate
<1>3. Rouses(World, "Navigation") /\ "Navigation" \in Callers
  BY <1>1 DEF Rouses, Callers
<1>4. QED
  BY <1>1, <1>2, <1>3, StartShutdownKeeps, StartDialKeeps

\* The blocking stop of a suspend ends asleep, that of the exit in the end of
\* the process; every other one leaves a world that is awake.
LEMMA ShutdownStepKeeps ==
    ASSUME IInv, ShutdownStep
    PROVE  IInv'
<1> DEFINE m == World.lifecycle.machine
<1>1. /\ Coherent(World) /\ ThreadKnows(World, browser)
      /\ OnlyThere(World, browser)
      /\ browser \in Locations /\ browser.at = "Shutdown"
  BY HereFacts DEF ShutdownStep, At, Placed
<1>2. browser.then \in {"Dial", "Halt", "Asleep", "Loop", "Halted"}
  BY <1>1 DEF ThreadKnows
<1>3. PICK w \in PumpStopping(World) :
        \/ w.lifecycle.machine.state # "Stopping" /\ ShutdownReturns(w, TRUE)
        \/ /\ w.lifecycle.machine.state = "Stopping"
           /\ ShutdownReturns(w, FALSE)
        \/ /\ w.lifecycle.machine.state = "Stopping"
           /\ Become(w) /\ UNCHANGED browser
  BY DEF ShutdownStep
<1> DEFINE n == w.lifecycle.machine
<1>4. Pumped(World, w) /\ ~InPhase(n, "Admission") /\ Coherent(w)
  BY <1>1, PumpStoppingKeeps DEF Pumped
<1>5. /\ w.lifecycle.requests = World.lifecycle.requests
      /\ n.state = "SuspendedRetained" =>
            \/ m.state = "SuspendedRetained"
            \/ m.state = "Stopping" /\ m.stopping_target = "SuspendedRetained"
      /\ n.state = "Stopping" /\ n.stopping_target = "SuspendedRetained" =>
            m.state = "Stopping" /\ m.stopping_target = "SuspendedRetained"
  BY <1>4 DEF Pumped, StopsOn, Resting
<1> HIDE DEF n, m
<1>6. CASE browser.then \in {"Dial", "Halt", "Loop"}
  <2>1. Settles(World)
    BY <1>1, <1>6, HereFacts, AwakeInPlaces
  <2>2. Awake(w) /\ Settles(w)
    BY <1>4, <1>5, <2>1 DEF Awake, Settles, Wakes, n, m
  <2>3. CASE Become(w) /\ UNCHANGED browser
    <3>1. Placed(w, browser)
      BY <1>1, <1>2, <2>2, PlacesOfAwake
    <3>2. QED
      BY <1>4, <2>3, <3>1, ArrivalKeeps
  <2>4. CASE ShutdownReturns(w, TRUE) \/ ShutdownReturns(w, FALSE)
    <3>1. CASE browser.then = "Dial"
      <4>1. StartDial(w, "Navigation") \/ ToLoop(w)
        BY <2>4, <3>1 DEF ShutdownReturns
      <4>2. Rouses(w, "Navigation") /\ "Navigation" \in Callers
        BY <2>2 DEF Rouses, Callers
      <4>3. QED
        BY <2>2, <4>1, <4>2, StartDialKeeps, ToLoopKeeps
    <3>2. CASE browser.then = "Halt"
      <4>1. StartHalt(w)
        BY <2>4, <3>2 DEF ShutdownReturns
      <4>2. QED
        BY <2>2, <4>1, StartHaltKeeps
    <3>3. CASE browser.then = "Loop"
      <4>1. ToLoop(w)
        BY <2>4, <3>3 DEF ShutdownReturns, ToLoop
      <4>2. QED
        BY <2>2, <4>1, ToLoopKeeps
    <3>4. QED
      BY <1>6, <3>1, <3>2, <3>3
  <2>5. QED
    BY <1>3, <2>3, <2>4
<1>7. CASE browser.then = "Halted"
  <2> DEFINE b == [at |-> "Halted", then |-> "Halted"]
  <2>1. /\ ~Suspending(browser) /\ ~Sleeping(browser) /\ ~Waking(browser)
        /\ Halting(browser)
    <3>1. browser = [at |-> "Shutdown", then |-> "Halted"]
      BY <1>1, <1>7 DEF Locations
    <3>2. QED
      BY <3>1 DEF Suspending, Sleeping, Waking, Halting
  <2>2. /\ "Suspend" \notin w.lifecycle.requests
        /\ n.state # "SuspendedRetained"
        /\ ~(n.state = "Stopping" /\ n.stopping_target = "SuspendedRetained")
    BY <1>1, <1>5, <2>1 DEF OnlyThere, m
  <2>3. OnlyThere(w, browser) /\ ThreadKnows(w, browser)
    BY <1>1, <1>2, <1>4, <2>1, <2>2 DEF OnlyThere, ThreadKnows, n
  <2>4. Placed(w, browser)
    BY <1>1, <2>3 DEF Placed, Locations
  <2>5. b \in Locations /\ b.at = "Halted"
    BY DEF Locations, Places, Returns
  <2>6. Halting(b)
    BY DEF Halting
  <2>7. \/ Become(w) /\ UNCHANGED browser
        \/ Become(w) /\ browser' = b
    BY <1>3, <1>7 DEF ShutdownReturns, GoTo
  <2> HIDE DEF b
  <2>8. OnlyThere(w, b) /\ ThreadKnows(w, b)
    BY <1>4, <2>2, <2>5, <2>6 DEF OnlyThere, ThreadKnows, n
  <2>9. Placed(w, b)
    BY <2>5, <2>8 DEF Placed, Locations
  <2>10. QED
    BY <1>4, <2>4, <2>7, <2>9, ArrivalKeeps
<1>8. CASE browser.then = "Asleep"
  <2> DEFINE b == [at |-> "Asleep", then |-> "Started"]
  <2>1. /\ ~Sleeping(browser) /\ ~Waking(browser) /\ ~Halting(browser)
        /\ Suspending(browser)
    <3>1. browser = [at |-> "Shutdown", then |-> "Asleep"]
      BY <1>1, <1>8 DEF Locations
    <3>2. QED
      BY <3>1 DEF Suspending, Sleeping, Waking, Halting
  <2>2. "Shutdown" \notin w.lifecycle.requests
    BY <1>1, <1>5, <2>1 DEF OnlyThere
  <2>3. n.state = "Stopping" =>
            OnlyThere(w, browser) /\ ThreadKnows(w, browser)
    BY <1>1, <1>2, <1>4, <2>1, <2>2 DEF OnlyThere, ThreadKnows, n
  <2>4. n.state = "Stopping" => Placed(w, browser)
    BY <1>1, <2>3 DEF Placed, Locations
  <2>5. b \in Locations /\ b.at = "Asleep" /\ b.then = "Started"
    BY DEF Locations, Places, Returns
  <2>6. \/ n.state = "Stopping" /\ Become(w) /\ UNCHANGED browser
        \/ Become(w) /\ browser' = b
    BY <1>3, <1>8 DEF ShutdownReturns, GoTo, n
  <2> HIDE DEF b
  <2>7. Sleeping(b)
    BY <2>5 DEF Sleeping
  <2>8. OnlyThere(w, b) /\ ThreadKnows(w, b)
    BY <1>4, <2>2, <2>5, <2>7 DEF OnlyThere, ThreadKnows, n
  <2>9. Placed(w, b)
    BY <2>5, <2>8 DEF Placed, Locations
  <2>10. QED
    BY <1>4, <2>4, <2>6, <2>9, ArrivalKeeps
<1>9. QED
  BY <1>2, <1>6, <1>7, <1>8

LEMMA RecoverStepKeeps ==
    ASSUME IInv, RecoverStep
    PROVE  IInv'
<1>1. /\ Coherent(World) /\ browser \in Locations /\ browser.at = "Recover"
      /\ Rouses(World, browser.then) /\ browser.then \in Callers
      /\ NeedsRecovery(World.lifecycle.machine)
  BY HereFacts, AwakeInPlaces
     DEF RecoverStep, At, Placed, ThreadKnows
<1>2. PICK w \in LifecyclePump(World) : Become(w)
  BY DEF RecoverStep
<1>3. Serviced(World, w) /\ Coherent(w)
  BY <1>1, LifecyclePumpKeeps DEF Serviced
<1>4. Wakes(World) => Wakes(w)
  BY <1>3 DEF Serviced, Wakes
<1>5. Awake(World) => Awake(w)
  BY <1>3 DEF Serviced, Awake, Settles, Wakes
<1>6. Rouses(w, browser.then) /\ Dialled(w.lifecycle.machine)
  BY <1>1, <1>3, <1>4, <1>5 DEF Rouses, Serviced
<1>7. Placed(w, browser)
  BY <1>1, <1>6, PlacesOfAwake
<1>8. QED
  BY <1>2, <1>3, <1>7, ArrivalKeeps DEF RecoverStep

\* A report to a machine that does not wait for it.
LEMMA LateKeeps ==
    ASSUME NEW w, Wakes(w), Wedged(w.lifecycle.machine),
           w.net.status = "Ready"
    PROVE  LET v == LadderTerminal(w)
           IN  Wakes(v) /\ ~LifecycleReady(v)
<1> DEFINE m == w.lifecycle.machine
           d == OnLadderReady(m)
           v == LadderTerminal(w)
<1>1. Coherent(w) /\ w \in Worlds /\ Good(m) /\ Fits(m, w)
      /\ w.lifecycle.gate = m.admission_open
  BY CoherentFacts DEF Wakes, Coherent
<1>2. v = Send(w, d)
  BY DEF LadderTerminal
<1>3. GateAgrees(m, d) /\ d.next = m
  BY <1>1, LadderReadyEffect DEF Wedged
<1> HIDE DEF v, d
<1>4. Coherent(v) /\ v.lifecycle.machine = m /\ SameBut(v, w)
  BY <1>1, <1>2, <1>3, SendKeeps
<1>5. Wakes(v) /\ ~LifecycleReady(v)
  BY <1>4 DEF Wakes, SameBut, LifecycleReady, Wedged
<1>6. QED
  BY <1>5 DEF v

\* The reconnect wait is over: the ladder, if any, is its own.
LEMMA RecoverEndKeeps ==
    ASSUME IInv, RecoverEnd
    PROVE  IInv'
<1> DEFINE m == World.lifecycle.machine
           caller == browser.then
           late == LadderTerminal(World)
           n == IF StatusActive(net) THEN net ELSE BeginLadder(net)
<1>1. /\ Coherent(World) /\ browser \in Locations /\ browser.at = "Recover"
      /\ Rouses(World, caller) /\ caller \in Callers
      /\ Dialled(m) /\ lifecycle.machine = m /\ World.net = net
      /\ World \in Worlds /\ net \in Nets
  BY HereFacts, AwakeInPlaces, WorldFields
     DEF RecoverEnd, At, Placed, ThreadKnows, Coherent
<1>2. Wakes(World)
  BY <1>1 DEF Rouses, Awake, Settles
<1>3. \/ LifecycleReady(World) /\ ToLoop(World)
      \/ DialFailed(World, caller)
      \/ /\ ~LifecycleReady(World) /\ ~NeedsRecovery(m)
         /\ net.status = "Ready"
         /\ \/ LifecycleReady(late) /\ ToLoop(late)
            \/ DialFailed(late, caller)
      \/ /\ ~LifecycleReady(World) /\ ~NeedsRecovery(m)
         /\ net.status # "Ready"
         /\ Become(Restacked(World, n)) /\ GoTo("Connect", caller)
  BY <1>1 DEF RecoverEnd, Restacked
<1>4. CASE LifecycleReady(World) /\ ToLoop(World)
  <2>1. Awake(World)
    BY <1>2, <1>4 DEF Awake, Settles, LifecycleReady, InPhase
  <2>2. QED
    BY <1>4, <2>1, ToLoopKeeps
<1>5. CASE DialFailed(World, caller)
  BY <1>1, <1>5, DialFailedKeeps
<1>6. CASE /\ ~LifecycleReady(World) /\ ~NeedsRecovery(m)
           /\ net.status = "Ready"
           /\ \/ LifecycleReady(late) /\ ToLoop(late)
              \/ DialFailed(late, caller)
  <2>1. m.state # "Starting"
    BY <1>1, <1>6, CoherentFacts
  <2>2. Wedged(m)
    BY <1>1, <1>6, <2>1 DEF Dialled, NeedsRecovery, LifecycleReady
  <2>3. ~Awake(World)
    BY <2>2 DEF Awake, Settles, Wedged
  <2>4. caller = "Resume"
    BY <1>1, <2>3 DEF Rouses
  <2>5. Wakes(late) /\ ~LifecycleReady(late)
    BY <1>1, <1>2, <1>6, <2>2, LateKeeps
  <2> HIDE DEF late
  <2>6. Rouses(late, caller)
    BY <2>4, <2>5 DEF Rouses
  <2>7. QED
    BY <1>1, <1>6, <2>5, <2>6, DialFailedKeeps
<1>7. CASE /\ ~LifecycleReady(World) /\ ~NeedsRecovery(m)
           /\ net.status # "Ready"
           /\ Become(Restacked(World, n)) /\ GoTo("Connect", caller)
  <2>1. ~Wedged(m) /\ m.state # "Ready"
    BY <1>1, <1>7 DEF Coherent, Fits, StackFits, Serving
  <2>2. m.state = "Starting"
    BY <1>1, <1>7, <2>1 DEF Dialled, NeedsRecovery
  <2>3. net.services = ServicesBelow(net.status)
    BY <1>1, <2>2, CoherentFacts
  <2>4. Climbing(n) /\ StatusActive(n)
    BY <1>1, <1>7, <2>3, BeginLadderClimbs DEF Climbing
  <2> HIDE DEF n
  <2> DEFINE v == Restacked(World, n)
             b == [at |-> "Connect", then |-> caller]
  <2>5. Coherent(v) /\ v.net = n /\ v.lifecycle = World.lifecycle
    BY <1>1, <2>2, <2>4, ClimbedKeeps, RestackedFields DEF Climbing
  <2>6. Become(v) /\ browser' = b
    BY <1>7 DEF GoTo
  <2> HIDE DEF v
  <2>7. Awake(v)
    BY <1>2, <2>2, <2>5 DEF Awake, Settles, Wakes, InPhase
  <2>8. b \in Locations /\ b.at = "Connect" /\ b.then = caller
    BY <1>1 DEF Locations, Places
  <2> HIDE DEF b
  <2>9. Placed(v, b)
    BY <1>1, <2>2, <2>4, <2>5, <2>7, <2>8, PlacesOfAwake
  <2>10. QED
    BY <2>5, <2>6, <2>9, ArrivalKeeps
<1>8. QED
  BY <1>3, <1>4, <1>5, <1>6, <1>7

LEMMA ConnectStepKeeps ==
    ASSUME IInv, ConnectStep
    PROVE  IInv'
<1> DEFINE m == World.lifecycle.machine
           caller == browser.then
<1>1. /\ Coherent(World) /\ Awake(World)
      /\ browser \in Locations /\ browser.at = "Connect"
      /\ caller \in Callers /\ m.state = "Starting"
      /\ StatusActive(net) /\ World.net = net
      /\ World \in Worlds /\ net \in Nets
  BY HereFacts, WorldFields
     DEF ConnectStep, At, Placed, ThreadKnows, Coherent
<1>2. Climbing(net)
  BY <1>1, CoherentFacts DEF Climbing
<1>3. PICK n \in LadderUnit(net) \cup {[net EXCEPT !.status = "Cancelled"]} :
        \/ /\ StatusActive(n)
           /\ Become(Restacked(World, n)) /\ UNCHANGED browser
        \/ /\ ~StatusActive(n) /\ n.status = "Ready"
           /\ ToLoop(LadderTerminal(Restacked(World, n)))
        \/ /\ ~StatusActive(n) /\ n.status # "Ready"
           /\ DialFailed(LadderTerminal(Restacked(World, n)), caller)
  BY DEF ConnectStep, Restacked
<1>4. IF StatusActive(n) THEN Climbing(n) ELSE Ended(n)
  BY <1>1, <1>2, LadderUnitStep
<1> DEFINE v == Restacked(World, n)
           t == LadderTerminal(v)
<1>5. CASE StatusActive(n)
  <2>1. Coherent(v) /\ v.net = n /\ v.lifecycle = World.lifecycle
    BY <1>1, <1>4, <1>5, ClimbedKeeps, RestackedFields DEF Climbing
  <2>2. Become(v) /\ browser' = browser
    BY <1>3, <1>5
  <2> HIDE DEF v
  <2>3. Awake(v)
    BY <1>1, <2>1 DEF Awake, Settles, Wakes
  <2>4. Placed(v, browser)
    BY <1>1, <1>5, <2>1, <2>3, PlacesOfAwake
  <2>5. QED
    BY <2>1, <2>2, <2>4, ArrivalKeeps
<1>6. CASE ~StatusActive(n)
  <2>1. /\ Coherent(t) /\ t.lifecycle.requests = World.lifecycle.requests
        /\ ~t.lifecycle.quiesce_requested
        /\ IF n.status = "Ready" THEN Serves(t.lifecycle.machine)
           ELSE Stops(t.lifecycle.machine, "Admission", "Offline",
                      StackOf(n))
    BY <1>1, <1>4, <1>6, TerminalKeeps
  <2>2. ToLoop(t) \/ DialFailed(t, caller)
    BY <1>3, <1>6
  <2> HIDE DEF t
  <2>3. Awake(t)
    BY <1>1, <2>1 DEF Awake, Settles, Wakes, Serves, Stops
  <2>4. Rouses(t, caller)
    BY <2>3 DEF Rouses
  <2>5. QED
    BY <1>1, <2>2, <2>3, <2>4, ToLoopKeeps, DialFailedKeeps
<1>7. QED
  BY <1>5, <1>6

LEMMA DemandKeeps ==
    ASSUME IInv, MediaConnect \/ OfflineOpen
    PROVE  IInv'
<1>1. /\ Awake(World) /\ Wakes(World) /\ browser.at = "Loop"
      /\ UNCHANGED browser
  BY HereFacts DEF MediaConnect, OfflineOpen, At
<1>2. "Navigation" \in Requesters /\ "Boot" \in Requesters
  BY DEF Requesters
<1>3. /\ Awake(Request(World, "Navigation", TRUE))
      /\ Awake(Request(World, "Boot", FALSE))
  BY <1>1, <1>2, RequestWakes
<1>4. \/ Become(Request(World, "Navigation", TRUE))
      \/ Become(Request(World, "Boot", FALSE))
  BY DEF MediaConnect, OfflineOpen
<1>5. QED
  BY <1>1, <1>3, <1>4, HereKeeps

LEMMA VoiceReclaimKeeps ==
    ASSUME IInv, VoiceReclaim
    PROVE  IInv'
<1>1. Awake(World) /\ Wakes(World) /\ browser.at = "Loop"
  BY HereFacts DEF VoiceReclaim, At
<1>2. PICK which \in SUBSET Slots :
        LET w == [World EXCEPT !.slots = CancelSlots(@, which)]
        IN  IF Started(lifecycle.machine)
            THEN StartShutdown(Request(w, "Voice", TRUE), "Loop")
            ELSE Become(w) /\ UNCHANGED browser
  BY DEF VoiceReclaim
<1> DEFINE w == [World EXCEPT !.slots = CancelSlots(@, which)]
<1>3. Awake(w) /\ Wakes(w)
  BY <1>1, CancelledKeeps DEF Wakes
<1>4. \/ StartShutdown(Request(w, "Voice", TRUE), "Loop")
      \/ Become(w) /\ UNCHANGED browser
  BY <1>2
<1> HIDE DEF w
<1>5. Wakes(Request(w, "Voice", TRUE))
  BY <1>3, RequestWakes DEF Requesters
<1>6. QED
  BY <1>1, <1>3, <1>4, <1>5, StartShutdownKeeps, HereKeeps
-----------------------------------------------------------------------------
(***************************************************************************)
(* Suspend and resume.                                                     *)
(***************************************************************************)
\* The world a suspend asks in: ready to be retained, or to be stopped.
LEMMA SuspendRequestKeeps ==
    ASSUME NEW w, Awake(w)
    PROVE  LET v == Request(w, "Suspend", TRUE)
               m == w.lifecycle.machine
               n == v.lifecycle.machine
           IN  /\ Coherent(v)
               /\ "Shutdown" \notin v.lifecycle.requests
               /\ v.lifecycle.quiesce_requested
                    = w.lifecycle.quiesce_requested
               /\ m.state = "Ready" =>
                    /\ ~v.lifecycle.quiesce_requested
                    /\ InPhase(n, "Admission")
                    /\ n.stopping_target = "SuspendedRetained"
<1> DEFINE requests == After(w.lifecycle.requests, "Suspend", TRUE)
           v == Request(w, "Suspend", TRUE)
           kind == RequestTarget(requests).kind
           m == w.lifecycle.machine
<1>1. Coherent(w) /\ w.lifecycle.requests \subseteq Requesters
      /\ "Suspend" \in Requesters
  BY WorldFields DEF Awake, Settles, Wakes, Coherent, Requesters
<1>2. /\ requests \in SUBSET Requesters
      /\ "Suspend" \in requests /\ "Shutdown" \notin requests
  BY <1>1 DEF After, Awake, Settles, Wakes
<1>3. kind = "Suspend"
  BY <1>2, RequestTargetFacts
<1>4. SuspendIsPlain(w, kind)
  BY DEF SuspendIsPlain, Awake
<1>5. /\ Coherent(v) /\ v.lifecycle.requests = requests
      /\ v.lifecycle.quiesce_requested = w.lifecycle.quiesce_requested
      /\ TargetOutcome(w, kind, v.lifecycle.machine)
  BY <1>1, <1>4, RequestKeeps
<1>6. m.state = "Ready" => ~w.lifecycle.quiesce_requested
  BY <1>1, CoherentFacts DEF Wedged
<1> HIDE DEF v, requests, kind
<1>7. m.state = "Ready" =>
        /\ InPhase(v.lifecycle.machine, "Admission")
        /\ v.lifecycle.machine.stopping_target = "SuspendedRetained"
  BY <1>3, <1>5 DEF TargetOutcome, Stops, InPhase
<1>8. QED
  BY <1>2, <1>5, <1>6, <1>7 DEF v

\* The one look at the workers of a suspend ends the drain either way, and
\* the quiesce is nobody's to take back.
LEMMA RetainKeeps ==
    ASSUME NEW w, Coherent(w), ~w.lifecycle.quiesce_requested,
           InPhase(w.lifecycle.machine, "Admission"),
           w.lifecycle.machine.stopping_target = "SuspendedRetained",
           NEW v \in Retain(w)
    PROVE  /\ Coherent(v) /\ ~v.lifecycle.quiesce_requested
           /\ v.lifecycle.requests = w.lifecycle.requests
           /\ v.lifecycle.machine.state = "SuspendedRetained"
<1> DEFINE a == AdmissionStage(w)
           q == RequestQuiesce(a)
           m == a.lifecycle.machine
           late == {i \in Slots : q.slots[i] = "Cancelling"}
           looked(done) == [q EXCEPT
                !.slots = [i \in Slots |-> IF i \in done THEN "Free" ELSE @[i]]]
<1>1. /\ Coherent(a) /\ SameBut(a, w)
      /\ \/ m.state = "SuspendedRetained"
         \/ InPhase(m, "DrainLeases")
      /\ StopsOn(w.lifecycle.machine, m)
  BY AdmissionStageKeeps DEF Pumped
<1>2. a = Send(w, OnAdmissionStopped(w.lifecycle.machine, Snapshot(w)))
  BY DEF AdmissionStage
<1>3. IF InPhase(m, "DrainLeases")
      THEN \E done \in SUBSET late :
            LET u == looked(done)
            IN  v = Send(u, IF Quiesced(u)
                            THEN OnLeasesReleased(u.lifecycle.machine)
                            ELSE OnDrainTimeout(u.lifecycle.machine,
                                                Snapshot(u)))
      ELSE v = a
  BY <1>2 DEF Retain
<1>4. CASE ~InPhase(m, "DrainLeases")
  <2>1. v = a
    BY <1>3, <1>4
  <2>2. QED
    BY <1>1, <1>4, <2>1 DEF SameBut
<1>5. CASE InPhase(m, "DrainLeases")
  <2>1. PICK done \in SUBSET late :
            LET u == looked(done)
            IN  v = Send(u, IF Quiesced(u)
                            THEN OnLeasesReleased(u.lifecycle.machine)
                            ELSE OnDrainTimeout(u.lifecycle.machine,
                                                Snapshot(u)))
    BY <1>3, <1>5
  <2>2. m.state = "Stopping" /\ m.stopping_target = "SuspendedRetained"
    BY <1>1, <1>5 DEF StopsOn, InPhase, Resting
  <2>3. /\ Coherent(q) /\ q.lifecycle = a.lifecycle /\ q.net = a.net
        /\ \A i \in Slots : q.slots[i] \in {"Free", "Cancelling"}
        /\ q.session.network_stop = TRUE
    BY <1>1, RequestQuiesceKeeps
  <2>4. q \in Worlds
    BY <2>3 DEF Coherent
  <2> DEFINE table == [i \in Slots |-> IF i \in done THEN "Free"
                                                     ELSE q.slots[i]]
             u == [q EXCEPT !.slots = table]
  <2> HIDE DEF q
  <2>5. /\ table \in Tables
        /\ \A i \in Slots : table[i] # "Free" => q.slots[i] # "Free"
        /\ \A i \in Slots : table[i] \in {"Free", "Cancelling"}
    BY <2>3 DEF Tables, SlotStates
  <2>6. v = Send(u, IF Quiesced(u)
                    THEN OnLeasesReleased(u.lifecycle.machine)
                    ELSE OnDrainTimeout(u.lifecycle.machine, Snapshot(u)))
    BY <2>1
  <2> HIDE DEF table, a
  <2>7. /\ u \in Worlds /\ u.lifecycle = q.lifecycle /\ u.net = q.net
        /\ u.slots = table /\ u.session = q.session
    BY <2>4, <2>5 DEF Worlds
  <2> HIDE DEF u
  <2>8. QuiesceCovers(u)
    BY <2>3, <2>5, <2>7 DEF QuiesceCovers
  <2>9. Coherent(u)
    BY <2>3, <2>5, <2>7, <2>8, ReframeKeeps
  <2>10. /\ u.lifecycle = a.lifecycle /\ ~u.lifecycle.quiesce_requested
         /\ u.lifecycle.requests = w.lifecycle.requests
         /\ InPhase(u.lifecycle.machine, "DrainLeases")
         /\ u.lifecycle.machine.stopping_target = "SuspendedRetained"
    BY <1>1, <1>5, <2>2, <2>3, <2>7 DEF SameBut
  <2> DEFINE d == OnLeasesReleased(u.lifecycle.machine)
             r == Send(u, d)
             x == [r EXCEPT !.lifecycle.quiesce_requested = FALSE]
             t == Send(u, OnDrainTimeout(u.lifecycle.machine, Snapshot(u)))
  <2>11. CASE Quiesced(u)
    <3>1. Pumped(u, x) /\ Waits(u.lifecycle.machine)
      BY <2>9, <2>10, <2>11, ReleasedKeeps DEF Waits
    <3>2. u.lifecycle.machine.stack # "None"
      BY <2>9, <3>1 DEF Coherent, Fits, StackFits
    <3>3. Retains(d.next, "Full")
      BY <2>9, <2>10, <3>1, <3>2, CoherentFacts, LeasesReleasedEffect
    <3>4. d.next \in Machine /\ d.next.state = "SuspendedRetained"
      BY <3>3 DEF Retains, Childless
    <3> HIDE DEF d
    <3>5. /\ r \in Worlds /\ SameBut(r, u) /\ r.lifecycle.machine = d.next
      BY <2>7, <3>4, SendFields DEF SameBut
    <3> HIDE DEF r
    <3>6. r.lifecycle.quiesce_requested = FALSE
      BY <2>7, <2>10, <3>5, WorldFields DEF SameBut
    <3>7. x = r
      BY <3>5, <3>6 DEF Worlds, Lifecycles
    <3>8. v = r
      BY <2>6, <2>11 DEF r, d
    <3> HIDE DEF x
    <3>9. Coherent(v)
      BY <3>1, <3>7, <3>8 DEF Pumped
    <3>10. QED
      BY <2>10, <3>4, <3>5, <3>8, <3>9 DEF SameBut
  <2>12. CASE ~Quiesced(u)
    <3>1. /\ Pumped(u, t) /\ SameBut(t, u)
          /\ Wedged(t.lifecycle.machine)
      BY <2>9, <2>10, TimedOutKeeps
    <3>2. v = t
      BY <2>6, <2>12
    <3> HIDE DEF t
    <3>3. QED
      BY <2>10, <3>1, <3>2 DEF Pumped, SameBut, Wedged
  <2>13. QED
    BY <2>11, <2>12
<1>6. QED
  BY <1>4, <1>5

LEMMA SuspendKeeps ==
    ASSUME IInv, Suspend
    PROVE  IInv'
<1> DEFINE m == lifecycle.machine
           asked == Request(World, "Suspend", TRUE)
<1>1. /\ Coherent(World) /\ Awake(World) /\ browser.at = "Loop"
      /\ World.lifecycle.machine = m
  BY HereFacts DEF Suspend, At
<1>2. /\ Coherent(asked) /\ "Shutdown" \notin asked.lifecycle.requests
      /\ m.state = "Ready" =>
            /\ ~asked.lifecycle.quiesce_requested
            /\ InPhase(asked.lifecycle.machine, "Admission")
            /\ asked.lifecycle.machine.stopping_target = "SuspendedRetained"
  BY <1>1, SuspendRequestKeeps
<1>3. CASE ~Started(m) /\ Become(World) /\ GoTo("Asleep", "Off")
  <2> DEFINE b == [at |-> "Asleep", then |-> "Off"]
  <2>1. m.state \in Resting
    BY <1>1, <1>3, NotStartedRests
  <2>2. b \in Locations /\ browser' = b
    BY <1>3 DEF Locations, Places, Returns, GoTo
  <2>3. Placed(World, b)
    BY <1>1, <2>1, <2>2, PlacesOfAwake
  <2> HIDE DEF b
  <2>4. QED
    BY <1>1, <1>3, <2>2, <2>3, ArrivalKeeps
<1>4. CASE /\ LifecycleReady(World)
           /\ \E w \in Retain(asked) : Become(w)
           /\ GoTo("Asleep", "Ready")
  <2> DEFINE b == [at |-> "Asleep", then |-> "Ready"]
  <2>1. PICK w \in Retain(asked) : Become(w)
    BY <1>4
  <2>2. m.state = "Ready"
    BY <1>1, <1>4 DEF LifecycleReady
  <2> HIDE DEF asked
  <2>3. /\ Coherent(w) /\ ~w.lifecycle.quiesce_requested
        /\ w.lifecycle.requests = asked.lifecycle.requests
        /\ w.lifecycle.machine.state = "SuspendedRetained"
    BY <1>2, <2>1, <2>2, RetainKeeps
  <2>4. /\ b \in Locations /\ browser' = b
        /\ b.at = "Asleep" /\ b.then = "Ready"
    BY <1>4 DEF Locations, Places, Returns, GoTo
  <2> HIDE DEF b
  <2>5. Sleeping(b)
    BY <2>4 DEF Sleeping
  <2>6. ThreadKnows(w, b) /\ OnlyThere(w, b)
    BY <1>2, <2>3, <2>4, <2>5 DEF ThreadKnows, OnlyThere
  <2>7. Placed(w, b)
    BY <2>4, <2>6 DEF Placed, Locations
  <2>8. QED
    BY <2>1, <2>3, <2>4, <2>7, ArrivalKeeps
<1>5. CASE \E which \in SUBSET Slots :
            StartShutdown([asked EXCEPT !.slots = CancelSlots(@, which)],
                          "Asleep")
  <2>1. PICK which \in SUBSET Slots :
            StartShutdown([asked EXCEPT !.slots = CancelSlots(@, which)],
                          "Asleep")
    BY <1>5
  <2> HIDE DEF asked
  <2> DEFINE w == [asked EXCEPT !.slots = CancelSlots(@, which)]
             v == LegacyOff(w)
             b == [at |-> "Shutdown", then |-> "Asleep"]
  <2>2. Coherent(w) /\ w.lifecycle = asked.lifecycle
    BY <1>2, CancelledKeeps
  <2>3. Become(v) /\ browser' = b
    BY <2>1 DEF StartShutdown, GoTo
  <2> HIDE DEF w
  <2>4. /\ Coherent(v) /\ v.lifecycle.requests = asked.lifecycle.requests
        /\ v.lifecycle.machine.state # "SuspendedRetained"
    BY <2>2, LegacyOffKeeps DEF SameBut, TargetOutcome
  <2> HIDE DEF v
  <2>5. /\ b \in Locations /\ b.at = "Shutdown" /\ b.then = "Asleep"
        /\ Suspending(b)
    BY DEF Locations, Places, Returns, Suspending
  <2> HIDE DEF b
  <2>6. ThreadKnows(v, b) /\ OnlyThere(v, b)
    BY <1>2, <2>4, <2>5 DEF ThreadKnows, OnlyThere
  <2>7. Placed(v, b)
    BY <2>5, <2>6 DEF Placed, Locations
  <2>8. QED
    BY <2>3, <2>4, <2>7, ArrivalKeeps
<1>6. QED
  BY <1>3, <1>4, <1>5 DEF Suspend

\* A look at the workers at resume frees the wedge they have left.
LEMMA WedgeReleasedKeeps ==
    ASSUME NEW w, Coherent(w), Wedged(w.lifecycle.machine),
           ~w.lifecycle.quiesce_requested
    PROVE  LET v == Send(w, OnLeasesReleased(w.lifecycle.machine))
           IN  Coherent(v) /\ SameBut(v, w)
<1> DEFINE m == w.lifecycle.machine
           d == OnLeasesReleased(m)
<1>1. /\ w \in Worlds /\ Good(m) /\ w.lifecycle.gate = m.admission_open
      /\ w.lifecycle.shutdown = "Idle"
  BY CoherentFacts DEF Wedged
<1>2. Serving(w.net)
  BY DEF Coherent, Fits, StackFits
<1>3. /\ GateAgrees(m, d)
      /\ Rejoins(d.next, "Probing") \/ Retains(d.next, "Full")
  BY <1>1, WedgeReleasedEffect
<1> HIDE DEF d
<1>4. Fits(d.next, w)
  BY <1>1, <1>2, <1>3, FitsOutsideStop DEF Serving
<1>5. QED
  BY <1>1, <1>3, <1>4, SendKeeps DEF d

LEMMA ResumedKeeps ==
    ASSUME NEW w, Wakes(w), ~w.lifecycle.quiesce_requested
    PROVE  LET v == Send(w, OnResume(w.lifecycle.machine))
           IN  Wakes(v) /\ SameBut(v, w)
<1> DEFINE m == w.lifecycle.machine
           d == OnResume(m)
<1>1. /\ Coherent(w) /\ w \in Worlds /\ Good(m) /\ Fits(m, w)
      /\ w.lifecycle.gate = m.admission_open
  BY CoherentFacts DEF Wakes, Coherent
<1>2. /\ GateAgrees(m, d)
      /\ \/ m.state = "SuspendedRetained" /\ Rejoins(d.next, "Probing")
         \/ m.state = "SuspendedOff" /\ Starts(d.next)
         \/ d.next = m
  BY <1>1, ResumeEffect
<1> HIDE DEF d
<1>3. Fits(d.next, w)
  <2>1. CASE m.state = "SuspendedRetained" /\ Rejoins(d.next, "Probing")
    <3>1. w.net.services = Services
      BY <1>1, <2>1 DEF Fits, StackFits
    <3>2. w.lifecycle.shutdown = "Idle" /\ (NoLease(w) \/ Serving(w.net))
      BY <1>1, <2>1, CoherentFacts
    <3>3. QED
      BY <1>1, <2>1, <3>1, <3>2, FitsOutsideStop
  <2>2. CASE m.state = "SuspendedOff" /\ Starts(d.next)
    <3>1. /\ w.lifecycle.shutdown = "Idle" /\ NoLease(w)
          /\ Unbuilt(w.net)
      BY <1>1, <2>2, CoherentFacts DEF Resting
    <3>2. w.net.services = ServicesBelow(w.net.status)
          /\ w.net.status # "Ready"
      BY <3>1 DEF Unbuilt
    <3>3. QED
      BY <1>1, <2>2, <3>1, <3>2, FitsOutsideStop
  <2>3. CASE d.next = m
    BY <1>1, <2>3
  <2>4. QED
    BY <1>2, <2>1, <2>2, <2>3
<1> DEFINE v == Send(w, d)
<1>4. Coherent(v) /\ v.lifecycle.machine = d.next /\ SameBut(v, w)
  BY <1>1, <1>2, <1>3, SendKeeps
<1> HIDE DEF v
<1>5. Wakes(v)
  BY <1>2, <1>4 DEF Wakes, SameBut, Rejoins, Starts
<1>6. QED
  BY <1>4, <1>5 DEF v, d

\* The probe of a resume is reported to a machine that may not wait for it.
LEMMA ProbedKeeps ==
    ASSUME NEW w, Wakes(w), NEW healthy \in BOOLEAN,
           healthy => w.net.status = "Ready"
    PROVE  LET m == w.lifecycle.machine
               v == Send(w, IF healthy THEN OnLinkUp(m) ELSE OnProbeFailed(m))
           IN  Wakes(v) /\ SameBut(v, w)
<1> DEFINE m == w.lifecycle.machine
           d == IF healthy THEN OnLinkUp(m) ELSE OnProbeFailed(m)
           v == Send(w, d)
<1>1. /\ Coherent(w) /\ w \in Worlds /\ Good(m) /\ Fits(m, w)
      /\ w.lifecycle.gate = m.admission_open
  BY CoherentFacts DEF Wakes, Coherent
<1>2. CASE m.state = "Rejoining"
  <2>1. /\ Coherent(v) /\ SameBut(v, w)
        /\ \/ Serves(v.lifecycle.machine)
           \/ Rejoins(v.lifecycle.machine, "Apctl")
    BY <1>1, <1>2, LinkUpKeeps, ProbeFailedKeeps
  <2> HIDE DEF v
  <2>2. Wakes(v)
    BY <2>1 DEF Wakes, SameBut, Serves, Rejoins
  <2>3. QED
    BY <2>1, <2>2 DEF v, d, m
<1>3. CASE m.state # "Rejoining"
  <2>1. GateAgrees(m, d) /\ d.next = m
    BY <1>1, <1>3, LinkUpEffect, ProbeFailedEffect
  <2> HIDE DEF d
  <2>2. Coherent(v) /\ v.lifecycle.machine = m /\ SameBut(v, w)
    BY <1>1, <2>1, SendKeeps
  <2> HIDE DEF v
  <2>3. Wakes(v)
    BY <2>2 DEF Wakes, SameBut
  <2>4. QED
    BY <2>2, <2>3 DEF v, d, m
<1>4. QED
  BY <1>2, <1>3

\* psp_network_lifecycle_resume_result: the suspend is taken back over any
\* world it may have left.
LEMMA ResumeResultKeeps ==
    ASSUME NEW w, Coherent(w), "Shutdown" \notin w.lifecycle.requests,
           NEW retained \in BOOLEAN, NEW healthy \in BOOLEAN,
           healthy => w.net.status = "Ready",
           retained => ~w.lifecycle.quiesce_requested
    PROVE  LET v == ResumeResult(w, retained, healthy)
           IN  Wakes(v)
               /\ (retained => ~v.lifecycle.quiesce_requested)
<1> DEFINE cleared == IF retained /\ Wedged(w.lifecycle.machine)
                            /\ Quiesced(w)
                      THEN Send(w, OnLeasesReleased(w.lifecycle.machine))
                      ELSE w
           woken == Request(cleared, "Suspend", FALSE)
           probing == Send(woken, OnResume(woken.lifecycle.machine))
           m == probing.lifecycle.machine
           result == Send(probing, IF healthy THEN OnLinkUp(m)
                                              ELSE OnProbeFailed(m))
           v == ResumeResult(w, retained, healthy)
<1>1. v = IF ~retained \/ Wedged(cleared.lifecycle.machine)
          THEN woken ELSE result
  BY DEF ResumeResult, Wedged
<1>2. Coherent(cleared) /\ SameBut(cleared, w)
  <2>1. CASE retained /\ Wedged(w.lifecycle.machine) /\ Quiesced(w)
    BY <2>1, WedgeReleasedKeeps
  <2>2. CASE ~(retained /\ Wedged(w.lifecycle.machine) /\ Quiesced(w))
    BY <2>2 DEF SameBut
  <2>3. QED
    BY <2>1, <2>2
<1> HIDE DEF v, cleared
<1>3. Wakes(woken) /\ woken.net = w.net
      /\ (retained => ~woken.lifecycle.quiesce_requested)
  <2> DEFINE requests == After(cleared.lifecycle.requests, "Suspend", FALSE)
             kind == RequestTarget(requests).kind
  <2>1. /\ requests \in SUBSET Requesters /\ "Suspend" \notin requests
        /\ "Shutdown" \notin requests /\ "Suspend" \in Requesters
    BY <1>2, WorldFields DEF After, Coherent, SameBut, Requesters
  <2>2. kind # "Suspend"
    BY <2>1, RequestTargetFacts
  <2>3. SuspendIsPlain(cleared, kind)
    BY <2>2 DEF SuspendIsPlain
  <2>4. /\ Coherent(woken) /\ woken.lifecycle.requests = requests
        /\ woken.lifecycle.quiesce_requested
            = cleared.lifecycle.quiesce_requested
        /\ woken.net = cleared.net
        /\ TargetOutcome(cleared, kind, woken.lifecycle.machine)
    BY <1>2, <2>1, <2>3, RequestKeeps
  <2> HIDE DEF woken, requests, kind
  <2>5. QED
    BY <1>2, <2>1, <2>2, <2>4 DEF Wakes, SameBut, TargetOutcome
<1> HIDE DEF woken
<1>4. CASE ~retained \/ Wedged(cleared.lifecycle.machine)
  <2>1. v = woken
    BY <1>1, <1>4
  <2>2. QED
    BY <1>3, <2>1 DEF v
<1>5. CASE retained /\ ~Wedged(cleared.lifecycle.machine)
  <2>1. v = result
    BY <1>1, <1>5
  <2>2. Wakes(probing) /\ SameBut(probing, woken)
    BY <1>3, <1>5, ResumedKeeps
  <2> HIDE DEF probing
  <2>3. Wakes(result) /\ SameBut(result, probing)
    BY <1>3, <2>2, ProbedKeeps DEF SameBut
  <2> HIDE DEF result
  <2>4. QED
    BY <1>3, <1>5, <2>1, <2>2, <2>3 DEF SameBut, v
<1>6. QED
  BY <1>4, <1>5

LEMMA ResumeKeeps ==
    ASSUME IInv, Resume
    PROVE  IInv'
<1>1. /\ Coherent(World) /\ ThreadKnows(World, browser)
      /\ OnlyThere(World, browser)
      /\ browser \in Locations /\ browser.at = "Asleep"
      /\ World.net = net
  BY HereFacts DEF Resume, At, Placed
<1>2. "Shutdown" \notin World.lifecycle.requests
  BY <1>1 DEF OnlyThere, Halting
<1>3. CASE browser.then = "Off" /\ ToLoop(World)
  <2>1. browser = [at |-> "Asleep", then |-> "Off"]
    BY <1>1, <1>3 DEF Locations
  <2>2. Awake(World)
    BY <2>1, HereFacts, AwakeInPlaces
  <2>3. QED
    BY <1>3, <2>2, ToLoopKeeps
<1>4. CASE /\ browser.then = "Ready"
           /\ \E healthy \in BOOLEAN, which \in SUBSET Slots :
                /\ healthy => net.status = "Ready"
                /\ LET w == ResumeResult(World, TRUE, healthy)
                   IN  IF LifecycleReady(w) THEN ToLoop(w)
                       ELSE StartDial([w EXCEPT !.slots =
                                            CancelSlots(@, which)], "Resume")
  <2>1. PICK healthy \in BOOLEAN, which \in SUBSET Slots :
            /\ healthy => net.status = "Ready"
            /\ LET w == ResumeResult(World, TRUE, healthy)
               IN  IF LifecycleReady(w) THEN ToLoop(w)
                   ELSE StartDial([w EXCEPT !.slots =
                                        CancelSlots(@, which)], "Resume")
    BY <1>4
  <2> DEFINE w == ResumeResult(World, TRUE, healthy)
             v == [w EXCEPT !.slots = CancelSlots(@, which)]
  <2>2. ~World.lifecycle.quiesce_requested
    BY <1>1, <1>4 DEF ThreadKnows
  <2>3. Wakes(w) /\ ~w.lifecycle.quiesce_requested
    BY <1>1, <1>2, <2>1, <2>2, ResumeResultKeeps
  <2>4. \/ LifecycleReady(w) /\ ToLoop(w)
        \/ StartDial(v, "Resume")
    BY <2>1
  <2> HIDE DEF w
  <2>5. Wakes(v)
    BY <2>3, CancelledKeeps DEF Wakes
  <2> HIDE DEF v
  <2>6. LifecycleReady(w) => Awake(w)
    BY <2>3 DEF LifecycleReady, Awake, Settles
  <2>7. Rouses(v, "Resume") /\ "Resume" \in Callers
    BY <2>5 DEF Rouses, Callers
  <2>8. QED
    BY <2>4, <2>6, <2>7, ToLoopKeeps, StartDialKeeps
<1>5. CASE StartDial(ResumeResult(World, FALSE, FALSE), "Resume")
  <2> DEFINE w == ResumeResult(World, FALSE, FALSE)
  <2>1. Wakes(w)
    BY <1>1, <1>2, ResumeResultKeeps
  <2> HIDE DEF w
  <2>2. Rouses(w, "Resume") /\ "Resume" \in Callers
    BY <2>1 DEF Rouses, Callers
  <2>3. QED
    BY <1>5, <2>2, StartDialKeeps DEF w
<1>6. QED
  BY <1>3, <1>4, <1>5 DEF Resume
-----------------------------------------------------------------------------
(***************************************************************************)
(* The exit, the consumers and the workers.                                *)
(***************************************************************************)
LEMMA ExitKeeps ==
    ASSUME IInv, Exit
    PROVE  IInv'
<1> DEFINE s == [session EXCEPT !.cancel_pending = session.phase # "None"]
           v == [World EXCEPT !.slots = CancelSlots(@, Slots)]
           u == [v EXCEPT !.session = s]
           w == [World EXCEPT !.slots = CancelSlots(@, Slots),
                              !.session.cancel_pending = session.phase # "None"]
           b == [at |-> "Exiting", then |-> "Halted"]
<1>1. /\ Awake(World) /\ Coherent(World) /\ World \in Worlds
      /\ session \in Sessions /\ World.session = session
  BY HereFacts, StopFlagFacts DEF Exit, At, Coherent
<1>2. Awake(v) /\ Coherent(v)
  BY <1>1, CancelledKeeps
<1>3. v.session = session /\ v \in Worlds
  BY <1>1, <1>2 DEF Coherent, Worlds
<1>4. w = u
  BY <1>1 DEF Worlds, Sessions
<1>5. /\ s \in Sessions /\ s.network_stop = session.network_stop
      /\ s.phase = session.phase
  BY <1>1 DEF Sessions
<1> HIDE DEF s, v
<1>6. v.lifecycle.quiesce_requested => (SessionOwned(s) => s.network_stop)
  BY <1>2, <1>3, <1>5, StopFlagFacts DEF SessionOwned
<1>7. Awake(u)
  BY <1>2, <1>5, <1>6, SessionKeeps
<1>8. Become(w) /\ browser' = b
  BY DEF Exit, GoTo
<1>9. b \in Locations /\ b.at = "Exiting"
  BY DEF Locations, Places, Returns
<1> HIDE DEF u, w, b
<1>10. Placed(u, b) /\ Coherent(u)
  BY <1>7, <1>9, PlacesOfAwake DEF Awake, Settles, Wakes
<1>11. QED
  BY <1>4, <1>8, <1>10, ArrivalKeeps

LEMMA ExitSessionKeeps ==
    ASSUME IInv, ExitSession
    PROVE  IInv'
<1>1. Awake(World) /\ browser.at = "Exiting"
  BY HereFacts DEF ExitSession, At
<1>2. Awake(ReleaseSession(World))
  BY <1>1, ReleaseKeeps
<1>3. QED
  BY <1>1, <1>2, HereKeeps DEF ExitSession

LEMMA ExitTransportKeeps ==
    ASSUME IInv, ExitTransport
    PROVE  IInv'
<1> DEFINE v == [World EXCEPT !.slots = CancelSlots(@, Slots)]
           b == [at |-> "Quitting", then |-> "Halted"]
<1>1. Awake(World) /\ Coherent(World)
  BY HereFacts DEF ExitTransport, At
<1>2. Awake(v) /\ Coherent(v)
  BY <1>1, CancelledKeeps
<1>3. Become(v) /\ browser' = b
  BY DEF ExitTransport, GoTo
<1>4. b \in Locations /\ b.at = "Quitting"
  BY DEF Locations, Places, Returns
<1> HIDE DEF v, b
<1>5. Placed(v, b)
  BY <1>2, <1>4, PlacesOfAwake
<1>6. QED
  BY <1>2, <1>3, <1>5, ArrivalKeeps

LEMMA ExitStackKeeps ==
    ASSUME IInv, ExitStack
    PROVE  IInv'
<1> DEFINE b == [at |-> "Halted", then |-> "Halted"]
<1>1. Awake(World) /\ Coherent(World)
  BY HereFacts DEF ExitStack, At
<1>2. StartHalt(World) \/ (Become(World) /\ browser' = b)
  BY DEF ExitStack, GoTo
<1>3. b \in Locations /\ b.at = "Halted"
  BY DEF Locations, Places, Returns
<1> HIDE DEF b
<1>4. Placed(World, b)
  BY <1>1, <1>3, PlacesOfAwake
<1>5. QED
  BY <1>1, <1>2, <1>4, StartHaltKeeps, ArrivalKeeps

\* The lease table or the session moves, and nothing the browser thread
\* knows of the machine and the stack does.
LEMMA ElsewhereKeeps ==
    ASSUME IInv, UNCHANGED <<lifecycle, net, browser>>,
           slots' \in Tables, session' \in Sessions,
           \A i \in Slots : slots'[i] # "Free" => slots[i] # "Free",
           lifecycle.quiesce_requested =>
                /\ \A i \in Slots : slots'[i] \in {"Free", "Cancelling"}
                /\ SessionOwned(session') => session'.network_stop
    PROVE  IInv'
<1> DEFINE v == [lifecycle |-> lifecycle, net |-> net, slots |-> slots',
                 session |-> session']
<1>1. /\ Coherent(World) /\ Placed(World, browser) /\ World \in Worlds
      /\ World.lifecycle = lifecycle /\ World.net = net
      /\ World.slots = slots
      /\ lifecycle \in Lifecycles /\ net \in Nets
  BY HereFacts, WorldFields DEF Coherent
<1>2. World' = v
  BY DEF World
<1>3. /\ v \in Worlds /\ v.lifecycle = lifecycle /\ v.net = net
      /\ v.slots = slots' /\ v.session = session'
  BY <1>1 DEF Worlds
<1> HIDE DEF v
<1>4. QuiesceCovers(v)
  BY <1>3 DEF QuiesceCovers
<1>5. Coherent(v)
  BY <1>1, <1>3, <1>4, ReframeKeeps
<1>6. Placed(v, browser)
  BY <1>1, <1>3 DEF Placed, ThreadKnows, OnlyThere
<1>7. QED
  BY <1>2, <1>5, <1>6 DEF IInv

LEMMA TableFacts ==
    ASSUME IInv
    PROVE  /\ slots \in Tables /\ session \in Sessions
           /\ lifecycle.quiesce_requested =>
                /\ \A i \in Slots : slots[i] \in {"Free", "Cancelling"}
                /\ SessionOwned(session) => session.network_stop
BY HereFacts, CoherentFacts, WorldFields DEF Coherent, QuiesceCovers

\* One slot moves between two of its live states, or is freed.
LEMMA SlotMoves ==
    ASSUME IInv, NEW i \in Slots, slots[i] # "Free", NEW to \in SlotStates,
           lifecycle.quiesce_requested => to \in {"Free", "Cancelling"},
           slots' = [slots EXCEPT ![i] = to],
           UNCHANGED <<lifecycle, net, session, browser>>
    PROVE  IInv'
<1>1. slots \in Tables /\ session \in Sessions
  BY TableFacts
<1>2. /\ slots' \in Tables
      /\ \A j \in Slots : slots'[j] = IF j = i THEN to ELSE slots[j]
  BY <1>1 DEF Tables
<1>3. session' = session /\ UNCHANGED <<lifecycle, net, browser>>
  OBVIOUS
<1>4. lifecycle.quiesce_requested =>
        /\ \A j \in Slots : slots'[j] \in {"Free", "Cancelling"}
        /\ SessionOwned(session') => session'.network_stop
  BY <1>2, <1>3, TableFacts
<1>5. \A j \in Slots : slots'[j] # "Free" => slots[j] # "Free"
  BY <1>2
<1>6. QED
  BY <1>1, <1>2, <1>3, <1>4, <1>5, ElsewhereKeeps

LEMMA TransportKeeps ==
    ASSUME IInv, Transport
    PROVE  IInv'
<1>1. PICK i \in Slots : \/ Advance(i, "Queued", "Running")
                         \/ Advance(i, "Running", "Complete")
                         \/ Advance(i, "Cancelling", "Free")
  BY DEF Transport, StartTransfer, FinishTransfer, RetireTransfer
<1>2. ASSUME NEW from \in {"Queued", "Running", "Cancelling"},
             NEW to \in SlotStates, Advance(i, from, to),
             to # "Free" => from \in {"Queued", "Running"}
      PROVE  IInv'
  <2>1. /\ slots[i] = from /\ slots' = [slots EXCEPT ![i] = to]
        /\ UNCHANGED <<lifecycle, net, session, browser>>
    BY <1>2 DEF Advance
  <2>2. lifecycle.quiesce_requested => to \in {"Free", "Cancelling"}
    BY <1>2, <2>1, TableFacts
  <2>3. QED
    BY <1>2, <2>1, <2>2, SlotMoves
<1>3. QED
  BY <1>1, <1>2 DEF SlotStates

LEMMA TakeResultKeeps ==
    ASSUME IInv, TakeResult
    PROVE  IInv'
<1>1. PICK i \in Slots : /\ slots[i] = "Complete"
                         /\ slots' = [slots EXCEPT ![i] = "Free"]
  BY DEF TakeResult
<1>2. QED
  BY <1>1, SlotMoves DEF TakeResult, SlotStates

LEMMA CancelRequestKeeps ==
    ASSUME IInv, CancelRequest
    PROVE  IInv'
<1>1. PICK i \in Slots : slots' = CancelSlots(slots, {i})
  BY DEF CancelRequest
<1>2. UNCHANGED <<lifecycle, net, session, browser>>
  BY DEF CancelRequest
<1>3. slots \in Tables /\ session \in Sessions
  BY TableFacts
<1>4. /\ slots' \in Tables
      /\ \A j \in Slots : slots'[j] # "Free" => slots[j] # "Free"
      /\ \A j \in Slots : slots[j] \in {"Free", "Cancelling"} =>
            slots'[j] \in {"Free", "Cancelling"}
  BY <1>1, <1>3, CancelSlotsFacts
<1>5. lifecycle.quiesce_requested =>
        /\ \A j \in Slots : slots'[j] \in {"Free", "Cancelling"}
        /\ SessionOwned(session') => session'.network_stop
  BY <1>2, <1>4, TableFacts
<1>6. session' \in Sessions /\ UNCHANGED <<lifecycle, net, browser>>
  BY <1>2, <1>3
<1>7. QED
  BY <1>4, <1>5, <1>6, ElsewhereKeeps

LEMMA WorkerDoneKeeps ==
    ASSUME IInv, WorkerDone
    PROVE  IInv'
<1>1. /\ session.phase = "Running"
      /\ session' = [session EXCEPT !.phase = "Done"]
      /\ UNCHANGED <<lifecycle, net, slots, browser>>
  BY DEF WorkerDone
<1>2. slots \in Tables /\ session \in Sessions
  BY TableFacts
<1>3. /\ session' \in Sessions
      /\ session'.network_stop = session.network_stop
  BY <1>1, <1>2 DEF Sessions, SessionPhases
<1>4. lifecycle.quiesce_requested =>
        /\ \A j \in Slots : slots'[j] \in {"Free", "Cancelling"}
        /\ SessionOwned(session') => session'.network_stop
  BY <1>1, <1>3, TableFacts DEF SessionOwned
<1>5. /\ slots' \in Tables
      /\ \A j \in Slots : slots'[j] # "Free" => slots[j] # "Free"
      /\ UNCHANGED <<lifecycle, net, browser>>
  BY <1>1, <1>2
<1>6. QED
  BY <1>3, <1>4, <1>5, ElsewhereKeeps

\* The gate is only open over a serving stack that no stop has claimed.
LEMMA EnqueueKeeps ==
    ASSUME IInv, Enqueue
    PROVE  IInv'
<1> DEFINE m == lifecycle.machine
<1>1. PICK i \in Slots : slots[i] = "Free"
                         /\ slots' = [slots EXCEPT ![i] = "Queued"]
  BY DEF Enqueue
<1> DEFINE v == [lifecycle |-> lifecycle, net |-> net, slots |-> slots',
                 session |-> session]
<1>2. UNCHANGED <<lifecycle, net, session, browser>> /\ lifecycle.gate = TRUE
  BY HereFacts, WorldFields DEF Enqueue, Coherent
<1>3. /\ Coherent(World) /\ Placed(World, browser) /\ World \in Worlds
      /\ World.lifecycle = lifecycle /\ World.net = net
      /\ World.slots = slots /\ World.session = session
      /\ lifecycle \in Lifecycles /\ net \in Nets /\ slots \in Tables
      /\ session \in Sessions
  BY HereFacts, WorldFields DEF Coherent
<1>4. Good(m) /\ m.admission_open = TRUE /\ Fits(m, World)
      /\ lifecycle.gate = m.admission_open
  BY <1>2, <1>3, CoherentFacts DEF Coherent
<1>5. Serves(m)
  BY <1>4 DEF Good, Starts, Rests, Serves, Rejoins, Retains, Stops, Machine,
     States, Resting
<1>6. /\ lifecycle.shutdown = "Idle" /\ ~lifecycle.quiesce_requested
      /\ Serving(net)
  BY <1>3, <1>4, <1>5, CoherentFacts
     DEF Serves, Unwinds, InPhase, Wedged, Fits, StackFits
<1>7. World' = v
  BY <1>2 DEF World
<1>8. slots' \in Tables
  BY <1>1, <1>3 DEF Tables, SlotStates
<1>9. /\ v \in Worlds /\ v.lifecycle = lifecycle /\ v.net = net
      /\ v.slots = slots' /\ v.session = session
  BY <1>3, <1>8 DEF Worlds
<1> HIDE DEF v, m
<1>10. Fits(m, v)
  BY <1>5, <1>6, <1>9, FitsOutsideStop
<1>11. Coherent(v)
  BY <1>4, <1>9, <1>10 DEF Coherent, m
<1>12. Placed(v, browser)
  BY <1>3, <1>9 DEF Placed, ThreadKnows, OnlyThere
<1>13. QED
  BY <1>2, <1>7, <1>11, <1>12 DEF IInv

LEMMA OpenSessionKeeps ==
    ASSUME IInv, OpenSession
    PROVE  IInv'
<1> DEFINE s == [session EXCEPT !.phase = "Waiting", !.network_stop = FALSE]
           v == [World EXCEPT !.session = s]
           w == [World EXCEPT !.session.phase = "Waiting",
                              !.session.network_stop = FALSE]
<1>1. /\ Awake(World) /\ Coherent(World) /\ World \in Worlds
      /\ session \in Sessions /\ World.session = session
      /\ browser.at = "Loop"
  BY HereFacts, StopFlagFacts DEF OpenSession, At, Coherent
<1>2. w = v
  BY <1>1 DEF Worlds, Sessions
<1>3. s \in Sessions /\ ~SessionOwned(s)
  BY <1>1 DEF Sessions, SessionPhases, SessionOwned
<1> HIDE DEF s
<1>4. Awake(v) /\ Wakes(v)
  BY <1>1, <1>3, SessionKeeps DEF Awake, Settles
<1>5. Become(Request(w, "Multiplayer", TRUE)) /\ UNCHANGED browser
  BY DEF OpenSession
<1> HIDE DEF v, w
<1>6. Awake(Request(v, "Multiplayer", TRUE))
  BY <1>4, RequestWakes DEF Requesters
<1>7. QED
  BY <1>1, <1>2, <1>5, <1>6, HereKeeps

LEMMA CancelSessionKeeps ==
    ASSUME IInv, CancelSession
    PROVE  IInv'
<1> DEFINE s == [session EXCEPT !.cancel_pending = TRUE]
           v == [World EXCEPT !.session = s]
           w == [World EXCEPT !.session.cancel_pending = TRUE]
<1>1. /\ Awake(World) /\ Coherent(World) /\ World \in Worlds
      /\ session \in Sessions /\ World.session = session
      /\ browser.at = "Loop"
  BY HereFacts, StopFlagFacts DEF CancelSession, At, Coherent
<1>2. w = v
  BY <1>1 DEF Worlds, Sessions
<1>3. /\ s \in Sessions /\ s.network_stop = session.network_stop
      /\ s.phase = session.phase
  BY <1>1 DEF Sessions
<1> HIDE DEF s
<1>4. World.lifecycle.quiesce_requested =>
        (SessionOwned(s) => s.network_stop)
  BY <1>1, <1>3, StopFlagFacts DEF SessionOwned
<1>5. Awake(v)
  BY <1>1, <1>3, <1>4, SessionKeeps
<1>6. Become(ReleaseSession(w)) /\ UNCHANGED browser
  BY DEF CancelSession
<1> HIDE DEF v, w
<1>7. Awake(ReleaseSession(v))
  BY <1>5, ReleaseKeeps
<1>8. QED
  BY <1>1, <1>2, <1>6, <1>7, HereKeeps

LEMMA TakeCloseKeeps ==
    ASSUME IInv, TakeClose
    PROVE  IInv'
<1>1. Awake(World) /\ browser.at = "Loop"
  BY HereFacts DEF TakeClose, At
<1>2. Awake(ReleaseSession(World))
  BY <1>1, ReleaseKeeps
<1>3. QED
  BY <1>1, <1>2, HereKeeps DEF TakeClose

-----------------------------------------------------------------------------
(***************************************************************************)
(* The invariant holds of the first world and survives every step.         *)
(***************************************************************************)
LEMMA InitKeeps ==
    ASSUME Init
    PROVE  IInv
<1> DEFINE m == lifecycle.machine
<1>1. /\ m = InitialMachine /\ lifecycle.gate = FALSE
      /\ lifecycle.requests = {} /\ lifecycle.quiesce_requested = FALSE
      /\ lifecycle.shutdown = "Idle" /\ lifecycle.rejoin = "None"
      /\ lifecycle = [machine |-> m, gate |-> FALSE, requests |-> {},
                      quiesce_requested |-> FALSE, shutdown |-> "Idle",
                      rejoin |-> "None"]
  BY DEF Init
<1>2. /\ Rests(m) /\ m.state = "Off" /\ m.admission_open = FALSE
      /\ m.stopping_target = "None" /\ m \in Machine
  <2>1. Target("Off", "None", 0) \in Targets
    BY DEF Target, Targets
  <2>2. QED
    BY <1>1, <2>1, EnumFacts
       DEF InitialMachine, Machine, Rests, Childless, Resting
<1>3. /\ net \in Nets /\ Unbuilt(net)
  BY ActiveStatusFacts
     DEF Init, IdleNetwork, Nets, Unbuilt, ServicesBelow
<1>4. /\ slots \in Tables /\ \A i \in Slots : slots[i] = "Free"
  BY DEF Init, Tables, SlotStates
<1>5. session \in Sessions
  BY DEF Init, Sessions, SessionPhases
<1> HIDE DEF m
<1>6. lifecycle \in Lifecycles
  BY <1>1, <1>2 DEF Lifecycles, ShutdownPhases, RejoinServicePhases
<1>7. /\ World \in Worlds /\ World.lifecycle = lifecycle /\ World.net = net
      /\ World.slots = slots /\ World.session = session
  BY <1>3, <1>4, <1>5, <1>6 DEF World, Worlds
<1>8. Fits(m, World)
  BY <1>1, <1>2, <1>3, <1>4, <1>7, FitsOutsideStop DEF NoLease
<1>9. Coherent(World)
  BY <1>1, <1>2, <1>7, <1>8 DEF Coherent, m
<1>10. /\ browser = [at |-> "Boot", then |-> "Loop"]
       /\ browser \in [at : Places, then : Returns]
  BY DEF Init, Places, Returns
<1>11. Placed(World, browser)
  BY <1>1, <1>2, <1>7, <1>10
     DEF Placed, ThreadKnows, OnlyThere, Resting, InPhase, m
<1>12. QED
  BY <1>9, <1>11 DEF IInv

LEMMA StutterKeeps ==
    ASSUME IInv, UNCHANGED vars
    PROVE  IInv'
<1>1. World' = World /\ browser' = browser
  BY DEF vars, World
<1>2. QED
  BY <1>1 DEF IInv

LEMMA StepKeeps ==
    ASSUME IInv, [Next]_vars
    PROVE  IInv'
<1>1. CASE BootHome BY <1>1, BootHomeKeeps
<1>2. CASE BootOnline BY <1>2, BootOnlineKeeps
<1>3. CASE FramePump BY <1>3, FramePumpKeeps
<1>4. CASE Navigate BY <1>4, NavigateKeeps
<1>5. CASE ShutdownStep BY <1>5, ShutdownStepKeeps
<1>6. CASE RecoverStep BY <1>6, RecoverStepKeeps
<1>7. CASE RecoverEnd BY <1>7, RecoverEndKeeps
<1>8. CASE ConnectStep BY <1>8, ConnectStepKeeps
<1>9. CASE MediaConnect \/ OfflineOpen BY <1>9, DemandKeeps
<1>10. CASE VoiceReclaim BY <1>10, VoiceReclaimKeeps
<1>11. CASE Suspend BY <1>11, SuspendKeeps
<1>12. CASE Resume BY <1>12, ResumeKeeps
<1>13. CASE Exit BY <1>13, ExitKeeps
<1>14. CASE ExitSession BY <1>14, ExitSessionKeeps
<1>15. CASE ExitTransport BY <1>15, ExitTransportKeeps
<1>16. CASE ExitStack BY <1>16, ExitStackKeeps
<1>17. CASE Enqueue BY <1>17, EnqueueKeeps
<1>18. CASE TakeResult BY <1>18, TakeResultKeeps
<1>19. CASE CancelRequest BY <1>19, CancelRequestKeeps
<1>20. CASE OpenSession BY <1>20, OpenSessionKeeps
<1>21. CASE CancelSession BY <1>21, CancelSessionKeeps
<1>22. CASE TakeClose BY <1>22, TakeCloseKeeps
<1>23. CASE Transport BY <1>23, TransportKeeps
<1>24. CASE WorkerDone BY <1>24, WorkerDoneKeeps
<1>25. CASE UNCHANGED vars BY <1>25, StutterKeeps
<1>26. QED
  BY <1>1, <1>2, <1>3, <1>4, <1>5, <1>6, <1>7, <1>8, <1>9, <1>10, <1>11,
     <1>12, <1>13, <1>14, <1>15, <1>16, <1>17, <1>18, <1>19, <1>20, <1>21,
     <1>22, <1>23, <1>24, <1>25 DEF Next

-----------------------------------------------------------------------------
(***************************************************************************)
(* The theorems.                                                           *)
(***************************************************************************)
\* In every reachable state the machine fits the stack, the leases, the
\* unwind and the quiesce, and the browser thread is where they allow it
\* (psp_network_lifecycle.c and its callers in psp_app_network.c).
THEOREM InvariantHolds == Spec => []IInv
<1>1. IInv /\ [Next]_vars => IInv'
  BY StepKeeps
<1>2. QED
  BY <1>1, InitKeeps, PTL DEF Spec

\* Every variable keeps its type, whatever the firmware, the user, the page
\* and the two workers do.
THEOREM TypesHold == Spec => []TypeOK
<1>1. IInv => TypeOK
  <2> SUFFICES ASSUME IInv PROVE TypeOK
    OBVIOUS
  <2>1. /\ lifecycle \in Lifecycles /\ net \in Nets
        /\ slots \in Tables /\ session \in Sessions
    BY HereFacts, WorldFields DEF Coherent
  <2>2. browser \in Locations
    BY HereFacts
  <2>3. QED
    BY <2>1, <2>2
       DEF TypeOK, Lifecycles, Nets, Tables, Sessions, Locations
<1>2. QED
  BY <1>1, InvariantHolds, PTL

\* What the machine, the gate and a Starting ladder believe of the services
\* is true of them, although the ladder, the unwind and a suspend move them
\* outside the reducer: no ladder begins over services another one brought
\* up, and nothing is admitted to a stack that is not serving.
THEOREM BeliefsAreTrue == Spec => []BeliefIsTrue
<1>1. IInv => BeliefIsTrue
  <2> SUFFICES ASSUME IInv PROVE BeliefIsTrue
    OBVIOUS
  <2> DEFINE m == lifecycle.machine
  <2>1. /\ Good(m) /\ StackFits(m, net) /\ lifecycle.gate = m.admission_open
    BY HereFacts DEF Coherent, Fits
  <2>2. MachineKnowsStack
    BY <2>1 DEF MachineKnowsStack, StackFits, Unbuilt, Serving
  <2>3. m.admission_open = TRUE => m.state = "Ready"
    BY <2>1 DEF Good, Starts, Rests, Rejoins, Retains, Stops, Machine,
       States, Resting
  <2>4. AdmissionOverFullStack
    BY <2>1, <2>3 DEF AdmissionOverFullStack, StackFits, Serving
  <2>5. LadderMatchesServices
    BY <2>1 DEF LadderMatchesServices, StackFits
  <2>6. QED
    BY <2>2, <2>4, <2>5 DEF BeliefIsTrue
<1>2. QED
  BY <1>1, InvariantHolds, PTL

\* No service is missing under a transfer that is still in curl or in the
\* resolver, cancelled or not: every drain waits for it, a timed-out one
\* leaves the stack to it, and no other path takes a service down.
THEOREM TransfersOwnStack == Spec => []TransferOwnsStack
<1>1. IInv => TransferOwnsStack
  BY HereFacts
     DEF Coherent, Fits, LeasesFit, Serving, TransferOwnsStack
<1>2. QED
  BY <1>1, InvariantHolds, PTL

\* The foreground ladder of psp_connect_network_prepared runs for a Starting
\* machine only, so its verdict is never reported to one that ignores it.
THEOREM ForegroundLadderOwned == Spec => []ForegroundLadderIsOwned
<1>1. IInv => ForegroundLadderIsOwned
  BY HereFacts DEF Placed, ThreadKnows, ForegroundLadderIsOwned, At
<1>2. QED
  BY <1>1, InvariantHolds, PTL

\* A stop that believes its quiesce requested has every live operation told
\* to stop: nothing was admitted, queued or started after it, and the
\* multiplayer worker has its flag.
THEOREM QuiesceCovered == Spec => []QuiesceCoversAll
<1>1. IInv => QuiesceCoversAll
  BY TableFacts DEF QuiesceCoversAll
<1>2. QED
  BY <1>1, InvariantHolds, PTL

=============================================================================
