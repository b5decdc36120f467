---------------------------- MODULE UpdateState ----------------------------
(***************************************************************************)
(* The updater's record of slots and trials, and the pure transitions of   *)
(* update_state.c.  A release is its sequence number; one package exists   *)
(* per sequence, so the package digests that travel with the numbers are   *)
(* left out.  The C functions return false and change nothing where Can... *)
(* is false here.                                                          *)
(***************************************************************************)
EXTENDS Integers

CONSTANTS
    Releases,           \* the signed release sequences
    DeveloperSequence,  \* TILEFINCH_UPDATE_DEVELOPER_SEQUENCE, above all others
    MaxGeneration       \* UINT64_MAX, made small

ASSUME UpdateAssumption ==
    /\ Releases \subseteq Nat \ {0}
    /\ DeveloperSequence \in Nat
    /\ \A r \in Releases : r < DeveloperSequence
    /\ MaxGeneration \in Nat \ {0}

Images == Releases \cup {DeveloperSequence}

SlotNames == {"A", "B"}

Other(slot) == IF slot = "A" THEN "B" ELSE "A"

Trials == {"None", "Pending", "Started"}

Records ==
    [generation : 0..MaxGeneration,
     active : SlotNames,
     previous : SlotNames \cup {"None"},
     pending : SlotNames \cup {"None"},
     trial : Trials,
     installed : Releases \cup {0},
     candidate : Images \cup {0},
     downgrade : BOOLEAN]

\* tilefinch_update_state_encode refuses any other record, and
\* tilefinch_update_state_decode any other bytes.
Encodable(s) ==
    /\ (s.pending = "None") <=> (s.trial = "None")
    /\ s.downgrade =>
        /\ s.pending # "None"
        /\ s.candidate # DeveloperSequence
        /\ s.candidate < s.installed

\* The state of an installation that has no readable journal.
DefaultState(active, sequence) ==
    [generation |-> 1, active |-> active, previous |-> "None",
     pending |-> "None", trial |-> "None", installed |-> sequence,
     candidate |-> 0, downgrade |-> FALSE]

-----------------------------------------------------------------------------
CanStartTrial(s) ==
    s.trial = "Pending" /\ s.pending # "None" /\ s.generation < MaxGeneration

\* Mutation: the record goes on saying that the trial is pending.
StartTrialUnrecorded(s) ==
    [s EXCEPT !.generation = @ + 1, !.downgrade = FALSE]

StartTrial(s) ==
    [s EXCEPT !.generation = @ + 1, !.trial = "Started", !.downgrade = FALSE]

CanRetryTrial(s) ==
    s.trial = "Started" /\ s.pending # "None" /\ s.generation < MaxGeneration

RetryTrial(s) ==
    [s EXCEPT !.generation = @ + 1, !.trial = "Pending",
              !.downgrade = /\ s.candidate # DeveloperSequence
                            /\ s.candidate < s.installed]

CanDiscardTrial(s) == s.pending # "None" /\ s.generation < MaxGeneration

DiscardTrial(s) ==
    [s EXCEPT !.generation = @ + 1, !.pending = "None", !.trial = "None",
              !.candidate = 0, !.downgrade = FALSE]

CanConfirmHealthy(s) ==
    s.trial = "Started" /\ s.pending # "None" /\ s.generation < MaxGeneration

\* Mutation: a Developer build moves the signed floor.
ConfirmHealthyAnyFloor(s) ==
    [s EXCEPT !.generation = @ + 1, !.active = s.pending,
              !.installed = IF s.candidate \in Releases THEN s.candidate ELSE 0,
              !.previous = s.active, !.pending = "None", !.trial = "None",
              !.candidate = 0, !.downgrade = FALSE]

ConfirmHealthy(s) ==
    [s EXCEPT !.generation = @ + 1, !.active = s.pending,
              !.installed = IF s.candidate # DeveloperSequence
                            THEN s.candidate ELSE @,
              !.previous = s.active, !.pending = "None", !.trial = "None",
              !.candidate = 0, !.downgrade = FALSE]

CanRaiseInstalledFloor(s, running, sequence) ==
    /\ s.active = running
    /\ s.trial = "None" /\ s.pending = "None"
    /\ sequence > s.installed
    /\ s.generation < MaxGeneration

RaiseInstalledFloor(s, sequence) ==
    [s EXCEPT !.generation = @ + 1, !.installed = sequence]

-----------------------------------------------------------------------------
\* tilefinch_update_boot_decide: what to start and from which slot.
Boot(action, slot) == [action |-> action, slot |-> slot]

BootDecide(s, recovery_button, pending_slot_verified) ==
    CASE recovery_button /\ s.previous # "None" -> Boot("Previous", s.previous)
      [] OTHER ->
            CASE s.trial = "Started" -> Boot("Recovery", s.active)
              [] s.trial = "Pending" /\ pending_slot_verified ->
                    Boot("StartTrial", s.pending)
              [] s.trial = "Pending" /\ ~pending_slot_verified ->
                    Boot("Recovery", s.active)
              [] s.trial = "None" -> Boot("Active", s.active)
=============================================================================
