---------------------------- MODULE MediaReducer ----------------------------
(***************************************************************************)
(* The control model of the media session (src/src/psp_media_state.c): a   *)
(* pure function from a machine and one event to the next machine and at   *)
(* most one command.  The decision owns no resource; MediaSession is the   *)
(* driver that does.  What no transition reads is left out: the kind of    *)
(* the failure, the seek generation, and the ended and preview flags.      *)
(***************************************************************************)
EXTENDS Naturals

Active == {"Priming", "Playing", "Paused", "Buffering", "Seeking",
           "Recovering"}
States == Active \cup {"Idle", "Opening", "Dormant", "Quiescing",
                       "Suspended", "Failed"}
OpeningPhases == {"Resolving", "VideoRange", "VideoDemux", "VideoPrime",
                  "AudioRange", "AudioDemux", "DecoderPrepare",
                  "PlaybackCreate"}
ChildPhases ==
    [Opening |-> OpeningPhases,
     Priming |-> {"Feeding", "WaitingForSource"},
     Seeking |-> {"Preparing", "WaitingForSource"},
     Quiescing |-> {"StopAdmission", "CancelTransport", "Backend"}]
QuiesceTargets == {"None", "Idle", "Opening", "Suspended", "Failed"}
Pipelines == {"None", "Partial", "Full"}
Readinesses == {"Ready", "NeedsPrime", "NeedsSource"}
Commands == {"None", "StartOpenPhase", "StartPriming", "StartSeek",
             "StartRecovery", "StopAdmission", "CancelTransport",
             "QuiesceBackend"}

\* At most one child phase is ever set, so one field stands for the four.
Machine ==
    [state : States,
     phase : (UNION {ChildPhases[s] : s \in DOMAIN ChildPhases})
                 \cup {"None"},
     quiesce_target : QuiesceTargets, pipeline : Pipelines,
     quarantined : BOOLEAN, resume_playing : BOOLEAN,
     readiness : Readinesses,
     suspended_resume_state : {"Idle", "Opening", "Failed"},
     has_plan : BOOLEAN, has_separate_audio : BOOLEAN, audio_only : BOOLEAN,
     pending_seek : BOOLEAN, pause_after_frame : BOOLEAN]

InitialMachine ==
    [state |-> "Idle", phase |-> "None", quiesce_target |-> "None",
     pipeline |-> "None", quarantined |-> FALSE, resume_playing |-> FALSE,
     readiness |-> "NeedsSource",
     suspended_resume_state |-> "Idle", has_plan |-> FALSE,
     has_separate_audio |-> FALSE, audio_only |-> FALSE,
     pending_seek |-> FALSE, pause_after_frame |-> FALSE]

\* An event; epoch 0 marks one that answers no command.
Event(type) ==
    [type |-> type, autoplay |-> FALSE, resume_playing |-> FALSE,
     has_separate_audio |-> FALSE, audio_only |-> FALSE,
     retain_pipeline |-> FALSE, reuse_pipeline |-> FALSE,
     readiness |-> "Ready", service_command |-> "None", service_epoch |-> 0]

-----------------------------------------------------------------------------
(***************************************************************************)
(* Decisions and the helpers that enter a state.                           *)
(***************************************************************************)
Decide(m, command) == [next |-> m, command |-> command]
Quiet(m) == Decide(m, "None")

Enter(m, state, phase) ==
    [m EXCEPT !.state = state, !.phase = phase, !.quiesce_target = "None"]

EnterPriming(m) ==
    Decide([Enter(m, "Priming", "Feeding") EXCEPT !.readiness = "NeedsPrime"],
           "StartPriming")

EnterSeeking(m) ==
    Decide([Enter(m, "Seeking", "Preparing") EXCEPT !.pending_seek = FALSE],
           "StartSeek")

EnterRecovering(m) == Decide(Enter(m, "Recovering", "None"), "StartRecovery")

EnterQuiescing(m, target) ==
    Decide([Enter(m, "Quiescing", "StopAdmission") EXCEPT
                !.quiesce_target = target, !.pause_after_frame = FALSE,
                !.suspended_resume_state =
                    IF target = "Suspended" THEN "Opening" ELSE @],
           "StopAdmission")

EnterOpening(m) ==
    Decide([Enter(m, "Opening", "Resolving") EXCEPT
                !.pipeline = "None", !.pending_seek = FALSE,
                !.pause_after_frame = FALSE],
           "StartOpenPhase")

\* What an OPEN carries into the plan.
Planned(m, e) ==
    [m EXCEPT !.has_separate_audio = e.has_separate_audio,
              !.audio_only = e.audio_only, !.resume_playing = e.autoplay]

\* The plan is forgotten on the way to Idle.
Forgotten(m) ==
    [Enter(m, "Idle", "None") EXCEPT
        !.has_plan = FALSE, !.has_separate_audio = FALSE,
        !.audio_only = FALSE]

Cleared(m) == [Forgotten(m) EXCEPT !.pause_after_frame = FALSE]

\* Playing or Paused, as the plan wants.
Presenting(m) ==
    Enter(m, IF m.resume_playing THEN "Playing" ELSE "Paused", "None")

-----------------------------------------------------------------------------
(***************************************************************************)
(* The opening chart: the phase that follows the one just completed.       *)
(***************************************************************************)
NextOpeningPhase(m) ==
    CASE m.phase = "Resolving" -> "DecoderPrepare"
      [] m.phase = "DecoderPrepare" ->
             IF m.audio_only THEN "AudioRange" ELSE "VideoRange"
      [] m.phase = "VideoRange" -> "VideoDemux"
      [] m.phase = "VideoDemux" -> "VideoPrime"
      [] m.phase = "VideoPrime" ->
             IF m.has_separate_audio THEN "AudioRange" ELSE "PlaybackCreate"
      [] m.phase = "AudioRange" -> "AudioDemux"
      [] m.phase = "AudioDemux" -> "PlaybackCreate"

OpenPhaseComplete(m, e) ==
    IF m.phase = "PlaybackCreate"
    THEN EnterPriming([m EXCEPT !.pipeline = "Full"])
    ELSE Decide([m EXCEPT
                    !.phase = NextOpeningPhase(m),
                    !.pipeline = IF m.phase \in {"VideoRange", "AudioRange"}
                                 THEN "Partial" ELSE @,
                    !.has_separate_audio =
                        IF m.phase = "Resolving" THEN e.has_separate_audio
                        ELSE @,
                    !.audio_only =
                        IF m.phase = "Resolving" THEN e.audio_only ELSE @],
                "StartOpenPhase")

OnIdle(m, e) ==
    CASE e.type = "Open" ->
             LET planned == [Planned(m, e) EXCEPT !.has_plan = TRUE]
             IN  IF m.quarantined
                 THEN Quiet([planned EXCEPT !.state = "Failed"])
                 ELSE EnterOpening(planned)
      [] e.type = "Suspend" ->
             Quiet([m EXCEPT !.state = "Suspended",
                             !.suspended_resume_state = "Idle"])
      [] e.type = "PlaybackFailed" ->
             EnterQuiescing([m EXCEPT !.has_plan = TRUE], "Failed")
      [] OTHER -> Quiet(m)

OnOpening(m, e) ==
    CASE e.type = "Open" ->
             EnterOpening([Planned(m, e) EXCEPT !.has_plan = TRUE])
      [] e.type = "OpenPhaseComplete" -> OpenPhaseComplete(m, e)
      [] e.type = "OpenFailed" -> EnterQuiescing(m, "Failed")
      [] e.type = "PlaybackFailed" -> EnterQuiescing(m, "Failed")
      [] e.type = "Play" -> Quiet([m EXCEPT !.resume_playing = TRUE])
      [] e.type = "Pause" -> Quiet([m EXCEPT !.resume_playing = FALSE])
      [] e.type = "Close" -> EnterQuiescing(m, "Idle")
      [] e.type = "Suspend" -> EnterQuiescing(m, "Suspended")
      [] OTHER -> Quiet(m)

OnPaused(m, e) ==
    CASE e.type = "Play" ->
             LET ready == [m EXCEPT !.resume_playing = TRUE,
                                    !.readiness = e.readiness]
             IN  (CASE e.readiness = "Ready" ->
                           Quiet([ready EXCEPT !.state = "Playing"])
                    [] e.readiness = "NeedsSource" ->
                           Quiet([ready EXCEPT !.state = "Buffering"])
                    [] e.readiness = "NeedsPrime" -> EnterPriming(ready))
      [] e.type = "SourceStarved" ->
             Quiet([m EXCEPT !.readiness = "NeedsSource"])
      [] e.type = "BufferStable" -> Quiet([m EXCEPT !.readiness = e.readiness])
      [] OTHER -> Quiet(m)

OnPriming(m, e) ==
    CASE e.type = "Play" ->
             Quiet([m EXCEPT !.resume_playing = TRUE,
                             !.pause_after_frame = FALSE])
      [] e.type = "Pause" -> Quiet([m EXCEPT !.resume_playing = FALSE])
      [] e.type = "SourceStarved" ->
             Quiet([m EXCEPT !.phase = "WaitingForSource",
                             !.readiness = "NeedsSource"])
      [] e.type \in {"SourceAvailable", "BufferStable"} ->
             Quiet([m EXCEPT !.phase = "Feeding",
                             !.readiness = "NeedsPrime"])
      [] e.type = "PrimeReady" ->
             IF m.phase = "WaitingForSource" \/ m.readiness = "NeedsSource"
             THEN Quiet([Enter(m, "Buffering", "None") EXCEPT
                             !.readiness = "NeedsSource"])
             ELSE Quiet([Presenting(m) EXCEPT !.readiness = "Ready"])
      [] OTHER -> Quiet(m)

OnPlaying(m, e) ==
    CASE e.type = "Pause" ->
             Quiet([m EXCEPT !.state = "Paused", !.resume_playing = FALSE])
      [] e.type = "SourceStarved" ->
             Quiet([m EXCEPT !.state = "Buffering",
                             !.readiness = "NeedsSource"])
      [] OTHER -> Quiet(m)

OnBuffering(m, e) ==
    CASE e.type = "Play" -> Quiet([m EXCEPT !.resume_playing = TRUE])
      [] e.type = "Pause" ->
             Quiet([m EXCEPT !.state = "Paused", !.resume_playing = FALSE])
      [] e.type = "BufferStable" ->
             LET settled == [m EXCEPT !.readiness = e.readiness]
             IN  (CASE e.readiness = "Ready" -> Quiet(Presenting(settled))
                    [] e.readiness = "NeedsPrime" -> EnterPriming(settled)
                    [] e.readiness = "NeedsSource" -> Quiet(settled))
      [] OTHER -> Quiet(m)

OnSeeking(m, e) ==
    CASE e.type = "Play" -> Quiet([m EXCEPT !.resume_playing = TRUE])
      [] e.type = "Pause" -> Quiet([m EXCEPT !.resume_playing = FALSE])
      [] e.type = "Seek" -> EnterSeeking(m)
      [] e.type = "SourceStarved" ->
             Quiet([m EXCEPT !.phase = "WaitingForSource"])
      [] e.type = "SourceAvailable" -> Quiet([m EXCEPT !.phase = "Preparing"])
      [] e.type = "SeekComplete" -> EnterPriming(m)
      [] e.type = "SeekFailed" -> EnterQuiescing(m, "Failed")
      [] OTHER -> Quiet(m)

OnRecovering(m, e) ==
    CASE e.type = "Play" -> Quiet([m EXCEPT !.resume_playing = TRUE])
      [] e.type = "Pause" -> Quiet([m EXCEPT !.resume_playing = FALSE])
      [] e.type = "Seek" -> Quiet([m EXCEPT !.pending_seek = TRUE])
      [] e.type = "RecoveryComplete" ->
             IF m.pending_seek THEN EnterSeeking(m) ELSE EnterPriming(m)
      [] e.type = "RecoveryFailed" -> EnterQuiescing(m, "Failed")
      [] OTHER -> Quiet(m)

\* The last picture stays on the screen, paused.
Rested(m) ==
    [Enter(m, "Paused", "None") EXCEPT
        !.resume_playing = FALSE, !.pause_after_frame = FALSE,
        !.readiness = "Ready"]

\* Events every active state answers alike, before its own.
OnActive(m, e) ==
    LET sought == IF e.type = "Seek"
                  THEN [m EXCEPT !.resume_playing = e.resume_playing] ELSE m
    IN
    CASE e.type = "PauseAfterFrame" ->
             Quiet([m EXCEPT !.pause_after_frame = TRUE])
      [] e.type = "FrameDisplayed" ->
             Quiet(IF m.pause_after_frame THEN Rested(m) ELSE m)
      [] e.type = "PlaybackEnded" -> Quiet(Rested(m))
      [] e.type = "Close" /\ e.retain_pipeline ->
             Quiet([Enter(m, "Dormant", "None") EXCEPT
                        !.resume_playing = FALSE])
      [] e.type = "Close" /\ ~e.retain_pipeline ->
             EnterQuiescing(m, "Idle")
      [] e.type = "Suspend" -> EnterQuiescing(m, "Suspended")
      [] e.type = "PlaybackFailed" -> EnterQuiescing(m, "Failed")
      [] e.type = "Seek" /\ m.state \notin {"Seeking", "Recovering"} ->
             EnterSeeking(sought)
      [] e.type = "DecoderRefused" /\ m.state # "Recovering" ->
             EnterRecovering(m)
      [] OTHER ->
             CASE m.state = "Priming" -> OnPriming(m, e)
               [] m.state = "Playing" -> OnPlaying(m, e)
               [] m.state = "Paused" -> OnPaused(m, e)
               [] m.state = "Buffering" -> OnBuffering(m, e)
               [] m.state = "Seeking" -> OnSeeking(sought, e)
               [] m.state = "Recovering" -> OnRecovering(sought, e)

FinishQuiescing(m) ==
    LET rest == [m EXCEPT !.pipeline = "None", !.pending_seek = FALSE]
    IN  CASE m.quiesce_target = "Idle" -> Quiet(Cleared(rest))
          [] m.quiesce_target = "Opening" -> EnterOpening(rest)
          [] m.quiesce_target = "Suspended" ->
                 Quiet([Enter(rest, "Suspended", "None") EXCEPT
                            !.suspended_resume_state =
                                IF m.quarantined THEN "Failed" ELSE @])
          [] m.quiesce_target = "Failed" ->
                 Quiet(Enter(rest, "Failed", "None"))

OnDormant(m, e) ==
    CASE e.type = "Open" /\ e.reuse_pipeline ->
             Quiet([Planned(m, e) EXCEPT !.state = "Paused",
                                         !.readiness = "Ready"])
      [] e.type = "Open" /\ ~e.reuse_pipeline ->
             EnterQuiescing(Planned(m, e), "Opening")
      [] \/ e.type = "Reclaim"
         \/ e.type = "Close" /\ ~e.retain_pipeline ->
             EnterQuiescing(m, "Idle")
      [] e.type = "Suspend" -> EnterQuiescing(m, "Suspended")
      [] e.type = "PlaybackFailed" -> EnterQuiescing(m, "Failed")
      [] OTHER -> Quiet(m)

OnQuiescing(m, e) ==
    CASE e.type = "AdmissionStopped" /\ m.phase = "StopAdmission" ->
             Decide([m EXCEPT !.phase = "CancelTransport"], "CancelTransport")
      [] e.type = "TransportCancelled" /\ m.phase = "CancelTransport" ->
             Decide([m EXCEPT !.phase = "Backend"], "QuiesceBackend")
      [] e.type = "BackendQuiesced" /\ m.phase = "Backend" ->
             FinishQuiescing(m)
      [] e.type = "BackendQuarantined" /\ m.phase = "Backend" ->
             FinishQuiescing([m EXCEPT !.quarantined = TRUE])
      [] e.type = "Suspend" -> Quiet([m EXCEPT !.quiesce_target = "Suspended"])
      [] e.type = "PlaybackFailed" ->
             Quiet([m EXCEPT !.quiesce_target = "Failed"])
      [] e.type = "Close" /\ m.quiesce_target # "Suspended" ->
             Quiet([m EXCEPT !.quiesce_target = "Idle"])
      [] OTHER -> Quiet(m)

OnSuspended(m, e) ==
    CASE e.type = "Resume" /\ m.suspended_resume_state = "Failed" ->
             Quiet([m EXCEPT !.state = "Failed"])
      [] e.type = "Resume" /\ m.suspended_resume_state # "Failed" ->
             IF m.has_plan THEN EnterOpening(m)
             ELSE Quiet([m EXCEPT !.state = "Idle"])
      [] e.type = "Close" -> Quiet(Forgotten(m))
      [] OTHER -> Quiet(m)

OnFailed(m, e) ==
    CASE e.type = "Retry" /\ ~m.quarantined -> EnterOpening(m)
      [] e.type = "Close" -> Quiet(Cleared(m))
      [] e.type = "Suspend" ->
             Quiet([m EXCEPT !.state = "Suspended",
                             !.suspended_resume_state = "Failed"])
      [] OTHER -> Quiet(m)

\* psp_media_machine_transition: total; an inapplicable event is a no-op.
Transition(m, e) ==
    CASE m.state \in Active -> OnActive(m, e)
      [] m.state = "Idle" -> OnIdle(m, e)
      [] m.state = "Opening" -> OnOpening(m, e)
      [] m.state = "Dormant" -> OnDormant(m, e)
      [] m.state = "Quiescing" -> OnQuiescing(m, e)
      [] m.state = "Suspended" -> OnSuspended(m, e)
      [] m.state = "Failed" -> OnFailed(m, e)

-----------------------------------------------------------------------------
(***************************************************************************)
(* psp_media_machine_violations: what a machine at rest must satisfy.      *)
(***************************************************************************)
PipelineFits(m) ==
    CASE m.state \in {"Idle", "Suspended", "Failed"} -> m.pipeline = "None"
      [] m.state \in Active \cup {"Dormant"} -> m.pipeline = "Full"
      [] OTHER -> TRUE

ChildFits(m) ==
    /\ IF m.state \in DOMAIN ChildPhases
       THEN m.phase \in ChildPhases[m.state] ELSE m.phase = "None"
    /\ (m.state = "Quiescing") = (m.quiesce_target # "None")

PlanFits(m) ==
    \/ m.has_plan
    \/ m.state = "Idle"
    \/ m.state = "Quiescing" /\ m.quiesce_target = "Idle"
    \/ m.state = "Suspended" /\ m.suspended_resume_state = "Idle"

BackendFits(m) ==
    m.quarantined => m.state \notin Active \cup {"Opening", "Dormant"}

Consistent(m) ==
    PipelineFits(m) /\ ChildFits(m) /\ PlanFits(m) /\ BackendFits(m)
=============================================================================
