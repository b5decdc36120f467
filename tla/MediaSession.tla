---------------------------- MODULE MediaSession ----------------------------
(***************************************************************************)
(* The media session driver (src/src/psp_media_session.c, psp_media_open.c,*)
(* psp_media_retry.c, psp_media_seek.c, psp_media_buffering.c): it owns    *)
(* the ranges, demuxers and playback that MediaReducer only talks about,   *)
(* runs the open and the seek in bounded units, one per frame, and reports *)
(* their completion to the reducer.                                        *)
(*                                                                         *)
(* Two machines must agree: the reducer's chart and the physical job.  The *)
(* token (command, epoch) ties a completion to the command it answers.     *)
(***************************************************************************)
EXTENDS MediaReducer, Sequences

CONSTANTS
    MaxAttempts,     \* PSP_MEDIA_TRANSPORT_REFRESH_MAXIMUM_ATTEMPTS
    MaxCandidates    \* further renditions a page may offer

ASSUME SessionAssumption == MaxAttempts \in Nat /\ MaxCandidates \in Nat

VARIABLES
    media,   \* PspMediaSession, with the codec's health
    moved    \* who moved the session last; no step reads it

vars == <<media, moved>>
Movers == {"Open", "Seek", "Frame", "Request", "Nobody"}

OpenJobs == {"Resolve", "DecoderPrepare", "VideoRange", "VideoDemux",
             "VideoPrime", "AudioRange", "AudioDemux", "Playback"}

\* A provider's video, a saved one, or one a page plays by itself.
Sources == {"Provider", "Saved", "Page"}

Session ==
    [machine : Machine, command : Commands, epoch : 0..1,
     owned : Pipelines,                  \* psp_media_owned_pipeline
     job : OpenJobs \cup {"None", "Seek"},
     open_service_pending : BOOLEAN,
     source : Sources \cup {"None"},
     audio_only : BOOLEAN, hls : BOOLEAN, split_streams : BOOLEAN,
     visible : BOOLEAN, failed : BOOLEAN, system_suspended : BOOLEAN,
     attempts : 0..MaxAttempts,          \* transport_reresolve_attempts
     quality_fallback : BOOLEAN,         \* quality_fallback_attempted
     candidates : 0..MaxCandidates,      \* page_candidates not yet tried
     pause_boundary : BOOLEAN,           \* pause_boundary_pending
     buffering_service : BOOLEAN,        \* buffering_service_active
     codec_stuck : BOOLEAN]              \* media_psp_backend_quarantined

InitialSession ==
    [machine |-> InitialMachine, command |-> "None", epoch |-> 0,
     owned |-> "None", job |-> "None", open_service_pending |-> FALSE,
     source |-> "None", audio_only |-> FALSE, hls |-> FALSE,
     split_streams |-> FALSE, visible |-> FALSE, failed |-> FALSE,
     system_suspended |-> FALSE, attempts |-> 0, quality_fallback |-> FALSE,
     candidates |-> 0, pause_boundary |-> FALSE,
     buffering_service |-> FALSE, codec_stuck |-> FALSE]

Init == media = InitialSession /\ moved = "Nobody"

-----------------------------------------------------------------------------
(***************************************************************************)
(* Dispatch.  A completion carries the current token, if a command is out; *)
(* one whose token is no longer current is dropped.                        *)
(***************************************************************************)
Completion(s, type) ==
    IF s.command = "None" THEN Event(type)
    ELSE [Event(type) EXCEPT !.service_command = s.command,
                             !.service_epoch = s.epoch]

Stale(s, e) ==
    /\ e.service_epoch # 0
    /\ \/ e.service_epoch # s.epoch
       \/ e.service_command # s.command

\* The projection shows the player while the pipeline is active.
Projected(s) ==
    IF s.machine.state \in Active \cup {"Dormant"}
    THEN [s EXCEPT !.visible = s.machine.state # "Dormant", !.failed = FALSE]
    ELSE s

\* A decision that begins a command replaces the one that is out; one that
\* answers it leaves none.
Decided(s, e, decision) ==
    LET begins == decision.command # "None"
    IN  Projected(
          [s EXCEPT
             !.machine = decision.next,
             !.command = IF begins THEN decision.command
                         ELSE IF e.service_epoch # 0 THEN "None" ELSE @,
             !.epoch = IF begins THEN @ + 1 ELSE @])

Dispatch(s, e) ==
    IF Stale(s, e) THEN s ELSE Decided(s, e, Transition(s.machine, e))

Tell(s, type) == Dispatch(s, Event(type))
Complete(s, type) == Dispatch(s, Completion(s, type))

WantsPlaying(s) ==
    \/ s.machine.state = "Playing"
    \/ /\ s.machine.state \in {"Opening", "Priming", "Buffering", "Seeking",
                               "Recovering"}
       /\ s.machine.resume_playing

Raised(s) == [s EXCEPT !.failed = TRUE, !.visible = TRUE]
Resolving(s) == [s EXCEPT !.failed = FALSE, !.visible = TRUE]

-----------------------------------------------------------------------------
(***************************************************************************)
(* Teardown.  Destroying a playback may find its codec stuck.              *)
(***************************************************************************)
Destroyed(s, stuck) ==
    [s EXCEPT !.owned = "None", !.job = "None", !.hls = FALSE,
              !.pause_boundary = FALSE, !.buffering_service = FALSE,
              !.codec_stuck = @ \/ (s.owned = "Full" /\ stuck)]

\* psp_media_finish_synchronous_quiesce
Finished(s) ==
    IF s.machine.state # "Quiescing" THEN s
    ELSE LET cancelled == Complete(Complete(s, "AdmissionStopped"),
                                   "TransportCancelled")
         IN  Complete(cancelled, IF s.codec_stuck THEN "BackendQuarantined"
                                 ELSE "BackendQuiesced")

Retired(s, stuck) == Finished(Destroyed(Tell(s, "Close"), stuck))

FinishedIfEmpty(s) == IF s.owned = "None" THEN Finished(s) ELSE s

\* psp_media_job_failed, for a job that no tentative preview owns
JobFailed(s) ==
    LET type == CASE s.job \in OpenJobs -> "OpenFailed"
                  [] s.job = "Seek" -> "SeekFailed"
                  [] OTHER -> "PlaybackFailed"
    IN  FinishedIfEmpty(Complete(Raised([s EXCEPT !.job = "None"]), type))

FailedAndReleased(s, stuck) == Finished(Destroyed(JobFailed(s), stuck))

OpenEvent(s, autoplay) ==
    [Event("Open") EXCEPT !.autoplay = autoplay, !.audio_only = s.audio_only]

OpenRequested(s, autoplay) ==
    Resolving(Dispatch([s EXCEPT !.open_service_pending = TRUE],
                       OpenEvent(s, autoplay)))

Reopened(retired, autoplay) ==
    IF retired.codec_stuck THEN JobFailed(retired)
    ELSE OpenRequested(retired, autoplay)

\* Every rebuild retires the old pipeline first, and gives up if that left
\* the codec stuck.
Rebuilt(s, stuck, autoplay) == Reopened(Retired(s, stuck), autoplay)

-----------------------------------------------------------------------------
(***************************************************************************)
(* The retry ladder.  Each operator is the set of sessions a rung can      *)
(* leave behind, empty when the rung refuses; whether it is taken also     *)
(* depends on HTTP evidence and cancellation the model does not carry.     *)
(***************************************************************************)
Counted(s) == [s EXCEPT !.attempts = @ + 1]

TransportRetry(s) ==
    IF s.source = "Saved" \/ s.attempts >= MaxAttempts THEN {}
    ELSE {Rebuilt(s, stuck, WantsPlaying(s)) : stuck \in BOOLEAN}

\* Mutation: an attempt is never charged.
Uncharged(rebuilt) == rebuilt

\* The attempt is charged only once the rebuild goes ahead.
Charged(rebuilt) ==
    {IF r.codec_stuck THEN r ELSE Counted(r) : r \in rebuilt}

MayLower(s) ==
    /\ s.source = "Provider" /\ ~s.audio_only
    /\ ~s.quality_fallback /\ ~s.codec_stuck

QualityRetry(s) ==
    IF ~MayLower(s) THEN {}
    ELSE {IF r.codec_stuck THEN r ELSE [r EXCEPT !.quality_fallback = TRUE] :
            r \in {Rebuilt(s, stuck, WantsPlaying(s)) : stuck \in BOOLEAN}}

\* psp_media_retry_delivery_failure: a second failure at the requested
\* quality may spend the last attempt on the lower one.
DeliveryRetry(s) ==
    IF s.attempts < MaxAttempts
    THEN Charged(TransportRetry(s)
                 \cup (IF s.attempts # 0 THEN QualityRetry(s) ELSE {}))
    ELSE {}

\* psp_media_prepare_route_kind on a new source
RouteOpened(s, source, audio, autoplay, candidates, stuck) ==
        OpenRequested(
            [Retired(s, stuck) EXCEPT
                !.source = source, !.audio_only = audio,
                !.attempts = 0, !.quality_fallback = FALSE,
                !.candidates = candidates],
            autoplay)

PageCandidate(s) ==
    IF s.source = "Page" /\ ~s.audio_only /\ s.candidates > 0 /\ ~s.codec_stuck
    THEN {RouteOpened(s, "Page", FALSE, TRUE, s.candidates - 1, stuck) :
            stuck \in BOOLEAN}
    ELSE {}

Retries(s) == PageCandidate(s) \cup DeliveryRetry(s) \cup QualityRetry(s)

-----------------------------------------------------------------------------
(***************************************************************************)
(* The open.  The physical order of the phases depends on the source; the  *)
(* chart of MediaReducer keeps one order and only counts them.             *)
(***************************************************************************)
OpenPath(s) ==
    LET audio == IF s.split_streams THEN <<"AudioRange", "AudioDemux">>
                 ELSE <<>>
    IN
    IF s.audio_only
    THEN <<"Resolve", "DecoderPrepare", "AudioRange", "AudioDemux",
           "Playback">>
    ELSE CASE s.hls ->
                  <<"Resolve", "DecoderPrepare", "VideoRange", "VideoDemux",
                    "VideoPrime">> \o audio \o <<"Playback">>
           [] s.source = "Page" /\ ~s.hls ->
                  <<"Resolve", "VideoRange", "VideoDemux", "DecoderPrepare",
                    "VideoPrime", "Playback">>
           [] OTHER ->
                  <<"Resolve", "DecoderPrepare", "VideoRange", "VideoDemux">>
                  \o audio \o <<"VideoPrime", "Playback">>

IndexIn(path, item) == CHOOSE i \in DOMAIN path : path[i] = item

Stepped(s) ==
    [s EXCEPT !.job = OpenPath(s)[IndexIn(OpenPath(s), s.job) + 1],
              !.owned = IF s.job \in {"VideoRange", "AudioRange"}
                        THEN "Partial" ELSE @]

\* What the resolver may have learned about the streams.
SplitChoices(s) ==
    CASE s.audio_only -> {s.source = "Provider"}
      [] s.source = "Page" /\ ~s.hls -> {FALSE}
      [] OTHER -> BOOLEAN

\* A unit that ends its phase.
PhaseEnded(s) ==
    CASE s.job = "Resolve" ->
             {Stepped([s EXCEPT !.split_streams = split]) :
                  split \in SplitChoices(s)}
      [] s.job = "Playback" ->
             {Resolving([s EXCEPT
                  !.owned = "Full", !.job = job,
                  !.pause_boundary = job = "None" /\ ~WantsPlaying(s)]) :
                  job \in {"None", "Seek"}}
      [] OTHER -> {Stepped(s)}

\* A live or page playlist is taken on in the middle of resolving.
HlsAcquired(s) ==
    IF s.job = "Resolve" /\ ~s.hls /\ ~s.audio_only /\ s.source # "Saved"
    THEN {[s EXCEPT !.hls = TRUE, !.owned = "Partial"]}
    ELSE {}

\* The module worker's failure is not a matter of quality.
UnitFailed(s) ==
    PageCandidate(s) \cup DeliveryRetry(s)
    \cup (IF s.job = "DecoderPrepare" THEN {} ELSE QualityRetry(s))
    \cup {JobFailed(Destroyed(s, FALSE))}

\* psp_media_open_retire_if_over, which leaves the pipeline to its owner
OpenRetired(s) == JobFailed([s EXCEPT !.open_service_pending = FALSE])

\* A pending request takes over from whatever was there.
Begun(s) ==
    LET taken == [s EXCEPT !.open_service_pending = FALSE]
    IN  IF ~s.open_service_pending THEN s
        ELSE IF s.codec_stuck THEN JobFailed(taken)
        ELSE [Destroyed(taken, FALSE) EXCEPT !.job = "Resolve"]

\* One bounded unit of the open: it goes on, is given up, fails or ends.
OpenUnit(s) ==
    {s, OpenRetired(s), FailedAndReleased(s, FALSE)}
    \cup HlsAcquired(s) \cup PhaseEnded(s) \cup UnitFailed(s)

\* psp_media_open_pump_step
OpenPumpStep(s) ==
    UNION {IF begun.job \in OpenJobs THEN OpenUnit(begun) ELSE {begun} :
               begun \in {Begun(s)}}

PhaseReported(s) ==
    Dispatch(s, [Completion(s, "OpenPhaseComplete") EXCEPT
                    !.has_separate_audio = s.split_streams,
                    !.audio_only = s.audio_only])

\* The open is over: seek to where playback continues, or rest on the
\* first picture unless it should play.
PlaybackReported(s) ==
    IF s.job = "Seek"
    THEN {Dispatch(s, [Event("Seek") EXCEPT !.resume_playing = resume]) :
             resume \in BOOLEAN}
    ELSE {IF WantsPlaying(s) THEN s
          ELSE LET bounded == Tell(s, "PauseAfterFrame")
               IN  IF s.audio_only THEN Tell(bounded, "FrameDisplayed")
                   ELSE bounded}

\* Mutation: the pump reports with whatever token is current.
PumpedAnyToken(s, t) ==
    IF t.job # s.job /\ s.job \in OpenJobs /\ ~t.failed
    THEN {PhaseReported(t)} ELSE {t}

\* psp_media_open_pump: from s, whose step left t
Pumped(s, t) ==
    LET starting == s.open_service_pending /\ s.job = "None"
        before == IF starting THEN "Resolve" ELSE s.job
        ended == /\ before \in OpenJobs /\ t.job # before
                 /\ s.command = "StartOpenPhase"
                 /\ t.command = s.command /\ t.epoch = s.epoch
                 /\ ~t.failed
        reported == IF ~ended THEN {t}
                    ELSE IF before = "Playback"
                         THEN PlaybackReported(PhaseReported(t))
                         ELSE {PhaseReported(t)}
    IN  {IF r.failed /\ r.owned = "None" THEN Finished(r) ELSE r :
             r \in reported}

-----------------------------------------------------------------------------
(***************************************************************************)
(* The frame loop: each frame advances a visible, healthy player by one    *)
(* bounded step, or runs the open's watchdog when a navigation keeps the   *)
(* player from being advanced.                                             *)
(***************************************************************************)
\* Between calls: a token is only compared within one, so its age ends with
\* it; and what the next open writes before it reads is not kept.
AtRest(s) ==
    LET opening == s.machine.state = "Opening"
        priming == s.machine.state = "Priming"
        machine == [s.machine EXCEPT
                       !.has_separate_audio = @ /\ opening,
                       !.audio_only = @ /\ opening,
                       !.readiness = IF priming THEN @ ELSE "NeedsSource"]
    IN  [s EXCEPT
            !.epoch = IF s.command = "None" THEN 0 ELSE 1,
            !.hls = @ /\ opening, !.split_streams = @ /\ opening,
            !.machine = machine]

Leaves(results) == \E s \in results : media' = AtRest(s)

\* The shell runs no frame and delivers no input between suspend and resume;
\* the route functions refuse by themselves too.
Awake == ~media.system_suspended

Shown == media.visible /\ ~media.failed
Opening == media.machine.state = "Opening"

\* advance reaches the playback: nothing else has the frame.
Rolling == Shown /\ ~Opening /\ media.owned = "Full" /\ media.job = "None"

OpenPump ==
    /\ Shown /\ Opening
    /\ Leaves(UNION {Pumped(media, t) : t \in OpenPumpStep(media)})

OpenWatchdog ==
    /\ Opening /\ ~(media.open_service_pending /\ media.job = "None")
    /\ Leaves({OpenRetired(media)})

\* Mutation: the seek ends without a word to the reducer.
SeekEndedSilently(s) == {[s EXCEPT !.job = "None"]}

\* The seek's last unit: only the seek's own state may be completed.
SeekEnded(s) ==
    LET done == [s EXCEPT !.job = "None"]
        complete == Complete(done, "SeekComplete")
    IN  IF done.machine.state = "Seeking"
        THEN {complete}
             \cup (IF s.buffering_service \/ s.pause_boundary THEN {}
                   ELSE {Complete(complete, "PrimeReady")})
        ELSE {done}

\* Mutation: a seek that was replaced is completed with any token.
SeekReplacedCompleted(s) ==
    {Complete(r, "SeekComplete") : r \in DeliveryRetry(s) \cup QualityRetry(s)}

\* A retry from inside the seek reopens; the seek is then nobody's.
SeekReplaced(s) == DeliveryRetry(s) \cup QualityRetry(s)

SeekPump ==
    /\ Shown /\ ~Opening /\ media.job = "Seek"
    /\ Leaves(SeekEnded(media) \cup SeekReplaced(media) \cup {JobFailed(media)})

\* A picture, or for audio the first accepted block, reaches the user.
FramePresented(s) ==
    LET rested == IF s.pause_boundary /\ ~s.audio_only
                  THEN Complete([s EXCEPT !.pause_boundary = FALSE],
                                "FrameDisplayed")
                  ELSE s
        primes == rested.machine.state = "Priming" /\ ~rested.pause_boundary
    IN  IF primes THEN {rested, Complete(rested, "PrimeReady")} ELSE {rested}

TakeFrame ==
    /\ Rolling
    /\ \E stable \in BOOLEAN :
          Leaves({[s EXCEPT !.attempts = IF stable THEN 0 ELSE @] :
                   s \in FramePresented(media)})

\* The pipeline reports an error: a retry, or the failure panel.
DecodeFails ==
    /\ Rolling
    /\ Leaves(Retries(media)
            \cup {FailedAndReleased(media, stuck) : stuck \in BOOLEAN})

\* No progress, no first frame or a cancelled first frame: a retry, or a
\* panel over the pipeline, which stays for Retry and Close.
Stall ==
    /\ Rolling
    /\ Leaves(Retries(media) \cup {Raised([media EXCEPT !.pause_boundary = FALSE])})

\* A shared cancellation stops the decode but not the machine.
Interrupted ==
    /\ Rolling
    /\ Leaves({[media EXCEPT !.pause_boundary = FALSE,
                           !.buffering_service = FALSE]})

TransportExpiry == Rolling /\ Leaves(Charged(TransportRetry(media)))

\* psp_media_refusal_reset_recover: by a forward reset, or not at all
DecoderRefused ==
    /\ Rolling /\ ~media.audio_only /\ ~media.pause_boundary
    /\ media.machine.state \in {"Priming", "Playing", "Buffering"}
    /\ media.machine.state # "Playing" => media.machine.resume_playing
    /\ LET refused == Tell(media, "DecoderRefused")
       IN  Leaves({Complete(refused, "RecoveryComplete"),
                 Complete(Raised(refused), "RecoveryFailed")})

PlaybackEnded == Rolling /\ Leaves({Tell(media, "PlaybackEnded")})

BufferingBegun(s) ==
    IF s.buffering_service THEN s
    ELSE Tell([s EXCEPT !.buffering_service = TRUE], "SourceStarved")

\* psp_media_buffering_update, whose policy follows the machine's state
BufferingUpdate ==
    /\ Rolling
    /\ LET buffering == media.machine.state = "Buffering"
           held == ~WantsPlaying(media) \/ media.machine.state = "Priming"
           ended == [media EXCEPT !.buffering_service = FALSE]
       IN  \/ held /\ buffering /\ Leaves({ended})
           \/ ~held /\ ~buffering /\ Leaves({BufferingBegun(media)})
           \/ /\ ~held /\ buffering /\ media.buffering_service
              /\ \E readiness \in {"Ready", "NeedsPrime"} :
                    Leaves({Dispatch(ended, [Event("BufferStable") EXCEPT
                                              !.readiness = readiness])})

\* The firmware worker stops answering; only a teardown tells the machine.
CodecSticks ==
    /\ media.owned = "Full" /\ ~media.codec_stuck
    /\ Leaves({[media EXCEPT !.codec_stuck = TRUE]})

-----------------------------------------------------------------------------
(***************************************************************************)
(* Requests: of the user, of the route and of the page.                    *)
(***************************************************************************)
RouteOpen ==
    \E source \in Sources, audio, stuck \in BOOLEAN,
       candidates \in 0..MaxCandidates :
          /\ candidates > 0 => source = "Page" /\ ~audio
          /\ audio => source # "Saved"
          /\ Leaves({RouteOpened(media, source, audio, TRUE, candidates, stuck)})

ReuseEvent(s, autoplay) ==
    [Event("Open") EXCEPT !.autoplay = autoplay, !.reuse_pipeline = TRUE,
                          !.has_separate_audio = s.split_streams,
                          !.audio_only = s.audio_only]

Reused(s, autoplay) ==
    [Dispatch(s, ReuseEvent(s, autoplay)) EXCEPT !.visible = TRUE]

\* The play surface of a hidden video is activated, or the page of a saved
\* one is loaded again.  The page has the input only while the player is
\* hidden; any other route is left first by the frame's own reconciliation.
RouteAgain ==
    /\ media.source \in {"Provider", "Saved"} /\ ~media.visible
    /\ \/ /\ media.owned = "Full"
          /\ Leaves({Reused(media, media.machine.resume_playing)})
       \/ /\ media.owned # "Full" /\ media.source = "Saved"
          /\ Leaves({OpenRequested([media EXCEPT !.quality_fallback = FALSE],
                                   TRUE)})

\* The page plays the same source again.
PageReturn ==
    /\ media.source = "Page"
    /\ \/ /\ media.owned = "Full"
          /\ \E autoplay \in BOOLEAN : Leaves({Reused(media, autoplay)})
       \/ /\ media.owned # "Full" /\ media.failed
          /\ ~media.open_service_pending
          /\ Leaves({Resolving(Tell([media EXCEPT
                                       !.open_service_pending = TRUE],
                                   "Retry"))})

\* A provider page of the same video hides the player and keeps it.
RouteInternal ==
    /\ media.source = "Provider" /\ media.owned = "Full"
    /\ LET hidden == Dispatch(media, [Event("Close") EXCEPT
                                          !.retain_pipeline = TRUE])
       IN  Leaves({[hidden EXCEPT !.visible = FALSE]})

Left(s) ==
    [s EXCEPT !.source = "None", !.visible = FALSE, !.failed = FALSE,
              !.candidates = 0]

RouteLeave ==
    /\ media.source # "None"
    /\ \E stuck \in BOOLEAN :
          Leaves({Left(Retired([media EXCEPT !.open_service_pending = FALSE],
                              stuck))})

\* What Close may not keep for an immediate replay.
Incomplete(s) ==
    \/ s.machine.state = "Opening" \/ s.job # "None"
    \/ s.pause_boundary \/ s.failed \/ s.owned # "Full"

Close ==
    /\ media.visible
    /\ \E discard \in {b \in BOOLEAN : Incomplete(media) => b},
         direct \in {b \in BOOLEAN : b => media.source = "Provider"},
         stuck \in BOOLEAN :
          LET closed == Dispatch(
                  [media EXCEPT !.candidates = 0],
                  [Event("Close") EXCEPT !.retain_pipeline = ~discard])
              hidden == [closed EXCEPT
                            !.open_service_pending = FALSE,
                            !.visible = FALSE, !.job = "None",
                            !.pause_boundary = FALSE,
                            !.buffering_service = FALSE,
                            !.source = IF direct THEN "None" ELSE @]
          IN  /\ direct => discard
              /\ Leaves({IF discard THEN Finished(Destroyed(hidden, stuck))
                        ELSE hidden})

\* A navigation takes the memory of a hidden pipeline.
Reclaim ==
    /\ ~media.visible /\ media.owned = "Full"
    /\ \E stuck \in BOOLEAN :
          Leaves({Finished(Destroyed(Tell(media, "Reclaim"), stuck))})

Suspend ==
    \E stuck \in BOOLEAN :
          LET released == Destroyed([Tell(media, "Suspend") EXCEPT
                                        !.open_service_pending = FALSE],
                                    stuck)
          IN  Leaves({Finished([released EXCEPT !.system_suspended = TRUE])})

Resume ==
    /\ media.system_suspended
    /\ LET awake == [media EXCEPT !.system_suspended = FALSE]
       IN  Leaves({Tell(IF media.source # "None" /\ media.visible
                       THEN Resolving([awake EXCEPT
                                          !.open_service_pending = TRUE])
                       ELSE awake, "Resume")})

PlayPauseEvent(s, readiness) ==
    [Event(IF WantsPlaying(s) THEN "Pause" ELSE "Play") EXCEPT
        !.readiness = readiness]

\* While a continuing playback is reopened the press is only recorded.
PlayPauseContinuation ==
    /\ Shown /\ Opening
    /\ Leaves({Dispatch(media, PlayPauseEvent(media, "NeedsPrime"))})

PlayPause ==
    /\ Shown /\ ~Opening /\ media.owned = "Full"
    /\ \E readiness \in Readinesses, startup \in BOOLEAN :
          LET was == WantsPlaying(media)
              told == Dispatch(media, PlayPauseEvent(media, readiness))
              answered == [told EXCEPT !.pause_boundary = @ /\ was]
          IN  /\ (readiness = "NeedsSource") => media.buffering_service
              /\ startup => readiness = "NeedsPrime"
              /\ Leaves({IF media.job # "None" THEN answered
                        ELSE IF ~WantsPlaying(answered)
                             THEN [answered EXCEPT !.buffering_service = FALSE]
                             ELSE IF startup /\ ~was
                                  THEN BufferingBegun(answered) ELSE answered})

SeekRequested(s, resume) ==
    [Dispatch(s, [Event("Seek") EXCEPT !.resume_playing = resume]) EXCEPT
        !.buffering_service = FALSE, !.job = "Seek"]

\* A long rewind rebuilds the pipeline; an ended one restarts this way too.
Seek ==
    /\ Rolling
    /\ \E resume, stuck \in BOOLEAN :
          Leaves({SeekRequested(media, resume)}
                \cup (IF media.audio_only THEN {}
                      ELSE {Rebuilt(media, stuck, resume)}))

UserRetry ==
    /\ media.visible /\ media.failed
    /\ media.source # "None" /\ ~media.codec_stuck
    /\ \E stuck, autoplay \in BOOLEAN :
          LET rebuilt == Rebuilt(media, stuck, autoplay)
          IN  Leaves({IF rebuilt.codec_stuck THEN rebuilt
                     ELSE [rebuilt EXCEPT !.attempts = 0]})

TrackReopen ==
    /\ Shown /\ media.source = "Provider"
    /\ \E stuck \in BOOLEAN :
          Leaves({Rebuilt(media, stuck, WantsPlaying(media))})

-----------------------------------------------------------------------------
Frame ==
    \/ OpenWatchdog \/ TakeFrame \/ DecodeFails \/ Stall
    \/ Interrupted \/ TransportExpiry \/ DecoderRefused
    \/ PlaybackEnded \/ BufferingUpdate \/ CodecSticks

Request ==
    \/ RouteOpen \/ RouteAgain \/ PageReturn \/ RouteInternal
    \/ RouteLeave \/ Close \/ Reclaim \/ Suspend
    \/ PlayPauseContinuation \/ PlayPause \/ Seek \/ UserRetry
    \/ TrackReopen

\* A unit that leaves everything where it was moved nothing.
Mark(mover) == moved' = IF media' = media THEN "Nobody" ELSE mover

Next ==
    \/ Awake /\ OpenPump /\ Mark("Open")
    \/ Awake /\ SeekPump /\ Mark("Seek")
    \/ Awake /\ Frame /\ Mark("Frame")
    \/ ((Awake /\ Request) \/ Resume) /\ moved' = "Request"

Spec == Init /\ [][Next]_vars

\* Weak fairness of the two pumps, written over the mark they leave (TLC
\* would evaluate every branch of a pump on every step): a frame pumps
\* whatever is due, and the deadlines that psp_media_open_watch and the
\* seek's own budget put on a phase end a unit that never ends it.
OpenDue ==
    /\ Awake /\ Shown /\ Opening
    /\ media.open_service_pending \/ media.job \in OpenJobs
SeekDue == Awake /\ Shown /\ ~Opening /\ media.job = "Seek"

FairSpec ==
    /\ Spec
    /\ []<>~OpenDue \/ []<><<moved' = "Open">>_vars
    /\ []<>~SeekDue \/ []<><<moved' = "Seek">>_vars

-----------------------------------------------------------------------------
(***************************************************************************)
(* Properties.                                                             *)
(***************************************************************************)

\* The types of the session and of its machine.
TypeOK == media \in Session /\ moved \in Movers

\* An open whose job is under way is one chart phase per physical phase:
\* the machine waits for a completion with the token of this open, and has
\* as many phases left as the job (psp_media_open_pump).
ChartPath(m) ==
    IF m.audio_only
    THEN <<"Resolving", "DecoderPrepare", "AudioRange", "AudioDemux",
           "PlaybackCreate">>
    ELSE <<"Resolving", "DecoderPrepare", "VideoRange", "VideoDemux",
           "VideoPrime">>
         \o (IF m.has_separate_audio THEN <<"AudioRange", "AudioDemux">>
             ELSE <<>>)
         \o <<"PlaybackCreate">>

OpeningInStep ==
    media.job \in OpenJobs /\ ~media.open_service_pending =>
        /\ Opening /\ media.command = "StartOpenPhase"
        /\ IndexIn(ChartPath(media.machine), media.machine.phase)
               = IndexIn(OpenPath(media), media.job)

\* The checkpoint the driver samples at run time: the machine is
\* consistent and names the pipeline the session owns, except that an open
\* may own more than its phase has reported (psp_media_session_checkpoint)
\* and that a machine still quiescing has not given its pipeline up.
MayOwnMore(m, command) ==
    m.state = "Opening" /\ command = "StartOpenPhase" /\ m.pipeline = "None"

CheckpointHolds ==
    /\ Consistent(media.machine)
    /\ \/ media.machine.pipeline = media.owned
       \/ MayOwnMore(media.machine, media.command) /\ media.owned = "Partial"
       \/ media.machine.state = "Quiescing"

\* An open that has begun ends: it plays, fails or is replaced by a request.
OpenSettles ==
    []<><<moved' = "Request">>_vars \/ (OpenDue ~> ~Opening)

\* A seek ends the same way, and is not left to a state nobody completes.
SeekSettles ==
    \/ []<><<moved' = "Request">>_vars
    \/ media.job = "Seek" /\ Shown
           ~> media.machine.state \notin {"Seeking", "Opening"}
=============================================================================
