------------------------- MODULE MediaSessionProofs -------------------------
(***************************************************************************)
(* Proofs about the media session, for every number of retries the driver  *)
(* may charge and of renditions a page may offer.                          *)
(*                                                                         *)
(* The machine is, between the driver's calls, in one of four shapes: it   *)
(* rests, opens, plays or stops.  Fit says what the session owns in each;  *)
(* every operation of the driver takes a fit session to a fit one, and     *)
(* IInv is that Fit, between calls, with what suspension adds.             *)
(***************************************************************************)
EXTENDS MediaSession, SequenceTheorems, TLAPS

\* A session within a call, where tokens are of any age (AtRest ends it).
Calls ==
    [machine : Machine, command : Commands, epoch : Nat,
     owned : Pipelines, job : OpenJobs \cup {"None", "Seek"},
     open_service_pending : BOOLEAN,
     source : Sources \cup {"None"},
     audio_only : BOOLEAN, hls : BOOLEAN, split_streams : BOOLEAN,
     visible : BOOLEAN, failed : BOOLEAN, system_suspended : BOOLEAN,
     attempts : 0..MaxAttempts, quality_fallback : BOOLEAN,
     candidates : 0..MaxCandidates, pause_boundary : BOOLEAN,
     buffering_service : BOOLEAN, codec_stuck : BOOLEAN]

\* The four shapes.  Nothing is held, and a plan is kept only to retry it:
Rests(m) ==
    /\ m.state \in {"Idle", "Suspended", "Failed"}
    /\ m.phase = "None" /\ m.quiesce_target = "None" /\ m.pipeline = "None"
    /\ m.state = "Idle" => ~m.has_plan
    /\ m.state = "Failed" => m.has_plan
    /\ m.state = "Suspended" /\ m.has_plan /\ m.quarantined =>
            m.suspended_resume_state = "Failed"
    /\ m.state = "Suspended" /\ ~m.has_plan =>
            m.suspended_resume_state = "Idle"

\* the chart of an open, which may hold a part of the pipeline:
Opens(m) ==
    /\ m.state = "Opening" /\ m.phase \in OpeningPhases
    /\ m.quiesce_target = "None" /\ m.pipeline \in {"None", "Partial"}
    /\ m.has_plan /\ ~m.quarantined

\* a whole pipeline, shown or kept for a replay:
Plays(m) ==
    /\ m.state \in Active \cup {"Dormant"}
    /\ IF m.state \in DOMAIN ChildPhases
       THEN m.phase \in ChildPhases[m.state] ELSE m.phase = "None"
    /\ m.quiesce_target = "None" /\ m.pipeline = "Full"
    /\ m.has_plan /\ ~m.quarantined

\* a stop whose three steps the driver takes in one call (Finished):
Stops(m) ==
    /\ m.state = "Quiescing" /\ m.phase = "StopAdmission"
    /\ m.quiesce_target \in {"Idle", "Failed", "Suspended"}
    /\ m.has_plan

\* The phase the chart is at with the job the open is at: the same one for
\* most sources, another for a page's own video and for split streams.
Alike == {<<"DecoderPrepare", "DecoderPrepare">>,
          <<"VideoRange", "VideoRange">>, <<"VideoDemux", "VideoDemux">>,
          <<"VideoPrime", "VideoPrime">>, <<"AudioRange", "AudioRange">>,
          <<"AudioDemux", "AudioDemux">>, <<"PlaybackCreate", "Playback">>}
OfPage == {<<"DecoderPrepare", "VideoRange">>,
           <<"VideoRange", "VideoDemux">>, <<"VideoDemux", "DecoderPrepare">>,
           <<"VideoPrime", "VideoPrime">>, <<"PlaybackCreate", "Playback">>}
OfSplit == {<<"DecoderPrepare", "DecoderPrepare">>,
            <<"VideoRange", "VideoRange">>, <<"VideoDemux", "VideoDemux">>,
            <<"VideoPrime", "AudioRange">>, <<"AudioRange", "AudioDemux">>,
            <<"AudioDemux", "VideoPrime">>, <<"PlaybackCreate", "Playback">>}

\* The machine takes over what the resolver learned when it leaves Resolving.
InStep(s) ==
    LET m == s.machine
        pair == <<m.phase, s.job>>
    IN  IF m.phase = "Resolving" THEN s.job = "Resolve"
        ELSE /\ m.audio_only = s.audio_only
             /\ IF s.audio_only
                THEN pair \in Alike
                     /\ m.phase \notin {"VideoRange", "VideoDemux",
                                        "VideoPrime"}
                ELSE /\ m.has_separate_audio = s.split_streams
                     /\ ~s.split_streams =>
                            m.phase \notin {"AudioRange", "AudioDemux"}
                     /\ IF s.hls \/ (s.source # "Page" /\ ~s.split_streams)
                        THEN pair \in Alike
                        ELSE IF s.source = "Page"
                        THEN pair \in OfPage /\ ~s.split_streams
                        ELSE pair \in OfSplit

\* What the session owns and does in each shape.
Fit(s) ==
    /\ s \in Calls
    /\ s.command # "None" => s.epoch # 0
    /\ LET m == s.machine
       IN  /\ Rests(m) \/ Opens(m) \/ Plays(m) \/ Stops(m)
           /\ Rests(m) => s.owned = "None" /\ s.job = "None"
           /\ Plays(m) => /\ s.owned = "Full" /\ s.job \in {"None", "Seek"}
                          /\ m.state # "Dormant" => s.visible
           /\ Stops(m) => /\ s.job = "None"
                          /\ s.owned = "Full" => s.failed
           /\ Opens(m) =>
                /\ s.command = "StartOpenPhase"
                /\ s.owned \in {"None", "Partial"}
                /\ m.pipeline = "Partial" => s.owned = "Partial"
                /\ s.job = "None" =>
                    m.phase = "Resolving" /\ m.pipeline = "None"
                    /\ s.owned = "None"
                /\ s.job # "None" =>
                    /\ s.job \in OpenJobs
                    /\ s.visible /\ ~s.failed /\ ~s.open_service_pending
                    /\ s.job \in {"VideoDemux", "AudioDemux"} =>
                            s.owned = "Partial"
                    /\ InStep(s)

-----------------------------------------------------------------------------
(***************************************************************************)
(* The machine: what each event makes of each shape.                       *)
(***************************************************************************)
\* An event whose arguments have their types; any name will do.
Told(e) ==
    /\ e.autoplay \in BOOLEAN /\ e.resume_playing \in BOOLEAN
    /\ e.has_separate_audio \in BOOLEAN /\ e.audio_only \in BOOLEAN
    /\ e.retain_pipeline \in BOOLEAN /\ e.reuse_pipeline \in BOOLEAN
    /\ e.readiness \in Readinesses

LEMMA EnumFacts ==
    /\ Active = {"Priming", "Playing", "Paused", "Buffering", "Seeking",
                 "Recovering"}
    /\ \A st \in Active \cup {"Idle", "Opening", "Dormant", "Quiescing",
                              "Suspended", "Failed"} : st \in States
    /\ DOMAIN ChildPhases = {"Opening", "Priming", "Seeking", "Quiescing"}
    /\ ChildPhases["Opening"] = OpeningPhases
    /\ ChildPhases["Priming"] = {"Feeding", "WaitingForSource"}
    /\ ChildPhases["Seeking"] = {"Preparing", "WaitingForSource"}
    /\ ChildPhases["Quiescing"] =
            {"StopAdmission", "CancelTransport", "Backend"}
BY DEF Active, States, ChildPhases

LEMMA MachineIs ==
    Machine =
    [state : States,
     phase : (OpeningPhases \cup
              {"Feeding", "WaitingForSource", "Preparing",
               "StopAdmission", "CancelTransport", "Backend"})
             \cup {"None"},
     quiesce_target : QuiesceTargets, pipeline : Pipelines,
     quarantined : BOOLEAN, resume_playing : BOOLEAN,
     readiness : Readinesses,
     suspended_resume_state : {"Idle", "Opening", "Failed"},
     has_plan : BOOLEAN, has_separate_audio : BOOLEAN, audio_only : BOOLEAN,
     pending_seek : BOOLEAN, pause_after_frame : BOOLEAN]
<1> DEFINE phases == UNION {ChildPhases[s] : s \in DOMAIN ChildPhases}
<1>1. phases
        = OpeningPhases \cup {"Feeding", "WaitingForSource", "Preparing",
                              "StopAdmission", "CancelTransport", "Backend"}
  BY DEF ChildPhases
<1>2. Machine =
      [state : States, phase : phases \cup {"None"},
       quiesce_target : QuiesceTargets, pipeline : Pipelines,
       quarantined : BOOLEAN, resume_playing : BOOLEAN,
       readiness : Readinesses,
       suspended_resume_state : {"Idle", "Opening", "Failed"},
       has_plan : BOOLEAN, has_separate_audio : BOOLEAN,
       audio_only : BOOLEAN, pending_seek : BOOLEAN,
       pause_after_frame : BOOLEAN]
  BY Zenon DEF Machine
<1> HIDE DEF phases
<1>3. QED
  BY <1>1, <1>2, Zenon

\* A machine over a full pipeline that it may use.
Carries(m) ==
    m \in Machine /\ m.pipeline = "Full" /\ m.has_plan /\ ~m.quarantined

LEMMA EnterEffect ==
    ASSUME NEW m, Carries(m), NEW state, NEW phase,
           \/ /\ state \in {"Playing", "Paused", "Buffering", "Recovering",
                            "Dormant"}
              /\ phase = "None"
           \/ /\ state = "Priming"
              /\ phase \in {"Feeding", "WaitingForSource"}
           \/ /\ state = "Seeking"
              /\ phase \in {"Preparing", "WaitingForSource"}
    PROVE  Carries(Enter(m, state, phase)) /\ Plays(Enter(m, state, phase))
<1>1. Carries(Enter(m, state, phase))
  BY EnumFacts, MachineIs DEF Carries, Enter, QuiesceTargets
<1>2. Plays(Enter(m, state, phase))
  BY EnumFacts, MachineIs DEF Carries, Enter, Plays
<1>3. QED
  BY <1>1, <1>2
-----------------------------------------------------------------------------
\* Decisions that leave the pipeline playing, and that begin to stop it.
GoesOn(d) ==
    Carries(d.next) /\ Plays(d.next) /\ d.command \in Commands
BeginsStop(d) ==
    d.next \in Machine /\ Stops(d.next) /\ d.command = "StopAdmission"

\* The events a playing machine may answer by stopping.
Stoppers == {"Close", "Suspend", "PlaybackFailed", "SeekFailed",
             "RecoveryFailed", "Reclaim"}

LEMMA DecideFields ==
    ASSUME NEW n, NEW c
    PROVE  Decide(n, c).next = n /\ Decide(n, c).command = c
           /\ Quiet(n).next = n /\ Quiet(n).command = "None"
BY DEF Decide, Quiet

\* What may change while the pipeline is carried.
LEMMA CarriesStill ==
    ASSUME NEW m, Carries(m), NEW b \in BOOLEAN, NEW r \in Readinesses
    PROVE  /\ Carries([m EXCEPT !.resume_playing = b])
           /\ Carries([m EXCEPT !.readiness = r])
           /\ Carries([m EXCEPT !.pending_seek = b])
           /\ Carries([m EXCEPT !.pause_after_frame = b])
           /\ Plays(m) => /\ Plays([m EXCEPT !.resume_playing = b])
                          /\ Plays([m EXCEPT !.readiness = r])
                          /\ Plays([m EXCEPT !.pending_seek = b])
                          /\ Plays([m EXCEPT !.pause_after_frame = b])
BY MachineIs DEF Carries, Plays

LEMMA QuietGoesOn ==
    ASSUME NEW n, Carries(n), Plays(n)
    PROVE  GoesOn(Quiet(n))
BY DecideFields DEF GoesOn, Commands

LEMMA EnterPrimingEffect ==
    ASSUME NEW m, Carries(m)
    PROVE  GoesOn(EnterPriming(m))
<1> DEFINE n == Enter(m, "Priming", "Feeding")
<1>1. Carries(n) /\ Plays(n)
  BY EnterEffect
<1> HIDE DEF n
<1>2. Carries([n EXCEPT !.readiness = "NeedsPrime"])
      /\ Plays([n EXCEPT !.readiness = "NeedsPrime"])
  BY <1>1, CarriesStill DEF Readinesses
<1>3. EnterPriming(m) =
        Decide([n EXCEPT !.readiness = "NeedsPrime"], "StartPriming")
  BY DEF EnterPriming, n
<1>4. QED
  BY <1>2, <1>3, DecideFields DEF GoesOn, Commands

LEMMA EnterSeekingEffect ==
    ASSUME NEW m, Carries(m)
    PROVE  GoesOn(EnterSeeking(m))
<1> DEFINE n == Enter(m, "Seeking", "Preparing")
<1>1. Carries(n) /\ Plays(n)
  BY EnterEffect
<1> HIDE DEF n
<1>2. Carries([n EXCEPT !.pending_seek = FALSE])
      /\ Plays([n EXCEPT !.pending_seek = FALSE])
  BY <1>1, MachineIs DEF Carries, Plays
<1>3. EnterSeeking(m) = Decide([n EXCEPT !.pending_seek = FALSE], "StartSeek")
  BY DEF EnterSeeking, n
<1>4. QED
  BY <1>2, <1>3, DecideFields DEF GoesOn, Commands

LEMMA EnterQuiescingEffect ==
    ASSUME NEW m \in Machine, m.has_plan,
           NEW target \in {"Idle", "Failed", "Suspended"}
    PROVE  /\ BeginsStop(EnterQuiescing(m, target))
           /\ EnterQuiescing(m, target).next.quiesce_target = target
<1> DEFINE n == [Enter(m, "Quiescing", "StopAdmission") EXCEPT
                    !.quiesce_target = target, !.pause_after_frame = FALSE,
                    !.suspended_resume_state =
                        IF target = "Suspended" THEN "Opening" ELSE @]
<1>1. n \in Machine
  BY MachineIs, EnumFacts DEF Enter, QuiesceTargets
<1>2. Stops(n) /\ n.quiesce_target = target
  BY MachineIs DEF Enter, Stops
<1> HIDE DEF n
<1>3. EnterQuiescing(m, target) = Decide(n, "StopAdmission")
  BY DEF EnterQuiescing, n
<1>4. QED
  BY <1>1, <1>2, <1>3, DecideFields DEF BeginsStop

LEMMA RestedEffect ==
    ASSUME NEW m, Carries(m)
    PROVE  Carries(Rested(m)) /\ Plays(Rested(m))
<1> DEFINE n == Enter(m, "Paused", "None")
<1>1. Carries(n) /\ Plays(n)
  BY EnterEffect
<1> HIDE DEF n
<1>2. Rested(m) = [n EXCEPT !.resume_playing = FALSE,
                            !.pause_after_frame = FALSE,
                            !.readiness = "Ready"]
  BY DEF Rested, n
<1>3. QED
  BY <1>1, <1>2, MachineIs DEF Carries, Plays, Readinesses

LEMMA PresentingEffect ==
    ASSUME NEW m, Carries(m)
    PROVE  Carries(Presenting(m)) /\ Plays(Presenting(m))
BY EnterEffect DEF Presenting

\* A state without a phase takes another such state.
LEMMA PlainMoves ==
    ASSUME NEW m, Carries(m), Plays(m), m.phase = "None",
           NEW state \in {"Playing", "Paused", "Buffering"}
    PROVE  Carries([m EXCEPT !.state = state])
           /\ Plays([m EXCEPT !.state = state])
BY MachineIs, EnumFacts DEF Carries, Plays

LEMMA OnPrimingGoesOn ==
    ASSUME NEW m, Carries(m), Plays(m), m.state = "Priming",
           NEW e, Told(e)
    PROVE  GoesOn(OnPriming(m, e))
<1>1. \A n : Carries(n) /\ Plays(n) => GoesOn(Quiet(n))
  BY QuietGoesOn
<1>2. CASE e.type = "Play"
  <2>1. Carries([m EXCEPT !.resume_playing = TRUE,
                          !.pause_after_frame = FALSE])
        /\ Plays([m EXCEPT !.resume_playing = TRUE,
                           !.pause_after_frame = FALSE])
    BY MachineIs DEF Carries, Plays
  <2>2. QED
    BY <1>1, <1>2, <2>1 DEF OnPriming
<1>3. CASE e.type = "Pause"
  <2>1. Carries([m EXCEPT !.resume_playing = FALSE])
        /\ Plays([m EXCEPT !.resume_playing = FALSE])
    BY MachineIs DEF Carries, Plays
  <2>2. QED
    BY <1>1, <1>3, <2>1 DEF OnPriming
<1>4. CASE e.type = "SourceStarved"
  <2>1. Carries([m EXCEPT !.phase = "WaitingForSource",
                          !.readiness = "NeedsSource"])
        /\ Plays([m EXCEPT !.phase = "WaitingForSource",
                           !.readiness = "NeedsSource"])
    BY MachineIs, EnumFacts DEF Carries, Plays, Readinesses
  <2>2. QED
    BY <1>1, <1>4, <2>1 DEF OnPriming
<1>5. CASE e.type \in {"SourceAvailable", "BufferStable"}
  <2>1. Carries([m EXCEPT !.phase = "Feeding", !.readiness = "NeedsPrime"])
        /\ Plays([m EXCEPT !.phase = "Feeding", !.readiness = "NeedsPrime"])
    BY MachineIs, EnumFacts DEF Carries, Plays, Readinesses
  <2>2. QED
    BY <1>1, <1>5, <2>1 DEF OnPriming
<1>6. CASE e.type = "PrimeReady"
  <2> DEFINE n == Enter(m, "Buffering", "None")
             p == Presenting(m)
  <2>1. Carries(n) /\ Plays(n) /\ Carries(p) /\ Plays(p)
    BY EnterEffect, PresentingEffect
  <2> HIDE DEF n, p
  <2>2. /\ Carries([n EXCEPT !.readiness = "NeedsSource"])
        /\ Plays([n EXCEPT !.readiness = "NeedsSource"])
        /\ Carries([p EXCEPT !.readiness = "Ready"])
        /\ Plays([p EXCEPT !.readiness = "Ready"])
    BY <2>1, CarriesStill DEF Readinesses
  <2>3. OnPriming(m, e) \in {Quiet([n EXCEPT !.readiness = "NeedsSource"]),
                             Quiet([p EXCEPT !.readiness = "Ready"])}
    BY <1>6 DEF OnPriming, n, p
  <2>4. QED
    BY <1>1, <2>2, <2>3
<1>7. CASE e.type \notin {"Play", "Pause", "SourceStarved", "SourceAvailable",
                          "BufferStable", "PrimeReady"}
  <2>1. OnPriming(m, e) = Quiet(m)
    BY <1>7 DEF OnPriming
  <2>2. QED
    BY <1>1, <2>1
<1>8. QED
  BY <1>2, <1>3, <1>4, <1>5, <1>6, <1>7

LEMMA OnPlayingGoesOn ==
    ASSUME NEW m, Carries(m), Plays(m), m.state = "Playing", NEW e, Told(e)
    PROVE  GoesOn(OnPlaying(m, e))
<1>1. \A n : Carries(n) /\ Plays(n) => GoesOn(Quiet(n))
  BY QuietGoesOn
<1>2. m.phase = "None"
  BY EnumFacts DEF Plays
<1>3. /\ Carries([m EXCEPT !.state = "Paused", !.resume_playing = FALSE])
      /\ Plays([m EXCEPT !.state = "Paused", !.resume_playing = FALSE])
      /\ Carries([m EXCEPT !.state = "Buffering", !.readiness = "NeedsSource"])
      /\ Plays([m EXCEPT !.state = "Buffering", !.readiness = "NeedsSource"])
  BY <1>2, MachineIs, EnumFacts DEF Carries, Plays, Readinesses
<1>4. OnPlaying(m, e) \in
        {Quiet([m EXCEPT !.state = "Paused", !.resume_playing = FALSE]),
         Quiet([m EXCEPT !.state = "Buffering", !.readiness = "NeedsSource"]),
         Quiet(m)}
  BY DEF OnPlaying
<1>5. QED
  BY <1>1, <1>3, <1>4

LEMMA OnPausedGoesOn ==
    ASSUME NEW m, Carries(m), Plays(m), m.state = "Paused", NEW e, Told(e)
    PROVE  GoesOn(OnPaused(m, e))
<1>1. \A n : Carries(n) /\ Plays(n) => GoesOn(Quiet(n))
  BY QuietGoesOn
<1>2. m.phase = "None" /\ e.readiness \in Readinesses
  BY EnumFacts DEF Plays, Told
<1> DEFINE r == [m EXCEPT !.resume_playing = TRUE, !.readiness = e.readiness]
<1>3. Carries(r) /\ Plays(r) /\ r.phase = "None"
  BY <1>2, MachineIs DEF Carries, Plays
<1> HIDE DEF r
<1>4. /\ Carries([r EXCEPT !.state = "Playing"])
      /\ Plays([r EXCEPT !.state = "Playing"])
      /\ Carries([r EXCEPT !.state = "Buffering"])
      /\ Plays([r EXCEPT !.state = "Buffering"])
      /\ GoesOn(EnterPriming(r))
  BY <1>3, PlainMoves, EnterPrimingEffect
<1>5. /\ Carries([m EXCEPT !.readiness = "NeedsSource"])
      /\ Plays([m EXCEPT !.readiness = "NeedsSource"])
      /\ Carries([m EXCEPT !.readiness = e.readiness])
      /\ Plays([m EXCEPT !.readiness = e.readiness])
  BY <1>2, CarriesStill DEF Readinesses
<1>6. CASE e.type = "Play"
  <2>1. OnPaused(m, e) \in {Quiet([r EXCEPT !.state = "Playing"]),
                            Quiet([r EXCEPT !.state = "Buffering"]),
                            EnterPriming(r)}
    BY <1>2, <1>6 DEF OnPaused, r, Readinesses
  <2>2. QED
    BY <1>1, <1>4, <2>1
<1>7. CASE e.type # "Play"
  <2>1. OnPaused(m, e) \in {Quiet([m EXCEPT !.readiness = "NeedsSource"]),
                            Quiet([m EXCEPT !.readiness = e.readiness]),
                            Quiet(m)}
    BY <1>7 DEF OnPaused
  <2>2. QED
    BY <1>1, <1>5, <2>1
<1>8. QED
  BY <1>6, <1>7

LEMMA OnBufferingGoesOn ==
    ASSUME NEW m, Carries(m), Plays(m), m.state = "Buffering", NEW e, Told(e)
    PROVE  GoesOn(OnBuffering(m, e))
<1>1. \A n : Carries(n) /\ Plays(n) => GoesOn(Quiet(n))
  BY QuietGoesOn
<1>2. m.phase = "None" /\ e.readiness \in Readinesses
  BY EnumFacts DEF Plays, Told
<1> DEFINE r == [m EXCEPT !.readiness = e.readiness]
           s == [m EXCEPT !.state = "Paused", !.resume_playing = FALSE]
           t == [m EXCEPT !.resume_playing = TRUE]
<1>3. /\ Carries(r) /\ Plays(r) /\ Carries(t) /\ Plays(t)
      /\ Carries(s) /\ Plays(s)
  BY <1>2, MachineIs, EnumFacts DEF Carries, Plays
<1> HIDE DEF r, s, t
<1>4. /\ Carries(Presenting(r)) /\ Plays(Presenting(r))
      /\ GoesOn(EnterPriming(r))
  BY <1>3, PresentingEffect, EnterPrimingEffect
<1>5. OnBuffering(m, e) \in {Quiet(t), Quiet(s), Quiet(Presenting(r)),
                             EnterPriming(r), Quiet(r), Quiet(m)}
  BY <1>2 DEF OnBuffering, r, s, t, Readinesses
<1>6. QED
  BY <1>1, <1>3, <1>4, <1>5

LEMMA OnSeekingGoesOn ==
    ASSUME NEW m, Carries(m), Plays(m), m.state = "Seeking", NEW e, Told(e)
    PROVE  /\ GoesOn(OnSeeking(m, e)) \/ BeginsStop(OnSeeking(m, e))
           /\ e.type \notin Stoppers => GoesOn(OnSeeking(m, e))
<1>1. \A n : Carries(n) /\ Plays(n) => GoesOn(Quiet(n))
  BY QuietGoesOn
<1> DEFINE p == [m EXCEPT !.resume_playing = TRUE]
           q == [m EXCEPT !.resume_playing = FALSE]
           r == [m EXCEPT !.phase = "WaitingForSource"]
           s == [m EXCEPT !.phase = "Preparing"]
<1>2. /\ Carries(p) /\ Plays(p) /\ Carries(q) /\ Plays(q)
      /\ Carries(r) /\ Plays(r) /\ Carries(s) /\ Plays(s)
  BY MachineIs, EnumFacts DEF Carries, Plays
<1>3. /\ GoesOn(EnterSeeking(m)) /\ GoesOn(EnterPriming(m))
      /\ BeginsStop(EnterQuiescing(m, "Failed"))
  BY EnterSeekingEffect, EnterPrimingEffect, EnterQuiescingEffect DEF Carries
<1> HIDE DEF p, q, r, s
<1>4. \/ OnSeeking(m, e) \in {Quiet(p), Quiet(q), Quiet(r), Quiet(s),
                              Quiet(m), EnterSeeking(m), EnterPriming(m)}
      \/ /\ OnSeeking(m, e) = EnterQuiescing(m, "Failed")
         /\ e.type \in Stoppers
  BY DEF OnSeeking, p, q, r, s, Stoppers
<1>5. QED
  BY <1>1, <1>2, <1>3, <1>4

LEMMA OnRecoveringGoesOn ==
    ASSUME NEW m, Carries(m), Plays(m), m.state = "Recovering",
           NEW e, Told(e)
    PROVE  /\ GoesOn(OnRecovering(m, e)) \/ BeginsStop(OnRecovering(m, e))
           /\ e.type \notin Stoppers => GoesOn(OnRecovering(m, e))
<1>1. \A n : Carries(n) /\ Plays(n) => GoesOn(Quiet(n))
  BY QuietGoesOn
<1> DEFINE p == [m EXCEPT !.resume_playing = TRUE]
           q == [m EXCEPT !.resume_playing = FALSE]
           r == [m EXCEPT !.pending_seek = TRUE]
<1>2. /\ Carries(p) /\ Plays(p) /\ Carries(q) /\ Plays(q)
      /\ Carries(r) /\ Plays(r)
  BY MachineIs DEF Carries, Plays
<1>3. /\ GoesOn(EnterSeeking(m)) /\ GoesOn(EnterPriming(m))
      /\ BeginsStop(EnterQuiescing(m, "Failed"))
  BY EnterSeekingEffect, EnterPrimingEffect, EnterQuiescingEffect DEF Carries
<1> HIDE DEF p, q, r
<1>4. \/ OnRecovering(m, e) \in {Quiet(p), Quiet(q), Quiet(r), Quiet(m),
                                 EnterSeeking(m), EnterPriming(m)}
      \/ /\ OnRecovering(m, e) = EnterQuiescing(m, "Failed")
         /\ e.type \in Stoppers
  BY DEF OnRecovering, p, q, r, Stoppers
<1>5. QED
  BY <1>1, <1>2, <1>3, <1>4

\* An active machine stays on its pipeline or begins to stop.
LEMMA OnActiveGoesOn ==
    ASSUME NEW m, Carries(m), Plays(m), m.state \in Active, NEW e, Told(e)
    PROVE  /\ GoesOn(OnActive(m, e)) \/ BeginsStop(OnActive(m, e))
           /\ e.type \notin Stoppers => GoesOn(OnActive(m, e))
<1>1. \A n : Carries(n) /\ Plays(n) => GoesOn(Quiet(n))
  BY QuietGoesOn
<1> DEFINE sought == IF e.type = "Seek"
                     THEN [m EXCEPT !.resume_playing = e.resume_playing]
                     ELSE m
           a == [m EXCEPT !.pause_after_frame = TRUE]
           n == Enter(m, "Dormant", "None")
<1>2. /\ Carries(sought) /\ Plays(sought) /\ sought.state = m.state
      /\ Carries(a) /\ Plays(a)
  BY MachineIs DEF Carries, Plays, Told
<1>3. Carries(n) /\ Plays(n)
  BY EnterEffect
<1> HIDE DEF sought, a, n
<1>4. /\ Carries([n EXCEPT !.resume_playing = FALSE])
      /\ Plays([n EXCEPT !.resume_playing = FALSE])
  BY <1>3, MachineIs DEF Carries, Plays
<1>5. GoesOn(EnterRecovering(m))
  <2>1. Carries(Enter(m, "Recovering", "None"))
        /\ Plays(Enter(m, "Recovering", "None"))
    BY EnterEffect
  <2>2. QED
    BY <2>1, DecideFields DEF EnterRecovering, GoesOn, Commands
<1>6. /\ BeginsStop(EnterQuiescing(m, "Idle"))
      /\ BeginsStop(EnterQuiescing(m, "Failed"))
      /\ BeginsStop(EnterQuiescing(m, "Suspended"))
      /\ GoesOn(EnterSeeking(sought))
      /\ Carries(Rested(m)) /\ Plays(Rested(m))
  BY <1>2, EnterQuiescingEffect, EnterSeekingEffect, RestedEffect
     DEF Carries
<1> DEFINE own == CASE m.state = "Priming" -> OnPriming(m, e)
                    [] m.state = "Playing" -> OnPlaying(m, e)
                    [] m.state = "Paused" -> OnPaused(m, e)
                    [] m.state = "Buffering" -> OnBuffering(m, e)
                    [] m.state = "Seeking" -> OnSeeking(sought, e)
                    [] m.state = "Recovering" -> OnRecovering(sought, e)
<1>7. /\ GoesOn(own) \/ BeginsStop(own)
      /\ e.type \notin Stoppers => GoesOn(own)
  <2>1. CASE m.state = "Priming"
    BY <2>1, OnPrimingGoesOn
  <2>2. CASE m.state = "Playing"
    BY <2>2, OnPlayingGoesOn
  <2>3. CASE m.state = "Paused"
    BY <2>3, OnPausedGoesOn
  <2>4. CASE m.state = "Buffering"
    BY <2>4, OnBufferingGoesOn
  <2>5. CASE m.state = "Seeking"
    BY <1>2, <2>5, OnSeekingGoesOn
  <2>6. CASE m.state = "Recovering"
    BY <1>2, <2>6, OnRecoveringGoesOn
  <2>7. QED
    BY <2>1, <2>2, <2>3, <2>4, <2>5, <2>6, EnumFacts
<1>8. \/ OnActive(m, e) \in
            {Quiet(a), Quiet(m), Quiet(Rested(m)),
             Quiet([n EXCEPT !.resume_playing = FALSE]),
             EnterSeeking(sought), EnterRecovering(m), own}
      \/ /\ OnActive(m, e) \in {EnterQuiescing(m, "Idle"),
                                 EnterQuiescing(m, "Failed"),
                                 EnterQuiescing(m, "Suspended")}
         /\ e.type \in Stoppers
  BY DEF OnActive, sought, a, n, Stoppers
<1> HIDE DEF own
<1>9. QED
  BY <1>1, <1>2, <1>4, <1>5, <1>6, <1>7, <1>8
-----------------------------------------------------------------------------
\* An open that starts from its first phase.
StartsOpen(d) ==
    /\ d.next \in Machine /\ Opens(d.next) /\ d.command = "StartOpenPhase"
    /\ d.next.phase = "Resolving" /\ d.next.pipeline = "None"

StopsFor(d, target) == BeginsStop(d) /\ d.next.quiesce_target = target

LEMMA OnDormantGoesOn ==
    ASSUME NEW m, Carries(m), Plays(m), m.state = "Dormant", NEW e, Told(e),
           e.type = "Open" => e.reuse_pipeline
    PROVE  /\ GoesOn(OnDormant(m, e)) \/ BeginsStop(OnDormant(m, e))
           /\ e.type \notin Stoppers => GoesOn(OnDormant(m, e))
           /\ e.type = "Close" /\ e.retain_pipeline =>
                 OnDormant(m, e) = Quiet(m)
           /\ \/ e.type = "Reclaim"
              \/ e.type = "Close" /\ ~e.retain_pipeline
              => StopsFor(OnDormant(m, e), "Idle")
           /\ e.type = "Suspend" => StopsFor(OnDormant(m, e), "Suspended")
           /\ e.type = "PlaybackFailed" => StopsFor(OnDormant(m, e), "Failed")
<1> DEFINE p == [Planned(m, e) EXCEPT !.state = "Paused",
                                      !.readiness = "Ready"]
<1>1. GoesOn(Quiet(m))
  BY QuietGoesOn
<1>2. GoesOn(Quiet(p))
  <2>1. Carries(p)
    BY MachineIs, EnumFacts DEF Carries, Planned, Told, Readinesses
  <2>2. m.phase = "None"
    BY EnumFacts DEF Plays
  <2>3. Plays(p)
    BY <2>2, MachineIs, EnumFacts DEF Carries, Plays, Planned
  <2> HIDE DEF p
  <2>4. QED
    BY <2>1, <2>3, QuietGoesOn
<1>3. /\ StopsFor(EnterQuiescing(m, "Idle"), "Idle")
      /\ StopsFor(EnterQuiescing(m, "Suspended"), "Suspended")
      /\ StopsFor(EnterQuiescing(m, "Failed"), "Failed")
  BY EnterQuiescingEffect DEF Carries, StopsFor
<1> HIDE DEF p
<1>4. /\ \/ OnDormant(m, e) \in {Quiet(m), Quiet(p)}
         \/ /\ OnDormant(m, e) \in {EnterQuiescing(m, "Idle"),
                                     EnterQuiescing(m, "Suspended"),
                                     EnterQuiescing(m, "Failed")}
            /\ e.type \in Stoppers
      /\ e.type = "Close" /\ e.retain_pipeline => OnDormant(m, e) = Quiet(m)
      /\ \/ e.type = "Reclaim"
         \/ e.type = "Close" /\ ~e.retain_pipeline
         => OnDormant(m, e) = EnterQuiescing(m, "Idle")
      /\ e.type = "Suspend" =>
            OnDormant(m, e) = EnterQuiescing(m, "Suspended")
      /\ e.type = "PlaybackFailed" =>
            OnDormant(m, e) = EnterQuiescing(m, "Failed")
  BY DEF OnDormant, p, Told, Stoppers
<1>5. QED
  BY <1>1, <1>2, <1>3, <1>4 DEF StopsFor

\* A playing machine stays on its pipeline or begins to stop; what makes it
\* stop, and what hides it.
LEMMA PlaysMoves ==
    ASSUME NEW m, Carries(m), Plays(m), NEW e, Told(e),
           e.type = "Open" => m.state # "Dormant" \/ e.reuse_pipeline
    PROVE  /\ GoesOn(Transition(m, e)) \/ BeginsStop(Transition(m, e))
           /\ e.type \notin Stoppers => GoesOn(Transition(m, e))
           /\ e.type = "Close" /\ ~e.retain_pipeline =>
                 StopsFor(Transition(m, e), "Idle")
           /\ e.type = "Suspend" => StopsFor(Transition(m, e), "Suspended")
           /\ e.type = "PlaybackFailed" =>
                 StopsFor(Transition(m, e), "Failed")
           /\ e.type = "Close" /\ e.retain_pipeline =>
                 /\ GoesOn(Transition(m, e))
                 /\ Transition(m, e).next.state = "Dormant"
           /\ e.type = "Reclaim" /\ m.state = "Dormant" =>
                 StopsFor(Transition(m, e), "Idle")
<1>1. CASE m.state = "Dormant"
  <2>1. Transition(m, e) = OnDormant(m, e)
    BY <1>1, EnumFacts DEF Transition
  <2>2. GoesOn(Quiet(m)) /\ Quiet(m).next = m
    BY QuietGoesOn, DecideFields
  <2>3. QED
    BY <1>1, <2>1, <2>2, OnDormantGoesOn
<1>2. CASE m.state \in Active
  <2>1. Transition(m, e) = OnActive(m, e)
    BY <1>2, EnumFacts DEF Transition
  <2>2. /\ e.type = "Close" /\ ~e.retain_pipeline =>
             OnActive(m, e) = EnterQuiescing(m, "Idle")
        /\ e.type = "Suspend" =>
             OnActive(m, e) = EnterQuiescing(m, "Suspended")
        /\ e.type = "PlaybackFailed" =>
             OnActive(m, e) = EnterQuiescing(m, "Failed")
        /\ e.type = "Close" /\ e.retain_pipeline =>
             OnActive(m, e) = Quiet([Enter(m, "Dormant", "None") EXCEPT
                                        !.resume_playing = FALSE])
    BY DEF OnActive, Told
  <2>3. /\ StopsFor(EnterQuiescing(m, "Idle"), "Idle")
        /\ StopsFor(EnterQuiescing(m, "Suspended"), "Suspended")
        /\ StopsFor(EnterQuiescing(m, "Failed"), "Failed")
    BY EnterQuiescingEffect DEF Carries, StopsFor
  <2> DEFINE n == Enter(m, "Dormant", "None")
  <2>4. Carries(n) /\ Plays(n) /\ n.state = "Dormant"
    <3>1. Carries(n) /\ Plays(n)
      BY EnterEffect
    <3>2. n.state = "Dormant"
      BY MachineIs DEF Enter, Carries
    <3>3. QED
      BY <3>1, <3>2
  <2> HIDE DEF n
  <2>5. /\ GoesOn(Quiet([n EXCEPT !.resume_playing = FALSE]))
        /\ Quiet([n EXCEPT !.resume_playing = FALSE]).next.state = "Dormant"
    <3>1. /\ Carries([n EXCEPT !.resume_playing = FALSE])
          /\ Plays([n EXCEPT !.resume_playing = FALSE])
          /\ [n EXCEPT !.resume_playing = FALSE].state = "Dormant"
      BY <2>4, MachineIs DEF Carries, Plays
    <3>2. QED
      BY <3>1, QuietGoesOn, DecideFields
  <2>6. /\ GoesOn(OnActive(m, e)) \/ BeginsStop(OnActive(m, e))
        /\ e.type \notin Stoppers => GoesOn(OnActive(m, e))
    BY <1>2, OnActiveGoesOn
  <2>7. m.state # "Dormant"
    BY <1>2, EnumFacts
  <2>8. QED
    BY <2>1, <2>2, <2>3, <2>5, <2>6, <2>7 DEF n
<1>3. QED
  BY <1>1, <1>2 DEF Plays

LEMMA EnterOpeningEffect ==
    ASSUME NEW m \in Machine, m.has_plan, ~m.quarantined
    PROVE  StartsOpen(EnterOpening(m))
<1> DEFINE n == [Enter(m, "Opening", "Resolving") EXCEPT
                    !.pipeline = "None", !.pending_seek = FALSE,
                    !.pause_after_frame = FALSE]
<1>1. n \in Machine
  BY MachineIs, EnumFacts DEF Enter, QuiesceTargets, OpeningPhases, Pipelines
<1>2. Opens(n) /\ n.phase = "Resolving" /\ n.pipeline = "None"
  BY MachineIs DEF Enter, Opens, OpeningPhases
<1> HIDE DEF n
<1>3. EnterOpening(m) = Decide(n, "StartOpenPhase")
  BY DEF EnterOpening, n
<1>4. QED
  BY <1>1, <1>2, <1>3, DecideFields DEF StartsOpen

\* An opening machine starts over, stops, or waits where it is.
LEMMA OpensMoves ==
    ASSUME NEW m \in Machine, Opens(m), NEW e, Told(e),
           e.type # "OpenPhaseComplete"
    PROVE  /\ e.type = "Open" => StartsOpen(Transition(m, e))
           /\ e.type \in {"OpenFailed", "PlaybackFailed"} =>
                 StopsFor(Transition(m, e), "Failed")
           /\ e.type = "Close" => StopsFor(Transition(m, e), "Idle")
           /\ e.type = "Suspend" => StopsFor(Transition(m, e), "Suspended")
           /\ e.type \notin {"Open", "OpenFailed", "PlaybackFailed", "Close",
                             "Suspend"} =>
                 \E b \in BOOLEAN :
                     Transition(m, e) = Quiet([m EXCEPT !.resume_playing = b])
<1>1. Transition(m, e) = OnOpening(m, e)
  BY EnumFacts DEF Transition, Opens
<1>2. /\ StopsFor(EnterQuiescing(m, "Idle"), "Idle")
      /\ StopsFor(EnterQuiescing(m, "Suspended"), "Suspended")
      /\ StopsFor(EnterQuiescing(m, "Failed"), "Failed")
  BY EnterQuiescingEffect DEF Opens, StopsFor
<1> DEFINE p == [Planned(m, e) EXCEPT !.has_plan = TRUE]
<1>3. p \in Machine /\ p.has_plan /\ ~p.quarantined
  BY MachineIs DEF Opens, Planned, Told
<1> HIDE DEF p
<1>4. StartsOpen(EnterOpening(p))
  BY <1>3, EnterOpeningEffect
<1>5. m = [m EXCEPT !.resume_playing = m.resume_playing]
      /\ m.resume_playing \in BOOLEAN
  BY MachineIs
<1>6. /\ e.type = "Open" => OnOpening(m, e) = EnterOpening(p)
      /\ e.type \in {"OpenFailed", "PlaybackFailed"} =>
            OnOpening(m, e) = EnterQuiescing(m, "Failed")
      /\ e.type = "Close" => OnOpening(m, e) = EnterQuiescing(m, "Idle")
      /\ e.type = "Suspend" =>
            OnOpening(m, e) = EnterQuiescing(m, "Suspended")
      /\ e.type = "Play" =>
            OnOpening(m, e) = Quiet([m EXCEPT !.resume_playing = TRUE])
      /\ e.type = "Pause" =>
            OnOpening(m, e) = Quiet([m EXCEPT !.resume_playing = FALSE])
      /\ e.type \notin {"Open", "OpenFailed", "PlaybackFailed", "Close",
                        "Suspend", "Play", "Pause"} =>
            OnOpening(m, e) = Quiet(m)
  BY DEF OnOpening, p
<1>7. QED
  BY <1>1, <1>2, <1>4, <1>5, <1>6

\* A completed phase: the next one, or the first picture to be primed.
LEMMA OpenPhaseCompletes ==
    ASSUME NEW m \in Machine, Opens(m), NEW e, Told(e),
           e.type = "OpenPhaseComplete"
    PROVE  /\ m.phase = "PlaybackCreate" =>
                /\ GoesOn(Transition(m, e))
                /\ Transition(m, e).command = "StartPriming"
                /\ Transition(m, e).next.state = "Priming"
           /\ m.phase # "PlaybackCreate" =>
                LET n == Transition(m, e).next
                IN  /\ n \in Machine /\ Opens(n)
                    /\ Transition(m, e).command = "StartOpenPhase"
                    /\ n.phase = NextOpeningPhase(m)
                    /\ n.pipeline = IF m.phase \in {"VideoRange", "AudioRange"}
                                    THEN "Partial" ELSE m.pipeline
                    /\ n.has_separate_audio = IF m.phase = "Resolving"
                                              THEN e.has_separate_audio
                                              ELSE m.has_separate_audio
                    /\ n.audio_only = IF m.phase = "Resolving"
                                      THEN e.audio_only ELSE m.audio_only
<1>1. Transition(m, e) = OpenPhaseComplete(m, e)
  BY EnumFacts DEF Transition, Opens, OnOpening
<1>2. CASE m.phase = "PlaybackCreate"
  <2> DEFINE n == [m EXCEPT !.pipeline = "Full"]
  <2>1. Carries(n)
    BY MachineIs DEF Carries, Opens, Pipelines
  <2> HIDE DEF n
  <2>2. GoesOn(EnterPriming(n))
    BY <2>1, EnterPrimingEffect
  <2>3. EnterPriming(n).command = "StartPriming"
        /\ EnterPriming(n).next.state = "Priming"
    BY <2>1, MachineIs DEF EnterPriming, Decide, Enter, Carries
  <2>4. Transition(m, e) = EnterPriming(n)
    BY <1>1, <1>2 DEF OpenPhaseComplete, n
  <2>5. QED
    BY <1>2, <2>2, <2>3, <2>4
<1>3. CASE m.phase # "PlaybackCreate"
  <2>1. NextOpeningPhase(m) \in OpeningPhases
    BY <1>3 DEF NextOpeningPhase, Opens, OpeningPhases
  <2> DEFINE q == NextOpeningPhase(m)
             n == [m EXCEPT
                    !.phase = q,
                    !.pipeline = IF m.phase \in {"VideoRange", "AudioRange"}
                                 THEN "Partial" ELSE @,
                    !.has_separate_audio =
                        IF m.phase = "Resolving" THEN e.has_separate_audio
                        ELSE @,
                    !.audio_only =
                        IF m.phase = "Resolving" THEN e.audio_only ELSE @]
  <2>2. Transition(m, e) = Decide(n, "StartOpenPhase")
    BY <1>1, <1>3 DEF OpenPhaseComplete
  <2>3. q \in OpeningPhases
    BY <2>1
  <2> HIDE DEF q
  <2>4. n \in Machine
    BY <2>3, MachineIs DEF Pipelines, Told
  <2>5. Opens(n)
    BY <2>3, MachineIs DEF Opens
  <2>6. /\ n.phase = q
        /\ n.pipeline = IF m.phase \in {"VideoRange", "AudioRange"}
                        THEN "Partial" ELSE m.pipeline
        /\ n.has_separate_audio = IF m.phase = "Resolving"
                                  THEN e.has_separate_audio
                                  ELSE m.has_separate_audio
        /\ n.audio_only = IF m.phase = "Resolving"
                          THEN e.audio_only ELSE m.audio_only
    BY MachineIs
  <2> HIDE DEF n
  <2>7. QED
    BY <1>3, <2>2, <2>4, <2>5, <2>6, DecideFields DEF q
<1>4. QED
  BY <1>2, <1>3

\* A stopping machine only changes where it is going.
LEMMA StopsMoves ==
    ASSUME NEW m \in Machine, Stops(m), NEW e, e.type # "AdmissionStopped"
    PROVE  /\ Transition(m, e).command = "None"
           /\ Transition(m, e).next \in Machine
           /\ Stops(Transition(m, e).next)
           /\ e.type = "Suspend" =>
                 Transition(m, e).next.quiesce_target = "Suspended"
<1>1. Transition(m, e) = OnQuiescing(m, e)
  BY EnumFacts DEF Transition, Stops
<1> DEFINE p == [m EXCEPT !.quiesce_target = "Suspended"]
           q == [m EXCEPT !.quiesce_target = "Failed"]
           r == [m EXCEPT !.quiesce_target = "Idle"]
<1>2. /\ p \in Machine /\ q \in Machine /\ r \in Machine
      /\ Stops(p) /\ Stops(q) /\ Stops(r) /\ p.quiesce_target = "Suspended"
  BY MachineIs DEF Stops, QuiesceTargets
<1>3. /\ OnQuiescing(m, e) \in {Quiet(p), Quiet(q), Quiet(r), Quiet(m)}
      /\ e.type = "Suspend" => OnQuiescing(m, e) = Quiet(p)
  BY DEF OnQuiescing, Stops
<1> HIDE DEF p, q, r
<1>4. QED
  BY <1>1, <1>2, <1>3, DecideFields

\* A machine at rest stays at rest, starts an open, or gives up.
RestsOn(d) ==
    d.next \in Machine /\ Rests(d.next) /\ d.command = "None"

LEMMA RestsMoves ==
    ASSUME NEW m \in Machine, Rests(m), NEW e, Told(e)
    PROVE  /\ \/ RestsOn(Transition(m, e))
              \/ /\ StartsOpen(Transition(m, e))
                 /\ e.type \in {"Open", "Retry", "Resume"}
              \/ /\ StopsFor(Transition(m, e), "Failed")
                 /\ e.type = "PlaybackFailed"
           /\ e.type = "Suspend" =>
                 Transition(m, e).next.state = "Suspended"
<1>1. RestsOn(Quiet(m))
  BY DecideFields DEF RestsOn
<1>2. CASE m.state = "Idle"
  <2>1. Transition(m, e) = OnIdle(m, e)
    BY <1>2, EnumFacts DEF Transition
  <2> DEFINE p == [Planned(m, e) EXCEPT !.has_plan = TRUE]
             q == [p EXCEPT !.state = "Failed"]
             r == [m EXCEPT !.state = "Suspended",
                            !.suspended_resume_state = "Idle"]
             t == [m EXCEPT !.has_plan = TRUE]
  <2>2. p \in Machine /\ p.has_plan /\ p.quarantined = m.quarantined
    BY MachineIs DEF Planned, Told
  <2>3. q \in Machine /\ Rests(q)
    BY <1>2, MachineIs, EnumFacts DEF Rests, Planned, Told
  <2>4. r \in Machine /\ Rests(r) /\ r.state = "Suspended"
    BY <1>2, MachineIs, EnumFacts DEF Rests
  <2>5. t \in Machine /\ t.has_plan
    BY MachineIs
  <2> HIDE DEF p, q, r, t
  <2>6. StopsFor(EnterQuiescing(t, "Failed"), "Failed")
    BY <2>5, EnterQuiescingEffect DEF StopsFor
  <2>7. ~m.quarantined => StartsOpen(EnterOpening(p))
    BY <2>2, EnterOpeningEffect
  <2>8. /\ e.type = "Open" => OnIdle(m, e) = IF m.quarantined THEN Quiet(q)
                                             ELSE EnterOpening(p)
        /\ e.type = "Suspend" => OnIdle(m, e) = Quiet(r)
        /\ e.type = "PlaybackFailed" =>
              OnIdle(m, e) = EnterQuiescing(t, "Failed")
        /\ e.type \notin {"Open", "Suspend", "PlaybackFailed"} =>
              OnIdle(m, e) = Quiet(m)
    BY DEF OnIdle, p, q, r, t
  <2>9. QED
    BY <1>1, <2>1, <2>3, <2>4, <2>6, <2>7, <2>8, DecideFields DEF RestsOn
<1>3. CASE m.state = "Suspended"
  <2>1. Transition(m, e) = OnSuspended(m, e)
    BY <1>3, EnumFacts DEF Transition
  <2> DEFINE q == [m EXCEPT !.state = "Failed"]
             r == [m EXCEPT !.state = "Idle"]
  <2>2. /\ q \in Machine
        /\ m.suspended_resume_state = "Failed" => Rests(q)
    BY <1>3, MachineIs, EnumFacts DEF Rests
  <2>3. /\ r \in Machine
        /\ ~m.has_plan => Rests(r)
    BY <1>3, MachineIs, EnumFacts DEF Rests
  <2>4. Forgotten(m) \in Machine /\ Rests(Forgotten(m))
    BY <1>3, MachineIs, EnumFacts DEF Rests, Forgotten, Enter, QuiesceTargets
  <2> HIDE DEF q, r
  <2>5. m.has_plan /\ m.suspended_resume_state # "Failed" =>
            StartsOpen(EnterOpening(m))
    BY <1>3, EnterOpeningEffect DEF Rests
  <2>6. /\ e.type = "Resume" /\ m.suspended_resume_state = "Failed" =>
              OnSuspended(m, e) = Quiet(q)
        /\ e.type = "Resume" /\ m.suspended_resume_state # "Failed" =>
              OnSuspended(m, e) = IF m.has_plan THEN EnterOpening(m)
                                  ELSE Quiet(r)
        /\ e.type = "Close" => OnSuspended(m, e) = Quiet(Forgotten(m))
        /\ e.type \notin {"Resume", "Close"} => OnSuspended(m, e) = Quiet(m)
    BY DEF OnSuspended, q, r
  <2>7. QED
    BY <1>1, <1>3, <2>1, <2>2, <2>3, <2>4, <2>5, <2>6, DecideFields
       DEF RestsOn
<1>4. CASE m.state = "Failed"
  <2>1. Transition(m, e) = OnFailed(m, e)
    BY <1>4, EnumFacts DEF Transition
  <2> DEFINE q == [m EXCEPT !.state = "Suspended",
                            !.suspended_resume_state = "Failed"]
  <2>2. q \in Machine /\ Rests(q) /\ q.state = "Suspended"
    BY <1>4, MachineIs, EnumFacts DEF Rests
  <2>3. Cleared(m) \in Machine /\ Rests(Cleared(m))
    BY <1>4, MachineIs, EnumFacts
       DEF Rests, Cleared, Forgotten, Enter, QuiesceTargets
  <2> HIDE DEF q
  <2>4. ~m.quarantined => StartsOpen(EnterOpening(m))
    BY <1>4, EnterOpeningEffect DEF Rests
  <2>5. /\ e.type = "Retry" /\ ~m.quarantined =>
              OnFailed(m, e) = EnterOpening(m)
        /\ e.type = "Suspend" => OnFailed(m, e) = Quiet(q)
        /\ e.type = "Close" => OnFailed(m, e) = Quiet(Cleared(m))
        /\ \/ e.type \notin {"Retry", "Suspend", "Close"}
           \/ e.type = "Retry" /\ m.quarantined
           => OnFailed(m, e) = Quiet(m)
    BY DEF OnFailed, q
  <2>6. \A n : Rests(n) /\ n \in Machine => RestsOn(Quiet(n))
    BY DecideFields DEF RestsOn
  <2>7. OnFailed(m, e) \in {Quiet(m), Quiet(q), Quiet(Cleared(m))}
        \/ /\ OnFailed(m, e) = EnterOpening(m)
           /\ e.type = "Retry" /\ ~m.quarantined
    BY DEF OnFailed, q
  <2>8. Quiet(q).next.state = "Suspended"
    BY <2>2, DecideFields
  <2>9. QED
    BY <1>1, <2>1, <2>2, <2>3, <2>4, <2>5, <2>6, <2>7, <2>8
<1>5. QED
  BY <1>2, <1>3, <1>4 DEF Rests
-----------------------------------------------------------------------------
(***************************************************************************)
(* Dispatch: what a session makes of an event, and what it leaves alone.   *)
(***************************************************************************)
Sound(s) == s \in Calls /\ (s.command # "None" => s.epoch # 0)

\* What only the driver changes.
SameHands(r, s) ==
    /\ r.owned = s.owned /\ r.job = s.job
    /\ r.open_service_pending = s.open_service_pending
    /\ r.source = s.source /\ r.audio_only = s.audio_only
    /\ r.hls = s.hls /\ r.split_streams = s.split_streams
    /\ r.system_suspended = s.system_suspended
    /\ r.attempts = s.attempts /\ r.quality_fallback = s.quality_fallback
    /\ r.candidates = s.candidates
    /\ r.pause_boundary = s.pause_boundary
    /\ r.buffering_service = s.buffering_service
    /\ r.codec_stuck = s.codec_stuck

LEMMA ShapesApart ==
    ASSUME NEW m
    PROVE  /\ Rests(m) => ~Opens(m) /\ ~Plays(m) /\ ~Stops(m)
           /\ Opens(m) => ~Rests(m) /\ ~Plays(m) /\ ~Stops(m)
           /\ Plays(m) => ~Rests(m) /\ ~Opens(m) /\ ~Stops(m)
           /\ Stops(m) => ~Rests(m) /\ ~Opens(m) /\ ~Plays(m)
           /\ Plays(m) <=> Plays(m) /\ m.state \in Active \cup {"Dormant"}
           /\ Rests(m) \/ Opens(m) \/ Stops(m) =>
                 m.state \notin Active \cup {"Dormant"}
           /\ Opens(m) => m.state = "Opening"
           /\ Plays(m) => m.state # "Opening" /\ m.state # "Quiescing"
           /\ Rests(m) => m.state # "Opening" /\ m.state # "Quiescing"
           /\ Stops(m) => m.state = "Quiescing"
BY EnumFacts DEF Rests, Opens, Plays, Stops

LEMMA FitParts ==
    ASSUME NEW s, Fit(s)
    PROVE  /\ Sound(s)
           /\ s.machine \in Machine
           /\ \/ Rests(s.machine) \/ Opens(s.machine)
              \/ Plays(s.machine) \/ Stops(s.machine)
           /\ Rests(s.machine) => s.owned = "None" /\ s.job = "None"
           /\ Plays(s.machine) =>
                /\ Carries(s.machine)
                /\ s.owned = "Full" /\ s.job \in {"None", "Seek"}
                /\ s.machine.state # "Dormant" => s.visible
           /\ Stops(s.machine) => /\ s.job = "None"
                                  /\ s.owned = "Full" => s.failed
<1>1. /\ Sound(s)
      /\ s.machine \in Machine
  BY DEF Fit, Sound, Calls
<1>2. Plays(s.machine) => Carries(s.machine)
  BY <1>1 DEF Plays, Carries
<1>3. QED
  BY <1>1, <1>2 DEF Fit

LEMMA DispatchEffect ==
    ASSUME NEW s, Sound(s), NEW e, ~Stale(s, e),
           NEW d, d = Transition(s.machine, e),
           d.next \in Machine, d.command \in Commands,
           NEW r, r = Dispatch(s, e)
    PROVE  /\ Sound(r) /\ SameHands(r, s)
           /\ r.machine = d.next
           /\ r.command = IF d.command # "None" THEN d.command
                          ELSE IF e.service_epoch # 0 THEN "None"
                          ELSE s.command
           /\ r.epoch = IF d.command # "None" THEN s.epoch + 1
                        ELSE s.epoch
           /\ d.next.state \in Active => r.visible
           /\ d.next.state \notin Active \cup {"Dormant"} =>
                r.visible = s.visible /\ r.failed = s.failed
<1> DEFINE command == IF d.command # "None" THEN d.command
                      ELSE IF e.service_epoch # 0 THEN "None" ELSE s.command
           epoch == IF d.command # "None" THEN s.epoch + 1 ELSE s.epoch
<1>2. Dispatch(s, e) =
        Projected([s EXCEPT !.machine = d.next, !.command = command,
                            !.epoch = epoch])
  <2>1. Dispatch(s, e) = Decided(s, e, d)
    BY DEF Dispatch
  <2>2. s \in Calls
    BY DEF Sound
  <2>3. QED
    BY <2>1, <2>2 DEF Decided, Calls
<1>3. command \in Commands /\ epoch \in Nat
      /\ (command # "None" => epoch # 0)
  <2>1. s.command \in Commands /\ s.epoch \in Nat
    BY DEF Sound, Calls
  <2>2. QED
    BY <2>1 DEF Sound, Commands
<1> HIDE DEF command, epoch
<1> DEFINE t == [s EXCEPT !.machine = d.next, !.command = command,
                          !.epoch = epoch]
<1>4. /\ t \in Calls /\ t.machine = d.next /\ t.command = command
      /\ t.epoch = epoch /\ SameHands(t, s)
      /\ t.visible = s.visible /\ t.failed = s.failed
  BY <1>3 DEF Sound, Calls, SameHands
<1>5. Dispatch(s, e) = Projected(t)
  BY <1>2
<1> HIDE DEF t
<1>6. /\ r \in Calls /\ r.machine = d.next /\ r.command = command
      /\ r.epoch = epoch /\ SameHands(r, s)
      /\ d.next.state \in Active => r.visible
      /\ d.next.state \notin Active \cup {"Dormant"} =>
            r.visible = s.visible /\ r.failed = s.failed
  <2>1. CASE d.next.state \in Active \cup {"Dormant"}
    <3>1. r = [t EXCEPT !.visible = d.next.state # "Dormant",
                        !.failed = FALSE]
      BY <1>4, <1>5, <2>1 DEF Projected, Calls
    <3>2. (d.next.state # "Dormant") \in BOOLEAN
      OBVIOUS
    <3> DEFINE shown == d.next.state # "Dormant"
    <3> HIDE DEF shown
    <3>3. r = [t EXCEPT !.visible = shown, !.failed = FALSE]
          /\ shown \in BOOLEAN
      BY <3>1, <3>2 DEF shown
    <3>4. /\ r \in Calls /\ r.machine = t.machine /\ r.command = t.command
          /\ r.epoch = t.epoch /\ SameHands(r, t)
          /\ r.visible = shown /\ r.failed = FALSE
      BY <1>4, <3>3 DEF Calls, SameHands
    <3>5. QED
      BY <1>4, <2>1, <3>4, EnumFacts DEF SameHands, shown
  <2>2. CASE d.next.state \notin Active \cup {"Dormant"}
    <3>1. r = t
      BY <1>4, <1>5, <2>2 DEF Projected
    <3>2. QED
      BY <1>4, <2>2, <3>1
  <2>3. QED
    BY <2>1, <2>2
<1>7. QED
  BY <1>3, <1>6 DEF command, epoch, Sound

\* An event that answers no command, and a completion, are never dropped.
LEMMA EventIs ==
    ASSUME NEW type
    PROVE  /\ Told(Event(type)) /\ Event(type).type = type
           /\ Event(type).service_epoch = 0
           /\ Event(type).retain_pipeline = FALSE
BY DEF Event, Told, Readinesses

LEMMA CompletionIs ==
    ASSUME NEW s, NEW type
    PROVE  /\ Told(Completion(s, type)) /\ Completion(s, type).type = type
           /\ Completion(s, type).retain_pipeline = FALSE
           /\ ~Stale(s, Completion(s, type))
           /\ s.command # "None" =>
                 Completion(s, type).service_epoch = s.epoch
BY DEF Event, Told, Readinesses, Completion, Stale

LEMMA NewsIsCurrent ==
    ASSUME NEW s, NEW e, e.service_epoch = 0
    PROVE  ~Stale(s, e)
BY DEF Stale

\* The sessions each shape of machine may be held by.
LEMMA FitWhenRests ==
    ASSUME NEW s, Sound(s), Rests(s.machine),
           s.owned = "None", s.job = "None"
    PROVE  Fit(s)
BY ShapesApart DEF Fit, Sound

LEMMA FitWhenStops ==
    ASSUME NEW s, Sound(s), Stops(s.machine), s.job = "None",
           s.owned = "Full" => s.failed
    PROVE  Fit(s)
BY ShapesApart DEF Fit, Sound

LEMMA FitWhenPlays ==
    ASSUME NEW s, Sound(s), Plays(s.machine), s.owned = "Full",
           s.job \in {"None", "Seek"},
           s.machine.state # "Dormant" => s.visible
    PROVE  Fit(s)
BY ShapesApart DEF Fit, Sound

LEMMA FitWhenOpens ==
    ASSUME NEW s, Sound(s), Opens(s.machine), s.command = "StartOpenPhase",
           s.machine.phase = "Resolving", s.machine.pipeline = "None",
           s.owned = "None", s.job = "None"
    PROVE  Fit(s)
BY ShapesApart DEF Fit, Sound

\* What holds of an open, apart from what holds of its job.
LEMMA FitOpens ==
    ASSUME NEW s, Fit(s), Opens(s.machine)
    PROVE  /\ s.command = "StartOpenPhase"
           /\ s.owned \in {"None", "Partial"}
           /\ s.machine.pipeline = "Partial" => s.owned = "Partial"
           /\ s.job = "None" => /\ s.machine.phase = "Resolving"
                                /\ s.machine.pipeline = "None"
                                /\ s.owned = "None"
           /\ s.job # "None" =>
                /\ s.job \in OpenJobs
                /\ s.visible /\ ~s.failed /\ ~s.open_service_pending
                /\ s.job \in {"VideoDemux", "AudioDemux"} =>
                        s.owned = "Partial"
                /\ InStep(s)
BY DEF Fit

\* An event a session at any point may be told.
Fair(s, e) ==
    /\ Told(e) /\ ~Stale(s, e)
    /\ e.type \notin {"OpenPhaseComplete", "AdmissionStopped"}
    /\ Opens(s.machine) => \/ e.service_epoch = 0
                           \/ e.type \in {"OpenFailed", "PlaybackFailed"}
    /\ e.type = "Open" => /\ Opens(s.machine) => s.job = "None"
                          /\ s.machine.state = "Dormant" => e.reuse_pipeline

LEMMA WaitingKeepsStep ==
    ASSUME NEW s, Fit(s), Opens(s.machine), NEW r, Sound(r), SameHands(r, s),
           r.command = s.command, r.visible = s.visible, r.failed = s.failed,
           NEW b \in BOOLEAN,
           r.machine = [s.machine EXCEPT !.resume_playing = b]
    PROVE  Fit(r) /\ Opens(r.machine)
<1> DEFINE m == s.machine
           n == r.machine
<1>1. m \in Machine
  BY FitParts
<1>2. /\ n.phase = m.phase /\ n.pipeline = m.pipeline
      /\ n.audio_only = m.audio_only
      /\ n.has_separate_audio = m.has_separate_audio
      /\ Opens(n)
  BY <1>1, MachineIs DEF Opens
<1>3. InStep(s) => InStep(r)
  BY <1>2 DEF InStep, SameHands
<1>4. QED
  BY <1>2, <1>3, FitOpens, ShapesApart DEF Fit, SameHands, Sound

LEMMA DispatchMoves ==
    ASSUME NEW s, Fit(s), NEW e, Fair(s, e)
    PROVE  LET r == Dispatch(s, e)
           IN  /\ Sound(r) /\ SameHands(r, s) /\ r.epoch >= s.epoch
               /\ ~Plays(r.machine) =>
                    r.visible = s.visible /\ r.failed = s.failed
               /\ Fit(r) \/ Stops(r.machine)
               /\ e.type \notin Stoppers \cup {"OpenFailed"} =>
                    /\ Fit(r)
                    /\ Plays(s.machine) => Plays(r.machine)
               /\ \/ e.type \in {"PlaybackFailed", "Suspend"}
                  \/ e.type = "Close" /\ ~e.retain_pipeline
                  \/ e.type = "Reclaim" /\ s.machine.state = "Dormant"
                  \/ e.type = "OpenFailed" /\ Opens(s.machine)
                  => Stops(r.machine) \/ Rests(r.machine)
               /\ e.type = "Suspend" =>
                    /\ Stops(r.machine) =>
                            r.machine.quiesce_target = "Suspended"
                    /\ Rests(r.machine) => r.machine.state = "Suspended"
               /\ Opens(s.machine) /\ e.type = "Close" =>
                    r.epoch = s.epoch + 1
               /\ e.type = "Close" /\ e.retain_pipeline /\ Plays(s.machine) =>
                    Plays(r.machine) /\ r.machine.state = "Dormant"
<1> DEFINE m == s.machine
           d == Transition(m, e)
           r == Dispatch(s, e)
<1>1. /\ Sound(s) /\ m \in Machine /\ s.epoch \in Nat
      /\ Rests(m) \/ Opens(m) \/ Plays(m) \/ Stops(m)
      /\ Told(e) /\ ~Stale(s, e)
      /\ e.type \notin {"OpenPhaseComplete", "AdmissionStopped"}
  BY FitParts DEF Fair, Sound, Calls
<1>2. ASSUME d.next \in Machine, d.command \in Commands
      PROVE  /\ Sound(r) /\ SameHands(r, s) /\ r.machine = d.next
             /\ r.command = IF d.command # "None" THEN d.command
                            ELSE IF e.service_epoch # 0 THEN "None"
                            ELSE s.command
             /\ r.epoch = IF d.command # "None" THEN s.epoch + 1 ELSE s.epoch
             /\ Plays(r.machine) /\ r.machine.state # "Dormant" => r.visible
             /\ r.machine.state \notin Active \cup {"Dormant"} =>
                    r.visible = s.visible /\ r.failed = s.failed
  <2>1. /\ Sound(r) /\ SameHands(r, s) /\ r.machine = d.next
        /\ r.command = IF d.command # "None" THEN d.command
                       ELSE IF e.service_epoch # 0 THEN "None"
                       ELSE s.command
        /\ r.epoch = IF d.command # "None" THEN s.epoch + 1 ELSE s.epoch
        /\ d.next.state \in Active => r.visible
        /\ d.next.state \notin Active \cup {"Dormant"} =>
              r.visible = s.visible /\ r.failed = s.failed
    <3>1. /\ d = Transition(s.machine, e) /\ r = Dispatch(s, e)
          /\ Sound(s) /\ ~Stale(s, e)
          /\ d.next \in Machine /\ d.command \in Commands
      BY <1>1, <1>2
    <3> HIDE DEF d, r
    <3>2. QED
      BY <3>1, DispatchEffect
  <2> HIDE DEF d, r
  <2>2. QED
    BY <2>1, ShapesApart
<1> HIDE DEF m, r, d
<1>3. CASE Rests(m)
  <2>1. /\ \/ RestsOn(d)
           \/ /\ StartsOpen(d)
              /\ e.type \in {"Open", "Retry", "Resume"}
           \/ /\ StopsFor(d, "Failed")
              /\ e.type = "PlaybackFailed"
        /\ e.type = "Suspend" => d.next.state = "Suspended"
    BY <1>1, <1>3, RestsMoves DEF d
  <2>2. d.next \in Machine /\ d.command \in Commands
    BY <2>1 DEF RestsOn, StartsOpen, StopsFor, BeginsStop, Commands
  <2>3. s.owned = "None" /\ s.job = "None"
    BY <1>3, FitParts DEF m
  <2>4. CASE RestsOn(d)
    <3>1. Rests(r.machine) /\ Fit(r) /\ r.epoch = s.epoch
      BY <1>2, <2>2, <2>3, <2>4, FitWhenRests DEF RestsOn, SameHands
    <3>2. QED
      BY <1>1, <1>2, <1>3, <2>1, <2>2, <3>1, ShapesApart DEF r, m
  <2>5. CASE StartsOpen(d) /\ e.type \in {"Open", "Retry", "Resume"}
    <3>1. Opens(r.machine) /\ Fit(r) /\ r.epoch = s.epoch + 1
      BY <1>2, <2>2, <2>3, <2>5, FitWhenOpens DEF StartsOpen, SameHands
    <3>2. QED
      BY <1>1, <1>2, <1>3, <2>2, <2>5, <3>1, ShapesApart DEF r, m
  <2>6. CASE StopsFor(d, "Failed") /\ e.type = "PlaybackFailed"
    <3>1. Stops(r.machine) /\ r.epoch = s.epoch + 1
      BY <1>2, <2>2, <2>6 DEF StopsFor, BeginsStop
    <3>2. QED
      BY <1>1, <1>2, <1>3, <2>2, <2>6, <3>1, ShapesApart DEF r, m, Stoppers
  <2>7. QED
    BY <2>1, <2>4, <2>5, <2>6
<1>4. CASE Opens(m)
  <2>1. s.command = "StartOpenPhase" /\ (e.type = "Open" => s.job = "None")
        /\ (s.job = "None" => s.owned = "None")
    BY <1>4, FitOpens DEF Fair, m
  <2>2. CASE e.type = "Open"
    <3>1. StartsOpen(d)
      BY <1>1, <1>4, <2>2, OpensMoves DEF d
    <3>2. Opens(r.machine) /\ Fit(r) /\ r.epoch = s.epoch + 1
      BY <1>2, <2>1, <2>2, <3>1, FitWhenOpens
         DEF StartsOpen, SameHands, Commands
    <3>3. QED
      BY <1>1, <1>2, <1>4, <2>2, <3>1, <3>2, ShapesApart
         DEF r, m, StartsOpen, Commands
  <2>3. CASE e.type \in {"OpenFailed", "PlaybackFailed", "Close", "Suspend"}
    <3>1. /\ BeginsStop(d)
          /\ e.type = "Suspend" => StopsFor(d, "Suspended")
      BY <1>1, <1>4, <2>3, OpensMoves DEF d, StopsFor
    <3>2. Stops(r.machine) /\ r.epoch = s.epoch + 1
      BY <1>2, <3>1 DEF BeginsStop, Commands
    <3>3. QED
      BY <1>1, <1>2, <1>4, <2>3, <3>1, <3>2, ShapesApart
         DEF r, m, BeginsStop, StopsFor, Commands, Stoppers
  <2>4. CASE e.type \notin {"Open", "OpenFailed", "PlaybackFailed", "Close",
                            "Suspend"}
    <3>1. PICK b \in BOOLEAN : d = Quiet([m EXCEPT !.resume_playing = b])
      BY <1>1, <1>4, <2>4, OpensMoves DEF d
    <3>2. /\ d.next = [m EXCEPT !.resume_playing = b] /\ d.command = "None"
          /\ d.next \in Machine /\ Opens(d.next)
      <4>1. d.next = [m EXCEPT !.resume_playing = b] /\ d.command = "None"
        BY <3>1, DecideFields
      <4>2. QED
        BY <1>1, <1>4, <4>1, MachineIs DEF Opens
    <3>3. /\ r.machine = [m EXCEPT !.resume_playing = b]
          /\ r.command = s.command /\ r.epoch = s.epoch
          /\ r.visible = s.visible /\ r.failed = s.failed
          /\ Sound(r) /\ SameHands(r, s) /\ Opens(r.machine)
      BY <1>2, <1>4, <2>4, <3>2, ShapesApart DEF Commands, Fair, m
    <3>4. Fit(r)
      BY <1>4, <3>3, WaitingKeepsStep DEF m
    <3>5. QED
      BY <1>1, <1>4, <2>4, <3>3, <3>4, ShapesApart DEF r, m
  <2>5. QED
    BY <2>2, <2>3, <2>4
<1>5. CASE Stops(m)
  <2>1. /\ d.command = "None" /\ d.next \in Machine /\ Stops(d.next)
        /\ e.type = "Suspend" => d.next.quiesce_target = "Suspended"
    BY <1>1, <1>5, StopsMoves DEF d
  <2>2. s.job = "None" /\ (s.owned = "Full" => s.failed)
    BY <1>5, FitParts DEF m
  <2>3. /\ Stops(r.machine) /\ r.epoch = s.epoch
        /\ r.visible = s.visible /\ r.failed = s.failed
        /\ Sound(r) /\ SameHands(r, s) /\ r.machine = d.next
    BY <1>2, <2>1, ShapesApart DEF Commands
  <2>4. Fit(r)
    BY <2>2, <2>3, FitWhenStops DEF SameHands
  <2>5. QED
    BY <1>1, <1>5, <2>1, <2>3, <2>4, ShapesApart DEF r, m
<1>6. CASE Plays(m)
  <2>1. /\ Carries(m) /\ s.owned = "Full" /\ s.job \in {"None", "Seek"}
    BY <1>6, FitParts DEF m
  <2>2. e.type = "Open" => m.state # "Dormant" \/ e.reuse_pipeline
    BY DEF Fair, m
  <2>3. /\ GoesOn(d) \/ BeginsStop(d)
        /\ e.type \notin Stoppers => GoesOn(d)
        /\ e.type = "Close" /\ ~e.retain_pipeline => StopsFor(d, "Idle")
        /\ e.type = "Suspend" => StopsFor(d, "Suspended")
        /\ e.type = "PlaybackFailed" => StopsFor(d, "Failed")
        /\ e.type = "Close" /\ e.retain_pipeline =>
              GoesOn(d) /\ d.next.state = "Dormant"
        /\ e.type = "Reclaim" /\ m.state = "Dormant" => StopsFor(d, "Idle")
    BY <1>1, <1>6, <2>1, <2>2, PlaysMoves DEF d
  <2>4. d.next \in Machine /\ d.command \in Commands
    BY <2>3 DEF GoesOn, BeginsStop, Carries, Commands
  <2>5. /\ Sound(r) /\ SameHands(r, s) /\ r.machine = d.next
        /\ r.epoch >= s.epoch
        /\ Plays(r.machine) /\ r.machine.state # "Dormant" => r.visible
        /\ r.machine.state \notin Active \cup {"Dormant"} =>
              r.visible = s.visible /\ r.failed = s.failed
    BY <1>1, <1>2, <2>4
  <2>6. CASE GoesOn(d)
    <3>1. Plays(r.machine) /\ Fit(r)
      BY <2>1, <2>5, <2>6, FitWhenPlays DEF GoesOn, SameHands
    <3>2. /\ ~(e.type = "Close" /\ ~e.retain_pipeline)
          /\ e.type # "Suspend" /\ e.type # "PlaybackFailed"
          /\ ~(e.type = "Reclaim" /\ m.state = "Dormant")
      BY <2>3, <2>6, ShapesApart DEF StopsFor, BeginsStop, GoesOn
    <3>3. QED
      BY <1>6, <2>3, <2>5, <3>1, <3>2, ShapesApart DEF r, m
  <2>7. CASE BeginsStop(d)
    <3>1. Stops(r.machine)
      BY <2>5, <2>7 DEF BeginsStop
    <3>2. /\ e.type \in Stoppers
          /\ ~(e.type = "Close" /\ e.retain_pipeline)
      BY <2>3, <2>7, ShapesApart DEF BeginsStop, GoesOn
    <3>3. QED
      BY <1>6, <2>3, <2>5, <3>1, <3>2, ShapesApart DEF r, m, StopsFor
  <2>8. QED
    BY <2>3, <2>6, <2>7
<1>7. QED
  BY <1>1, <1>3, <1>4, <1>5, <1>6
-----------------------------------------------------------------------------
(***************************************************************************)
(* Teardown and rebuild.                                                   *)
(***************************************************************************)
\* The three completions of a teardown, one after the other.
LEMMA FinishMoves ==
    ASSUME NEW m \in Machine, Stops(m)
    PROVE  /\ \A e : e.type = "AdmissionStopped" =>
                  Transition(m, e) =
                      Decide([m EXCEPT !.phase = "CancelTransport"],
                             "CancelTransport")
           /\ \A e : e.type = "TransportCancelled" =>
                  Transition([m EXCEPT !.phase = "CancelTransport"], e) =
                      Decide([m EXCEPT !.phase = "Backend"],
                             "QuiesceBackend")
           /\ \A e : e.type \in {"BackendQuiesced", "BackendQuarantined"} =>
                  /\ RestsOn(Transition([m EXCEPT !.phase = "Backend"], e))
                  /\ Transition([m EXCEPT !.phase = "Backend"], e).next.state
                        = m.quiesce_target
<1> DEFINE n == [m EXCEPT !.phase = "CancelTransport"]
           q == [m EXCEPT !.phase = "Backend"]
<1>1. /\ n \in Machine /\ n.state = "Quiescing" /\ n.phase = "CancelTransport"
      /\ [n EXCEPT !.phase = "Backend"] = q
      /\ q \in Machine /\ q.state = "Quiescing" /\ q.phase = "Backend"
      /\ q.quiesce_target = m.quiesce_target /\ q.has_plan
  BY MachineIs DEF Stops
<1> HIDE DEF n, q
<1>2. \A e : e.type = "AdmissionStopped" =>
          Transition(m, e) = Decide(n, "CancelTransport")
  BY EnumFacts DEF Transition, OnQuiescing, Stops, n
<1>3. \A e : e.type = "TransportCancelled" =>
          Transition(n, e) = Decide(q, "QuiesceBackend")
  BY <1>1, EnumFacts DEF Transition, OnQuiescing
<1>4. ASSUME NEW p \in Machine, p.has_plan,
             p.quiesce_target = m.quiesce_target
      PROVE  /\ RestsOn(FinishQuiescing(p))
             /\ FinishQuiescing(p).next.state = m.quiesce_target
  <2> DEFINE rest == [p EXCEPT !.pipeline = "None", !.pending_seek = FALSE]
  <2>1. rest \in Machine /\ rest.has_plan /\ rest.pipeline = "None"
        /\ rest.suspended_resume_state = p.suspended_resume_state
    BY <1>4, MachineIs DEF Pipelines
  <2> HIDE DEF rest
  <2>2. m.quiesce_target \in {"Idle", "Failed", "Suspended"}
    BY DEF Stops
  <2>3. CASE m.quiesce_target = "Idle"
    <3> DEFINE w == Cleared(rest)
    <3> DEFINE f == Forgotten(rest)
    <3>0. /\ f \in Machine /\ f.state = "Idle" /\ f.phase = "None"
          /\ f.quiesce_target = "None" /\ f.pipeline = "None" /\ ~f.has_plan
      BY <2>1, MachineIs, EnumFacts DEF Forgotten, Enter, QuiesceTargets
    <3> HIDE DEF f
    <3>1. w \in Machine /\ Rests(w) /\ w.state = "Idle"
      BY <3>0, MachineIs DEF Rests, Cleared, f
    <3> HIDE DEF w
    <3>2. FinishQuiescing(p) = Quiet(w)
      BY <1>4, <2>3 DEF FinishQuiescing, rest, w
    <3>3. QED
      BY <2>3, <3>1, <3>2, DecideFields DEF RestsOn
  <2>4. CASE m.quiesce_target = "Failed"
    <3> DEFINE w == Enter(rest, "Failed", "None")
    <3>1. w \in Machine /\ Rests(w) /\ w.state = "Failed"
      BY <2>1, MachineIs, EnumFacts DEF Rests, Enter, QuiesceTargets
    <3> HIDE DEF w
    <3>2. FinishQuiescing(p) = Quiet(w)
      BY <1>4, <2>4 DEF FinishQuiescing, rest, w
    <3>3. QED
      BY <2>4, <3>1, <3>2, DecideFields DEF RestsOn
  <2>5. CASE m.quiesce_target = "Suspended"
    <3> DEFINE w == [Enter(rest, "Suspended", "None") EXCEPT
                        !.suspended_resume_state =
                            IF p.quarantined THEN "Failed" ELSE @]
    <3>1. w \in Machine /\ w.state = "Suspended"
      BY <2>1, MachineIs, EnumFacts DEF Enter, QuiesceTargets
    <3>2. Rests(w)
      <4>1. rest.quarantined = p.quarantined
        BY <1>4, MachineIs DEF rest
      <4>2. QED
        BY <2>1, <4>1, MachineIs, EnumFacts DEF Rests, Enter
    <3> HIDE DEF w
    <3>3. FinishQuiescing(p) = Quiet(w)
      BY <1>4, <2>5 DEF FinishQuiescing, rest, w
    <3>4. QED
      BY <2>5, <3>1, <3>2, <3>3, DecideFields DEF RestsOn
  <2>6. QED
    BY <2>2, <2>3, <2>4, <2>5
<1>5. \A e : e.type \in {"BackendQuiesced", "BackendQuarantined"} =>
          Transition(q, e) \in
              {FinishQuiescing(q),
               FinishQuiescing([q EXCEPT !.quarantined = TRUE])}
  BY <1>1, EnumFacts DEF Transition, OnQuiescing
<1>6. /\ [q EXCEPT !.quarantined = TRUE] \in Machine
      /\ [q EXCEPT !.quarantined = TRUE].has_plan
      /\ [q EXCEPT !.quarantined = TRUE].quiesce_target = m.quiesce_target
  BY <1>1, MachineIs
<1>7. \A e : e.type \in {"BackendQuiesced", "BackendQuarantined"} =>
          RestsOn(Transition(q, e))
          /\ Transition(q, e).next.state = m.quiesce_target
  <2> DEFINE u == [q EXCEPT !.quarantined = TRUE]
  <2>1. /\ RestsOn(FinishQuiescing(q))
        /\ FinishQuiescing(q).next.state = m.quiesce_target
    BY <1>1, <1>4
  <2>2. u \in Machine /\ u.has_plan /\ u.quiesce_target = m.quiesce_target
    BY <1>6
  <2> HIDE DEF u
  <2>3. /\ RestsOn(FinishQuiescing(u))
        /\ FinishQuiescing(u).next.state = m.quiesce_target
    BY <1>4, <2>2
  <2>4. QED
    BY <1>5, <2>1, <2>3 DEF u
<1>8. QED
  BY <1>2, <1>3, <1>7 DEF n, q

LEMMA FinishedEffect ==
    ASSUME NEW s, Sound(s), Stops(s.machine), NEW r, r = Finished(s)
    PROVE  /\ Sound(r) /\ SameHands(r, s) /\ r.epoch >= s.epoch
           /\ Rests(r.machine) /\ r.machine.state = s.machine.quiesce_target
           /\ r.visible = s.visible /\ r.failed = s.failed
<1> DEFINE m == s.machine
           e1 == Completion(s, "AdmissionStopped")
           c1 == Dispatch(s, e1)
           e2 == Completion(c1, "TransportCancelled")
           c2 == Dispatch(c1, e2)
           last == IF s.codec_stuck THEN "BackendQuarantined"
                   ELSE "BackendQuiesced"
           e3 == Completion(c2, last)
           n1 == [m EXCEPT !.phase = "CancelTransport"]
           n2 == [m EXCEPT !.phase = "Backend"]
<1>1. m \in Machine /\ s.epoch \in Nat
  BY DEF Sound, Calls
<1>2. /\ n1 \in Machine /\ n1.state \notin Active \cup {"Dormant"}
      /\ n2 \in Machine /\ n2.state \notin Active \cup {"Dormant"}
  BY <1>1, MachineIs, EnumFacts DEF Stops
<1> HIDE DEF n1, n2, m
<1>3. /\ Sound(c1) /\ SameHands(c1, s) /\ c1.machine = n1
      /\ c1.command = "CancelTransport" /\ c1.epoch = s.epoch + 1
      /\ c1.visible = s.visible /\ c1.failed = s.failed
  <2>1. ~Stale(s, e1) /\ e1.type = "AdmissionStopped"
    BY CompletionIs
  <2> HIDE DEF e1, c1
  <2> DEFINE d == Transition(m, e1)
  <2>2. d = Decide(n1, "CancelTransport")
    BY <1>1, <2>1, FinishMoves DEF m, n1
  <2> HIDE DEF d
  <2>3. d.next = n1 /\ d.command = "CancelTransport"
    BY <2>2, DecideFields
  <2>4. d.command \in Commands /\ d.command # "None"
    BY <2>3 DEF Commands
  <2>5. d = Transition(s.machine, e1) /\ c1 = Dispatch(s, e1)
    BY DEF d, m, c1
  <2>6. QED
    BY <1>2, <2>1, <2>3, <2>4, <2>5, DispatchEffect
<1> HIDE DEF c1
<1>4. /\ Sound(c2) /\ SameHands(c2, c1) /\ c2.machine = n2
      /\ c2.command = "QuiesceBackend" /\ c2.epoch = c1.epoch + 1
      /\ c2.visible = c1.visible /\ c2.failed = c1.failed
  <2>1. ~Stale(c1, e2) /\ e2.type = "TransportCancelled"
    BY CompletionIs
  <2> HIDE DEF e2, c2
  <2> DEFINE d == Transition(n1, e2)
  <2>2. d = Decide(n2, "QuiesceBackend")
    BY <1>1, <2>1, FinishMoves DEF m, n1, n2
  <2> HIDE DEF d
  <2>3. d.next = n2 /\ d.command = "QuiesceBackend"
    BY <2>2, DecideFields
  <2>4. d.command \in Commands /\ d.command # "None"
    BY <2>3 DEF Commands
  <2>5. d = Transition(c1.machine, e2) /\ c2 = Dispatch(c1, e2)
    BY <1>3 DEF d, c2
  <2>6. QED
    BY <1>2, <1>3, <2>1, <2>3, <2>4, <2>5, DispatchEffect
<1> HIDE DEF c2
<1>5. r = Dispatch(c2, e3)
  <2>1. c2.codec_stuck = s.codec_stuck
    BY <1>3, <1>4 DEF SameHands
  <2>2. s.machine.state = "Quiescing"
    BY DEF Stops
  <2>3. QED
    BY <2>1, <2>2 DEF Finished, Complete, c1, c2, e1, e2
<1>6. /\ Sound(r) /\ SameHands(r, c2) /\ r.epoch = c2.epoch
      /\ Rests(r.machine) /\ r.machine.state = m.quiesce_target
      /\ r.visible = c2.visible /\ r.failed = c2.failed
  <2>1. /\ ~Stale(c2, e3)
        /\ e3.type \in {"BackendQuiesced", "BackendQuarantined"}
    BY CompletionIs
  <2> HIDE DEF e3
  <2> DEFINE d == Transition(n2, e3)
  <2>2. RestsOn(d) /\ d.next.state = m.quiesce_target
    <3>1. m \in Machine /\ Stops(m)
      BY <1>1 DEF m
    <3>2. \A e : e.type \in {"BackendQuiesced", "BackendQuarantined"} =>
              /\ RestsOn(Transition(n2, e))
              /\ Transition(n2, e).next.state = m.quiesce_target
      BY <3>1, FinishMoves DEF n2
    <3>3. QED
      BY <2>1, <3>2
  <2> HIDE DEF d
  <2>3. d.command \in Commands /\ d.command = "None" /\ d.next \in Machine
        /\ Rests(d.next) /\ d.next.state \notin Active \cup {"Dormant"}
    BY <2>2, ShapesApart DEF Commands, RestsOn
  <2>4. d = Transition(c2.machine, e3)
    BY <1>4 DEF d
  <2>5. QED
    BY <1>4, <1>5, <2>1, <2>2, <2>3, <2>4, DispatchEffect
<1>7. SameHands(r, s)
  BY <1>3, <1>4, <1>6 DEF SameHands
<1>8. r.epoch >= s.epoch
  BY <1>1, <1>3, <1>4, <1>6
<1>9. QED
  BY <1>3, <1>4, <1>6, <1>7, <1>8 DEF m

\* What a rebuild never touches, but for what it sets on purpose.
SameCharge(r, s) ==
    /\ r.system_suspended = s.system_suspended
    /\ r.attempts = s.attempts /\ r.candidates = s.candidates

LEMMA DestroyedEffect ==
    ASSUME NEW s, Sound(s), NEW stuck \in BOOLEAN,
           NEW r, r = Destroyed(s, stuck)
    PROVE  /\ Sound(r) /\ SameCharge(r, s)
           /\ r.machine = s.machine /\ r.command = s.command
           /\ r.epoch = s.epoch
           /\ r.visible = s.visible /\ r.failed = s.failed
           /\ r.open_service_pending = s.open_service_pending
           /\ r.owned = "None" /\ r.job = "None"
           /\ r.source = s.source /\ r.audio_only = s.audio_only
<1> DEFINE b == s.codec_stuck \/ (s.owned = "Full" /\ stuck)
<1>1. b \in BOOLEAN
  BY DEF Sound, Calls
<1> HIDE DEF b
<1>2. r = [s EXCEPT !.owned = "None", !.job = "None", !.hls = FALSE,
                    !.pause_boundary = FALSE, !.buffering_service = FALSE,
                    !.codec_stuck = b]
  BY DEF Destroyed, b, Sound, Calls
<1>3. QED
  BY <1>1, <1>2 DEF Sound, Calls, Pipelines, SameCharge

\* Whatever has stopped or is at rest is at rest once released.
LEMMA ReleasedFits ==
    ASSUME NEW s, Sound(s), Stops(s.machine) \/ Rests(s.machine),
           NEW stuck \in BOOLEAN,
           NEW r, r = Finished(Destroyed(s, stuck))
    PROVE  /\ Fit(r) /\ Sound(r) /\ SameCharge(r, s)
           /\ r.epoch >= s.epoch /\ Rests(r.machine)
           /\ r.owned = "None" /\ r.job = "None"
           /\ r.visible = s.visible /\ r.failed = s.failed
           /\ r.open_service_pending = s.open_service_pending
           /\ Stops(s.machine) => r.machine.state = s.machine.quiesce_target
           /\ Rests(s.machine) => r.machine = s.machine
<1> DEFINE t == Destroyed(s, stuck)
<1>1. /\ Sound(t) /\ SameCharge(t, s)
      /\ t.machine = s.machine /\ t.epoch = s.epoch
      /\ t.visible = s.visible /\ t.failed = s.failed
      /\ t.open_service_pending = s.open_service_pending
      /\ t.owned = "None" /\ t.job = "None"
  BY DestroyedEffect
<1>2. s.epoch \in Nat
  BY DEF Sound, Calls
<1>3. r = Finished(t)
  OBVIOUS
<1> HIDE DEF t
<1>4. CASE Stops(s.machine)
  <2>1. /\ Sound(r) /\ SameHands(r, t) /\ r.epoch >= t.epoch
        /\ Rests(r.machine) /\ r.machine.state = t.machine.quiesce_target
        /\ r.visible = t.visible /\ r.failed = t.failed
    BY <1>1, <1>3, <1>4, FinishedEffect
  <2>2. QED
    BY <1>1, <1>4, <2>1, FitWhenRests, ShapesApart
       DEF SameHands, SameCharge
<1>5. CASE Rests(s.machine)
  <2>1. r = t
    BY <1>1, <1>3, <1>5, ShapesApart DEF Finished
  <2>2. QED
    BY <1>1, <1>2, <1>5, <2>1, FitWhenRests, ShapesApart
<1>6. QED
  BY <1>4, <1>5

LEMMA RetiredFits ==
    ASSUME NEW s, Fit(s), NEW stuck \in BOOLEAN, NEW r, r = Retired(s, stuck)
    PROVE  /\ Fit(r) /\ SameCharge(r, s)
           /\ r.epoch >= s.epoch /\ Rests(r.machine)
           /\ r.owned = "None" /\ r.job = "None"
           /\ r.open_service_pending = s.open_service_pending
           /\ Opens(s.machine) => r.epoch > s.epoch
<1> DEFINE e == Event("Close")
           t == Tell(s, "Close")
<1>1. Fair(s, e) /\ e.type = "Close" /\ ~e.retain_pipeline
  BY EventIs, NewsIsCurrent DEF Fair
<1>2. t = Dispatch(s, e)
  BY DEF Tell
<1>3. s.epoch \in Nat
  BY FitParts DEF Sound, Calls
<1> HIDE DEF e, t
<1>4. /\ Sound(t) /\ SameHands(t, s) /\ t.epoch >= s.epoch
      /\ Stops(t.machine) \/ Rests(t.machine)
      /\ Opens(s.machine) => t.epoch = s.epoch + 1
  BY <1>1, <1>2, DispatchMoves
<1>5. r = Finished(Destroyed(t, stuck))
  BY DEF Retired, t
<1>6. /\ Fit(r) /\ SameCharge(r, t)
      /\ r.epoch >= t.epoch /\ Rests(r.machine)
      /\ r.owned = "None" /\ r.job = "None"
      /\ r.open_service_pending = t.open_service_pending
  BY <1>4, <1>5, ReleasedFits
<1>7. r.epoch \in Nat /\ t.epoch \in Nat
  BY <1>4, <1>6, FitParts DEF Sound, Calls
<1>8. QED
  BY <1>3, <1>4, <1>6, <1>7 DEF SameCharge, SameHands

\* What Fit says of a session depends on these alone.
LEMMA FitSame ==
    ASSUME NEW s, Fit(s), NEW r, r \in Calls,
           r.machine = s.machine, r.command = s.command, r.epoch = s.epoch,
           r.owned = s.owned, r.job = s.job,
           r.open_service_pending = s.open_service_pending
           \/ s.job = "None" \/ ~Opens(s.machine),
           r.source = s.source, r.audio_only = s.audio_only, r.hls = s.hls,
           r.split_streams = s.split_streams,
           s.visible => r.visible,
           Opens(s.machine) => s.job = "None" \/ r.failed = s.failed,
           Stops(s.machine) => s.owned # "Full" \/ r.failed
    PROVE  Fit(r)
<1>1. InStep(s) => InStep(r)
  BY DEF InStep
<1>2. QED
  BY <1>1, ShapesApart DEF Fit

LEMMA RaisedIs ==
    ASSUME NEW s, Sound(s), NEW r, r = Raised([s EXCEPT !.job = "None"])
    PROVE  /\ Sound(r) /\ SameCharge(r, s) /\ r.machine = s.machine
           /\ r.command = s.command /\ r.epoch = s.epoch
           /\ r.owned = s.owned /\ r.job = "None" /\ r.failed /\ r.visible
           /\ r.open_service_pending = s.open_service_pending
           /\ r.source = s.source /\ r.audio_only = s.audio_only
<1>1. r = [s EXCEPT !.job = "None", !.failed = TRUE, !.visible = TRUE]
  BY DEF Raised, Sound, Calls
<1>2. QED
  BY <1>1 DEF Sound, Calls, SameCharge

\* A failed job leaves nothing of it, and an open no more.
LEMMA JobFailedFits ==
    ASSUME NEW s, Sound(s),
           Fit(s) \/ (Opens(s.machine) /\ s.job \in OpenJobs \cup {"None"}),
           NEW r, r = JobFailed(s)
    PROVE  /\ Fit(r) /\ SameCharge(r, s) /\ r.epoch >= s.epoch
           /\ ~Opens(r.machine) /\ r.job = "None"
           /\ r.owned = s.owned
           /\ ~Plays(s.machine) => r.failed
           /\ s.job = "None" \/ Opens(s.machine) =>
                 Stops(r.machine) \/ Rests(r.machine)
<1> DEFINE t == Raised([s EXCEPT !.job = "None"])
           type == CASE s.job \in OpenJobs -> "OpenFailed"
                     [] s.job = "Seek" -> "SeekFailed"
                     [] OTHER -> "PlaybackFailed"
           e == Completion(t, type)
           u == Dispatch(t, e)
<1>1. /\ Sound(t) /\ SameCharge(t, s) /\ t.machine = s.machine
      /\ t.command = s.command /\ t.epoch = s.epoch
      /\ t.owned = s.owned /\ t.job = "None" /\ t.failed /\ t.visible
  BY RaisedIs
<1>2. /\ Told(e) /\ ~Stale(t, e) /\ e.type = type
  <2> HIDE DEF t, type
  <2>1. QED
    BY CompletionIs
<1>3. r = FinishedIfEmpty(u)
  BY DEF JobFailed, Complete
<1>4. /\ type \in {"OpenFailed", "SeekFailed", "PlaybackFailed"}
      /\ s.job = "Seek" => type = "SeekFailed"
      /\ s.job = "None" => type = "PlaybackFailed"
      /\ Opens(s.machine) => type \in {"OpenFailed", "PlaybackFailed"}
      /\ type = "OpenFailed" <=> s.job \in OpenJobs
  <2>1. Opens(s.machine) => s.job # "Seek"
    BY FitOpens DEF OpenJobs
  <2>2. QED
    BY <2>1 DEF OpenJobs
<1>5. s.epoch \in Nat /\ t.epoch \in Nat
  BY <1>1 DEF Sound, Calls
<1> HIDE DEF t, e, u, type
<1>6. /\ Sound(u) /\ SameHands(u, t) /\ u.epoch >= t.epoch
      /\ ~Plays(u.machine) => u.visible = t.visible /\ u.failed = t.failed
      /\ Fit(u) \/ Stops(u.machine)
      /\ ~Opens(u.machine)
      /\ ~Plays(s.machine) => ~Plays(u.machine)
      /\ s.job = "None" \/ Opens(s.machine) =>
            Stops(u.machine) \/ Rests(u.machine)
  <2>1. CASE Opens(s.machine)
    <3> DEFINE d == Transition(t.machine, e)
    <3>1. t.machine \in Machine /\ Opens(t.machine)
          /\ e.type \in {"OpenFailed", "PlaybackFailed"}
      BY <1>1, <1>2, <1>4, <2>1 DEF Sound, Calls
    <3>2. BeginsStop(d)
      BY <1>2, <3>1, OpensMoves DEF StopsFor
    <3>3. d = Transition(t.machine, e) /\ u = Dispatch(t, e)
      BY DEF u
    <3> HIDE DEF d
    <3>4. d.next \in Machine /\ Stops(d.next) /\ d.command \in Commands
          /\ d.next.state \notin Active \cup {"Dormant"}
          /\ d.command # "None"
      BY <3>2, ShapesApart DEF BeginsStop, Commands
    <3>5. /\ Sound(u) /\ SameHands(u, t) /\ u.machine = d.next
          /\ u.epoch = t.epoch + 1
          /\ u.visible = t.visible /\ u.failed = t.failed
      <4>1. Sound(t) /\ ~Stale(t, e)
        BY <1>1, <1>2
      <4>2. QED
        BY <3>3, <3>4, <4>1, DispatchEffect
    <3>6. QED
      BY <1>5, <3>4, <3>5, ShapesApart
  <2>2. CASE ~Opens(s.machine)
    <3>0. Fit(s)
      BY <2>2
    <3>1. Fit(t)
      BY <1>1, <2>2, <3>0, FitParts, FitWhenRests, FitWhenStops, FitWhenPlays
    <3>2. Fair(t, e)
      BY <1>1, <1>2, <1>4, <2>2 DEF Fair
    <3>3. /\ Sound(u) /\ SameHands(u, t) /\ u.epoch >= t.epoch
          /\ ~Plays(u.machine) => u.visible = t.visible /\ u.failed = t.failed
          /\ Fit(u) \/ Stops(u.machine)
          /\ e.type = "PlaybackFailed" => Stops(u.machine) \/ Rests(u.machine)
      BY <3>1, <3>2, DispatchMoves DEF u
    <3>4. /\ ~Opens(u.machine)
          /\ ~Plays(s.machine) => ~Plays(u.machine)
      <4> DEFINE d == Transition(t.machine, e)
      <4>1. d = Transition(t.machine, e) /\ u = Dispatch(t, e)
        BY DEF u
      <4>2. t.machine \in Machine
        BY <3>1, FitParts
      <4>3. CASE Plays(s.machine)
        <5>1. Carries(t.machine) /\ Plays(t.machine)
          BY <1>1, <3>0, <4>3, FitParts
        <5>2. GoesOn(d) \/ BeginsStop(d)
          BY <1>2, <1>4, <5>1, PlaysMoves
        <5> HIDE DEF d
        <5>3. d.next \in Machine /\ d.command \in Commands
              /\ ~Opens(d.next)
          BY <5>2, ShapesApart DEF GoesOn, BeginsStop, Carries, Commands
        <5>4. u.machine = d.next
          BY <1>1, <1>2, <4>1, <5>3, DispatchEffect
        <5>5. QED
          BY <4>3, <5>3, <5>4
      <4>4. CASE Rests(s.machine)
        <5>1. RestsOn(d) \/ StopsFor(d, "Failed")
          BY <1>1, <1>2, <1>4, <4>2, <4>4, RestsMoves
        <5> HIDE DEF d
        <5>2. d.next \in Machine /\ d.command \in Commands
              /\ ~Opens(d.next) /\ ~Plays(d.next)
          BY <5>1, ShapesApart
             DEF RestsOn, StopsFor, BeginsStop, Commands
        <5>3. u.machine = d.next
          BY <1>1, <1>2, <4>1, <5>2, DispatchEffect
        <5>4. QED
          BY <5>2, <5>3
      <4>5. CASE Stops(s.machine)
        <5>1. /\ d.command = "None" /\ d.next \in Machine /\ Stops(d.next)
          BY <1>1, <1>2, <1>4, <4>2, <4>5, StopsMoves
        <5> HIDE DEF d
        <5>2. d.command \in Commands /\ ~Opens(d.next) /\ ~Plays(d.next)
          BY <5>1, ShapesApart DEF Commands
        <5>3. u.machine = d.next
          BY <1>1, <1>2, <4>1, <5>1, <5>2, DispatchEffect
        <5>4. QED
          BY <5>2, <5>3
      <4>6. QED
        BY <2>2, <3>0, <4>3, <4>4, <4>5, FitParts
    <3>5. QED
      BY <1>2, <1>4, <2>2, <3>3, <3>4
  <2>3. QED
    BY <2>1, <2>2
<1>7. CASE u.owned # "None" \/ ~Stops(u.machine)
  <2>1. r = u
    <3>1. CASE u.owned # "None"
      BY <1>3, <3>1 DEF FinishedIfEmpty
    <3>2. CASE ~Stops(u.machine)
      <4>1. u.machine.state # "Quiescing"
        BY <1>6, <3>2, FitParts, ShapesApart
      <4>2. QED
        BY <1>3, <4>1 DEF FinishedIfEmpty, Finished
    <3>3. QED
      BY <1>7, <3>1, <3>2
  <2>2. Fit(u)
    <3>1. CASE Stops(u.machine)
      BY <1>1, <1>6, <3>1, FitWhenStops, ShapesApart DEF SameHands
    <3>2. QED
      BY <1>6, <3>1
  <2>3. QED
    BY <1>1, <1>6, <2>1, <2>2 DEF SameHands, SameCharge
<1>8. CASE u.owned = "None" /\ Stops(u.machine)
  <2>1. r = Finished(u)
    BY <1>3, <1>8 DEF FinishedIfEmpty
  <2>2. /\ Sound(r) /\ SameHands(r, u) /\ r.epoch >= u.epoch
        /\ Rests(r.machine)
        /\ r.visible = u.visible /\ r.failed = u.failed
    BY <1>6, <1>8, <2>1, FinishedEffect
  <2>3. Fit(r)
    BY <1>1, <1>6, <1>8, <2>2, FitWhenRests DEF SameHands
  <2>4. r.epoch \in Nat /\ u.epoch \in Nat
    BY <1>6, <2>2 DEF Sound, Calls
  <2>5. SameCharge(r, s) /\ r.owned = s.owned /\ r.job = "None"
    BY <1>1, <1>6, <2>2 DEF SameHands, SameCharge
  <2>6. ~Opens(r.machine) /\ r.failed
    BY <1>1, <1>6, <1>8, <2>2, ShapesApart
  <2>7. r.epoch >= s.epoch
    BY <1>1, <1>5, <1>6, <2>2, <2>4
  <2>8. QED
    BY <2>2, <2>3, <2>5, <2>6, <2>7
<1>9. QED
  BY <1>7, <1>8

LEMMA WantsIsBoolean ==
    ASSUME NEW s, Fit(s)
    PROVE  WantsPlaying(s) \in BOOLEAN
BY FitParts, MachineIs DEF WantsPlaying

LEMMA OpenRequestedFits ==
    ASSUME NEW s, Fit(s), s.owned # "Full",
           Opens(s.machine) => s.job = "None",
           NEW autoplay \in BOOLEAN, NEW r, r = OpenRequested(s, autoplay)
    PROVE  /\ Fit(r) /\ SameCharge(r, s) /\ r.epoch >= s.epoch
           /\ r.owned = s.owned /\ r.job = s.job /\ r.open_service_pending
<1> DEFINE t == [s EXCEPT !.open_service_pending = TRUE]
           e == OpenEvent(t, autoplay)
           u == Dispatch(t, e)
<1>1. /\ t \in Calls /\ t.machine = s.machine /\ t.command = s.command
      /\ t.epoch = s.epoch /\ t.owned = s.owned /\ t.job = s.job
      /\ t.source = s.source /\ t.audio_only = s.audio_only
      /\ t.hls = s.hls /\ t.split_streams = s.split_streams
      /\ t.visible = s.visible /\ t.failed = s.failed
      /\ t.open_service_pending /\ SameCharge(t, s) /\ t.epoch \in Nat
      /\ t.audio_only \in BOOLEAN
  <2>1. s \in Calls
    BY FitParts DEF Sound
  <2>2. QED
    BY <2>1 DEF Calls, SameCharge
<1> DEFINE e2 == OpenEvent(s, autoplay)
<1>2. /\ e = e2 /\ Told(e2) /\ e2.type = "Open" /\ e2.service_epoch = 0
  BY <1>1 DEF OpenEvent, Event, Told, Readinesses
<1>3. r = Resolving(u)
  BY <1>1, <1>2 DEF OpenRequested, OpenEvent
<1> HIDE DEF t, e, e2, u
<1>4. Fit(t)
  <2>1. Stops(s.machine) => s.owned # "Full"
    OBVIOUS
  <2>2. s.job = "None" \/ ~Opens(s.machine)
    OBVIOUS
  <2>3. QED
    BY <1>1, <2>1, <2>2, FitSame
<1>5. Fair(t, e)
  <2>1. t.machine.state # "Dormant"
    <3>1. ~Plays(t.machine)
      BY <1>1, <1>4, FitParts
    <3>2. QED
      BY <1>4, <3>1, FitParts, ShapesApart
  <2>2. QED
    BY <1>1, <1>2, <2>1, NewsIsCurrent DEF Fair
<1>6. Fit(u) /\ SameHands(u, t) /\ u.epoch >= t.epoch
  BY <1>2, <1>4, <1>5, DispatchMoves DEF u, Stoppers
<1>7. /\ r \in Calls /\ r.machine = u.machine /\ r.command = u.command
      /\ r.epoch = u.epoch /\ r.owned = u.owned /\ r.job = u.job
      /\ r.source = u.source /\ r.audio_only = u.audio_only
      /\ r.hls = u.hls /\ r.split_streams = u.split_streams
      /\ r.open_service_pending = u.open_service_pending
      /\ r.visible /\ ~r.failed /\ SameCharge(r, u)
  <2>1. u \in Calls
    BY <1>6, FitParts DEF Sound
  <2>2. r = [u EXCEPT !.failed = FALSE, !.visible = TRUE]
    BY <1>3 DEF Resolving
  <2>3. QED
    BY <2>1, <2>2 DEF Calls, SameCharge
<1>8. Opens(u.machine) => u.job = "None"
  BY <1>1, <1>6, FitOpens DEF SameHands
<1>9. Fit(r)
  <2>1. Stops(u.machine) => u.owned # "Full"
    BY <1>1, <1>6 DEF SameHands
  <2>2. QED
    BY <1>6, <1>7, <1>8, <2>1, FitSame
<1>10. QED
  BY <1>1, <1>6, <1>7, <1>9 DEF SameHands, SameCharge

\* A session put together anew: an open of its own, or the failure panel.
Redone(r, s) ==
    /\ Fit(r) /\ r.job = "None" /\ r.system_suspended = s.system_suspended
    /\ r.epoch >= s.epoch
    /\ Opens(s.machine) => r.epoch > s.epoch

LEMMA RebuiltFits ==
    ASSUME NEW s, Fit(s), NEW stuck \in BOOLEAN, NEW autoplay \in BOOLEAN,
           NEW r, r = Rebuilt(s, stuck, autoplay)
    PROVE  Redone(r, s) /\ SameCharge(r, s)
<1> DEFINE t == Retired(s, stuck)
<1>1. /\ Fit(t) /\ SameCharge(t, s)
      /\ t.epoch >= s.epoch /\ Rests(t.machine)
      /\ t.owned = "None" /\ t.job = "None"
      /\ Opens(s.machine) => t.epoch > s.epoch
  BY RetiredFits
<1>2. r = Reopened(t, autoplay)
  BY DEF Rebuilt
<1> HIDE DEF t
<1>3. /\ Fit(r) /\ SameCharge(r, t) /\ r.epoch >= t.epoch /\ r.job = "None"
  <2>1. CASE t.codec_stuck
    <3>1. r = JobFailed(t)
      BY <1>2, <2>1 DEF Reopened
    <3>2. Sound(t)
      BY <1>1, FitParts
    <3>3. QED
      BY <1>1, <3>1, <3>2, JobFailedFits
  <2>2. CASE ~t.codec_stuck
    <3>1. r = OpenRequested(t, autoplay)
      BY <1>2, <2>2 DEF Reopened
    <3>2. ~Opens(t.machine)
      BY <1>1, ShapesApart
    <3>3. QED
      BY <1>1, <3>1, <3>2, OpenRequestedFits
  <2>3. QED
    BY <2>1, <2>2
<1>4. s.epoch \in Nat /\ t.epoch \in Nat /\ r.epoch \in Nat
  BY <1>1, <1>3, FitParts DEF Sound, Calls
<1>5. QED
  BY <1>1, <1>3, <1>4 DEF Redone, SameCharge

LEMMA RouteOpenedFits ==
    ASSUME NEW s, Fit(s), NEW source \in Sources \cup {"None"},
           NEW audio \in BOOLEAN, NEW autoplay \in BOOLEAN,
           NEW candidates \in 0..MaxCandidates, NEW stuck \in BOOLEAN,
           NEW r, r = RouteOpened(s, source, audio, autoplay, candidates, stuck)
    PROVE  Redone(r, s)
<1> DEFINE t == Retired(s, stuck)
           u == [t EXCEPT !.source = source, !.audio_only = audio,
                          !.attempts = 0, !.quality_fallback = FALSE,
                          !.candidates = candidates]
<1>1. /\ Fit(t) /\ SameCharge(t, s)
      /\ t.epoch >= s.epoch /\ Rests(t.machine)
      /\ t.owned = "None" /\ t.job = "None"
      /\ Opens(s.machine) => t.epoch > s.epoch
  BY RetiredFits
<1>2. r = OpenRequested(u, autoplay)
  BY DEF RouteOpened
<1> HIDE DEF t
<1>3. /\ Sound(u) /\ u.machine = t.machine /\ u.owned = "None"
      /\ u.job = "None" /\ u.epoch = t.epoch
      /\ u.system_suspended = t.system_suspended
  <2>1. Sound(t)
    BY <1>1, FitParts
  <2>2. 0 \in 0..MaxAttempts
    BY SessionAssumption
  <2>3. QED
    BY <1>1, <2>1, <2>2 DEF Sound, Calls
<1> HIDE DEF u
<1>4. Fit(u) /\ ~Opens(u.machine)
  BY <1>1, <1>3, FitWhenRests, ShapesApart
<1>5. /\ Fit(r) /\ SameCharge(r, u) /\ r.epoch >= u.epoch /\ r.job = "None"
  BY <1>2, <1>3, <1>4, OpenRequestedFits
<1>6. s.epoch \in Nat /\ t.epoch \in Nat /\ r.epoch \in Nat
  BY <1>1, <1>5, FitParts DEF Sound, Calls
<1>7. QED
  BY <1>1, <1>3, <1>5, <1>6 DEF Redone, SameCharge

\* Charging a rung changes nothing Fit looks at.
LEMMA ChargedFits ==
    ASSUME NEW s, NEW t, Redone(t, s),
           NEW attempts \in 0..MaxAttempts, NEW fallback \in BOOLEAN
    PROVE  /\ Redone([t EXCEPT !.attempts = attempts], s)
           /\ Redone([t EXCEPT !.quality_fallback = fallback], s)
<1>1. Fit(t) /\ t \in Calls
  BY FitParts DEF Redone, Sound
<1>2. ASSUME NEW r \in Calls, SameHands(r, [t EXCEPT !.attempts = r.attempts,
                                   !.quality_fallback = r.quality_fallback]),
             r.machine = t.machine, r.command = t.command,
             r.epoch = t.epoch, r.visible = t.visible, r.failed = t.failed
      PROVE  Redone(r, s)
  <2>1. /\ r.owned = t.owned /\ r.job = t.job
        /\ r.open_service_pending = t.open_service_pending
        /\ r.source = t.source /\ r.audio_only = t.audio_only
        /\ r.hls = t.hls /\ r.split_streams = t.split_streams
        /\ r.system_suspended = t.system_suspended
    BY <1>1, <1>2 DEF SameHands, Calls
  <2>2. Stops(t.machine) => t.owned # "Full" \/ r.failed
    BY <1>1, <1>2, FitParts
  <2>3. Fit(r)
    BY <1>1, <1>2, <2>1, <2>2, FitSame
  <2>4. QED
    BY <1>2, <2>1, <2>3 DEF Redone
<1>3. Redone([t EXCEPT !.attempts = attempts], s)
  <2> DEFINE r == [t EXCEPT !.attempts = attempts]
  <2>1. /\ r \in Calls
        /\ SameHands(r, [t EXCEPT !.attempts = r.attempts,
                                  !.quality_fallback = r.quality_fallback])
        /\ r.machine = t.machine /\ r.command = t.command
        /\ r.epoch = t.epoch /\ r.visible = t.visible /\ r.failed = t.failed
    BY <1>1 DEF SameHands, Calls
  <2> HIDE DEF r
  <2>2. Redone(r, s)
    BY <1>2, <2>1
  <2>3. QED
    BY <2>2 DEF r
<1>4. Redone([t EXCEPT !.quality_fallback = fallback], s)
  <2> DEFINE r == [t EXCEPT !.quality_fallback = fallback]
  <2>1. /\ r \in Calls
        /\ SameHands(r, [t EXCEPT !.attempts = r.attempts,
                                  !.quality_fallback = r.quality_fallback])
        /\ r.machine = t.machine /\ r.command = t.command
        /\ r.epoch = t.epoch /\ r.visible = t.visible /\ r.failed = t.failed
    BY <1>1 DEF SameHands, Calls
  <2> HIDE DEF r
  <2>2. Redone(r, s)
    BY <1>2, <2>1
  <2>3. QED
    BY <2>2 DEF r
<1>5. QED
  BY <1>3, <1>4

\* Every rung of the retry ladder.
LEMMA RetriesFit ==
    ASSUME NEW s, Fit(s)
    PROVE  /\ \A r \in PageCandidate(s) : Redone(r, s)
           /\ \A r \in QualityRetry(s) : Redone(r, s)
           /\ \A r \in Charged(TransportRetry(s)) : Redone(r, s)
           /\ \A r \in DeliveryRetry(s) : Redone(r, s)
<1>1. /\ s.attempts \in 0..MaxAttempts /\ s.candidates \in 0..MaxCandidates
      /\ WantsPlaying(s) \in BOOLEAN /\ MaxAttempts \in Nat
      /\ MaxCandidates \in Nat
  BY FitParts, WantsIsBoolean, SessionAssumption DEF Sound, Calls
<1>2. ASSUME NEW stuck \in BOOLEAN
      PROVE  /\ Redone(Rebuilt(s, stuck, WantsPlaying(s)), s)
             /\ SameCharge(Rebuilt(s, stuck, WantsPlaying(s)), s)
  BY <1>1, RebuiltFits
<1>3. ASSUME NEW r \in PageCandidate(s)
      PROVE  Redone(r, s)
  <2>1. s.candidates > 0
    BY <1>3 DEF PageCandidate
  <2>2. PICK stuck \in BOOLEAN :
          r = RouteOpened(s, "Page", FALSE, TRUE, s.candidates - 1, stuck)
    BY <1>3 DEF PageCandidate
  <2>3. s.candidates - 1 \in 0..MaxCandidates /\ "Page" \in Sources
    BY <1>1, <2>1 DEF Sources
  <2>4. QED
    BY <2>2, <2>3, RouteOpenedFits
<1>4. ASSUME NEW r \in QualityRetry(s)
      PROVE  Redone(r, s)
  <2>1. PICK stuck \in BOOLEAN :
          LET t == Rebuilt(s, stuck, WantsPlaying(s))
          IN  r = IF t.codec_stuck THEN t
                  ELSE [t EXCEPT !.quality_fallback = TRUE]
    BY <1>4 DEF QualityRetry
  <2> DEFINE t == Rebuilt(s, stuck, WantsPlaying(s))
  <2>2. Redone(t, s) /\ r \in {t, [t EXCEPT !.quality_fallback = TRUE]}
    BY <1>2, <2>1
  <2> HIDE DEF t
  <2>3. 0 \in 0..MaxAttempts
    BY <1>1
  <2>4. QED
    BY <2>2, <2>3, ChargedFits
<1>5. ASSUME NEW r \in TransportRetry(s)
      PROVE  Redone(r, s) /\ SameCharge(r, s) /\ s.attempts < MaxAttempts
  <2>1. s.attempts < MaxAttempts
    BY <1>1, <1>5 DEF TransportRetry
  <2>2. PICK stuck \in BOOLEAN : r = Rebuilt(s, stuck, WantsPlaying(s))
    BY <1>5 DEF TransportRetry
  <2>3. QED
    BY <1>2, <2>1, <2>2
<1>6. ASSUME NEW t, Redone(t, s), t.attempts < MaxAttempts
      PROVE  Redone(Counted(t), s)
  <2>1. t \in Calls
    BY <1>6, FitParts DEF Redone, Sound
  <2>2. t.attempts + 1 \in 0..MaxAttempts
    BY <1>1, <1>6, <2>1 DEF Calls
  <2>3. Counted(t) = [t EXCEPT !.attempts = t.attempts + 1]
    BY <2>1 DEF Counted, Calls
  <2>4. QED
    BY <1>6, <2>2, <2>3, ChargedFits
<1>7. ASSUME NEW rebuilt,
             \A t \in rebuilt : Redone(t, s) /\ t.attempts < MaxAttempts,
             NEW r \in Charged(rebuilt)
      PROVE  Redone(r, s)
  <2>1. PICK t \in rebuilt : r = IF t.codec_stuck THEN t ELSE Counted(t)
    BY <1>7 DEF Charged
  <2>2. QED
    BY <1>6, <1>7, <2>1
<1>8. \A t \in TransportRetry(s) : Redone(t, s) /\ t.attempts < MaxAttempts
  BY <1>5 DEF SameCharge
<1>9. ASSUME NEW r \in DeliveryRetry(s)
      PROVE  Redone(r, s)
  <2> DEFINE lower == IF s.attempts # 0 THEN QualityRetry(s) ELSE {}
             rebuilt == TransportRetry(s) \cup lower
  <2>1. s.attempts < MaxAttempts /\ r \in Charged(rebuilt)
    BY <1>1, <1>9 DEF DeliveryRetry
  <2>2. \A t \in QualityRetry(s) : t.attempts = s.attempts
    <3>1. SUFFICES ASSUME NEW t \in QualityRetry(s)
                   PROVE  t.attempts = s.attempts
      OBVIOUS
    <3>2. PICK stuck \in BOOLEAN :
            LET q == Rebuilt(s, stuck, WantsPlaying(s))
            IN  t = IF q.codec_stuck THEN q
                    ELSE [q EXCEPT !.quality_fallback = TRUE]
      BY <3>1 DEF QualityRetry
    <3> DEFINE q == Rebuilt(s, stuck, WantsPlaying(s))
    <3>3. /\ q \in Calls /\ q.attempts = s.attempts
          /\ t \in {q, [q EXCEPT !.quality_fallback = TRUE]}
      BY <1>2, <3>2, FitParts DEF Redone, SameCharge, Sound
    <3> HIDE DEF q
    <3>4. QED
      BY <3>3 DEF Calls
  <2>3. \A t \in rebuilt : Redone(t, s) /\ t.attempts < MaxAttempts
    BY <1>4, <1>8, <2>1, <2>2
  <2> HIDE DEF rebuilt
  <2>4. QED
    BY <1>7, <2>1, <2>3
<1>10. \A r \in Charged(TransportRetry(s)) : Redone(r, s)
  BY <1>7, <1>8
<1>11. QED
  BY <1>3, <1>4, <1>9, <1>10
-----------------------------------------------------------------------------
(***************************************************************************)
(* The open: the order of its jobs, and of the phases of its chart.        *)
(***************************************************************************)
AudioPath ==
    <<"Resolve", "DecoderPrepare", "AudioRange", "AudioDemux",
      "Playback">>
PlainPath ==
    <<"Resolve", "DecoderPrepare", "VideoRange", "VideoDemux",
      "VideoPrime", "Playback">>
HlsPath ==
    <<"Resolve", "DecoderPrepare", "VideoRange", "VideoDemux",
      "VideoPrime", "AudioRange", "AudioDemux", "Playback">>
PagePath ==
    <<"Resolve", "VideoRange", "VideoDemux", "DecoderPrepare",
      "VideoPrime", "Playback">>
SplitPath ==
    <<"Resolve", "DecoderPrepare", "VideoRange", "VideoDemux",
      "AudioRange", "AudioDemux", "VideoPrime", "Playback">>
AudioChart ==
    <<"Resolving", "DecoderPrepare", "AudioRange", "AudioDemux",
      "PlaybackCreate">>
PlainChart ==
    <<"Resolving", "DecoderPrepare", "VideoRange", "VideoDemux",
      "VideoPrime", "PlaybackCreate">>
SplitChart ==
    <<"Resolving", "DecoderPrepare", "VideoRange", "VideoDemux",
      "VideoPrime", "AudioRange", "AudioDemux", "PlaybackCreate">>

LEMMA IndexIs ==
    ASSUME NEW path, NEW i \in DOMAIN path, NEW x, path[i] = x,
           \A j \in DOMAIN path : path[j] = x => j = i
    PROVE  IndexIn(path, x) = i
BY DEF IndexIn

\* Each of these paths with the place of its members.
LEMMA AudioPathIs ==
    /\ DOMAIN AudioPath = 1..5
    /\ AudioPath[1] = "Resolve" /\ IndexIn(AudioPath, "Resolve") = 1
    /\ AudioPath[2] = "DecoderPrepare"
    /\ IndexIn(AudioPath, "DecoderPrepare") = 2
    /\ AudioPath[3] = "AudioRange" /\ IndexIn(AudioPath, "AudioRange") = 3
    /\ AudioPath[4] = "AudioDemux" /\ IndexIn(AudioPath, "AudioDemux") = 4
    /\ AudioPath[5] = "Playback" /\ IndexIn(AudioPath, "Playback") = 5
<1> DEFINE p == AudioPath
<1>1. DOMAIN p = {1, 2, 3, 4, 5} /\ DOMAIN p = 1..5
  BY DEF AudioPath
<1>2. /\ p[1] = "Resolve"
      /\ p[2] = "DecoderPrepare"
      /\ p[3] = "AudioRange"
      /\ p[4] = "AudioDemux"
      /\ p[5] = "Playback"
  BY DEF AudioPath
<1> HIDE DEF p
<1>3. /\ IndexIn(p, "Resolve") = 1
      /\ IndexIn(p, "DecoderPrepare") = 2
      /\ IndexIn(p, "AudioRange") = 3
      /\ IndexIn(p, "AudioDemux") = 4
      /\ IndexIn(p, "Playback") = 5
  BY <1>1, <1>2, IndexIs
<1>4. QED
  BY <1>1, <1>2, <1>3 DEF p

LEMMA PlainPathIs ==
    /\ DOMAIN PlainPath = 1..6
    /\ PlainPath[1] = "Resolve" /\ IndexIn(PlainPath, "Resolve") = 1
    /\ PlainPath[2] = "DecoderPrepare"
    /\ IndexIn(PlainPath, "DecoderPrepare") = 2
    /\ PlainPath[3] = "VideoRange" /\ IndexIn(PlainPath, "VideoRange") = 3
    /\ PlainPath[4] = "VideoDemux" /\ IndexIn(PlainPath, "VideoDemux") = 4
    /\ PlainPath[5] = "VideoPrime" /\ IndexIn(PlainPath, "VideoPrime") = 5
    /\ PlainPath[6] = "Playback" /\ IndexIn(PlainPath, "Playback") = 6
<1> DEFINE p == PlainPath
<1>1. DOMAIN p = {1, 2, 3, 4, 5, 6} /\ DOMAIN p = 1..6
  BY DEF PlainPath
<1>2. /\ p[1] = "Resolve"
      /\ p[2] = "DecoderPrepare"
      /\ p[3] = "VideoRange"
      /\ p[4] = "VideoDemux"
      /\ p[5] = "VideoPrime"
      /\ p[6] = "Playback"
  BY DEF PlainPath
<1> HIDE DEF p
<1>3. /\ IndexIn(p, "Resolve") = 1
      /\ IndexIn(p, "DecoderPrepare") = 2
      /\ IndexIn(p, "VideoRange") = 3
      /\ IndexIn(p, "VideoDemux") = 4
      /\ IndexIn(p, "VideoPrime") = 5
      /\ IndexIn(p, "Playback") = 6
  BY <1>1, <1>2, IndexIs
<1>4. QED
  BY <1>1, <1>2, <1>3 DEF p

LEMMA HlsPathIs ==
    /\ DOMAIN HlsPath = 1..8
    /\ HlsPath[1] = "Resolve" /\ IndexIn(HlsPath, "Resolve") = 1
    /\ HlsPath[2] = "DecoderPrepare" /\ IndexIn(HlsPath, "DecoderPrepare") = 2
    /\ HlsPath[3] = "VideoRange" /\ IndexIn(HlsPath, "VideoRange") = 3
    /\ HlsPath[4] = "VideoDemux" /\ IndexIn(HlsPath, "VideoDemux") = 4
    /\ HlsPath[5] = "VideoPrime" /\ IndexIn(HlsPath, "VideoPrime") = 5
    /\ HlsPath[6] = "AudioRange" /\ IndexIn(HlsPath, "AudioRange") = 6
    /\ HlsPath[7] = "AudioDemux" /\ IndexIn(HlsPath, "AudioDemux") = 7
    /\ HlsPath[8] = "Playback" /\ IndexIn(HlsPath, "Playback") = 8
<1> DEFINE p == HlsPath
<1>1. DOMAIN p = {1, 2, 3, 4, 5, 6, 7, 8} /\ DOMAIN p = 1..8
  BY DEF HlsPath
<1>2. /\ p[1] = "Resolve"
      /\ p[2] = "DecoderPrepare"
      /\ p[3] = "VideoRange"
      /\ p[4] = "VideoDemux"
      /\ p[5] = "VideoPrime"
      /\ p[6] = "AudioRange"
      /\ p[7] = "AudioDemux"
      /\ p[8] = "Playback"
  BY DEF HlsPath
<1> HIDE DEF p
<1>3. /\ IndexIn(p, "Resolve") = 1
      /\ IndexIn(p, "DecoderPrepare") = 2
      /\ IndexIn(p, "VideoRange") = 3
      /\ IndexIn(p, "VideoDemux") = 4
      /\ IndexIn(p, "VideoPrime") = 5
      /\ IndexIn(p, "AudioRange") = 6
      /\ IndexIn(p, "AudioDemux") = 7
      /\ IndexIn(p, "Playback") = 8
  BY <1>1, <1>2, IndexIs
<1>4. QED
  BY <1>1, <1>2, <1>3 DEF p

LEMMA PagePathIs ==
    /\ DOMAIN PagePath = 1..6
    /\ PagePath[1] = "Resolve" /\ IndexIn(PagePath, "Resolve") = 1
    /\ PagePath[2] = "VideoRange" /\ IndexIn(PagePath, "VideoRange") = 2
    /\ PagePath[3] = "VideoDemux" /\ IndexIn(PagePath, "VideoDemux") = 3
    /\ PagePath[4] = "DecoderPrepare"
    /\ IndexIn(PagePath, "DecoderPrepare") = 4
    /\ PagePath[5] = "VideoPrime" /\ IndexIn(PagePath, "VideoPrime") = 5
    /\ PagePath[6] = "Playback" /\ IndexIn(PagePath, "Playback") = 6
<1> DEFINE p == PagePath
<1>1. DOMAIN p = {1, 2, 3, 4, 5, 6} /\ DOMAIN p = 1..6
  BY DEF PagePath
<1>2. /\ p[1] = "Resolve"
      /\ p[2] = "VideoRange"
      /\ p[3] = "VideoDemux"
      /\ p[4] = "DecoderPrepare"
      /\ p[5] = "VideoPrime"
      /\ p[6] = "Playback"
  BY DEF PagePath
<1> HIDE DEF p
<1>3. /\ IndexIn(p, "Resolve") = 1
      /\ IndexIn(p, "VideoRange") = 2
      /\ IndexIn(p, "VideoDemux") = 3
      /\ IndexIn(p, "DecoderPrepare") = 4
      /\ IndexIn(p, "VideoPrime") = 5
      /\ IndexIn(p, "Playback") = 6
  BY <1>1, <1>2, IndexIs
<1>4. QED
  BY <1>1, <1>2, <1>3 DEF p

LEMMA SplitPathIs ==
    /\ DOMAIN SplitPath = 1..8
    /\ SplitPath[1] = "Resolve" /\ IndexIn(SplitPath, "Resolve") = 1
    /\ SplitPath[2] = "DecoderPrepare"
    /\ IndexIn(SplitPath, "DecoderPrepare") = 2
    /\ SplitPath[3] = "VideoRange" /\ IndexIn(SplitPath, "VideoRange") = 3
    /\ SplitPath[4] = "VideoDemux" /\ IndexIn(SplitPath, "VideoDemux") = 4
    /\ SplitPath[5] = "AudioRange" /\ IndexIn(SplitPath, "AudioRange") = 5
    /\ SplitPath[6] = "AudioDemux" /\ IndexIn(SplitPath, "AudioDemux") = 6
    /\ SplitPath[7] = "VideoPrime" /\ IndexIn(SplitPath, "VideoPrime") = 7
    /\ SplitPath[8] = "Playback" /\ IndexIn(SplitPath, "Playback") = 8
<1> DEFINE p == SplitPath
<1>1. DOMAIN p = {1, 2, 3, 4, 5, 6, 7, 8} /\ DOMAIN p = 1..8
  BY DEF SplitPath
<1>2. /\ p[1] = "Resolve"
      /\ p[2] = "DecoderPrepare"
      /\ p[3] = "VideoRange"
      /\ p[4] = "VideoDemux"
      /\ p[5] = "AudioRange"
      /\ p[6] = "AudioDemux"
      /\ p[7] = "VideoPrime"
      /\ p[8] = "Playback"
  BY DEF SplitPath
<1> HIDE DEF p
<1>3. /\ IndexIn(p, "Resolve") = 1
      /\ IndexIn(p, "DecoderPrepare") = 2
      /\ IndexIn(p, "VideoRange") = 3
      /\ IndexIn(p, "VideoDemux") = 4
      /\ IndexIn(p, "AudioRange") = 5
      /\ IndexIn(p, "AudioDemux") = 6
      /\ IndexIn(p, "VideoPrime") = 7
      /\ IndexIn(p, "Playback") = 8
  BY <1>1, <1>2, IndexIs
<1>4. QED
  BY <1>1, <1>2, <1>3 DEF p

LEMMA AudioChartIs ==
    /\ DOMAIN AudioChart = 1..5
    /\ AudioChart[1] = "Resolving" /\ IndexIn(AudioChart, "Resolving") = 1
    /\ AudioChart[2] = "DecoderPrepare"
    /\ IndexIn(AudioChart, "DecoderPrepare") = 2
    /\ AudioChart[3] = "AudioRange" /\ IndexIn(AudioChart, "AudioRange") = 3
    /\ AudioChart[4] = "AudioDemux" /\ IndexIn(AudioChart, "AudioDemux") = 4
    /\ AudioChart[5] = "PlaybackCreate"
    /\ IndexIn(AudioChart, "PlaybackCreate") = 5
<1> DEFINE p == AudioChart
<1>1. DOMAIN p = {1, 2, 3, 4, 5} /\ DOMAIN p = 1..5
  BY DEF AudioChart
<1>2. /\ p[1] = "Resolving"
      /\ p[2] = "DecoderPrepare"
      /\ p[3] = "AudioRange"
      /\ p[4] = "AudioDemux"
      /\ p[5] = "PlaybackCreate"
  BY DEF AudioChart
<1> HIDE DEF p
<1>3. /\ IndexIn(p, "Resolving") = 1
      /\ IndexIn(p, "DecoderPrepare") = 2
      /\ IndexIn(p, "AudioRange") = 3
      /\ IndexIn(p, "AudioDemux") = 4
      /\ IndexIn(p, "PlaybackCreate") = 5
  BY <1>1, <1>2, IndexIs
<1>4. QED
  BY <1>1, <1>2, <1>3 DEF p

LEMMA PlainChartIs ==
    /\ DOMAIN PlainChart = 1..6
    /\ PlainChart[1] = "Resolving" /\ IndexIn(PlainChart, "Resolving") = 1
    /\ PlainChart[2] = "DecoderPrepare"
    /\ IndexIn(PlainChart, "DecoderPrepare") = 2
    /\ PlainChart[3] = "VideoRange" /\ IndexIn(PlainChart, "VideoRange") = 3
    /\ PlainChart[4] = "VideoDemux" /\ IndexIn(PlainChart, "VideoDemux") = 4
    /\ PlainChart[5] = "VideoPrime" /\ IndexIn(PlainChart, "VideoPrime") = 5
    /\ PlainChart[6] = "PlaybackCreate"
    /\ IndexIn(PlainChart, "PlaybackCreate") = 6
<1> DEFINE p == PlainChart
<1>1. DOMAIN p = {1, 2, 3, 4, 5, 6} /\ DOMAIN p = 1..6
  BY DEF PlainChart
<1>2. /\ p[1] = "Resolving"
      /\ p[2] = "DecoderPrepare"
      /\ p[3] = "VideoRange"
      /\ p[4] = "VideoDemux"
      /\ p[5] = "VideoPrime"
      /\ p[6] = "PlaybackCreate"
  BY DEF PlainChart
<1> HIDE DEF p
<1>3. /\ IndexIn(p, "Resolving") = 1
      /\ IndexIn(p, "DecoderPrepare") = 2
      /\ IndexIn(p, "VideoRange") = 3
      /\ IndexIn(p, "VideoDemux") = 4
      /\ IndexIn(p, "VideoPrime") = 5
      /\ IndexIn(p, "PlaybackCreate") = 6
  BY <1>1, <1>2, IndexIs
<1>4. QED
  BY <1>1, <1>2, <1>3 DEF p

LEMMA SplitChartIs ==
    /\ DOMAIN SplitChart = 1..8
    /\ SplitChart[1] = "Resolving" /\ IndexIn(SplitChart, "Resolving") = 1
    /\ SplitChart[2] = "DecoderPrepare"
    /\ IndexIn(SplitChart, "DecoderPrepare") = 2
    /\ SplitChart[3] = "VideoRange" /\ IndexIn(SplitChart, "VideoRange") = 3
    /\ SplitChart[4] = "VideoDemux" /\ IndexIn(SplitChart, "VideoDemux") = 4
    /\ SplitChart[5] = "VideoPrime" /\ IndexIn(SplitChart, "VideoPrime") = 5
    /\ SplitChart[6] = "AudioRange" /\ IndexIn(SplitChart, "AudioRange") = 6
    /\ SplitChart[7] = "AudioDemux" /\ IndexIn(SplitChart, "AudioDemux") = 7
    /\ SplitChart[8] = "PlaybackCreate"
    /\ IndexIn(SplitChart, "PlaybackCreate") = 8
<1> DEFINE p == SplitChart
<1>1. DOMAIN p = {1, 2, 3, 4, 5, 6, 7, 8} /\ DOMAIN p = 1..8
  BY DEF SplitChart
<1>2. /\ p[1] = "Resolving"
      /\ p[2] = "DecoderPrepare"
      /\ p[3] = "VideoRange"
      /\ p[4] = "VideoDemux"
      /\ p[5] = "VideoPrime"
      /\ p[6] = "AudioRange"
      /\ p[7] = "AudioDemux"
      /\ p[8] = "PlaybackCreate"
  BY DEF SplitChart
<1> HIDE DEF p
<1>3. /\ IndexIn(p, "Resolving") = 1
      /\ IndexIn(p, "DecoderPrepare") = 2
      /\ IndexIn(p, "VideoRange") = 3
      /\ IndexIn(p, "VideoDemux") = 4
      /\ IndexIn(p, "VideoPrime") = 5
      /\ IndexIn(p, "AudioRange") = 6
      /\ IndexIn(p, "AudioDemux") = 7
      /\ IndexIn(p, "PlaybackCreate") = 8
  BY <1>1, <1>2, IndexIs
<1>4. QED
  BY <1>1, <1>2, <1>3 DEF p
OpenItems == OpeningPhases \cup OpenJobs

LEMMA SamePath ==
    ASSUME NEW p \in Seq(OpenItems), NEW q \in Seq(OpenItems),
           NEW n \in Nat, Len(p) = n, Len(q) = n,
           \A i \in 1..n : p[i] = q[i]
    PROVE  p = q
BY SeqEqual

LEMMA PlainPathJoins ==
    <<"Resolve", "DecoderPrepare", "VideoRange", "VideoDemux",
      "VideoPrime">> \o <<>> \o <<"Playback">>
        = PlainPath
<1> DEFINE p ==
          <<"Resolve", "DecoderPrepare", "VideoRange", "VideoDemux",
            "VideoPrime">> \o <<>> \o <<"Playback">>
<1>1. /\ p \in Seq(OpenItems) /\ PlainPath \in Seq(OpenItems)
      /\ Len(p) = 6 /\ Len(PlainPath) = 6
      /\ \A i \in 1..6 : p[i] = PlainPath[i]
  BY DEF PlainPath, OpenItems, OpeningPhases, OpenJobs
<1> HIDE DEF p
<1>2. p = PlainPath
  BY <1>1, SamePath
<1>3. QED
  BY <1>2 DEF p

LEMMA HlsPathJoins ==
    <<"Resolve", "DecoderPrepare", "VideoRange", "VideoDemux",
      "VideoPrime">> \o <<"AudioRange", "AudioDemux">> \o <<"Playback">>
        = HlsPath
<1> DEFINE p ==
          <<"Resolve", "DecoderPrepare", "VideoRange", "VideoDemux",
            "VideoPrime">> \o <<"AudioRange", "AudioDemux">> \o <<"Playback">>
<1>1. /\ p \in Seq(OpenItems) /\ HlsPath \in Seq(OpenItems)
      /\ Len(p) = 8 /\ Len(HlsPath) = 8
      /\ \A i \in 1..8 : p[i] = HlsPath[i]
  BY DEF HlsPath, OpenItems, OpeningPhases, OpenJobs
<1> HIDE DEF p
<1>2. p = HlsPath
  BY <1>1, SamePath
<1>3. QED
  BY <1>2 DEF p

LEMMA PlainPathJoinsLate ==
    <<"Resolve", "DecoderPrepare", "VideoRange", "VideoDemux">>
        \o <<>> \o <<"VideoPrime", "Playback">>
        = PlainPath
<1> DEFINE p ==
          <<"Resolve", "DecoderPrepare", "VideoRange", "VideoDemux">>
              \o <<>> \o <<"VideoPrime", "Playback">>
<1>1. /\ p \in Seq(OpenItems) /\ PlainPath \in Seq(OpenItems)
      /\ Len(p) = 6 /\ Len(PlainPath) = 6
      /\ \A i \in 1..6 : p[i] = PlainPath[i]
  BY DEF PlainPath, OpenItems, OpeningPhases, OpenJobs
<1> HIDE DEF p
<1>2. p = PlainPath
  BY <1>1, SamePath
<1>3. QED
  BY <1>2 DEF p

LEMMA SplitPathJoins ==
    <<"Resolve", "DecoderPrepare", "VideoRange", "VideoDemux">>
        \o <<"AudioRange", "AudioDemux">> \o <<"VideoPrime", "Playback">>
        = SplitPath
<1> DEFINE p ==
          <<"Resolve", "DecoderPrepare", "VideoRange", "VideoDemux">>
              \o <<"AudioRange", "AudioDemux">> \o <<"VideoPrime", "Playback">>
<1>1. /\ p \in Seq(OpenItems) /\ SplitPath \in Seq(OpenItems)
      /\ Len(p) = 8 /\ Len(SplitPath) = 8
      /\ \A i \in 1..8 : p[i] = SplitPath[i]
  BY DEF SplitPath, OpenItems, OpeningPhases, OpenJobs
<1> HIDE DEF p
<1>2. p = SplitPath
  BY <1>1, SamePath
<1>3. QED
  BY <1>2 DEF p

LEMMA PlainChartJoins ==
    <<"Resolving", "DecoderPrepare", "VideoRange", "VideoDemux",
      "VideoPrime">> \o <<>> \o <<"PlaybackCreate">>
        = PlainChart
<1> DEFINE p ==
          <<"Resolving", "DecoderPrepare", "VideoRange", "VideoDemux",
            "VideoPrime">> \o <<>> \o <<"PlaybackCreate">>
<1>1. /\ p \in Seq(OpenItems) /\ PlainChart \in Seq(OpenItems)
      /\ Len(p) = 6 /\ Len(PlainChart) = 6
      /\ \A i \in 1..6 : p[i] = PlainChart[i]
  BY DEF PlainChart, OpenItems, OpeningPhases, OpenJobs
<1> HIDE DEF p
<1>2. p = PlainChart
  BY <1>1, SamePath
<1>3. QED
  BY <1>2 DEF p

LEMMA SplitChartJoins ==
    <<"Resolving", "DecoderPrepare", "VideoRange", "VideoDemux",
      "VideoPrime">> \o <<"AudioRange", "AudioDemux">>
        \o <<"PlaybackCreate">>
        = SplitChart
<1> DEFINE p ==
          <<"Resolving", "DecoderPrepare", "VideoRange", "VideoDemux",
            "VideoPrime">> \o <<"AudioRange", "AudioDemux">>
              \o <<"PlaybackCreate">>
<1>1. /\ p \in Seq(OpenItems) /\ SplitChart \in Seq(OpenItems)
      /\ Len(p) = 8 /\ Len(SplitChart) = 8
      /\ \A i \in 1..8 : p[i] = SplitChart[i]
  BY DEF SplitChart, OpenItems, OpeningPhases, OpenJobs
<1> HIDE DEF p
<1>2. p = SplitChart
  BY <1>1, SamePath
<1>3. QED
  BY <1>2 DEF p

LEMMA OpenPathIs ==
    ASSUME NEW s \in Calls
    PROVE  /\ s.audio_only => OpenPath(s) = AudioPath
           /\ ~s.audio_only /\ s.hls /\ s.split_streams =>
                 OpenPath(s) = HlsPath
           /\ ~s.audio_only /\ s.hls /\ ~s.split_streams =>
                 OpenPath(s) = PlainPath
           /\ ~s.audio_only /\ ~s.hls /\ s.source = "Page" =>
                 OpenPath(s) = PagePath
           /\ ~s.audio_only /\ ~s.hls /\ s.source # "Page"
              /\ s.split_streams => OpenPath(s) = SplitPath
           /\ ~s.audio_only /\ ~s.hls /\ s.source # "Page"
              /\ ~s.split_streams => OpenPath(s) = PlainPath
<1>1. CASE s.audio_only
  BY <1>1 DEF OpenPath, AudioPath
<1>2. CASE ~s.audio_only /\ s.hls
  BY <1>2, PlainPathJoins, HlsPathJoins DEF OpenPath
<1>3. CASE ~s.audio_only /\ ~s.hls /\ s.source = "Page"
  BY <1>3 DEF OpenPath, PagePath
<1>4. CASE ~s.audio_only /\ ~s.hls /\ s.source # "Page"
  BY <1>4, PlainPathJoinsLate, SplitPathJoins DEF OpenPath
<1>5. QED
  BY <1>1, <1>2, <1>3, <1>4

LEMMA ChartPathIs ==
    ASSUME NEW m
    PROVE  /\ m.audio_only => ChartPath(m) = AudioChart
           /\ ~m.audio_only /\ m.has_separate_audio =>
                 ChartPath(m) = SplitChart
           /\ ~m.audio_only /\ ~m.has_separate_audio =>
                 ChartPath(m) = PlainChart
BY PlainChartJoins, SplitChartJoins DEF ChartPath, AudioChart

NextJob(s) == OpenPath(s)[IndexIn(OpenPath(s), s.job) + 1]

\* The job that follows, on each of the five paths.
LEMMA AudioPathNext ==
    ASSUME NEW s \in Calls, s.audio_only
    PROVE  /\ s.job = "Resolve" => NextJob(s) = "DecoderPrepare"
           /\ s.job = "DecoderPrepare" => NextJob(s) = "AudioRange"
           /\ s.job = "AudioRange" => NextJob(s) = "AudioDemux"
           /\ s.job = "AudioDemux" => NextJob(s) = "Playback"
<1>1. OpenPath(s) = AudioPath
  BY OpenPathIs
<1>2. QED
  BY <1>1, AudioPathIs DEF NextJob

LEMMA HlsPathNext ==
    ASSUME NEW s \in Calls, ~s.audio_only /\ s.hls /\ s.split_streams
    PROVE  /\ s.job = "Resolve" => NextJob(s) = "DecoderPrepare"
           /\ s.job = "DecoderPrepare" => NextJob(s) = "VideoRange"
           /\ s.job = "VideoRange" => NextJob(s) = "VideoDemux"
           /\ s.job = "VideoDemux" => NextJob(s) = "VideoPrime"
           /\ s.job = "VideoPrime" => NextJob(s) = "AudioRange"
           /\ s.job = "AudioRange" => NextJob(s) = "AudioDemux"
           /\ s.job = "AudioDemux" => NextJob(s) = "Playback"
<1>1. OpenPath(s) = HlsPath
  BY OpenPathIs
<1>2. QED
  BY <1>1, HlsPathIs DEF NextJob

LEMMA PagePathNext ==
    ASSUME NEW s \in Calls, ~s.audio_only /\ ~s.hls /\ s.source = "Page"
    PROVE  /\ s.job = "Resolve" => NextJob(s) = "VideoRange"
           /\ s.job = "VideoRange" => NextJob(s) = "VideoDemux"
           /\ s.job = "VideoDemux" => NextJob(s) = "DecoderPrepare"
           /\ s.job = "DecoderPrepare" => NextJob(s) = "VideoPrime"
           /\ s.job = "VideoPrime" => NextJob(s) = "Playback"
<1>1. OpenPath(s) = PagePath
  BY OpenPathIs
<1>2. QED
  BY <1>1, PagePathIs DEF NextJob

LEMMA SplitPathNext ==
    ASSUME NEW s \in Calls,
           ~s.audio_only /\ ~s.hls /\ s.source # "Page" /\ s.split_streams
    PROVE  /\ s.job = "Resolve" => NextJob(s) = "DecoderPrepare"
           /\ s.job = "DecoderPrepare" => NextJob(s) = "VideoRange"
           /\ s.job = "VideoRange" => NextJob(s) = "VideoDemux"
           /\ s.job = "VideoDemux" => NextJob(s) = "AudioRange"
           /\ s.job = "AudioRange" => NextJob(s) = "AudioDemux"
           /\ s.job = "AudioDemux" => NextJob(s) = "VideoPrime"
           /\ s.job = "VideoPrime" => NextJob(s) = "Playback"
<1>1. OpenPath(s) = SplitPath
  BY OpenPathIs
<1>2. QED
  BY <1>1, SplitPathIs DEF NextJob

LEMMA PlainPathNext ==
    ASSUME NEW s \in Calls,
           ~s.audio_only /\ ~s.split_streams /\ (s.hls \/ s.source # "Page")
    PROVE  /\ s.job = "Resolve" => NextJob(s) = "DecoderPrepare"
           /\ s.job = "DecoderPrepare" => NextJob(s) = "VideoRange"
           /\ s.job = "VideoRange" => NextJob(s) = "VideoDemux"
           /\ s.job = "VideoDemux" => NextJob(s) = "VideoPrime"
           /\ s.job = "VideoPrime" => NextJob(s) = "Playback"
<1>1. OpenPath(s) = PlainPath
  BY OpenPathIs
<1>2. QED
  BY <1>1, PlainPathIs DEF NextJob
\* Where the two paths go on together: each of these pairs to its next.
LEMMA NextPairs ==
    ASSUME NEW m, m.phase # "PlaybackCreate"
    PROVE  /\ m.phase = "Resolving" => NextOpeningPhase(m) = "DecoderPrepare"
           /\ m.phase = "DecoderPrepare" /\ m.audio_only =>
                 NextOpeningPhase(m) = "AudioRange"
           /\ m.phase = "DecoderPrepare" /\ ~m.audio_only =>
                 NextOpeningPhase(m) = "VideoRange"
           /\ m.phase = "VideoRange" => NextOpeningPhase(m) = "VideoDemux"
           /\ m.phase = "VideoDemux" => NextOpeningPhase(m) = "VideoPrime"
           /\ m.phase = "VideoPrime" /\ m.has_separate_audio =>
                 NextOpeningPhase(m) = "AudioRange"
           /\ m.phase = "VideoPrime" /\ ~m.has_separate_audio =>
                 NextOpeningPhase(m) = "PlaybackCreate"
           /\ m.phase = "AudioRange" => NextOpeningPhase(m) = "AudioDemux"
           /\ m.phase = "AudioDemux" =>
                 NextOpeningPhase(m) = "PlaybackCreate"
BY DEF NextOpeningPhase

LEMMA InStepMeets ==
    ASSUME NEW s, InStep(s)
    PROVE  /\ s.machine.phase = "Resolving" <=> s.job = "Resolve"
           /\ s.machine.phase = "PlaybackCreate" <=> s.job = "Playback"
BY DEF InStep, Alike, OfPage, OfSplit

\* A job and a phase that are in step stay so when both end.
LEMMA SteppedInStep ==
    ASSUME NEW s \in Calls, Opens(s.machine), InStep(s),
           s.job \in OpenJobs, s.job # "Playback",
           s.job = "Resolve" /\ s.source = "Page" /\ ~s.hls /\ ~s.audio_only
               => ~s.split_streams,
           NEW r, r.job = NextJob(s),
           r.audio_only = s.audio_only, r.hls = s.hls, r.source = s.source,
           r.split_streams = s.split_streams,
           NEW m, m = s.machine,
           r.machine.phase = NextOpeningPhase(m),
           r.machine.audio_only = IF m.phase = "Resolving" THEN s.audio_only
                                  ELSE m.audio_only,
           r.machine.has_separate_audio =
               IF m.phase = "Resolving" THEN s.split_streams
               ELSE m.has_separate_audio
    PROVE  /\ InStep(r) /\ r.job \in OpenJobs /\ r.job # s.job
           /\ r.job = "VideoDemux" => s.job = "VideoRange"
           /\ r.job = "AudioDemux" => s.job = "AudioRange"
           /\ m.phase = "VideoRange" => s.job \in {"VideoRange", "VideoDemux"}
           /\ m.phase = "AudioRange" => s.job \in {"AudioRange", "AudioDemux"}
<1>1. /\ s.audio_only \in BOOLEAN /\ s.hls \in BOOLEAN
      /\ s.split_streams \in BOOLEAN
      /\ m.audio_only \in BOOLEAN /\ m.has_separate_audio \in BOOLEAN
  <2>1. m \in Machine
    BY DEF Calls
  <2>2. QED
    BY <2>1, MachineIs DEF Calls
<1>2. m.phase # "PlaybackCreate" /\ m.phase \in OpeningPhases
  BY InStepMeets DEF Opens
<1>3. CASE m.phase = "Resolving"
  <2>1. s.job = "Resolve" /\ NextOpeningPhase(m) = "DecoderPrepare"
    BY <1>2, <1>3, InStepMeets, NextPairs
  <2>2. CASE s.audio_only
    BY <1>1, <1>3, <2>1, <2>2, AudioPathNext DEF InStep, Alike, OpenJobs
  <2>3. CASE ~s.audio_only /\ s.hls /\ s.split_streams
    BY <1>1, <1>3, <2>1, <2>3, HlsPathNext DEF InStep, Alike, OpenJobs
  <2>4. CASE ~s.audio_only /\ ~s.hls /\ s.source = "Page"
    BY <1>1, <1>3, <2>1, <2>4, PagePathNext DEF InStep, OfPage, OpenJobs
  <2>5. CASE ~s.audio_only /\ ~s.hls /\ s.source # "Page" /\ s.split_streams
    BY <1>1, <1>3, <2>1, <2>5, SplitPathNext DEF InStep, OfSplit, OpenJobs
  <2>6. CASE ~s.audio_only /\ ~s.split_streams /\ (s.hls \/ s.source # "Page")
    BY <1>1, <1>3, <2>1, <2>6, PlainPathNext DEF InStep, Alike, OpenJobs
  <2>7. QED
    BY <1>1, <2>2, <2>3, <2>4, <2>5, <2>6
<1>4. CASE m.phase # "Resolving" /\ s.audio_only
  <2>1. /\ m.audio_only /\ <<m.phase, s.job>> \in Alike
        /\ m.phase \notin {"VideoRange", "VideoDemux", "VideoPrime"}
    BY <1>1, <1>4 DEF InStep
  <2>2. m.phase = s.job /\ m.phase \in {"DecoderPrepare", "AudioRange",
                                        "AudioDemux"}
    BY <1>2, <2>1 DEF Alike, OpeningPhases
  <2>3. QED
    BY <1>1, <1>4, <2>1, <2>2, AudioPathNext, NextPairs
       DEF InStep, Alike, OpenJobs
<1>5. CASE m.phase # "Resolving" /\ ~s.audio_only /\ s.hls /\ s.split_streams
  <2>1. /\ ~m.audio_only /\ <<m.phase, s.job>> \in Alike
        /\ m.has_separate_audio = s.split_streams
    BY <1>1, <1>5 DEF InStep
  <2>2. m.phase = s.job
    BY <1>2, <2>1 DEF Alike, OpeningPhases
  <2>3. QED
    BY <1>1, <1>2, <1>5, <2>1, <2>2, HlsPathNext, NextPairs
       DEF InStep, Alike, OpenJobs, OpeningPhases
<1>6. CASE m.phase # "Resolving" /\ ~s.audio_only /\ ~s.hls
           /\ s.source = "Page"
  <2>1. /\ ~m.audio_only /\ <<m.phase, s.job>> \in OfPage
        /\ m.has_separate_audio = s.split_streams /\ ~s.split_streams
    BY <1>1, <1>6 DEF InStep
  <2>2. QED
    BY <1>1, <1>2, <1>6, <2>1, PagePathNext, NextPairs
       DEF InStep, OfPage, OpenJobs
<1>7. CASE m.phase # "Resolving" /\ ~s.audio_only /\ ~s.hls
           /\ s.source # "Page" /\ s.split_streams
  <2>1. /\ ~m.audio_only /\ <<m.phase, s.job>> \in OfSplit
        /\ m.has_separate_audio = s.split_streams
    BY <1>1, <1>7 DEF InStep
  <2>2. QED
    BY <1>1, <1>2, <1>7, <2>1, SplitPathNext, NextPairs
       DEF InStep, OfSplit, OpenJobs
<1>8. CASE m.phase # "Resolving" /\ ~s.audio_only /\ ~s.split_streams
           /\ (s.hls \/ s.source # "Page")
  <2>1. /\ ~m.audio_only /\ <<m.phase, s.job>> \in Alike
        /\ m.has_separate_audio = s.split_streams
        /\ m.phase \notin {"AudioRange", "AudioDemux"}
    BY <1>1, <1>8 DEF InStep
  <2>2. m.phase = s.job /\ m.phase \in {"DecoderPrepare", "VideoRange",
                                        "VideoDemux", "VideoPrime"}
    BY <1>2, <2>1 DEF Alike, OpeningPhases
  <2>3. QED
    BY <1>1, <1>8, <2>1, <2>2, PlainPathNext, NextPairs
       DEF InStep, Alike, OpenJobs
<1>9. QED
  BY <1>1, <1>3, <1>4, <1>5, <1>6, <1>7, <1>8

\* What every operation of the driver keeps.
Kept(r, s) == Fit(r) /\ r.system_suspended = s.system_suspended

\* The answers and the news that stop nothing.
Harmless(type) ==
    type \notin Stoppers \cup {"OpenFailed", "OpenPhaseComplete",
                               "AdmissionStopped", "Open"}

LEMMA NewsFits ==
    ASSUME NEW s, Fit(s), NEW e, Told(e), e.service_epoch = 0,
           Harmless(e.type), NEW r, r = Dispatch(s, e)
    PROVE  /\ Kept(r, s) /\ SameHands(r, s)
           /\ Plays(s.machine) => Plays(r.machine)
<1>1. Fair(s, e)
  BY NewsIsCurrent DEF Fair, Harmless
<1>2. e.type \notin Stoppers \cup {"OpenFailed"}
  BY DEF Harmless
<1>3. QED
  BY <1>1, <1>2, DispatchMoves DEF Kept, SameHands

LEMMA TellFits ==
    ASSUME NEW s, Fit(s), NEW type, Harmless(type),
           NEW r, r = Tell(s, type)
    PROVE  /\ Kept(r, s) /\ SameHands(r, s)
           /\ Plays(s.machine) => Plays(r.machine)
<1> DEFINE e == Event(type)
<1>1. r = Dispatch(s, e)
  BY DEF Tell
<1>2. Told(e) /\ e.type = type /\ e.service_epoch = 0
  BY EventIs
<1> HIDE DEF e
<1>3. QED
  BY <1>1, <1>2, NewsFits

LEMMA CompleteFits ==
    ASSUME NEW s, Fit(s), ~Opens(s.machine), NEW type, Harmless(type),
           NEW r, r = Complete(s, type)
    PROVE  /\ Kept(r, s) /\ SameHands(r, s)
           /\ Plays(s.machine) => Plays(r.machine)
<1> DEFINE e == Completion(s, type)
<1>1. Told(e) /\ e.type = type /\ ~Stale(s, e)
  BY CompletionIs
<1>2. r = Dispatch(s, e)
  BY DEF Complete
<1> HIDE DEF e
<1>3. Fair(s, e)
  BY <1>1 DEF Fair, Harmless
<1>4. e.type \notin Stoppers \cup {"OpenFailed"}
  BY <1>1 DEF Harmless
<1>5. QED
  BY <1>2, <1>3, <1>4, DispatchMoves DEF Kept, SameHands

LEMMA FinishedFits ==
    ASSUME NEW s, Fit(s), s.owned = "None", NEW r, r = Finished(s)
    PROVE  Kept(r, s)
<1>1. CASE Stops(s.machine)
  <2>1. /\ Sound(r) /\ SameHands(r, s) /\ Rests(r.machine)
    BY <1>1, FitParts, FinishedEffect
  <2>2. s.job = "None"
    BY <1>1, FitParts
  <2>3. QED
    BY <2>1, <2>2, FitWhenRests DEF Kept, SameHands
<1>2. CASE ~Stops(s.machine)
  <2>1. r = s
    BY <1>2, FitParts, ShapesApart DEF Finished
  <2>2. QED
    BY <2>1 DEF Kept
<1>3. QED
  BY <1>1, <1>2

LEMMA PhaseReportedEffect ==
    ASSUME NEW t, Sound(t), NEW m, m = t.machine, Opens(m),
           NEW r, r = PhaseReported(t), NEW n, n = r.machine
    PROVE  /\ Sound(r) /\ SameHands(r, t)
           /\ m.phase = "PlaybackCreate" =>
                Plays(n) /\ n.state = "Priming" /\ r.visible
           /\ m.phase # "PlaybackCreate" =>
                /\ Opens(n) /\ r.command = "StartOpenPhase"
                /\ r.visible = t.visible /\ r.failed = t.failed
                /\ n.phase = NextOpeningPhase(m)
                /\ n.pipeline = IF m.phase \in {"VideoRange", "AudioRange"}
                                THEN "Partial" ELSE m.pipeline
                /\ n.has_separate_audio = IF m.phase = "Resolving"
                                          THEN t.split_streams
                                          ELSE m.has_separate_audio
                /\ n.audio_only = IF m.phase = "Resolving"
                                  THEN t.audio_only ELSE m.audio_only
<1> DEFINE c == Completion(t, "OpenPhaseComplete")
           e == [c EXCEPT !.has_separate_audio = t.split_streams,
                          !.audio_only = t.audio_only]
           d == Transition(m, e)
<1>1. r = Dispatch(t, e)
  BY DEF PhaseReported
<1>2. m \in Machine /\ t.split_streams \in BOOLEAN /\ t.audio_only \in BOOLEAN
  BY DEF Sound, Calls
<1>3. /\ Told(e) /\ ~Stale(t, e) /\ e.type = "OpenPhaseComplete"
      /\ e.has_separate_audio = t.split_streams
      /\ e.audio_only = t.audio_only
  BY <1>2 DEF Completion, Event, Told, Stale, Readinesses
<1>4. d = Transition(t.machine, e)
  OBVIOUS
<1> HIDE DEF e
<1>5. CASE m.phase = "PlaybackCreate"
  <2>1. GoesOn(d) /\ d.command = "StartPriming" /\ d.next.state = "Priming"
    BY <1>2, <1>3, <1>5, OpenPhaseCompletes
  <2> HIDE DEF d
  <2>2. d.next \in Machine /\ d.command \in Commands /\ Plays(d.next)
        /\ d.next.state \in Active
    BY <2>1, EnumFacts DEF GoesOn, Carries
  <2>3. Sound(r) /\ SameHands(r, t) /\ r.machine = d.next /\ r.visible
    BY <1>1, <1>3, <1>4, <2>2, DispatchEffect
  <2>4. QED
    BY <1>5, <2>1, <2>2, <2>3
<1>6. CASE m.phase # "PlaybackCreate"
  <2>1. /\ d.next \in Machine /\ Opens(d.next) /\ d.command = "StartOpenPhase"
        /\ d.next.phase = NextOpeningPhase(m)
        /\ d.next.pipeline = IF m.phase \in {"VideoRange", "AudioRange"}
                             THEN "Partial" ELSE m.pipeline
        /\ d.next.has_separate_audio = IF m.phase = "Resolving"
                                       THEN t.split_streams
                                       ELSE m.has_separate_audio
        /\ d.next.audio_only = IF m.phase = "Resolving"
                               THEN t.audio_only ELSE m.audio_only
    BY <1>2, <1>3, <1>6, OpenPhaseCompletes
  <2> HIDE DEF d
  <2>2. d.command \in Commands /\ d.command # "None"
        /\ d.next.state \notin Active \cup {"Dormant"}
    BY <2>1, ShapesApart DEF Commands
  <2>3. /\ Sound(r) /\ SameHands(r, t) /\ r.machine = d.next
        /\ r.command = d.command
        /\ r.visible = t.visible /\ r.failed = t.failed
    BY <1>1, <1>3, <1>4, <2>1, <2>2, DispatchEffect
  <2>4. QED
    BY <1>6, <2>1, <2>3
<1>7. QED
  BY <1>5, <1>6

\* A session an open's job is under way in.
Pumping(s) == Fit(s) /\ Opens(s.machine) /\ s.job \in OpenJobs

\* One step of the physical order.
LEMMA SteppedFits ==
    ASSUME NEW s, Pumping(s),
           s.job # "Playback",
           s.job = "Resolve" /\ s.source = "Page" /\ ~s.hls /\ ~s.audio_only
               => ~s.split_streams,
           NEW t, t = Stepped(s), NEW r, r = PhaseReported(t)
    PROVE  /\ t.machine = s.machine /\ t.command = s.command
           /\ t.epoch = s.epoch /\ ~t.failed /\ t.job # s.job
           /\ Kept(r, s)
<1>1. /\ s \in Calls /\ Sound(s)
      /\ s.machine \in Machine /\ Opens(s.machine)
  BY FitParts DEF Pumping, Sound
<1>2. /\ InStep(s) /\ s.visible /\ ~s.failed /\ ~s.open_service_pending
      /\ s.job \in OpenJobs /\ s.owned \in {"None", "Partial"}
      /\ s.job \in {"VideoDemux", "AudioDemux"} => s.owned = "Partial"
      /\ s.machine.pipeline = "Partial" => s.owned = "Partial"
  BY FitOpens DEF Pumping, OpenJobs
<1> DEFINE next == NextJob(s)
           owned == IF s.job \in {"VideoRange", "AudioRange"}
                    THEN "Partial" ELSE s.owned
<1>3. t = [s EXCEPT !.job = next, !.owned = owned]
  BY <1>1 DEF Stepped, NextJob, Calls
<1>4. s.machine.phase # "PlaybackCreate"
  BY <1>2, InStepMeets
<1>5. owned \in {"None", "Partial"}
  BY <1>2
<1>6. next \in OpenJobs /\ next # s.job
  <2> DEFINE m == s.machine
             q == [job |-> next, audio_only |-> s.audio_only, hls |-> s.hls,
                   source |-> s.source, split_streams |-> s.split_streams,
                   machine |->
                     [phase |-> NextOpeningPhase(m),
                      audio_only |-> IF m.phase = "Resolving"
                                     THEN s.audio_only ELSE m.audio_only,
                      has_separate_audio |->
                          IF m.phase = "Resolving" THEN s.split_streams
                          ELSE m.has_separate_audio]]
  <2>1. /\ q.job = NextJob(s)
        /\ q.audio_only = s.audio_only /\ q.hls = s.hls
        /\ q.source = s.source /\ q.split_streams = s.split_streams
        /\ q.machine.phase = NextOpeningPhase(m)
        /\ q.machine.audio_only = IF m.phase = "Resolving"
                                  THEN s.audio_only ELSE m.audio_only
        /\ q.machine.has_separate_audio = IF m.phase = "Resolving"
                                          THEN s.split_streams
                                          ELSE m.has_separate_audio
    OBVIOUS
  <2>2. q.job = next
    OBVIOUS
  <2> HIDE DEF q
  <2>3. q.job \in OpenJobs /\ q.job # s.job
    BY <1>1, <1>2, <2>1, SteppedInStep
  <2>4. QED
    BY <2>2, <2>3
<1> HIDE DEF next, owned
<1>7. /\ Sound(t) /\ t.machine = s.machine /\ t.command = s.command
      /\ t.epoch = s.epoch /\ t.failed = s.failed /\ t.visible = s.visible
      /\ t.job = next /\ t.owned = owned
      /\ t.audio_only = s.audio_only /\ t.hls = s.hls
      /\ t.source = s.source /\ t.split_streams = s.split_streams
      /\ t.open_service_pending = s.open_service_pending
      /\ t.system_suspended = s.system_suspended
  <2>1. owned \in Pipelines /\ next \in OpenJobs \cup {"None", "Seek"}
    BY <1>5, <1>6 DEF Pipelines
  <2>2. /\ t \in Calls /\ t.machine = s.machine /\ t.command = s.command
        /\ t.epoch = s.epoch /\ t.failed = s.failed /\ t.visible = s.visible
        /\ t.job = next /\ t.owned = owned
    BY <1>1, <1>3, <2>1 DEF Calls
  <2>3. /\ t.audio_only = s.audio_only /\ t.hls = s.hls
        /\ t.source = s.source /\ t.split_streams = s.split_streams
        /\ t.open_service_pending = s.open_service_pending
        /\ t.system_suspended = s.system_suspended
    BY <1>1, <1>3 DEF Calls
  <2>4. QED
    BY <1>1, <2>2, <2>3 DEF Sound
<1> DEFINE m == s.machine
           n == r.machine
<1>8. /\ Sound(r) /\ SameHands(r, t)
      /\ Opens(n) /\ r.command = "StartOpenPhase"
      /\ r.visible = t.visible /\ r.failed = t.failed
      /\ n.phase = NextOpeningPhase(m)
      /\ n.pipeline = IF m.phase \in {"VideoRange", "AudioRange"}
                      THEN "Partial" ELSE m.pipeline
      /\ n.has_separate_audio = IF m.phase = "Resolving"
                                THEN s.split_streams
                                ELSE m.has_separate_audio
      /\ n.audio_only = IF m.phase = "Resolving"
                        THEN s.audio_only ELSE m.audio_only
  BY <1>1, <1>4, <1>7, PhaseReportedEffect
<1>9. /\ r.job = NextJob(s) /\ r.owned = owned
      /\ r.audio_only = s.audio_only /\ r.hls = s.hls
      /\ r.source = s.source /\ r.split_streams = s.split_streams
      /\ r.open_service_pending = s.open_service_pending
      /\ r.system_suspended = s.system_suspended
  BY <1>7, <1>8 DEF SameHands, next
<1>10. /\ InStep(r) /\ r.job \in OpenJobs
       /\ r.job = "VideoDemux" => s.job = "VideoRange"
       /\ r.job = "AudioDemux" => s.job = "AudioRange"
       /\ m.phase = "VideoRange" => s.job \in {"VideoRange", "VideoDemux"}
       /\ m.phase = "AudioRange" => s.job \in {"AudioRange", "AudioDemux"}
  BY <1>1, <1>2, <1>8, <1>9, SteppedInStep
<1>11. /\ n.pipeline = "Partial" => r.owned = "Partial"
       /\ r.job \in {"VideoDemux", "AudioDemux"} => r.owned = "Partial"
  BY <1>2, <1>8, <1>9, <1>10 DEF owned
<1>12. Fit(r)
  <2>1. r.job # "None" /\ r.visible /\ ~r.failed /\ ~r.open_service_pending
        /\ r.owned \in {"None", "Partial"}
    BY <1>2, <1>5, <1>7, <1>8, <1>9, <1>10 DEF OpenJobs
  <2>2. QED
    BY <1>8, <1>10, <1>11, <2>1, ShapesApart DEF Fit, Sound
<1>13. QED
  BY <1>2, <1>6, <1>7, <1>9, <1>12 DEF Kept

-----------------------------------------------------------------------------
(***************************************************************************)
(* The open's pump: what one bounded unit leaves, and what is reported.    *)
(***************************************************************************)
LEMMA SplitChoicesAre ==
    ASSUME NEW s \in Calls, NEW split \in SplitChoices(s)
    PROVE  /\ split \in BOOLEAN
           /\ s.source = "Page" /\ ~s.hls /\ ~s.audio_only => ~split
<1>1. s.audio_only \in BOOLEAN /\ s.hls \in BOOLEAN
  BY DEF Calls
<1>2. CASE s.audio_only
  BY <1>1, <1>2 DEF SplitChoices
<1>3. CASE ~s.audio_only /\ s.source = "Page" /\ ~s.hls
  BY <1>1, <1>3 DEF SplitChoices
<1>4. CASE ~s.audio_only /\ ~(s.source = "Page" /\ ~s.hls)
  BY <1>1, <1>4 DEF SplitChoices
<1>5. QED
  BY <1>1, <1>2, <1>3, <1>4

\* What the resolver learns disturbs nothing that is in step.
LEMMA LearnedPumps ==
    ASSUME NEW s, Pumping(s), s.job = "Resolve", NEW split \in BOOLEAN,
           NEW r, r = [s EXCEPT !.split_streams = split]
    PROVE  /\ Pumping(r) /\ r.machine = s.machine /\ r.command = s.command
           /\ r.epoch = s.epoch /\ r.job = s.job
           /\ r.split_streams = split /\ r.source = s.source
           /\ r.hls = s.hls /\ r.audio_only = s.audio_only
           /\ r.system_suspended = s.system_suspended
<1>1. s \in Calls /\ Sound(s) /\ Opens(s.machine)
  BY FitParts DEF Pumping, Sound
<1>2. /\ InStep(s) /\ s.visible /\ ~s.failed /\ ~s.open_service_pending
      /\ s.command = "StartOpenPhase"
      /\ s.owned \in {"None", "Partial"}
      /\ s.machine.pipeline = "Partial" => s.owned = "Partial"
  BY FitOpens DEF Pumping, OpenJobs
<1>3. /\ r \in Calls /\ r.machine = s.machine /\ r.command = s.command
      /\ r.epoch = s.epoch /\ r.job = s.job /\ r.owned = s.owned
      /\ r.visible = s.visible /\ r.failed = s.failed
  BY <1>1 DEF Calls
<1>4. /\ r.open_service_pending = s.open_service_pending
      /\ r.split_streams = split /\ r.source = s.source
      /\ r.hls = s.hls /\ r.audio_only = s.audio_only
      /\ r.system_suspended = s.system_suspended
  BY <1>1 DEF Calls
<1>5. r.machine.phase = "Resolving"
  BY <1>2, <1>3, InStepMeets
<1>6. InStep(r)
  BY <1>3, <1>5 DEF InStep
<1>7. Sound(r)
  BY <1>1, <1>3 DEF Sound
<1>8. r.job \in OpenJobs /\ r.job # "None"
      /\ r.job \notin {"VideoDemux", "AudioDemux"}
  BY <1>3 DEF OpenJobs
<1>9. Fit(r)
  BY <1>1, <1>2, <1>3, <1>4, <1>6, <1>7, <1>8, ShapesApart DEF Fit, Sound
<1>10. QED
  BY <1>1, <1>3, <1>4, <1>8, <1>9 DEF Pumping

\* The open's last unit made the playback; the report of it starts priming.
LEMMA PlaybackMade ==
    ASSUME NEW s \in Calls, s.job = "Playback", NEW t \in PhaseEnded(s)
    PROVE  /\ t \in Calls /\ t.machine = s.machine /\ t.command = s.command
           /\ t.epoch = s.epoch /\ t.job \in {"None", "Seek"}
           /\ t.owned = "Full" /\ ~t.failed /\ t.visible
           /\ t.system_suspended = s.system_suspended
<1>1. PICK job \in {"None", "Seek"} :
          t = Resolving([s EXCEPT
                !.owned = "Full", !.job = job,
                !.pause_boundary = job = "None" /\ ~WantsPlaying(s)])
  BY DEF PhaseEnded
<1>2. PICK b \in BOOLEAN :
          t = Resolving([s EXCEPT !.owned = "Full", !.job = job,
                                  !.pause_boundary = b])
  BY <1>1
<1>3. t = [s EXCEPT !.owned = "Full", !.job = job, !.pause_boundary = b,
                    !.failed = FALSE, !.visible = TRUE]
  BY <1>2 DEF Resolving, Calls
<1>4. "Full" \in Pipelines /\ job \in OpenJobs \cup {"None", "Seek"}
  BY DEF Pipelines
<1>5. QED
  BY <1>3, <1>4 DEF Calls

LEMMA PlaybackStarts ==
    ASSUME NEW s, Pumping(s), s.job = "Playback", NEW t \in PhaseEnded(s),
           NEW r, r = PhaseReported(t)
    PROVE  /\ t.command = s.command /\ t.epoch = s.epoch /\ ~t.failed
           /\ t.job # s.job
           /\ Kept(r, s) /\ Plays(r.machine)
<1>1. s \in Calls /\ Sound(s) /\ s.machine \in Machine /\ Opens(s.machine)
  BY FitParts DEF Pumping, Sound
<1>2. InStep(s)
  BY FitOpens DEF Pumping, OpenJobs
<1>3. s.machine.phase = "PlaybackCreate"
  BY <1>2, InStepMeets
<1>5. /\ t \in Calls /\ t.machine = s.machine /\ t.command = s.command
      /\ t.epoch = s.epoch /\ t.job \in {"None", "Seek"} /\ t.owned = "Full"
      /\ ~t.failed /\ t.visible
      /\ t.system_suspended = s.system_suspended
  BY <1>1, PlaybackMade
<1>6. Sound(t)
  BY <1>1, <1>5 DEF Sound
<1>7. /\ Sound(r) /\ SameHands(r, t) /\ Plays(r.machine) /\ r.visible
  BY <1>1, <1>3, <1>5, <1>6, PhaseReportedEffect
<1>8. /\ r.owned = "Full" /\ r.job \in {"None", "Seek"}
      /\ r.system_suspended = s.system_suspended
  BY <1>5, <1>7 DEF SameHands
<1>9. Fit(r)
  BY <1>7, <1>8, FitWhenPlays
<1>10. QED
  BY <1>5, <1>7, <1>8, <1>9 DEF Kept

LEMMA PlaybackReportedFits ==
    ASSUME NEW s, Fit(s), NEW r \in PlaybackReported(s)
    PROVE  Kept(r, s)
<1>1. CASE s.job = "Seek"
  <2>1. PICK resume \in BOOLEAN :
            r = Dispatch(s, [Event("Seek") EXCEPT !.resume_playing = resume])
    BY <1>1 DEF PlaybackReported
  <2> DEFINE e == [Event("Seek") EXCEPT !.resume_playing = resume]
  <2>2. Told(e) /\ e.type = "Seek" /\ e.service_epoch = 0
    BY DEF Event, Told, Readinesses
  <2>3. r = Dispatch(s, e)
    BY <2>1
  <2> HIDE DEF e
  <2>4. Harmless(e.type)
    BY <2>2 DEF Harmless, Stoppers
  <2>5. QED
    BY <2>2, <2>3, <2>4, NewsFits
<1>2. CASE s.job # "Seek" /\ WantsPlaying(s)
  <2>1. r = s
    BY <1>2 DEF PlaybackReported
  <2>2. QED
    BY <2>1 DEF Kept
<1>3. CASE s.job # "Seek" /\ ~WantsPlaying(s)
  <2> DEFINE b == Tell(s, "PauseAfterFrame")
             c == Tell(b, "FrameDisplayed")
  <2>1. r \in {b, c}
    BY <1>3 DEF PlaybackReported
  <2>2. b = Tell(s, "PauseAfterFrame") /\ c = Tell(b, "FrameDisplayed")
    OBVIOUS
  <2> HIDE DEF b, c
  <2>3. Harmless("PauseAfterFrame") /\ Harmless("FrameDisplayed")
    BY DEF Harmless, Stoppers
  <2>4. Kept(b, s)
    BY <2>2, <2>3, TellFits
  <2>5. Kept(c, b)
    BY <2>2, <2>3, <2>4, TellFits DEF Kept
  <2>6. QED
    BY <2>1, <2>4, <2>5 DEF Kept
<1>4. QED
  BY <1>1, <1>2, <1>3

\* What a unit of the open leaves: it has not ended its phase, or it has
\* and reports it with the token it began with.
NotEnded(t, s) ==
    /\ Kept(t, s)
    /\ t.job = s.job \/ t.failed \/ t.epoch # s.epoch
Reports(t, s) ==
    /\ t.command = s.command /\ t.epoch = s.epoch /\ ~t.failed
    /\ t.job # s.job
    /\ s.job # "Playback" => Kept(PhaseReported(t), s)
    /\ s.job = "Playback" =>
         \A r \in PlaybackReported(PhaseReported(t)) : Kept(r, s)

LEMMA PhaseEndedFits ==
    ASSUME NEW s, Pumping(s), NEW t \in PhaseEnded(s)
    PROVE  Reports(t, s)
<1>1. s \in Calls /\ s.job \in OpenJobs
  BY FitParts DEF Pumping, Sound
<1> DEFINE r == PhaseReported(t)
<1>0. r = PhaseReported(t)
  OBVIOUS
<1>2. CASE s.job = "Resolve"
  <2>1. PICK split \in SplitChoices(s) :
            t = Stepped([s EXCEPT !.split_streams = split])
    BY <1>2 DEF PhaseEnded
  <2> DEFINE q == [s EXCEPT !.split_streams = split]
  <2>2. /\ split \in BOOLEAN
        /\ s.source = "Page" /\ ~s.hls /\ ~s.audio_only => ~split
    BY <1>1, SplitChoicesAre
  <2>3. q = [s EXCEPT !.split_streams = split]
    OBVIOUS
  <2>9. t = Stepped(q)
    BY <2>1
  <2> HIDE DEF q, r
  <2>4. /\ Pumping(q) /\ q.machine = s.machine /\ q.command = s.command
        /\ q.epoch = s.epoch /\ q.job = s.job
        /\ q.split_streams = split /\ q.source = s.source
        /\ q.hls = s.hls /\ q.audio_only = s.audio_only
        /\ q.system_suspended = s.system_suspended
    BY <1>2, <2>2, <2>3, LearnedPumps
  <2>7. q.job # "Playback"
    BY <1>2, <2>4
  <2>8. q.job = "Resolve" /\ q.source = "Page" /\ ~q.hls /\ ~q.audio_only
            => ~q.split_streams
    BY <2>2, <2>4
  <2>5. /\ t.machine = q.machine /\ t.command = q.command
        /\ t.epoch = q.epoch /\ ~t.failed /\ t.job # q.job
        /\ Kept(r, q)
    BY <1>0, <2>4, <2>7, <2>8, <2>9, SteppedFits
  <2>6. QED
    BY <1>0, <1>2, <2>4, <2>5 DEF Reports, Kept
<1>3. CASE s.job = "Playback"
  <2> HIDE DEF r
  <2>4. /\ t.command = s.command /\ t.epoch = s.epoch /\ ~t.failed
        /\ t.job # s.job /\ Kept(r, s)
    BY <1>0, <1>3, PlaybackStarts
  <2>5. \A x \in PlaybackReported(r) : Kept(x, s)
    BY <2>4, PlaybackReportedFits DEF Kept
  <2>6. QED
    BY <1>0, <1>3, <2>4, <2>5 DEF Reports
<1>4. CASE s.job # "Resolve" /\ s.job # "Playback"
  <2>1. t = Stepped(s)
    BY <1>4 DEF PhaseEnded
  <2> HIDE DEF r
  <2>2. /\ t.machine = s.machine /\ t.command = s.command
        /\ t.epoch = s.epoch /\ ~t.failed /\ t.job # s.job
        /\ Kept(r, s)
    BY <1>0, <1>4, <2>1, SteppedFits
  <2>3. QED
    BY <1>0, <1>4, <2>2 DEF Reports
<1>5. QED
  BY <1>2, <1>3, <1>4

LEMMA PumpingIs ==
    ASSUME NEW s, Pumping(s)
    PROVE  /\ s \in Calls /\ Sound(s) /\ Fit(s) /\ Opens(s.machine)
           /\ ~Plays(s.machine) /\ s.job \in OpenJobs /\ s.job # "None"
           /\ InStep(s) /\ s.visible /\ ~s.failed
           /\ s.open_service_pending = FALSE
           /\ s.command = "StartOpenPhase"
           /\ s.owned \in {"None", "Partial"}
<1>1. s \in Calls /\ Sound(s) /\ Fit(s) /\ Opens(s.machine)
      /\ s.job \in OpenJobs
  BY FitParts DEF Pumping, Sound
<1>2. s.job # "None"
  BY <1>1 DEF OpenJobs
<1>3. s.open_service_pending \in BOOLEAN
  BY <1>1 DEF Calls
<1>4. QED
  BY <1>1, <1>2, <1>3, FitOpens, ShapesApart

LEMMA OpenRetiredFits ==
    ASSUME NEW s, Fit(s), Opens(s.machine),
           NEW t, t = OpenRetired(s)
    PROVE  Kept(t, s) /\ t.failed
<1> DEFINE q == [s EXCEPT !.open_service_pending = FALSE]
<1>1. s \in Calls /\ Sound(s)
  BY FitParts DEF Sound
<1>2. t = JobFailed(q)
  BY DEF OpenRetired
<1>3. /\ q \in Calls /\ q.machine = s.machine /\ q.command = s.command
      /\ q.epoch = s.epoch /\ q.owned = s.owned /\ q.job = s.job
      /\ q.open_service_pending = FALSE
  BY <1>1 DEF Calls
<1>4. /\ q.source = s.source /\ q.audio_only = s.audio_only
      /\ q.hls = s.hls /\ q.split_streams = s.split_streams
      /\ q.visible = s.visible /\ q.failed = s.failed
      /\ q.system_suspended = s.system_suspended
  BY <1>1 DEF Calls
<1> HIDE DEF q
<1>5. q.open_service_pending = s.open_service_pending \/ s.job = "None"
  <2>1. s.open_service_pending \in BOOLEAN
    BY <1>1 DEF Calls
  <2>2. QED
    BY <1>3, <2>1, FitOpens
<1>6. Sound(q)
  BY <1>1, <1>3 DEF Sound
<1>7. ~Plays(s.machine) /\ ~Stops(s.machine)
  BY ShapesApart
<1>8. Fit(q)
  BY <1>3, <1>4, <1>5, <1>7, FitSame
<1>9. Fit(t) /\ SameCharge(t, q) /\ t.failed
  BY <1>2, <1>3, <1>6, <1>7, <1>8, JobFailedFits
<1>10. QED
  BY <1>4, <1>9 DEF Kept, SameCharge

LEMMA FailedAndReleasedFits ==
    ASSUME NEW s, Fit(s), s.job = "None" \/ Opens(s.machine),
           NEW stuck \in BOOLEAN,
           NEW t, t = FailedAndReleased(s, stuck)
    PROVE  Kept(t, s) /\ (~Plays(s.machine) => t.failed)
<1> DEFINE j == JobFailed(s)
<1>1. Sound(s)
  BY FitParts
<1>2. t = Finished(Destroyed(j, stuck)) /\ j = JobFailed(s)
  BY DEF FailedAndReleased
<1> HIDE DEF j
<1>3. /\ Fit(j) /\ SameCharge(j, s)
      /\ ~Plays(s.machine) => j.failed
      /\ Stops(j.machine) \/ Rests(j.machine)
  BY <1>1, <1>2, JobFailedFits
<1>4. Fit(t) /\ SameCharge(t, j) /\ t.failed = j.failed
  <2>1. Sound(j)
    BY <1>3, FitParts
  <2>2. QED
    BY <1>2, <1>3, <2>1, ReleasedFits
<1>5. QED
  BY <1>3, <1>4 DEF Kept, SameCharge

LEMMA HlsAcquiredFits ==
    ASSUME NEW s, Pumping(s), NEW t \in HlsAcquired(s)
    PROVE  NotEnded(t, s)
<1>1. /\ s \in Calls /\ Sound(s) /\ Opens(s.machine)
      /\ InStep(s) /\ s.visible /\ ~s.failed
      /\ s.open_service_pending = FALSE /\ s.command = "StartOpenPhase"
  BY PumpingIs
<1>2. s.job = "Resolve" /\ t = [s EXCEPT !.hls = TRUE, !.owned = "Partial"]
  BY DEF HlsAcquired
<1>3. /\ t \in Calls /\ t.machine = s.machine /\ t.command = s.command
      /\ t.epoch = s.epoch /\ t.job = s.job /\ t.owned = "Partial"
      /\ t.visible = s.visible /\ t.failed = s.failed
      /\ t.open_service_pending = s.open_service_pending
      /\ t.system_suspended = s.system_suspended
  <2>1. "Partial" \in Pipelines
    BY DEF Pipelines
  <2>2. QED
    BY <1>1, <1>2, <2>1 DEF Calls
<1>4. t.machine.phase = "Resolving"
  BY <1>1, <1>2, <1>3, InStepMeets
<1>5. InStep(t)
  BY <1>2, <1>3, <1>4 DEF InStep
<1>6. Sound(t)
  BY <1>1, <1>3 DEF Sound
<1>7. t.job \in OpenJobs /\ t.job # "None"
      /\ t.job \notin {"VideoDemux", "AudioDemux"}
  BY <1>2, <1>3 DEF OpenJobs
<1>8. Fit(t)
  BY <1>1, <1>3, <1>5, <1>6, <1>7, ShapesApart DEF Fit, Sound
<1>9. QED
  BY <1>3, <1>8 DEF NotEnded, Kept

LEMMA RedoneNotEnded ==
    ASSUME NEW s, Pumping(s), NEW t, Redone(t, s)
    PROVE  NotEnded(t, s)
<1>1. s \in Calls /\ Opens(s.machine)
  BY PumpingIs
<1>2. Fit(t) /\ t.epoch > s.epoch /\ t.system_suspended = s.system_suspended
  BY <1>1 DEF Redone
<1>3. t \in Calls
  BY <1>2, FitParts DEF Sound
<1>4. t.epoch # s.epoch
  BY <1>1, <1>2, <1>3 DEF Calls
<1>5. QED
  BY <1>2, <1>4 DEF NotEnded, Kept

LEMMA UnitFits ==
    ASSUME NEW s, Pumping(s), NEW t \in OpenUnit(s)
    PROVE  NotEnded(t, s) \/ Reports(t, s)
<1>1. /\ Fit(s) /\ Sound(s) /\ Opens(s.machine) /\ ~Plays(s.machine)
      /\ s.job # "None"
  BY PumpingIs
<1>2. CASE t = s
  BY <1>1, <1>2 DEF NotEnded, Kept
<1>3. CASE t = OpenRetired(s)
  BY <1>1, <1>3, OpenRetiredFits DEF NotEnded
<1>4. CASE t = FailedAndReleased(s, FALSE)
  <2>1. PICK b \in BOOLEAN : t = FailedAndReleased(s, b)
    BY <1>4
  <2>2. QED
    BY <1>1, <2>1, FailedAndReleasedFits DEF NotEnded
<1>5. CASE t \in HlsAcquired(s)
  BY <1>5, HlsAcquiredFits
<1>6. CASE t \in PhaseEnded(s)
  BY <1>6, PhaseEndedFits
<1>7. CASE t \in PageCandidate(s) \cup DeliveryRetry(s) \cup QualityRetry(s)
  BY <1>1, <1>7, RetriesFit, RedoneNotEnded
<1>8. CASE t = JobFailed(Destroyed(s, FALSE))
  <2>1. PICK b \in BOOLEAN : t = JobFailed(Destroyed(s, b))
    BY <1>8
  <2> DEFINE d == Destroyed(s, b)
  <2>2. t = JobFailed(d) /\ d = Destroyed(s, b)
    BY <2>1
  <2> HIDE DEF d
  <2>3. Sound(d) /\ SameCharge(d, s) /\ d.machine = s.machine
        /\ d.job = "None"
    BY <1>1, <2>2, DestroyedEffect
  <2>4. Fit(t) /\ SameCharge(t, d) /\ t.failed
    BY <1>1, <2>2, <2>3, JobFailedFits
  <2>5. QED
    BY <2>3, <2>4 DEF NotEnded, Kept, SameCharge
<1>9. QED
  BY <1>2, <1>3, <1>4, <1>5, <1>6, <1>7, <1>8 DEF OpenUnit, UnitFailed

\* The pump reports what its step ended, and finishes what is left to stop.
LEMMA PumpedFits ==
    ASSUME NEW s, Fit(s), NEW t, NEW before,
           before = IF s.open_service_pending /\ s.job = "None" THEN "Resolve"
                    ELSE s.job,
           \/ /\ Kept(t, s)
              /\ \/ before \notin OpenJobs \/ t.job = before
                 \/ t.failed \/ t.epoch # s.epoch
           \/ /\ s.command = "StartOpenPhase" /\ before \in OpenJobs
              /\ t.command = s.command /\ t.epoch = s.epoch /\ ~t.failed
              /\ t.job # before
              /\ before # "Playback" => Kept(PhaseReported(t), s)
              /\ before = "Playback" =>
                   \A r \in PlaybackReported(PhaseReported(t)) : Kept(r, s),
           NEW q \in Pumped(s, t)
    PROVE  Kept(q, s)
<1> DEFINE ended == /\ before \in OpenJobs /\ t.job # before
                    /\ s.command = "StartOpenPhase"
                    /\ t.command = s.command /\ t.epoch = s.epoch
                    /\ ~t.failed
           reported == IF ~ended THEN {t}
                       ELSE IF before = "Playback"
                            THEN PlaybackReported(PhaseReported(t))
                            ELSE {PhaseReported(t)}
<1>1. \A r \in reported : Kept(r, s)
  <2>1. CASE ended
    <3>1. CASE before = "Playback"
      BY <2>1, <3>1
    <3>2. CASE before # "Playback"
      BY <2>1, <3>2
    <3>3. QED
      BY <3>1, <3>2
  <2>2. CASE ~ended
    <3>1. reported = {t} /\ Kept(t, s)
      BY <2>2
    <3>2. QED
      BY <3>1
  <2>3. QED
    BY <2>1, <2>2
<1>2. PICK r \in reported :
          q = IF r.failed /\ r.owned = "None" THEN Finished(r) ELSE r
  BY DEF Pumped
<1>3. Kept(r, s)
  BY <1>1, <1>2
<1> HIDE DEF reported, ended
<1>4. CASE r.failed /\ r.owned = "None"
  <2>1. q = Finished(r) /\ Fit(r)
    BY <1>2, <1>3, <1>4 DEF Kept
  <2>2. Kept(q, r)
    BY <1>4, <2>1, FinishedFits
  <2>3. QED
    BY <1>3, <2>2 DEF Kept
<1>5. CASE ~(r.failed /\ r.owned = "None")
  <2>1. q = r
    BY <1>2, <1>5
  <2>2. QED
    BY <1>3, <2>1
<1>6. QED
  BY <1>4, <1>5

\* A request that takes over begins its open with the first job.
LEMMA BegunPumps ==
    ASSUME NEW s, Fit(s), Opens(s.machine), s.visible, ~s.failed,
           s.open_service_pending, ~s.codec_stuck,
           NEW t, t = Begun(s)
    PROVE  /\ Pumping(t) /\ t.job = "Resolve"
           /\ t.command = s.command /\ t.epoch = s.epoch
           /\ t.system_suspended = s.system_suspended
<1> DEFINE taken == [s EXCEPT !.open_service_pending = FALSE]
<1>1. s \in Calls /\ Sound(s)
  BY FitParts DEF Sound
<1>2. PICK b \in BOOLEAN : t = [Destroyed(taken, b) EXCEPT !.job = "Resolve"]
  BY DEF Begun
<1> DEFINE d == Destroyed(taken, b)
<1>3. /\ taken \in Calls /\ taken.machine = s.machine
      /\ taken.command = s.command /\ taken.epoch = s.epoch
      /\ taken.visible = s.visible /\ taken.failed = s.failed
      /\ taken.open_service_pending = FALSE
      /\ taken.system_suspended = s.system_suspended
  BY <1>1 DEF Calls
<1>4. Sound(taken)
  BY <1>1, <1>3 DEF Sound
<1>5. t = [d EXCEPT !.job = "Resolve"]
  BY <1>2
<1>15. d = Destroyed(taken, b)
  OBVIOUS
<1> HIDE DEF taken, d
<1>6. /\ Sound(d) /\ SameCharge(d, taken)
      /\ d.machine = s.machine /\ d.command = s.command
      /\ d.epoch = s.epoch /\ d.visible = s.visible /\ d.failed = s.failed
      /\ d.open_service_pending = FALSE /\ d.owned = "None"
  <2>1. /\ Sound(d) /\ SameCharge(d, taken)
        /\ d.machine = taken.machine /\ d.command = taken.command
        /\ d.epoch = taken.epoch
        /\ d.visible = taken.visible /\ d.failed = taken.failed
        /\ d.open_service_pending = taken.open_service_pending
        /\ d.owned = "None"
    BY <1>4, <1>15, DestroyedEffect
  <2>2. QED
    BY <1>3, <2>1
<1>7. /\ t \in Calls /\ t.machine = d.machine /\ t.command = d.command
      /\ t.epoch = d.epoch /\ t.visible = d.visible /\ t.failed = d.failed
      /\ t.open_service_pending = d.open_service_pending
      /\ t.owned = d.owned /\ t.job = "Resolve"
      /\ t.system_suspended = d.system_suspended
  <2>1. d \in Calls /\ "Resolve" \in OpenJobs \cup {"None", "Seek"}
    BY <1>6 DEF Sound, OpenJobs
  <2>2. QED
    BY <1>5, <2>1 DEF Calls
<1>8. s.job = "None" /\ s.machine.phase = "Resolving"
      /\ s.machine.pipeline = "None" /\ s.command = "StartOpenPhase"
  BY FitOpens
<1>9. InStep(t)
  BY <1>6, <1>7, <1>8 DEF InStep
<1>10. Sound(t)
  BY <1>6, <1>7 DEF Sound
<1>11. t.job \in OpenJobs /\ t.job # "None"
       /\ t.job \notin {"VideoDemux", "AudioDemux"}
  BY <1>7 DEF OpenJobs
<1>12. t.visible /\ ~t.failed /\ ~t.open_service_pending
       /\ Opens(t.machine) /\ t.owned = "None"
       /\ t.machine.pipeline = "None" /\ t.command = "StartOpenPhase"
  BY <1>6, <1>7, <1>8
<1>13. Fit(t)
  BY <1>9, <1>10, <1>11, <1>12, ShapesApart DEF Fit, Sound
<1>14. QED
  BY <1>3, <1>6, <1>7, <1>11, <1>12, <1>13 DEF Pumping, SameCharge

LEMMA OpenPumpFits ==
    ASSUME NEW s, Fit(s), s.machine.state = "Opening", s.visible, ~s.failed,
           NEW t \in OpenPumpStep(s), NEW q \in Pumped(s, t)
    PROVE  Kept(q, s)
<1> DEFINE before == IF s.open_service_pending /\ s.job = "None"
                     THEN "Resolve" ELSE s.job
           b == Begun(s)
<1>1. Opens(s.machine) /\ Sound(s) /\ s \in Calls
  BY FitParts, ShapesApart DEF Sound
<1>2. s.open_service_pending => s.job = "None"
  BY <1>1, FitOpens
<1>3. t \in IF b.job \in OpenJobs THEN OpenUnit(b) ELSE {b}
  BY DEF OpenPumpStep
<1>4. b = Begun(s) /\ before = IF s.open_service_pending /\ s.job = "None"
                                THEN "Resolve" ELSE s.job
  OBVIOUS
<1> HIDE DEF b, before
<1>5. CASE ~s.open_service_pending
  <2>1. b = s /\ before = s.job
    BY <1>4, <1>5 DEF Begun
  <2>2. CASE s.job \in OpenJobs
    <3>1. Pumping(s) /\ t \in OpenUnit(s)
      BY <1>1, <1>3, <2>1, <2>2 DEF Pumping
    <3>2. NotEnded(t, s) \/ Reports(t, s)
      BY <3>1, UnitFits
    <3>3. s.command = "StartOpenPhase"
      BY <3>1, PumpingIs
    <3>4. CASE NotEnded(t, s)
      BY <1>4, <2>1, <3>4, PumpedFits DEF NotEnded
    <3>5. CASE Reports(t, s)
      BY <1>4, <2>1, <2>2, <3>3, <3>5, PumpedFits DEF Reports
    <3>6. QED
      BY <3>2, <3>4, <3>5
  <2>3. CASE s.job \notin OpenJobs
    <3>1. t = s
      BY <1>3, <2>1, <2>3
    <3>2. Kept(t, s)
      BY <3>1 DEF Kept
    <3>3. QED
      BY <1>4, <2>1, <2>3, <3>2, PumpedFits
  <2>4. QED
    BY <2>2, <2>3
<1>6. CASE s.open_service_pending /\ s.codec_stuck
  <2> DEFINE taken == [s EXCEPT !.open_service_pending = FALSE]
  <2>1. b = JobFailed(taken)
    BY <1>4, <1>6 DEF Begun
  <2>2. b = OpenRetired(s)
    BY <2>1 DEF OpenRetired
  <2>3. Kept(b, s) /\ b.failed
    BY <1>1, <2>2, OpenRetiredFits
  <2>4. b.job = "None"
    <3>1. /\ taken \in Calls /\ taken.machine = s.machine
          /\ taken.command = s.command /\ taken.epoch = s.epoch
          /\ taken.job = s.job
      BY <1>1 DEF Calls
    <3> HIDE DEF taken
    <3>2. Sound(taken)
      BY <1>1, <3>1 DEF Sound
    <3>3. QED
      BY <1>1, <1>2, <1>6, <2>1, <3>1, <3>2, JobFailedFits
  <2>5. t = b
    BY <1>3, <2>4 DEF OpenJobs
  <2>6. QED
    BY <1>4, <2>3, <2>5, PumpedFits
<1>7. CASE s.open_service_pending /\ ~s.codec_stuck
  <2>1. /\ Pumping(b) /\ b.job = "Resolve"
        /\ b.command = s.command /\ b.epoch = s.epoch
        /\ b.system_suspended = s.system_suspended
    BY <1>1, <1>4, <1>7, BegunPumps
  <2>2. t \in OpenUnit(b) /\ before = "Resolve" /\ before \in OpenJobs
    BY <1>2, <1>3, <1>4, <1>7, <2>1 DEF OpenJobs
  <2>3. NotEnded(t, b) \/ Reports(t, b)
    BY <2>1, <2>2, UnitFits
  <2>4. s.command = "StartOpenPhase"
    BY <2>1, PumpingIs
  <2>5. CASE NotEnded(t, b)
    <3>1. Kept(t, s) /\ (t.job = before \/ t.failed \/ t.epoch # s.epoch)
      BY <2>1, <2>2, <2>5 DEF NotEnded, Kept
    <3>2. QED
      BY <1>4, <3>1, PumpedFits
  <2>6. CASE Reports(t, b)
    <3>1. /\ t.command = s.command /\ t.epoch = s.epoch /\ ~t.failed
          /\ t.job # before /\ Kept(PhaseReported(t), s)
      BY <2>1, <2>2, <2>6 DEF Reports, Kept
    <3>2. QED
      BY <1>4, <2>2, <2>4, <3>1, PumpedFits
  <2>7. QED
    BY <2>3, <2>5, <2>6
<1>8. QED
  BY <1>5, <1>6, <1>7

-----------------------------------------------------------------------------
(***************************************************************************)
(* The actions, one by one.                                                *)
(***************************************************************************)
LEMMA AtRestIs ==
    ASSUME NEW s \in Calls, NEW r, r = AtRest(s),
           NEW m, m = s.machine, NEW n, n = r.machine
    PROVE  /\ r \in Calls /\ r.epoch \in 0..1
           /\ s.command # "None" => r.epoch = 1
           /\ r.command = s.command /\ r.owned = s.owned /\ r.job = s.job
           /\ r.open_service_pending = s.open_service_pending
           /\ r.source = s.source /\ r.audio_only = s.audio_only
           /\ r.visible = s.visible /\ r.failed = s.failed
           /\ r.system_suspended = s.system_suspended
           /\ m.state = "Opening" =>
                /\ r.hls = s.hls /\ r.split_streams = s.split_streams
                /\ n.has_separate_audio = m.has_separate_audio
                /\ n.audio_only = m.audio_only
           /\ n \in Machine
           /\ n.state = m.state /\ n.phase = m.phase
           /\ n.quiesce_target = m.quiesce_target /\ n.pipeline = m.pipeline
           /\ n.quarantined = m.quarantined /\ n.has_plan = m.has_plan
           /\ n.suspended_resume_state = m.suspended_resume_state
<1> DEFINE opening == m.state = "Opening"
           priming == m.state = "Priming"
           epoch == IF s.command = "None" THEN 0 ELSE 1
           k == [m EXCEPT !.has_separate_audio = @ /\ opening,
                          !.audio_only = @ /\ opening,
                          !.readiness = IF priming THEN @ ELSE "NeedsSource"]
<1>1. m \in Machine
  BY DEF Calls
<1>2. /\ k \in Machine
      /\ k.state = m.state /\ k.phase = m.phase
      /\ k.quiesce_target = m.quiesce_target /\ k.pipeline = m.pipeline
      /\ k.quarantined = m.quarantined /\ k.has_plan = m.has_plan
      /\ k.suspended_resume_state = m.suspended_resume_state
      /\ m.state = "Opening" =>
            /\ k.has_separate_audio = m.has_separate_audio
            /\ k.audio_only = m.audio_only
  BY <1>1, MachineIs DEF Readinesses
<1>4. epoch \in 0..1 /\ epoch \in Nat /\ (s.command # "None" => epoch = 1)
  OBVIOUS
<1>7. PICK h \in BOOLEAN, p \in BOOLEAN :
          /\ m.state = "Opening" => h = s.hls /\ p = s.split_streams
          /\ r = [s EXCEPT !.epoch = epoch, !.hls = h, !.split_streams = p,
                           !.machine = k]
  <2>1. s.hls \in BOOLEAN /\ s.split_streams \in BOOLEAN
    BY DEF Calls
  <2>2. r = [s EXCEPT !.epoch = epoch, !.hls = (s.hls /\ opening),
                      !.split_streams = (s.split_streams /\ opening),
                      !.machine = k]
    BY DEF AtRest
  <2> WITNESS (s.hls /\ opening) \in BOOLEAN,
              (s.split_streams /\ opening) \in BOOLEAN
  <2>3. QED
    BY <2>1, <2>2
<1> HIDE DEF k, epoch
<1>5. /\ r \in Calls /\ r.epoch = epoch /\ n = k
      /\ r.command = s.command /\ r.owned = s.owned /\ r.job = s.job
      /\ r.open_service_pending = s.open_service_pending
      /\ r.source = s.source /\ r.audio_only = s.audio_only
      /\ r.visible = s.visible /\ r.failed = s.failed
      /\ r.system_suspended = s.system_suspended
      /\ r.hls = h /\ r.split_streams = p
  <2>1. r = [s EXCEPT !.epoch = epoch, !.hls = h, !.split_streams = p,
                      !.machine = k]
    BY <1>7
  <2>2. k \in Machine /\ epoch \in Nat
    BY <1>2, <1>4
  <2>3. QED
    BY <2>1, <2>2 DEF Calls
<1>6. QED
  BY <1>2, <1>4, <1>5, <1>7

LEMMA ShapeOf ==
    ASSUME NEW m, NEW n,
           n.state = m.state, n.phase = m.phase,
           n.quiesce_target = m.quiesce_target, n.pipeline = m.pipeline,
           n.quarantined = m.quarantined, n.has_plan = m.has_plan,
           n.suspended_resume_state = m.suspended_resume_state
    PROVE  /\ Rests(m) => Rests(n)
           /\ Opens(m) => Opens(n)
           /\ Plays(m) => Plays(n)
           /\ Stops(m) => Stops(n)
<1>1. Rests(m) => Rests(n)
  BY DEF Rests
<1>2. Opens(m) => Opens(n)
  BY DEF Opens
<1>3. Plays(m) => Plays(n)
  BY DEF Plays
<1>4. Stops(m) => Stops(n)
  BY DEF Stops
<1>5. QED
  BY <1>1, <1>2, <1>3, <1>4

LEMMA AtRestFits ==
    ASSUME NEW s, Fit(s), NEW r, r = AtRest(s)
    PROVE  /\ Fit(r) /\ r.epoch \in 0..1
           /\ r.system_suspended = s.system_suspended
           /\ r.machine.state = s.machine.state
<1> DEFINE m == s.machine
           n == r.machine
<1>1. Sound(s) /\ s \in Calls
  BY FitParts DEF Sound
<1>2. /\ r \in Calls /\ r.epoch \in 0..1
      /\ s.command # "None" => r.epoch = 1
      /\ r.command = s.command /\ r.owned = s.owned /\ r.job = s.job
      /\ r.open_service_pending = s.open_service_pending
      /\ r.source = s.source /\ r.audio_only = s.audio_only
      /\ r.visible = s.visible /\ r.failed = s.failed
      /\ r.system_suspended = s.system_suspended
      /\ m.state = "Opening" =>
           /\ r.hls = s.hls /\ r.split_streams = s.split_streams
           /\ n.has_separate_audio = m.has_separate_audio
           /\ n.audio_only = m.audio_only
      /\ n \in Machine
      /\ n.state = m.state /\ n.phase = m.phase
      /\ n.quiesce_target = m.quiesce_target /\ n.pipeline = m.pipeline
      /\ n.quarantined = m.quarantined /\ n.has_plan = m.has_plan
      /\ n.suspended_resume_state = m.suspended_resume_state
  BY <1>1, AtRestIs
<1>3. Sound(r)
  BY <1>2 DEF Sound
<1>4. /\ Rests(m) => Rests(n)
      /\ Opens(m) => Opens(n)
      /\ Plays(m) => Plays(n)
      /\ Stops(m) => Stops(n)
  BY <1>2, ShapeOf
<1>5. CASE Rests(m)
  BY <1>2, <1>3, <1>4, <1>5, FitParts, FitWhenRests
<1>6. CASE Plays(m)
  BY <1>2, <1>3, <1>4, <1>6, FitParts, FitWhenPlays
<1>7. CASE Stops(m)
  BY <1>2, <1>3, <1>4, <1>7, FitParts, FitWhenStops
<1>8. CASE Opens(m)
  <2>1. m.state = "Opening" /\ Opens(n)
    BY <1>4, <1>8, ShapesApart
  <2>2. CASE s.job = "None"
    BY <1>2, <1>3, <1>8, <2>1, <2>2, FitOpens, FitWhenOpens
  <2>3. CASE s.job # "None"
    <3>1. /\ s.command = "StartOpenPhase"
          /\ s.owned \in {"None", "Partial"}
          /\ m.pipeline = "Partial" => s.owned = "Partial"
          /\ s.job \in OpenJobs
          /\ s.visible /\ ~s.failed /\ ~s.open_service_pending
          /\ s.job \in {"VideoDemux", "AudioDemux"} => s.owned = "Partial"
          /\ InStep(s)
      BY <1>8, <2>3, FitOpens
    <3>2. InStep(r)
      BY <1>2, <2>1, <3>1 DEF InStep
    <3>3. r.visible /\ ~r.failed /\ ~r.open_service_pending
      BY <1>2, <3>1
    <3>4. QED
      BY <1>2, <1>3, <2>1, <2>3, <3>1, <3>2, <3>3, ShapesApart DEF Fit, Sound
  <2>4. QED
    BY <1>2, <2>2, <2>3
<1>9. QED
  BY <1>2, <1>5, <1>6, <1>7, <1>8, FitParts

\* What holds between calls.
Keeps == Fit(media') /\ media'.epoch \in 0..1
         /\ (media'.system_suspended => media'.machine.state = "Suspended")

LEMMA LeavesKeeps ==
    ASSUME NEW results, Leaves(results),
           \A r \in results :
               Fit(r) /\ (r.system_suspended => r.machine.state = "Suspended")
    PROVE  Keeps
<1>1. PICK r \in results : media' = AtRest(r)
  BY DEF Leaves
<1>2. Fit(r) /\ (r.system_suspended => r.machine.state = "Suspended")
  BY <1>1
<1>3. QED
  BY <1>1, <1>2, AtRestFits DEF Keeps

\* An awake session stays awake in every call but Suspend.
LEMMA AwakeLeaves ==
    ASSUME ~media.system_suspended, NEW results, Leaves(results),
           \A r \in results : Kept(r, media)
    PROVE  Keeps
<1>1. \A r \in results :
          Fit(r) /\ (r.system_suspended => r.machine.state = "Suspended")
  BY DEF Kept
<1>2. QED
  BY <1>1, LeavesKeeps

LEMMA RedoneKept ==
    ASSUME NEW s, NEW r, Redone(r, s)
    PROVE  Kept(r, s)
BY DEF Redone, Kept

\* What no shape reads may change.
Touched(r, s) ==
    /\ r \in Calls /\ r.machine = s.machine /\ r.command = s.command
    /\ r.epoch = s.epoch /\ r.owned = s.owned /\ r.job = s.job
    /\ r.open_service_pending = s.open_service_pending
    /\ r.source = s.source /\ r.audio_only = s.audio_only /\ r.hls = s.hls
    /\ r.split_streams = s.split_streams
    /\ r.visible = s.visible /\ r.failed = s.failed
    /\ r.system_suspended = s.system_suspended

LEMMA TouchedFits ==
    ASSUME NEW s, Fit(s), NEW r, Touched(r, s)
    PROVE  Kept(r, s)
<1>1. Stops(s.machine) => s.owned # "Full" \/ r.failed
  BY FitParts DEF Touched
<1>2. Fit(r)
  BY <1>1, FitSame DEF Touched
<1>3. QED
  BY <1>2 DEF Kept, Touched

\* A player that rolls is one that plays.
LEMMA RollingPlays ==
    ASSUME NEW s, Fit(s), s.owned = "Full", ~s.failed
    PROVE  Plays(s.machine)
<1>1. ~Opens(s.machine)
  BY FitOpens
<1>2. QED
  BY <1>1, FitParts

LEMMA SeekingPlays ==
    ASSUME NEW s, Fit(s), s.job = "Seek"
    PROVE  Plays(s.machine) /\ ~Opens(s.machine)
<1>1. ~Opens(s.machine)
  <2>1. "Seek" \notin OpenJobs /\ "Seek" # "None"
    BY DEF OpenJobs
  <2>2. QED
    BY <2>1, FitOpens
<1>2. QED
  BY <1>1, FitParts

Ready == Fit(media) /\ ~media.system_suspended

LEMMA OpenPumpKeeps ==
    ASSUME Ready, OpenPump
    PROVE  Keeps
<1> DEFINE results == UNION {Pumped(media, t) : t \in OpenPumpStep(media)}
<1>1. Leaves(results) /\ media.visible /\ ~media.failed
      /\ media.machine.state = "Opening"
  BY DEF OpenPump, Shown, Opening
<1>2. \A r \in results : Kept(r, media)
  <2>1. TAKE r \in results
  <2>2. PICK t \in OpenPumpStep(media) : r \in Pumped(media, t)
    OBVIOUS
  <2>3. QED
    BY <1>1, <2>2, OpenPumpFits DEF Ready
<1> HIDE DEF results
<1>3. QED
  BY <1>1, <1>2, AwakeLeaves DEF Ready

LEMMA OpenWatchdogKeeps ==
    ASSUME Ready, OpenWatchdog
    PROVE  Keeps
<1>1. Leaves({OpenRetired(media)}) /\ media.machine.state = "Opening"
  BY DEF OpenWatchdog, Opening
<1>2. Fit(media) /\ Opens(media.machine)
  BY <1>1, FitParts, ShapesApart DEF Ready
<1>3. Kept(OpenRetired(media), media)
  BY <1>2, OpenRetiredFits
<1>4. \A r \in {OpenRetired(media)} : Kept(r, media)
  BY <1>3
<1>5. QED
  BY <1>1, <1>4, AwakeLeaves DEF Ready

LEMMA SeekEndedFits ==
    ASSUME NEW s, Fit(s), s.job = "Seek", NEW r \in SeekEnded(s)
    PROVE  Kept(r, s)
<1> DEFINE done == [s EXCEPT !.job = "None"]
           complete == Complete(done, "SeekComplete")
           primed == Complete(complete, "PrimeReady")
<1>1. s \in Calls /\ Sound(s) /\ Plays(s.machine)
  BY FitParts, SeekingPlays DEF Sound
<1>2. r \in {done, complete, primed}
  BY DEF SeekEnded
<1>3. /\ done \in Calls /\ done.machine = s.machine
      /\ done.command = s.command /\ done.epoch = s.epoch
      /\ done.owned = s.owned /\ done.job = "None"
      /\ done.visible = s.visible
      /\ done.system_suspended = s.system_suspended
  BY <1>1 DEF Calls
<1>4. complete = Complete(done, "SeekComplete")
      /\ primed = Complete(complete, "PrimeReady")
  OBVIOUS
<1> HIDE DEF done, complete, primed
<1>5. Kept(done, s)
  <2>1. Sound(done) /\ done.owned = "Full"
        /\ (s.machine.state # "Dormant" => done.visible)
    BY <1>1, <1>3, FitParts DEF Sound
  <2>2. QED
    BY <1>1, <1>3, <2>1, FitWhenPlays DEF Kept
<1>6. Harmless("SeekComplete") /\ Harmless("PrimeReady")
  BY DEF Harmless, Stoppers
<1>7. Kept(complete, done) /\ Plays(complete.machine)
  <2>1. Fit(done) /\ ~Opens(done.machine) /\ Plays(done.machine)
    BY <1>1, <1>3, <1>5, ShapesApart DEF Kept
  <2>2. QED
    BY <1>4, <1>6, <2>1, CompleteFits
<1>8. Kept(primed, complete)
  <2>1. Fit(complete) /\ ~Opens(complete.machine)
    BY <1>7, ShapesApart DEF Kept
  <2>2. QED
    BY <1>4, <1>6, <2>1, CompleteFits
<1>9. QED
  BY <1>2, <1>5, <1>7, <1>8 DEF Kept

LEMMA SeekPumpKeeps ==
    ASSUME Ready, SeekPump
    PROVE  Keeps
<1> DEFINE results == SeekEnded(media) \cup SeekReplaced(media)
                      \cup {JobFailed(media)}
<1>1. Leaves(results) /\ media.job = "Seek" /\ Fit(media)
  BY DEF SeekPump, Ready
<1>2. \A r \in SeekEnded(media) : Kept(r, media)
  BY <1>1, SeekEndedFits
<1>3. \A r \in SeekReplaced(media) : Kept(r, media)
  BY <1>1, RetriesFit, RedoneKept DEF SeekReplaced
<1>4. Kept(JobFailed(media), media)
  <2>1. Sound(media)
    BY <1>1, FitParts
  <2>2. QED
    BY <1>1, <2>1, JobFailedFits DEF Kept, SameCharge
<1>5. \A r \in results : Kept(r, media)
  BY <1>2, <1>3, <1>4
<1> HIDE DEF results
<1>6. QED
  BY <1>1, <1>5, AwakeLeaves DEF Ready

\* An answer to a player that plays leaves it one.
LEMMA AnsweredFits ==
    ASSUME NEW s, Fit(s), Plays(s.machine), NEW type, Harmless(type),
           NEW r, r = Complete(s, type)
    PROVE  Kept(r, s) /\ Plays(r.machine) /\ r.owned = s.owned
           /\ r.job = s.job
<1>1. ~Opens(s.machine)
  BY ShapesApart
<1>2. QED
  BY <1>1, CompleteFits DEF SameHands

LEMMA FramePresentedFits ==
    ASSUME NEW s, Fit(s), Plays(s.machine), NEW r \in FramePresented(s)
    PROVE  Kept(r, s)
<1> DEFINE q == [s EXCEPT !.pause_boundary = FALSE]
           displayed == Complete(q, "FrameDisplayed")
           rested == IF s.pause_boundary /\ ~s.audio_only THEN displayed
                     ELSE s
           primed == Complete(rested, "PrimeReady")
<1>1. s \in Calls
  BY FitParts DEF Sound
<1>2. r \in {rested, primed}
  BY DEF FramePresented
<1>3. Touched(q, s)
  <2>1. PICK b \in BOOLEAN : q = [s EXCEPT !.pause_boundary = b]
    OBVIOUS
  <2>2. q = [s EXCEPT !.pause_boundary = FALSE]
    OBVIOUS
  <2>3. QED
    BY <1>1, <2>2 DEF Touched, Calls
<1>4. displayed = Complete(q, "FrameDisplayed") /\ rested \in {s, displayed}
      /\ primed = Complete(rested, "PrimeReady")
  OBVIOUS
<1> HIDE DEF q, displayed, rested, primed
<1>5. Harmless("FrameDisplayed") /\ Harmless("PrimeReady")
  BY DEF Harmless, Stoppers
<1>6. Kept(q, s) /\ Plays(q.machine)
  BY <1>3, TouchedFits DEF Touched
<1>7. Kept(displayed, s) /\ Plays(displayed.machine)
  BY <1>4, <1>5, <1>6, AnsweredFits DEF Kept
<1>8. Kept(rested, s) /\ Plays(rested.machine)
  BY <1>4, <1>7 DEF Kept
<1>9. Kept(primed, s)
  BY <1>4, <1>5, <1>8, AnsweredFits DEF Kept
<1>10. QED
  BY <1>2, <1>8, <1>9

LEMMA RollingIs ==
    ASSUME Ready, Rolling
    PROVE  /\ Fit(media) /\ media \in Calls /\ Sound(media)
           /\ Plays(media.machine) /\ media.visible /\ ~media.failed
           /\ media.owned = "Full" /\ media.job = "None"
<1>1. /\ Fit(media) /\ media.visible /\ ~media.failed
      /\ media.owned = "Full" /\ media.job = "None"
  BY DEF Ready, Rolling, Shown
<1>2. QED
  BY <1>1, FitParts, RollingPlays DEF Sound

LEMMA TakeFrameKeeps ==
    ASSUME Ready, TakeFrame
    PROVE  Keeps
<1>1. Fit(media) /\ Plays(media.machine)
  BY RollingIs DEF TakeFrame
<1>2. PICK stable \in BOOLEAN :
          Leaves({[s EXCEPT !.attempts = IF stable THEN 0 ELSE @] :
                   s \in FramePresented(media)})
  BY DEF TakeFrame
<1> DEFINE results == {[s EXCEPT !.attempts = IF stable THEN 0 ELSE @] :
                         s \in FramePresented(media)}
<1>3. \A r \in results : Kept(r, media)
  <2>1. TAKE r \in results
  <2>2. PICK s \in FramePresented(media) :
            r = [s EXCEPT !.attempts = IF stable THEN 0 ELSE @]
    OBVIOUS
  <2>3. Kept(s, media)
    BY <1>1, <2>2, FramePresentedFits
  <2>4. s \in Calls /\ Fit(s)
    BY <2>3, FitParts DEF Kept, Sound
  <2> DEFINE attempts == IF stable THEN 0 ELSE s.attempts
  <2>5. attempts \in 0..MaxAttempts
    BY <2>4, SessionAssumption DEF Calls
  <2>6. r = [s EXCEPT !.attempts = attempts]
    BY <2>2, <2>4 DEF Calls
  <2> HIDE DEF attempts
  <2>7. Touched(r, s)
    BY <2>4, <2>5, <2>6 DEF Touched, Calls
  <2>8. QED
    BY <2>3, <2>4, <2>7, TouchedFits DEF Kept
<1>4. Leaves(results)
  BY <1>2
<1> HIDE DEF results
<1>5. QED
  BY <1>3, <1>4, AwakeLeaves DEF Ready

LEMMA RetriesKept ==
    ASSUME NEW s, Fit(s), NEW r \in Retries(s)
    PROVE  Kept(r, s)
BY RetriesFit, RedoneKept DEF Retries

LEMMA DecodeFailsKeeps ==
    ASSUME Ready, DecodeFails
    PROVE  Keeps
<1> DEFINE results == Retries(media)
               \cup {FailedAndReleased(media, stuck) : stuck \in BOOLEAN}
<1>1. Leaves(results) /\ Fit(media) /\ media.job = "None"
  BY RollingIs DEF DecodeFails
<1>2. \A r \in results : Kept(r, media)
  <2>1. TAKE r \in results
  <2>2. CASE r \in Retries(media)
    BY <1>1, <2>2, RetriesKept
  <2>3. CASE r \notin Retries(media)
    <3>1. PICK stuck \in BOOLEAN : r = FailedAndReleased(media, stuck)
      BY <2>3
    <3>2. QED
      BY <1>1, <3>1, FailedAndReleasedFits
  <2>4. QED
    BY <2>2, <2>3
<1> HIDE DEF results
<1>3. QED
  BY <1>1, <1>2, AwakeLeaves DEF Ready

LEMMA StallKeeps ==
    ASSUME Ready, Stall
    PROVE  Keeps
<1> DEFINE panel == Raised([media EXCEPT !.pause_boundary = FALSE])
           results == Retries(media) \cup {panel}
<1>1. Leaves(results) /\ Fit(media) /\ media \in Calls /\ Sound(media)
      /\ Plays(media.machine) /\ media.owned = "Full" /\ media.job = "None"
  BY RollingIs DEF Stall
<1>2. Kept(panel, media)
  <2>1. panel = [media EXCEPT !.pause_boundary = FALSE, !.failed = TRUE,
                              !.visible = TRUE]
    BY <1>1 DEF Raised, Calls
  <2> HIDE DEF panel
  <2>2. /\ panel \in Calls /\ panel.machine = media.machine
        /\ panel.command = media.command /\ panel.epoch = media.epoch
        /\ panel.owned = media.owned /\ panel.job = media.job
        /\ panel.visible
        /\ panel.system_suspended = media.system_suspended
    BY <1>1, <2>1 DEF Calls
  <2>3. Sound(panel)
    BY <1>1, <2>2 DEF Sound
  <2>4. QED
    BY <1>1, <2>2, <2>3, FitWhenPlays DEF Kept
<1>3. \A r \in results : Kept(r, media)
  BY <1>1, <1>2, RetriesKept
<1> HIDE DEF results
<1>4. QED
  BY <1>1, <1>3, AwakeLeaves DEF Ready

LEMMA InterruptedKeeps ==
    ASSUME Ready, Interrupted
    PROVE  Keeps
<1> DEFINE r == [media EXCEPT !.pause_boundary = FALSE,
                              !.buffering_service = FALSE]
<1>1. Leaves({r}) /\ Fit(media) /\ media \in Calls
  BY RollingIs DEF Interrupted
<1>2. Touched(r, media)
  BY <1>1 DEF Touched, Calls
<1> HIDE DEF r
<1>3. \A x \in {r} : Kept(x, media)
  BY <1>1, <1>2, TouchedFits
<1>4. QED
  BY <1>1, <1>3, AwakeLeaves DEF Ready

LEMMA TransportExpiryKeeps ==
    ASSUME Ready, TransportExpiry
    PROVE  Keeps
<1>1. Leaves(Charged(TransportRetry(media))) /\ Fit(media)
  BY RollingIs DEF TransportExpiry
<1>2. \A r \in Charged(TransportRetry(media)) : Kept(r, media)
  BY <1>1, RetriesFit, RedoneKept
<1>3. QED
  BY <1>1, <1>2, AwakeLeaves DEF Ready

\* The recovery's refusal stops the player, over the failure panel.
LEMMA RecoveryFailedFits ==
    ASSUME NEW s, Fit(s), Plays(s.machine), s.job = "None",
           NEW r, r = Complete(Raised(s), "RecoveryFailed")
    PROVE  Kept(r, s)
<1> DEFINE q == Raised(s)
           e == Completion(q, "RecoveryFailed")
<1>1. s \in Calls /\ Sound(s) /\ s.owned = "Full"
  BY FitParts DEF Sound
<1>2. q = [s EXCEPT !.failed = TRUE, !.visible = TRUE]
  BY DEF Raised
<1>3. r = Dispatch(q, e) /\ e = Completion(q, "RecoveryFailed")
  BY DEF Complete
<1> HIDE DEF q, e
<1>4. /\ q \in Calls /\ q.machine = s.machine /\ q.command = s.command
      /\ q.epoch = s.epoch /\ q.owned = s.owned /\ q.job = s.job
      /\ q.visible /\ q.failed
      /\ q.system_suspended = s.system_suspended
  BY <1>1, <1>2 DEF Calls
<1>5. Sound(q)
  BY <1>1, <1>4 DEF Sound
<1>6. Fit(q) /\ Plays(q.machine)
  BY <1>1, <1>4, <1>5, FitWhenPlays
<1>7. Fair(q, e)
  <2>1. Told(e) /\ e.type = "RecoveryFailed" /\ ~Stale(q, e)
    BY <1>3, CompletionIs
  <2>2. ~Opens(q.machine)
    BY <1>6, ShapesApart
  <2>3. QED
    BY <2>1, <2>2 DEF Fair
<1>8. /\ Sound(r) /\ SameHands(r, q)
      /\ ~Plays(r.machine) => r.failed = q.failed
      /\ Fit(r) \/ Stops(r.machine)
  BY <1>3, <1>6, <1>7, DispatchMoves
<1>9. Fit(r)
  <2>1. CASE Stops(r.machine)
    <3>1. ~Plays(r.machine)
      BY <2>1, ShapesApart
    <3>2. r.failed /\ r.job = "None"
      BY <1>4, <1>8, <3>1 DEF SameHands
    <3>3. QED
      BY <1>8, <2>1, <3>2, FitWhenStops
  <2>2. QED
    BY <1>8, <2>1
<1>10. QED
  BY <1>4, <1>8, <1>9 DEF Kept, SameHands

LEMMA DecoderRefusedKeeps ==
    ASSUME Ready, DecoderRefused
    PROVE  Keeps
<1> DEFINE refused == Tell(media, "DecoderRefused")
           recovered == Complete(refused, "RecoveryComplete")
           failed == Complete(Raised(refused), "RecoveryFailed")
<1>1. Leaves({recovered, failed}) /\ Fit(media) /\ Plays(media.machine)
      /\ media.job = "None"
  BY RollingIs DEF DecoderRefused
<1>2. Harmless("DecoderRefused") /\ Harmless("RecoveryComplete")
  BY DEF Harmless, Stoppers
<1>3. /\ refused = Tell(media, "DecoderRefused")
      /\ recovered = Complete(refused, "RecoveryComplete")
      /\ failed = Complete(Raised(refused), "RecoveryFailed")
  OBVIOUS
<1> HIDE DEF refused, recovered, failed
<1>4. Kept(refused, media) /\ Plays(refused.machine) /\ refused.job = "None"
  BY <1>1, <1>2, <1>3, TellFits DEF SameHands
<1>5. Kept(recovered, refused)
  BY <1>2, <1>3, <1>4, AnsweredFits DEF Kept
<1>6. Kept(failed, refused)
  BY <1>3, <1>4, RecoveryFailedFits DEF Kept
<1>7. \A r \in {recovered, failed} : Kept(r, media)
  BY <1>4, <1>5, <1>6 DEF Kept
<1>8. QED
  BY <1>1, <1>7, AwakeLeaves DEF Ready

LEMMA PlaybackEndedKeeps ==
    ASSUME Ready, PlaybackEnded
    PROVE  Keeps
<1> DEFINE r == Tell(media, "PlaybackEnded")
<1>1. Leaves({r}) /\ Fit(media)
  BY RollingIs DEF PlaybackEnded
<1>2. r = Tell(media, "PlaybackEnded") /\ Harmless("PlaybackEnded")
  BY DEF Harmless, Stoppers
<1> HIDE DEF r
<1>3. \A x \in {r} : Kept(x, media)
  BY <1>1, <1>2, TellFits
<1>4. QED
  BY <1>1, <1>3, AwakeLeaves DEF Ready

LEMMA BufferingBegunFits ==
    ASSUME NEW s, Fit(s), NEW r, r = BufferingBegun(s)
    PROVE  Kept(r, s)
<1> DEFINE q == [s EXCEPT !.buffering_service = TRUE]
<1>1. s \in Calls
  BY FitParts DEF Sound
<1>2. r = s \/ r = Tell(q, "SourceStarved")
  BY DEF BufferingBegun
<1>3. Touched(q, s)
  BY <1>1 DEF Touched, Calls
<1> HIDE DEF q
<1>4. Harmless("SourceStarved")
  BY DEF Harmless, Stoppers
<1>5. Kept(q, s)
  BY <1>3, TouchedFits
<1>6. r = Tell(q, "SourceStarved") => Kept(r, q)
  BY <1>4, <1>5, TellFits DEF Kept
<1>7. QED
  BY <1>2, <1>5, <1>6 DEF Kept

LEMMA BufferingUpdateKeeps ==
    ASSUME Ready, BufferingUpdate
    PROVE  Keeps
<1> DEFINE ended == [media EXCEPT !.buffering_service = FALSE]
           begun == BufferingBegun(media)
           e(readiness) == [Event("BufferStable") EXCEPT
                               !.readiness = readiness]
           stable(readiness) == Dispatch(ended, e(readiness))
<1>1. Fit(media) /\ media \in Calls
  BY RollingIs DEF BufferingUpdate
<1>2. \/ Leaves({ended})
      \/ Leaves({begun})
      \/ \E readiness \in {"Ready", "NeedsPrime"} : Leaves({stable(readiness)})
  BY DEF BufferingUpdate
<1>3. Touched(ended, media)
  BY <1>1 DEF Touched, Calls
<1>4. \A readiness \in {"Ready", "NeedsPrime"} :
          /\ Told(e(readiness)) /\ e(readiness).type = "BufferStable"
          /\ e(readiness).service_epoch = 0
  BY DEF Event, Told, Readinesses
<1>5. Harmless("BufferStable")
  BY DEF Harmless, Stoppers
<1>6. begun = BufferingBegun(media)
  OBVIOUS
<1>7. \A readiness : stable(readiness) = Dispatch(ended, e(readiness))
  OBVIOUS
<1> HIDE DEF ended, begun, e, stable
<1>8. Kept(ended, media)
  BY <1>1, <1>3, TouchedFits
<1>9. Kept(begun, media)
  BY <1>1, <1>6, BufferingBegunFits
<1>10. \A readiness \in {"Ready", "NeedsPrime"} : Kept(stable(readiness), media)
  <2>1. TAKE readiness \in {"Ready", "NeedsPrime"}
  <2> DEFINE v == e(readiness)
             r == stable(readiness)
  <2>2. Told(v) /\ v.service_epoch = 0 /\ Harmless(v.type)
    BY <1>4, <1>5
  <2>3. r = Dispatch(ended, v)
    BY <1>7
  <2> HIDE DEF v, r
  <2>4. Kept(r, ended)
    BY <1>8, <2>2, <2>3, NewsFits DEF Kept
  <2>5. Kept(r, media)
    BY <1>8, <2>4 DEF Kept
  <2>6. QED
    BY <2>5 DEF r
<1>11. CASE Leaves({ended})
  <2>1. \A x \in {ended} : Kept(x, media)
    BY <1>8
  <2>2. QED
    BY <1>11, <2>1, AwakeLeaves DEF Ready
<1>12. CASE Leaves({begun})
  <2>1. \A x \in {begun} : Kept(x, media)
    BY <1>9
  <2>2. QED
    BY <1>12, <2>1, AwakeLeaves DEF Ready
<1>13. ASSUME NEW readiness \in {"Ready", "NeedsPrime"},
              Leaves({stable(readiness)})
       PROVE  Keeps
  <2>1. \A x \in {stable(readiness)} : Kept(x, media)
    BY <1>10
  <2>2. QED
    BY <1>13, <2>1, AwakeLeaves DEF Ready
<1>14. QED
  BY <1>2, <1>11, <1>12, <1>13

LEMMA CodecSticksKeeps ==
    ASSUME Ready, CodecSticks
    PROVE  Keeps
<1> DEFINE r == [media EXCEPT !.codec_stuck = TRUE]
<1>1. Leaves({r}) /\ Fit(media) /\ media \in Calls
  BY FitParts DEF CodecSticks, Ready, Sound
<1>2. Touched(r, media)
  BY <1>1 DEF Touched, Calls
<1> HIDE DEF r
<1>3. \A x \in {r} : Kept(x, media)
  BY <1>1, <1>2, TouchedFits
<1>4. QED
  BY <1>1, <1>3, AwakeLeaves DEF Ready

LEMMA FrameKeeps ==
    ASSUME Ready, Frame
    PROVE  Keeps
BY OpenWatchdogKeeps, TakeFrameKeeps, DecodeFailsKeeps, StallKeeps,
   InterruptedKeeps, TransportExpiryKeeps, DecoderRefusedKeeps,
   PlaybackEndedKeeps, BufferingUpdateKeeps, CodecSticksKeeps DEF Frame

-----------------------------------------------------------------------------
(***************************************************************************)
(* The requests of the user, of the route and of the page.                 *)
(***************************************************************************)
\* A machine that stops goes on stopping.
LEMMA StopsStay ==
    ASSUME NEW s, Fit(s), Stops(s.machine), NEW e, Told(e), ~Stale(s, e),
           e.type # "AdmissionStopped", NEW r, r = Dispatch(s, e)
    PROVE  /\ Sound(r) /\ SameHands(r, s) /\ Stops(r.machine)
           /\ r.visible = s.visible /\ r.failed = s.failed
<1> DEFINE d == Transition(s.machine, e)
<1>1. Sound(s) /\ s.machine \in Machine
  BY FitParts
<1>2. d.command = "None" /\ d.next \in Machine /\ Stops(d.next)
  BY <1>1, StopsMoves
<1>3. d = Transition(s.machine, e)
  OBVIOUS
<1> HIDE DEF d
<1>4. d.command \in Commands /\ d.next.state \notin Active \cup {"Dormant"}
  BY <1>2, ShapesApart DEF Commands
<1>5. QED
  BY <1>1, <1>2, <1>3, <1>4, DispatchEffect

LEMMA RouteOpenKeeps ==
    ASSUME Ready, RouteOpen
    PROVE  Keeps
<1>1. PICK source \in Sources, audio \in BOOLEAN, stuck \in BOOLEAN,
           candidates \in 0..MaxCandidates :
          Leaves({RouteOpened(media, source, audio, TRUE, candidates, stuck)})
  BY DEF RouteOpen
<1>2. PICK autoplay \in BOOLEAN :
          Leaves({RouteOpened(media, source, audio, autoplay, candidates,
                              stuck)})
  BY <1>1
<1> DEFINE r == RouteOpened(media, source, audio, autoplay, candidates, stuck)
<1>3. Leaves({r})
        /\ r = RouteOpened(media, source, audio, autoplay, candidates, stuck)
  BY <1>2
<1>4. Fit(media) /\ source \in Sources \cup {"None"}
  BY DEF Ready
<1> HIDE DEF r
<1>5. Redone(r, media)
  BY <1>3, <1>4, RouteOpenedFits
<1>6. \A x \in {r} : Kept(x, media)
  BY <1>5, RedoneKept
<1>7. QED
  BY <1>3, <1>6, AwakeLeaves DEF Ready

\* A pipeline the route comes back to is shown as it is.
LEMMA ReusedFits ==
    ASSUME NEW s, Fit(s), s.owned = "Full", NEW autoplay \in BOOLEAN,
           NEW r, r = Reused(s, autoplay)
    PROVE  Kept(r, s)
<1> DEFINE e == ReuseEvent(s, autoplay)
           d == Dispatch(s, e)
<1>1. s \in Calls
  BY FitParts DEF Sound
<1>2. Told(e) /\ e.type = "Open" /\ e.service_epoch = 0 /\ e.reuse_pipeline
  BY <1>1 DEF ReuseEvent, Event, Told, Readinesses, Calls
<1>3. d = Dispatch(s, e)
  OBVIOUS
<1>4. r = [d EXCEPT !.visible = TRUE]
  BY DEF Reused
<1> HIDE DEF e, d
<1>5. ~Opens(s.machine)
  BY FitOpens
<1>6. Fair(s, e)
  BY <1>2, <1>5, NewsIsCurrent DEF Fair
<1>7. Fit(d) /\ SameHands(d, s)
  <2>1. e.type \notin Stoppers \cup {"OpenFailed"}
    BY <1>2 DEF Stoppers
  <2>2. QED
    BY <1>3, <1>6, <2>1, DispatchMoves
<1>8. d \in Calls /\ ~Opens(d.machine)
  BY <1>7, FitParts, FitOpens DEF Sound, SameHands
<1>9. /\ r \in Calls /\ r.machine = d.machine /\ r.command = d.command
      /\ r.epoch = d.epoch /\ r.owned = d.owned /\ r.job = d.job
      /\ r.open_service_pending = d.open_service_pending
      /\ r.source = d.source /\ r.audio_only = d.audio_only /\ r.hls = d.hls
      /\ r.split_streams = d.split_streams /\ r.visible
      /\ r.failed = d.failed /\ r.system_suspended = d.system_suspended
  BY <1>4, <1>8 DEF Calls
<1>10. Stops(d.machine) => d.owned # "Full" \/ r.failed
  BY <1>7, <1>9, FitParts
<1>11. Fit(r)
  BY <1>7, <1>8, <1>9, <1>10, FitSame
<1>12. QED
  BY <1>7, <1>9, <1>11 DEF Kept, SameHands

LEMMA RouteAgainKeeps ==
    ASSUME Ready, RouteAgain
    PROVE  Keeps
<1>1. /\ Fit(media) /\ media \in Calls /\ media.machine \in Machine
      /\ ~media.visible
  BY FitParts DEF Ready, RouteAgain, Sound
<1>2. CASE media.owned = "Full"
           /\ Leaves({Reused(media, media.machine.resume_playing)})
  <2> DEFINE b == media.machine.resume_playing
             r == Reused(media, b)
  <2>1. b \in BOOLEAN
    BY <1>1, MachineIs
  <2>2. Leaves({r}) /\ r = Reused(media, b)
    BY <1>2
  <2> HIDE DEF b, r
  <2>3. \A x \in {r} : Kept(x, media)
    BY <1>1, <1>2, <2>1, <2>2, ReusedFits
  <2>4. QED
    BY <2>2, <2>3, AwakeLeaves DEF Ready
<1>3. CASE media.owned # "Full"
           /\ Leaves({OpenRequested([media EXCEPT !.quality_fallback = FALSE],
                                    TRUE)})
  <2> DEFINE q == [media EXCEPT !.quality_fallback = FALSE]
  <2>1. PICK autoplay \in BOOLEAN : Leaves({OpenRequested(q, autoplay)})
    BY <1>3
  <2>2. Touched(q, media)
    BY <1>1 DEF Touched, Calls
  <2> HIDE DEF q
  <2> DEFINE r == OpenRequested(q, autoplay)
  <2>3. Leaves({r}) /\ r = OpenRequested(q, autoplay)
    BY <2>1
  <2> HIDE DEF r
  <2>4. Kept(q, media)
    BY <1>1, <2>2, TouchedFits
  <2>5. q.owned # "Full" /\ (Opens(q.machine) => q.job = "None")
    BY <1>1, <1>3, <2>2, FitOpens DEF Touched
  <2>6. Fit(r) /\ SameCharge(r, q)
    BY <2>3, <2>4, <2>5, OpenRequestedFits DEF Kept
  <2>7. \A x \in {r} : Kept(x, media)
    BY <2>4, <2>6 DEF Kept, SameCharge
  <2>8. QED
    BY <2>3, <2>7, AwakeLeaves DEF Ready
<1>4. QED
  BY <1>2, <1>3 DEF RouteAgain

\* Retry re-arms the open of a failed player.
LEMMA RetriedFits ==
    ASSUME NEW s, Fit(s), s.owned # "Full", s.failed,
           NEW r, r = Resolving(Tell([s EXCEPT !.open_service_pending = TRUE],
                                     "Retry"))
    PROVE  Kept(r, s)
<1> DEFINE q == [s EXCEPT !.open_service_pending = TRUE]
           d == Tell(q, "Retry")
<1>1. s \in Calls
  BY FitParts DEF Sound
<1>2. s.job = "None"
  <2>1. Opens(s.machine) => s.job = "None"
    BY FitOpens
  <2>2. QED
    BY <2>1, FitParts
<1>3. r = [d EXCEPT !.failed = FALSE, !.visible = TRUE]
  BY DEF Resolving
<1>4. d = Tell(q, "Retry")
  OBVIOUS
<1>5. /\ q \in Calls /\ q.machine = s.machine /\ q.command = s.command
      /\ q.epoch = s.epoch /\ q.owned = s.owned /\ q.job = s.job
      /\ q.source = s.source /\ q.audio_only = s.audio_only /\ q.hls = s.hls
      /\ q.split_streams = s.split_streams /\ q.visible = s.visible
      /\ q.failed = s.failed /\ q.system_suspended = s.system_suspended
  BY <1>1 DEF Calls
<1> HIDE DEF q, d
<1>6. Fit(q)
  BY <1>2, <1>5, FitSame
<1>7. Harmless("Retry")
  BY DEF Harmless, Stoppers
<1>8. Kept(d, q) /\ SameHands(d, q)
  BY <1>4, <1>6, <1>7, TellFits
<1>9. Fit(d) /\ d \in Calls /\ d.job = "None" /\ d.owned # "Full"
  BY <1>2, <1>5, <1>8, FitParts DEF Kept, SameHands, Sound
<1>10. /\ r \in Calls /\ r.machine = d.machine /\ r.command = d.command
       /\ r.epoch = d.epoch /\ r.owned = d.owned /\ r.job = d.job
       /\ r.open_service_pending = d.open_service_pending
       /\ r.source = d.source /\ r.audio_only = d.audio_only /\ r.hls = d.hls
       /\ r.split_streams = d.split_streams /\ r.visible
       /\ r.system_suspended = d.system_suspended
  BY <1>3, <1>9 DEF Calls
<1>11. Fit(r)
  BY <1>9, <1>10, FitSame
<1>12. QED
  BY <1>5, <1>8, <1>10, <1>11 DEF Kept, SameHands

LEMMA PageReturnKeeps ==
    ASSUME Ready, PageReturn
    PROVE  Keeps
<1>1. Fit(media)
  BY DEF Ready
<1>2. ASSUME media.owned = "Full", NEW autoplay \in BOOLEAN,
             Leaves({Reused(media, autoplay)})
      PROVE  Keeps
  <2> DEFINE r == Reused(media, autoplay)
  <2>1. Leaves({r}) /\ r = Reused(media, autoplay)
    BY <1>2
  <2> HIDE DEF r
  <2>2. \A x \in {r} : Kept(x, media)
    BY <1>1, <1>2, <2>1, ReusedFits
  <2>3. QED
    BY <2>1, <2>2, AwakeLeaves DEF Ready
<1>3. CASE media.owned # "Full" /\ media.failed
           /\ Leaves({Resolving(Tell([media EXCEPT
                                        !.open_service_pending = TRUE],
                                     "Retry"))})
  <2> DEFINE r == Resolving(Tell([media EXCEPT !.open_service_pending = TRUE],
                                 "Retry"))
  <2>1. Leaves({r})
    BY <1>3
  <2>2. Kept(r, media)
    BY <1>1, <1>3, RetriedFits
  <2> HIDE DEF r
  <2>3. \A x \in {r} : Kept(x, media)
    BY <2>2
  <2>4. QED
    BY <2>1, <2>3, AwakeLeaves DEF Ready
<1>4. QED
  BY <1>2, <1>3 DEF PageReturn

LEMMA RouteInternalKeeps ==
    ASSUME Ready, RouteInternal
    PROVE  Keeps
<1> DEFINE e == [Event("Close") EXCEPT !.retain_pipeline = TRUE]
           d == Dispatch(media, e)
           r == [d EXCEPT !.visible = FALSE]
<1>1. Fit(media) /\ media.owned = "Full" /\ Leaves({r})
  BY DEF Ready, RouteInternal
<1>2. Told(e) /\ e.type = "Close" /\ e.service_epoch = 0 /\ e.retain_pipeline
  BY DEF Event, Told, Readinesses
<1>3. d = Dispatch(media, e) /\ r = [d EXCEPT !.visible = FALSE]
  OBVIOUS
<1> HIDE DEF e, d, r
<1>4. ~Opens(media.machine) /\ ~Rests(media.machine)
  BY <1>1, FitOpens, FitParts
<1>5. /\ Sound(d) /\ SameHands(d, media)
      /\ \/ Plays(d.machine) /\ d.machine.state = "Dormant"
         \/ Stops(d.machine) /\ d.failed = media.failed
  <2>1. CASE Plays(media.machine)
    <3>1. Fair(media, e)
      BY <1>2, <1>4, NewsIsCurrent DEF Fair
    <3>2. QED
      BY <1>1, <1>2, <1>3, <2>1, <3>1, DispatchMoves
  <2>2. CASE Stops(media.machine)
    <3>1. ~Stale(media, e) /\ e.type # "AdmissionStopped"
      BY <1>2, NewsIsCurrent
    <3>2. QED
      BY <1>1, <1>2, <1>3, <2>2, <3>1, StopsStay
  <2>3. QED
    BY <1>1, <1>4, <2>1, <2>2, FitParts
<1>6. /\ r \in Calls /\ r.machine = d.machine /\ r.command = d.command
      /\ r.epoch = d.epoch /\ r.owned = d.owned /\ r.job = d.job
      /\ r.failed = d.failed /\ r.system_suspended = d.system_suspended
  <2>1. d \in Calls
    BY <1>5 DEF Sound
  <2>2. r = [d EXCEPT !.visible = FALSE]
    BY <1>3
  <2>3. QED
    BY <2>1, <2>2 DEF Calls
<1>7. Sound(r)
  BY <1>5, <1>6 DEF Sound
<1>8. r.owned = "Full" /\ r.job = media.job
      /\ r.system_suspended = media.system_suspended
  BY <1>1, <1>5, <1>6 DEF SameHands
<1>9. Fit(r)
  <2>1. CASE Plays(d.machine) /\ d.machine.state = "Dormant"
    <3>1. media.job \in {"None", "Seek"}
      BY <1>1, <1>4, FitParts
    <3>2. QED
      BY <1>6, <1>7, <1>8, <2>1, <3>1, FitWhenPlays
  <2>2. CASE Stops(d.machine) /\ d.failed = media.failed
    <3>1. Stops(media.machine)
      <4>1. CASE Plays(media.machine)
        <5>1. Fair(media, e)
          BY <1>2, <1>4, NewsIsCurrent DEF Fair
        <5>2. Plays(d.machine)
          BY <1>1, <1>2, <1>3, <4>1, <5>1, DispatchMoves
        <5>3. QED
          BY <2>2, <5>2, ShapesApart
      <4>2. QED
        BY <1>1, <1>4, <4>1, FitParts
    <3>2. media.failed /\ media.job = "None"
      BY <1>1, <3>1, FitParts
    <3>3. QED
      BY <1>6, <1>7, <1>8, <2>2, <3>2, FitWhenStops
  <2>3. QED
    BY <1>5, <2>1, <2>2
<1>10. \A x \in {r} : Kept(x, media)
  BY <1>8, <1>9 DEF Kept
<1>11. QED
  BY <1>1, <1>10, AwakeLeaves DEF Ready

\* A request that is withdrawn was pending only without a job.
LEMMA WithdrawnFits ==
    ASSUME NEW s, Fit(s), NEW r, r = [s EXCEPT !.open_service_pending = FALSE]
    PROVE  /\ Kept(r, s) /\ r.machine = s.machine /\ r.owned = s.owned
           /\ r.job = s.job
<1>1. s \in Calls
  BY FitParts DEF Sound
<1>2. /\ r \in Calls /\ r.machine = s.machine /\ r.command = s.command
      /\ r.epoch = s.epoch /\ r.owned = s.owned /\ r.job = s.job
      /\ r.open_service_pending = FALSE
      /\ r.source = s.source /\ r.audio_only = s.audio_only /\ r.hls = s.hls
      /\ r.split_streams = s.split_streams /\ r.visible = s.visible
      /\ r.failed = s.failed /\ r.system_suspended = s.system_suspended
  BY <1>1 DEF Calls
<1>3. \/ r.open_service_pending = s.open_service_pending
      \/ s.job = "None" \/ ~Opens(s.machine)
  <2>1. s.open_service_pending \in BOOLEAN
    BY <1>1 DEF Calls
  <2>2. QED
    BY <1>2, <2>1, FitOpens
<1>4. Stops(s.machine) => s.owned # "Full" \/ r.failed
  BY <1>2, FitParts
<1>5. Fit(r)
  BY <1>2, <1>3, <1>4, FitSame
<1>6. QED
  BY <1>2, <1>5 DEF Kept

LEMMA LeftFits ==
    ASSUME NEW s, Fit(s), Rests(s.machine), NEW r, r = Left(s)
    PROVE  Kept(r, s)
<1>1. s \in Calls /\ Sound(s) /\ s.owned = "None" /\ s.job = "None"
  BY FitParts DEF Sound
<1>2. r = [s EXCEPT !.source = "None", !.visible = FALSE, !.failed = FALSE,
                    !.candidates = 0]
  BY DEF Left
<1>3. 0 \in 0..MaxCandidates
  BY SessionAssumption
<1>4. /\ r \in Calls /\ r.machine = s.machine /\ r.command = s.command
      /\ r.epoch = s.epoch /\ r.owned = s.owned /\ r.job = s.job
      /\ r.system_suspended = s.system_suspended
  <2> DEFINE x == [s EXCEPT !.source = "None", !.candidates = 0]
  <2>1. x \in Calls
    BY <1>1, <1>3 DEF Calls
  <2>2. /\ x.machine = s.machine /\ x.command = s.command
        /\ x.epoch = s.epoch /\ x.owned = s.owned /\ x.job = s.job
        /\ x.system_suspended = s.system_suspended
    BY <1>1 DEF Calls
  <2>3. r = [x EXCEPT !.visible = FALSE, !.failed = FALSE]
    BY <1>1, <1>2 DEF Calls
  <2> HIDE DEF x
  <2>4. /\ r \in Calls /\ r.machine = x.machine /\ r.command = x.command
        /\ r.epoch = x.epoch /\ r.owned = x.owned /\ r.job = x.job
        /\ r.system_suspended = x.system_suspended
    BY <2>1, <2>3 DEF Calls
  <2>5. QED
    BY <2>2, <2>4
<1>5. Sound(r)
  BY <1>1, <1>4 DEF Sound
<1>6. QED
  BY <1>1, <1>4, <1>5, FitWhenRests DEF Kept

LEMMA RouteLeaveKeeps ==
    ASSUME Ready, RouteLeave
    PROVE  Keeps
<1>1. PICK stuck \in BOOLEAN :
          Leaves({Left(Retired([media EXCEPT !.open_service_pending = FALSE],
                               stuck))})
  BY DEF RouteLeave
<1> DEFINE q == [media EXCEPT !.open_service_pending = FALSE]
           t == Retired(q, stuck)
           r == Left(t)
<1>2. Leaves({r}) /\ r = Left(t)
  BY <1>1
<1>3. t = Retired(q, stuck)
  OBVIOUS
<1>4. Kept(q, media)
  BY WithdrawnFits DEF Ready
<1> HIDE DEF q, t, r
<1>5. Fit(t) /\ SameCharge(t, q) /\ Rests(t.machine)
  BY <1>3, <1>4, RetiredFits DEF Kept
<1>6. Kept(r, t)
  BY <1>2, <1>5, LeftFits
<1>7. \A x \in {r} : Kept(x, media)
  BY <1>4, <1>5, <1>6 DEF Kept, SameCharge
<1>8. QED
  BY <1>2, <1>7, AwakeLeaves DEF Ready

\* What Close leaves of the session itself.
Closed(closed, direct) ==
    [closed EXCEPT
        !.open_service_pending = FALSE,
        !.visible = FALSE, !.job = "None",
        !.pause_boundary = FALSE,
        !.buffering_service = FALSE,
        !.source = IF direct THEN "None" ELSE @]

LEMMA ClosedIs ==
    ASSUME NEW s, Sound(s), NEW direct \in BOOLEAN, NEW r, r = Closed(s, direct)
    PROVE  /\ Sound(r) /\ r.machine = s.machine /\ r.owned = s.owned
           /\ r.job = "None" /\ r.failed = s.failed
           /\ r.system_suspended = s.system_suspended
<1>1. s \in Calls
  BY DEF Sound
<1>2. PICK source \in Sources \cup {"None"} :
          r = [s EXCEPT !.open_service_pending = FALSE,
                        !.visible = FALSE, !.job = "None",
                        !.pause_boundary = FALSE,
                        !.buffering_service = FALSE, !.source = source]
  <2> DEFINE source == IF direct THEN "None" ELSE s.source
  <2>1. source \in Sources \cup {"None"}
    BY <1>1 DEF Calls
  <2>2. r = [s EXCEPT !.open_service_pending = FALSE,
                      !.visible = FALSE, !.job = "None",
                      !.pause_boundary = FALSE,
                      !.buffering_service = FALSE, !.source = source]
    BY DEF Closed
  <2> HIDE DEF source
  <2>3. QED
    BY <2>1, <2>2
<1>3. /\ r \in Calls /\ r.machine = s.machine /\ r.command = s.command
      /\ r.epoch = s.epoch /\ r.owned = s.owned /\ r.job = "None"
      /\ r.failed = s.failed /\ r.system_suspended = s.system_suspended
  <2> DEFINE x == [s EXCEPT !.open_service_pending = FALSE,
                            !.job = "None", !.source = source]
  <2>1. x \in Calls
    BY <1>1, <1>2 DEF Calls
  <2>2. /\ x.machine = s.machine /\ x.command = s.command
        /\ x.epoch = s.epoch /\ x.owned = s.owned /\ x.job = "None"
        /\ x.failed = s.failed /\ x.system_suspended = s.system_suspended
    BY <1>1 DEF Calls
  <2>3. r = [x EXCEPT !.visible = FALSE, !.pause_boundary = FALSE,
                      !.buffering_service = FALSE]
    BY <1>1, <1>2 DEF Calls
  <2> HIDE DEF x
  <2>4. /\ r \in Calls /\ r.machine = x.machine /\ r.command = x.command
        /\ r.epoch = x.epoch /\ r.owned = x.owned /\ r.job = x.job
        /\ r.failed = x.failed /\ r.system_suspended = x.system_suspended
    BY <2>1, <2>3 DEF Calls
  <2>5. QED
    BY <2>2, <2>4
<1>4. QED
  BY <1>3 DEF Sound

LEMMA CloseKeeps ==
    ASSUME Ready, Close
    PROVE  Keeps
<1> DEFINE q == [media EXCEPT !.candidates = 0]
           e(discard) == [Event("Close") EXCEPT !.retain_pipeline = ~discard]
           closed(discard) == Dispatch(q, e(discard))
           hidden(discard, direct) == Closed(closed(discard), direct)
<1>1. PICK discard \in BOOLEAN, direct \in BOOLEAN, stuck \in BOOLEAN :
          /\ Incomplete(media) => discard
          /\ Leaves({IF discard
                     THEN Finished(Destroyed(hidden(discard, direct), stuck))
                     ELSE hidden(discard, direct)})
  BY DEF Close, Closed
<1>2. Fit(media) /\ media \in Calls
  BY FitParts DEF Ready, Sound
<1>3. Touched(q, media)
  <2>1. 0 \in 0..MaxCandidates
    BY SessionAssumption
  <2>2. QED
    BY <1>2, <2>1 DEF Touched, Calls
<1> DEFINE v == e(discard)
           c == closed(discard)
           h == hidden(discard, direct)
<1>4. Told(v) /\ v.type = "Close" /\ v.service_epoch = 0
      /\ (discard => ~v.retain_pipeline) /\ (~discard => v.retain_pipeline)
  BY DEF Event, Told, Readinesses
<1>5. c = Dispatch(q, v) /\ h = Closed(c, direct)
  OBVIOUS
<1>6. Leaves({IF discard THEN Finished(Destroyed(h, stuck)) ELSE h})
  BY <1>1
<1> HIDE DEF q, v, c, h, e, closed, hidden
<1>7. Kept(q, media)
  BY <1>2, <1>3, TouchedFits
<1>8. Fair(q, v)
  BY <1>4, NewsIsCurrent DEF Fair
<1>9. Sound(c) /\ SameHands(c, q)
  BY <1>5, <1>7, <1>8, DispatchMoves DEF Kept
<1>10. /\ Sound(h) /\ h.machine = c.machine /\ h.owned = c.owned
       /\ h.job = "None" /\ h.failed = c.failed
       /\ h.system_suspended = media.system_suspended
  <2>1. /\ Sound(h) /\ h.machine = c.machine /\ h.owned = c.owned
        /\ h.job = "None" /\ h.failed = c.failed
        /\ h.system_suspended = c.system_suspended
    BY <1>5, <1>9, ClosedIs
  <2>2. QED
    BY <1>7, <1>9, <2>1 DEF Kept, SameHands
<1>11. CASE discard
  <2>1. Stops(c.machine) \/ Rests(c.machine)
    BY <1>4, <1>5, <1>7, <1>8, <1>11, DispatchMoves DEF Kept
  <2> DEFINE r == Finished(Destroyed(h, stuck))
  <2>2. r = Finished(Destroyed(h, stuck)) /\ Leaves({r})
    BY <1>6, <1>11
  <2> HIDE DEF r
  <2>3. Fit(r) /\ SameCharge(r, h)
    BY <1>10, <2>1, <2>2, ReleasedFits
  <2>4. \A x \in {r} : Kept(x, media)
    BY <1>10, <2>3 DEF Kept, SameCharge
  <2>5. QED
    BY <2>2, <2>4, AwakeLeaves DEF Ready
<1>12. CASE ~discard
  <2>1. ~media.failed /\ media.owned = "Full"
    BY <1>1, <1>12 DEF Incomplete
  <2>2. Plays(q.machine) /\ q.owned = "Full"
    BY <1>2, <1>3, <2>1, RollingPlays DEF Touched
  <2>3. Plays(c.machine) /\ c.machine.state = "Dormant"
    BY <1>4, <1>5, <1>7, <1>8, <1>12, <2>2, DispatchMoves DEF Kept
  <2>4. h.owned = "Full"
    BY <1>9, <1>10, <2>2 DEF SameHands
  <2>5. Fit(h)
    BY <1>10, <2>3, <2>4, FitWhenPlays
  <2>6. \A x \in {h} : Kept(x, media)
    BY <1>10, <2>5 DEF Kept
  <2>7. Leaves({h})
    BY <1>6, <1>12
  <2>8. QED
    BY <2>6, <2>7, AwakeLeaves DEF Ready
<1>13. QED
  BY <1>11, <1>12

LEMMA ReclaimKeeps ==
    ASSUME Ready, Reclaim
    PROVE  Keeps
<1>1. PICK stuck \in BOOLEAN :
          Leaves({Finished(Destroyed(Tell(media, "Reclaim"), stuck))})
  BY DEF Reclaim
<1> DEFINE e == Event("Reclaim")
           d == Dispatch(media, e)
           r == Finished(Destroyed(d, stuck))
<1>2. Leaves({r}) /\ r = Finished(Destroyed(d, stuck))
  BY <1>1 DEF Tell
<1>3. Told(e) /\ e.type = "Reclaim" /\ e.service_epoch = 0
  BY EventIs
<1>4. d = Dispatch(media, e)
  OBVIOUS
<1>5. Fit(media) /\ ~media.visible /\ media.owned = "Full"
  BY DEF Ready, Reclaim
<1> HIDE DEF e, d, r
<1>6. ~Opens(media.machine) /\ ~Rests(media.machine)
  BY <1>5, FitOpens, FitParts
<1>7. /\ Sound(d) /\ SameHands(d, media)
      /\ Stops(d.machine) \/ Rests(d.machine)
  <2>1. CASE Plays(media.machine)
    <3>1. media.machine.state = "Dormant"
      BY <1>5, <2>1, FitParts
    <3>2. Fair(media, e)
      BY <1>3, <1>6, NewsIsCurrent DEF Fair
    <3>3. QED
      BY <1>3, <1>4, <1>5, <3>1, <3>2, DispatchMoves
  <2>2. CASE Stops(media.machine)
    <3>1. ~Stale(media, e) /\ e.type # "AdmissionStopped"
      BY <1>3, NewsIsCurrent
    <3>2. QED
      BY <1>3, <1>4, <1>5, <2>2, <3>1, StopsStay
  <2>3. QED
    BY <1>5, <1>6, <2>1, <2>2, FitParts
<1>8. Fit(r) /\ SameCharge(r, d)
  BY <1>2, <1>7, ReleasedFits
<1>9. \A x \in {r} : Kept(x, media)
  BY <1>7, <1>8 DEF Kept, SameCharge, SameHands
<1>10. QED
  BY <1>2, <1>9, AwakeLeaves DEF Ready

LEMMA SuspendKeeps ==
    ASSUME Ready, Suspend
    PROVE  Keeps
<1>1. PICK stuck \in BOOLEAN :
          LET released == Destroyed([Tell(media, "Suspend") EXCEPT
                                        !.open_service_pending = FALSE],
                                    stuck)
          IN  Leaves({Finished([released EXCEPT !.system_suspended = TRUE])})
  BY DEF Suspend
<1> DEFINE e == Event("Suspend")
           t == Dispatch(media, e)
           w == [t EXCEPT !.open_service_pending = FALSE]
           released == Destroyed(w, stuck)
           x == [released EXCEPT !.system_suspended = TRUE]
           r == Finished(x)
<1>2. Leaves({r}) /\ r = Finished(x)
  BY <1>1 DEF Tell
<1>3. Told(e) /\ e.type = "Suspend" /\ e.service_epoch = 0
  BY EventIs
<1>4. Fit(media) /\ Fair(media, e)
  BY <1>3, NewsIsCurrent DEF Ready, Fair
<1>5. t = Dispatch(media, e) /\ released = Destroyed(w, stuck)
  OBVIOUS
<1>6. w = [t EXCEPT !.open_service_pending = FALSE]
  OBVIOUS
<1>7. x = [released EXCEPT !.system_suspended = TRUE]
  OBVIOUS
<1> HIDE DEF e, t, w, released, x, r
<1>8. /\ Sound(t)
      /\ Stops(t.machine) \/ Rests(t.machine)
      /\ Stops(t.machine) => t.machine.quiesce_target = "Suspended"
      /\ Rests(t.machine) => t.machine.state = "Suspended"
  BY <1>3, <1>4, <1>5, DispatchMoves
<1>9. Sound(w) /\ w.machine = t.machine
  <2>1. t \in Calls
    BY <1>8 DEF Sound
  <2>2. /\ w \in Calls /\ w.machine = t.machine /\ w.command = t.command
        /\ w.epoch = t.epoch
    BY <1>6, <2>1 DEF Calls
  <2>3. QED
    BY <1>8, <2>2 DEF Sound
<1>10. /\ Sound(released) /\ released.machine = t.machine
       /\ released.owned = "None" /\ released.job = "None"
  BY <1>5, <1>9, DestroyedEffect
<1>11. /\ Sound(x) /\ x.machine = t.machine
       /\ x.owned = "None" /\ x.job = "None"
  <2>1. released \in Calls
    BY <1>10 DEF Sound
  <2>2. /\ x \in Calls /\ x.machine = released.machine
        /\ x.command = released.command /\ x.epoch = released.epoch
        /\ x.owned = released.owned /\ x.job = released.job
    BY <1>7, <2>1 DEF Calls
  <2>3. QED
    BY <1>10, <2>2 DEF Sound
<1>12. Fit(r) /\ r.machine.state = "Suspended"
  <2>1. CASE Stops(t.machine)
    <3>1. /\ Sound(r) /\ SameHands(r, x) /\ Rests(r.machine)
          /\ r.machine.state = x.machine.quiesce_target
      BY <1>2, <1>11, <2>1, FinishedEffect
    <3>2. QED
      BY <1>8, <1>11, <2>1, <3>1, FitWhenRests DEF SameHands
  <2>2. CASE Rests(t.machine)
    <3>1. r = x
      BY <1>2, <1>11, <2>2, ShapesApart DEF Finished
    <3>2. QED
      BY <1>8, <1>11, <2>2, <3>1, FitWhenRests
  <2>3. QED
    BY <1>8, <2>1, <2>2
<1>13. \A y \in {r} :
           Fit(y) /\ (y.system_suspended => y.machine.state = "Suspended")
  BY <1>12
<1>14. QED
  BY <1>2, <1>13, LeavesKeeps

LEMMA ResumeKeeps ==
    ASSUME Fit(media), media.machine.state = "Suspended", Resume
    PROVE  Keeps
<1> DEFINE awake == [media EXCEPT !.system_suspended = FALSE]
           armed == Resolving([awake EXCEPT !.open_service_pending = TRUE])
           x == IF media.source # "None" /\ media.visible THEN armed
                ELSE awake
           r == Tell(x, "Resume")
<1>1. Leaves({r}) /\ r = Tell(x, "Resume")
  BY DEF Resume
<1>2. x \in {awake, armed}
  OBVIOUS
<1>3. media \in Calls /\ Sound(media) /\ Rests(media.machine)
      /\ media.owned = "None" /\ media.job = "None"
  <2>1. Rests(media.machine)
    BY FitParts, ShapesApart, EnumFacts
  <2>2. QED
    BY <2>1, FitParts DEF Sound
<1>4. /\ awake \in Calls /\ awake.machine = media.machine
      /\ awake.command = media.command /\ awake.epoch = media.epoch
      /\ awake.owned = "None" /\ awake.job = "None"
      /\ ~awake.system_suspended
  BY <1>3 DEF Calls
<1>5. armed = [awake EXCEPT !.open_service_pending = TRUE, !.failed = FALSE,
                            !.visible = TRUE]
  BY <1>4 DEF Resolving, Calls
<1> HIDE DEF awake, armed, x, r
<1>6. /\ armed \in Calls /\ armed.machine = awake.machine
      /\ armed.command = awake.command /\ armed.epoch = awake.epoch
      /\ armed.owned = awake.owned /\ armed.job = awake.job
      /\ armed.system_suspended = awake.system_suspended
  BY <1>4, <1>5 DEF Calls
<1>7. /\ Sound(x) /\ Rests(x.machine) /\ x.owned = "None"
      /\ x.job = "None" /\ ~x.system_suspended
  <2>1. CASE x = awake
    BY <1>3, <1>4, <2>1 DEF Sound
  <2>2. CASE x = armed
    BY <1>3, <1>4, <1>6, <2>2 DEF Sound
  <2>3. QED
    BY <1>2, <2>1, <2>2
<1>8. Fit(x)
  BY <1>7, FitWhenRests
<1>9. Harmless("Resume")
  BY DEF Harmless, Stoppers
<1>10. Kept(r, x)
  BY <1>1, <1>8, <1>9, TellFits
<1>11. \A y \in {r} :
           Fit(y) /\ (y.system_suspended => y.machine.state = "Suspended")
  BY <1>7, <1>10 DEF Kept
<1>12. QED
  BY <1>1, <1>11, LeavesKeeps

LEMMA PlayPauseFits ==
    ASSUME NEW s, Fit(s), NEW readiness \in Readinesses,
           NEW r, r = Dispatch(s, PlayPauseEvent(s, readiness))
    PROVE  Kept(r, s)
<1> DEFINE e == PlayPauseEvent(s, readiness)
<1>1. Told(e) /\ e.type \in {"Pause", "Play"} /\ e.service_epoch = 0
  BY DEF PlayPauseEvent, Event, Told, Readinesses
<1>2. r = Dispatch(s, e)
  OBVIOUS
<1> HIDE DEF e
<1>3. Harmless(e.type)
  BY <1>1 DEF Harmless, Stoppers
<1>4. QED
  BY <1>1, <1>2, <1>3, NewsFits

LEMMA PlayPauseContinuationKeeps ==
    ASSUME Ready, PlayPauseContinuation
    PROVE  Keeps
<1>1. PICK readiness \in Readinesses :
          Leaves({Dispatch(media, PlayPauseEvent(media, readiness))})
  BY DEF PlayPauseContinuation, Readinesses
<1> DEFINE r == Dispatch(media, PlayPauseEvent(media, readiness))
<1>2. Leaves({r}) /\ r = Dispatch(media, PlayPauseEvent(media, readiness))
  BY <1>1
<1> HIDE DEF r
<1>3. \A x \in {r} : Kept(x, media)
  BY <1>2, PlayPauseFits DEF Ready
<1>4. QED
  BY <1>2, <1>3, AwakeLeaves DEF Ready

LEMMA PlayPauseKeeps ==
    ASSUME Ready, PlayPause
    PROVE  Keeps
<1> DEFINE was == WantsPlaying(media)
           told(readiness) == Dispatch(media, PlayPauseEvent(media, readiness))
           answer(readiness) == [told(readiness) EXCEPT
                                    !.pause_boundary = @ /\ was]
           ended(readiness) == [answer(readiness) EXCEPT
                                    !.buffering_service = FALSE]
           begun(readiness) == BufferingBegun(answer(readiness))
<1>1. PICK readiness \in Readinesses :
          \/ Leaves({answer(readiness)})
          \/ Leaves({ended(readiness)})
          \/ Leaves({begun(readiness)})
  <2>1. PICK readiness \in Readinesses, startup \in BOOLEAN :
            Leaves({IF media.job # "None" THEN answer(readiness)
                    ELSE IF ~WantsPlaying(answer(readiness))
                         THEN ended(readiness)
                         ELSE IF startup /\ ~was THEN begun(readiness)
                              ELSE answer(readiness)})
    BY DEF PlayPause
  <2> HIDE DEF answer, ended, begun, was
  <2>2. QED
    BY <2>1
<1> DEFINE t == told(readiness)
           a == answer(readiness)
           b == ended(readiness)
           c == begun(readiness)
<1>2. Leaves({a}) \/ Leaves({b}) \/ Leaves({c})
  BY <1>1
<1>3. t = Dispatch(media, PlayPauseEvent(media, readiness))
  OBVIOUS
<1>4. PICK boundary \in BOOLEAN : a = [t EXCEPT !.pause_boundary = boundary]
  <2> WITNESS (t.pause_boundary /\ was) \in BOOLEAN
  <2>1. QED
    OBVIOUS
<1>5. b = [a EXCEPT !.buffering_service = FALSE]
  OBVIOUS
<1>6. c = BufferingBegun(a)
  OBVIOUS
<1> HIDE DEF t, a, b, c, was, told, answer, ended, begun
<1>7. Kept(t, media)
  BY <1>3, PlayPauseFits DEF Ready
<1>8. Kept(a, t)
  <2>1. t \in Calls /\ Fit(t)
    BY <1>7, FitParts DEF Kept, Sound
  <2>2. Touched(a, t)
    BY <1>4, <2>1 DEF Touched, Calls
  <2>3. QED
    BY <2>1, <2>2, TouchedFits
<1>9. Kept(b, a)
  <2>1. a \in Calls /\ Fit(a)
    BY <1>8, FitParts DEF Kept, Sound
  <2>2. Touched(b, a)
    BY <1>5, <2>1 DEF Touched, Calls
  <2>3. QED
    BY <2>1, <2>2, TouchedFits
<1>10. Kept(c, a)
  BY <1>6, <1>8, BufferingBegunFits DEF Kept
<1>11. Kept(a, media) /\ Kept(b, media) /\ Kept(c, media)
  BY <1>7, <1>8, <1>9, <1>10 DEF Kept
<1>12. /\ \A x \in {a} : Kept(x, media)
       /\ \A x \in {b} : Kept(x, media)
       /\ \A x \in {c} : Kept(x, media)
  BY <1>11
<1>13. QED
  BY <1>2, <1>12, AwakeLeaves DEF Ready

LEMMA SeekRequestedFits ==
    ASSUME NEW s, Fit(s), Plays(s.machine), NEW resume \in BOOLEAN,
           NEW r, r = SeekRequested(s, resume)
    PROVE  Kept(r, s)
<1> DEFINE e == [Event("Seek") EXCEPT !.resume_playing = resume]
           d == Dispatch(s, e)
<1>1. Told(e) /\ e.type = "Seek" /\ e.service_epoch = 0
  BY DEF Event, Told, Readinesses
<1>2. d = Dispatch(s, e)
  OBVIOUS
<1>3. r = [d EXCEPT !.buffering_service = FALSE, !.job = "Seek"]
  BY DEF SeekRequested
<1> HIDE DEF e, d
<1>4. Harmless(e.type)
  BY <1>1 DEF Harmless, Stoppers
<1>5. Kept(d, s) /\ SameHands(d, s) /\ Plays(d.machine)
  BY <1>1, <1>2, <1>4, NewsFits
<1>6. Fit(d) /\ Sound(d) /\ d \in Calls /\ d.owned = "Full"
      /\ (d.machine.state # "Dormant" => d.visible)
  BY <1>5, FitParts DEF Kept, Sound
<1>7. /\ r \in Calls /\ r.machine = d.machine /\ r.command = d.command
      /\ r.epoch = d.epoch /\ r.owned = d.owned /\ r.job = "Seek"
      /\ r.visible = d.visible /\ r.system_suspended = d.system_suspended
  BY <1>3, <1>6 DEF Calls
<1>8. Sound(r)
  BY <1>6, <1>7 DEF Sound
<1>9. Fit(r)
  BY <1>5, <1>6, <1>7, <1>8, FitWhenPlays
<1>10. QED
  BY <1>5, <1>7, <1>9 DEF Kept

LEMMA SeekKeeps ==
    ASSUME Ready, Seek
    PROVE  Keeps
<1>1. PICK resume \in BOOLEAN, stuck \in BOOLEAN :
          Leaves({SeekRequested(media, resume)}
                 \cup (IF media.audio_only THEN {}
                       ELSE {Rebuilt(media, stuck, resume)}))
  BY DEF Seek
<1> DEFINE results == {SeekRequested(media, resume)}
                 \cup (IF media.audio_only THEN {}
                       ELSE {Rebuilt(media, stuck, resume)})
           p == SeekRequested(media, resume)
           q == Rebuilt(media, stuck, resume)
<1>2. Fit(media) /\ Plays(media.machine)
  BY RollingIs DEF Seek
<1>3. Leaves(results) /\ \A x \in results : x \in {p, q}
  BY <1>1
<1>4. p = SeekRequested(media, resume) /\ q = Rebuilt(media, stuck, resume)
  OBVIOUS
<1> HIDE DEF results, p, q
<1>5. Kept(p, media)
  BY <1>2, <1>4, SeekRequestedFits
<1>6. Kept(q, media)
  <2>1. Redone(q, media)
    BY <1>2, <1>4, RebuiltFits
  <2>2. QED
    BY <2>1, RedoneKept
<1>7. \A x \in results : Kept(x, media)
  BY <1>3, <1>5, <1>6
<1>8. QED
  BY <1>3, <1>7, AwakeLeaves DEF Ready

LEMMA UserRetryKeeps ==
    ASSUME Ready, UserRetry
    PROVE  Keeps
<1>1. PICK stuck \in BOOLEAN, autoplay \in BOOLEAN :
          Leaves({IF Rebuilt(media, stuck, autoplay).codec_stuck
                  THEN Rebuilt(media, stuck, autoplay)
                  ELSE [Rebuilt(media, stuck, autoplay) EXCEPT
                            !.attempts = 0]})
  BY DEF UserRetry
<1> DEFINE q == Rebuilt(media, stuck, autoplay)
           c == [q EXCEPT !.attempts = 0]
           r == IF q.codec_stuck THEN q ELSE c
<1>2. Leaves({r}) /\ r \in {q, c}
  BY <1>1
<1>3. q = Rebuilt(media, stuck, autoplay) /\ Fit(media)
  BY DEF Ready
<1>4. c = [q EXCEPT !.attempts = 0]
  OBVIOUS
<1> HIDE DEF q, c, r
<1>5. Redone(q, media)
  BY <1>3, RebuiltFits
<1>6. Kept(q, media) /\ q \in Calls
  BY <1>5, RedoneKept, FitParts DEF Kept, Sound
<1>7. Touched(c, q)
  <2>1. 0 \in 0..MaxAttempts
    BY SessionAssumption
  <2>2. QED
    BY <1>4, <1>6, <2>1 DEF Touched, Calls
<1>8. Kept(c, media)
  BY <1>6, <1>7, TouchedFits DEF Kept
<1>9. \A x \in {r} : Kept(x, media)
  BY <1>2, <1>6, <1>8
<1>10. QED
  BY <1>2, <1>9, AwakeLeaves DEF Ready

LEMMA TrackReopenKeeps ==
    ASSUME Ready, TrackReopen
    PROVE  Keeps
<1> DEFINE b == WantsPlaying(media)
<1>1. PICK stuck \in BOOLEAN : Leaves({Rebuilt(media, stuck, b)})
  BY DEF TrackReopen
<1>2. Fit(media)
  BY DEF Ready
<1>3. b \in BOOLEAN
  BY <1>2, WantsIsBoolean
<1> HIDE DEF b
<1> DEFINE r == Rebuilt(media, stuck, b)
<1>4. Leaves({r}) /\ r = Rebuilt(media, stuck, b)
  BY <1>1
<1> HIDE DEF r
<1>5. Redone(r, media)
  BY <1>2, <1>3, <1>4, RebuiltFits
<1>6. \A x \in {r} : Kept(x, media)
  BY <1>5, RedoneKept
<1>7. QED
  BY <1>4, <1>6, AwakeLeaves DEF Ready

LEMMA RequestKeeps ==
    ASSUME Ready, Request
    PROVE  Keeps
BY RouteOpenKeeps, RouteAgainKeeps, PageReturnKeeps, RouteInternalKeeps,
   RouteLeaveKeeps, CloseKeeps, ReclaimKeeps, SuspendKeeps,
   PlayPauseContinuationKeeps, PlayPauseKeeps, SeekKeeps, UserRetryKeeps,
   TrackReopenKeeps DEF Request

-----------------------------------------------------------------------------
(***************************************************************************)
(* The session between calls.                                              *)
(***************************************************************************)
IInv ==
    /\ Fit(media) /\ media.epoch \in 0..1 /\ moved \in Movers
    /\ media.system_suspended => media.machine.state = "Suspended"

LEMMA InitKeeps == Init => IInv
<1> SUFFICES ASSUME Init PROVE IInv
  OBVIOUS
<1> DEFINE m == InitialMachine
<1>1. media = InitialSession /\ moved = "Nobody"
  BY DEF Init
<1>2. m \in Machine /\ Rests(m)
  BY MachineIs DEF InitialMachine, Rests, States, QuiesceTargets, Pipelines,
     Readinesses
<1>3. /\ media.machine = m /\ media.command = "None" /\ media.epoch = 0
      /\ media.owned = "None" /\ media.job = "None"
      /\ ~media.system_suspended
  BY <1>1 DEF InitialSession
<1>4. media \in Calls
  <2> HIDE DEF m
  <2>1. 0 \in 0..MaxAttempts /\ 0 \in 0..MaxCandidates
    BY SessionAssumption
  <2>2. "None" \in Commands /\ "None" \in Pipelines
    BY DEF Commands, Pipelines
  <2>3. QED
    BY <1>1, <1>2, <2>1, <2>2 DEF InitialSession, Calls, m
<1>5. Sound(media)
  BY <1>3, <1>4 DEF Sound
<1>6. Fit(media)
  BY <1>2, <1>3, <1>5, FitWhenRests
<1>7. QED
  BY <1>1, <1>3, <1>6 DEF IInv, Movers

LEMMA StepKeeps == IInv /\ [Next]_vars => IInv'
<1> SUFFICES ASSUME IInv, [Next]_vars PROVE IInv'
  OBVIOUS
<1>1. CASE UNCHANGED vars
  BY <1>1 DEF IInv, vars, Fit, Rests, Opens, Plays, Stops, InStep
<1>2. CASE Next
  <2>1. ~media.system_suspended => Ready
    BY DEF IInv, Ready
  <2>2. CASE Awake /\ OpenPump /\ Mark("Open")
    <3>1. Keeps
      BY <2>1, <2>2, OpenPumpKeeps DEF Awake
    <3>2. moved' \in Movers
      BY <2>2 DEF Mark, Movers
    <3>3. QED
      BY <3>1, <3>2 DEF Keeps, IInv
  <2>3. CASE Awake /\ SeekPump /\ Mark("Seek")
    <3>1. Keeps
      BY <2>1, <2>3, SeekPumpKeeps DEF Awake
    <3>2. moved' \in Movers
      BY <2>3 DEF Mark, Movers
    <3>3. QED
      BY <3>1, <3>2 DEF Keeps, IInv
  <2>4. CASE Awake /\ Frame /\ Mark("Frame")
    <3>1. Keeps
      BY <2>1, <2>4, FrameKeeps DEF Awake
    <3>2. moved' \in Movers
      BY <2>4 DEF Mark, Movers
    <3>3. QED
      BY <3>1, <3>2 DEF Keeps, IInv
  <2>5. CASE Awake /\ Request /\ moved' = "Request"
    <3>1. Keeps
      BY <2>1, <2>5, RequestKeeps DEF Awake
    <3>2. QED
      BY <2>5, <3>1 DEF Keeps, IInv, Movers
  <2>6. CASE Resume /\ moved' = "Request"
    <3>1. media.system_suspended
      BY <2>6 DEF Resume
    <3>2. Keeps
      BY <2>6, <3>1, ResumeKeeps DEF IInv
    <3>3. QED
      BY <2>6, <3>2 DEF Keeps, IInv, Movers
  <2>7. QED
    BY <1>2, <2>2, <2>3, <2>4, <2>5, <2>6 DEF Next
<1>3. QED
  BY <1>1, <1>2

\* The session is fit between calls: the machine is in one of its four
\* shapes, the session owns what that shape names, and an open whose job is
\* under way is at the phase its chart says.
THEOREM SessionIsFit == Spec => []IInv
<1>1. Init => IInv
  BY InitKeeps
<1>2. IInv /\ [Next]_vars => IInv'
  BY StepKeeps
<1>3. QED
  BY <1>1, <1>2, PTL DEF Spec

LEMMA SessionTyped == IInv => TypeOK
<1> SUFFICES ASSUME IInv PROVE TypeOK
  OBVIOUS
<1>1. media \in Calls /\ media.epoch \in 0..1 /\ moved \in Movers
  BY FitParts DEF IInv, Sound
<1>2. media \in Session
  BY <1>1 DEF Calls, Session
<1>3. QED
  BY <1>1, <1>2 DEF TypeOK

\* Between calls every field of the session and of its machine has its type,
\* whatever was retried, replaced, cancelled or reopened before.
THEOREM SessionTypes == Spec => []TypeOK
BY SessionIsFit, SessionTyped, PTL

LEMMA InStepCounts ==
    ASSUME NEW s \in Calls, Opens(s.machine), InStep(s), s.job \in OpenJobs,
           NEW m, m = s.machine
    PROVE  IndexIn(ChartPath(m), m.phase) = IndexIn(OpenPath(s), s.job)
<1>1. /\ s.audio_only \in BOOLEAN /\ s.hls \in BOOLEAN
      /\ s.split_streams \in BOOLEAN
      /\ m.audio_only \in BOOLEAN /\ m.has_separate_audio \in BOOLEAN
  <2>1. m \in Machine
    BY DEF Calls
  <2>2. QED
    BY <2>1, MachineIs DEF Calls
<1>2. m.phase \in OpeningPhases
  BY DEF Opens
<1>3. CASE m.phase = "Resolving"
  <2>1. s.job = "Resolve"
    BY <1>3 DEF InStep
  <2>2. IndexIn(ChartPath(m), "Resolving") = 1
    <3>1. ChartPath(m) \in {AudioChart, PlainChart, SplitChart}
      BY <1>1, ChartPathIs
    <3>2. QED
      BY <3>1, AudioChartIs, PlainChartIs, SplitChartIs
  <2>3. IndexIn(OpenPath(s), "Resolve") = 1
    <3>1. OpenPath(s) \in {AudioPath, PlainPath, HlsPath, PagePath, SplitPath}
      BY <1>1, OpenPathIs
    <3>2. QED
      BY <3>1, AudioPathIs, PlainPathIs, HlsPathIs, PagePathIs, SplitPathIs
  <2>4. QED
    BY <1>3, <2>1, <2>2, <2>3
<1>4. CASE m.phase # "Resolving" /\ s.audio_only
  <2>1. /\ ChartPath(m) = AudioChart /\ OpenPath(s) = AudioPath
        /\ <<m.phase, s.job>> \in Alike
        /\ m.phase \notin {"VideoRange", "VideoDemux", "VideoPrime"}
    BY <1>1, <1>4, ChartPathIs, OpenPathIs DEF InStep
  <2>2. QED
    BY <2>1, AudioChartIs, AudioPathIs DEF Alike
<1>5. CASE m.phase # "Resolving" /\ ~s.audio_only /\ s.hls /\ s.split_streams
  <2>1. /\ ChartPath(m) = SplitChart /\ OpenPath(s) = HlsPath
        /\ <<m.phase, s.job>> \in Alike
    BY <1>1, <1>5, ChartPathIs, OpenPathIs DEF InStep
  <2>2. QED
    BY <2>1, SplitChartIs, HlsPathIs DEF Alike
<1>6. CASE m.phase # "Resolving" /\ ~s.audio_only /\ ~s.split_streams
           /\ (s.hls \/ s.source # "Page")
  <2>1. /\ ChartPath(m) = PlainChart /\ OpenPath(s) = PlainPath
        /\ <<m.phase, s.job>> \in Alike
        /\ m.phase \notin {"AudioRange", "AudioDemux"}
    BY <1>1, <1>6, ChartPathIs, OpenPathIs DEF InStep
  <2>2. QED
    BY <2>1, PlainChartIs, PlainPathIs DEF Alike
<1>7. CASE m.phase # "Resolving" /\ ~s.audio_only /\ ~s.hls
           /\ s.source = "Page"
  <2>1. /\ ChartPath(m) = PlainChart /\ OpenPath(s) = PagePath
        /\ <<m.phase, s.job>> \in OfPage
    BY <1>1, <1>7, ChartPathIs, OpenPathIs DEF InStep
  <2>2. QED
    BY <2>1, PlainChartIs, PagePathIs DEF OfPage
<1>8. CASE m.phase # "Resolving" /\ ~s.audio_only /\ ~s.hls
           /\ s.source # "Page" /\ s.split_streams
  <2>1. /\ ChartPath(m) = SplitChart /\ OpenPath(s) = SplitPath
        /\ <<m.phase, s.job>> \in OfSplit
    BY <1>1, <1>8, ChartPathIs, OpenPathIs DEF InStep
  <2>2. QED
    BY <2>1, SplitChartIs, SplitPathIs DEF OfSplit
<1>9. QED
  BY <1>1, <1>3, <1>4, <1>5, <1>6, <1>7, <1>8

LEMMA FitIsInStep == IInv => OpeningInStep
<1> SUFFICES ASSUME IInv, media.job \in OpenJobs,
                    ~media.open_service_pending
             PROVE  /\ Opening /\ media.command = "StartOpenPhase"
                    /\ IndexIn(ChartPath(media.machine), media.machine.phase)
                           = IndexIn(OpenPath(media), media.job)
  BY DEF OpeningInStep
<1>1. Fit(media) /\ media \in Calls
  BY FitParts DEF IInv, Sound
<1>2. media.job \notin {"None", "Seek"}
  BY DEF OpenJobs
<1>3. Opens(media.machine)
  BY <1>1, <1>2, FitParts
<1>4. InStep(media) /\ media.command = "StartOpenPhase"
  BY <1>1, <1>2, <1>3, FitOpens
<1>5. Opening
  BY <1>3, ShapesApart DEF Opening
<1>6. QED
  BY <1>1, <1>3, <1>4, <1>5, InStepCounts

\* An open whose job is under way answers to its own token, and the
\* machine's chart has as many phases behind it as the physical open, for
\* every kind of source and every order of phases (psp_media_open_pump).
THEOREM OpeningStaysInStep == Spec => []OpeningInStep
BY SessionIsFit, FitIsInStep, PTL

LEMMA RestsAreConsistent ==
    ASSUME NEW m, Rests(m)
    PROVE  Consistent(m)
<1>1. ChildFits(m)
  BY EnumFacts DEF Rests, ChildFits
<1>2. PipelineFits(m)
  BY DEF Rests, PipelineFits, Active
<1>3. PlanFits(m)
  BY DEF Rests, PlanFits, Active
<1>4. BackendFits(m)
  BY DEF Rests, BackendFits, Active
<1>5. QED
  BY <1>1, <1>2, <1>3, <1>4 DEF Consistent

LEMMA OpensAreConsistent ==
    ASSUME NEW m, Opens(m)
    PROVE  Consistent(m)
<1>1. ChildFits(m)
  BY EnumFacts DEF Opens, ChildFits
<1>2. PipelineFits(m)
  BY DEF Opens, PipelineFits, Active
<1>3. PlanFits(m)
  BY DEF Opens, PlanFits, Active
<1>4. BackendFits(m)
  BY DEF Opens, BackendFits, Active
<1>5. QED
  BY <1>1, <1>2, <1>3, <1>4 DEF Consistent

LEMMA PlaysAreConsistent ==
    ASSUME NEW m, Plays(m)
    PROVE  Consistent(m)
<1>1. ChildFits(m)
  BY EnumFacts DEF Plays, ChildFits
<1>2. PipelineFits(m)
  BY DEF Plays, PipelineFits, Active
<1>3. PlanFits(m)
  BY DEF Plays, PlanFits, Active
<1>4. BackendFits(m)
  BY DEF Plays, BackendFits, Active
<1>5. QED
  BY <1>1, <1>2, <1>3, <1>4 DEF Consistent

LEMMA StopsAreConsistent ==
    ASSUME NEW m, Stops(m)
    PROVE  Consistent(m)
<1>1. ChildFits(m)
  BY EnumFacts DEF Stops, ChildFits
<1>2. PipelineFits(m)
  BY DEF Stops, PipelineFits, Active
<1>3. PlanFits(m)
  BY DEF Stops, PlanFits, Active
<1>4. BackendFits(m)
  BY DEF Stops, BackendFits, Active
<1>5. QED
  BY <1>1, <1>2, <1>3, <1>4 DEF Consistent

LEMMA FitHoldsCheckpoint == IInv => CheckpointHolds
<1> SUFFICES ASSUME IInv PROVE CheckpointHolds
  OBVIOUS
<1> DEFINE m == media.machine
<1>1. Fit(media) /\ m \in Machine
  BY FitParts DEF IInv
<1>2. CASE Rests(m)
  <2>1. Consistent(m)
    BY <1>2, RestsAreConsistent
  <2>2. QED
    BY <1>1, <1>2, <2>1, FitParts DEF Rests, CheckpointHolds
<1>3. CASE Opens(m)
  <2>1. Consistent(m)
    BY <1>3, OpensAreConsistent
  <2>2. m.state = "Opening" /\ m.pipeline \in {"None", "Partial"}
    BY <1>3 DEF Opens
  <2>3. QED
    BY <1>1, <1>3, <2>1, <2>2, FitOpens DEF CheckpointHolds, MayOwnMore
<1>4. CASE Plays(m)
  <2>1. Consistent(m)
    BY <1>4, PlaysAreConsistent
  <2>2. QED
    BY <1>1, <1>4, <2>1, FitParts DEF Plays, CheckpointHolds
<1>5. CASE Stops(m)
  <2>1. Consistent(m)
    BY <1>5, StopsAreConsistent
  <2>2. QED
    BY <1>5, <2>1 DEF Stops, CheckpointHolds
<1>6. QED
  BY <1>1, <1>2, <1>3, <1>4, <1>5, FitParts

\* What the driver samples at run time holds between all calls: the machine
\* is consistent and names the pipeline the session owns, up to an open that
\* owns more than it has reported (psp_media_session_checkpoint).
THEOREM CheckpointAlwaysHolds == Spec => []CheckpointHolds
BY SessionIsFit, FitHoldsCheckpoint, PTL

=============================================================================
