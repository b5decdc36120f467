-------------------------- MODULE DecoderPipeline --------------------------
(***************************************************************************)
(* The software decoder's hand-offs, and the seek that has to stop them.   *)
(*                                                                         *)
(*   browser thread   queues access units, takes pictures, draws, seeks    *)
(*   decode worker    decodes the units (media_backend_psp_swdec.c)        *)
(*   Media Engine     a second core: converts picture rows, decodes audio  *)
(*   audio thread     hands blocks of the PCM ring to the output hardware  *)
(*                                                                         *)
(* Priorities (psp_threads.h): audio over browser over worker.  So the     *)
(* worker runs only while the browser waits, and a turn of the audio       *)
(* thread, from the return of one output call to the start of the next, is *)
(* one step.  The Media Engine interleaves with everything, one access to  *)
(* the shared words at a time.                                             *)
(***************************************************************************)
EXTENDS Integers, Sequences, FiniteSets, FiniteSetsExt

CONSTANTS
    SlotCount,     \* SWDEC_RING_SLOTS picture surfaces
    Depth,         \* entries of the job ring (SwdecJobRing.depth)
    PcmSlots,      \* TILEFINCH_SWDEC_PCM_SLOT_COUNT blocks of the PCM ring
    PcmMargin,     \* blocks the submitter leaves free (16 in swdec_submit)
    Generations,   \* bound: the fence's generation wraps after this many
    Readers,       \* draws of one surface at a time (the frame loop has one)
    Streams        \* the kinds of stream the run opens

\* A muxed stream has both; a run may take one half of it, for they meet
\* only in Quiet, in the clock that makes a picture late, and in the engine,
\* which fails in the picture half alone.
StreamKinds ==
    [video : BOOLEAN, audio : BOOLEAN, muxed : BOOLEAN, prebind : BOOLEAN]

ASSUME PipelineAssumption ==
    /\ SlotCount \in Nat \ {0} /\ Depth \in {1, 2}
    /\ PcmMargin \in Nat \ {0} /\ PcmSlots \in Nat /\ PcmSlots > PcmMargin
    /\ Generations \in Nat \ {0, 1} /\ Readers \in Nat \ {0}
    /\ Streams \subseteq StreamKinds

Slots == 0..SlotCount - 1
NoSlot == -1

VARIABLES
    stream,    \* have_audio, a video decoder, csc_prebind: fixed at open
    queued,    \* a unit waits in au_queue
    ring,      \* SwdecJobRing: the jobs published and not collected, in order
    slots,     \* the SwdecVideoSlot of each surface
    frame,     \* the picture the session holds, and last_claimed_slot
    worker,    \* the decode worker: where it is, where a reclaim returns to
    claim,     \* SwdecCscClaim: the two words of the conversion handshake
    engine,    \* the Media Engine: running or stopped, and its batch
    fence,     \* SwdecAudioFence, and whether the ring it guards exists
    audio,     \* the audio thread: its output call, and the block before it
    pcm,       \* packets not decoded yet, blocks not played yet
    cursor,    \* whose position audio_cursor_us tells
    browser    \* where the browser is in a reset, the gate, the end

picture == <<queued, ring, slots, frame>>
sound == <<fence, audio, pcm, cursor>>
vars == <<stream, picture, worker, claim, engine, sound, browser>>

-----------------------------------------------------------------------------
(***************************************************************************)
(* The job ring (swdec_job_ring.h).  The worker takes the jobs in order,   *)
(* so those that are DONE are the oldest, and one at most is RUNNING.      *)
(***************************************************************************)
NewJob(slot, flush) ==
    [state |-> "READY", slot |-> slot, flush |-> flush, result |-> "ok",
     old |-> FALSE]

InState(state) == {n \in DOMAIN ring : ring[n].state = state}

\* swdec_job_ring_collect until the oldest job is not DONE: how many it takes
Collected == CHOOSE n \in 0 .. Len(ring) :
                 /\ \A m \in 1 .. n : ring[m].state = "DONE"
                 /\ n < Len(ring) => ring[n + 1].state # "DONE"
Kept == SubSeq(ring, Collected + 1, Len(ring))

\* swdec_collect: a job that was dropped late reports nothing.
CollectsError ==
    \E n \in InState("DONE") :
        ring[n].result = "error" \/ (ring[n].result = "ok" /\ audio.error)

-----------------------------------------------------------------------------
(***************************************************************************)
(* The surfaces, and the fence (swdec_audio_fence.h); 0 is a lowered one.  *)
(***************************************************************************)
FreeSlot ==
    [state |-> "FREE", readers |-> 0, claimed |-> FALSE, retire |-> FALSE,
     old |-> FALSE]

\* swdec_free_slot, which leaves the count of readers alone
Freed(slot) ==
    [slot EXCEPT !.state = "FREE", !.claimed = FALSE, !.retire = FALSE,
                 !.old = FALSE]

SlotsIn(state) == {s \in Slots : slots[s].state = state}
Takeable == {s \in SlotsIn("READY") : ~slots[s].claimed}
Unborrowed == \A s \in Slots : slots[s].readers = 0

\* Mutation: the fence hands out the same generation every time.
RaisedAlike ==
    IF fence.raised # 0 THEN fence
    ELSE [fence EXCEPT !.raised = 1, !.generation = 1]

\* A fence that is up keeps its generation.
Raised ==
    LET next == (fence.generation % Generations) + 1
    IN  IF fence.raised # 0 THEN fence
        ELSE [fence EXCEPT !.raised = next, !.generation = next]

Parked == fence.raised # 0 /\ fence.parked = fence.raised

-----------------------------------------------------------------------------
(***************************************************************************)
(* A playback as swdec_create leaves it.                                   *)
(***************************************************************************)
Init ==
    /\ stream \in Streams
    /\ queued = FALSE
    /\ ring = <<>>
    /\ slots = [s \in Slots |-> FreeSlot]
    /\ frame = [slot |-> NoSlot, fresh |-> FALSE, old |-> FALSE,
                last |-> NoSlot]
    /\ worker = [at |-> "wait", then |-> "wait"]
    /\ claim = [active |-> NoSlot, busy |-> NoSlot]
    /\ engine = [alive |-> TRUE, at |-> "idle", slot |-> NoSlot]
    /\ fence = [raised |-> 0, parked |-> 0, generation |-> 0, ring |-> TRUE]
    /\ audio = [call |-> "silence", hold |-> 0, held |-> "silence",
                started |-> FALSE, stale |-> FALSE, failed |-> FALSE,
                error |-> FALSE]
    /\ pcm = [undecoded |-> 0, unplayed |-> 0]
    /\ cursor = "zero"
    /\ browser = [at |-> "loop", pending |-> FALSE, over |-> FALSE]

\* A failure that was reported ends the playback: the session tears it down.
Ends == browser' = [browser EXCEPT !.at = "loop", !.over = TRUE]
Going == ~browser.over

\* Between two calls of the session into the backend.
InLoop == Going /\ browser.at = "loop"

-----------------------------------------------------------------------------
(***************************************************************************)
(* The decode worker (swdec_worker_main, swdec_decode_job and              *)
(* swdec_publish_picture).  Taking a surface back from the Media Engine is *)
(* two steps wherever it happens: withdraw the offer, then wait until no   *)
(* batch is announced (csc_claim_reclaim).                                 *)
(***************************************************************************)
Works(place) == InLoop /\ worker.at = place
Running == Max(InState("RUNNING"))
Job == ring[Running]
Surface == Job.slot
Prebinds(job) == stream.prebind /\ ~job.flush

Goes(place) == worker' = [at |-> place, then |-> place]
Reclaims(then) == worker' = [at |-> "withdraw", then |-> then]

SetSlot(s, value) == slots' = [slots EXCEPT ![s] = value]

\* A unit behind the audio clock is dropped (swdec_job_dropped_late).
Begin ==
    /\ Works("wait")
    /\ \E n \in InState("READY") :
          /\ n = Min(InState("READY"))
          /\ \/ /\ ring' = [ring EXCEPT ![n].state = "RUNNING"]
                /\ IF Prebinds(ring[n]) THEN Reclaims("bind")
                   ELSE Goes("decode")
             \/ /\ stream.muxed /\ ~ring[n].flush
                /\ ring' = [ring EXCEPT ![n].state = "RUNNING",
                                        ![n].result = "late"]
                /\ Goes("drop")
    /\ UNCHANGED <<stream, queued, slots, frame, claim, engine, sound,
                   browser>>

\* swdec_csc_claim_withdraw; with the engine in reset nothing can be busy.
Withdraw ==
    /\ Works("withdraw")
    /\ claim' = [active |-> NoSlot,
                 busy |-> IF engine.alive THEN claim.busy ELSE NoSlot]
    /\ worker' = [worker EXCEPT !.at = "join"]
    /\ UNCHANGED <<stream, picture, engine, sound, browser>>

NoClaim == [active |-> NoSlot, busy |-> NoSlot]
Stopped == [alive |-> FALSE, at |-> "idle", slot |-> NoSlot]

\* No batch is announced, or the wait ran out and the engine is put in reset
\* (csc_reclaim_stop_me, which this backend's engine always obeys).
Join ==
    /\ Works("join") /\ Goes(worker.then)
    /\ \/ claim.busy = NoSlot /\ UNCHANGED <<claim, engine>>
       \/ claim.busy # NoSlot /\ claim' = NoClaim /\ engine' = Stopped
    /\ UNCHANGED <<stream, picture, sound, browser>>

\* swdec_me_csc_begin: the surface is offered before the unit is decoded.
Bind ==
    /\ Works("bind") /\ claim' = [claim EXCEPT !.active = Surface]
    /\ Goes("decode")
    /\ UNCHANGED <<stream, picture, engine, sound, browser>>

\* The watchdog stops an engine that does not advance a slice.
EngineFails ==
    /\ Going /\ engine.alive
    /\ worker.at = "decode" \/ (stream.muxed /\ ~stream.video)
    /\ engine' = Stopped /\ claim' = NoClaim
    /\ UNCHANGED <<stream, picture, worker, sound, browser>>

DecodeEmpty ==
    /\ Works("decode")
    /\ \E result \in {"ok", "error"} :
          ring' = [ring EXCEPT ![Running].result = result]
    /\ IF Prebinds(Job) THEN Reclaims("drop") ELSE Goes("drop")
    /\ UNCHANGED <<stream, queued, slots, frame, claim, engine, sound,
                   browser>>

\* A picture of the job's own unit may be in the surface already; any other
\* (reordered, delayed) is converted now.
DecodePicture ==
    /\ Works("decode")
    /\ \E own \in BOOLEAN :
          Reclaims(IF own /\ Prebinds(Job) /\ claim.active = Surface
                   THEN "closed" ELSE "offer")
    /\ UNCHANGED <<stream, picture, claim, engine, sound, browser>>

\* swdec_me_csc_close: the engine recorded the picture, or nothing.
Closed ==
    /\ Works("closed")
    /\ \/ Goes("publish")
       \/ Reclaims("offer")
    /\ UNCHANGED <<stream, picture, claim, engine, sound, browser>>

\* swdec_me_csc_picture: both cores convert, then the surface is joined.
Offer ==
    /\ Works("offer") /\ claim' = [claim EXCEPT !.active = Surface]
    /\ Reclaims("converted")
    /\ UNCHANGED <<stream, picture, engine, sound, browser>>

\* A refused conversion drops the picture; a run of them is an error.
Converted ==
    /\ Works("converted")
    /\ \/ Goes("publish") /\ UNCHANGED ring
       \/ /\ Goes("drop")
          /\ \E result \in {"ok", "error"} :
                ring' = [ring EXCEPT ![Running].result = result]
    /\ UNCHANGED <<stream, queued, slots, frame, claim, engine, sound,
                   browser>>

Drop ==
    /\ Works("drop") /\ SetSlot(Surface, Freed(slots[Surface]))
    /\ Goes("finish")
    /\ UNCHANGED <<stream, queued, ring, frame, claim, engine, sound,
                   browser>>

\* A new generation: a handle on the surface's last picture is out of date.
Publish ==
    /\ Works("publish")
    /\ SetSlot(Surface, [slots[Surface] EXCEPT
                            !.state = "READY", !.claimed = FALSE,
                            !.retire = FALSE, !.old = Job.old])
    /\ frame' = [frame EXCEPT !.fresh = @ /\ frame.slot # Surface]
    /\ Goes("finish")
    /\ UNCHANGED <<stream, queued, ring, claim, engine, sound, browser>>

Finish ==
    /\ Works("finish")
    /\ ring' = [ring EXCEPT ![Running].state = "DONE"]
    /\ Goes("wait")
    /\ UNCHANGED <<stream, queued, slots, frame, claim, engine, sound,
                   browser>>

WorkerStep ==
    \/ Begin \/ Withdraw \/ Join \/ Bind \/ DecodeEmpty
    \/ DecodePicture \/ Closed \/ Offer \/ Converted \/ Drop \/ Publish
    \/ Finish

-----------------------------------------------------------------------------
(***************************************************************************)
(* The Media Engine (swdec_csc_claim_take and release, me_audio_service).  *)
(***************************************************************************)
Engages(place) == Going /\ engine.alive /\ engine.at = place
EngineGoes(place, slot) ==
    engine' = [engine EXCEPT !.at = place, !.slot = slot]

Look ==
    /\ Engages("idle") /\ claim.active # NoSlot
    /\ EngineGoes("seen", claim.active)
    /\ UNCHANGED <<stream, picture, worker, claim, sound, browser>>

Announce ==
    /\ Engages("seen") /\ EngineGoes("announced", engine.slot)
    /\ claim' = [claim EXCEPT !.busy = engine.slot]
    /\ UNCHANGED <<stream, picture, worker, sound, browser>>

\* Mutation: the offer is not looked at again.
RecheckNot ==
    /\ Engages("announced") /\ EngineGoes("batch", engine.slot)
    /\ UNCHANGED <<stream, picture, worker, claim, sound, browser>>

\* Looks again after it announced itself, and backs off from a withdrawal.
Recheck ==
    /\ Engages("announced")
    /\ IF claim.active = engine.slot
       THEN EngineGoes("batch", engine.slot) /\ UNCHANGED claim
       ELSE /\ EngineGoes("idle", NoSlot)
            /\ claim' = [claim EXCEPT !.busy = NoSlot]
    /\ UNCHANGED <<stream, picture, worker, sound, browser>>

EndBatch ==
    /\ Engages("batch") /\ EngineGoes("idle", NoSlot)
    /\ claim' = [claim EXCEPT !.busy = NoSlot]
    /\ UNCHANGED <<stream, picture, worker, sound, browser>>

DecodeAudio ==
    /\ Engages("idle") /\ pcm.undecoded > 0
    /\ pcm' = [undecoded |-> pcm.undecoded - 1, unplayed |-> pcm.unplayed + 1]
    /\ UNCHANGED <<stream, picture, worker, claim, engine, fence, audio,
                   cursor, browser>>

EngineStep ==
    Look \/ Announce \/ Recheck \/ EndBatch \/ DecodeAudio \/ EngineFails

-----------------------------------------------------------------------------
(***************************************************************************)
(* The audio thread (swdec_audio_main).  What the hardware holds while a   *)
(* call is out is that call's block and the one before it; a failed call   *)
(* proves nothing about either.                                            *)
(***************************************************************************)
Returned(ok) ==
    CASE audio.call = "ring" -> "ring"
      [] audio.call # "ring" /\ ok -> "silence"
      [] OTHER -> audio.held

\* swdec_audio_fence_acknowledge, for the silence that began under the fence
Acknowledged(ok) ==
    IF ok /\ audio.call = "silence" /\ audio.hold # 0
    THEN [fence EXCEPT !.parked = audio.hold] ELSE fence

Published ==
    IF audio.call = "ring" \/ (audio.call = "clock" /\ audio.started)
    THEN IF audio.stale THEN "old" ELSE "stream"
    ELSE cursor

Unplayed == pcm.unplayed - (IF audio.call = "ring" THEN 1 ELSE 0)

\* The next call: a block of the ring only under a lowered fence; a track
\* that was given up plays silence and goes on publishing its clock.
NextCall(hold, runs, starts, fails) ==
    LET started == (audio.started /\ ~audio.stale) \/ (hold = 0 /\ starts)
        block == hold = 0 /\ runs /\ started /\ Unplayed > 0
        failed == audio.failed \/ (block /\ fails)
    IN  [audio EXCEPT
            !.call = CASE hold = 0 /\ runs /\ failed -> "clock"
                       [] block /\ ~failed -> "ring"
                       [] OTHER -> "silence",
            !.hold = hold, !.started = started, !.failed = failed,
            !.stale = FALSE]

AudioTurn(ok) ==
    /\ Going /\ stream.audio
    /\ fence' = Acknowledged(ok)
    /\ pcm' = [pcm EXCEPT !.unplayed = Unplayed]
    /\ cursor' = Published
    /\ \E runs, starts, fails \in BOOLEAN :
          audio' = [NextCall(fence.raised, runs, starts, fails) EXCEPT
                       !.held = Returned(ok), !.error = @ \/ ~ok]
    /\ UNCHANGED <<stream, picture, worker, claim, engine, browser>>

-----------------------------------------------------------------------------
(***************************************************************************)
(* The browser: calls outside a reset.  Each collects finished jobs first  *)
(* and may hand over one unit (a second one follows with the next call).   *)
(***************************************************************************)
Calls == InLoop /\ ~browser.pending
CollectOnly == ring' = Kept

CanDispatch == Len(Kept) < Depth /\ SlotsIn("FREE") # {}

\* swdec_find_free_slot and swdec_publish_job; a worker that cannot be woken
\* never saw the job, which is withdrawn again.
HandOver(flush) ==
    \E slot \in SlotsIn("FREE") :
        /\ \A other \in SlotsIn("FREE") : slot <= other
        /\ ring' = Append(Kept, NewJob(slot, flush))
        /\ slots' = [slots EXCEPT ![slot].state = "WRITING"]
        /\ UNCHANGED browser

Refused == CollectOnly /\ Ends /\ UNCHANGED slots

\* swdec_dispatch_queued: nothing while the engine is down.
Dispatch(alive, some) ==
    IF alive /\ some /\ CanDispatch
    THEN /\ queued' \in BOOLEAN
         /\ HandOver(FALSE) \/ Refused
    ELSE CollectOnly /\ queued' = some /\ UNCHANGED <<slots, browser>>

Failed ==
    CollectOnly /\ Ends /\ UNCHANGED <<queued, slots>>

\* swdec_advance, which restarts a failed engine once no job is in flight
Advance ==
    /\ Calls
    /\ IF CollectsError \/ audio.error THEN Failed /\ UNCHANGED engine
       ELSE IF ~engine.alive /\ Kept = <<>>
       THEN \/ engine' = [engine EXCEPT !.alive = TRUE]
               /\ Dispatch(TRUE, queued)
            \/ Failed /\ UNCHANGED engine
       ELSE Dispatch(engine.alive, queued) /\ UNCHANGED engine
    /\ UNCHANGED <<stream, frame, worker, claim, sound>>

SubmitVideo ==
    /\ Calls /\ stream.video
    /\ IF CollectsError THEN Failed ELSE Dispatch(engine.alive, TRUE)
    /\ UNCHANGED <<stream, frame, worker, claim, engine, sound>>

\* The bound on audio_submitted - audio_output.
RingHasRoom == pcm.undecoded + pcm.unplayed < PcmSlots - PcmMargin

SubmitAudio ==
    /\ Calls /\ stream.audio /\ ~audio.failed
    /\ IF CollectsError THEN Failed /\ UNCHANGED pcm
       ELSE /\ CollectOnly /\ RingHasRoom
            /\ pcm' = [pcm EXCEPT !.undecoded = @ + 1]
            /\ UNCHANGED <<queued, slots, browser>>
    /\ UNCHANGED <<stream, frame, worker, claim, engine, fence, audio, cursor>>

\* swdec_drain: the queue first, then one flushing job at a time
Drain ==
    /\ Calls /\ stream.video
    /\ IF CollectsError THEN Failed
       ELSE IF queued /\ Kept = <<>> THEN Dispatch(engine.alive, queued)
       ELSE IF Kept = <<>> /\ CanDispatch
       THEN UNCHANGED queued /\ (HandOver(TRUE) \/ Refused)
       ELSE CollectOnly /\ UNCHANGED <<queued, slots, browser>>
    /\ UNCHANGED <<stream, frame, worker, claim, engine, sound>>

\* Mutation: a picture that is still being drawn is handed back.
PriorFreed(s) ==
    IF frame.last \in {NoSlot, s} THEN slots
    ELSE [slots EXCEPT ![frame.last] = Freed(@)]

\* swdec_release_prior_claim
PriorReleased(s) ==
    IF frame.last \in {NoSlot, s} THEN slots
    ELSE [slots EXCEPT ![frame.last] =
             IF @.readers = 0 THEN Freed(@)
             ELSE [@ EXCEPT !.retire = TRUE, !.claimed = FALSE]]

\* swdec_take_video_frame: with audio the due pictures behind the chosen one
\* are dropped.
Take ==
    /\ Calls
    /\ \E s \in Takeable, late \in SUBSET Takeable :
          /\ s \notin late /\ (late # {} => stream.muxed)
          /\ slots' = [t \in Slots |->
                CASE t = s -> [slots[s] EXCEPT !.claimed = TRUE]
                  [] t \in late -> Freed(slots[t])
                  [] OTHER -> PriorReleased(s)[t]]
          /\ frame' = [slot |-> s, fresh |-> TRUE, old |-> slots[s].old,
                       last |-> s]
    /\ UNCHANGED <<stream, queued, ring, worker, claim, engine, sound,
                   browser>>

\* swdec_discard_video_before
Discard ==
    /\ Calls
    /\ \E early \in SUBSET Takeable \ {{}} :
          slots' = [t \in Slots |->
                       IF t \in early THEN Freed(slots[t]) ELSE slots[t]]
    /\ UNCHANGED <<stream, queued, ring, frame, worker, claim, engine,
                   sound, browser>>

-----------------------------------------------------------------------------
(***************************************************************************)
(* The browser: drawing, which goes on while a seek is pending.            *)
(***************************************************************************)
Borrow ==
    /\ InLoop /\ frame.slot # NoSlot /\ frame.fresh
    /\ slots[frame.slot].state \in {"READY", "READING"}
    /\ slots[frame.slot].readers < Readers
    /\ SetSlot(frame.slot, [slots[frame.slot] EXCEPT
                               !.state = "READING", !.readers = @ + 1])
    /\ UNCHANGED <<stream, queued, ring, frame, worker, claim, engine,
                   sound, browser>>

\* swdec_release
LastReaderGone(slot) ==
    IF slot.retire THEN Freed(slot)
    ELSE IF slot.state = "READING" THEN [slot EXCEPT !.state = "READY"]
    ELSE slot

Release(s) ==
    /\ InLoop /\ slots[s].readers > 0
    /\ LET left == [slots[s] EXCEPT !.readers = @ - 1]
       IN  SetSlot(s, IF left.readers > 0 THEN left ELSE LastReaderGone(left))
    /\ UNCHANGED <<stream, queued, ring, frame, worker, claim, engine,
                   sound, browser>>

-----------------------------------------------------------------------------
(***************************************************************************)
(* The browser: a seek (swdec_reset, swdec_reset_progress and              *)
(* swdec_reset_perform).  It never waits; every later call polls it.       *)
(***************************************************************************)
Seek ==
    /\ InLoop
    /\ browser' = [browser EXCEPT !.pending = TRUE]
    /\ fence' = IF stream.audio /\ ~browser.pending THEN Raised ELSE fence
    /\ queued' = FALSE
    /\ UNCHANGED <<stream, ring, slots, frame, worker, claim, engine, audio,
                   pcm, cursor>>

\* Mutation: the reset does not wait for the unit that is being decoded.
QuietButForJobs ==
    /\ Unborrowed
    /\ stream.audio => Parked /\ pcm.undecoded = 0

\* SwdecResetInputs, once what is finished has been collected
Quiet ==
    /\ Kept = <<>> /\ Unborrowed
    /\ stream.audio => Parked /\ pcm.undecoded = 0

Polls ==
    /\ InLoop /\ browser.pending
    /\ CollectOnly
    /\ UNCHANGED <<stream, queued, slots, frame, worker, claim, sound>>

Proceed ==
    /\ Quiet /\ Polls
    /\ browser' = [browser EXCEPT !.at = "release"]
    /\ UNCHANGED engine

Wait == ~Quiet /\ Polls /\ UNCHANGED <<engine, browser>>

\* Mutation: an engine that failed is not restarted while a seek waits.
RestartNot ==
    /\ ~Quiet /\ ~engine.alive /\ Kept = <<>> /\ Polls
    /\ UNCHANGED <<engine, browser>>

\* The poll of swdec_advance looks after a failed engine as well.
Restart ==
    /\ ~Quiet /\ ~engine.alive /\ Kept = <<>> /\ Polls
    /\ engine' = [engine EXCEPT !.alive = TRUE]
    /\ UNCHANGED browser

\* The deadline passed, or the engine cannot be restarted.
GiveUp == ~Quiet /\ Polls /\ Ends /\ UNCHANGED engine

\* csc_off, then audio_shutdown frees the ring.
FreeRing ==
    /\ browser.at = "release" /\ claim.busy = NoSlot
    /\ claim' = NoClaim
    /\ fence' = [fence EXCEPT !.ring = ~stream.audio]
    /\ browser' = [browser EXCEPT !.at = "replace"]
    /\ UNCHANGED <<stream, picture, worker, engine, audio, pcm, cursor>>

\* The new stream's decoders; the new epoch, surfaces, counters and cursor.
Replace ==
    /\ browser.at = "replace"
    /\ fence' = [fence EXCEPT !.ring = TRUE]
    /\ slots' = [s \in Slots |-> Freed(slots[s])]
    /\ ring' = [n \in DOMAIN ring |-> [ring[n] EXCEPT !.old = TRUE]]
    /\ frame' = [frame EXCEPT !.last = NoSlot]
    /\ queued' = FALSE
    /\ pcm' = [undecoded |-> 0, unplayed |-> 0]
    /\ cursor' = "zero"
    /\ \E retry \in BOOLEAN :
          audio' = [audio EXCEPT !.stale = stream.audio, !.error = FALSE,
                                 !.failed = @ /\ ~retry]
    /\ browser' = [browser EXCEPT !.at = "lower"]
    /\ UNCHANGED <<stream, worker, claim, engine>>

\* A decoder that cannot be reopened: the fence stays up.
ReplaceFails ==
    /\ browser.at = "replace" /\ Ends
    /\ UNCHANGED <<stream, picture, worker, claim, engine, sound>>

Lower ==
    /\ browser.at = "lower"
    /\ fence' = [fence EXCEPT !.raised = 0]
    /\ browser' = [browser EXCEPT !.at = "loop", !.pending = FALSE]
    /\ UNCHANGED <<stream, picture, worker, claim, engine, audio, pcm, cursor>>

-----------------------------------------------------------------------------
Reset ==
    \/ Proceed \/ Wait \/ Restart \/ GiveUp \/ FreeRing \/ Replace
    \/ ReplaceFails \/ Lower

Browse ==
    \/ Advance \/ SubmitVideo \/ SubmitAudio \/ Drain \/ Take \/ Discard
    \/ Borrow \/ (\E s \in Slots : Release(s)) \/ Seek

Next ==
    \/ WorkerStep \/ EngineStep \/ Reset \/ Browse
    \/ \E ok \in BOOLEAN : AudioTurn(ok)

Spec == Init /\ [][Next]_vars

\* The threads run, and the hardware goes on taking blocks.  A draw ends
\* within its frame, and every frame polls a pending seek once between two
\* draws and through advance.  No deadline is assumed to pass.
FairSpec ==
    /\ Spec
    /\ WF_vars(WorkerStep)
    /\ WF_vars(Announce \/ Recheck \/ EndBatch)
    /\ SF_vars(DecodeAudio)
    /\ WF_vars(AudioTurn(TRUE))
    /\ \A s \in Slots : WF_vars(Release(s))
    /\ SF_vars(Proceed)
    /\ SF_vars(Restart)
    /\ WF_vars(FreeRing \/ Replace \/ ReplaceFails \/ Lower)

-----------------------------------------------------------------------------
(***************************************************************************)
(* Properties.                                                             *)
(***************************************************************************)

\* A batch of the Media Engine writes only the surface of the job that runs,
\* and only until the worker has taken that surface back: never one that is
\* finished on the CPU, published, dropped or another job's
\* (swdec_csc_claim.h).
EngineWritesItsSlot ==
    engine.at = "batch" =>
        /\ worker.at \in {"decode", "withdraw", "join"}
        /\ engine.slot = Surface
        /\ slots[engine.slot].state = "WRITING"

\* The jobs a surface is still being decoded into.
Owners(s) ==
    {n \in DOMAIN ring :
        /\ ring[n].slot = s
        /\ \/ ring[n].state = "READY"
           \/ ring[n].state = "RUNNING" /\ worker.at # "finish"}

\* No surface is lost or has two owners: it is written by exactly one job,
\* waits to be taken, belongs to the picture last claimed, or is held by
\* draws, the last of which gives it back.
SurfaceHasOneOwner ==
    \A s \in Slots :
        LET slot == slots[s]
        IN  /\ Cardinality(Owners(s)) =
                   (IF slot.state = "WRITING" THEN 1 ELSE 0)
            /\ slot.readers > 0 <=> slot.state = "READING"
            /\ slot.claimed <=> frame.last = s
            /\ slot.state = "READING" => slot.claimed # slot.retire
            /\ slot.state # "READING" => ~slot.retire

\* The output hardware reads only blocks that exist and are not written:
\* the ring is freed after the last of its blocks has been played or
\* dropped, and the engine never decodes into the one still held.
BlocksOutliveOutput ==
    /\ ~fence.ring => audio.call # "ring" /\ audio.held # "ring"
    /\ pcm.undecoded > 0 =>
           pcm.unplayed + (IF audio.held = "ring" THEN 1 ELSE 0) < PcmSlots

\* Nothing of the stream being left is shown or told after the seek: no
\* picture, no job, no position.
NothingOfOldStream ==
    /\ ~frame.old /\ \A s \in SlotsIn("READY") : ~slots[s].old
    /\ cursor # "old"

\* A seek is performed, or its failure is reported.
SeekEnds == browser.pending ~> ~browser.pending \/ browser.over
=============================================================================
