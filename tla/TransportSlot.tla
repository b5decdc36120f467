--------------------------- MODULE TransportSlot ----------------------------
(***************************************************************************)
(* One request slot of the shared transport                                *)
(* (src/src/fetch/background_transport.inc), shared without a lock by the  *)
(* browser thread, which fills, drains and cancels it, and the transport   *)
(* worker, which owns its curl handle.  A step is one atomic access or a   *)
(* stretch of code whose data the thread owns while it runs.               *)
(*                                                                         *)
(* The PSP has one core and strict thread priorities.  The worker outranks *)
(* the browser, except that it demotes itself inside a curl setup call and *)
(* that the browser promotes itself while it composes a video picture.     *)
(* The guards WorkerRuns and BrowserRuns are that schedule.                *)
(***************************************************************************)
EXTENDS Integers

CONSTANTS MaxBytes,    (* bound: body bytes of a response, in units        *)
          Target,      (* stream_chunk_target, in the same units           *)
          Presenting   (* whether the browser composes video pictures      *)

ASSUME BytesAssumption == MaxBytes \in Nat \ {0}
ASSUME TargetAssumption == Target \in 1 .. MaxBytes
ASSUME PresentingAssumption == Presenting \in BOOLEAN

States == {"Free", "Preparing", "Queued", "Running", "Complete", "Taking"}
Chunks == {"Empty", "Ready", "Taking"}
Outcomes == {"None", "OK", "Failed", "Aborted"}

\* What the worker does next, in the order of fetch_background_worker_main;
\* the stages with a comma are the windows inside a service.
Stages == {"Waiting", "Retire", "Resume", "Start", "Start, claim cancelled",
           "Start, claim", "Start, configure", "Expire", "Perform", "Collect",
           "Check", "Chunk, look", "Chunk, bytes", "Chunk, ready",
           "Publish, load", "Publish, store"}

\* Where the browser thread is inside a transport call.
Calls == {"Idle", "Enqueue, fill", "Enqueue, queue", "Chunk, claim",
          "Chunk, length", "Chunk, bytes", "Chunk, store", "Result, free",
          "Cancel, flag", "Cancel, chunk", "Cancel, clear", "Cancel, queued",
          "Cancel, complete"}

VARIABLES slot,      (* FetchBackgroundSlot                                *)
          worker,    (* the worker: its stage, what it returns to, what it *)
                     (* has loaded, and whether it is demoted              *)
          browser,   (* the browser thread: its call and the call's        *)
                     (* locals, and whether it is promoted                 *)
          client     (* the request's owner: whether it still wants the    *)
                     (* result, and the bytes it has been handed           *)

vars == <<slot, worker, browser, client>>

EmptySlot ==
    [state |-> "Free", cancel |-> FALSE, discard |-> FALSE,
     streaming |-> FALSE, buffer |-> FALSE, chunk |-> "Empty",
     chunk_bytes |-> 0, length |-> 0, total |-> 0, easy |-> FALSE,
     message |-> "None", paused |-> FALSE, held |-> FALSE, done |-> FALSE,
     outcome |-> "None"]

Init ==
    /\ slot = EmptySlot
    /\ worker = [at |-> "Waiting", next |-> "Waiting", again |-> FALSE,
                 saw |-> FALSE, bytes |-> 0, low |-> FALSE]
    /\ browser = [at |-> "Idle", available |-> 0, left |-> 0, high |-> FALSE]
    /\ client = [owns |-> FALSE, consumed |-> 0]

\* A browser that is not inside a call may be waiting for hardware or the
\* next frame, which lets a worker below it run; it may also come back from
\* that wait at any moment.
BrowserRuns == worker.at = "Waiting" \/ worker.low \/ browser.high
WorkerRuns == (worker.low \/ browser.high) => browser.at = "Idle"

-----------------------------------------------------------------------------
(***************************************************************************)
(* The worker.                                                             *)
(***************************************************************************)
Stage(s) == WorkerRuns /\ worker.at = s /\ UNCHANGED <<browser, client>>
GoOn(s) == worker' = [worker EXCEPT !.at = s]

\* Stage s finds nothing to do.
PassOn(s, t) == Stage(s) /\ UNCHANGED slot /\ GoOn(t)

\* fetch_background_publish_complete, then stage s.
Publish(s) == worker' = [worker EXCEPT !.at = "Publish, load", !.next = s]

AfterStart == IF worker.again THEN "Check" ELSE "Expire"

\* A finished stream hands out what is in its buffer first.
Deliver(s, w) ==
    worker' = [w EXCEPT !.next = s,
                        !.at = IF slot.streaming /\ slot.length # 0
                               THEN "Chunk, look" ELSE "Publish, load"]

Wake ==
    /\ Stage("Waiting")
    /\ worker' = [worker EXCEPT !.at = "Retire", !.again = FALSE]
    /\ UNCHANGED slot

\* A browser that is copying the chunk defers the retirement by one turn.
Retires == /\ slot.state = "Running" /\ slot.cancel
           /\ ~(slot.streaming /\ slot.chunk = "Taking")

Retire ==
    /\ Stage("Retire") /\ Retires
    /\ slot' = [slot EXCEPT !.easy = FALSE, !.message = "None", !.length = 0,
                            !.done = TRUE, !.chunk_bytes = 0,
                            !.chunk = "Empty", !.outcome = "Aborted"]
    /\ Publish("Resume")

RetireCancelled == Retire \/ (~Retires /\ PassOn("Retire", "Resume"))

\* Mutation: a finished stream is not completed once it is drained.
ResumeStreamNeverEnds ==
    /\ Stage("Resume")
    /\ slot' = IF slot.streaming /\ slot.state = "Running"
                        /\ slot.chunk = "Empty"
               THEN [slot EXCEPT !.paused = FALSE, !.held = FALSE] ELSE slot
    /\ GoOn("Start")

\* A stream whose chunk has been taken ends, goes on or cannot be resumed.
Drained == slot.streaming /\ slot.state = "Running" /\ slot.chunk = "Empty"

CompleteStream == /\ Stage("Resume") /\ Drained /\ slot.done
                  /\ UNCHANGED slot /\ Publish("Start")

Unpause ==
    /\ Stage("Resume") /\ Drained /\ ~slot.done
    /\ slot' = [slot EXCEPT !.paused = FALSE, !.held = FALSE]
    /\ GoOn("Start")

UnpauseFails ==
    /\ Stage("Resume") /\ Drained /\ ~slot.done /\ slot.paused
    /\ slot' = [slot EXCEPT !.paused = FALSE, !.held = FALSE, !.easy = FALSE,
                            !.message = "None", !.done = TRUE,
                            !.outcome = "Failed"]
    /\ Publish("Start")

ResumeStream == \/ CompleteStream \/ Unpause \/ UnpauseFails
                \/ ~Drained /\ PassOn("Resume", "Start")

\* fetch_background_start_queued looks at the flags of a slot, whatever its
\* state, before it claims it; it passes over a slot for which the pool of
\* its kind has no buffer.
StartLook ==
    /\ Stage("Start")
    /\ worker' = [worker EXCEPT
            !.at = IF slot.cancel THEN "Start, claim cancelled"
                                  ELSE "Start, claim",
            !.saw = slot.streaming]
    /\ UNCHANGED slot

NoBuffer == ~slot.cancel /\ PassOn("Start", AfterStart)

\* The claims succeed on a queued slot.
ClaimCancelled ==
    /\ Stage("Start, claim cancelled") /\ slot.state = "Queued"
    /\ slot' = [slot EXCEPT !.state = "Preparing", !.outcome = "Aborted"]
    /\ Publish(AfterStart)

StartClaimCancelled ==
    \/ ClaimCancelled
    \/ /\ slot.state # "Queued"
       /\ PassOn("Start, claim cancelled", AfterStart)

Claim ==
    /\ Stage("Start, claim") /\ slot.state = "Queued"
    /\ slot' = [slot EXCEPT !.state = "Running", !.buffer = worker.saw]
    /\ GoOn("Start, configure")

StartClaim == Claim \/ (slot.state # "Queued"
                           /\ PassOn("Start, claim", AfterStart))

Configured == [slot EXCEPT !.length = 0, !.total = 0, !.done = FALSE,
                           !.paused = FALSE, !.chunk = "Empty",
                           !.chunk_bytes = 0, !.outcome = "None"]

Configure ==
    /\ Stage("Start, configure")
    /\ slot' = [Configured EXCEPT !.easy = TRUE]
    /\ GoOn(AfterStart)

ConfigureFails ==
    /\ Stage("Start, configure")
    /\ slot' = [Configured EXCEPT !.outcome = "Failed"]
    /\ Publish(AfterStart)

StartConfigure == Configure \/ ConfigureFails

\* The overall deadline and the stall window do not run while the consumer
\* holds the stream back.
ExpireDeadline ==
    /\ Stage("Expire")
    /\ slot.state = "Running" /\ ~slot.done /\ ~slot.paused /\ ~slot.held
    /\ slot' = [slot EXCEPT !.easy = FALSE, !.message = "None",
                            !.done = TRUE, !.outcome = "Failed"]
    /\ Deliver("Expire", worker)

\* Into curl_multi_perform, demoted if anything still sets up a connection.
EnterPerform ==
    /\ Stage("Expire")
    /\ \E setup \in BOOLEAN :
            worker' = [worker EXCEPT !.at = "Perform", !.low = setup]
    /\ UNCHANGED slot

InTransfer == /\ Stage("Perform")
              /\ slot.state = "Running" /\ slot.easy
              /\ slot.message = "None" /\ ~slot.paused

\* Mutation: bytes are appended to a published chunk.
ReceiveBodyAlways ==
    /\ InTransfer
    /\ slot.total < MaxBytes
    /\ slot' = [slot EXCEPT !.held = FALSE, !.length = @ + 1, !.total = @ + 1]
    /\ IF slot.streaming /\ slot.length + 1 >= Target
       THEN worker' = [worker EXCEPT !.at = "Chunk, bytes", !.next = "Perform",
                                     !.bytes = slot.length + 1]
       ELSE UNCHANGED worker

\* fetch_background_receive_body: a published chunk pauses the transfer, a
\* full one is published.
BodyHeld ==
    /\ InTransfer /\ slot.total < MaxBytes
    /\ slot.streaming /\ slot.chunk # "Empty"
    /\ slot' = [slot EXCEPT !.paused = TRUE, !.held = TRUE]
    /\ UNCHANGED worker

Append ==
    /\ InTransfer /\ slot.total < MaxBytes
    /\ ~slot.streaming \/ slot.chunk = "Empty"
    /\ slot' = [slot EXCEPT !.held = FALSE, !.length = @ + 1, !.total = @ + 1]

ChunkIsFull == slot.streaming /\ slot.length + 1 >= Target

AppendLast ==
    /\ Append /\ ChunkIsFull
    /\ worker' = [worker EXCEPT !.at = "Chunk, bytes", !.next = "Perform",
                                !.bytes = slot.length + 1]

ReceiveBody == \/ BodyHeld \/ AppendLast
               \/ Append /\ ~ChunkIsFull /\ UNCHANGED worker

\* curl queues the end of the transfer for the collector.
TransferEnds ==
    /\ InTransfer
    /\ \E result \in {"OK", "Failed"} :
            slot' = [slot EXCEPT !.message = result]
    /\ UNCHANGED worker

LeavePerform ==
    /\ Stage("Perform")
    /\ worker' = [worker EXCEPT !.at = "Collect", !.low = FALSE]
    /\ UNCHANGED slot

\* fetch_background_finish_easy; a redirect or TLS retry it starts instead
\* is a transfer that has not ended.
Again == [worker EXCEPT !.again = TRUE]

Finish ==
    /\ Stage("Collect") /\ slot.easy /\ slot.message # "None"
    /\ slot' = [slot EXCEPT !.easy = FALSE, !.message = "None",
                            !.outcome = slot.message, !.done = slot.streaming]
    /\ Deliver("Retire", Again)

Collect ==
    \/ Finish
    \/ /\ Stage("Collect") /\ (~slot.easy \/ slot.message = "None")
       /\ UNCHANGED slot
       /\ worker' = [Again EXCEPT !.at = "Retire"]

\* The end of a turn: if curl_multi_perform failed, so does every transfer
\* still running.
PerformFails ==
    /\ Stage("Check") /\ slot.state = "Running"
    /\ slot' = [slot EXCEPT !.easy = FALSE, !.message = "None",
                            !.outcome = "Failed"]
    /\ Publish("Waiting")

EndTurn == PerformFails \/ PassOn("Check", "Waiting")

\* fetch_background_publish_stream_chunk.  It reads the length twice, to see
\* that there is one and to publish it; the compiler may reuse the first.
ChunkFound ==
    /\ Stage("Chunk, look") /\ slot.length # 0
    /\ slot' = [slot EXCEPT !.held = TRUE]
    /\ worker' = [worker EXCEPT !.at = "Chunk, bytes", !.bytes = slot.length]

ChunkLook == ChunkFound \/ (slot.length = 0
                               /\ PassOn("Chunk, look", worker.next))

ChunkBytes ==
    /\ Stage("Chunk, bytes")
    /\ \E bytes \in {worker.bytes, slot.length} :
            slot' = [slot EXCEPT !.held = TRUE, !.chunk_bytes = bytes]
    /\ worker' = [worker EXCEPT !.at = "Chunk, ready", !.bytes = 0]

ChunkReady ==
    /\ Stage("Chunk, ready")
    /\ slot' = [slot EXCEPT !.chunk = "Ready"]
    /\ GoOn(worker.next)

PublishLoad ==
    /\ Stage("Publish, load")
    /\ worker' = [worker EXCEPT !.at = "Publish, store", !.saw = slot.discard]
    /\ UNCHANGED slot

\* Mutations: the discard flag is not heeded, and nobody is expected to take
\* a result.
PublishStoreIgnoresDiscard ==
    /\ Stage("Publish, store")
    /\ slot' = [slot EXCEPT !.state = "Complete"]
    /\ GoOn(worker.next)

PublishStoreFrees ==
    /\ Stage("Publish, store")
    /\ slot' = [slot EXCEPT !.state = "Free"]
    /\ GoOn(worker.next)

PublishStore ==
    /\ Stage("Publish, store")
    /\ slot' = [slot EXCEPT !.state = IF worker.saw THEN "Free"
                                                    ELSE "Complete"]
    /\ GoOn(worker.next)

WorkerStep ==
    \/ Wake \/ RetireCancelled \/ ResumeStream \/ StartLook \/ NoBuffer
    \/ StartClaimCancelled \/ StartClaim \/ StartConfigure
    \/ ExpireDeadline \/ EnterPerform \/ ReceiveBody \/ TransferEnds
    \/ LeavePerform \/ Collect \/ EndTurn
    \/ ChunkLook \/ ChunkBytes \/ ChunkReady \/ PublishLoad \/ PublishStore

-----------------------------------------------------------------------------
(***************************************************************************)
(* The browser thread.                                                     *)
(***************************************************************************)
Call(c) == BrowserRuns /\ browser.at = c /\ UNCHANGED worker
Go(c) == browser' = [browser EXCEPT !.at = c]

\* Step c finds nothing to do.
Return(c, d) == Call(c) /\ Go(d) /\ UNCHANGED <<slot, client>>

\* psp_present_video_surface raises its own priority, and feeds the decoder
\* from the network before it restores it.
Present ==
    /\ Presenting
    /\ Call("Idle")
    /\ browser' = [browser EXCEPT !.high = ~@]
    /\ UNCHANGED <<slot, client>>

Enqueue ==
    /\ Call("Idle") /\ ~client.owns /\ slot.state = "Free"
    /\ slot' = [slot EXCEPT !.state = "Preparing"]
    /\ Go("Enqueue, fill")
    /\ UNCHANGED client

\* The flags a worker looks at without a claim are reset here; whether the
\* request streams is the caller's choice of entry point.
EnqueueFill ==
    /\ Call("Enqueue, fill")
    /\ \E streaming \in BOOLEAN :
            slot' = [EmptySlot EXCEPT !.state = "Preparing",
                                      !.streaming = streaming]
    /\ Go("Enqueue, queue")
    /\ UNCHANGED client

EnqueueQueue ==
    /\ Call("Enqueue, queue")
    /\ slot' = [slot EXCEPT !.state = "Queued"]
    /\ Go("Idle")
    /\ client' = [owns |-> TRUE, consumed |-> 0]

\* fetch_background_transport_take_chunk.
TakeChunk ==
    /\ Call("Idle") /\ client.owns /\ slot.streaming /\ slot.chunk_bytes # 0
    /\ browser' = [browser EXCEPT !.at = "Chunk, claim",
                                  !.available = slot.chunk_bytes]
    /\ UNCHANGED <<slot, client>>

ClaimReady ==
    /\ Call("Chunk, claim") /\ slot.chunk = "Ready"
    /\ slot' = [slot EXCEPT !.chunk = "Taking"] /\ Go("Chunk, length")
    /\ UNCHANGED client

ChunkClaim == ClaimReady \/ (slot.chunk # "Ready"
                                 /\ Return("Chunk, claim", "Idle"))

\* The destination holds some or all of the chunk.
ChunkCopy ==
    /\ Call("Chunk, length")
    /\ \E taken \in 1 .. browser.available :
        LET left == browser.available - taken
        IN  /\ slot' = [slot EXCEPT !.length = left]
            /\ browser' = [browser EXCEPT !.at = "Chunk, bytes", !.left = left]
            /\ client' = [client EXCEPT !.consumed = @ + taken]

ChunkLeft ==
    /\ Call("Chunk, bytes")
    /\ slot' = [slot EXCEPT !.chunk_bytes = browser.left]
    /\ Go("Chunk, store")
    /\ UNCHANGED client

ChunkStore ==
    /\ Call("Chunk, store")
    /\ slot' = [slot EXCEPT !.chunk = IF browser.left # 0 THEN "Ready"
                                                          ELSE "Empty"]
    /\ browser' = [browser EXCEPT !.at = "Idle", !.available = 0, !.left = 0]
    /\ UNCHANGED client

\* The take calls: the result is copied out between the two steps.
TakeResult ==
    /\ Call("Idle") /\ client.owns /\ slot.state = "Complete"
    /\ slot' = [slot EXCEPT !.state = "Taking"]
    /\ Go("Result, free")
    /\ UNCHANGED client

ResultFree ==
    /\ Call("Result, free")
    /\ slot' = [slot EXCEPT !.state = "Free"]
    /\ Go("Idle")
    /\ client' = [client EXCEPT !.owns = FALSE]

\* fetch_background_transport_cancel, by an owner that then forgets the
\* request or by request_quiesce for every slot that is not free.
Cancel ==
    /\ Call("Idle")
    /\ client.owns \/ slot.state # "Free"
    /\ slot' = [slot EXCEPT !.discard = TRUE]
    /\ Go("Cancel, flag")
    /\ client' = [client EXCEPT !.owns = FALSE]

CancelFlag ==
    /\ Call("Cancel, flag")
    /\ slot' = [slot EXCEPT !.cancel = TRUE]
    /\ Go("Cancel, chunk")
    /\ UNCHANGED client

ClaimsChunk == slot.streaming /\ slot.chunk = "Ready"

CancelReady ==
    /\ Call("Cancel, chunk") /\ ClaimsChunk
    /\ slot' = [slot EXCEPT !.chunk = "Taking"] /\ Go("Cancel, clear")
    /\ UNCHANGED client

CancelChunk == CancelReady \/ (~ClaimsChunk
                                   /\ Return("Cancel, chunk",
                                             "Cancel, queued"))

CancelClear ==
    /\ Call("Cancel, clear")
    /\ slot' = [slot EXCEPT !.length = 0, !.chunk_bytes = 0,
                            !.chunk = "Empty"]
    /\ Go("Cancel, queued")
    /\ UNCHANGED client

FreeQueued ==
    /\ Call("Cancel, queued") /\ slot.state = "Queued"
    /\ slot' = [slot EXCEPT !.state = "Free"] /\ Go("Idle")
    /\ UNCHANGED client

CancelQueued == FreeQueued \/ (slot.state # "Queued"
                                   /\ Return("Cancel, queued",
                                             "Cancel, complete"))

\* Mutation: a cancel frees the slot whatever it holds.
CancelAlwaysFrees ==
    /\ Call("Cancel, complete")
    /\ slot' = [slot EXCEPT !.state = "Free"]
    /\ Go("Idle")
    /\ UNCHANGED client

CancelComplete ==
    /\ Call("Cancel, complete")
    /\ slot' = [slot EXCEPT !.state = IF @ = "Complete" THEN "Free" ELSE @]
    /\ Go("Idle")
    /\ UNCHANGED client

\* Inside a call the browser thread does not stop.
BrowserInCall ==
    \/ EnqueueFill \/ EnqueueQueue \/ ChunkClaim \/ ChunkCopy \/ ChunkLeft
    \/ ChunkStore \/ ResultFree \/ CancelFlag \/ CancelChunk \/ CancelClear
    \/ CancelQueued \/ CancelComplete

BrowserStep == Present \/ Enqueue \/ TakeChunk \/ TakeResult \/ Cancel
                   \/ BrowserInCall

Next == WorkerStep \/ BrowserStep

Spec == Init /\ [][Next]_vars

-----------------------------------------------------------------------------
(***************************************************************************)
(* Fairness: each thread blocks often enough for the other to run.  A      *)
(* transfer that is performed again and again ends, a queued request meets *)
(* a free buffer sooner or later, and a client that keeps a request drains *)
(* and takes it.                                                           *)
(***************************************************************************)
Fairness ==
    /\ SF_vars(WorkerStep) /\ SF_vars(BrowserInCall)
    /\ SF_vars(StartLook /\ slot.state = "Queued")
    /\ SF_vars(TransferEnds)
    /\ SF_vars(TakeChunk) /\ SF_vars(TakeResult)

FairSpec == Spec /\ Fairness

-----------------------------------------------------------------------------
(***************************************************************************)
(* Properties.                                                             *)
(***************************************************************************)
\* The slot, the two threads and the client hold values of their types.
TypeOK ==
    /\ slot.state \in States /\ slot.chunk \in Chunks
    /\ slot.outcome \in Outcomes /\ slot.message \in {"None", "OK", "Failed"}
    /\ {slot.cancel, slot.discard, slot.streaming, slot.buffer, slot.easy,
        slot.paused, slot.held, slot.done} \subseteq BOOLEAN
    /\ {slot.chunk_bytes, slot.length, slot.total, worker.bytes,
        browser.available, browser.left, client.consumed}
            \subseteq 0 .. MaxBytes
    /\ {worker.at, worker.next} \subseteq Stages
    /\ {worker.again, worker.saw, worker.low, browser.high, client.owns}
            \subseteq BOOLEAN
    /\ browser.at \in Calls

Copying == browser.at \in {"Chunk, length", "Chunk, bytes", "Chunk, store"}
Cancelling == browser.at \in {"Cancel, flag", "Cancel, chunk",
                              "Cancel, clear", "Cancel, queued",
                              "Cancel, complete"}

\* What teardown infers from all_free: the worker has neither a curl handle
\* nor unfinished business with a slot that is free or only queued.
FreeIsIdle ==
    slot.state \in {"Free", "Queued"} =>
        /\ ~slot.easy
        /\ worker.at \notin {"Start, configure", "Chunk, look",
                             "Chunk, bytes", "Chunk, ready",
                             "Publish, load", "Publish, store"}

\* A cancelled request does not end up as a result that waits for an owner
\* it no longer has: whichever side comes second frees the slot.
NoOrphan == slot.state = "Complete" /\ slot.discard => Cancelling

\* Only the request that was cancelled is aborted, not the next one in its
\* slot.
AbortsWhatWasCancelled ==
    slot.state = "Complete" /\ slot.outcome = "Aborted" => slot.discard

\* A cancel ends the request it was meant for, entirely, and no other.
CancelsItsOwn == NoOrphan /\ AbortsWhatWasCancelled

\* A request runs in a buffer of its own pool, and the pool can tell.
BufferOfItsPool == slot.state = "Running" => slot.buffer = slot.streaming

\* A stream hands each received byte to its owner once: what the owner has
\* and what is in the buffer are what was received, and a stream that ends
\* well is drained.
EveryByteOnce ==
    slot.streaming /\ client.owns /\ ~Copying =>
        /\ client.consumed + slot.length = slot.total
        /\ slot.state = "Complete" /\ slot.outcome = "OK" =>
                client.consumed = slot.total

\* Every lease ends: no chunk, pause, deadline or cancel leaves the slot
\* held for ever.
LeaseEnds == slot.state # "Free" ~> slot.state = "Free"

Filling == browser.at \in {"Enqueue, fill", "Enqueue, queue"}

\* The slot is the lease the network lifecycle counts on.  A request the
\* browser is still filling in is not yet a lease.
Held ==
    CASE slot.state = "Preparing" -> IF Filling THEN "Free" ELSE "Queued"
      [] slot.state = "Running" /\ slot.discard -> "Cancelling"
      [] slot.state = "Taking" -> "Complete"
      [] OTHER -> slot.state

Lease == INSTANCE TransportLease WITH lease <- Held
ImplementsLease == Lease!Spec
=============================================================================
