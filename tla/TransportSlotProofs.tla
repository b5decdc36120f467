------------------------ MODULE TransportSlotProofs -------------------------
(***************************************************************************)
(* Proofs about one slot of the transport, for responses and chunks of any *)
(* size.                                                                   *)
(*                                                                         *)
(* The first part holds whatever the priorities are: each state of the     *)
(* slot has one owner, so a slot that is free has none.  The second part   *)
(* assumes that the browser never promotes itself (Presenting = FALSE).    *)
(* Then it runs only while the worker waits or is demoted, and what the    *)
(* worker read a step ago is still true.                                   *)
(***************************************************************************)
EXTENDS TransportSlot, TLAPS

SlotType ==
    [state : States, cancel : BOOLEAN, discard : BOOLEAN,
     streaming : BOOLEAN, buffer : BOOLEAN, chunk : Chunks,
     chunk_bytes : Nat, length : Nat, total : Nat, easy : BOOLEAN,
     message : {"None", "OK", "Failed"}, paused : BOOLEAN, held : BOOLEAN,
     done : BOOLEAN, outcome : Outcomes]

WorkerType == [at : Stages, next : Stages, again : BOOLEAN, saw : BOOLEAN,
               bytes : Nat, low : BOOLEAN]

BrowserType == [at : Calls, available : Nat, left : Nat, high : BOOLEAN]

ClientType == [owns : BOOLEAN, consumed : Nat]

\* The shapes of the variables, without the bounds of TypeOK: what a promoted
\* browser is handed twice is more than was received.
Shapes ==
    /\ slot \in SlotType
    /\ worker \in WorkerType
    /\ browser \in BrowserType
    /\ client \in ClientType

ChunkStages == {"Chunk, look", "Chunk, bytes", "Chunk, ready"}
\* Where the worker goes on after a chunk or a result is published.
Returns == {"Waiting", "Retire", "Resume", "Start", "Check", "Expire",
            "Perform"}
Publishing == worker.at \in {"Publish, load", "Publish, store"}

\* Who may use the slot in a state that is neither free nor queued.
OneOwner ==
    /\ worker.at \in ChunkStages \cup {"Start, configure"} =>
            slot.state = "Running"
    /\ Publishing => slot.state \in {"Running", "Preparing"}
    /\ Filling => slot.state = "Preparing" /\ ~Publishing
    /\ browser.at = "Result, free" => slot.state = "Taking"
    /\ worker.next \in Returns

\* The curl handle goes with the state in which libcurl works on the slot.
HandleWhileRunning ==
    /\ slot.easy => slot.state = "Running" /\ ~Publishing
                        /\ worker.at # "Start, configure"
    /\ slot.streaming /\ slot.done => ~slot.easy

OwnerInv == Shapes /\ OneOwner /\ HandleWhileRunning

-----------------------------------------------------------------------------
\* At the start nobody uses the slot.
LEMMA OwnerInit == Init => OwnerInv
BY DEF Init, OwnerInv, Shapes, OneOwner, HandleWhileRunning, SlotType,
       WorkerType, BrowserType, ClientType, EmptySlot, States, Chunks,
       Outcomes, Stages, Calls, ChunkStages, Publishing, Filling, Returns

\* The fields the worker assigns have values of their types.
LEMMA WorkerKeepsSlotShape ==
    ASSUME OwnerInv, WorkerStep PROVE (slot \in SlotType)'
<1>a. /\ slot.length + 1 \in Nat /\ slot.total + 1 \in Nat
      /\ slot.length \in Nat /\ worker.bytes \in Nat
      /\ worker.saw \in BOOLEAN
  BY DEF OwnerInv, Shapes, SlotType, WorkerType
<1> USE DEF OwnerInv, Shapes, SlotType, States, Chunks, Outcomes
<1>0. CASE UNCHANGED slot
  BY <1>0
<1>1. CASE Retire
  BY <1>1 DEF Retire
<1>2. CASE Unpause
  BY <1>2 DEF Unpause
<1>3. CASE UnpauseFails
  BY <1>3 DEF UnpauseFails
<1>4. CASE ClaimCancelled
  BY <1>4 DEF ClaimCancelled
<1>5. CASE Claim
  BY <1>a, <1>5 DEF Claim
<1>6. CASE Configure
  BY <1>6 DEF Configure, Configured
<1>7. CASE ConfigureFails
  BY <1>7 DEF ConfigureFails, Configured
<1>8. CASE ExpireDeadline
  BY <1>8 DEF ExpireDeadline
<1>9. CASE BodyHeld
  BY <1>9 DEF BodyHeld
<1>10. CASE Append
  BY <1>a, <1>10 DEF Append
<1>11. CASE TransferEnds
  BY <1>11 DEF TransferEnds
<1>12. CASE Finish
  BY <1>12 DEF Finish
<1>13. CASE PerformFails
  BY <1>13 DEF PerformFails
<1>14. CASE ChunkFound
  BY <1>14 DEF ChunkFound
<1>15. CASE ChunkBytes
  <2>1. PICK n \in {worker.bytes, slot.length} :
            slot' = [slot EXCEPT !.held = TRUE, !.chunk_bytes = n]
    BY <1>15 DEF ChunkBytes
  <2>2. n \in Nat
    BY <1>a
  <2> QED BY <2>1, <2>2
<1>16. CASE ChunkReady
  BY <1>16 DEF ChunkReady
<1>17. CASE PublishStore
  BY <1>17 DEF PublishStore
<1> HIDE DEF OwnerInv, Shapes, SlotType, States, Chunks, Outcomes
<1> QED BY <1>0, <1>1, <1>2, <1>3, <1>4, <1>5, <1>6, <1>7, <1>8, <1>9,
         <1>10, <1>11, <1>12, <1>13, <1>14, <1>15, <1>16, <1>17
         DEF WorkerStep, Wake, RetireCancelled, ResumeStream, CompleteStream,
         StartLook, NoBuffer, PassOn, StartClaimCancelled, StartClaim,
         StartConfigure, EnterPerform, ReceiveBody, AppendLast, LeavePerform,
         Collect, EndTurn, ChunkLook, PublishLoad

\* So have its own: after a publication it goes on at a stage it returns to.
LEMMA WorkerKeepsWorkerShape ==
    ASSUME OwnerInv, WorkerStep PROVE (worker \in WorkerType)'
<1>a. slot.length + 1 \in Nat /\ slot.length \in Nat
  BY DEF OwnerInv, Shapes, SlotType
<1> USE DEF OwnerInv, Shapes, SlotType, WorkerType, Stages, OneOwner, Returns
<1>1. CASE Wake BY <1>1 DEF Wake, Stage
<1>2. CASE Retire BY <1>2 DEF Retire, Retires, Stage, Publish
<1>3. CASE ~Retires /\ PassOn("Retire", "Resume")
  BY <1>3 DEF PassOn, Stage, GoOn, Retires
<1>4. CASE CompleteStream BY <1>4 DEF CompleteStream, Drained, Stage, Publish
<1>5. CASE Unpause BY <1>5 DEF Unpause, Drained, Stage, GoOn
<1>6. CASE UnpauseFails BY <1>6 DEF UnpauseFails, Drained, Stage, Publish
<1>7. CASE ~Drained /\ PassOn("Resume", "Start")
  BY <1>7 DEF PassOn, Stage, GoOn, Drained
<1>8. CASE StartLook BY <1>8 DEF StartLook, Stage
<1>9. CASE NoBuffer BY <1>9 DEF NoBuffer, PassOn, Stage, GoOn, AfterStart
<1>10. CASE ClaimCancelled
  BY <1>10 DEF ClaimCancelled, Stage, Publish, AfterStart
<1>11. CASE PassOn("Start, claim cancelled", AfterStart)
  BY <1>11 DEF PassOn, Stage, GoOn, AfterStart
<1>12. CASE Claim BY <1>12 DEF Claim, Stage, GoOn
<1>13. CASE PassOn("Start, claim", AfterStart)
  BY <1>13 DEF PassOn, Stage, GoOn, AfterStart
<1>14. CASE Configure
  BY <1>14 DEF Configure, Configured, Stage, GoOn, AfterStart
<1>15. CASE ConfigureFails
  BY <1>15 DEF ConfigureFails, Configured, Stage, Publish, AfterStart
<1>16. CASE ExpireDeadline BY <1>16 DEF ExpireDeadline, Stage, Deliver
<1>17. CASE EnterPerform BY <1>17 DEF EnterPerform, Stage
<1>18. CASE BodyHeld BY <1>18 DEF BodyHeld, InTransfer, Stage
<1>19. CASE AppendLast
  BY <1>a, <1>19 DEF AppendLast, Append, ChunkIsFull, InTransfer, Stage
<1>20. CASE Append /\ ~ChunkIsFull /\ UNCHANGED worker
  BY <1>20 DEF Append, ChunkIsFull, InTransfer, Stage
<1>21. CASE TransferEnds BY <1>21 DEF TransferEnds, InTransfer, Stage
<1>22. CASE LeavePerform BY <1>22 DEF LeavePerform, Stage
<1>23. CASE Finish BY <1>23 DEF Finish, Again, Deliver, Stage
<1>24. CASE Collect /\ ~Finish BY <1>24 DEF Collect, Again, Stage
<1>25. CASE PerformFails BY <1>25 DEF PerformFails, Publish, Stage
<1>26. CASE PassOn("Check", "Waiting") BY <1>26 DEF PassOn, Stage, GoOn
<1>27. CASE ChunkFound BY <1>27 DEF ChunkFound, Stage
<1>28. CASE slot.length = 0 /\ PassOn("Chunk, look", worker.next)
  BY <1>28 DEF PassOn, Stage, GoOn
<1>29. CASE ChunkBytes BY <1>29 DEF ChunkBytes, Stage
<1>30. CASE ChunkReady BY <1>30 DEF ChunkReady, Stage, GoOn
<1>31. CASE PublishLoad BY <1>31 DEF PublishLoad, Stage
<1>32. CASE PublishStore BY <1>32 DEF PublishStore, Stage, GoOn
<1> QED BY <1>1, <1>2, <1>3, <1>4, <1>5, <1>6, <1>7, <1>8, <1>9, <1>10, <1>11,
         <1>12, <1>13, <1>14, <1>15, <1>16, <1>17, <1>18, <1>19, <1>20, <1>21,
         <1>22, <1>23, <1>24, <1>25, <1>26, <1>27, <1>28, <1>29, <1>30, <1>31,
         <1>32 DEF WorkerStep, RetireCancelled, ResumeStream,
         StartClaimCancelled, StartClaim, StartConfigure, ReceiveBody, Collect,
         EndTurn, ChunkLook

\* The browser's steps keep the types; what is left of a chunk is a number.
LEMMA BrowserKeepsShapes ==
    ASSUME OwnerInv, BrowserStep PROVE Shapes'
<1>0. \A taken \in 1 .. browser.available :
            browser.available - taken \in Nat
  BY DEF OwnerInv, Shapes, BrowserType
<1>1. (slot \in SlotType)'
  <2> USE DEF OwnerInv, Shapes, SlotType, States, Chunks, Outcomes
  <2>0. CASE UNCHANGED slot
    BY <2>0
  <2>1. CASE Enqueue
    BY <2>1 DEF Enqueue
  <2>2. CASE EnqueueFill
    <3>1. EmptySlot \in SlotType
      BY DEF EmptySlot
    <3>2. PICK streaming \in BOOLEAN :
              slot' = [EmptySlot EXCEPT !.state = "Preparing",
                                        !.streaming = streaming]
      BY <2>2 DEF EnqueueFill
    <3> QED BY <3>1, <3>2
  <2>3. CASE EnqueueQueue
    BY <2>3 DEF EnqueueQueue
  <2>4. CASE slot' = [slot EXCEPT !.chunk = "Taking"]
    BY <2>4
  <2>5. CASE ChunkCopy
    <3>1. PICK taken \in 1 .. browser.available :
              slot' = [slot EXCEPT !.length = browser.available - taken]
      BY <2>5 DEF ChunkCopy
    <3>2. browser.available - taken \in Nat
      BY <1>0
    <3> QED BY <3>1, <3>2
  <2>6. CASE ChunkLeft
    <3>1. browser.left \in Nat
      BY DEF BrowserType
    <3> QED BY <2>6, <3>1 DEF ChunkLeft
  <2>7. CASE ChunkStore
    BY <2>7 DEF ChunkStore
  <2>8. CASE TakeResult
    BY <2>8 DEF TakeResult
  <2>9. CASE slot' = [slot EXCEPT !.state = "Free"]
    BY <2>9
  <2>10. CASE Cancel
    BY <2>10 DEF Cancel
  <2>11. CASE CancelFlag
    BY <2>11 DEF CancelFlag
  <2>12. CASE CancelClear
    BY <2>12 DEF CancelClear
  <2>13. CASE CancelComplete
    BY <2>13 DEF CancelComplete
  <2> HIDE DEF OwnerInv, Shapes, SlotType, States, Chunks, Outcomes
  <2> QED BY <2>0, <2>1, <2>2, <2>3, <2>4, <2>5, <2>6, <2>7, <2>8, <2>9,
             <2>10, <2>11, <2>12, <2>13
             DEF BrowserStep, BrowserInCall, Present, TakeChunk, ChunkClaim,
                 ClaimReady, ResultFree, CancelChunk, CancelReady,
                 CancelQueued, FreeQueued, Return
<1>2. worker' = worker
  BY DEF BrowserStep, BrowserInCall, Present, Enqueue, EnqueueFill,
         EnqueueQueue, TakeChunk, ChunkClaim, ClaimReady, CancelReady,
         FreeQueued, ChunkCopy, ChunkLeft,
         ChunkStore, TakeResult, ResultFree, Cancel, CancelFlag, CancelChunk,
         CancelClear, CancelQueued, CancelComplete, Return, Call
<1>3. (browser \in BrowserType)'
  <2> USE DEF OwnerInv, Shapes, BrowserType, Calls
  <2>1. CASE Present
    BY <2>1 DEF Present
  <2>2. CASE \E c \in Calls : Go(c)
    BY <2>2 DEF Go
  <2>3. CASE TakeChunk
    BY <2>3 DEF TakeChunk, SlotType
  <2>4. CASE ChunkCopy
    <3>1. PICK taken \in 1 .. browser.available :
              browser' = [browser EXCEPT !.at = "Chunk, bytes",
                                         !.left = browser.available - taken]
      BY <2>4 DEF ChunkCopy
    <3>2. browser.available - taken \in Nat
      BY <1>0
    <3> QED BY <3>1, <3>2
  <2>5. CASE ChunkStore
    BY <2>5 DEF ChunkStore
  <2> HIDE DEF OwnerInv, Shapes, BrowserType
  <2> QED BY <2>1, <2>2, <2>3, <2>4, <2>5
          DEF BrowserStep, BrowserInCall, Enqueue, EnqueueFill, EnqueueQueue,
              ChunkClaim, ClaimReady, ChunkLeft, TakeResult, ResultFree,
              Cancel, CancelFlag, CancelChunk, CancelReady, CancelClear,
              CancelQueued, FreeQueued, CancelComplete, Return
<1>4. (client \in ClientType)'
  <2> USE DEF OwnerInv, Shapes, ClientType
  <2>0. CASE UNCHANGED client
    BY <2>0
  <2>1. CASE client' = [client EXCEPT !.owns = FALSE]
    BY <2>1
  <2>2. CASE EnqueueQueue
    BY <2>2 DEF EnqueueQueue
  <2>3. CASE ChunkCopy
    <3>1. PICK taken \in 1 .. browser.available :
              client' = [client EXCEPT !.consumed = @ + taken]
      BY <2>3 DEF ChunkCopy
    <3>2. client.consumed + taken \in Nat
      BY DEF BrowserType
    <3> QED BY <3>1, <3>2
  <2> HIDE DEF OwnerInv, Shapes, ClientType
  <2> QED BY <2>0, <2>1, <2>2, <2>3
          DEF BrowserStep, BrowserInCall, Present, Enqueue, EnqueueFill,
              TakeChunk, ChunkClaim, ClaimReady, ChunkLeft, ChunkStore,
              TakeResult, ResultFree, Cancel, CancelFlag, CancelChunk,
              CancelReady, CancelClear, CancelQueued, FreeQueued,
              CancelComplete, Return
<1> QED BY <1>1, <1>2, <1>3, <1>4 DEF OwnerInv, Shapes

\* The worker leaves a running slot only by publishing it.
LEMMA WorkerKeepsOwner ==
    ASSUME OwnerInv, WorkerStep PROVE OneOwner'
<1> USE DEF OwnerInv, Shapes, SlotType, WorkerType, BrowserType, OneOwner,
            HandleWhileRunning, ChunkStages, Publishing, Returns, Filling
<1>1. CASE Wake BY <1>1 DEF Wake, Stage
<1>2. CASE Retire BY <1>2 DEF Retire, Retires, Stage, Publish
<1>3. CASE ~Retires /\ PassOn("Retire", "Resume")
  BY <1>3 DEF PassOn, Stage, GoOn, Retires
<1>4. CASE CompleteStream BY <1>4 DEF CompleteStream, Drained, Stage, Publish
<1>5. CASE Unpause BY <1>5 DEF Unpause, Drained, Stage, GoOn
<1>6. CASE UnpauseFails BY <1>6 DEF UnpauseFails, Drained, Stage, Publish
<1>7. CASE ~Drained /\ PassOn("Resume", "Start")
  BY <1>7 DEF PassOn, Stage, GoOn, Drained
<1>8. CASE StartLook BY <1>8 DEF StartLook, Stage
<1>9. CASE NoBuffer BY <1>9 DEF NoBuffer, PassOn, Stage, GoOn, AfterStart
<1>10. CASE ClaimCancelled
  BY <1>10 DEF ClaimCancelled, Stage, Publish, AfterStart
<1>11. CASE PassOn("Start, claim cancelled", AfterStart)
  BY <1>11 DEF PassOn, Stage, GoOn, AfterStart
<1>12. CASE Claim BY <1>12 DEF Claim, Stage, GoOn
<1>13. CASE PassOn("Start, claim", AfterStart)
  BY <1>13 DEF PassOn, Stage, GoOn, AfterStart
<1>14. CASE Configure
  BY <1>14 DEF Configure, Configured, Stage, GoOn, AfterStart
<1>15. CASE ConfigureFails
  BY <1>15 DEF ConfigureFails, Configured, Stage, Publish, AfterStart
<1>16. CASE ExpireDeadline BY <1>16 DEF ExpireDeadline, Stage, Deliver
<1>17. CASE EnterPerform BY <1>17 DEF EnterPerform, Stage
<1>18. CASE BodyHeld BY <1>18 DEF BodyHeld, InTransfer, Stage
<1>19. CASE AppendLast
  BY <1>19 DEF AppendLast, Append, ChunkIsFull, InTransfer, Stage
<1>20. CASE Append /\ ~ChunkIsFull /\ UNCHANGED worker
  BY <1>20 DEF Append, ChunkIsFull, InTransfer, Stage
<1>21. CASE TransferEnds BY <1>21 DEF TransferEnds, InTransfer, Stage
<1>22. CASE LeavePerform BY <1>22 DEF LeavePerform, Stage
<1>23. CASE Finish BY <1>23 DEF Finish, Again, Deliver, Stage
<1>24. CASE Collect /\ ~Finish BY <1>24 DEF Collect, Again, Stage
<1>25. CASE PerformFails BY <1>25 DEF PerformFails, Publish, Stage
<1>26. CASE PassOn("Check", "Waiting") BY <1>26 DEF PassOn, Stage, GoOn
<1>27. CASE ChunkFound BY <1>27 DEF ChunkFound, Stage
<1>28. CASE slot.length = 0 /\ PassOn("Chunk, look", worker.next)
  BY <1>28 DEF PassOn, Stage, GoOn
<1>29. CASE ChunkBytes BY <1>29 DEF ChunkBytes, Stage
<1>30. CASE ChunkReady BY <1>30 DEF ChunkReady, Stage, GoOn
<1>31. CASE PublishLoad BY <1>31 DEF PublishLoad, Stage
<1>32. CASE PublishStore BY <1>32 DEF PublishStore, Stage, GoOn
<1> QED BY <1>1, <1>2, <1>3, <1>4, <1>5, <1>6, <1>7, <1>8, <1>9, <1>10, <1>11,
         <1>12, <1>13, <1>14, <1>15, <1>16, <1>17, <1>18, <1>19, <1>20, <1>21,
         <1>22, <1>23, <1>24, <1>25, <1>26, <1>27, <1>28, <1>29, <1>30, <1>31,
         <1>32 DEF WorkerStep, RetireCancelled, ResumeStream,
         StartClaimCancelled, StartClaim, StartConfigure, ReceiveBody, Collect,
         EndTurn, ChunkLook

\* The browser claims a free slot to fill it and a complete one to free it.
LEMMA BrowserKeepsOwner ==
    ASSUME OwnerInv, BrowserStep PROVE OneOwner'
<1> USE DEF OwnerInv, Shapes, SlotType, WorkerType, BrowserType, OneOwner,
            HandleWhileRunning, ChunkStages, Publishing, Returns, Filling
<1>1. CASE Present BY <1>1 DEF Present, Call
<1>2. CASE Enqueue BY <1>2 DEF Enqueue, Call, Go
<1>3. CASE EnqueueFill BY <1>3 DEF EnqueueFill, EmptySlot, Call, Go
<1>4. CASE EnqueueQueue BY <1>4 DEF EnqueueQueue, Call, Go
<1>5. CASE TakeChunk BY <1>5 DEF TakeChunk, Call
<1>6. CASE ClaimReady BY <1>6 DEF ClaimReady, Call, Go
<1>7. CASE slot.chunk # "Ready" /\ Return("Chunk, claim", "Idle")
  BY <1>7 DEF Return, Call, Go
<1>8. CASE ChunkCopy BY <1>8 DEF ChunkCopy, Call
<1>9. CASE ChunkLeft BY <1>9 DEF ChunkLeft, Call, Go
<1>10. CASE ChunkStore BY <1>10 DEF ChunkStore, Call
<1>11. CASE TakeResult BY <1>11 DEF TakeResult, Call, Go
<1>12. CASE ResultFree BY <1>12 DEF ResultFree, Call, Go
<1>13. CASE Cancel BY <1>13 DEF Cancel, Call, Go
<1>14. CASE CancelFlag BY <1>14 DEF CancelFlag, Call, Go
<1>15. CASE CancelReady BY <1>15 DEF CancelReady, ClaimsChunk, Call, Go
<1>16. CASE ~ClaimsChunk /\ Return("Cancel, chunk", "Cancel, queued")
  BY <1>16 DEF Return, Call, Go
<1>17. CASE CancelClear BY <1>17 DEF CancelClear, Call, Go
<1>18. CASE FreeQueued BY <1>18 DEF FreeQueued, Call, Go
<1>19. CASE slot.state # "Queued"
              /\ Return("Cancel, queued", "Cancel, complete")
  BY <1>19 DEF Return, Call, Go
<1>20. CASE CancelComplete BY <1>20 DEF CancelComplete, Call, Go
<1> QED BY <1>1, <1>2, <1>3, <1>4, <1>5, <1>6, <1>7, <1>8, <1>9, <1>10, <1>11,
         <1>12, <1>13, <1>14, <1>15, <1>16, <1>17, <1>18, <1>19, <1>20 DEF
         BrowserStep, BrowserInCall, ChunkClaim, CancelChunk, CancelQueued

\* The worker gives up its handle before it publishes.
LEMMA WorkerKeepsHandle ==
    ASSUME OwnerInv, WorkerStep PROVE HandleWhileRunning'
<1> USE DEF OwnerInv, Shapes, SlotType, WorkerType, BrowserType, OneOwner,
            HandleWhileRunning, ChunkStages, Publishing, Returns, Filling
<1>1. CASE Wake BY <1>1 DEF Wake, Stage
<1>2. CASE Retire BY <1>2 DEF Retire, Retires, Stage, Publish
<1>3. CASE ~Retires /\ PassOn("Retire", "Resume")
  BY <1>3 DEF PassOn, Stage, GoOn, Retires
<1>4. CASE CompleteStream BY <1>4 DEF CompleteStream, Drained, Stage, Publish
<1>5. CASE Unpause BY <1>5 DEF Unpause, Drained, Stage, GoOn
<1>6. CASE UnpauseFails BY <1>6 DEF UnpauseFails, Drained, Stage, Publish
<1>7. CASE ~Drained /\ PassOn("Resume", "Start")
  BY <1>7 DEF PassOn, Stage, GoOn, Drained
<1>8. CASE StartLook BY <1>8 DEF StartLook, Stage
<1>9. CASE NoBuffer BY <1>9 DEF NoBuffer, PassOn, Stage, GoOn, AfterStart
<1>10. CASE ClaimCancelled
  BY <1>10 DEF ClaimCancelled, Stage, Publish, AfterStart
<1>11. CASE PassOn("Start, claim cancelled", AfterStart)
  BY <1>11 DEF PassOn, Stage, GoOn, AfterStart
<1>12. CASE Claim BY <1>12 DEF Claim, Stage, GoOn
<1>13. CASE PassOn("Start, claim", AfterStart)
  BY <1>13 DEF PassOn, Stage, GoOn, AfterStart
<1>14. CASE Configure
  BY <1>14 DEF Configure, Configured, Stage, GoOn, AfterStart
<1>15. CASE ConfigureFails
  BY <1>15 DEF ConfigureFails, Configured, Stage, Publish, AfterStart
<1>16. CASE ExpireDeadline BY <1>16 DEF ExpireDeadline, Stage, Deliver
<1>17. CASE EnterPerform BY <1>17 DEF EnterPerform, Stage
<1>18. CASE BodyHeld BY <1>18 DEF BodyHeld, InTransfer, Stage
<1>19. CASE AppendLast
  BY <1>19 DEF AppendLast, Append, ChunkIsFull, InTransfer, Stage
<1>20. CASE Append /\ ~ChunkIsFull /\ UNCHANGED worker
  BY <1>20 DEF Append, ChunkIsFull, InTransfer, Stage
<1>21. CASE TransferEnds BY <1>21 DEF TransferEnds, InTransfer, Stage
<1>22. CASE LeavePerform BY <1>22 DEF LeavePerform, Stage
<1>23. CASE Finish BY <1>23 DEF Finish, Again, Deliver, Stage
<1>24. CASE Collect /\ ~Finish BY <1>24 DEF Collect, Again, Stage
<1>25. CASE PerformFails BY <1>25 DEF PerformFails, Publish, Stage
<1>26. CASE PassOn("Check", "Waiting") BY <1>26 DEF PassOn, Stage, GoOn
<1>27. CASE ChunkFound BY <1>27 DEF ChunkFound, Stage
<1>28. CASE slot.length = 0 /\ PassOn("Chunk, look", worker.next)
  BY <1>28 DEF PassOn, Stage, GoOn
<1>29. CASE ChunkBytes BY <1>29 DEF ChunkBytes, Stage
<1>30. CASE ChunkReady BY <1>30 DEF ChunkReady, Stage, GoOn
<1>31. CASE PublishLoad BY <1>31 DEF PublishLoad, Stage
<1>32. CASE PublishStore BY <1>32 DEF PublishStore, Stage, GoOn
<1> QED BY <1>1, <1>2, <1>3, <1>4, <1>5, <1>6, <1>7, <1>8, <1>9, <1>10, <1>11,
         <1>12, <1>13, <1>14, <1>15, <1>16, <1>17, <1>18, <1>19, <1>20, <1>21,
         <1>22, <1>23, <1>24, <1>25, <1>26, <1>27, <1>28, <1>29, <1>30, <1>31,
         <1>32 DEF WorkerStep, RetireCancelled, ResumeStream,
         StartClaimCancelled, StartClaim, StartConfigure, ReceiveBody, Collect,
         EndTurn, ChunkLook

\* The browser does not touch the state of a slot that has a handle.
LEMMA BrowserKeepsHandle ==
    ASSUME OwnerInv, BrowserStep PROVE HandleWhileRunning'
<1> USE DEF OwnerInv, Shapes, SlotType, WorkerType, BrowserType, OneOwner,
            HandleWhileRunning, ChunkStages, Publishing, Returns, Filling
<1>1. CASE Present BY <1>1 DEF Present, Call
<1>2. CASE Enqueue BY <1>2 DEF Enqueue, Call, Go
<1>3. CASE EnqueueFill BY <1>3 DEF EnqueueFill, EmptySlot, Call, Go
<1>4. CASE EnqueueQueue BY <1>4 DEF EnqueueQueue, Call, Go
<1>5. CASE TakeChunk BY <1>5 DEF TakeChunk, Call
<1>6. CASE ClaimReady BY <1>6 DEF ClaimReady, Call, Go
<1>7. CASE slot.chunk # "Ready" /\ Return("Chunk, claim", "Idle")
  BY <1>7 DEF Return, Call, Go
<1>8. CASE ChunkCopy BY <1>8 DEF ChunkCopy, Call
<1>9. CASE ChunkLeft BY <1>9 DEF ChunkLeft, Call, Go
<1>10. CASE ChunkStore BY <1>10 DEF ChunkStore, Call
<1>11. CASE TakeResult BY <1>11 DEF TakeResult, Call, Go
<1>12. CASE ResultFree BY <1>12 DEF ResultFree, Call, Go
<1>13. CASE Cancel BY <1>13 DEF Cancel, Call, Go
<1>14. CASE CancelFlag BY <1>14 DEF CancelFlag, Call, Go
<1>15. CASE CancelReady BY <1>15 DEF CancelReady, ClaimsChunk, Call, Go
<1>16. CASE ~ClaimsChunk /\ Return("Cancel, chunk", "Cancel, queued")
  BY <1>16 DEF Return, Call, Go
<1>17. CASE CancelClear BY <1>17 DEF CancelClear, Call, Go
<1>18. CASE FreeQueued BY <1>18 DEF FreeQueued, Call, Go
<1>19. CASE slot.state # "Queued"
              /\ Return("Cancel, queued", "Cancel, complete")
  BY <1>19 DEF Return, Call, Go
<1>20. CASE CancelComplete BY <1>20 DEF CancelComplete, Call, Go
<1> QED BY <1>1, <1>2, <1>3, <1>4, <1>5, <1>6, <1>7, <1>8, <1>9, <1>10, <1>11,
         <1>12, <1>13, <1>14, <1>15, <1>16, <1>17, <1>18, <1>19, <1>20 DEF
         BrowserStep, BrowserInCall, ChunkClaim, CancelChunk, CancelQueued

\* Ownership is inductive.
LEMMA OwnerInvNext == ASSUME OwnerInv, [Next]_vars PROVE OwnerInv'
<1>1. CASE WorkerStep
  <2>1. (slot \in SlotType)' /\ (worker \in WorkerType)'
    BY <1>1, WorkerKeepsSlotShape, WorkerKeepsWorkerShape
  <2>2. UNCHANGED <<browser, client>>
    BY <1>1 DEF WorkerStep, Wake, RetireCancelled, Retire, ResumeStream,
         CompleteStream, Unpause, UnpauseFails, StartLook, NoBuffer,
         StartClaimCancelled, ClaimCancelled, StartClaim, Claim,
         StartConfigure, Configure, ConfigureFails, ExpireDeadline,
         EnterPerform, ReceiveBody, BodyHeld, Append, AppendLast,
         TransferEnds, InTransfer, LeavePerform, Collect, Finish, EndTurn,
         PerformFails, ChunkLook, ChunkFound, ChunkBytes, ChunkReady,
         PublishLoad, PublishStore, PassOn, Stage
  <2>3. Shapes'
    BY <2>1, <2>2 DEF OwnerInv, Shapes
  <2> QED BY <1>1, <2>3, WorkerKeepsOwner, WorkerKeepsHandle DEF OwnerInv
<1>2. CASE BrowserStep
  BY <1>2, BrowserKeepsShapes, BrowserKeepsOwner, BrowserKeepsHandle
     DEF OwnerInv
<1>3. CASE UNCHANGED vars
  BY <1>3 DEF vars, OwnerInv, Shapes, OneOwner, HandleWhileRunning,
              Publishing, Filling
<1> QED BY <1>1, <1>2, <1>3 DEF Next

\* Every state of the slot has one owner, whatever the two priorities are.
THEOREM OwnerInvHolds == Spec => []OwnerInv
BY OwnerInit, OwnerInvNext, PTL DEF Spec

\* What network teardown infers from all_free holds for every size of the
\* body and of the chunks, whatever the priorities of the two threads are.
THEOREM FreeSlotsAreIdle == Spec => []FreeIsIdle
<1>1. OwnerInv => FreeIsIdle
  BY DEF OwnerInv, OneOwner, HandleWhileRunning, FreeIsIdle, Publishing,
         ChunkStages
<1> QED BY <1>1, OwnerInvHolds, PTL

-----------------------------------------------------------------------------
(***************************************************************************)
(* The second part: the browser never promotes itself.                     *)
(***************************************************************************)
\* A demoted worker is inside curl_multi_perform, or in the body callback.
Scheduled ==
    /\ ~browser.high
    /\ worker.low =>
        /\ worker.at \in {"Perform", "Chunk, bytes", "Chunk, ready"}
        /\ worker.at # "Perform" => worker.next = "Perform"

\* A request is aborted only after its owner gave it up, and what the worker
\* read of the two flags is true when it acts on it.
Flags ==
    /\ slot.cancel => slot.discard
    /\ slot.outcome = "Aborted" => slot.discard
    /\ client.owns => ~slot.discard /\ ~Filling /\ ~Cancelling
    /\ browser.at = "Cancel, flag" => slot.discard
    /\ browser.at = "Enqueue, queue" => ~slot.discard
    /\ worker.at = "Start, claim cancelled" => slot.cancel
    /\ worker.at = "Publish, store" => worker.saw = slot.discard
    /\ slot.state = "Preparing" /\ Publishing => slot.discard

Taken == {"Chunk, claim", "Chunk, length", "Chunk, bytes", "Chunk, store"}

\* Nothing has been received yet.
Fresh == \/ slot.state = "Queued" \/ browser.at = "Enqueue, queue"
         \/ worker.at = "Start, configure"

\* What was received is in the buffer or with the owner.
Whole == slot.streaming /\ client.owns =>
             client.consumed + slot.length = slot.total

\* A published chunk is the whole buffer.
Contents ==
    /\ Fresh => /\ slot.total = 0 /\ slot.length = 0
                /\ slot.chunk_bytes = 0 /\ slot.chunk = "Empty"
    /\ slot.chunk # "Empty" \/ worker.at \in ChunkStages => slot.streaming
    /\ slot.chunk # "Empty" /\ browser.at # "Chunk, bytes" =>
            slot.chunk_bytes = slot.length
    /\ slot.chunk_bytes # 0 =>
            slot.chunk # "Empty" \/ worker.at = "Chunk, ready"
    /\ worker.at = "Chunk, bytes" => worker.bytes = slot.length
    /\ worker.at = "Chunk, ready" => slot.chunk_bytes = slot.length
    /\ worker.low /\ worker.at \in ChunkStages =>
            slot.chunk = "Empty" /\ browser.at # "Cancel, clear"

\* What a take call holds in its locals while it copies.
Locals ==
    /\ browser.at \in Taken => client.owns /\ slot.streaming
    /\ browser.at = "Chunk, claim" =>
            /\ browser.available = slot.length
            /\ slot.chunk # "Empty" \/ worker.at = "Chunk, ready"
    /\ browser.at = "Chunk, length" =>
            browser.available = slot.length /\ slot.chunk # "Empty"
    /\ browser.at \in {"Chunk, bytes", "Chunk, store"} =>
            browser.left = slot.length /\ slot.chunk # "Empty"

\* A stream that ended well is published after its last chunk was taken.
Ends ==
    slot.streaming /\ slot.outcome = "OK" =>
        /\ slot.done /\ slot.chunk = "Empty" /\ worker.at \notin ChunkStages
                => slot.length = 0
        /\ Publishing \/ slot.state = "Complete" => slot.length = 0

ScheduleInv == /\ OwnerInv /\ Scheduled /\ Flags /\ NoOrphan
               /\ Whole /\ Contents /\ Locals /\ Ends

\* A unit received goes to the buffer.
LEMMA Received ==
    ASSUME NEW consumed \in Nat, NEW length \in Nat, NEW total \in Nat,
           consumed + length = total
    PROVE  consumed + (length + 1) = total + 1
OBVIOUS

\* What is handed out leaves the buffer.
LEMMA Handed ==
    ASSUME NEW consumed \in Nat, NEW length \in Nat, NEW taken \in 1 .. length
    PROVE  /\ (consumed + taken) + (length - taken) = consumed + length
           /\ length - taken \in Nat /\ length # 0
OBVIOUS

\* The worker is demoted only from EnterPerform to LeavePerform.
LEMMA WorkerKeepsSchedule ==
    ASSUME Presenting = FALSE, ScheduleInv, WorkerStep
    PROVE  Scheduled'
<1> USE DEF OwnerInv, Shapes, SlotType, WorkerType, BrowserType, ClientType,
            ScheduleInv, Scheduled, WorkerRuns
<1>1. CASE Wake BY <1>1 DEF Wake, Stage
<1>2. CASE Retire BY <1>2 DEF Retire, Retires, Stage, Publish
<1>3. CASE ~Retires /\ PassOn("Retire", "Resume")
  BY <1>3 DEF PassOn, Stage, GoOn, Retires
<1>4. CASE CompleteStream BY <1>4 DEF CompleteStream, Drained, Stage, Publish
<1>5. CASE Unpause BY <1>5 DEF Unpause, Drained, Stage, GoOn
<1>6. CASE UnpauseFails BY <1>6 DEF UnpauseFails, Drained, Stage, Publish
<1>7. CASE ~Drained /\ PassOn("Resume", "Start")
  BY <1>7 DEF PassOn, Stage, GoOn, Drained
<1>8. CASE StartLook BY <1>8 DEF StartLook, Stage
<1>9. CASE NoBuffer BY <1>9 DEF NoBuffer, PassOn, Stage, GoOn, AfterStart
<1>10. CASE ClaimCancelled
  BY <1>10 DEF ClaimCancelled, Stage, Publish, AfterStart
<1>11. CASE PassOn("Start, claim cancelled", AfterStart)
  BY <1>11 DEF PassOn, Stage, GoOn, AfterStart
<1>12. CASE Claim BY <1>12 DEF Claim, Stage, GoOn
<1>13. CASE PassOn("Start, claim", AfterStart)
  BY <1>13 DEF PassOn, Stage, GoOn, AfterStart
<1>14. CASE Configure
  BY <1>14 DEF Configure, Configured, Stage, GoOn, AfterStart
<1>15. CASE ConfigureFails
  BY <1>15 DEF ConfigureFails, Configured, Stage, Publish, AfterStart
<1>16. CASE ExpireDeadline BY <1>16 DEF ExpireDeadline, Stage, Deliver
<1>17. CASE EnterPerform BY <1>17 DEF EnterPerform, Stage
<1>18. CASE BodyHeld BY <1>18 DEF BodyHeld, InTransfer, Stage
<1>19. CASE AppendLast
  BY <1>19 DEF AppendLast, Append, ChunkIsFull, InTransfer, Stage
<1>20. CASE Append /\ ~ChunkIsFull /\ UNCHANGED worker
  BY <1>20 DEF Append, ChunkIsFull, InTransfer, Stage
<1>21. CASE TransferEnds BY <1>21 DEF TransferEnds, InTransfer, Stage
<1>22. CASE LeavePerform BY <1>22 DEF LeavePerform, Stage
<1>23. CASE Finish BY <1>23 DEF Finish, Again, Deliver, Stage
<1>24. CASE Collect /\ ~Finish BY <1>24 DEF Collect, Again, Stage
<1>25. CASE PerformFails BY <1>25 DEF PerformFails, Publish, Stage
<1>26. CASE PassOn("Check", "Waiting") BY <1>26 DEF PassOn, Stage, GoOn
<1>27. CASE ChunkFound BY <1>27 DEF ChunkFound, Stage
<1>28. CASE slot.length = 0 /\ PassOn("Chunk, look", worker.next)
  BY <1>28 DEF PassOn, Stage, GoOn
<1>29. CASE ChunkBytes BY <1>29 DEF ChunkBytes, Stage
<1>30. CASE ChunkReady BY <1>30 DEF ChunkReady, Stage, GoOn
<1>31. CASE PublishLoad BY <1>31 DEF PublishLoad, Stage
<1>32. CASE PublishStore BY <1>32 DEF PublishStore, Stage, GoOn
<1> QED BY <1>1, <1>2, <1>3, <1>4, <1>5, <1>6, <1>7, <1>8, <1>9, <1>10, <1>11,
         <1>12, <1>13, <1>14, <1>15, <1>16, <1>17, <1>18, <1>19, <1>20, <1>21,
         <1>22, <1>23, <1>24, <1>25, <1>26, <1>27, <1>28, <1>29, <1>30, <1>31,
         <1>32 DEF WorkerStep, RetireCancelled, ResumeStream,
         StartClaimCancelled, StartClaim, StartConfigure, ReceiveBody, Collect,
         EndTurn, ChunkLook

\* The browser does not promote itself.
LEMMA BrowserKeepsSchedule ==
    ASSUME Presenting = FALSE, ScheduleInv, BrowserStep
    PROVE  Scheduled'
<1> USE DEF OwnerInv, Shapes, SlotType, WorkerType, BrowserType, ClientType,
            ScheduleInv, Scheduled, BrowserRuns
<1>1. CASE Present BY <1>1 DEF Present, Call
<1>2. CASE Enqueue BY <1>2 DEF Enqueue, Call, Go
<1>3. CASE EnqueueFill BY <1>3 DEF EnqueueFill, EmptySlot, Call, Go
<1>4. CASE EnqueueQueue BY <1>4 DEF EnqueueQueue, Call, Go
<1>5. CASE TakeChunk BY <1>5 DEF TakeChunk, Call
<1>6. CASE ClaimReady BY <1>6 DEF ClaimReady, Call, Go
<1>7. CASE slot.chunk # "Ready" /\ Return("Chunk, claim", "Idle")
  BY <1>7 DEF Return, Call, Go
<1>8. CASE ChunkCopy BY <1>8 DEF ChunkCopy, Call
<1>9. CASE ChunkLeft BY <1>9 DEF ChunkLeft, Call, Go
<1>10. CASE ChunkStore BY <1>10 DEF ChunkStore, Call
<1>11. CASE TakeResult BY <1>11 DEF TakeResult, Call, Go
<1>12. CASE ResultFree BY <1>12 DEF ResultFree, Call, Go
<1>13. CASE Cancel BY <1>13 DEF Cancel, Call, Go
<1>14. CASE CancelFlag BY <1>14 DEF CancelFlag, Call, Go
<1>15. CASE CancelReady BY <1>15 DEF CancelReady, ClaimsChunk, Call, Go
<1>16. CASE ~ClaimsChunk /\ Return("Cancel, chunk", "Cancel, queued")
  BY <1>16 DEF Return, Call, Go
<1>17. CASE CancelClear BY <1>17 DEF CancelClear, Call, Go
<1>18. CASE FreeQueued BY <1>18 DEF FreeQueued, Call, Go
<1>19. CASE slot.state # "Queued"
              /\ Return("Cancel, queued", "Cancel, complete")
  BY <1>19 DEF Return, Call, Go
<1>20. CASE CancelComplete BY <1>20 DEF CancelComplete, Call, Go
<1> QED BY <1>1, <1>2, <1>3, <1>4, <1>5, <1>6, <1>7, <1>8, <1>9, <1>10, <1>11,
         <1>12, <1>13, <1>14, <1>15, <1>16, <1>17, <1>18, <1>19, <1>20 DEF
         BrowserStep, BrowserInCall, ChunkClaim, CancelChunk, CancelQueued

\* The worker publishes what it has just seen of the discard flag.
LEMMA WorkerKeepsFlags ==
    ASSUME Presenting = FALSE, ScheduleInv, WorkerStep
    PROVE  (Flags /\ NoOrphan)'
<1> USE DEF OwnerInv, Shapes, SlotType, WorkerType, BrowserType, ClientType,
            ScheduleInv, Scheduled, OneOwner, Publishing, Filling, ChunkStages,
            HandleWhileRunning, Flags, NoOrphan, Cancelling, Returns,
            WorkerRuns
<1>1. CASE Wake BY <1>1 DEF Wake, Stage
<1>2. CASE Retire BY <1>2 DEF Retire, Retires, Stage, Publish
<1>3. CASE ~Retires /\ PassOn("Retire", "Resume")
  BY <1>3 DEF PassOn, Stage, GoOn, Retires
<1>4. CASE CompleteStream BY <1>4 DEF CompleteStream, Drained, Stage, Publish
<1>5. CASE Unpause BY <1>5 DEF Unpause, Drained, Stage, GoOn
<1>6. CASE UnpauseFails BY <1>6 DEF UnpauseFails, Drained, Stage, Publish
<1>7. CASE ~Drained /\ PassOn("Resume", "Start")
  BY <1>7 DEF PassOn, Stage, GoOn, Drained
<1>8. CASE StartLook BY <1>8 DEF StartLook, Stage
<1>9. CASE NoBuffer BY <1>9 DEF NoBuffer, PassOn, Stage, GoOn, AfterStart
<1>10. CASE ClaimCancelled
  BY <1>10 DEF ClaimCancelled, Stage, Publish, AfterStart
<1>11. CASE PassOn("Start, claim cancelled", AfterStart)
  BY <1>11 DEF PassOn, Stage, GoOn, AfterStart
<1>12. CASE Claim BY <1>12 DEF Claim, Stage, GoOn
<1>13. CASE PassOn("Start, claim", AfterStart)
  BY <1>13 DEF PassOn, Stage, GoOn, AfterStart
<1>14. CASE Configure
  BY <1>14 DEF Configure, Configured, Stage, GoOn, AfterStart
<1>15. CASE ConfigureFails
  BY <1>15 DEF ConfigureFails, Configured, Stage, Publish, AfterStart
<1>16. CASE ExpireDeadline BY <1>16 DEF ExpireDeadline, Stage, Deliver
<1>17. CASE EnterPerform BY <1>17 DEF EnterPerform, Stage
<1>18. CASE BodyHeld BY <1>18 DEF BodyHeld, InTransfer, Stage
<1>19. CASE AppendLast
  BY <1>19 DEF AppendLast, Append, ChunkIsFull, InTransfer, Stage
<1>20. CASE Append /\ ~ChunkIsFull /\ UNCHANGED worker
  BY <1>20 DEF Append, ChunkIsFull, InTransfer, Stage
<1>21. CASE TransferEnds BY <1>21 DEF TransferEnds, InTransfer, Stage
<1>22. CASE LeavePerform BY <1>22 DEF LeavePerform, Stage
<1>23. CASE Finish BY <1>23 DEF Finish, Again, Deliver, Stage
<1>24. CASE Collect /\ ~Finish BY <1>24 DEF Collect, Again, Stage
<1>25. CASE PerformFails BY <1>25 DEF PerformFails, Publish, Stage
<1>26. CASE PassOn("Check", "Waiting") BY <1>26 DEF PassOn, Stage, GoOn
<1>27. CASE ChunkFound BY <1>27 DEF ChunkFound, Stage
<1>28. CASE slot.length = 0 /\ PassOn("Chunk, look", worker.next)
  BY <1>28 DEF PassOn, Stage, GoOn
<1>29. CASE ChunkBytes BY <1>29 DEF ChunkBytes, Stage
<1>30. CASE ChunkReady BY <1>30 DEF ChunkReady, Stage, GoOn
<1>31. CASE PublishLoad BY <1>31 DEF PublishLoad, Stage
<1>32. CASE PublishStore BY <1>32 DEF PublishStore, Stage, GoOn
<1> QED BY <1>1, <1>2, <1>3, <1>4, <1>5, <1>6, <1>7, <1>8, <1>9, <1>10, <1>11,
         <1>12, <1>13, <1>14, <1>15, <1>16, <1>17, <1>18, <1>19, <1>20, <1>21,
         <1>22, <1>23, <1>24, <1>25, <1>26, <1>27, <1>28, <1>29, <1>30, <1>31,
         <1>32 DEF WorkerStep, RetireCancelled, ResumeStream,
         StartClaimCancelled, StartClaim, StartConfigure, ReceiveBody, Collect,
         EndTurn, ChunkLook

\* The discard flag is raised before the cancel flag.
LEMMA BrowserKeepsFlags ==
    ASSUME Presenting = FALSE, ScheduleInv, BrowserStep
    PROVE  (Flags /\ NoOrphan)'
<1> USE DEF OwnerInv, Shapes, SlotType, WorkerType, BrowserType, ClientType,
            ScheduleInv, Scheduled, OneOwner, Publishing, Filling, ChunkStages,
            HandleWhileRunning, Flags, NoOrphan, Cancelling, Returns,
            BrowserRuns
<1>1. CASE Present BY <1>1 DEF Present, Call
<1>2. CASE Enqueue BY <1>2 DEF Enqueue, Call, Go
<1>3. CASE EnqueueFill BY <1>3 DEF EnqueueFill, EmptySlot, Call, Go
<1>4. CASE EnqueueQueue BY <1>4 DEF EnqueueQueue, Call, Go
<1>5. CASE TakeChunk BY <1>5 DEF TakeChunk, Call
<1>6. CASE ClaimReady BY <1>6 DEF ClaimReady, Call, Go
<1>7. CASE slot.chunk # "Ready" /\ Return("Chunk, claim", "Idle")
  BY <1>7 DEF Return, Call, Go
<1>8. CASE ChunkCopy BY <1>8 DEF ChunkCopy, Call
<1>9. CASE ChunkLeft BY <1>9 DEF ChunkLeft, Call, Go
<1>10. CASE ChunkStore BY <1>10 DEF ChunkStore, Call
<1>11. CASE TakeResult BY <1>11 DEF TakeResult, Call, Go
<1>12. CASE ResultFree BY <1>12 DEF ResultFree, Call, Go
<1>13. CASE Cancel BY <1>13 DEF Cancel, Call, Go
<1>14. CASE CancelFlag BY <1>14 DEF CancelFlag, Call, Go
<1>15. CASE CancelReady BY <1>15 DEF CancelReady, ClaimsChunk, Call, Go
<1>16. CASE ~ClaimsChunk /\ Return("Cancel, chunk", "Cancel, queued")
  BY <1>16 DEF Return, Call, Go
<1>17. CASE CancelClear BY <1>17 DEF CancelClear, Call, Go
<1>18. CASE FreeQueued BY <1>18 DEF FreeQueued, Call, Go
<1>19. CASE slot.state # "Queued"
              /\ Return("Cancel, queued", "Cancel, complete")
  BY <1>19 DEF Return, Call, Go
<1>20. CASE CancelComplete BY <1>20 DEF CancelComplete, Call, Go
<1> QED BY <1>1, <1>2, <1>3, <1>4, <1>5, <1>6, <1>7, <1>8, <1>9, <1>10, <1>11,
         <1>12, <1>13, <1>14, <1>15, <1>16, <1>17, <1>18, <1>19, <1>20 DEF
         BrowserStep, BrowserInCall, ChunkClaim, CancelChunk, CancelQueued

\* The worker appends, and drops the buffer only of an abandoned request.
LEMMA WorkerKeepsWhole ==
    ASSUME Presenting = FALSE, ScheduleInv, WorkerStep
    PROVE  Whole'
<1> USE DEF OwnerInv, Shapes, SlotType, ClientType, ScheduleInv, Whole,
            Scheduled, Flags
<1>1. CASE Wake BY <1>1 DEF Wake, Stage
<1>2. CASE Retire BY <1>2 DEF Retire, Retires, Stage, Publish
<1>3. CASE ~Retires /\ PassOn("Retire", "Resume")
  BY <1>3 DEF PassOn, Stage, GoOn, Retires
<1>4. CASE CompleteStream BY <1>4 DEF CompleteStream, Drained, Stage, Publish
<1>5. CASE Unpause BY <1>5 DEF Unpause, Drained, Stage, GoOn
<1>6. CASE UnpauseFails BY <1>6 DEF UnpauseFails, Drained, Stage, Publish
<1>7. CASE ~Drained /\ PassOn("Resume", "Start")
  BY <1>7 DEF PassOn, Stage, GoOn, Drained
<1>8. CASE StartLook BY <1>8 DEF StartLook, Stage
<1>9. CASE NoBuffer BY <1>9 DEF NoBuffer, PassOn, Stage, GoOn, AfterStart
<1>10. CASE ClaimCancelled
  BY <1>10 DEF ClaimCancelled, Stage, Publish, AfterStart
<1>11. CASE PassOn("Start, claim cancelled", AfterStart)
  BY <1>11 DEF PassOn, Stage, GoOn, AfterStart
<1>12. CASE Claim BY <1>12 DEF Claim, Stage, GoOn
<1>13. CASE PassOn("Start, claim", AfterStart)
  BY <1>13 DEF PassOn, Stage, GoOn, AfterStart
<1>14. CASE Configure
  <2>1. /\ client.consumed \in Nat /\ slot'.length = 0 /\ slot'.total = 0
        /\ slot'.streaming <=> slot.streaming /\ client' = client
    BY <1>14 DEF Configure, ConfigureFails, Configured, Stage
  <2>2. slot.length = 0 /\ slot.total = 0
    BY <1>14 DEF Configure, ConfigureFails, Stage, Contents, Fresh
  <2> QED BY <2>1, <2>2
<1>15. CASE ConfigureFails
  <2>1. /\ client.consumed \in Nat /\ slot'.length = 0 /\ slot'.total = 0
        /\ slot'.streaming <=> slot.streaming /\ client' = client
    BY <1>15 DEF Configure, ConfigureFails, Configured, Stage
  <2>2. slot.length = 0 /\ slot.total = 0
    BY <1>15 DEF Configure, ConfigureFails, Stage, Contents, Fresh
  <2> QED BY <2>1, <2>2
<1>16. CASE ExpireDeadline BY <1>16 DEF ExpireDeadline, Stage, Deliver
<1>17. CASE EnterPerform BY <1>17 DEF EnterPerform, Stage
<1>18. CASE BodyHeld BY <1>18 DEF BodyHeld, InTransfer, Stage
<1>19. CASE AppendLast
  <2>1. /\ slot'.length = slot.length + 1 /\ slot'.total = slot.total + 1
        /\ slot'.streaming <=> slot.streaming /\ client' = client
    BY <1>19 DEF AppendLast, Append, InTransfer, Stage
  <2>2. /\ slot.length \in Nat /\ slot.total \in Nat
        /\ client.consumed \in Nat
    OBVIOUS
  <2> HIDE DEF OwnerInv, ScheduleInv
  <2>3. SUFFICES ASSUME client.consumed + slot.length = slot.total
                 PROVE  client.consumed + (slot.length + 1) = slot.total + 1
    BY <2>1 DEF ScheduleInv
  <2> QED BY <2>2, <2>3, Received
<1>20. CASE Append /\ ~ChunkIsFull /\ UNCHANGED worker
  <2>1. /\ slot'.length = slot.length + 1 /\ slot'.total = slot.total + 1
        /\ slot'.streaming <=> slot.streaming /\ client' = client
    BY <1>20 DEF AppendLast, Append, InTransfer, Stage
  <2>2. /\ slot.length \in Nat /\ slot.total \in Nat
        /\ client.consumed \in Nat
    OBVIOUS
  <2> HIDE DEF OwnerInv, ScheduleInv
  <2>3. SUFFICES ASSUME client.consumed + slot.length = slot.total
                 PROVE  client.consumed + (slot.length + 1) = slot.total + 1
    BY <2>1 DEF ScheduleInv
  <2> QED BY <2>2, <2>3, Received
<1>21. CASE TransferEnds BY <1>21 DEF TransferEnds, InTransfer, Stage
<1>22. CASE LeavePerform BY <1>22 DEF LeavePerform, Stage
<1>23. CASE Finish BY <1>23 DEF Finish, Again, Deliver, Stage
<1>24. CASE Collect /\ ~Finish BY <1>24 DEF Collect, Again, Stage
<1>25. CASE PerformFails BY <1>25 DEF PerformFails, Publish, Stage
<1>26. CASE PassOn("Check", "Waiting") BY <1>26 DEF PassOn, Stage, GoOn
<1>27. CASE ChunkFound BY <1>27 DEF ChunkFound, Stage
<1>28. CASE slot.length = 0 /\ PassOn("Chunk, look", worker.next)
  BY <1>28 DEF PassOn, Stage, GoOn
<1>29. CASE ChunkBytes BY <1>29 DEF ChunkBytes, Stage
<1>30. CASE ChunkReady BY <1>30 DEF ChunkReady, Stage, GoOn
<1>31. CASE PublishLoad BY <1>31 DEF PublishLoad, Stage
<1>32. CASE PublishStore BY <1>32 DEF PublishStore, Stage, GoOn
<1> QED BY <1>1, <1>2, <1>3, <1>4, <1>5, <1>6, <1>7, <1>8, <1>9, <1>10, <1>11,
         <1>12, <1>13, <1>14, <1>15, <1>16, <1>17, <1>18, <1>19, <1>20, <1>21,
         <1>22, <1>23, <1>24, <1>25, <1>26, <1>27, <1>28, <1>29, <1>30, <1>31,
         <1>32 DEF WorkerStep, RetireCancelled, ResumeStream,
         StartClaimCancelled, StartClaim, StartConfigure, ReceiveBody, Collect,
         EndTurn, ChunkLook

\* The owner is handed what leaves the buffer.
LEMMA BrowserKeepsWhole ==
    ASSUME Presenting = FALSE, ScheduleInv, BrowserStep
    PROVE  Whole'
<1> USE DEF OwnerInv, Shapes, SlotType, ClientType, ScheduleInv, Whole, Flags,
            Cancelling, Filling
<1>1. CASE Present BY <1>1 DEF Present, Call
<1>2. CASE Enqueue BY <1>2 DEF Enqueue, Call, Go
<1>3. CASE EnqueueFill BY <1>3 DEF EnqueueFill, EmptySlot, Call, Go
<1>4. CASE EnqueueQueue
  <2>1. /\ slot'.total = 0 /\ slot'.length = 0 /\ client'.consumed = 0
    BY <1>4 DEF EnqueueQueue, Call, Contents, Fresh
  <2> HIDE DEF OwnerInv, ScheduleInv, Flags, Cancelling, Filling
  <2> QED BY <2>1
<1>5. CASE TakeChunk BY <1>5 DEF TakeChunk, Call
<1>6. CASE ClaimReady BY <1>6 DEF ClaimReady, Call, Go
<1>7. CASE slot.chunk # "Ready" /\ Return("Chunk, claim", "Idle")
  BY <1>7 DEF Return, Call, Go
<1>8. CASE ChunkCopy
  <2>1. PICK taken \in 1 .. browser.available :
            /\ slot' = [slot EXCEPT !.length = browser.available - taken]
            /\ browser' = [browser EXCEPT !.at = "Chunk, bytes",
                                          !.left = browser.available - taken]
            /\ client' = [client EXCEPT !.consumed = @ + taken]
    BY <1>8 DEF ChunkCopy
  <2>2. /\ browser.available = slot.length /\ slot.length \in Nat
        /\ browser.at = "Chunk, length" /\ slot.chunk # "Empty"
    BY <1>8 DEF ChunkCopy, Call, Locals
  <2>3. client.consumed \in Nat
    OBVIOUS
  <2>4. /\ slot'.length = slot.length - taken
        /\ client'.consumed = client.consumed + taken
        /\ slot'.total = slot.total /\ (slot'.streaming <=> slot.streaming)
        /\ client'.owns <=> client.owns
    BY <2>1, <2>2
  <2> HIDE DEF OwnerInv, ScheduleInv, Flags, Cancelling, Filling
  <2>5. SUFFICES ASSUME client.consumed + slot.length = slot.total
                 PROVE  (client.consumed + taken) + (slot.length - taken)
                            = slot.total
    BY <2>4 DEF ScheduleInv
  <2>6. taken \in 1 .. slot.length
    BY <2>1, <2>2
  <2> QED BY <2>2, <2>3, <2>5, <2>6, Handed
<1>9. CASE ChunkLeft BY <1>9 DEF ChunkLeft, Call, Go
<1>10. CASE ChunkStore BY <1>10 DEF ChunkStore, Call
<1>11. CASE TakeResult BY <1>11 DEF TakeResult, Call, Go
<1>12. CASE ResultFree BY <1>12 DEF ResultFree, Call, Go
<1>13. CASE Cancel BY <1>13 DEF Cancel, Call, Go
<1>14. CASE CancelFlag BY <1>14 DEF CancelFlag, Call, Go
<1>15. CASE CancelReady BY <1>15 DEF CancelReady, ClaimsChunk, Call, Go
<1>16. CASE ~ClaimsChunk /\ Return("Cancel, chunk", "Cancel, queued")
  BY <1>16 DEF Return, Call, Go
<1>17. CASE CancelClear BY <1>17 DEF CancelClear, Call, Go
<1>18. CASE FreeQueued BY <1>18 DEF FreeQueued, Call, Go
<1>19. CASE slot.state # "Queued"
              /\ Return("Cancel, queued", "Cancel, complete")
  BY <1>19 DEF Return, Call, Go
<1>20. CASE CancelComplete BY <1>20 DEF CancelComplete, Call, Go
<1> QED BY <1>1, <1>2, <1>3, <1>4, <1>5, <1>6, <1>7, <1>8, <1>9, <1>10, <1>11,
         <1>12, <1>13, <1>14, <1>15, <1>16, <1>17, <1>18, <1>19, <1>20 DEF
         BrowserStep, BrowserInCall, ChunkClaim, CancelChunk, CancelQueued

\* The worker publishes the whole buffer and then leaves it alone.
LEMMA WorkerKeepsContents ==
    ASSUME Presenting = FALSE, ScheduleInv, WorkerStep
    PROVE  Contents'
<1> USE DEF OwnerInv, Shapes, SlotType, WorkerType, BrowserType, ClientType,
            ScheduleInv, Scheduled, OneOwner, ChunkStages, Publishing, Filling,
            HandleWhileRunning, Flags, Cancelling, Contents, Fresh, Locals,
            Taken, Returns, WorkerRuns
<1>1. CASE Wake BY <1>1 DEF Wake, Stage
<1>2. CASE Retire BY <1>2 DEF Retire, Retires, Stage, Publish
<1>3. CASE ~Retires /\ PassOn("Retire", "Resume")
  BY <1>3 DEF PassOn, Stage, GoOn, Retires
<1>4. CASE CompleteStream BY <1>4 DEF CompleteStream, Drained, Stage, Publish
<1>5. CASE Unpause BY <1>5 DEF Unpause, Drained, Stage, GoOn
<1>6. CASE UnpauseFails BY <1>6 DEF UnpauseFails, Drained, Stage, Publish
<1>7. CASE ~Drained /\ PassOn("Resume", "Start")
  BY <1>7 DEF PassOn, Stage, GoOn, Drained
<1>8. CASE StartLook BY <1>8 DEF StartLook, Stage
<1>9. CASE NoBuffer BY <1>9 DEF NoBuffer, PassOn, Stage, GoOn, AfterStart
<1>10. CASE ClaimCancelled
  BY <1>10 DEF ClaimCancelled, Stage, Publish, AfterStart
<1>11. CASE PassOn("Start, claim cancelled", AfterStart)
  BY <1>11 DEF PassOn, Stage, GoOn, AfterStart
<1>12. CASE Claim BY <1>12 DEF Claim, Stage, GoOn
<1>13. CASE PassOn("Start, claim", AfterStart)
  BY <1>13 DEF PassOn, Stage, GoOn, AfterStart
<1>14. CASE Configure
  BY <1>14 DEF Configure, Configured, Stage, GoOn, AfterStart
<1>15. CASE ConfigureFails
  BY <1>15 DEF ConfigureFails, Configured, Stage, Publish, AfterStart
<1>16. CASE ExpireDeadline BY <1>16 DEF ExpireDeadline, Stage, Deliver
<1>17. CASE EnterPerform BY <1>17 DEF EnterPerform, Stage
<1>18. CASE BodyHeld BY <1>18 DEF BodyHeld, InTransfer, Stage
<1>19. CASE AppendLast
  BY <1>19 DEF AppendLast, Append, ChunkIsFull, InTransfer, Stage
<1>20. CASE Append /\ ~ChunkIsFull /\ UNCHANGED worker
  BY <1>20 DEF Append, ChunkIsFull, InTransfer, Stage
<1>21. CASE TransferEnds BY <1>21 DEF TransferEnds, InTransfer, Stage
<1>22. CASE LeavePerform BY <1>22 DEF LeavePerform, Stage
<1>23. CASE Finish BY <1>23 DEF Finish, Again, Deliver, Stage
<1>24. CASE Collect /\ ~Finish BY <1>24 DEF Collect, Again, Stage
<1>25. CASE PerformFails BY <1>25 DEF PerformFails, Publish, Stage
<1>26. CASE PassOn("Check", "Waiting") BY <1>26 DEF PassOn, Stage, GoOn
<1>27. CASE ChunkFound BY <1>27 DEF ChunkFound, Stage
<1>28. CASE slot.length = 0 /\ PassOn("Chunk, look", worker.next)
  BY <1>28 DEF PassOn, Stage, GoOn
<1>29. CASE ChunkBytes
  <2>1. PICK n \in {worker.bytes, slot.length} :
            slot' = [slot EXCEPT !.held = TRUE, !.chunk_bytes = n]
    BY <1>29 DEF ChunkBytes
  <2>2. n = slot.length
    BY <1>29, <2>1 DEF ChunkBytes, Stage
  <2> QED BY <1>29, <2>1, <2>2 DEF ChunkBytes, Stage
<1>30. CASE ChunkReady BY <1>30 DEF ChunkReady, Stage, GoOn
<1>31. CASE PublishLoad BY <1>31 DEF PublishLoad, Stage
<1>32. CASE PublishStore BY <1>32 DEF PublishStore, Stage, GoOn
<1> QED BY <1>1, <1>2, <1>3, <1>4, <1>5, <1>6, <1>7, <1>8, <1>9, <1>10, <1>11,
         <1>12, <1>13, <1>14, <1>15, <1>16, <1>17, <1>18, <1>19, <1>20, <1>21,
         <1>22, <1>23, <1>24, <1>25, <1>26, <1>27, <1>28, <1>29, <1>30, <1>31,
         <1>32 DEF WorkerStep, RetireCancelled, ResumeStream,
         StartClaimCancelled, StartClaim, StartConfigure, ReceiveBody, Collect,
         EndTurn, ChunkLook

\* A take call republishes what it left.
LEMMA BrowserKeepsContents ==
    ASSUME Presenting = FALSE, ScheduleInv, BrowserStep
    PROVE  Contents'
<1> USE DEF OwnerInv, Shapes, SlotType, WorkerType, BrowserType, ClientType,
            ScheduleInv, Scheduled, OneOwner, ChunkStages, Publishing, Filling,
            HandleWhileRunning, Flags, Cancelling, Contents, Fresh, Locals,
            Taken, Returns, BrowserRuns
<1>1. CASE Present BY <1>1 DEF Present, Call
<1>2. CASE Enqueue BY <1>2 DEF Enqueue, Call, Go
<1>3. CASE EnqueueFill BY <1>3 DEF EnqueueFill, EmptySlot, Call, Go
<1>4. CASE EnqueueQueue BY <1>4 DEF EnqueueQueue, Call, Go
<1>5. CASE TakeChunk BY <1>5 DEF TakeChunk, Call
<1>6. CASE ClaimReady BY <1>6 DEF ClaimReady, Call, Go
<1>7. CASE slot.chunk # "Ready" /\ Return("Chunk, claim", "Idle")
  BY <1>7 DEF Return, Call, Go
<1>8. CASE ChunkCopy
  <2>1. PICK taken \in 1 .. browser.available :
            /\ slot' = [slot EXCEPT !.length = browser.available - taken]
            /\ browser' = [browser EXCEPT !.at = "Chunk, bytes",
                                          !.left = browser.available - taken]
            /\ client' = [client EXCEPT !.consumed = @ + taken]
    BY <1>8 DEF ChunkCopy
  <2>2. /\ browser.available = slot.length /\ slot.length \in Nat
        /\ browser.at = "Chunk, length" /\ slot.chunk # "Empty"
    BY <1>8 DEF ChunkCopy, Call, Locals
  <2> QED BY <1>8, <2>1, <2>2 DEF ChunkCopy, Call
<1>9. CASE ChunkLeft BY <1>9 DEF ChunkLeft, Call, Go
<1>10. CASE ChunkStore BY <1>10 DEF ChunkStore, Call
<1>11. CASE TakeResult BY <1>11 DEF TakeResult, Call, Go
<1>12. CASE ResultFree BY <1>12 DEF ResultFree, Call, Go
<1>13. CASE Cancel BY <1>13 DEF Cancel, Call, Go
<1>14. CASE CancelFlag BY <1>14 DEF CancelFlag, Call, Go
<1>15. CASE CancelReady BY <1>15 DEF CancelReady, ClaimsChunk, Call, Go
<1>16. CASE ~ClaimsChunk /\ Return("Cancel, chunk", "Cancel, queued")
  BY <1>16 DEF Return, Call, Go
<1>17. CASE CancelClear BY <1>17 DEF CancelClear, Call, Go
<1>18. CASE FreeQueued BY <1>18 DEF FreeQueued, Call, Go
<1>19. CASE slot.state # "Queued"
              /\ Return("Cancel, queued", "Cancel, complete")
  BY <1>19 DEF Return, Call, Go
<1>20. CASE CancelComplete BY <1>20 DEF CancelComplete, Call, Go
<1> QED BY <1>1, <1>2, <1>3, <1>4, <1>5, <1>6, <1>7, <1>8, <1>9, <1>10, <1>11,
         <1>12, <1>13, <1>14, <1>15, <1>16, <1>17, <1>18, <1>19, <1>20 DEF
         BrowserStep, BrowserInCall, ChunkClaim, CancelChunk, CancelQueued

\* The worker does not change a chunk that is being taken.
LEMMA WorkerKeepsLocals ==
    ASSUME Presenting = FALSE, ScheduleInv, WorkerStep
    PROVE  Locals'
<1> USE DEF OwnerInv, Shapes, SlotType, WorkerType, BrowserType, ClientType,
            ScheduleInv, Scheduled, OneOwner, ChunkStages, Publishing, Filling,
            HandleWhileRunning, Flags, Contents, Fresh, Locals, Taken,
            Cancelling, Returns, WorkerRuns
<1>1. CASE Wake BY <1>1 DEF Wake, Stage
<1>2. CASE Retire BY <1>2 DEF Retire, Retires, Stage, Publish
<1>3. CASE ~Retires /\ PassOn("Retire", "Resume")
  BY <1>3 DEF PassOn, Stage, GoOn, Retires
<1>4. CASE CompleteStream BY <1>4 DEF CompleteStream, Drained, Stage, Publish
<1>5. CASE Unpause BY <1>5 DEF Unpause, Drained, Stage, GoOn
<1>6. CASE UnpauseFails BY <1>6 DEF UnpauseFails, Drained, Stage, Publish
<1>7. CASE ~Drained /\ PassOn("Resume", "Start")
  BY <1>7 DEF PassOn, Stage, GoOn, Drained
<1>8. CASE StartLook BY <1>8 DEF StartLook, Stage
<1>9. CASE NoBuffer BY <1>9 DEF NoBuffer, PassOn, Stage, GoOn, AfterStart
<1>10. CASE ClaimCancelled
  BY <1>10 DEF ClaimCancelled, Stage, Publish, AfterStart
<1>11. CASE PassOn("Start, claim cancelled", AfterStart)
  BY <1>11 DEF PassOn, Stage, GoOn, AfterStart
<1>12. CASE Claim BY <1>12 DEF Claim, Stage, GoOn
<1>13. CASE PassOn("Start, claim", AfterStart)
  BY <1>13 DEF PassOn, Stage, GoOn, AfterStart
<1>14. CASE Configure
  BY <1>14 DEF Configure, Configured, Stage, GoOn, AfterStart
<1>15. CASE ConfigureFails
  BY <1>15 DEF ConfigureFails, Configured, Stage, Publish, AfterStart
<1>16. CASE ExpireDeadline BY <1>16 DEF ExpireDeadline, Stage, Deliver
<1>17. CASE EnterPerform BY <1>17 DEF EnterPerform, Stage
<1>18. CASE BodyHeld BY <1>18 DEF BodyHeld, InTransfer, Stage
<1>19. CASE AppendLast
  BY <1>19 DEF AppendLast, Append, ChunkIsFull, InTransfer, Stage
<1>20. CASE Append /\ ~ChunkIsFull /\ UNCHANGED worker
  BY <1>20 DEF Append, ChunkIsFull, InTransfer, Stage
<1>21. CASE TransferEnds BY <1>21 DEF TransferEnds, InTransfer, Stage
<1>22. CASE LeavePerform BY <1>22 DEF LeavePerform, Stage
<1>23. CASE Finish BY <1>23 DEF Finish, Again, Deliver, Stage
<1>24. CASE Collect /\ ~Finish BY <1>24 DEF Collect, Again, Stage
<1>25. CASE PerformFails BY <1>25 DEF PerformFails, Publish, Stage
<1>26. CASE PassOn("Check", "Waiting") BY <1>26 DEF PassOn, Stage, GoOn
<1>27. CASE ChunkFound BY <1>27 DEF ChunkFound, Stage
<1>28. CASE slot.length = 0 /\ PassOn("Chunk, look", worker.next)
  BY <1>28 DEF PassOn, Stage, GoOn
<1>29. CASE ChunkBytes BY <1>29 DEF ChunkBytes, Stage
<1>30. CASE ChunkReady BY <1>30 DEF ChunkReady, Stage, GoOn
<1>31. CASE PublishLoad BY <1>31 DEF PublishLoad, Stage
<1>32. CASE PublishStore BY <1>32 DEF PublishStore, Stage, GoOn
<1> QED BY <1>1, <1>2, <1>3, <1>4, <1>5, <1>6, <1>7, <1>8, <1>9, <1>10, <1>11,
         <1>12, <1>13, <1>14, <1>15, <1>16, <1>17, <1>18, <1>19, <1>20, <1>21,
         <1>22, <1>23, <1>24, <1>25, <1>26, <1>27, <1>28, <1>29, <1>30, <1>31,
         <1>32 DEF WorkerStep, RetireCancelled, ResumeStream,
         StartClaimCancelled, StartClaim, StartConfigure, ReceiveBody, Collect,
         EndTurn, ChunkLook

\* A take call knows what is in the buffer.
LEMMA BrowserKeepsLocals ==
    ASSUME Presenting = FALSE, ScheduleInv, BrowserStep
    PROVE  Locals'
<1> USE DEF OwnerInv, Shapes, SlotType, WorkerType, BrowserType, ClientType,
            ScheduleInv, Scheduled, OneOwner, ChunkStages, Publishing, Filling,
            HandleWhileRunning, Flags, Contents, Fresh, Locals, Taken,
            Cancelling, Returns, BrowserRuns
<1>1. CASE Present BY <1>1 DEF Present, Call
<1>2. CASE Enqueue BY <1>2 DEF Enqueue, Call, Go
<1>3. CASE EnqueueFill BY <1>3 DEF EnqueueFill, EmptySlot, Call, Go
<1>4. CASE EnqueueQueue BY <1>4 DEF EnqueueQueue, Call, Go
<1>5. CASE TakeChunk BY <1>5 DEF TakeChunk, Call
<1>6. CASE ClaimReady BY <1>6 DEF ClaimReady, Call, Go
<1>7. CASE slot.chunk # "Ready" /\ Return("Chunk, claim", "Idle")
  BY <1>7 DEF Return, Call, Go
<1>8. CASE ChunkCopy
  <2>1. PICK taken \in 1 .. browser.available :
            /\ slot' = [slot EXCEPT !.length = browser.available - taken]
            /\ browser' = [browser EXCEPT !.at = "Chunk, bytes",
                                          !.left = browser.available - taken]
            /\ client' = [client EXCEPT !.consumed = @ + taken]
    BY <1>8 DEF ChunkCopy
  <2>2. /\ browser.available = slot.length /\ slot.length \in Nat
        /\ browser.at = "Chunk, length" /\ slot.chunk # "Empty"
    BY <1>8 DEF ChunkCopy, Call, Locals
  <2> QED BY <1>8, <2>1, <2>2 DEF ChunkCopy, Call
<1>9. CASE ChunkLeft BY <1>9 DEF ChunkLeft, Call, Go
<1>10. CASE ChunkStore BY <1>10 DEF ChunkStore, Call
<1>11. CASE TakeResult BY <1>11 DEF TakeResult, Call, Go
<1>12. CASE ResultFree BY <1>12 DEF ResultFree, Call, Go
<1>13. CASE Cancel BY <1>13 DEF Cancel, Call, Go
<1>14. CASE CancelFlag BY <1>14 DEF CancelFlag, Call, Go
<1>15. CASE CancelReady BY <1>15 DEF CancelReady, ClaimsChunk, Call, Go
<1>16. CASE ~ClaimsChunk /\ Return("Cancel, chunk", "Cancel, queued")
  BY <1>16 DEF Return, Call, Go
<1>17. CASE CancelClear BY <1>17 DEF CancelClear, Call, Go
<1>18. CASE FreeQueued BY <1>18 DEF FreeQueued, Call, Go
<1>19. CASE slot.state # "Queued"
              /\ Return("Cancel, queued", "Cancel, complete")
  BY <1>19 DEF Return, Call, Go
<1>20. CASE CancelComplete BY <1>20 DEF CancelComplete, Call, Go
<1> QED BY <1>1, <1>2, <1>3, <1>4, <1>5, <1>6, <1>7, <1>8, <1>9, <1>10, <1>11,
         <1>12, <1>13, <1>14, <1>15, <1>16, <1>17, <1>18, <1>19, <1>20 DEF
         BrowserStep, BrowserInCall, ChunkClaim, CancelChunk, CancelQueued

\* A stream is published as good only when it is drained.
LEMMA WorkerKeepsEnds ==
    ASSUME Presenting = FALSE, ScheduleInv, WorkerStep
    PROVE  Ends'
<1> USE DEF OwnerInv, Shapes, SlotType, WorkerType, BrowserType, ClientType,
            ScheduleInv, Scheduled, OneOwner, ChunkStages, Publishing, Filling,
            HandleWhileRunning, Flags, Contents, Fresh, Locals, Taken, Ends,
            Returns, WorkerRuns
<1>1. CASE Wake BY <1>1 DEF Wake, Stage
<1>2. CASE Retire BY <1>2 DEF Retire, Retires, Stage, Publish
<1>3. CASE ~Retires /\ PassOn("Retire", "Resume")
  BY <1>3 DEF PassOn, Stage, GoOn, Retires
<1>4. CASE CompleteStream BY <1>4 DEF CompleteStream, Drained, Stage, Publish
<1>5. CASE Unpause BY <1>5 DEF Unpause, Drained, Stage, GoOn
<1>6. CASE UnpauseFails BY <1>6 DEF UnpauseFails, Drained, Stage, Publish
<1>7. CASE ~Drained /\ PassOn("Resume", "Start")
  BY <1>7 DEF PassOn, Stage, GoOn, Drained
<1>8. CASE StartLook BY <1>8 DEF StartLook, Stage
<1>9. CASE NoBuffer BY <1>9 DEF NoBuffer, PassOn, Stage, GoOn, AfterStart
<1>10. CASE ClaimCancelled
  BY <1>10 DEF ClaimCancelled, Stage, Publish, AfterStart
<1>11. CASE PassOn("Start, claim cancelled", AfterStart)
  BY <1>11 DEF PassOn, Stage, GoOn, AfterStart
<1>12. CASE Claim BY <1>12 DEF Claim, Stage, GoOn
<1>13. CASE PassOn("Start, claim", AfterStart)
  BY <1>13 DEF PassOn, Stage, GoOn, AfterStart
<1>14. CASE Configure
  BY <1>14 DEF Configure, Configured, Stage, GoOn, AfterStart
<1>15. CASE ConfigureFails
  BY <1>15 DEF ConfigureFails, Configured, Stage, Publish, AfterStart
<1>16. CASE ExpireDeadline BY <1>16 DEF ExpireDeadline, Stage, Deliver
<1>17. CASE EnterPerform BY <1>17 DEF EnterPerform, Stage
<1>18. CASE BodyHeld BY <1>18 DEF BodyHeld, InTransfer, Stage
<1>19. CASE AppendLast
  BY <1>19 DEF AppendLast, Append, ChunkIsFull, InTransfer, Stage
<1>20. CASE Append /\ ~ChunkIsFull /\ UNCHANGED worker
  BY <1>20 DEF Append, ChunkIsFull, InTransfer, Stage
<1>21. CASE TransferEnds BY <1>21 DEF TransferEnds, InTransfer, Stage
<1>22. CASE LeavePerform BY <1>22 DEF LeavePerform, Stage
<1>23. CASE Finish BY <1>23 DEF Finish, Again, Deliver, Stage
<1>24. CASE Collect /\ ~Finish BY <1>24 DEF Collect, Again, Stage
<1>25. CASE PerformFails BY <1>25 DEF PerformFails, Publish, Stage
<1>26. CASE PassOn("Check", "Waiting") BY <1>26 DEF PassOn, Stage, GoOn
<1>27. CASE ChunkFound BY <1>27 DEF ChunkFound, Stage
<1>28. CASE slot.length = 0 /\ PassOn("Chunk, look", worker.next)
  BY <1>28 DEF PassOn, Stage, GoOn
<1>29. CASE ChunkBytes BY <1>29 DEF ChunkBytes, Stage
<1>30. CASE ChunkReady BY <1>30 DEF ChunkReady, Stage, GoOn
<1>31. CASE PublishLoad BY <1>31 DEF PublishLoad, Stage
<1>32. CASE PublishStore BY <1>32 DEF PublishStore, Stage, GoOn
<1> QED BY <1>1, <1>2, <1>3, <1>4, <1>5, <1>6, <1>7, <1>8, <1>9, <1>10, <1>11,
         <1>12, <1>13, <1>14, <1>15, <1>16, <1>17, <1>18, <1>19, <1>20, <1>21,
         <1>22, <1>23, <1>24, <1>25, <1>26, <1>27, <1>28, <1>29, <1>30, <1>31,
         <1>32 DEF WorkerStep, RetireCancelled, ResumeStream,
         StartClaimCancelled, StartClaim, StartConfigure, ReceiveBody, Collect,
         EndTurn, ChunkLook

\* A chunk that is taken entirely leaves nothing behind.
LEMMA BrowserKeepsEnds ==
    ASSUME Presenting = FALSE, ScheduleInv, BrowserStep
    PROVE  Ends'
<1> USE DEF OwnerInv, Shapes, SlotType, WorkerType, BrowserType, ClientType,
            ScheduleInv, Scheduled, OneOwner, ChunkStages, Publishing, Filling,
            HandleWhileRunning, Flags, Contents, Fresh, Locals, Taken, Ends,
            Returns, BrowserRuns
<1>1. CASE Present BY <1>1 DEF Present, Call
<1>2. CASE Enqueue BY <1>2 DEF Enqueue, Call, Go
<1>3. CASE EnqueueFill BY <1>3 DEF EnqueueFill, EmptySlot, Call, Go
<1>4. CASE EnqueueQueue BY <1>4 DEF EnqueueQueue, Call, Go
<1>5. CASE TakeChunk BY <1>5 DEF TakeChunk, Call
<1>6. CASE ClaimReady BY <1>6 DEF ClaimReady, Call, Go
<1>7. CASE slot.chunk # "Ready" /\ Return("Chunk, claim", "Idle")
  BY <1>7 DEF Return, Call, Go
<1>8. CASE ChunkCopy
  <2>1. PICK taken \in 1 .. browser.available :
            /\ slot' = [slot EXCEPT !.length = browser.available - taken]
            /\ browser' = [browser EXCEPT !.at = "Chunk, bytes",
                                          !.left = browser.available - taken]
            /\ client' = [client EXCEPT !.consumed = @ + taken]
    BY <1>8 DEF ChunkCopy
  <2>2. /\ browser.available = slot.length /\ slot.length \in Nat
        /\ browser.at = "Chunk, length" /\ slot.chunk # "Empty"
    BY <1>8 DEF ChunkCopy, Call, Locals
  <2>3. slot.length # 0
    BY <2>1, <2>2, Handed
  <2>6. /\ slot'.chunk = slot.chunk /\ (slot'.done <=> slot.done)
        /\ slot'.outcome = slot.outcome /\ slot'.state = slot.state
        /\ (slot'.streaming <=> slot.streaming) /\ worker' = worker
    BY <1>8, <2>1 DEF ChunkCopy, Call
  <2> QED BY <2>2, <2>3, <2>6
<1>9. CASE ChunkLeft BY <1>9 DEF ChunkLeft, Call, Go
<1>10. CASE ChunkStore BY <1>10 DEF ChunkStore, Call
<1>11. CASE TakeResult BY <1>11 DEF TakeResult, Call, Go
<1>12. CASE ResultFree BY <1>12 DEF ResultFree, Call, Go
<1>13. CASE Cancel BY <1>13 DEF Cancel, Call, Go
<1>14. CASE CancelFlag BY <1>14 DEF CancelFlag, Call, Go
<1>15. CASE CancelReady BY <1>15 DEF CancelReady, ClaimsChunk, Call, Go
<1>16. CASE ~ClaimsChunk /\ Return("Cancel, chunk", "Cancel, queued")
  BY <1>16 DEF Return, Call, Go
<1>17. CASE CancelClear BY <1>17 DEF CancelClear, Call, Go
<1>18. CASE FreeQueued BY <1>18 DEF FreeQueued, Call, Go
<1>19. CASE slot.state # "Queued"
              /\ Return("Cancel, queued", "Cancel, complete")
  BY <1>19 DEF Return, Call, Go
<1>20. CASE CancelComplete BY <1>20 DEF CancelComplete, Call, Go
<1> QED BY <1>1, <1>2, <1>3, <1>4, <1>5, <1>6, <1>7, <1>8, <1>9, <1>10, <1>11,
         <1>12, <1>13, <1>14, <1>15, <1>16, <1>17, <1>18, <1>19, <1>20 DEF
         BrowserStep, BrowserInCall, ChunkClaim, CancelChunk, CancelQueued

\* At the start the worker waits and the slot is empty.
LEMMA ScheduleInit == Init => ScheduleInv
<1> SUFFICES ASSUME Init PROVE ScheduleInv
  OBVIOUS
<1>1. Scheduled /\ Flags /\ NoOrphan /\ Contents /\ Locals /\ Ends
  BY DEF Init, Scheduled, Flags, NoOrphan, Contents, Fresh, Locals, Ends,
         EmptySlot, Publishing, ChunkStages, Filling, Cancelling, Taken
<1>2. Whole
  BY DEF Init, EmptySlot, Whole
<1> QED BY <1>1, <1>2, OwnerInit DEF ScheduleInv

\* What each thread read a step ago is still true when it acts on it.
THEOREM ScheduleInvHolds ==
    ASSUME Presenting = FALSE PROVE Spec => []ScheduleInv
<1>1. ScheduleInv /\ [Next]_vars => ScheduleInv'
  <2> SUFFICES ASSUME ScheduleInv, [Next]_vars PROVE ScheduleInv'
    OBVIOUS
  <2>1. OwnerInv'
    BY OwnerInvNext DEF ScheduleInv
  <2>2. CASE WorkerStep
    BY <2>1, <2>2, WorkerKeepsSchedule, WorkerKeepsFlags, WorkerKeepsWhole,
       WorkerKeepsContents, WorkerKeepsLocals, WorkerKeepsEnds
       DEF ScheduleInv
  <2>3. CASE BrowserStep
    BY <2>1, <2>3, BrowserKeepsSchedule, BrowserKeepsFlags,
       BrowserKeepsWhole, BrowserKeepsContents, BrowserKeepsLocals,
       BrowserKeepsEnds
       DEF ScheduleInv
  <2>4. CASE UNCHANGED vars
    <3>1. Whole'
      BY <2>4 DEF vars, ScheduleInv, Whole
    <3>2. Scheduled' /\ Locals' /\ Ends'
      BY <2>4 DEF vars, ScheduleInv, Scheduled, Locals, Ends, Publishing
    <3>3. Flags' /\ NoOrphan'
      BY <2>4 DEF vars, ScheduleInv, Flags, NoOrphan, Publishing, Filling,
                  Cancelling
    <3>4. Contents'
      BY <2>4 DEF vars, ScheduleInv, Contents, Fresh
    <3> QED BY <2>1, <3>1, <3>2, <3>3, <3>4 DEF ScheduleInv
  <2> QED BY <2>2, <2>3, <2>4 DEF Next
<1> QED BY <1>1, ScheduleInit, PTL DEF Spec

\* A cancel ends its own request and no other: no result is left without an
\* owner, and no request is aborted that its owner did not give up.
THEOREM CancelEndsItsOwnRequest ==
    ASSUME Presenting = FALSE PROVE Spec => []CancelsItsOwn
<1>1. ScheduleInv => CancelsItsOwn
  BY DEF ScheduleInv, Flags, CancelsItsOwn, AbortsWhatWasCancelled
<1> QED BY <1>1, ScheduleInvHolds, PTL

\* A body of any size, published in chunks of any size and taken in pieces of
\* any size, reaches its owner once.
THEOREM BytesAreHandedOutOnce ==
    ASSUME Presenting = FALSE PROVE Spec => []EveryByteOnce
<1>1. ScheduleInv => EveryByteOnce
  <2> SUFFICES ASSUME ScheduleInv, slot.streaming, client.owns
               PROVE  /\ client.consumed + slot.length = slot.total
                      /\ slot.state = "Complete" /\ slot.outcome = "OK" =>
                            client.consumed = slot.total
    BY DEF EveryByteOnce
  <2>1. client.consumed + slot.length = slot.total
    BY DEF ScheduleInv, Whole
  <2>2. client.consumed \in Nat
    BY DEF ScheduleInv, OwnerInv, Shapes, ClientType
  <2>3. slot.state = "Complete" /\ slot.outcome = "OK" => slot.length = 0
    BY DEF ScheduleInv, Ends
  <2> QED BY <2>1, <2>2, <2>3
<1> QED BY <1>1, ScheduleInvHolds, PTL

\* What the worker read to choose a pool is true until it has claimed the slot,
\* and what it chose is true while the request runs.
PoolInv ==
    /\ slot.state = "Running" => slot.buffer = slot.streaming
    /\ worker.at = "Start, claim" => worker.saw = slot.streaming

\* The worker chooses the pool by the flag it read.
LEMMA WorkerKeepsPool ==
    ASSUME ScheduleInv, PoolInv, WorkerStep PROVE PoolInv'
<1> USE DEF OwnerInv, Shapes, SlotType, WorkerType, ScheduleInv, OneOwner,
            Publishing, ChunkStages, Returns, PoolInv
<1>1. CASE Wake BY <1>1 DEF Wake, Stage
<1>2. CASE Retire BY <1>2 DEF Retire, Retires, Stage, Publish
<1>3. CASE ~Retires /\ PassOn("Retire", "Resume")
  BY <1>3 DEF PassOn, Stage, GoOn, Retires
<1>4. CASE CompleteStream BY <1>4 DEF CompleteStream, Drained, Stage, Publish
<1>5. CASE Unpause BY <1>5 DEF Unpause, Drained, Stage, GoOn
<1>6. CASE UnpauseFails BY <1>6 DEF UnpauseFails, Drained, Stage, Publish
<1>7. CASE ~Drained /\ PassOn("Resume", "Start")
  BY <1>7 DEF PassOn, Stage, GoOn, Drained
<1>8. CASE StartLook BY <1>8 DEF StartLook, Stage
<1>9. CASE NoBuffer BY <1>9 DEF NoBuffer, PassOn, Stage, GoOn, AfterStart
<1>10. CASE ClaimCancelled
  BY <1>10 DEF ClaimCancelled, Stage, Publish, AfterStart
<1>11. CASE PassOn("Start, claim cancelled", AfterStart)
  BY <1>11 DEF PassOn, Stage, GoOn, AfterStart
<1>12. CASE Claim BY <1>12 DEF Claim, Stage, GoOn
<1>13. CASE PassOn("Start, claim", AfterStart)
  BY <1>13 DEF PassOn, Stage, GoOn, AfterStart
<1>14. CASE Configure
  BY <1>14 DEF Configure, Configured, Stage, GoOn, AfterStart
<1>15. CASE ConfigureFails
  BY <1>15 DEF ConfigureFails, Configured, Stage, Publish, AfterStart
<1>16. CASE ExpireDeadline BY <1>16 DEF ExpireDeadline, Stage, Deliver
<1>17. CASE EnterPerform BY <1>17 DEF EnterPerform, Stage
<1>18. CASE BodyHeld BY <1>18 DEF BodyHeld, InTransfer, Stage
<1>19. CASE AppendLast
  BY <1>19 DEF AppendLast, Append, ChunkIsFull, InTransfer, Stage
<1>20. CASE Append /\ ~ChunkIsFull /\ UNCHANGED worker
  BY <1>20 DEF Append, ChunkIsFull, InTransfer, Stage
<1>21. CASE TransferEnds BY <1>21 DEF TransferEnds, InTransfer, Stage
<1>22. CASE LeavePerform BY <1>22 DEF LeavePerform, Stage
<1>23. CASE Finish BY <1>23 DEF Finish, Again, Deliver, Stage
<1>24. CASE Collect /\ ~Finish BY <1>24 DEF Collect, Again, Stage
<1>25. CASE PerformFails BY <1>25 DEF PerformFails, Publish, Stage
<1>26. CASE PassOn("Check", "Waiting") BY <1>26 DEF PassOn, Stage, GoOn
<1>27. CASE ChunkFound BY <1>27 DEF ChunkFound, Stage
<1>28. CASE slot.length = 0 /\ PassOn("Chunk, look", worker.next)
  BY <1>28 DEF PassOn, Stage, GoOn
<1>29. CASE ChunkBytes BY <1>29 DEF ChunkBytes, Stage
<1>30. CASE ChunkReady BY <1>30 DEF ChunkReady, Stage, GoOn
<1>31. CASE PublishLoad BY <1>31 DEF PublishLoad, Stage
<1>32. CASE PublishStore BY <1>32 DEF PublishStore, Stage, GoOn
<1> QED BY <1>1, <1>2, <1>3, <1>4, <1>5, <1>6, <1>7, <1>8, <1>9, <1>10, <1>11,
         <1>12, <1>13, <1>14, <1>15, <1>16, <1>17, <1>18, <1>19, <1>20, <1>21,
         <1>22, <1>23, <1>24, <1>25, <1>26, <1>27, <1>28, <1>29, <1>30, <1>31,
         <1>32 DEF WorkerStep, RetireCancelled, ResumeStream,
         StartClaimCancelled, StartClaim, StartConfigure, ReceiveBody, Collect,
         EndTurn, ChunkLook

\* The browser does not run between the two steps, and fills no running slot.
LEMMA BrowserKeepsPool ==
    ASSUME ScheduleInv, PoolInv, BrowserStep PROVE PoolInv'
<1>a. worker.at # "Start, claim"
  <2> SUFFICES BrowserRuns
    BY DEF ScheduleInv, Scheduled, BrowserRuns
  <2> QED BY DEF BrowserStep, BrowserInCall, Present, Enqueue, EnqueueFill,
          EnqueueQueue, TakeChunk, ChunkClaim, ClaimReady, ChunkCopy,
          ChunkLeft, ChunkStore, TakeResult, ResultFree, Cancel, CancelFlag,
          CancelChunk, CancelReady, CancelClear, CancelQueued, FreeQueued,
          CancelComplete, Return, Call
<1>b. worker' = worker
  BY DEF BrowserStep, BrowserInCall, Present, Enqueue, EnqueueFill,
         EnqueueQueue, TakeChunk, ChunkClaim, ClaimReady, ChunkCopy,
         ChunkLeft, ChunkStore, TakeResult, ResultFree, Cancel, CancelFlag,
         CancelChunk, CancelReady, CancelClear, CancelQueued, FreeQueued,
         CancelComplete, Return, Call
<1> USE <1>a, <1>b DEF OwnerInv, Shapes, SlotType, ScheduleInv, PoolInv
<1>1. CASE Present BY <1>1 DEF Present, Call
<1>2. CASE Enqueue BY <1>2 DEF Enqueue, Call, Go
<1>3. CASE EnqueueFill BY <1>3 DEF EnqueueFill, EmptySlot, Call, Go
<1>4. CASE EnqueueQueue BY <1>4 DEF EnqueueQueue, Call, Go
<1>5. CASE TakeChunk BY <1>5 DEF TakeChunk, Call
<1>6. CASE ClaimReady BY <1>6 DEF ClaimReady, Call, Go
<1>7. CASE slot.chunk # "Ready" /\ Return("Chunk, claim", "Idle")
  BY <1>7 DEF Return, Call, Go
<1>8. CASE ChunkCopy BY <1>8 DEF ChunkCopy, Call
<1>9. CASE ChunkLeft BY <1>9 DEF ChunkLeft, Call, Go
<1>10. CASE ChunkStore BY <1>10 DEF ChunkStore, Call
<1>11. CASE TakeResult BY <1>11 DEF TakeResult, Call, Go
<1>12. CASE ResultFree BY <1>12 DEF ResultFree, Call, Go
<1>13. CASE Cancel BY <1>13 DEF Cancel, Call, Go
<1>14. CASE CancelFlag BY <1>14 DEF CancelFlag, Call, Go
<1>15. CASE CancelReady BY <1>15 DEF CancelReady, ClaimsChunk, Call, Go
<1>16. CASE ~ClaimsChunk /\ Return("Cancel, chunk", "Cancel, queued")
  BY <1>16 DEF Return, Call, Go
<1>17. CASE CancelClear BY <1>17 DEF CancelClear, Call, Go
<1>18. CASE FreeQueued BY <1>18 DEF FreeQueued, Call, Go
<1>19. CASE slot.state # "Queued"
              /\ Return("Cancel, queued", "Cancel, complete")
  BY <1>19 DEF Return, Call, Go
<1>20. CASE CancelComplete BY <1>20 DEF CancelComplete, Call, Go
<1> QED BY <1>1, <1>2, <1>3, <1>4, <1>5, <1>6, <1>7, <1>8, <1>9, <1>10, <1>11,
         <1>12, <1>13, <1>14, <1>15, <1>16, <1>17, <1>18, <1>19, <1>20 DEF
         BrowserStep, BrowserInCall, ChunkClaim, CancelChunk, CancelQueued

\* A request runs in a buffer of its own pool, by the flag that finds the
\* buffer again and counts it as taken (fetch_background_slot_buffer,
\* fetch_background_find_buffer).
THEOREM BuffersOfTheirPool ==
    ASSUME Presenting = FALSE PROVE Spec => []BufferOfItsPool
<1>1. Init => PoolInv
  BY DEF Init, EmptySlot, PoolInv
<1>2. ScheduleInv /\ PoolInv /\ [Next]_vars => PoolInv'
  <2> SUFFICES ASSUME ScheduleInv, PoolInv, [Next]_vars PROVE PoolInv'
    OBVIOUS
  <2>1. CASE UNCHANGED vars
    BY <2>1 DEF vars, PoolInv
  <2> QED BY <2>1, WorkerKeepsPool, BrowserKeepsPool DEF Next
<1>3. PoolInv => BufferOfItsPool
  BY DEF PoolInv, BufferOfItsPool
<1> QED BY <1>1, <1>2, <1>3, ScheduleInvHolds, PTL DEF Spec

\* The worker starts, finishes or retires the lease, or leaves it as it is.
LEMMA WorkerStepIsLeaseStep ==
    ASSUME ScheduleInv, WorkerStep PROVE Lease!Next \/ Held' = Held
<1> USE DEF OwnerInv, ScheduleInv, Shapes, SlotType, WorkerType, BrowserType,
            OneOwner, HandleWhileRunning, ChunkStages, Publishing, Filling,
            Flags, NoOrphan, Cancelling, Held, Lease!Next, Lease!Move,
            Lease!Take, Lease!Start, Lease!Finish, Lease!Consume, Lease!Cancel,
            Lease!Retire
<1>1. CASE Wake BY <1>1 DEF Wake, Stage
<1>2. CASE Retire BY <1>2 DEF Retire, Retires, Stage, Publish
<1>3. CASE ~Retires /\ PassOn("Retire", "Resume")
  BY <1>3 DEF PassOn, Stage, GoOn, Retires
<1>4. CASE CompleteStream BY <1>4 DEF CompleteStream, Drained, Stage, Publish
<1>5. CASE Unpause BY <1>5 DEF Unpause, Drained, Stage, GoOn
<1>6. CASE UnpauseFails BY <1>6 DEF UnpauseFails, Drained, Stage, Publish
<1>7. CASE ~Drained /\ PassOn("Resume", "Start")
  BY <1>7 DEF PassOn, Stage, GoOn, Drained
<1>8. CASE StartLook BY <1>8 DEF StartLook, Stage
<1>9. CASE NoBuffer BY <1>9 DEF NoBuffer, PassOn, Stage, GoOn, AfterStart
<1>10. CASE ClaimCancelled
  BY <1>10 DEF ClaimCancelled, Stage, Publish, AfterStart
<1>11. CASE PassOn("Start, claim cancelled", AfterStart)
  BY <1>11 DEF PassOn, Stage, GoOn, AfterStart
<1>12. CASE Claim BY <1>12 DEF Claim, Stage, GoOn
<1>13. CASE PassOn("Start, claim", AfterStart)
  BY <1>13 DEF PassOn, Stage, GoOn, AfterStart
<1>14. CASE Configure
  BY <1>14 DEF Configure, Configured, Stage, GoOn, AfterStart
<1>15. CASE ConfigureFails
  BY <1>15 DEF ConfigureFails, Configured, Stage, Publish, AfterStart
<1>16. CASE ExpireDeadline BY <1>16 DEF ExpireDeadline, Stage, Deliver
<1>17. CASE EnterPerform BY <1>17 DEF EnterPerform, Stage
<1>18. CASE BodyHeld BY <1>18 DEF BodyHeld, InTransfer, Stage
<1>19. CASE AppendLast
  BY <1>19 DEF AppendLast, Append, ChunkIsFull, InTransfer, Stage
<1>20. CASE Append /\ ~ChunkIsFull /\ UNCHANGED worker
  BY <1>20 DEF Append, ChunkIsFull, InTransfer, Stage
<1>21. CASE TransferEnds BY <1>21 DEF TransferEnds, InTransfer, Stage
<1>22. CASE LeavePerform BY <1>22 DEF LeavePerform, Stage
<1>23. CASE Finish BY <1>23 DEF Finish, Again, Deliver, Stage
<1>24. CASE Collect /\ ~Finish BY <1>24 DEF Collect, Again, Stage
<1>25. CASE PerformFails BY <1>25 DEF PerformFails, Publish, Stage
<1>26. CASE PassOn("Check", "Waiting") BY <1>26 DEF PassOn, Stage, GoOn
<1>27. CASE ChunkFound BY <1>27 DEF ChunkFound, Stage
<1>28. CASE slot.length = 0 /\ PassOn("Chunk, look", worker.next)
  BY <1>28 DEF PassOn, Stage, GoOn
<1>29. CASE ChunkBytes BY <1>29 DEF ChunkBytes, Stage
<1>30. CASE ChunkReady BY <1>30 DEF ChunkReady, Stage, GoOn
<1>31. CASE PublishLoad BY <1>31 DEF PublishLoad, Stage
<1>32. CASE PublishStore BY <1>32 DEF PublishStore, Stage, GoOn
<1> QED BY <1>1, <1>2, <1>3, <1>4, <1>5, <1>6, <1>7, <1>8, <1>9, <1>10, <1>11,
         <1>12, <1>13, <1>14, <1>15, <1>16, <1>17, <1>18, <1>19, <1>20, <1>21,
         <1>22, <1>23, <1>24, <1>25, <1>26, <1>27, <1>28, <1>29, <1>30, <1>31,
         <1>32 DEF WorkerStep, RetireCancelled, ResumeStream,
         StartClaimCancelled, StartClaim, StartConfigure, ReceiveBody, Collect,
         EndTurn, ChunkLook

\* The browser takes, consumes or cancels it.
LEMMA BrowserStepIsLeaseStep ==
    ASSUME ScheduleInv, BrowserStep PROVE Lease!Next \/ Held' = Held
<1> USE DEF OwnerInv, ScheduleInv, Shapes, SlotType, WorkerType, BrowserType,
            OneOwner, HandleWhileRunning, ChunkStages, Publishing, Filling,
            Flags, NoOrphan, Cancelling, Held, Lease!Next, Lease!Move,
            Lease!Take, Lease!Start, Lease!Finish, Lease!Consume, Lease!Cancel,
            Lease!Retire
<1>1. CASE Present BY <1>1 DEF Present, Call
<1>2. CASE Enqueue BY <1>2 DEF Enqueue, Call, Go
<1>3. CASE EnqueueFill BY <1>3 DEF EnqueueFill, EmptySlot, Call, Go
<1>4. CASE EnqueueQueue BY <1>4 DEF EnqueueQueue, Call, Go
<1>5. CASE TakeChunk BY <1>5 DEF TakeChunk, Call
<1>6. CASE ClaimReady BY <1>6 DEF ClaimReady, Call, Go
<1>7. CASE slot.chunk # "Ready" /\ Return("Chunk, claim", "Idle")
  BY <1>7 DEF Return, Call, Go
<1>8. CASE ChunkCopy BY <1>8 DEF ChunkCopy, Call
<1>9. CASE ChunkLeft BY <1>9 DEF ChunkLeft, Call, Go
<1>10. CASE ChunkStore BY <1>10 DEF ChunkStore, Call
<1>11. CASE TakeResult BY <1>11 DEF TakeResult, Call, Go
<1>12. CASE ResultFree BY <1>12 DEF ResultFree, Call, Go
<1>13. CASE Cancel BY <1>13 DEF Cancel, Call, Go
<1>14. CASE CancelFlag BY <1>14 DEF CancelFlag, Call, Go
<1>15. CASE CancelReady BY <1>15 DEF CancelReady, ClaimsChunk, Call, Go
<1>16. CASE ~ClaimsChunk /\ Return("Cancel, chunk", "Cancel, queued")
  BY <1>16 DEF Return, Call, Go
<1>17. CASE CancelClear BY <1>17 DEF CancelClear, Call, Go
<1>18. CASE FreeQueued BY <1>18 DEF FreeQueued, Call, Go
<1>19. CASE slot.state # "Queued"
              /\ Return("Cancel, queued", "Cancel, complete")
  BY <1>19 DEF Return, Call, Go
<1>20. CASE CancelComplete BY <1>20 DEF CancelComplete, Call, Go
<1> QED BY <1>1, <1>2, <1>3, <1>4, <1>5, <1>6, <1>7, <1>8, <1>9, <1>10, <1>11,
         <1>12, <1>13, <1>14, <1>15, <1>16, <1>17, <1>18, <1>19, <1>20 DEF
         BrowserStep, BrowserInCall, ChunkClaim, CancelChunk, CancelQueued

\* The safety half of the refinement: the slot only moves as a lease may.
THEOREM SlotMovesAsALease ==
    ASSUME Presenting = FALSE PROVE Spec => Lease!Init /\ [][Lease!Next]_Held
<1>1. Init => Lease!Init
  BY DEF Init, EmptySlot, Held, Lease!Init
<1>2. ScheduleInv /\ [Next]_vars => [Lease!Next]_Held
  <2> SUFFICES ASSUME ScheduleInv, [Next]_vars
               PROVE  Lease!Next \/ Held' = Held
    OBVIOUS
  <2>1. CASE UNCHANGED vars
    BY <2>1 DEF vars, Held, Filling
  <2> QED BY <2>1, WorkerStepIsLeaseStep, BrowserStepIsLeaseStep DEF Next
<1> QED BY <1>1, <1>2, ScheduleInvHolds, PTL DEF Spec

=============================================================================
