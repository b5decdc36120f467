------------------------ MODULE DecoderPipelineProofs ------------------------
(***************************************************************************)
(* Proofs about the hand-offs of the software decoder, for any number of   *)
(* surfaces, sound blocks, draws and generations.                          *)
(*                                                                         *)
(* The pictures and the sound are two arguments that meet in a seek: each  *)
(* says who may touch which memory, and the last part of the invariant is  *)
(* that the seek's own steps run while nobody else does.                   *)
(***************************************************************************)
EXTENDS DecoderPipeline, SequenceTheorems, FiniteSetTheorems, TLAPS

JobShape == [state : {"READY", "RUNNING", "DONE"}, slot : Slots,
             flush : BOOLEAN, result : {"ok", "error", "late"}, old : BOOLEAN]

SlotShape == [state : {"FREE", "WRITING", "READY", "READING"}, readers : Nat,
              claimed : BOOLEAN, retire : BOOLEAN, old : BOOLEAN]

MaybeSlot == Slots \cup {NoSlot}

FrameShape == [slot : MaybeSlot, fresh : BOOLEAN, old : BOOLEAN,
               last : MaybeSlot]

Reclaiming == {"withdraw", "join"}
Doing == {"bind", "decode", "closed", "offer", "converted", "drop", "publish"}
Places == {"wait", "finish"} \cup Reclaiming \cup Doing

RingShape == ring \in Seq(JobShape) /\ Len(ring) \in 0 .. 2

WorkerShape ==
    /\ worker \in [at : Places, then : Places]
    /\ worker.at \in Reclaiming => worker.then \in Doing
    /\ worker.at \notin Reclaiming => worker.then = worker.at

ClaimShape == claim \in [active : MaybeSlot, busy : MaybeSlot]

EngineShape ==
    engine \in [alive : BOOLEAN, at : {"idle", "seen", "announced", "batch"},
                slot : MaybeSlot]

\* At most one job runs, and exactly while the worker is at one.
OneRuns ==
    /\ \A m, n \in InState("RUNNING") : m = n
    /\ worker.at # "wait" <=> InState("RUNNING") # {}

\* The words of the handshake tell the surface of the job that runs, and only
\* where the worker is going to take it back before it goes on.
HandShake ==
    /\ ~engine.alive => engine.at = "idle"
    /\ engine.at \in {"idle", "seen"} => claim.busy = NoSlot
    /\ engine.at \in {"announced", "batch"} => claim.busy = engine.slot
    /\ engine.at # "idle" => engine.slot # NoSlot
    /\ claim.active # NoSlot =>
           /\ worker.at \in {"decode", "withdraw"} /\ claim.active = Surface
           /\ worker.at = "decode" => Prebinds(Job)
    /\ engine.at = "batch" =>
           /\ worker.at \in {"decode", "withdraw", "join"}
           /\ engine.slot = Surface
           /\ worker.at = "decode" => Prebinds(Job)
    /\ worker.then = "bind" => Prebinds(Job)

\* The job at n is still to write its surface.
Writes(n) ==
    ring[n].state = "READY" \/ (ring[n].state = "RUNNING"
                                   /\ worker.at # "finish")

\* A surface is being written exactly for one job.
Written ==
    /\ \A n \in DOMAIN ring :
           Writes(n) => slots[ring[n].slot].state = "WRITING"
    /\ \A m, n \in DOMAIN ring :
           Writes(m) /\ Writes(n) /\ ring[m].slot = ring[n].slot => m = n
    /\ \A s \in Slots : slots[s].state = "WRITING" =>
           \E n \in DOMAIN ring : Writes(n) /\ ring[n].slot = s

\* What is shown was claimed last, unless its surface was given back since.
Sane(slot, last) ==
    /\ slot.readers > 0 <=> slot.state = "READING"
    /\ slot.claimed <=> last
    /\ slot.state = "READING" => slot.claimed # slot.retire
    /\ slot.state # "READING" => ~slot.retire
    /\ slot.state \in {"FREE", "WRITING"} => ~slot.claimed

Shown ==
    /\ \A s \in Slots : Sane(slots[s], frame.last = s)
    /\ frame.fresh /\ frame.slot # NoSlot =>
           \/ frame.last = frame.slot
           \/ frame.last = NoSlot
                 /\ slots[frame.slot].state \in {"FREE", "WRITING"}

PictureInv ==
    /\ RingShape /\ slots \in [Slots -> SlotShape] /\ frame \in FrameShape
    /\ WorkerShape /\ ClaimShape /\ EngineShape /\ stream \in StreamKinds
    /\ OneRuns /\ HandShake /\ Written /\ Shown

-----------------------------------------------------------------------------
\* The job ring.

LEMMA NoSlotOut == NoSlot \notin Slots
BY PipelineAssumption DEF NoSlot, Slots

LEMMA Jobs ==
    RingShape => \A n \in DOMAIN ring :
                     ring[n] \in JobShape /\ ring[n].slot \in Slots
<1>1. RingShape => \A n \in DOMAIN ring : ring[n] \in JobShape
  BY DEF RingShape
<1> QED BY <1>1 DEF JobShape

LEMMA JobsNext ==
    (RingShape => \A n \in DOMAIN ring :
                      ring[n] \in JobShape /\ ring[n].slot \in Slots)'
BY Jobs, PTL

LEMMA RunningIs ==
    RingShape /\ OneRuns =>
        \A n \in InState("RUNNING") :
            Running = n /\ Job = ring[n] /\ Surface = ring[n].slot
<1> SUFFICES ASSUME RingShape, OneRuns, NEW n \in InState("RUNNING")
             PROVE  Running = n /\ Job = ring[n] /\ Surface = ring[n].slot
  OBVIOUS
<1>1. InState("RUNNING") = {n} /\ n \in Nat
  BY DEF OneRuns, InState, RingShape
<1>2. Max({n}) = n
  BY <1>1 DEF Max
<1> QED BY <1>1, <1>2 DEF Running, Job, Surface

LEMMA RunningIsNext ==
    (RingShape /\ OneRuns =>
        \A n \in InState("RUNNING") :
            Running = n /\ Job = ring[n] /\ Surface = ring[n].slot)'
BY RunningIs, PTL

\* The oldest jobs that are done are collected, and only those.
LEMMA CollectedIs ==
    ASSUME RingShape
    PROVE  /\ Collected \in 0 .. Len(ring)
           /\ \A m \in 1 .. Collected : ring[m].state = "DONE"
<1> DEFINE P(n) == /\ \A m \in 1 .. n : ring[m].state = "DONE"
                   /\ n < Len(ring) => ring[n + 1].state # "DONE"
<1>1. \E n \in 0 .. Len(ring) : P(n)
  <2>1. CASE Len(ring) = 0
    BY <2>1
  <2>2. CASE Len(ring) = 1
    <3>1. P(0) \/ P(1)
      BY <2>2
    <3> QED BY <2>2, <3>1
  <2>3. CASE Len(ring) = 2
    <3>1. P(0) \/ P(1) \/ P(2)
      BY <2>3
    <3> QED BY <2>3, <3>1
  <2> QED BY <2>1, <2>2, <2>3 DEF RingShape
<1>2. Collected = CHOOSE n \in 0 .. Len(ring) : P(n)
  BY DEF Collected
<1> HIDE DEF P
<1>3. Collected \in 0 .. Len(ring) /\ P(Collected)
  BY <1>1, <1>2
<1> QED BY <1>3 DEF P

\* The ring r holds at the places D what ring holds at those f tells, and
\* nothing but jobs that are done was left behind.
Carries(r, D, f) ==
    /\ D \subseteq DOMAIN r /\ f \in [D -> DOMAIN ring]
    /\ \A m, n \in D : f[m] = f[n] => m = n
    /\ \A n \in D : r[n] = ring[f[n]]
    /\ \A m \in DOMAIN ring :
           ring[m].state # "DONE" => \E n \in D : f[n] = m

LEMMA KeptIs ==
    ASSUME RingShape
    PROVE  /\ Kept \in Seq(JobShape) /\ Len(Kept) \in 0 .. 2
           /\ DOMAIN Kept = 1 .. Len(Kept)
           /\ \E f : Carries(Kept, DOMAIN Kept, f)
<1> DEFINE k == Collected
           len == Len(ring)
<1>1. /\ k \in 0 .. len
      /\ \A m \in 1 .. k : ring[m].state = "DONE"
  BY CollectedIs
<1>2. /\ ring \in Seq(JobShape) /\ len \in 0 .. 2
      /\ DOMAIN ring = 1 .. len /\ \A i \in 1 .. len : ring[i] \in JobShape
  BY DEF RingShape
<1>3. Kept = SubSeq(ring, k + 1, len)
  BY DEF Kept
<1> HIDE DEF k, len
<1>4. /\ k + 1 \in Int /\ len \in Int
      /\ \A i \in k + 1 .. len : ring[i] \in JobShape
  BY <1>1, <1>2
<1>5. /\ SubSeq(ring, k + 1, len) \in Seq(JobShape)
      /\ Len(SubSeq(ring, k + 1, len)) =
             IF k + 1 <= len THEN len - (k + 1) + 1 ELSE 0
      /\ \A i \in 1 .. len - (k + 1) + 1 :
             SubSeq(ring, k + 1, len)[i] = ring[k + 1 + i - 1]
  BY <1>4, SubSeqProperties
<1>6. Kept \in Seq(JobShape) /\ Len(Kept) = len - k
  BY <1>1, <1>2, <1>3, <1>5
<1>7. DOMAIN Kept = 1 .. len - k
  BY <1>6, LenProperties
<1>8. \A n \in DOMAIN Kept : n + k \in 1 .. len /\ Kept[n] = ring[n + k]
  BY <1>1, <1>2, <1>3, <1>5, <1>7
<1> DEFINE f == [n \in DOMAIN Kept |-> n + k]
<1>9. /\ f \in [DOMAIN Kept -> DOMAIN ring]
      /\ \A n \in DOMAIN Kept : f[n] = n + k /\ Kept[n] = ring[f[n]]
  BY <1>2, <1>8
<1>10. \A m, n \in DOMAIN Kept : f[m] = f[n] => m = n
  BY <1>1, <1>7, <1>9
<1>11. \A m \in DOMAIN ring :
          ring[m].state # "DONE" => \E n \in DOMAIN Kept : f[n] = m
  <2> SUFFICES ASSUME NEW m \in DOMAIN ring, ring[m].state # "DONE"
               PROVE  \E n \in DOMAIN Kept : f[n] = m
    OBVIOUS
  <2>1. m \in 1 .. len /\ m \notin 1 .. k
    BY <1>1, <1>2
  <2>2. m - k \in 1 .. len - k /\ (m - k) + k = m
    BY <2>1, <1>1, <1>2
  <2> QED BY <2>2, <1>7, <1>9
<1>12. Carries(Kept, DOMAIN Kept, f)
  BY <1>9, <1>10, <1>11 DEF Carries
<1>13. Len(Kept) \in 0 .. 2
  BY <1>1, <1>2, <1>6
<1> QED BY <1>6, <1>7, <1>12, <1>13

LEMMA HandedOver ==
    ASSUME RingShape, Len(Kept) < Depth, NEW job \in JobShape
    PROVE  LET r == Append(Kept, job)
           IN  /\ r \in Seq(JobShape) /\ Len(r) \in 0 .. 2
               /\ \E new \in DOMAIN r :
                     r[new] = job /\ \E f : Carries(r, DOMAIN r \ {new}, f)
<1> DEFINE r == Append(Kept, job)
           new == Len(Kept) + 1
<1>1. /\ Kept \in Seq(JobShape) /\ Len(Kept) \in 0 .. 2
      /\ DOMAIN Kept = 1 .. Len(Kept)
  BY KeptIs
<1>2. PICK f : Carries(Kept, DOMAIN Kept, f)
  BY KeptIs
<1>3. /\ r \in Seq(JobShape) /\ Len(r) = new
      /\ \A i \in 1 .. Len(Kept) : r[i] = Kept[i]
      /\ r[new] = job
  BY <1>1, AppendProperties
<1>4. Len(r) \in 0 .. 2
  BY <1>1, <1>3, PipelineAssumption
<1>5. DOMAIN r = 1 .. new
  BY <1>3, LenProperties
<1>6. DOMAIN r \ {new} = DOMAIN Kept /\ new \in DOMAIN r
  BY <1>1, <1>5
<1> HIDE DEF r, new
<1>7. Carries(r, DOMAIN r \ {new}, f)
  BY <1>1, <1>2, <1>3, <1>6 DEF Carries
<1> QED BY <1>3, <1>4, <1>6, <1>7 DEF r

-----------------------------------------------------------------------------
\* The same job goes on running: what tells its surface stays true.

JobGoesOn ==
    \A n \in InState("RUNNING") : \E m \in InState("RUNNING")' :
        ring'[m].slot = ring[n].slot /\ ring'[m].flush = ring[n].flush

LEMMA SameJob ==
    ASSUME RingShape, OneRuns, RingShape', OneRuns', JobGoesOn,
           worker.at # "wait", stream' = stream
    PROVE  Surface' = Surface /\ (Prebinds(Job) <=> Prebinds(Job)')
<1>1. PICK n \in InState("RUNNING") : TRUE
  BY DEF OneRuns
<1>2. PICK m \in InState("RUNNING")' :
          ring'[m].slot = ring[n].slot /\ ring'[m].flush = ring[n].flush
  BY <1>1 DEF JobGoesOn
<1>3. Job = ring[n] /\ Surface = ring[n].slot
  BY <1>1, RunningIs
<1>4. Job' = ring'[m] /\ Surface' = ring'[m].slot
  BY <1>2, RunningIsNext
<1> QED BY <1>2, <1>3, <1>4 DEF Prebinds

\* The engine is as it was, or was started again.
EngineWakes ==
    \/ engine' = engine
    \/ ~engine.alive /\ engine' = [engine EXCEPT !.alive = TRUE]

LEMMA HandShakeStays ==
    ASSUME RingShape, WorkerShape, EngineShape, OneRuns, HandShake,
           RingShape', OneRuns', JobGoesOn,
           worker' = worker, stream' = stream, claim' = claim, EngineWakes
    PROVE  HandShake' /\ EngineShape' /\ WorkerShape'
<1>1. WorkerShape'
  BY DEF WorkerShape
<1>2. EngineShape' /\ engine'.at = engine.at /\ engine'.slot = engine.slot
          /\ (engine.alive => engine'.alive)
  BY DEF EngineWakes, EngineShape
<1>3. CASE worker.at = "wait"
  <2>1. worker.then # "bind" /\ claim.active = NoSlot /\ engine.at # "batch"
    BY <1>3 DEF WorkerShape, HandShake, Reclaiming
  <2> QED BY <1>1, <1>2, <1>3, <2>1 DEF HandShake
<1>4. CASE worker.at # "wait"
  <2>1. Surface' = Surface /\ (Prebinds(Job) <=> Prebinds(Job)')
    BY <1>4, SameJob
  <2> QED BY <1>1, <1>2, <2>1 DEF HandShake
<1> QED BY <1>1, <1>2, <1>3, <1>4

-----------------------------------------------------------------------------
\* The browser collects, and hands over.

LEMMA Collects ==
    ASSUME PictureInv, ring' = Kept, EngineWakes,
           UNCHANGED <<stream, slots, frame, worker, claim>>
    PROVE  PictureInv'
<1>1. RingShape'
  BY KeptIs DEF PictureInv, RingShape
<1>2. PICK f : Carries(ring', DOMAIN ring', f)
  BY KeptIs DEF PictureInv
<1>3. OneRuns' /\ JobGoesOn
  BY <1>2 DEF PictureInv, OneRuns, InState, Carries, JobGoesOn
<1>4. HandShake' /\ EngineShape' /\ WorkerShape'
  BY <1>1, <1>3, HandShakeStays DEF PictureInv
<1>5. Written'
  <2>1. \A n \in DOMAIN ring' : f[n] \in DOMAIN ring /\ ring'[n] = ring[f[n]]
    BY <1>2 DEF Carries
  <2>2. \A n \in DOMAIN ring' : Writes(n)' <=> Writes(f[n])
    BY <2>1 DEF Writes
  <2>3. \A m \in DOMAIN ring : Writes(m) => \E n \in DOMAIN ring' : f[n] = m
    BY <1>2 DEF Carries, Writes
  <2>4. \A m, n \in DOMAIN ring' : f[m] = f[n] => m = n
    BY <1>2 DEF Carries
  <2> QED BY <2>1, <2>2, <2>3, <2>4 DEF PictureInv, Written
<1>6. Shown' /\ ClaimShape'
  BY DEF PictureInv, Shown, Sane, ClaimShape
<1> QED BY <1>1, <1>3, <1>4, <1>5, <1>6 DEF PictureInv

LEMMA HandsOver ==
    ASSUME PictureInv, Len(Kept) < Depth, EngineWakes,
           NEW s \in SlotsIn("FREE"), NEW flush \in BOOLEAN,
           ring' = Append(Kept, NewJob(s, flush)),
           slots' = [slots EXCEPT ![s].state = "WRITING"],
           UNCHANGED <<stream, frame, worker, claim>>
    PROVE  PictureInv'
<1> DEFINE job == NewJob(s, flush)
<1>0. s \in Slots /\ slots[s].state = "FREE"
  BY DEF SlotsIn
<1>1. job \in JobShape /\ job.state = "READY" /\ job.slot = s
  BY <1>0 DEF JobShape, NewJob
<1> HIDE DEF job
<1>2. RingShape' /\ \E n \in DOMAIN ring' :
          ring'[n] = job /\ \E f : Carries(ring', DOMAIN ring' \ {n}, f)
  BY <1>1, HandedOver DEF PictureInv, RingShape, job
<1>3. PICK new \in DOMAIN ring' :
          ring'[new] = job /\ \E f : Carries(ring', DOMAIN ring' \ {new}, f)
  BY <1>2
<1> DEFINE D == DOMAIN ring' \ {new}
<1>4. PICK f : Carries(ring', D, f)
  BY <1>3
<1>5. /\ \A n \in D : f[n] \in DOMAIN ring /\ ring'[n] = ring[f[n]]
      /\ \A m, n \in D : f[m] = f[n] => m = n
      /\ \A m \in DOMAIN ring :
             ring[m].state # "DONE" => \E n \in D : f[n] = m
  BY <1>4 DEF Carries
<1>6. ring'[new].state = "READY" /\ ring'[new].slot = s
  BY <1>1, <1>3
<1>7. OneRuns' /\ JobGoesOn
  BY <1>5, <1>6 DEF PictureInv, OneRuns, InState, JobGoesOn
<1>8. HandShake' /\ EngineShape' /\ WorkerShape'
  BY <1>2, <1>7, HandShakeStays DEF PictureInv
<1>9. /\ slots' \in [Slots -> SlotShape]
      /\ \A t \in Slots : t # s => slots'[t] = slots[t]
      /\ slots'[s] = [slots[s] EXCEPT !.state = "WRITING"]
      /\ slots[s] \in SlotShape
  BY <1>0 DEF PictureInv, SlotShape
<1>10. /\ slots'[s].state = "WRITING" /\ slots'[s].readers = slots[s].readers
       /\ slots'[s].claimed = slots[s].claimed
       /\ slots'[s].retire = slots[s].retire
  BY <1>9 DEF SlotShape
<1>11. Written'
  <2>1. \A n \in D : Writes(n)' <=> Writes(f[n])
    BY <1>5 DEF Writes
  <2>2. \A m \in DOMAIN ring : Writes(m) => \E n \in D : f[n] = m
    BY <1>5 DEF Writes
  <2>3. Writes(new)'
    BY <1>6 DEF Writes
  <2>4. \A n \in D : Writes(n)' =>
           ring'[n].slot # s /\ slots[ring'[n].slot].state = "WRITING"
    BY <1>0, <1>5, <2>1 DEF PictureInv, Written
  <2>5. \A n \in D : ring'[n].slot \in Slots
    BY <1>2, JobsNext
  <2>6. \A n \in DOMAIN ring' :
           Writes(n)' => slots'[ring'[n].slot].state = "WRITING"
    BY <1>6, <1>9, <1>10, <2>4, <2>5
  <2>7. \A m, n \in DOMAIN ring' :
           Writes(m)' /\ Writes(n)' /\ ring'[m].slot = ring'[n].slot => m = n
    BY <1>5, <1>6, <2>1, <2>4 DEF PictureInv, Written
  <2>8. \A t \in Slots : slots'[t].state = "WRITING" =>
           \E n \in DOMAIN ring' : Writes(n)' /\ ring'[n].slot = t
    <3> SUFFICES ASSUME NEW t \in Slots, slots'[t].state = "WRITING"
                 PROVE  \E n \in DOMAIN ring' : Writes(n)' /\ ring'[n].slot = t
      OBVIOUS
    <3>1. CASE t = s
      BY <3>1, <1>6, <2>3
    <3>2. CASE t # s
      <4>1. PICK m \in DOMAIN ring : Writes(m) /\ ring[m].slot = t
        BY <3>2, <1>9 DEF PictureInv, Written
      <4> QED BY <4>1, <2>1, <2>2, <1>5
    <3> QED BY <3>1, <3>2
  <2> HIDE DEF D
  <2> QED BY <2>6, <2>7, <2>8 DEF Written
<1>12. Shown'
  <2>1. \A t \in Slots : Sane(slots'[t], frame'.last = t)
    BY <1>0, <1>9, <1>10 DEF PictureInv, Shown, Sane, SlotShape
  <2>2. frame' = frame /\ frame.slot \in MaybeSlot
    BY DEF PictureInv, FrameShape
  <2>3. \A t \in Slots : slots[t].state \in {"FREE", "WRITING"} =>
           slots'[t].state \in {"FREE", "WRITING"}
    BY <1>9, <1>10
  <2> QED BY <2>1, <2>2, <2>3 DEF PictureInv, Shown, MaybeSlot
<1>13. ClaimShape'
  BY DEF PictureInv, ClaimShape
<1> QED BY <1>2, <1>7, <1>8, <1>9, <1>11, <1>12, <1>13 DEF PictureInv

-----------------------------------------------------------------------------
\* The browser takes pictures, drops them and draws them.

LEMMA Redraws ==
    ASSUME PictureInv, slots' \in [Slots -> SlotShape], frame' \in FrameShape,
           \A s \in Slots : slots'[s].state = "WRITING" <=>
                                slots[s].state = "WRITING",
           Shown', UNCHANGED <<stream, ring, worker, claim, engine>>
    PROVE  PictureInv'
<1>1. RingShape' /\ WorkerShape' /\ ClaimShape' /\ EngineShape' /\ OneRuns'
  BY DEF PictureInv, RingShape, WorkerShape, ClaimShape, EngineShape, OneRuns,
         InState
<1>2. JobGoesOn /\ EngineWakes
  BY DEF JobGoesOn, InState, EngineWakes
<1>3. HandShake'
  BY <1>1, <1>2, HandShakeStays DEF PictureInv
<1>4. \A n \in DOMAIN ring : ring[n].slot \in Slots
  BY Jobs DEF PictureInv
<1>5. Written'
  BY <1>4 DEF PictureInv, Written, Writes
<1> QED BY <1>1, <1>3, <1>5 DEF PictureInv

LEMMA FreedIs ==
    ASSUME NEW slot \in SlotShape, NEW x, x = Freed(slot)
    PROVE  /\ x \in SlotShape /\ x.state = "FREE" /\ ~x.claimed /\ ~x.retire
           /\ ~x.old /\ x.readers = slot.readers
BY DEF SlotShape, Freed

LEMMA LeftIs ==
    ASSUME NEW slot \in SlotShape, NEW x,
           x = [slot EXCEPT !.retire = TRUE, !.claimed = FALSE]
    PROVE  /\ x \in SlotShape /\ x.state = slot.state /\ x.retire
           /\ ~x.claimed /\ x.readers = slot.readers
BY DEF SlotShape

LEMMA LentIs ==
    ASSUME NEW slot \in SlotShape, NEW x,
           x = [slot EXCEPT !.state = "READING", !.readers = @ + 1]
    PROVE  /\ x \in SlotShape /\ x.state = "READING" /\ x.readers > 0
           /\ x.claimed = slot.claimed /\ x.retire = slot.retire
<1>1. slot.readers \in Nat
  BY DEF SlotShape
<1>2. PICK n \in Nat : n = slot.readers + 1 /\ n > 0
  BY <1>1
<1>3. x = [slot EXCEPT !.state = "READING", !.readers = n]
  BY <1>2
<1>4. x \in SlotShape /\ x.state = "READING" /\ x.readers = n
          /\ x.claimed = slot.claimed /\ x.retire = slot.retire
  BY <1>3 DEF SlotShape
<1> QED BY <1>2, <1>4

LEMMA TakeStep ==
    ASSUME PictureInv, Take
    PROVE  PictureInv'
<1>1. PICK s \in Takeable, late \in SUBSET Takeable :
          /\ s \notin late
          /\ slots' = [t \in Slots |->
                CASE t = s -> [slots[s] EXCEPT !.claimed = TRUE]
                  [] t \in late -> Freed(slots[t])
                  [] OTHER -> PriorReleased(s)[t]]
          /\ frame' = [slot |-> s, fresh |-> TRUE, old |-> slots[s].old,
                       last |-> s]
  BY DEF Take
<1>2. \A t \in Takeable : /\ t \in Slots /\ slots[t].state = "READY"
                           /\ ~slots[t].claimed /\ ~slots[t].retire
                           /\ slots[t].readers = 0 /\ frame.last # t
  BY DEF Takeable, SlotsIn, PictureInv, Shown, Sane, SlotShape
<1>3. \A t \in Slots : slots[t] \in SlotShape
  BY DEF PictureInv
<1>4. /\ slots'[s] = [slots[s] EXCEPT !.claimed = TRUE]
      /\ \A t \in late : slots'[t] = Freed(slots[t])
      /\ \A t \in Slots : t # s /\ t \notin late =>
             slots'[t] = IF t # frame.last THEN slots[t]
                         ELSE IF slots[t].readers = 0 THEN Freed(slots[t])
                         ELSE [slots[t] EXCEPT !.retire = TRUE,
                                               !.claimed = FALSE]
  <2>1. s \in Slots /\ late \subseteq Slots /\ frame.last # s
    BY <1>2
  <2>2. \A t \in Slots :
           PriorReleased(s)[t] =
              IF t # frame.last THEN slots[t]
              ELSE IF slots[t].readers = 0 THEN Freed(slots[t])
              ELSE [slots[t] EXCEPT !.retire = TRUE, !.claimed = FALSE]
    BY <2>1, NoSlotOut DEF PriorReleased, PictureInv
  <2> QED BY <1>1, <2>1, <2>2
<1>5. \A t \in Slots :
         /\ slots'[t] \in SlotShape
         /\ slots'[t].state = "WRITING" <=> slots[t].state = "WRITING"
         /\ Sane(slots'[t], s = t)
  <2> SUFFICES ASSUME NEW t \in Slots
               PROVE  /\ slots'[t] \in SlotShape
                      /\ slots'[t].state = "WRITING" <=>
                             slots[t].state = "WRITING"
                      /\ Sane(slots'[t], s = t)
    OBVIOUS
  <2>0. slots[t] \in SlotShape /\ Sane(slots[t], frame.last = t)
    BY <1>3 DEF PictureInv, Shown
  <2>1. CASE t = s
    BY <2>0, <2>1, <1>2, <1>4 DEF Sane, SlotShape
  <2>2. CASE t \in late
    BY <2>0, <2>2, <1>1, <1>2, <1>4 DEF Sane, SlotShape, Freed
  <2>3. CASE t # s /\ t \notin late /\ t # frame.last
    BY <2>0, <2>3, <1>4 DEF Sane
  <2>4. CASE t # s /\ t \notin late /\ t = frame.last /\ slots[t].readers = 0
    <3>1. slots'[t] = Freed(slots[t])
      BY <2>4, <1>4
    <3>2. /\ slots'[t] \in SlotShape /\ slots'[t].state = "FREE"
          /\ ~slots'[t].claimed /\ ~slots'[t].retire
          /\ slots'[t].readers = 0
      BY <3>1, <2>0, <2>4, FreedIs
    <3>3. slots[t].state # "WRITING"
      BY <2>0, <2>4 DEF Sane
    <3> QED BY <3>2, <3>3, <2>4 DEF Sane
  <2>5. CASE t # s /\ t \notin late /\ t = frame.last /\ slots[t].readers # 0
    <3>1. slots'[t] = [slots[t] EXCEPT !.retire = TRUE, !.claimed = FALSE]
      BY <2>5, <1>4
    <3>2. /\ slots'[t] \in SlotShape /\ slots'[t].state = slots[t].state
          /\ ~slots'[t].claimed /\ slots'[t].retire
          /\ slots'[t].readers = slots[t].readers
      BY <3>1, <2>0, LeftIs
    <3>3. slots[t].state = "READING"
      BY <2>0, <2>5 DEF Sane, SlotShape
    <3> QED BY <3>2, <3>3, <2>0, <2>5 DEF Sane
  <2> QED BY <2>1, <2>2, <2>3, <2>4, <2>5
<1>6. slots' \in [Slots -> SlotShape]
  BY <1>1, <1>5
<1>7. frame' \in FrameShape /\ frame'.last = s /\ frame'.slot = s
  BY <1>1, <1>2, <1>3 DEF FrameShape, MaybeSlot, SlotShape
<1>8. Shown'
  BY <1>5, <1>7 DEF Shown
<1>9. UNCHANGED <<stream, ring, worker, claim, engine>>
  BY DEF Take
<1> QED BY <1>5, <1>6, <1>7, <1>8, <1>9, Redraws

LEMMA DiscardStep ==
    ASSUME PictureInv, Discard
    PROVE  PictureInv'
<1>1. PICK early \in SUBSET Takeable :
          slots' = [t \in Slots |->
                       IF t \in early THEN Freed(slots[t]) ELSE slots[t]]
  BY DEF Discard
<1>2. \A t \in Takeable : /\ slots[t].state = "READY" /\ ~slots[t].claimed
  BY DEF Takeable, SlotsIn
<1>3. \A t \in Slots :
         /\ slots'[t] \in SlotShape
         /\ slots'[t].state = "WRITING" <=> slots[t].state = "WRITING"
         /\ slots[t].state \in {"FREE", "WRITING"} => slots'[t] = slots[t]
         /\ Sane(slots'[t], frame.last = t)
  <2> SUFFICES ASSUME NEW t \in Slots
               PROVE  /\ slots'[t] \in SlotShape
                      /\ slots'[t].state = "WRITING" <=>
                             slots[t].state = "WRITING"
                      /\ slots[t].state \in {"FREE", "WRITING"} =>
                             slots'[t] = slots[t]
                      /\ Sane(slots'[t], frame.last = t)
    OBVIOUS
  <2>0. slots[t] \in SlotShape /\ Sane(slots[t], frame.last = t)
    BY DEF PictureInv, Shown
  <2>1. CASE t \in early
    <3>1. slots'[t] = Freed(slots[t])
      BY <1>1, <2>1
    <3> QED BY <2>0, <2>1, <3>1, <1>2 DEF Sane, SlotShape, Freed
  <2>2. CASE t \notin early
    BY <2>0, <2>2, <1>1
  <2> QED BY <2>1, <2>2
<1>4. slots' \in [Slots -> SlotShape]
  BY <1>1, <1>3
<1>5. frame' = frame /\ frame \in FrameShape /\ frame.slot \in MaybeSlot
  BY DEF Discard, PictureInv, FrameShape
<1>6. Shown'
  BY <1>3, <1>5 DEF Shown, PictureInv, MaybeSlot
<1>7. UNCHANGED <<stream, ring, worker, claim, engine>>
  BY DEF Discard
<1> QED BY <1>3, <1>4, <1>5, <1>6, <1>7, Redraws

\* One surface that is READY or READING changes, and stays one of the two or
\* becomes free.
LEMMA Redraw ==
    ASSUME PictureInv, NEW s \in Slots, NEW slot \in SlotShape,
           slots[s].state \in {"READY", "READING"}, slot.state # "WRITING",
           Sane(slot, frame.last = s), slots' = [slots EXCEPT ![s] = slot],
           UNCHANGED <<stream, ring, frame, worker, claim, engine>>
    PROVE  PictureInv'
<1>1. /\ slots' \in [Slots -> SlotShape] /\ slots'[s] = slot
      /\ \A t \in Slots : t # s => slots'[t] = slots[t]
  BY DEF PictureInv
<1>2. frame' \in FrameShape /\ frame.slot \in MaybeSlot
  BY DEF PictureInv, FrameShape
<1>3. Shown'
  BY <1>1, <1>2 DEF Shown, PictureInv, MaybeSlot
<1> QED BY <1>1, <1>2, <1>3, Redraws

LEMMA BorrowStep ==
    ASSUME PictureInv, Borrow
    PROVE  PictureInv'
<1> DEFINE s == frame.slot
           slot == [slots[s] EXCEPT !.state = "READING", !.readers = @ + 1]
<1>1. /\ s # NoSlot /\ frame.fresh /\ slots[s].state \in {"READY", "READING"}
      /\ slots' = [slots EXCEPT ![s] = slot]
      /\ UNCHANGED <<stream, ring, frame, worker, claim, engine>>
  BY DEF Borrow, SetSlot
<1>2. s \in Slots
  BY <1>1 DEF PictureInv, FrameShape, MaybeSlot
<1>3. frame.last = s
  BY <1>1 DEF PictureInv, Shown
<1>4. slots[s] \in SlotShape /\ Sane(slots[s], frame.last = s)
  BY <1>2 DEF PictureInv, Shown
<1> HIDE DEF s
<1>5. /\ slot \in SlotShape /\ slot.state = "READING" /\ slot.readers > 0
      /\ slot.claimed = slots[s].claimed /\ slot.retire = slots[s].retire
  BY <1>4, LentIs
<1> HIDE DEF slot
<1>6. Sane(slot, frame.last = s)
  BY <1>1, <1>3, <1>4, <1>5 DEF Sane
<1> QED BY <1>1, <1>2, <1>5, <1>6, Redraw

LEMMA ReleaseStep ==
    ASSUME PictureInv, NEW s \in Slots, Release(s)
    PROVE  PictureInv'
<1> DEFINE left == [slots[s] EXCEPT !.readers = @ - 1]
           slot == IF left.readers > 0 THEN left ELSE LastReaderGone(left)
<1>1. /\ slots[s].readers > 0
      /\ slots' = [slots EXCEPT ![s] = slot]
      /\ UNCHANGED <<stream, ring, frame, worker, claim, engine>>
  BY DEF Release, SetSlot
<1>2. slots[s] \in SlotShape /\ Sane(slots[s], frame.last = s)
  BY DEF PictureInv, Shown
<1>3. slots[s].state = "READING"
  BY <1>1, <1>2 DEF Sane
<1>4. left \in SlotShape /\ left.state = "READING"
          /\ left.claimed = slots[s].claimed /\ left.retire = slots[s].retire
  BY <1>1, <1>2, <1>3 DEF SlotShape
<1>5. left.claimed # left.retire /\ (left.claimed <=> frame.last = s)
  BY <1>2, <1>3, <1>4 DEF Sane
<1> HIDE DEF left
<1>6. slot \in SlotShape /\ slot.state # "WRITING"
          /\ Sane(slot, frame.last = s)
  <2>1. CASE left.readers > 0
    BY <2>1, <1>4, <1>5 DEF Sane, SlotShape
  <2>2. CASE ~(left.readers > 0) /\ left.retire
    <3>1. slot = Freed(left)
      BY <2>2 DEF LastReaderGone
    <3> HIDE DEF slot
    <3> QED BY <3>1, <2>2, <1>4, <1>5 DEF Sane, SlotShape, Freed
  <2>3. CASE ~(left.readers > 0) /\ ~left.retire
    <3>1. slot = [left EXCEPT !.state = "READY"]
      BY <2>3, <1>4 DEF LastReaderGone
    <3> HIDE DEF slot
    <3> QED BY <3>1, <2>3, <1>4, <1>5 DEF Sane, SlotShape
  <2> QED BY <2>1, <2>2, <2>3
<1> HIDE DEF slot
<1> QED BY <1>1, <1>3, <1>6, Redraw

-----------------------------------------------------------------------------
\* The decode worker.

LEMMA JobChanges ==
    ASSUME RingShape, NEW n \in DOMAIN ring, NEW job \in JobShape,
           ring' = [ring EXCEPT ![n] = job]
    PROVE  /\ RingShape' /\ DOMAIN ring' = DOMAIN ring /\ ring'[n] = job
           /\ \A m \in DOMAIN ring : m # n => ring'[m] = ring[m]
<1>1. ring \in Seq(JobShape) /\ Len(ring) \in 0 .. 2 /\ n \in 1 .. Len(ring)
  BY DEF RingShape
<1>2. ring' \in Seq(JobShape) /\ Len(ring') = Len(ring)
  BY <1>1, ExceptSeq
<1> QED BY <1>1, <1>2 DEF RingShape

\* The worker goes on with its job.
LEMMA WorkerMoves ==
    ASSUME PictureInv, UNCHANGED <<stream, ring, slots, frame>>,
           WorkerShape', ClaimShape', EngineShape', HandShake',
           worker.at \notin {"wait", "finish"},
           worker'.at \notin {"wait", "finish"}
    PROVE  PictureInv'
<1>1. RingShape' /\ OneRuns'
  BY DEF PictureInv, RingShape, OneRuns, InState
<1>2. Written'
  BY DEF PictureInv, Written, Writes
<1>3. Shown'
  BY DEF PictureInv, Shown
<1> QED BY <1>1, <1>2, <1>3 DEF PictureInv

LEMMA SameSurface ==
    ASSUME UNCHANGED <<stream, ring>>
    PROVE  Surface' = Surface /\ (Prebinds(Job) <=> Prebinds(Job)')
BY DEF Surface, Job, Running, InState, Prebinds

LEMMA MovesShape ==
    ASSUME NEW place, Goes(place) \/ Reclaims(place)
    PROVE  /\ Goes(place) /\ place \in Doing \cup {"wait", "finish"}
                  => WorkerShape' /\ worker'.at = place /\ worker'.then = place
           /\ Reclaims(place) /\ place \in Doing
                  => WorkerShape' /\ worker'.at = "withdraw"
                         /\ worker'.then = place
BY DEF Goes, Reclaims, WorkerShape, Places, Reclaiming, Doing

LEMMA WithdrawStep ==
    ASSUME PictureInv, Withdraw
    PROVE  PictureInv'
<1>1. /\ worker.at = "withdraw" /\ worker' = [worker EXCEPT !.at = "join"]
      /\ UNCHANGED <<stream, ring, slots, frame, engine>>
      /\ claim' = [active |-> NoSlot,
                   busy |-> IF engine.alive THEN claim.busy ELSE NoSlot]
  BY DEF Withdraw, Works, picture
<1>2. WorkerShape' /\ worker'.at = "join" /\ worker'.then = worker.then
  BY <1>1 DEF PictureInv, WorkerShape, Places, Reclaiming
<1>3. ClaimShape' /\ EngineShape'
  BY <1>1 DEF PictureInv, ClaimShape, EngineShape, MaybeSlot
<1>4. /\ claim'.active = NoSlot /\ (engine.alive => claim'.busy = claim.busy)
      /\ (~engine.alive => claim'.busy = NoSlot)
  BY <1>1
<1>5. HandShake'
  BY <1>1, <1>2, <1>4, SameSurface DEF PictureInv, HandShake
<1> QED BY <1>1, <1>2, <1>3, <1>5, WorkerMoves

LEMMA StoppedIs ==
    ASSUME claim' = NoClaim, engine' = Stopped
    PROVE  /\ ClaimShape' /\ EngineShape' /\ claim'.active = NoSlot
           /\ claim'.busy = NoSlot /\ engine'.at = "idle" /\ ~engine'.alive
BY DEF NoClaim, Stopped, ClaimShape, EngineShape, MaybeSlot

LEMMA JoinStep ==
    ASSUME PictureInv, Join
    PROVE  PictureInv'
<1>1. /\ worker.at = "join" /\ Goes(worker.then)
      /\ UNCHANGED <<stream, ring, slots, frame>>
  BY DEF Join, Works, picture
<1>2. worker.then \in Doing
  BY <1>1 DEF PictureInv, WorkerShape, Reclaiming
<1>3. WorkerShape' /\ worker'.at = worker.then /\ worker'.then = worker.then
  BY <1>1, <1>2, MovesShape
<1>4. claim.active = NoSlot
  BY <1>1 DEF PictureInv, HandShake
<1>5. CASE claim.busy = NoSlot /\ UNCHANGED <<claim, engine>>
  <2>1. engine.at # "batch"
    BY <1>5 DEF PictureInv, HandShake
  <2>2. ClaimShape' /\ EngineShape' /\ HandShake'
    BY <1>1, <1>3, <1>4, <1>5, <2>1, SameSurface
       DEF PictureInv, HandShake, ClaimShape, EngineShape
  <2> QED BY <1>1, <1>2, <1>3, <2>2, WorkerMoves DEF Doing
<1>6. CASE claim' = NoClaim /\ engine' = Stopped
  <2>1. ClaimShape' /\ EngineShape' /\ HandShake'
    BY <1>1, <1>3, <1>6, StoppedIs, SameSurface DEF PictureInv, HandShake
  <2> QED BY <1>1, <1>2, <1>3, <2>1, WorkerMoves DEF Doing
<1> QED BY <1>5, <1>6 DEF Join

\* The job that runs, and its surface.
LEMMA AtWork ==
    ASSUME PictureInv, worker.at # "wait"
    PROVE  /\ Running \in DOMAIN ring /\ Running \in InState("RUNNING")
           /\ Job = ring[Running] /\ Surface = Job.slot /\ Surface \in Slots
           /\ Job \in JobShape /\ Job.state = "RUNNING"
           /\ \A m \in DOMAIN ring :
                  m # Running => ring[m].state # "RUNNING"
           /\ worker.at # "finish" => slots[Surface].state = "WRITING"
<1>1. PICK n \in InState("RUNNING") : TRUE
  BY DEF PictureInv, OneRuns
<1>2. Running = n /\ Job = ring[n] /\ Surface = ring[n].slot
  BY <1>1, RunningIs DEF PictureInv
<1>3. n \in DOMAIN ring /\ ring[n].state = "RUNNING"
  BY <1>1 DEF InState
<1>4. ring[n] \in JobShape /\ ring[n].slot \in Slots
  BY <1>3, Jobs DEF PictureInv
<1>5. \A m \in DOMAIN ring : m # n => ring[m].state # "RUNNING"
  BY <1>1 DEF PictureInv, OneRuns, InState
<1>6. worker.at # "finish" => slots[ring[n].slot].state = "WRITING"
  BY <1>3 DEF PictureInv, Written, Writes
<1> QED BY <1>1, <1>2, <1>3, <1>4, <1>5, <1>6

LEMMA OfferShape ==
    ASSUME PictureInv, worker.at # "wait",
           claim' = [claim EXCEPT !.active = Surface]
    PROVE  ClaimShape' /\ claim'.active = Surface /\ claim'.busy = claim.busy
<1>1. Surface \in MaybeSlot
  BY AtWork DEF MaybeSlot
<1> QED BY <1>1 DEF PictureInv, ClaimShape

LEMMA BindStep ==
    ASSUME PictureInv, Bind
    PROVE  PictureInv'
<1>1. /\ worker.at = "bind" /\ Goes("decode")
      /\ claim' = [claim EXCEPT !.active = Surface]
      /\ UNCHANGED <<stream, ring, slots, frame, engine>>
  BY DEF Bind, Works, picture
<1>2. WorkerShape' /\ worker'.at = "decode" /\ worker'.then = "decode"
  BY <1>1, MovesShape DEF Doing
<1>3. ClaimShape' /\ claim'.active = Surface /\ claim'.busy = claim.busy
  BY <1>1, OfferShape
<1>4. Prebinds(Job) /\ engine.at # "batch"
  BY <1>1 DEF PictureInv, HandShake, WorkerShape, Reclaiming
<1>5. HandShake' /\ EngineShape'
  BY <1>1, <1>2, <1>3, <1>4, SameSurface
     DEF PictureInv, HandShake, EngineShape
<1> QED BY <1>1, <1>2, <1>3, <1>5, WorkerMoves

LEMMA OfferStep ==
    ASSUME PictureInv, Offer
    PROVE  PictureInv'
<1>1. /\ worker.at = "offer" /\ Reclaims("converted")
      /\ claim' = [claim EXCEPT !.active = Surface]
      /\ UNCHANGED <<stream, ring, slots, frame, engine>>
  BY DEF Offer, Works, picture
<1>2. WorkerShape' /\ worker'.at = "withdraw" /\ worker'.then = "converted"
  BY <1>1, MovesShape DEF Doing
<1>3. ClaimShape' /\ claim'.active = Surface /\ claim'.busy = claim.busy
  BY <1>1, OfferShape
<1>4. engine.at # "batch"
  BY <1>1 DEF PictureInv, HandShake
<1>5. HandShake' /\ EngineShape'
  BY <1>1, <1>2, <1>3, <1>4, SameSurface
     DEF PictureInv, HandShake, EngineShape
<1> QED BY <1>1, <1>2, <1>3, <1>5, WorkerMoves

LEMMA DecodePictureStep ==
    ASSUME PictureInv, DecodePicture
    PROVE  PictureInv'
<1>1. /\ worker.at = "decode"
      /\ Reclaims("closed") \/ Reclaims("offer")
      /\ UNCHANGED <<stream, ring, slots, frame, claim, engine>>
  BY DEF DecodePicture, Works, picture
<1>2. WorkerShape' /\ worker'.at = "withdraw" /\ worker'.then # "bind"
  BY <1>1, MovesShape DEF Doing
<1>3. HandShake' /\ EngineShape' /\ ClaimShape'
  BY <1>1, <1>2, SameSurface
     DEF PictureInv, HandShake, EngineShape, ClaimShape
<1> QED BY <1>1, <1>2, <1>3, WorkerMoves

LEMMA ClosedStep ==
    ASSUME PictureInv, Closed
    PROVE  PictureInv'
<1>1. /\ worker.at = "closed"
      /\ Goes("publish") \/ Reclaims("offer")
      /\ UNCHANGED <<stream, ring, slots, frame, claim, engine>>
  BY DEF Closed, Works, picture
<1>2. /\ WorkerShape' /\ worker'.at \in {"publish", "withdraw"}
      /\ worker'.then # "bind"
  BY <1>1, MovesShape DEF Doing
<1>3. claim.active = NoSlot /\ engine.at # "batch"
  BY <1>1 DEF PictureInv, HandShake
<1>4. HandShake' /\ EngineShape' /\ ClaimShape'
  BY <1>1, <1>2, <1>3, SameSurface
     DEF PictureInv, HandShake, EngineShape, ClaimShape
<1> QED BY <1>1, <1>2, <1>4, WorkerMoves

\* The job that runs changes, but not its surface; the others stay.
LEMMA JobGoesOnIf ==
    ASSUME PictureInv, worker.at # "wait", RingShape', OneRuns',
           stream' = stream, NEW job \in JobShape,
           ring' = [ring EXCEPT ![Running] = job], job.state = "RUNNING",
           job.slot = Surface, job.flush = Job.flush
    PROVE  Surface' = Surface /\ (Prebinds(Job) <=> Prebinds(Job)')
<1>1. Running \in DOMAIN ring /\ Surface = Job.slot
  BY AtWork
<1>2. ring'[Running] = job /\ DOMAIN ring' = DOMAIN ring
  BY <1>1, JobChanges DEF PictureInv
<1>3. Running \in InState("RUNNING")'
  BY <1>1, <1>2 DEF InState
<1>4. Job' = job /\ Surface' = job.slot
  BY <1>2, <1>3, RunningIsNext
<1> QED BY <1>1, <1>4 DEF Prebinds

LEMMA ResultMoves ==
    ASSUME PictureInv, worker.at \notin {"wait", "finish"},
           NEW result \in {"ok", "error"},
           ring' = [ring EXCEPT ![Running].result = result],
           UNCHANGED <<stream, slots, frame, claim, engine>>,
           WorkerShape', worker'.at \notin {"wait", "finish"},
           worker'.then # "bind",
           claim.active # NoSlot \/ engine.at = "batch" =>
               worker'.at = "withdraw"
    PROVE  PictureInv'
<1> DEFINE job == [ring[Running] EXCEPT !.result = result]
<1>1. /\ Running \in DOMAIN ring /\ Job = ring[Running] /\ Surface = Job.slot
      /\ Job \in JobShape /\ Job.state = "RUNNING"
      /\ \A m \in DOMAIN ring : m # Running => ring[m].state # "RUNNING"
  BY AtWork
<1>2. ring' = [ring EXCEPT ![Running] = job]
  OBVIOUS
<1>3. /\ job \in JobShape /\ job.state = "RUNNING" /\ job.slot = Surface
      /\ job.flush = Job.flush
  BY <1>1 DEF JobShape
<1> HIDE DEF job
<1>4. /\ RingShape' /\ DOMAIN ring' = DOMAIN ring /\ ring'[Running] = job
      /\ \A m \in DOMAIN ring : m # Running => ring'[m] = ring[m]
  BY <1>1, <1>2, <1>3, JobChanges DEF PictureInv
<1>5. OneRuns'
  BY <1>1, <1>3, <1>4 DEF OneRuns, InState
<1>6. Surface' = Surface /\ (Prebinds(Job) <=> Prebinds(Job)')
  BY <1>2, <1>3, <1>4, <1>5, JobGoesOnIf
<1>7. HandShake' /\ EngineShape' /\ ClaimShape'
  BY <1>6 DEF PictureInv, HandShake, EngineShape, ClaimShape
<1>8. \A n \in DOMAIN ring :
         ring'[n].slot = ring[n].slot /\ (Writes(n)' <=> Writes(n))
  BY <1>1, <1>3, <1>4 DEF Writes
<1>9. Written'
  BY <1>4, <1>8 DEF PictureInv, Written
<1>10. Shown' /\ slots' \in [Slots -> SlotShape] /\ frame' \in FrameShape
  BY DEF PictureInv, Shown
<1> QED BY <1>4, <1>5, <1>7, <1>9, <1>10 DEF PictureInv

LEMMA DecodeEmptyStep ==
    ASSUME PictureInv, DecodeEmpty
    PROVE  PictureInv'
<1>1. PICK result \in {"ok", "error"} :
          ring' = [ring EXCEPT ![Running].result = result]
  BY DEF DecodeEmpty
<1>2. /\ worker.at = "decode"
      /\ UNCHANGED <<stream, slots, frame, claim, engine>>
      /\ IF Prebinds(Job) THEN Reclaims("drop") ELSE Goes("drop")
  BY DEF DecodeEmpty, Works
<1>3. CASE Prebinds(Job)
  <2>1. WorkerShape' /\ worker'.at = "withdraw" /\ worker'.then = "drop"
    BY <1>2, <1>3, MovesShape DEF Doing
  <2> QED BY <1>1, <1>2, <2>1, ResultMoves
<1>4. CASE ~Prebinds(Job)
  <2>1. WorkerShape' /\ worker'.at = "drop" /\ worker'.then = "drop"
    BY <1>2, <1>4, MovesShape DEF Doing
  <2>2. claim.active = NoSlot /\ engine.at # "batch"
    BY <1>2, <1>4 DEF PictureInv, HandShake
  <2> QED BY <1>1, <1>2, <2>1, <2>2, ResultMoves
<1> QED BY <1>3, <1>4

LEMMA ConvertedStep ==
    ASSUME PictureInv, Converted
    PROVE  PictureInv'
<1>1. /\ worker.at = "converted"
      /\ UNCHANGED <<stream, slots, frame, claim, engine>>
  BY DEF Converted, Works
<1>2. claim.active = NoSlot /\ engine.at # "batch"
  BY <1>1 DEF PictureInv, HandShake
<1>3. CASE Goes("publish") /\ UNCHANGED ring
  <2>1. WorkerShape' /\ worker'.at = "publish" /\ worker'.then = "publish"
    BY <1>3, MovesShape DEF Doing
  <2>2. HandShake' /\ EngineShape' /\ ClaimShape'
    BY <1>1, <1>2, <1>3, <2>1, SameSurface
       DEF PictureInv, HandShake, EngineShape, ClaimShape
  <2> QED BY <1>1, <1>3, <2>1, <2>2, WorkerMoves
<1>4. CASE /\ Goes("drop")
           /\ \E result \in {"ok", "error"} :
                 ring' = [ring EXCEPT ![Running].result = result]
  <2>1. WorkerShape' /\ worker'.at = "drop" /\ worker'.then = "drop"
    BY <1>4, MovesShape DEF Doing
  <2> QED BY <1>1, <1>2, <1>4, <2>1, ResultMoves
<1> QED BY <1>3, <1>4 DEF Converted

LEMMA Begins ==
    ASSUME PictureInv, worker.at = "wait", NEW n \in InState("READY"),
           NEW job \in JobShape, ring' = [ring EXCEPT ![n] = job],
           job.state = "RUNNING", job.slot = ring[n].slot,
           job.flush = ring[n].flush,
           UNCHANGED <<stream, slots, frame, claim, engine>>,
           WorkerShape', worker'.at \notin {"wait", "finish"},
           worker'.then = "bind" => Prebinds(ring[n])
    PROVE  PictureInv'
<1>1. n \in DOMAIN ring /\ ring[n].state = "READY"
  BY DEF InState
<1>2. /\ RingShape' /\ DOMAIN ring' = DOMAIN ring /\ ring'[n] = job
      /\ \A m \in DOMAIN ring : m # n => ring'[m] = ring[m]
  BY <1>1, JobChanges DEF PictureInv
<1>3. \A m \in DOMAIN ring : ring[m].state # "RUNNING"
  BY DEF PictureInv, OneRuns, InState
<1>4. OneRuns' /\ n \in InState("RUNNING")'
  BY <1>1, <1>2, <1>3 DEF OneRuns, InState
<1>5. Job' = job
  BY <1>2, <1>4, RunningIsNext
<1>6. Prebinds(Job)' <=> Prebinds(ring[n])
  BY <1>5 DEF Prebinds
<1>7. claim.active = NoSlot /\ engine.at # "batch"
  BY DEF PictureInv, HandShake
<1>8. HandShake' /\ EngineShape' /\ ClaimShape'
  BY <1>6, <1>7 DEF PictureInv, HandShake, EngineShape, ClaimShape
<1>9. \A m \in DOMAIN ring :
         ring'[m].slot = ring[m].slot /\ (Writes(m)' <=> Writes(m))
  BY <1>1, <1>2, <1>3 DEF Writes
<1>10. Written'
  BY <1>2, <1>9 DEF PictureInv, Written
<1>11. Shown' /\ slots' \in [Slots -> SlotShape] /\ frame' \in FrameShape
  BY DEF PictureInv, Shown
<1> QED BY <1>2, <1>4, <1>8, <1>10, <1>11 DEF PictureInv

LEMMA BeginStep ==
    ASSUME PictureInv, Begin
    PROVE  PictureInv'
<1>1. worker.at = "wait" /\ UNCHANGED <<stream, slots, frame, claim, engine>>
  BY DEF Begin, Works
<1>2. PICK n \in InState("READY") :
         \/ /\ ring' = [ring EXCEPT ![n].state = "RUNNING"]
            /\ IF Prebinds(ring[n]) THEN Reclaims("bind") ELSE Goes("decode")
         \/ /\ ring' = [ring EXCEPT ![n].state = "RUNNING",
                                    ![n].result = "late"]
            /\ Goes("drop")
  BY DEF Begin
<1>3. ring[n] \in JobShape
  BY Jobs DEF PictureInv, InState
<1>4. CASE /\ ring' = [ring EXCEPT ![n].state = "RUNNING"]
           /\ IF Prebinds(ring[n]) THEN Reclaims("bind") ELSE Goes("decode")
  <2> DEFINE job == [ring[n] EXCEPT !.state = "RUNNING"]
  <2>1. job \in JobShape /\ job.state = "RUNNING" /\ job.slot = ring[n].slot
            /\ job.flush = ring[n].flush
    BY <1>3 DEF JobShape
  <2>2. ring' = [ring EXCEPT ![n] = job]
    BY <1>4
  <2>3. WorkerShape' /\ worker'.at \notin {"wait", "finish"}
            /\ (worker'.then = "bind" => Prebinds(ring[n]))
    BY <1>4, MovesShape DEF Doing
  <2> HIDE DEF job
  <2> QED BY <1>1, <2>1, <2>2, <2>3, Begins
<1>5. CASE /\ ring' = [ring EXCEPT ![n].state = "RUNNING",
                                   ![n].result = "late"]
           /\ Goes("drop")
  <2> DEFINE job == [ring[n] EXCEPT !.state = "RUNNING", !.result = "late"]
  <2>1. job \in JobShape /\ job.state = "RUNNING" /\ job.slot = ring[n].slot
            /\ job.flush = ring[n].flush
    BY <1>3 DEF JobShape
  <2>2. ring' = [ring EXCEPT ![n] = job]
    BY <1>5
  <2>3. WorkerShape' /\ worker'.at = "drop" /\ worker'.then = "drop"
    BY <1>5, MovesShape DEF Doing
  <2> HIDE DEF job
  <2> QED BY <1>1, <2>1, <2>2, <2>3, Begins
<1> QED BY <1>2, <1>4, <1>5

\* The surface is published or given back, and the job is over but for its
\* entry.
LEMMA GivesBack ==
    ASSUME PictureInv, worker.at \in {"drop", "publish"}, Goes("finish"),
           NEW slot \in SlotShape, slot.state \in {"FREE", "READY"},
           slot.readers = slots[Surface].readers, ~slot.claimed, ~slot.retire,
           slots' = [slots EXCEPT ![Surface] = slot],
           frame' \in FrameShape, frame'.slot = frame.slot,
           frame'.last = frame.last,
           frame'.fresh => frame.fresh
                             /\ (slot.state = "FREE" \/ frame.slot # Surface),
           UNCHANGED <<stream, ring, claim, engine>>
    PROVE  PictureInv'
<1> DEFINE s == Surface
<1>1. PICK n \in DOMAIN ring :
      /\ ring[n].slot = s /\ ring[n].state = "RUNNING" /\ s \in Slots
      /\ slots[s].state = "WRITING"
      /\ \A m \in DOMAIN ring : m # n => ring[m].state # "RUNNING"
  BY AtWork
<1> HIDE DEF s
<1>2. slots' = [slots EXCEPT ![s] = slot]
  BY DEF s
<1>3. /\ slots' \in [Slots -> SlotShape] /\ slots'[s] = slot
      /\ \A t \in Slots : t # s => slots'[t] = slots[t]
  BY <1>1, <1>2 DEF PictureInv
<1>4. WorkerShape' /\ worker'.at = "finish" /\ worker'.then = "finish"
  BY MovesShape
<1>5. RingShape' /\ OneRuns' /\ ClaimShape' /\ EngineShape'
  BY <1>4 DEF PictureInv, RingShape, OneRuns, InState, ClaimShape, EngineShape
<1>6. claim.active = NoSlot /\ engine.at # "batch"
  BY DEF PictureInv, HandShake
<1>7. HandShake'
  BY <1>4, <1>6 DEF PictureInv, HandShake
<1>8. /\ ~Writes(n)' /\ Writes(n)
      /\ \A m \in DOMAIN ring : m # n => (Writes(m)' <=> Writes(m))
  BY <1>1, <1>4 DEF Writes
<1>9. Written'
  <2>1. \A m \in DOMAIN ring : m # n /\ Writes(m) => ring[m].slot # s
    BY <1>1, <1>8 DEF PictureInv, Written
  <2>2. \A m \in DOMAIN ring : ring[m].slot \in Slots
    BY Jobs DEF PictureInv
  <2> QED BY <1>1, <1>3, <1>8, <2>1, <2>2 DEF PictureInv, Written
<1>10. \A t \in Slots : Sane(slots[t], frame.last = t)
  BY DEF PictureInv, Shown
<1>11. slot.readers \in Nat /\ slots[s].readers = slot.readers
  BY DEF SlotShape, s
<1>12. Sane(slot, frame.last = s)
  BY <1>1, <1>10, <1>11 DEF Sane
<1>13. \A t \in Slots : Sane(slots'[t], frame'.last = t)
  BY <1>3, <1>10, <1>12
<1>14. frame.slot \in MaybeSlot
  BY DEF PictureInv, FrameShape
<1>15. Shown'
  <2> SUFFICES ASSUME frame'.fresh, frame'.slot # NoSlot
               PROVE  \/ frame'.last = frame'.slot
                      \/ /\ frame'.last = NoSlot
                         /\ slots'[frame'.slot].state \in {"FREE", "WRITING"}
    BY <1>13 DEF Shown
  <2>1. frame.fresh /\ frame.slot \in Slots
    BY <1>14 DEF MaybeSlot
  <2>2. \/ frame.last = frame.slot
        \/ /\ frame.last = NoSlot
           /\ slots[frame.slot].state \in {"FREE", "WRITING"}
    BY <2>1 DEF PictureInv, Shown
  <2>3. frame.slot = s => slot.state = "FREE"
    BY DEF s
  <2> QED BY <1>3, <2>1, <2>2, <2>3
<1> QED BY <1>3, <1>4, <1>5, <1>7, <1>9, <1>15 DEF PictureInv

LEMMA DropStep ==
    ASSUME PictureInv, Drop
    PROVE  PictureInv'
<1> DEFINE slot == Freed(slots[Surface])
<1>1. /\ worker.at = "drop" /\ Goes("finish")
      /\ slots' = [slots EXCEPT ![Surface] = slot]
      /\ UNCHANGED <<stream, ring, frame, claim, engine>>
  BY DEF Drop, Works, SetSlot
<1>2. slots[Surface] \in SlotShape
  BY <1>1, AtWork DEF PictureInv
<1>3. /\ slot \in SlotShape /\ slot.state = "FREE" /\ ~slot.claimed
      /\ ~slot.retire /\ slot.readers = slots[Surface].readers
  BY <1>2, FreedIs
<1>4. frame' \in FrameShape
  BY <1>1 DEF PictureInv
<1> HIDE DEF slot
<1> QED BY <1>1, <1>3, <1>4, GivesBack

LEMMA PublishStep ==
    ASSUME PictureInv, Publish
    PROVE  PictureInv'
<1> DEFINE slot == [slots[Surface] EXCEPT
                       !.state = "READY", !.claimed = FALSE,
                       !.retire = FALSE, !.old = Job.old]
<1>1. /\ worker.at = "publish" /\ Goes("finish")
      /\ slots' = [slots EXCEPT ![Surface] = slot]
      /\ frame' = [frame EXCEPT !.fresh = @ /\ frame.slot # Surface]
      /\ UNCHANGED <<stream, ring, claim, engine>>
  BY DEF Publish, Works, SetSlot
<1>2. slots[Surface] \in SlotShape /\ Job.old \in BOOLEAN
  BY <1>1, AtWork DEF PictureInv, JobShape
<1>3. /\ slot \in SlotShape /\ slot.state = "READY" /\ ~slot.claimed
      /\ ~slot.retire /\ slot.readers = slots[Surface].readers
  BY <1>2 DEF SlotShape
<1>4. /\ frame' \in FrameShape /\ frame'.slot = frame.slot
      /\ frame'.last = frame.last
      /\ frame'.fresh => frame.fresh /\ frame.slot # Surface
  BY <1>1 DEF PictureInv, FrameShape
<1> HIDE DEF slot
<1> QED BY <1>1, <1>3, <1>4, GivesBack

LEMMA FinishStep ==
    ASSUME PictureInv, Finish
    PROVE  PictureInv'
<1> DEFINE job == [ring[Running] EXCEPT !.state = "DONE"]
<1>1. /\ worker.at = "finish" /\ Goes("wait")
      /\ ring' = [ring EXCEPT ![Running] = job]
      /\ UNCHANGED <<stream, slots, frame, claim, engine>>
  BY DEF Finish, Works
<1>2. /\ Running \in DOMAIN ring /\ ring[Running] \in JobShape
      /\ ring[Running].state = "RUNNING"
      /\ \A m \in DOMAIN ring : m # Running => ring[m].state # "RUNNING"
  BY <1>1, AtWork
<1>3. job \in JobShape /\ job.state = "DONE" /\ job.slot = ring[Running].slot
  BY <1>2 DEF JobShape
<1> HIDE DEF job
<1>4. /\ RingShape' /\ DOMAIN ring' = DOMAIN ring /\ ring'[Running] = job
      /\ \A m \in DOMAIN ring : m # Running => ring'[m] = ring[m]
  BY <1>1, <1>2, <1>3, JobChanges DEF PictureInv
<1>5. WorkerShape' /\ worker'.at = "wait" /\ worker'.then = "wait"
  BY <1>1, MovesShape
<1>6. OneRuns'
  BY <1>2, <1>3, <1>4, <1>5 DEF OneRuns, InState
<1>7. claim.active = NoSlot /\ engine.at # "batch"
  BY <1>1 DEF PictureInv, HandShake
<1>8. HandShake' /\ EngineShape' /\ ClaimShape'
  BY <1>1, <1>5, <1>7 DEF PictureInv, HandShake, EngineShape, ClaimShape
<1>9. \A m \in DOMAIN ring :
         ring'[m].slot = ring[m].slot /\ (Writes(m)' <=> Writes(m))
  BY <1>1, <1>2, <1>3, <1>4, <1>5 DEF Writes
<1>10. Written'
  BY <1>1, <1>4, <1>9 DEF PictureInv, Written
<1>11. Shown' /\ slots' \in [Slots -> SlotShape] /\ frame' \in FrameShape
  BY <1>1 DEF PictureInv, Shown
<1>12. stream' \in StreamKinds
  BY <1>1 DEF PictureInv
<1> QED BY <1>4, <1>5, <1>6, <1>8, <1>10, <1>11, <1>12 DEF PictureInv

LEMMA WorkerStepKeeps ==
    ASSUME PictureInv, WorkerStep
    PROVE  PictureInv'
BY BeginStep, WithdrawStep, JoinStep, BindStep, DecodeEmptyStep,
   DecodePictureStep, ClosedStep, OfferStep, ConvertedStep, DropStep,
   PublishStep, FinishStep DEF WorkerStep

-----------------------------------------------------------------------------
\* The Media Engine.

LEMMA EngineMoves ==
    ASSUME PictureInv, UNCHANGED <<stream, ring, slots, frame, worker>>,
           ClaimShape', EngineShape', HandShake'
    PROVE  PictureInv'
<1>1. RingShape' /\ OneRuns' /\ WorkerShape'
  BY DEF PictureInv, RingShape, OneRuns, InState, WorkerShape
<1>2. Written'
  BY DEF PictureInv, Written, Writes
<1>3. Shown'
  BY DEF PictureInv, Shown
<1> QED BY <1>1, <1>2, <1>3 DEF PictureInv

LEMMA EngineGoesTo ==
    ASSUME EngineShape, NEW place \in {"idle", "seen", "announced", "batch"},
           NEW slot \in MaybeSlot, EngineGoes(place, slot)
    PROVE  /\ EngineShape' /\ engine'.at = place /\ engine'.slot = slot
           /\ engine'.alive = engine.alive
BY DEF EngineGoes, EngineShape

LEMMA ClaimGoesTo ==
    ASSUME ClaimShape, NEW slot \in MaybeSlot,
           claim' = [claim EXCEPT !.busy = slot]
    PROVE  ClaimShape' /\ claim'.busy = slot /\ claim'.active = claim.active
BY DEF ClaimShape

LEMMA EngineStepKeeps ==
    ASSUME PictureInv, EngineStep
    PROVE  PictureInv'
<1>1. /\ ClaimShape /\ EngineShape /\ HandShake /\ NoSlot \in MaybeSlot
      /\ claim.active \in MaybeSlot /\ engine.slot \in MaybeSlot
  BY DEF PictureInv, ClaimShape, EngineShape, MaybeSlot
<1>2. CASE Look
  <2>1. /\ engine.at = "idle" /\ engine.alive /\ claim.active # NoSlot
        /\ EngineGoes("seen", claim.active)
        /\ UNCHANGED <<stream, ring, slots, frame, worker, claim>>
    BY <1>2 DEF Look, Engages, picture
  <2>2. /\ EngineShape' /\ engine'.at = "seen"
        /\ engine'.slot = claim.active /\ engine'.alive
    BY <1>1, <2>1, EngineGoesTo
  <2>3. HandShake' /\ ClaimShape'
    BY <1>1, <2>1, <2>2, SameSurface DEF HandShake, ClaimShape
  <2> QED BY <2>1, <2>2, <2>3, EngineMoves
<1>3. CASE Announce
  <2>1. /\ engine.at = "seen" /\ engine.alive
        /\ EngineGoes("announced", engine.slot)
        /\ claim' = [claim EXCEPT !.busy = engine.slot]
        /\ UNCHANGED <<stream, ring, slots, frame, worker>>
    BY <1>3 DEF Announce, Engages, picture
  <2>2. /\ EngineShape' /\ engine'.at = "announced"
        /\ engine'.slot = engine.slot /\ engine'.alive
    BY <1>1, <2>1, EngineGoesTo
  <2>3. ClaimShape' /\ claim'.busy = engine.slot
            /\ claim'.active = claim.active
    BY <1>1, <2>1, ClaimGoesTo
  <2>4. HandShake'
    BY <1>1, <2>1, <2>2, <2>3, SameSurface DEF HandShake
  <2> QED BY <2>1, <2>2, <2>3, <2>4, EngineMoves
<1>4. CASE Recheck
  <2>1. /\ engine.at = "announced" /\ engine.alive
        /\ UNCHANGED <<stream, ring, slots, frame, worker>>
    BY <1>4 DEF Recheck, Engages, picture
  <2>2. CASE claim.active = engine.slot
    <3>1. EngineGoes("batch", engine.slot) /\ UNCHANGED claim
      BY <1>4, <2>2 DEF Recheck
    <3>2. /\ EngineShape' /\ engine'.at = "batch"
          /\ engine'.slot = engine.slot /\ engine'.alive
      BY <1>1, <2>1, <3>1, EngineGoesTo
    <3>3. HandShake' /\ ClaimShape'
      BY <1>1, <2>1, <2>2, <3>1, <3>2, SameSurface DEF HandShake, ClaimShape
    <3> QED BY <2>1, <3>2, <3>3, EngineMoves
  <2>3. CASE claim.active # engine.slot
    <3>1. EngineGoes("idle", NoSlot) /\ claim' = [claim EXCEPT !.busy = NoSlot]
      BY <1>4, <2>3 DEF Recheck
    <3>2. /\ EngineShape' /\ engine'.at = "idle" /\ engine'.alive
      BY <1>1, <2>1, <3>1, EngineGoesTo
    <3>3. ClaimShape' /\ claim'.busy = NoSlot /\ claim'.active = claim.active
      BY <1>1, <3>1, ClaimGoesTo
    <3>4. HandShake'
      BY <1>1, <2>1, <3>2, <3>3, SameSurface DEF HandShake
    <3> QED BY <2>1, <3>2, <3>3, <3>4, EngineMoves
  <2> QED BY <2>2, <2>3
<1>5. CASE EndBatch
  <2>1. /\ engine.alive /\ EngineGoes("idle", NoSlot)
        /\ claim' = [claim EXCEPT !.busy = NoSlot]
        /\ UNCHANGED <<stream, ring, slots, frame, worker>>
    BY <1>5 DEF EndBatch, Engages, picture
  <2>2. /\ EngineShape' /\ engine'.at = "idle" /\ engine'.alive
    BY <1>1, <2>1, EngineGoesTo
  <2>3. ClaimShape' /\ claim'.busy = NoSlot /\ claim'.active = claim.active
    BY <1>1, <2>1, ClaimGoesTo
  <2>4. HandShake'
    BY <1>1, <2>1, <2>2, <2>3, SameSurface DEF HandShake
  <2> QED BY <2>1, <2>2, <2>3, <2>4, EngineMoves
<1>6. CASE DecodeAudio
  <2>1. UNCHANGED <<stream, ring, slots, frame, worker, claim, engine>>
    BY <1>6 DEF DecodeAudio, picture
  <2>2. HandShake' /\ ClaimShape' /\ EngineShape'
    BY <1>1, <2>1, SameSurface DEF HandShake, ClaimShape, EngineShape
  <2> QED BY <2>1, <2>2, EngineMoves
<1>7. CASE EngineFails
  <2>1. /\ engine' = Stopped /\ claim' = NoClaim
        /\ UNCHANGED <<stream, ring, slots, frame, worker>>
    BY <1>7 DEF EngineFails, picture
  <2>2. HandShake'
    BY <1>1, <2>1, StoppedIs, SameSurface DEF HandShake
  <2> QED BY <2>1, <2>2, StoppedIs, EngineMoves
<1> QED BY <1>2, <1>3, <1>4, <1>5, <1>6, <1>7 DEF EngineStep

-----------------------------------------------------------------------------
\* The browser's calls, for the pictures.

LEMMA DispatchKeeps ==
    ASSUME PictureInv, NEW alive, NEW some, Dispatch(alive, some), EngineWakes,
           UNCHANGED <<stream, frame, worker, claim>>
    PROVE  PictureInv'
<1>1. CASE HandOver(FALSE) /\ CanDispatch
  BY <1>1, HandsOver DEF HandOver, CanDispatch
<1>2. CASE ring' = Kept /\ UNCHANGED slots
  BY <1>2, Collects
<1> QED BY <1>1, <1>2 DEF Dispatch, Refused, CollectOnly

\* What a step of the browser may do to the pictures.
LEMMA CallsKeep ==
    ASSUME PictureInv, UNCHANGED <<stream, frame, worker, claim>>, EngineWakes,
           \/ ring' = Kept /\ UNCHANGED slots
           \/ \E alive, some : Dispatch(alive, some)
           \/ CanDispatch /\ HandOver(TRUE)
    PROVE  PictureInv'
<1>1. CASE ring' = Kept /\ UNCHANGED slots
  BY <1>1, Collects
<1>2. CASE \E alive, some : Dispatch(alive, some)
  BY <1>2, DispatchKeeps
<1>3. CASE CanDispatch /\ HandOver(TRUE)
  BY <1>3, HandsOver DEF HandOver, CanDispatch
<1> QED BY <1>1, <1>2, <1>3

LEMMA AdvanceStep ==
    ASSUME PictureInv, Advance
    PROVE  PictureInv'
<1>1. UNCHANGED <<stream, frame, worker, claim>>
  BY DEF Advance
<1>2. EngineWakes
  BY DEF Advance, EngineWakes
<1>3. \/ ring' = Kept /\ UNCHANGED slots
      \/ \E alive, some : Dispatch(alive, some)
  BY DEF Advance, Failed, CollectOnly
<1> QED BY <1>1, <1>2, <1>3, CallsKeep

LEMMA SubmitsAndDrain ==
    ASSUME PictureInv, SubmitVideo \/ SubmitAudio \/ Drain
    PROVE  PictureInv'
<1>1. UNCHANGED <<stream, frame, worker, claim>> /\ EngineWakes
  BY DEF SubmitVideo, SubmitAudio, Drain, EngineWakes
<1>2. CASE SubmitVideo
  <2>1. \/ ring' = Kept /\ UNCHANGED slots
        \/ \E alive, some : Dispatch(alive, some)
    BY <1>2 DEF SubmitVideo, Failed, CollectOnly
  <2> QED BY <1>1, <2>1, CallsKeep
<1>3. CASE SubmitAudio
  <2>1. ring' = Kept /\ UNCHANGED slots
    BY <1>3 DEF SubmitAudio, Failed, CollectOnly
  <2> QED BY <1>1, <2>1, CallsKeep
<1>4. CASE Drain
  <2>1. \/ ring' = Kept /\ UNCHANGED slots
        \/ \E alive, some : Dispatch(alive, some)
        \/ CanDispatch /\ HandOver(TRUE)
    BY <1>4 DEF Drain, Failed, Refused, CollectOnly
  <2> QED BY <1>1, <2>1, CallsKeep
<1> QED BY <1>2, <1>3, <1>4

LEMMA PictureStays ==
    ASSUME PictureInv,
           UNCHANGED <<stream, ring, slots, frame, worker, claim, engine>>
    PROVE  PictureInv'
<1>1. HandShake' /\ ClaimShape' /\ EngineShape'
  BY SameSurface DEF PictureInv, HandShake, ClaimShape, EngineShape
<1> QED BY <1>1, EngineMoves

LEMMA BrowseKeeps ==
    ASSUME PictureInv, Browse
    PROVE  PictureInv'
<1>1. CASE Seek
  <2>1. UNCHANGED <<stream, ring, slots, frame, worker, claim, engine>>
    BY <1>1 DEF Seek
  <2> QED BY <2>1, PictureStays
<1> QED BY <1>1, AdvanceStep, SubmitsAndDrain, TakeStep, DiscardStep, BorrowStep,
           ReleaseStep DEF Browse

\* The seek: nothing is left of the pictures when it replaces them.
LEMMA ReplaceStep ==
    ASSUME PictureInv, Replace, ring = <<>>, Unborrowed
    PROVE  PictureInv'
<1>1. /\ slots' = [s \in Slots |-> Freed(slots[s])]
      /\ ring' = [n \in DOMAIN ring |-> [ring[n] EXCEPT !.old = TRUE]]
      /\ frame' = [frame EXCEPT !.last = NoSlot]
      /\ UNCHANGED <<stream, worker, claim, engine>>
  BY DEF Replace
<1>2. DOMAIN ring = {}
  OBVIOUS
<1>3. ring' = ring /\ DOMAIN ring' = {}
  BY <1>1, <1>2
<1>4. \A s \in Slots : /\ slots'[s] \in SlotShape /\ slots'[s].state = "FREE"
                        /\ ~slots'[s].claimed /\ ~slots'[s].retire
                        /\ slots'[s].readers = 0
  <2> SUFFICES ASSUME NEW s \in Slots
               PROVE  /\ slots'[s] \in SlotShape /\ slots'[s].state = "FREE"
                      /\ ~slots'[s].claimed /\ ~slots'[s].retire
                      /\ slots'[s].readers = 0
    OBVIOUS
  <2>1. slots'[s] = Freed(slots[s])
    BY <1>1
  <2>2. slots[s] \in SlotShape /\ slots[s].readers = 0
    BY DEF PictureInv, Unborrowed
  <2> QED BY <2>1, <2>2, FreedIs
<1>5. slots' \in [Slots -> SlotShape]
  BY <1>1, <1>4
<1>6. frame' \in FrameShape /\ frame'.last = NoSlot /\ frame'.slot = frame.slot
          /\ frame.slot \in MaybeSlot
  BY <1>1 DEF PictureInv, FrameShape, MaybeSlot
<1>7. \A s \in Slots : slots[s].state # "WRITING"
  BY <1>2 DEF PictureInv, Written
<1>8. Shown'
  BY <1>4, <1>6, NoSlotOut DEF Shown, Sane, MaybeSlot
<1>9. \A s \in Slots : slots'[s].state = "WRITING" <=>
                           slots[s].state = "WRITING"
  BY <1>4, <1>7
<1> QED BY <1>1, <1>3, <1>5, <1>6, <1>8, <1>9, Redraws

LEMMA ResetKeeps ==
    ASSUME PictureInv, Reset,
           browser.at # "loop" => ring = <<>> /\ Unborrowed
    PROVE  PictureInv'
<1>1. CASE Proceed \/ Wait \/ Restart \/ GiveUp
  <2>1. UNCHANGED <<stream, slots, frame, worker, claim>> /\ ring' = Kept
    BY <1>1 DEF Proceed, Wait, Restart, GiveUp, Polls, CollectOnly
  <2>2. EngineWakes
    BY <1>1 DEF Proceed, Wait, Restart, GiveUp, EngineWakes
  <2> QED BY <2>1, <2>2, Collects
<1>2. CASE FreeRing
  <2>1. /\ browser.at = "release" /\ claim.busy = NoSlot /\ claim' = NoClaim
        /\ UNCHANGED <<stream, ring, slots, frame, worker, engine>>
    BY <1>2 DEF FreeRing, picture
  <2>2. ClaimShape' /\ claim'.active = NoSlot /\ claim'.busy = NoSlot
    BY <2>1 DEF NoClaim, ClaimShape, MaybeSlot
  <2>3. EngineShape' /\ HandShake'
    BY <2>1, <2>2, SameSurface DEF PictureInv, EngineShape, HandShake
  <2> QED BY <2>1, <2>2, <2>3, EngineMoves
<1>3. CASE Replace
  <2>1. browser.at # "loop"
    BY <1>3 DEF Replace
  <2> QED BY <1>3, <2>1, ReplaceStep
<1>4. CASE ReplaceFails \/ Lower
  <2>1. UNCHANGED <<stream, ring, slots, frame, worker, claim, engine>>
    BY <1>4 DEF ReplaceFails, Lower, picture
  <2> QED BY <2>1, PictureStays
<1> QED BY <1>1, <1>2, <1>3, <1>4 DEF Reset

-----------------------------------------------------------------------------
\* Nothing of the old stream among the jobs, the surfaces and the picture.

AllNew ==
    /\ \A n \in DOMAIN ring : ~ring[n].old
    /\ \A s \in Slots : ~slots[s].old
    /\ ~frame.old

LEMMA NewJobs ==
    ASSUME PictureInv, AllNew,
           \/ ring' = Kept
           \/ \E s \in Slots, flush \in BOOLEAN :
                 ring' = Append(Kept, NewJob(s, flush)) /\ Len(Kept) < Depth
    PROVE  \A n \in DOMAIN ring' : ~ring'[n].old
<1>0. RingShape
  BY DEF PictureInv
<1>1. CASE ring' = Kept
  <2>1. PICK f : Carries(ring', DOMAIN ring', f)
    BY <1>0, <1>1, KeptIs
  <2> QED BY <2>1 DEF Carries, AllNew
<1>2. CASE \E s \in Slots, flush \in BOOLEAN :
              ring' = Append(Kept, NewJob(s, flush)) /\ Len(Kept) < Depth
  <2>1. PICK s \in Slots, flush \in BOOLEAN :
            ring' = Append(Kept, NewJob(s, flush)) /\ Len(Kept) < Depth
    BY <1>2
  <2>2. NewJob(s, flush) \in JobShape /\ ~NewJob(s, flush).old
    BY DEF JobShape, NewJob
  <2>3. PICK new \in DOMAIN ring' :
            ring'[new] = NewJob(s, flush)
                /\ \E f : Carries(ring', DOMAIN ring' \ {new}, f)
    BY <1>0, <2>1, <2>2, HandedOver
  <2>4. PICK f : Carries(ring', DOMAIN ring' \ {new}, f)
    BY <2>3
  <2>5. \A n \in DOMAIN ring' \ {new} : ~ring'[n].old
    BY <2>4 DEF Carries, AllNew
  <2> QED BY <2>2, <2>3, <2>5
<1> QED BY <1>1, <1>2

LEMMA NewByCalls ==
    ASSUME PictureInv, AllNew, frame' = frame,
           \/ ring' = Kept /\ UNCHANGED slots
           \/ \E alive, some : Dispatch(alive, some)
           \/ CanDispatch /\ HandOver(TRUE)
    PROVE  AllNew'
<1>1. CASE ring' = Kept /\ UNCHANGED slots
  BY <1>1, NewJobs DEF AllNew
<1>2. CASE CanDispatch /\ \E flush \in BOOLEAN : HandOver(flush)
  <2>1. PICK flush \in BOOLEAN, s \in SlotsIn("FREE") :
            /\ ring' = Append(Kept, NewJob(s, flush)) /\ Len(Kept) < Depth
            /\ slots' = [slots EXCEPT ![s].state = "WRITING"]
    BY <1>2 DEF HandOver, CanDispatch
  <2>2. s \in Slots
    BY DEF SlotsIn
  <2>3. \A n \in DOMAIN ring' : ~ring'[n].old
    BY <2>1, <2>2, NewJobs
  <2>4. \A t \in Slots : slots'[t].old = slots[t].old
    BY <2>1, <2>2 DEF PictureInv, SlotShape
  <2> QED BY <2>3, <2>4 DEF AllNew
<1> QED BY <1>1, <1>2 DEF Dispatch, Refused, CollectOnly

LEMMA NewByBrowse ==
    ASSUME PictureInv, AllNew, Browse
    PROVE  AllNew'
<1>1. CASE Advance \/ SubmitVideo \/ SubmitAudio \/ Drain
  <2>1. frame' = frame
    BY <1>1 DEF Advance, SubmitVideo, SubmitAudio, Drain
  <2>2. \/ ring' = Kept /\ UNCHANGED slots
        \/ \E alive, some : Dispatch(alive, some)
        \/ CanDispatch /\ HandOver(TRUE)
    <3>1. CASE Advance
      BY <3>1 DEF Advance, Failed, CollectOnly
    <3>2. CASE SubmitVideo
      BY <3>2 DEF SubmitVideo, Failed, CollectOnly
    <3>3. CASE SubmitAudio
      BY <3>3 DEF SubmitAudio, Failed, CollectOnly
    <3>4. CASE Drain
      BY <3>4 DEF Drain, Failed, Refused, CollectOnly
    <3> QED BY <1>1, <3>1, <3>2, <3>3, <3>4
  <2> QED BY <2>1, <2>2, NewByCalls
<1>2. CASE Take
  <2>1. PICK s \in Takeable, late \in SUBSET Takeable :
          /\ s \notin late
          /\ slots' = [t \in Slots |->
                CASE t = s -> [slots[s] EXCEPT !.claimed = TRUE]
                  [] t \in late -> Freed(slots[t])
                  [] OTHER -> PriorReleased(s)[t]]
          /\ frame' = [slot |-> s, fresh |-> TRUE, old |-> slots[s].old,
                       last |-> s]
    BY <1>2 DEF Take
  <2>2. s \in Slots /\ ring' = ring
    BY <1>2 DEF Takeable, SlotsIn, Take
  <2>3. \A t \in Slots : ~Freed(slots[t]).old
    BY FreedIs DEF PictureInv
  <2>4. \A t \in Slots : ~PriorReleased(s)[t].old
    <3> SUFFICES ASSUME NEW t \in Slots
                 PROVE  ~PriorReleased(s)[t].old
      OBVIOUS
    <3>1. slots[t] \in SlotShape /\ ~slots[t].old
      BY DEF PictureInv, AllNew
    <3>2. \/ PriorReleased(s)[t] = slots[t]
          \/ PriorReleased(s)[t] = Freed(slots[t])
          \/ PriorReleased(s)[t] = [slots[t] EXCEPT !.retire = TRUE,
                                                   !.claimed = FALSE]
      BY DEF PriorReleased, PictureInv
    <3> QED BY <3>1, <3>2, <2>3 DEF SlotShape
  <2>5. \A t \in Slots : ~slots'[t].old
    <3> SUFFICES ASSUME NEW t \in Slots
                 PROVE  ~slots'[t].old
      OBVIOUS
    <3>1. CASE t = s
      <4>1. slots'[t] = [slots[s] EXCEPT !.claimed = TRUE]
        BY <2>1, <3>1
      <4>2. slots[s] \in SlotShape /\ ~slots[s].old
        BY <2>2 DEF PictureInv, AllNew
      <4> QED BY <4>1, <4>2 DEF SlotShape
    <3>2. CASE t # s
      BY <2>1, <2>3, <2>4, <3>2
    <3> QED BY <3>1, <3>2
  <2> QED BY <2>1, <2>2, <2>5 DEF AllNew
<1>3. CASE Discard
  <2>1. PICK early \in SUBSET Takeable :
          slots' = [t \in Slots |->
                       IF t \in early THEN Freed(slots[t]) ELSE slots[t]]
    BY <1>3 DEF Discard
  <2>2. \A t \in Slots : ~Freed(slots[t]).old
    BY FreedIs DEF PictureInv
  <2> QED BY <1>3, <2>1, <2>2 DEF Discard, AllNew
<1>4. CASE Borrow
  <2> DEFINE s == frame.slot
             slot == [slots[s] EXCEPT !.state = "READING", !.readers = @ + 1]
  <2>1. s \in Slots
    BY <1>4 DEF Borrow, PictureInv, FrameShape, MaybeSlot
  <2>2. slots' = [slots EXCEPT ![s] = slot] /\ UNCHANGED <<ring, frame>>
    BY <1>4 DEF Borrow, SetSlot
  <2>3. slots[s] \in SlotShape /\ ~slots[s].old
    BY <2>1 DEF PictureInv, AllNew
  <2>4. ~slot.old
    BY <2>3 DEF SlotShape
  <2> HIDE DEF slot, s
  <2> QED BY <2>2, <2>4 DEF AllNew, PictureInv
<1>5. CASE \E s \in Slots : Release(s)
  <2>1. PICK s \in Slots : Release(s)
    BY <1>5
  <2> DEFINE left == [slots[s] EXCEPT !.readers = @ - 1]
             slot == IF left.readers > 0 THEN left ELSE LastReaderGone(left)
  <2>2. slots' = [slots EXCEPT ![s] = slot] /\ UNCHANGED <<ring, frame>>
    BY <2>1 DEF Release, SetSlot
  <2>3. slots[s] \in SlotShape /\ ~slots[s].old /\ slots[s].readers > 0
    BY <2>1 DEF PictureInv, AllNew, Release
  <2>4. left \in SlotShape /\ ~left.old
    BY <2>3 DEF SlotShape
  <2> HIDE DEF left
  <2>5. ~Freed(left).old
    BY <2>4, FreedIs
  <2>6. ~[left EXCEPT !.state = "READY"].old
    BY <2>4 DEF SlotShape
  <2>7. ~slot.old
    BY <2>4, <2>5, <2>6 DEF LastReaderGone
  <2> HIDE DEF slot
  <2> QED BY <2>2, <2>7 DEF AllNew, PictureInv
<1>6. CASE Seek
  BY <1>6 DEF Seek, AllNew
<1> QED BY <1>1, <1>2, <1>3, <1>4, <1>5, <1>6 DEF Browse

LEMMA NewByWorker ==
    ASSUME PictureInv, AllNew, WorkerStep
    PROVE  AllNew'
<1>0. \A n \in DOMAIN ring : ring[n] \in JobShape
  BY Jobs DEF PictureInv
<1>1. CASE Begin
  <2>1. PICK n \in InState("READY") :
           \/ ring' = [ring EXCEPT ![n].state = "RUNNING"]
           \/ ring' = [ring EXCEPT ![n].state = "RUNNING", ![n].result = "late"]
    BY <1>1 DEF Begin
  <2>2. n \in DOMAIN ring /\ ring[n] \in JobShape
    BY <1>0 DEF InState
  <2>3. \A m \in DOMAIN ring : ring'[m].old = ring[m].old
    BY <2>1, <2>2 DEF JobShape
  <2> QED BY <1>1, <2>1, <2>3 DEF AllNew, Begin
<1>2. CASE Withdraw \/ Join \/ Bind \/ DecodePicture \/ Closed \/ Offer
  <2>1. UNCHANGED <<ring, slots, frame>>
    BY <1>2 DEF Withdraw, Join, Bind, DecodePicture, Closed, Offer, picture
  <2> QED BY <2>1 DEF AllNew
<1>3. CASE DecodeEmpty \/ Converted \/ Finish
  <2>1. worker.at # "wait" /\ UNCHANGED <<slots, frame>>
    BY <1>3 DEF DecodeEmpty, Converted, Finish, Works
  <2>2. PICK n \in DOMAIN ring : n = Running
    BY <2>1, AtWork
  <2>3. \/ ring' = ring
        \/ \E result : ring' = [ring EXCEPT ![n].result = result]
        \/ ring' = [ring EXCEPT ![n].state = "DONE"]
    BY <1>3, <2>2 DEF DecodeEmpty, Converted, Finish
  <2>4. \A m \in DOMAIN ring : ring'[m].old = ring[m].old
    BY <2>3, <1>0 DEF JobShape
  <2> QED BY <2>1, <2>3, <2>4 DEF AllNew
<1>4. CASE Drop
  <2>1. UNCHANGED <<ring, frame>>
            /\ slots' = [slots EXCEPT ![Surface] = Freed(slots[Surface])]
    BY <1>4 DEF Drop, SetSlot
  <2>2. Surface \in Slots
    BY <1>4, AtWork DEF Drop, Works
  <2>3. ~Freed(slots[Surface]).old
    BY <2>2, FreedIs DEF PictureInv
  <2> QED BY <2>1, <2>2, <2>3 DEF AllNew, PictureInv
<1>5. CASE Publish
  <2> DEFINE slot == [slots[Surface] EXCEPT
                         !.state = "READY", !.claimed = FALSE,
                         !.retire = FALSE, !.old = Job.old]
  <2>1. /\ ring' = ring /\ slots' = [slots EXCEPT ![Surface] = slot]
        /\ frame' = [frame EXCEPT !.fresh = @ /\ frame.slot # Surface]
    BY <1>5 DEF Publish, SetSlot
  <2>2. Surface \in Slots /\ ~Job.old
    BY <1>5, AtWork DEF Publish, Works, AllNew
  <2>3. slots[Surface] \in SlotShape
    BY <2>2 DEF PictureInv
  <2>4. ~slot.old
    BY <2>2, <2>3 DEF SlotShape
  <2> HIDE DEF slot
  <2>5. ~frame'.old
    BY <2>1 DEF AllNew, PictureInv, FrameShape
  <2> QED BY <2>1, <2>2, <2>4, <2>5 DEF AllNew, PictureInv
<1> QED BY <1>1, <1>2, <1>3, <1>4, <1>5 DEF WorkerStep

LEMMA NewByReset ==
    ASSUME PictureInv, AllNew, Reset, browser.at # "loop" => ring = <<>>
    PROVE  AllNew'
<1>1. CASE Proceed \/ Wait \/ Restart \/ GiveUp
  <2>1. UNCHANGED <<slots, frame>> /\ ring' = Kept
    BY <1>1 DEF Proceed, Wait, Restart, GiveUp, Polls, CollectOnly
  <2> QED BY <2>1, NewByCalls
<1>2. CASE FreeRing \/ ReplaceFails \/ Lower
  <2>1. UNCHANGED <<ring, slots, frame>>
    BY <1>2 DEF FreeRing, ReplaceFails, Lower, picture
  <2> QED BY <2>1 DEF AllNew
<1>3. CASE Replace
  <2>1. /\ slots' = [s \in Slots |-> Freed(slots[s])]
        /\ ring' = [n \in DOMAIN ring |-> [ring[n] EXCEPT !.old = TRUE]]
        /\ frame' = [frame EXCEPT !.last = NoSlot]
    BY <1>3 DEF Replace
  <2>2. DOMAIN ring = {}
    BY <1>3 DEF Replace
  <2>3. \A s \in Slots : ~Freed(slots[s]).old
    BY FreedIs DEF PictureInv
  <2> QED BY <2>1, <2>2, <2>3 DEF AllNew, PictureInv, FrameShape
<1> QED BY <1>1, <1>2, <1>3 DEF Reset

-----------------------------------------------------------------------------
\* The sound half: the fence, the hardware, the room in the ring.

FenceShape ==
    fence \in [raised : 0 .. Generations, parked : 0 .. Generations,
              generation : 0 .. Generations, ring : BOOLEAN]

AudioShape ==
    audio \in [call : {"silence", "ring", "clock"}, hold : 0 .. Generations,
              held : {"silence", "ring"}, started : BOOLEAN, stale : BOOLEAN,
              failed : BOOLEAN, error : BOOLEAN]

PcmShape == pcm \in [undecoded : Nat, unplayed : Nat]

BrowserShape ==
    /\ browser \in [at : {"loop", "release", "replace", "lower"},
                    pending : BOOLEAN, over : BOOLEAN]
    /\ browser.at # "loop" => browser.pending /\ ~browser.over

SoundShape ==
    FenceShape /\ AudioShape /\ PcmShape /\ BrowserShape
        /\ stream \in StreamKinds

\* A fence that is down was acknowledged in its last generation, so that no
\* acknowledgement still to come can be taken for one of the next; what plays
\* under a hold is silence; and the ring is gone only while it is parked.
FenceInv ==
    /\ fence.raised \in {0, fence.generation}
    /\ fence.raised = 0 => fence.parked = fence.generation
                             /\ audio.hold \in {0, fence.generation}
    /\ fence.raised # 0 => browser.pending /\ stream.audio
    /\ audio.hold # 0 => audio.call = "silence"
    /\ Parked => audio.hold = fence.raised /\ audio.held # "ring"
    /\ ~fence.ring => stream.audio /\ Parked /\ browser.at # "lower"
    /\ ~stream.audio => audio.call = "silence"
    /\ audio.stale => audio.call = "silence"

InHardware == IF audio.held = "ring" THEN 1 ELSE 0

Room ==
    /\ pcm.undecoded + pcm.unplayed + InHardware <= PcmSlots
    /\ audio.call = "ring" => pcm.unplayed > 0

SoundInv == SoundShape /\ FenceInv /\ Room /\ cursor \in {"zero", "stream"}

\* While the seek is performed.
Still ==
    browser.at # "loop" =>
        ring = <<>> /\ Unborrowed /\ (stream.audio => Parked)

LEMMA NextGeneration ==
    ASSUME NEW g \in 0 .. Generations, NEW h, h = (g % Generations) + 1
    PROVE  h \in 1 .. Generations /\ h # g
<1>1. Generations \in Nat /\ Generations >= 2
  BY PipelineAssumption
<1>2. CASE g = Generations
  <2>1. g % Generations = 0
    BY <1>1, <1>2
  <2> QED BY <2>1, <1>1, <1>2
<1>3. CASE g # Generations
  <2>1. g % Generations = g
    BY <1>1, <1>3
  <2> QED BY <2>1, <1>1, <1>3
<1> QED BY <1>2, <1>3

LEMMA PcmRoom ==
    PcmSlots \in Nat /\ PcmMargin \in Nat /\ PcmMargin >= 1 /\ PcmSlots >= 2
BY PipelineAssumption

LEMMA FewBlocks ==
    ASSUME NEW a \in Nat, NEW b \in Nat, NEW h \in Nat,
           a <= 0, b <= 0, h <= 1
    PROVE  a + b + h <= PcmSlots
BY PcmRoom

\* Steps that leave the sound alone.
LEMMA SoundStays ==
    ASSUME SoundInv, UNCHANGED <<stream, fence, audio, pcm, cursor>>,
           BrowserShape', browser'.pending = browser.pending,
           browser'.at = "lower" => browser.at = "lower"
    PROVE  SoundInv'
<1>1. SoundShape'
  BY DEF SoundInv, SoundShape, FenceShape, AudioShape, PcmShape
<1>2. FenceInv'
  BY DEF SoundInv, FenceInv, Parked
<1>3. Room'
  BY DEF SoundInv, Room, InHardware
<1> QED BY <1>1, <1>2, <1>3 DEF SoundInv

LEMMA EndsIs ==
    ASSUME SoundInv, browser.at \in {"loop", "replace"}, Ends
    PROVE  /\ BrowserShape' /\ browser'.at = "loop"
           /\ browser'.pending = browser.pending
BY DEF Ends, SoundInv, SoundShape, BrowserShape

\* Steps that change the blocks only.
LEMMA PcmMoves ==
    ASSUME SoundInv, UNCHANGED <<stream, fence, audio, cursor, browser>>,
           PcmShape', pcm'.unplayed >= pcm.unplayed,
           pcm'.undecoded + pcm'.unplayed + InHardware <= PcmSlots
    PROVE  SoundInv'
<1>1. SoundShape'
  BY DEF SoundInv, SoundShape, FenceShape, AudioShape, BrowserShape
<1>2. FenceInv'
  BY DEF SoundInv, FenceInv, Parked
<1>3. pcm.unplayed \in Nat /\ pcm'.unplayed \in Nat
  BY <1>1 DEF SoundInv, SoundShape, PcmShape
<1>4. Room'
  BY <1>3 DEF SoundInv, Room, InHardware
<1> QED BY <1>1, <1>2, <1>4 DEF SoundInv

LEMMA DecodeAudioSound ==
    ASSUME SoundInv, DecodeAudio
    PROVE  SoundInv'
<1>1. /\ pcm.undecoded > 0
      /\ pcm' = [undecoded |-> pcm.undecoded - 1, unplayed |-> pcm.unplayed + 1]
      /\ UNCHANGED <<stream, fence, audio, cursor, browser>>
  BY DEF DecodeAudio
<1>2. pcm.undecoded \in Nat /\ pcm.unplayed \in Nat
  BY DEF SoundInv, SoundShape, PcmShape
<1>3. /\ pcm'.undecoded = pcm.undecoded - 1 /\ pcm'.unplayed = pcm.unplayed + 1
      /\ pcm' = [undecoded |-> pcm'.undecoded, unplayed |-> pcm'.unplayed]
  BY <1>1
<1>4. pcm'.undecoded \in Nat /\ pcm'.unplayed \in Nat
  BY <1>1, <1>2, <1>3
<1>5. PcmShape'
  BY <1>3, <1>4 DEF PcmShape
<1>6. pcm'.undecoded + pcm'.unplayed + InHardware <= PcmSlots
  <2>1. pcm.undecoded + pcm.unplayed + InHardware <= PcmSlots
    BY DEF SoundInv, Room
  <2>2. InHardware \in Nat
    BY DEF InHardware
  <2> QED BY <2>1, <2>2, <1>2, <1>3, PcmRoom
<1> QED BY <1>1, <1>2, <1>3, <1>5, <1>6, PcmMoves

LEMMA SubmitAudioSound ==
    ASSUME SoundInv, SubmitAudio
    PROVE  SoundInv'
<1>1. browser.at = "loop" /\ UNCHANGED <<stream, fence, audio, cursor>>
  BY DEF SubmitAudio, Calls, InLoop
<1>2. CASE Ends /\ UNCHANGED pcm
  BY <1>1, <1>2, EndsIs, SoundStays
<1>3. CASE /\ RingHasRoom /\ UNCHANGED browser
           /\ pcm' = [pcm EXCEPT !.undecoded = @ + 1]
  <2>1. pcm.undecoded \in Nat /\ pcm.unplayed \in Nat
    BY DEF SoundInv, SoundShape, PcmShape
  <2>2. PICK n \in Nat : n = pcm.undecoded + 1
    BY <2>1
  <2>3. /\ PcmShape' /\ pcm'.undecoded = n /\ pcm'.unplayed = pcm.unplayed
    BY <1>3, <2>2 DEF SoundInv, SoundShape, PcmShape
  <2>4. InHardware \in {0, 1}
    BY DEF InHardware
  <2>5. pcm.undecoded + pcm.unplayed < PcmSlots - PcmMargin
    BY <1>3 DEF RingHasRoom
  <2>6. pcm'.undecoded + pcm'.unplayed + InHardware <= PcmSlots
    BY <2>1, <2>2, <2>3, <2>4, <2>5, PcmRoom
  <2>7. pcm'.unplayed >= pcm.unplayed
    BY <2>1, <2>3
  <2> QED BY <1>1, <1>3, <2>3, <2>6, <2>7, PcmMoves
<1> QED BY <1>2, <1>3 DEF SubmitAudio, Failed

\* What the audio thread's turn makes of its record.
LEMMA NextCallIs ==
    ASSUME SoundInv, NEW ok \in BOOLEAN, AudioTurn(ok)
    PROVE  /\ AudioShape' /\ audio'.hold = fence.raised /\ ~audio'.stale
           /\ audio'.held = Returned(ok)
           /\ audio'.call = "ring" => Unplayed > 0
           /\ audio'.hold # 0 => audio'.call = "silence"
<1> DEFINE hold == fence.raised
<1>1. PICK runs \in BOOLEAN, starts \in BOOLEAN, fails \in BOOLEAN :
          audio' = [NextCall(hold, runs, starts, fails) EXCEPT
                       !.held = Returned(ok), !.error = @ \/ ~ok]
  BY DEF AudioTurn
<1>2. audio \in [call : {"silence", "ring", "clock"}, hold : 0 .. Generations,
                held : {"silence", "ring"}, started : BOOLEAN, stale : BOOLEAN,
                failed : BOOLEAN, error : BOOLEAN]
  BY DEF SoundInv, SoundShape, AudioShape
<1> DEFINE started == (audio.started /\ ~audio.stale) \/ (hold = 0 /\ starts)
           block == hold = 0 /\ runs /\ started /\ Unplayed > 0
           failed == audio.failed \/ (block /\ fails)
           call == CASE hold = 0 /\ runs /\ failed -> "clock"
                     [] block /\ ~failed -> "ring"
                     [] OTHER -> "silence"
           next == NextCall(hold, runs, starts, fails)
<1>3. next = [audio EXCEPT !.call = call, !.hold = hold, !.started = started,
                           !.failed = failed, !.stale = FALSE]
  BY DEF NextCall
<1>4. /\ call \in {"silence", "ring", "clock"} /\ started \in BOOLEAN
      /\ failed \in BOOLEAN
      /\ call = "ring" => Unplayed > 0
      /\ hold # 0 => call = "silence"
  <2>1. CASE hold = 0 /\ runs /\ failed
    BY <2>1, <1>2
  <2>2. CASE ~(hold = 0 /\ runs /\ failed) /\ block /\ ~failed
    BY <2>2, <1>2
  <2>3. CASE ~(hold = 0 /\ runs /\ failed) /\ ~(block /\ ~failed)
    BY <2>3, <1>2
  <2> QED BY <2>1, <2>2, <2>3
<1>5. hold \in 0 .. Generations /\ Returned(ok) \in {"silence", "ring"}
  BY <1>2 DEF SoundInv, SoundShape, FenceShape, Returned
<1> HIDE DEF call, started, failed, block, hold, next
<1>6. /\ next \in [call : {"silence", "ring", "clock"}, hold : 0 .. Generations,
                   held : {"silence", "ring"}, started : BOOLEAN,
                   stale : BOOLEAN, failed : BOOLEAN, error : BOOLEAN]
      /\ next.call = call /\ next.hold = hold /\ ~next.stale
  BY <1>2, <1>3, <1>4, <1>5
<1>7. audio' = [next EXCEPT !.held = Returned(ok), !.error = @ \/ ~ok]
  BY <1>1 DEF next, hold
<1>8. /\ AudioShape' /\ audio'.call = call /\ audio'.hold = hold
      /\ ~audio'.stale /\ audio'.held = Returned(ok)
  BY <1>5, <1>6, <1>7 DEF AudioShape
<1> QED BY <1>4, <1>8 DEF hold

LEMMA AudioTurnSound ==
    ASSUME SoundInv, NEW ok \in BOOLEAN, AudioTurn(ok)
    PROVE  SoundInv' /\ (Parked => Parked')
<1>1. /\ stream.audio /\ fence' = Acknowledged(ok)
      /\ pcm' = [pcm EXCEPT !.unplayed = Unplayed] /\ cursor' = Published
      /\ UNCHANGED <<stream, browser>>
  BY DEF AudioTurn
<1>2. /\ AudioShape' /\ audio'.hold = fence.raised /\ ~audio'.stale
      /\ audio'.held = Returned(ok)
      /\ audio'.call = "ring" => Unplayed > 0
      /\ audio'.hold # 0 => audio'.call = "silence"
  BY NextCallIs
<1>3. FenceShape /\ AudioShape /\ PcmShape /\ BrowserShape /\ FenceInv /\ Room
  BY DEF SoundInv, SoundShape
<1>4. pcm.undecoded \in Nat /\ pcm.unplayed \in Nat
  BY <1>3 DEF PcmShape
<1>5. /\ Unplayed \in Nat
      /\ audio.call = "ring" => Unplayed = pcm.unplayed - 1
      /\ audio.call # "ring" => Unplayed = pcm.unplayed
  BY <1>3, <1>4 DEF Unplayed, Room
<1>6. PcmShape' /\ pcm'.undecoded = pcm.undecoded /\ pcm'.unplayed = Unplayed
  BY <1>1, <1>3, <1>5 DEF PcmShape
<1>7. Room'
  <2>1. pcm.undecoded + pcm.unplayed + InHardware <= PcmSlots
    BY <1>3 DEF Room
  <2>2. CASE audio.call = "ring"
    <3>1. InHardware' <= 1 /\ InHardware' \in Nat /\ InHardware \in Nat
      BY DEF InHardware
    <3>2. Unplayed = pcm.unplayed - 1
      BY <2>2, <1>5
    <3> QED BY <2>1, <3>1, <3>2, <1>2, <1>4, <1>5, <1>6, PcmRoom DEF Room
  <2>3. CASE audio.call # "ring"
    <3>1. audio'.held = "ring" => audio.held = "ring"
      BY <2>3, <1>2 DEF Returned
    <3>2. InHardware' <= InHardware /\ InHardware' \in Nat /\ InHardware \in Nat
      BY <3>1 DEF InHardware
    <3>3. Unplayed = pcm.unplayed
      BY <2>3, <1>5
    <3> QED BY <2>1, <3>2, <3>3, <1>2, <1>4, <1>5, <1>6, PcmRoom DEF Room
  <2> QED BY <2>2, <2>3
<1>8. cursor' \in {"zero", "stream"}
  BY <1>1, <1>3 DEF Published, FenceInv, SoundInv
<1>9. /\ FenceShape' /\ fence'.raised = fence.raised
      /\ fence'.generation = fence.generation /\ fence'.ring = fence.ring
      /\ \/ fence' = fence
         \/ /\ ok /\ audio.call = "silence" /\ audio.hold # 0
            /\ fence'.parked = audio.hold
  <2>1. CASE ok /\ audio.call = "silence" /\ audio.hold # 0
    <3>1. fence' = [fence EXCEPT !.parked = audio.hold]
      BY <1>1, <2>1 DEF Acknowledged
    <3> QED BY <2>1, <3>1, <1>3 DEF FenceShape, AudioShape
  <2>2. CASE ~(ok /\ audio.call = "silence" /\ audio.hold # 0)
    <3>1. fence' = fence
      BY <1>1, <2>2 DEF Acknowledged
    <3> QED BY <3>1, <1>3 DEF FenceShape
  <2> QED BY <2>1, <2>2
<1>10. Parked => Parked'
  BY <1>3, <1>9 DEF Parked, FenceInv
<1>11. Parked' => audio'.held # "ring"
  BY <1>2, <1>3, <1>9 DEF Parked, FenceInv, Returned
<1>12. FenceInv'
  BY <1>1, <1>2, <1>3, <1>9, <1>10, <1>11 DEF FenceInv, Parked
<1>13. BrowserShape'
  BY <1>1, <1>3 DEF BrowserShape
<1>14. SoundShape'
  BY <1>1, <1>2, <1>6, <1>9, <1>13 DEF SoundShape, SoundInv
<1> QED BY <1>7, <1>8, <1>10, <1>12, <1>14 DEF SoundInv

LEMMA SeekSound ==
    ASSUME SoundInv, Seek
    PROVE  SoundInv' /\ browser'.at = "loop"
<1>1. /\ browser.at = "loop" /\ browser' = [browser EXCEPT !.pending = TRUE]
      /\ fence' = IF stream.audio /\ ~browser.pending THEN Raised ELSE fence
      /\ UNCHANGED <<stream, audio, pcm, cursor>>
  BY DEF Seek, InLoop
<1>2. FenceShape /\ AudioShape /\ PcmShape /\ BrowserShape /\ FenceInv /\ Room
  BY DEF SoundInv, SoundShape
<1>3. BrowserShape' /\ browser'.at = "loop" /\ browser'.pending
  BY <1>1, <1>2 DEF BrowserShape
<1>4. Room'
  BY <1>1, <1>2 DEF Room, InHardware
<1>5. CASE fence' = fence
  <2>1. SoundShape'
    BY <1>1, <1>2, <1>3, <1>5
       DEF SoundInv, SoundShape, FenceShape, AudioShape, PcmShape
  <2>2. FenceInv'
    BY <1>1, <1>2, <1>3, <1>5 DEF FenceInv, Parked
  <2> QED BY <1>1, <1>3, <1>4, <2>1, <2>2 DEF SoundInv
<1>6. CASE stream.audio /\ fence' # fence
  <2>0. PICK next : next = (fence.generation % Generations) + 1
    OBVIOUS
  <2>1. /\ fence.raised = 0
        /\ fence' = [fence EXCEPT !.raised = next, !.generation = next]
    BY <1>1, <1>6, <2>0 DEF Raised
  <2>2. next \in 1 .. Generations /\ next # fence.generation
    BY <2>0, <1>2, NextGeneration DEF FenceShape
  <2>3. next \in 0 .. Generations /\ next # 0
    BY <2>2, PipelineAssumption
  <2>4. /\ FenceShape' /\ fence'.raised = next /\ fence'.generation = next
        /\ fence'.parked = fence.parked /\ fence'.ring = fence.ring
    BY <2>1, <2>3, <1>2 DEF FenceShape
  <2>5. ~Parked' /\ fence.ring
    BY <2>1, <2>2, <2>4, <1>2 DEF Parked, FenceInv
  <2>6. FenceInv'
    BY <1>1, <1>2, <1>3, <1>6, <2>3, <2>4, <2>5 DEF FenceInv
  <2>7. SoundShape'
    BY <1>1, <1>2, <1>3, <2>4
       DEF SoundInv, SoundShape, AudioShape, PcmShape
  <2> QED BY <1>1, <1>3, <1>4, <2>6, <2>7 DEF SoundInv
<1> QED BY <1>1, <1>5, <1>6

LEMMA ResetSound ==
    ASSUME SoundInv, Reset, Still
    PROVE  SoundInv'
<1>0. FenceShape /\ AudioShape /\ PcmShape /\ BrowserShape /\ FenceInv /\ Room
  BY DEF SoundInv, SoundShape
<1>1. CASE Proceed \/ Wait \/ Restart \/ GiveUp
  <2>1. browser.at = "loop" /\ browser.pending /\ ~browser.over
            /\ UNCHANGED <<stream, fence, audio, pcm, cursor>>
    BY <1>1 DEF Proceed, Wait, Restart, GiveUp, Polls, InLoop, Going, sound
  <2>2. /\ BrowserShape' /\ browser'.pending = browser.pending
        /\ browser'.at # "lower"
    BY <1>0, <1>1, <2>1
       DEF Proceed, Wait, Restart, GiveUp, Ends, BrowserShape
  <2> QED BY <2>1, <2>2, SoundStays
<1>2. CASE FreeRing
  <2>1. /\ browser.at = "release" /\ fence' = [fence EXCEPT !.ring = ~stream.audio]
        /\ browser' = [browser EXCEPT !.at = "replace"]
        /\ UNCHANGED <<stream, audio, pcm, cursor>>
    BY <1>2 DEF FreeRing
  <2>2. stream.audio \in BOOLEAN
    BY DEF SoundInv, SoundShape, StreamKinds
  <2>3. /\ FenceShape' /\ fence'.raised = fence.raised
        /\ fence'.generation = fence.generation
        /\ fence'.parked = fence.parked /\ fence'.ring = ~stream.audio
    BY <1>0, <2>1, <2>2 DEF FenceShape
  <2>4. BrowserShape' /\ browser'.at = "replace"
            /\ browser'.pending = browser.pending
    BY <1>0, <2>1 DEF BrowserShape
  <2>5. stream.audio => Parked
    BY <2>1 DEF Still
  <2>6. FenceInv'
    BY <1>0, <2>1, <2>3, <2>4, <2>5 DEF FenceInv, Parked
  <2>7. SoundShape' /\ Room'
    BY <1>0, <2>1, <2>3, <2>4
       DEF SoundInv, SoundShape, AudioShape, PcmShape, Room, InHardware
  <2> QED BY <2>1, <2>6, <2>7 DEF SoundInv
<1>3. CASE Replace
  <2>1. /\ browser.at = "replace" /\ fence' = [fence EXCEPT !.ring = TRUE]
        /\ pcm' = [undecoded |-> 0, unplayed |-> 0] /\ cursor' = "zero"
        /\ browser' = [browser EXCEPT !.at = "lower"] /\ UNCHANGED stream
    BY <1>3 DEF Replace
  <2>2. PICK retry \in BOOLEAN :
            audio' = [audio EXCEPT !.stale = stream.audio, !.error = FALSE,
                                   !.failed = @ /\ ~retry]
    BY <1>3 DEF Replace
  <2>3. stream.audio \in BOOLEAN
    BY DEF SoundInv, SoundShape, StreamKinds
  <2>4. /\ AudioShape' /\ audio'.call = audio.call /\ audio'.hold = audio.hold
        /\ audio'.held = audio.held /\ audio'.stale = stream.audio
    BY <1>0, <2>2, <2>3 DEF AudioShape
  <2>5. /\ FenceShape' /\ fence'.raised = fence.raised
        /\ fence'.generation = fence.generation
        /\ fence'.parked = fence.parked /\ fence'.ring
    BY <1>0, <2>1 DEF FenceShape
  <2>6. /\ BrowserShape' /\ browser'.at = "lower"
        /\ browser'.pending = browser.pending
    BY <1>0, <2>1 DEF BrowserShape
  <2>7. stream.audio => Parked
    BY <2>1 DEF Still
  <2>8. audio.call = "silence"
    BY <1>0, <2>7 DEF FenceInv, Parked
  <2>9. FenceInv'
    BY <1>0, <2>1, <2>4, <2>5, <2>6, <2>8 DEF FenceInv, Parked
  <2>10. PcmShape' /\ pcm'.undecoded = 0 /\ pcm'.unplayed = 0
    BY <2>1 DEF PcmShape
  <2>11. InHardware' \in Nat /\ InHardware' <= 1
    BY DEF InHardware
  <2>12. Room'
    <3>1. pcm'.undecoded \in Nat /\ pcm'.unplayed \in Nat
      BY <2>10
    <3>2. pcm'.undecoded + pcm'.unplayed + InHardware' <= PcmSlots
      BY <2>10, <2>11, <3>1, FewBlocks
    <3>3. audio'.call # "ring"
      BY <2>4, <2>8
    <3> QED BY <3>2, <3>3 DEF Room
  <2>13. SoundShape'
    BY <2>1, <2>4, <2>5, <2>6, <2>10 DEF SoundInv, SoundShape
  <2> QED BY <2>1, <2>9, <2>12, <2>13 DEF SoundInv
<1>4. CASE ReplaceFails
  <2>1. /\ browser.at = "replace" /\ Ends
        /\ UNCHANGED <<stream, fence, audio, pcm, cursor>>
    BY <1>4 DEF ReplaceFails, sound
  <2> QED BY <2>1, EndsIs, SoundStays
<1>5. CASE Lower
  <2>1. /\ browser.at = "lower" /\ fence' = [fence EXCEPT !.raised = 0]
        /\ browser' = [browser EXCEPT !.at = "loop", !.pending = FALSE]
        /\ UNCHANGED <<stream, audio, pcm, cursor>>
    BY <1>5 DEF Lower
  <2>2. 0 \in 0 .. Generations
    BY PipelineAssumption
  <2>3. /\ FenceShape' /\ fence'.raised = 0
        /\ fence'.generation = fence.generation
        /\ fence'.parked = fence.parked /\ fence'.ring = fence.ring
    BY <1>0, <2>1, <2>2 DEF FenceShape
  <2>4. BrowserShape' /\ browser'.at = "loop"
    BY <1>0, <2>1 DEF BrowserShape
  <2>5. stream.audio => Parked
    BY <2>1 DEF Still
  <2>6. fence.ring
    BY <1>0, <2>1 DEF FenceInv
  <2>7. FenceInv'
    BY <1>0, <2>1, <2>3, <2>5, <2>6 DEF FenceInv, Parked
  <2>8. SoundShape' /\ Room'
    BY <1>0, <2>1, <2>3, <2>4
       DEF SoundInv, SoundShape, AudioShape, PcmShape, Room, InHardware
  <2> QED BY <2>1, <2>7, <2>8 DEF SoundInv
<1> QED BY <1>1, <1>2, <1>3, <1>4, <1>5 DEF Reset

-----------------------------------------------------------------------------
\* The steps together.

IInv == PictureInv /\ SoundInv /\ AllNew /\ Still

LEMMA Starts == Init => IInv
<1> SUFFICES ASSUME Init
             PROVE  IInv
  OBVIOUS
<1>1. NoSlot \in MaybeSlot /\ stream \in StreamKinds
  BY PipelineAssumption DEF Init, MaybeSlot
<1>2. ring = <<>> /\ DOMAIN ring = {}
  BY DEF Init
<1>3. RingShape /\ OneRuns
  BY <1>2, EmptySeq DEF Init, RingShape, OneRuns, InState
<1>4. /\ FreeSlot \in SlotShape /\ FreeSlot.state = "FREE" /\ ~FreeSlot.old
      /\ FreeSlot.readers = 0 /\ ~FreeSlot.claimed /\ ~FreeSlot.retire
  BY DEF FreeSlot, SlotShape
<1>5. /\ slots \in [Slots -> SlotShape]
      /\ \A s \in Slots : slots[s] = FreeSlot
  BY <1>4 DEF Init
<1>6. frame \in FrameShape /\ frame.last = NoSlot /\ ~frame.fresh /\ ~frame.old
  BY <1>1 DEF Init, FrameShape
<1>7. Written
  BY <1>2, <1>4, <1>5 DEF Written
<1>8. Shown
  BY <1>4, <1>5, <1>6, NoSlotOut DEF Shown, Sane
<1>9. WorkerShape /\ ClaimShape /\ EngineShape
  BY <1>1 DEF Init, WorkerShape, ClaimShape, EngineShape, Places, Reclaiming
<1>10. HandShake
  BY DEF Init, HandShake
<1>11. PictureInv
  BY <1>1, <1>3, <1>5, <1>6, <1>7, <1>8, <1>9, <1>10 DEF PictureInv
<1>12. 0 \in 0 .. Generations
  BY PipelineAssumption
<1>13. SoundShape
  BY <1>1, <1>12
     DEF Init, SoundShape, FenceShape, AudioShape, PcmShape, BrowserShape
<1>14. FenceInv
  BY DEF Init, FenceInv, Parked
<1>15. Room
  BY PcmRoom DEF Init, Room, InHardware
<1>16. SoundInv
  BY <1>13, <1>14, <1>15 DEF Init, SoundInv
<1>17. AllNew /\ Still
  BY <1>2, <1>4, <1>5, <1>6 DEF AllNew, Still, Init
<1> QED BY <1>11, <1>16, <1>17 DEF IInv

LEMMA WorkerKeeps ==
    ASSUME IInv, WorkerStep
    PROVE  IInv'
<1>1. browser.at = "loop" /\ UNCHANGED <<stream, fence, audio, pcm, cursor, browser>>
  BY DEF WorkerStep, Begin, Withdraw, Join, Bind, DecodeEmpty, DecodePicture,
         Closed, Offer, Converted, Drop, Publish, Finish, Works, InLoop, sound
<1>2. PictureInv' /\ AllNew'
  BY WorkerStepKeeps, NewByWorker DEF IInv
<1>3. SoundInv'
  BY <1>1, SoundStays DEF IInv, SoundInv, SoundShape, BrowserShape
<1> QED BY <1>1, <1>2, <1>3 DEF IInv, Still

LEMMA EngineKeeps ==
    ASSUME IInv, EngineStep
    PROVE  IInv'
<1>1. UNCHANGED <<stream, ring, slots, frame, fence, audio, cursor, browser>>
  BY DEF EngineStep, Look, Announce, Recheck, EndBatch, DecodeAudio,
         EngineFails, picture, sound
<1>2. PictureInv'
  BY EngineStepKeeps DEF IInv
<1>3. SoundInv'
  <2>1. CASE DecodeAudio
    BY <2>1, DecodeAudioSound DEF IInv
  <2>2. CASE ~DecodeAudio
    <3>1. UNCHANGED <<stream, fence, audio, pcm, cursor, browser>>
      BY <2>2 DEF EngineStep, Look, Announce, Recheck, EndBatch, EngineFails,
                  sound
    <3> QED BY <3>1, SoundStays DEF IInv, SoundInv, SoundShape, BrowserShape
  <2> QED BY <2>1, <2>2
<1>4. AllNew' /\ Still'
  BY <1>1 DEF IInv, AllNew, Still, Unborrowed, Parked
<1> QED BY <1>2, <1>3, <1>4 DEF IInv

LEMMA BrowseKeepsAll ==
    ASSUME IInv, Browse
    PROVE  IInv'
<1>1. PictureInv' /\ AllNew'
  BY BrowseKeeps, NewByBrowse DEF IInv
<1>2. SoundInv' /\ browser'.at = "loop"
  <2>1. CASE Seek
    BY <2>1, SeekSound DEF IInv
  <2>2. CASE SubmitAudio
    <3>1. SoundInv'
      BY <2>2, SubmitAudioSound DEF IInv
    <3>2. browser.at = "loop" /\ (UNCHANGED browser \/ Ends)
      BY <2>2 DEF SubmitAudio, Failed, Calls, InLoop
    <3> QED BY <3>1, <3>2, EndsIs DEF IInv
  <2>3. CASE Advance \/ SubmitVideo \/ Drain
    <3>1. browser.at = "loop" /\ UNCHANGED <<stream, fence, audio, pcm, cursor>>
      BY <2>3 DEF Advance, SubmitVideo, Drain, Calls, InLoop, sound
    <3>2. UNCHANGED browser \/ Ends
      BY <2>3 DEF Advance, SubmitVideo, Drain, Failed, Refused, Dispatch,
                  HandOver
    <3>3. BrowserShape' /\ browser'.at = "loop"
              /\ browser'.pending = browser.pending
      BY <3>1, <3>2, EndsIs DEF IInv, SoundInv, SoundShape, BrowserShape
    <3> QED BY <3>1, <3>3, SoundStays DEF IInv
  <2>4. CASE Take \/ Discard \/ Borrow \/ \E s \in Slots : Release(s)
    <3>1. browser.at = "loop"
              /\ UNCHANGED <<stream, fence, audio, pcm, cursor, browser>>
      BY <2>4 DEF Take, Discard, Borrow, Release, Calls, InLoop, sound
    <3> QED BY <3>1, SoundStays DEF IInv, SoundInv, SoundShape, BrowserShape
  <2> QED BY <2>1, <2>2, <2>3, <2>4 DEF Browse
<1> QED BY <1>1, <1>2 DEF IInv, Still

LEMMA ResetKeepsAll ==
    ASSUME IInv, Reset
    PROVE  IInv'
<1>1. PictureInv' /\ AllNew' /\ SoundInv'
  BY ResetKeeps, NewByReset, ResetSound DEF IInv, Still
<1>2. Still'
  <2>1. CASE Proceed
    BY <2>1 DEF Proceed, Quiet, Polls, CollectOnly, Still, Unborrowed, Parked,
                sound
  <2>2. CASE Wait \/ Restart \/ GiveUp
    <3>1. browser'.at = "loop"
      BY <2>2 DEF Wait, Restart, GiveUp, Polls, InLoop, Ends, IInv, SoundInv,
                  SoundShape, BrowserShape
    <3> QED BY <3>1 DEF Still
  <2>3. CASE FreeRing
    <3>1. /\ browser.at # "loop" /\ fence'.raised = fence.raised
          /\ fence'.parked = fence.parked /\ UNCHANGED <<stream, ring, slots>>
      BY <2>3 DEF FreeRing, picture, IInv, SoundInv, SoundShape, FenceShape
    <3> QED BY <3>1 DEF IInv, Still, Unborrowed, Parked
  <2>4. CASE Replace
    <3>1. /\ browser.at # "loop" /\ fence'.raised = fence.raised
          /\ fence'.parked = fence.parked /\ UNCHANGED stream
      BY <2>4 DEF Replace, IInv, SoundInv, SoundShape, FenceShape
    <3>2. ring = <<>> /\ Unborrowed /\ (stream.audio => Parked)
      BY <3>1 DEF IInv, Still
    <3>3. ring' = <<>>
      BY <2>4, <3>2 DEF Replace
    <3>4. \A s \in Slots : slots'[s].readers = 0
      <4>1. \A s \in Slots : slots'[s] = Freed(slots[s])
        BY <2>4 DEF Replace
      <4>2. \A s \in Slots : slots[s] \in SlotShape /\ slots[s].readers = 0
        BY <3>2 DEF IInv, PictureInv, Unborrowed
      <4> QED BY <4>1, <4>2, FreedIs
    <3> QED BY <3>1, <3>2, <3>3, <3>4 DEF Still, Unborrowed, Parked
  <2>5. CASE ReplaceFails \/ Lower
    <3>1. browser'.at = "loop"
      BY <2>5 DEF ReplaceFails, Lower, Ends, IInv, SoundInv, SoundShape,
                  BrowserShape
    <3> QED BY <3>1 DEF Still
  <2> QED BY <2>1, <2>2, <2>3, <2>4, <2>5 DEF Reset
<1> QED BY <1>1, <1>2 DEF IInv

LEMMA AudioKeeps ==
    ASSUME IInv, NEW ok \in BOOLEAN, AudioTurn(ok)
    PROVE  IInv'
<1>1. UNCHANGED <<stream, ring, slots, frame, worker, claim, engine, browser>>
  BY DEF AudioTurn, picture
<1>2. SoundInv' /\ (Parked => Parked')
  BY AudioTurnSound DEF IInv
<1>3. PictureInv'
  BY <1>1, PictureStays DEF IInv
<1>4. AllNew' /\ Still'
  BY <1>1, <1>2 DEF IInv, AllNew, Still, Unborrowed
<1> QED BY <1>2, <1>3, <1>4 DEF IInv

LEMMA StepKeeps == IInv /\ [Next]_vars => IInv'
<1> SUFFICES ASSUME IInv, [Next]_vars
             PROVE  IInv'
  OBVIOUS
<1>1. CASE UNCHANGED vars
  <2>1. UNCHANGED <<stream, ring, slots, frame, worker, claim, engine, fence,
                    audio, pcm, cursor, browser>>
    BY <1>1 DEF vars, picture, sound
  <2>2. PictureInv'
    BY <2>1, PictureStays DEF IInv
  <2>3. SoundInv'
    BY <2>1, SoundStays DEF IInv, SoundInv, SoundShape, BrowserShape
  <2> QED BY <2>1, <2>2, <2>3 DEF IInv, AllNew, Still, Unborrowed, Parked
<1> QED BY <1>1, WorkerKeeps, EngineKeeps, BrowseKeepsAll, ResetKeepsAll,
           AudioKeeps DEF Next

\* The inductive invariant: the shapes, the handshake, who writes and who
\* shows each surface, the fence, the room, and that a seek is performed only
\* while everything is still.
THEOREM IInvHolds == Spec => []IInv
BY Starts, StepKeeps, PTL DEF Spec

-----------------------------------------------------------------------------
\* The Media Engine writes only the surface of the job that runs, before the
\* worker took it back (swdec_csc_claim.h).
THEOREM EngineWrites == Spec => []EngineWritesItsSlot
<1>1. IInv => EngineWritesItsSlot
  <2> SUFFICES ASSUME IInv, engine.at = "batch"
               PROVE  /\ worker.at \in {"decode", "withdraw", "join"}
                      /\ engine.slot = Surface
                      /\ slots[engine.slot].state = "WRITING"
    BY DEF EngineWritesItsSlot
  <2>1. worker.at \in {"decode", "withdraw", "join"} /\ engine.slot = Surface
    BY DEF IInv, PictureInv, HandShake
  <2>2. slots[Surface].state = "WRITING"
    BY <2>1, AtWork DEF IInv
  <2> QED BY <2>1, <2>2
<1> QED BY <1>1, IInvHolds, PTL

\* Every surface is written by one job, waits, belongs to the picture claimed
\* last or to the draws that hold it: none is lost and none has two owners.
THEOREM SurfaceOwned == Spec => []SurfaceHasOneOwner
<1>1. IInv => SurfaceHasOneOwner
  <2> SUFFICES ASSUME IInv, NEW s \in Slots
               PROVE  /\ Cardinality(Owners(s)) =
                             (IF slots[s].state = "WRITING" THEN 1 ELSE 0)
                      /\ Sane(slots[s], frame.last = s)
    BY DEF SurfaceHasOneOwner, Sane
  <2>1. Sane(slots[s], frame.last = s) /\ Written
    BY DEF IInv, PictureInv, Shown
  <2>2. Owners(s) = {n \in DOMAIN ring : Writes(n) /\ ring[n].slot = s}
    BY DEF Owners, Writes
  <2>3. CASE slots[s].state = "WRITING"
    <3>1. PICK n \in DOMAIN ring : Writes(n) /\ ring[n].slot = s
      BY <2>1, <2>3 DEF Written
    <3>2. Owners(s) = {n}
      BY <2>1, <2>2, <3>1 DEF Written
    <3>3. Cardinality({n}) = 1
      BY FS_Singleton
    <3> QED BY <2>1, <2>3, <3>2, <3>3
  <2>4. CASE slots[s].state # "WRITING"
    <3>1. Owners(s) = {}
      BY <2>1, <2>2, <2>4 DEF Written
    <3>2. Cardinality({}) = 0
      BY FS_EmptySet
    <3> QED BY <2>1, <2>4, <3>1, <3>2
  <2> QED BY <2>3, <2>4
<1> QED BY <1>1, IInvHolds, PTL

\* No block is freed, and none decoded over, while the hardware holds it
\* (swdec_audio_fence.h).
THEOREM BlocksOutlive == Spec => []BlocksOutliveOutput
<1>1. IInv => BlocksOutliveOutput
  <2> SUFFICES ASSUME IInv
               PROVE  BlocksOutliveOutput
    OBVIOUS
  <2>1. ~fence.ring => audio.call # "ring" /\ audio.held # "ring"
    BY DEF IInv, SoundInv, FenceInv, Parked
  <2>2. pcm.undecoded \in Nat /\ pcm.unplayed \in Nat /\ InHardware \in Nat
    BY DEF IInv, SoundInv, SoundShape, PcmShape, InHardware
  <2>3. pcm.undecoded + pcm.unplayed + InHardware <= PcmSlots
    BY DEF IInv, SoundInv, Room
  <2>4. pcm.undecoded > 0 => pcm.unplayed + InHardware < PcmSlots
    BY <2>2, <2>3, PcmRoom
  <2> QED BY <2>1, <2>4 DEF BlocksOutliveOutput, InHardware
<1> QED BY <1>1, IInvHolds, PTL

\* No picture, job or position of the stream left is shown or told after the
\* seek.
THEOREM NothingOld == Spec => []NothingOfOldStream
<1>1. IInv => NothingOfOldStream
  BY DEF IInv, AllNew, SoundInv, NothingOfOldStream, SlotsIn
<1> QED BY <1>1, IInvHolds, PTL
==============================================================================
