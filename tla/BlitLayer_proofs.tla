-------------------------- MODULE BlitLayer_proofs --------------------------
(***************************************************************************)
(* Proofs about BlitLayer: for every number of slots, HWLayers, frames and *)
(* failures, the types, the reuse of slots, the MDP jobs and the ownership *)
(* of the fences.                                                          *)
(*                                                                         *)
(* The actions are first reduced to what they do to each slot, frame and   *)
(* job, so that the provers need not look into records and sequences.  The *)
(* invariant follows the fences from there: which kind can be where, that  *)
(* a new name is new, that the overlay's fence is in one place, that what  *)
(* an HWLayer was left with is closed, and which fences nobody has.        *)
(***************************************************************************)
EXTENDS BlitLayer, SequenceTheorems, FiniteSetTheorems, TLAPS

USE DEF queueVars, overlayVars, jobVars, historyVars

-----------------------------------------------------------------------------
(* Types.                                                                  *)

QueueTypes ==
    /\ slots \in [Q!Slots -> Q!BufferSlot]
    /\ m_queue \in Seq(Q!Slots)
    /\ m_is_synchronous = FALSE
    /\ m_frame_counter \in 0 .. MaxFrame /\ last \in 0 .. MaxFrame
    /\ qopen \in SUBSET Fds /\ dropped \in SUBSET Fence
    /\ pbuf \in [Q!Slots -> Fence] /\ cbuf \in [Q!Slots -> Fence]
    /\ use \in [Q!Slots -> Fence] /\ contents \in [Q!Slots -> 0 .. MaxFrame]

MainTypes ==
    /\ m_rel_fence \in Fence /\ m_prev \in Fence
    /\ m_last_acquired \in Q!Slots \cup {NoSlot}
    /\ mpc \in {"idle", "dequeue", "config", "release", "acquire", "prepare",
                "trigger"}
    /\ frame \in 0 .. MaxFrame /\ failed \in 0 .. MaxFailed
    /\ live \in SUBSET Fds /\ dropping \in BOOLEAN

Params == [src : Fence, dst : Fence]
Leftover == [port : Fence, shows : 0 .. MaxFrame]

JobTypes ==
    /\ cur \in HWLayer \cup {NoJob}
    /\ DOMAIN m_job_params \in SUBSET (1 .. MaxFrame)
    /\ \A n \in DOMAIN m_job_params : m_job_params[n] \in Params
    /\ pool \in Seq(Leftover) /\ jobs \in Seq(HWLayer)
    /\ given \in SUBSET Fds /\ cancelled \in SUBSET (1 .. MaxFrame)

\* The main thread's place, its job and what it has queued: it queues a buffer
\* only to acquire it again in the same call.
Stages ==
    /\ cur = NoJob <=> mpc = "idle"
    /\ cur # NoJob => cur.seq = frame
    /\ mpc \in {"dequeue", "config", "release", "acquire"} => cur.blit
    /\ mpc \in {"config", "release", "acquire"} => cur.slot \in Q!Slots
    /\ cur # NoJob /\ cur.fail => mpc = "trigger" /\ cur.blit
    /\ m_queue = IF mpc \in {"release", "acquire"} THEN <<cur.slot>> ELSE <<>>

\* The names of the fences.
LEMMA FenceNames ==
  ASSUME NEW n \in 1 .. MaxFrame, NEW kind \in Kinds
  PROVE  <<kind, n>> \in Fds /\ <<kind, n>> # NoFence
<1>1. <<kind, n>> \in Fds
  BY DEF Fds
<1> QED BY <1>1, BlitAssumption

\* A fence that may not be made is a fence or none.
LEMMA FenceIfType ==
  ASSUME NEW n \in 1 .. MaxFrame, NEW kind \in Kinds, NEW made
  PROVE  FenceIf(made, kind, n) \in Fence
  BY FenceNames DEF FenceIf, Fence

\* The bounds of the model are numbers.
LEMMA Bounds == MaxFrame \in Nat /\ MaxFailed \in Nat /\ NumSlots \in Nat \ {0}
  BY BlitAssumption

\* A slot that is taken as it is, or with other fields.
LEMMA SlotFields ==
  ASSUME QueueTypes, NEW i \in Q!Slots
  PROVE  /\ slots[i].state \in Q!BufferState
         /\ slots[i].frame_num \in 0 .. MaxFrame
         /\ slots[i].acquire_fence \in Fence /\ slots[i].release_fence \in Fence
  BY DEF QueueTypes, Q!BufferSlot, Q!Fence, Fence

\* dequeueBuffer takes a free slot and its release fence.
LEMMA DequeueSlots ==
  ASSUME QueueTypes, NEW i \in Q!Slots, Q!DequeueBuffer(i, TRUE)
  PROVE  /\ slots[i].state = "FREE"
         /\ slots' \in [Q!Slots -> Q!BufferSlot]
         /\ \A j \in Q!Slots :
               /\ slots'[j].state = IF j = i THEN "DEQUEUED" ELSE slots[j].state
               /\ slots'[j].release_fence =
                     IF j = i THEN NoFence ELSE slots[j].release_fence
               /\ slots'[j].acquire_fence = slots[j].acquire_fence
         /\ pbuf' = [pbuf EXCEPT ![i] = slots[i].release_fence]
         /\ UNCHANGED <<m_queue, m_is_synchronous, m_frame_counter, qopen, cbuf,
                        last, dropped>>
<1> USE DEF QueueTypes, Q!BufferSlot, Q!Fence, Fence, Q!BufferState
<1>1. slots[i].state = "FREE"
  BY DEF Q!DequeueBuffer, Q!OldestFree
<1>2. slots' = [slots EXCEPT ![i] = [slots[i] EXCEPT !.state = "DEQUEUED",
                                                     !.release_fence = NoFence]]
  BY DEF Q!DequeueBuffer
<1>3. slots' \in [Q!Slots -> Q!BufferSlot]
  BY <1>2
<1>4. \A j \in Q!Slots :
         /\ slots'[j].state = IF j = i THEN "DEQUEUED" ELSE slots[j].state
         /\ slots'[j].release_fence =
               IF j = i THEN NoFence ELSE slots[j].release_fence
         /\ slots'[j].acquire_fence = slots[j].acquire_fence
  BY <1>2
<1>5. /\ pbuf' = [pbuf EXCEPT ![i] = slots[i].release_fence]
      /\ UNCHANGED <<m_queue, m_is_synchronous, m_frame_counter, qopen, cbuf,
                     last, dropped>>
  BY DEF Q!DequeueBuffer
<1> QED BY <1>1, <1>3, <1>4, <1>5

\* queueBuffer finds the queue empty and makes it one slot long.
LEMMA QueueSlots ==
  ASSUME QueueTypes, m_queue = <<>>, NEW i \in Q!Slots, NEW fence \in Fence,
         Q!QueueBuffer(i, fence)
  PROVE  /\ slots[i].state = "DEQUEUED"
         /\ slots' \in [Q!Slots -> Q!BufferSlot]
         /\ \A j \in Q!Slots :
               /\ slots'[j].state = IF j = i THEN "QUEUED" ELSE slots[j].state
               /\ slots'[j].release_fence = slots[j].release_fence
               /\ slots'[j].acquire_fence =
                     IF j = i THEN fence ELSE slots[j].acquire_fence
         /\ m_queue' = <<i>>
         /\ m_frame_counter' \in 0 .. MaxFrame
         /\ qopen' \in SUBSET Fds
         /\ pbuf' = [pbuf EXCEPT ![i] = NoFence]
         /\ UNCHANGED <<m_is_synchronous, cbuf, last, dropped>>
<1> USE DEF QueueTypes, Q!BufferSlot, Q!Fence, Fence, Q!BufferState
<1>1. /\ slots[i].state = "DEQUEUED" /\ m_frame_counter < MaxFrame
      /\ m_frame_counter' = m_frame_counter + 1
  BY DEF Q!QueueBuffer
<1>2. slots' = [slots EXCEPT ![i] =
                   [slots[i] EXCEPT !.state = "QUEUED",
                                    !.frame_num = m_frame_counter + 1,
                                    !.acquire_fence = fence]]
  BY DEF Q!QueueBuffer
<1>3. m_frame_counter + 1 \in 0 .. MaxFrame
  BY <1>1, Bounds
<1>4. slots' \in [Q!Slots -> Q!BufferSlot]
  BY <1>2, <1>3
<1>5. \A j \in Q!Slots :
         /\ slots'[j].state = IF j = i THEN "QUEUED" ELSE slots[j].state
         /\ slots'[j].release_fence = slots[j].release_fence
         /\ slots'[j].acquire_fence =
               IF j = i THEN fence ELSE slots[j].acquire_fence
  BY <1>2
<1>6. m_queue' = <<i>>
  <2>1. m_queue' = Append(<<>>, i)
    BY DEF Q!QueueBuffer
  <2>2. Append(<<>>, i) = <<i>>
    OBVIOUS
  <2> QED BY <2>1, <2>2
<1>7. /\ qopen' \in SUBSET Fds
      /\ pbuf' = [pbuf EXCEPT ![i] = NoFence]
      /\ UNCHANGED <<m_is_synchronous, cbuf, last, dropped>>
  BY DEF Q!QueueBuffer
<1> QED BY <1>1, <1>3, <1>4, <1>5, <1>6, <1>7

\* acquireBuffer takes the slot that is queued, with its fence.
LEMMA AcquireSlots ==
  ASSUME QueueTypes, NEW i \in Q!Slots, m_queue = <<i>>, Q!AcquireBuffer(TRUE)
  PROVE  /\ slots' \in [Q!Slots -> Q!BufferSlot]
         /\ \A j \in Q!Slots :
               /\ slots'[j].state = IF j = i THEN "ACQUIRED" ELSE slots[j].state
               /\ slots'[j].release_fence = slots[j].release_fence
               /\ slots'[j].acquire_fence =
                     IF j = i THEN NoFence ELSE slots[j].acquire_fence
         /\ m_queue' = <<>> /\ Head(m_queue) = i
         /\ last' \in 0 .. MaxFrame
         /\ cbuf' = [cbuf EXCEPT ![i] = slots[i].acquire_fence]
         /\ UNCHANGED <<m_is_synchronous, m_frame_counter, qopen, pbuf, dropped>>
<1> USE DEF QueueTypes, Q!BufferSlot, Q!Fence, Fence, Q!BufferState
<1>1. Head(m_queue) = i /\ Tail(m_queue) = <<>>
  OBVIOUS
<1>2. slots' = [slots EXCEPT ![i] = [slots[i] EXCEPT !.state = "ACQUIRED",
                                                     !.acquire_fence = NoFence]]
  BY <1>1 DEF Q!AcquireBuffer
<1>3. slots' \in [Q!Slots -> Q!BufferSlot]
  BY <1>2
<1>4. \A j \in Q!Slots :
         /\ slots'[j].state = IF j = i THEN "ACQUIRED" ELSE slots[j].state
         /\ slots'[j].release_fence = slots[j].release_fence
         /\ slots'[j].acquire_fence =
               IF j = i THEN NoFence ELSE slots[j].acquire_fence
  BY <1>2
<1>5. /\ m_queue' = <<>>
      /\ last' \in 0 .. MaxFrame
      /\ cbuf' = [cbuf EXCEPT ![i] = slots[i].acquire_fence]
      /\ UNCHANGED <<m_is_synchronous, m_frame_counter, qopen, pbuf, dropped>>
  BY <1>1 DEF Q!AcquireBuffer
<1> QED BY <1>1, <1>3, <1>4, <1>5

\* releaseBuffer frees a slot with the fence it is given.
LEMMA ReleaseSlots ==
  ASSUME QueueTypes, NEW i \in Q!Slots, NEW fence \in Fence,
         Q!ReleaseBuffer(i, fence)
  PROVE  /\ slots[i].state = "ACQUIRED"
         /\ slots' \in [Q!Slots -> Q!BufferSlot]
         /\ \A j \in Q!Slots :
               /\ slots'[j].state = IF j = i THEN "FREE" ELSE slots[j].state
               /\ slots'[j].release_fence =
                     IF j = i THEN fence ELSE slots[j].release_fence
               /\ slots'[j].acquire_fence = slots[j].acquire_fence
         /\ qopen' \in SUBSET Fds
         /\ cbuf' = [cbuf EXCEPT ![i] = NoFence]
         /\ UNCHANGED <<m_queue, m_is_synchronous, m_frame_counter, pbuf, last,
                        dropped>>
<1> USE DEF QueueTypes, Q!BufferSlot, Q!Fence, Fence, Q!BufferState
<1>1. slots[i].state = "ACQUIRED"
  BY DEF Q!ReleaseBuffer
<1>2. slots' = [slots EXCEPT ![i] = [slots[i] EXCEPT !.state = "FREE",
                                                     !.release_fence = fence]]
  BY DEF Q!ReleaseBuffer
<1>3. slots' \in [Q!Slots -> Q!BufferSlot]
  BY <1>2
<1>4. \A j \in Q!Slots :
         /\ slots'[j].state = IF j = i THEN "FREE" ELSE slots[j].state
         /\ slots'[j].release_fence =
               IF j = i THEN fence ELSE slots[j].release_fence
         /\ slots'[j].acquire_fence = slots[j].acquire_fence
  BY <1>2
<1>5. /\ qopen' \in SUBSET Fds
      /\ cbuf' = [cbuf EXCEPT ![i] = NoFence]
      /\ UNCHANGED <<m_queue, m_is_synchronous, m_frame_counter, pbuf, last,
                     dropped>>
  BY DEF Q!ReleaseBuffer
<1> QED BY <1>1, <1>3, <1>4, <1>5

Types == QueueTypes /\ MainTypes /\ JobTypes

NewBlit(done, acq) == NewHWLayer(TRUE, done, acq)

\* A job of a frame that is to be blitted.
LEMMA NewBlitJob ==
  ASSUME MainTypes, JobTypes, pool # <<>>, frame < MaxFrame,
         NEW done \in Fence, NEW acq \in Fence
  PROVE  /\ NewBlit(done, acq) \in HWLayer /\ NewBlit(done, acq) # NoJob
         /\ NewBlit(done, acq).seq = frame + 1
         /\ NewBlit(done, acq).blit = TRUE /\ NewBlit(done, acq).done = done
         /\ NewBlit(done, acq).acq = acq
         /\ NewBlit(done, acq).port = Head(pool).port
         /\ NewBlit(done, acq).fail = FALSE
<1>1. Head(pool) \in Leftover
  BY HeadTailProperties DEF JobTypes
<1>2. frame + 1 \in 1 .. MaxFrame
  BY Bounds DEF MainTypes
<1>3. NewBlit(done, acq) \in HWLayer
  BY <1>1, <1>2 DEF NewBlit, NewHWLayer, HWLayer, Leftover, Fence
<1>4. NewBlit(done, acq) # NoJob
  BY <1>3, NoJobAssumption
<1>5. LET new == NewBlit(done, acq)
      IN  /\ new.seq = frame + 1 /\ new.blit = TRUE
          /\ new.done = done /\ new.acq = acq
          /\ new.port = Head(pool).port /\ new.fail = FALSE
  BY DEF NewBlit, NewHWLayer
<1> QED BY <1>3, <1>4, <1>5

\* A job of a frame that shows the last buffer again.
LEMMA NewBypassJob ==
  ASSUME MainTypes, JobTypes, pool # <<>>, frame < MaxFrame,
         NEW new, new = NewHWLayer(FALSE, NoFence, NoFence)
  PROVE  /\ new \in HWLayer /\ new # NoJob /\ new.seq = frame + 1
         /\ new.blit = FALSE /\ new.done = NoFence /\ new.acq = NoFence
         /\ new.port = Head(pool).port /\ new.fail = FALSE
<1>1. Head(pool) \in Leftover
  BY HeadTailProperties DEF JobTypes
<1>2. frame + 1 \in 1 .. MaxFrame
  BY Bounds DEF MainTypes
<1>3. new \in HWLayer
  BY <1>1, <1>2 DEF NewHWLayer, HWLayer, Leftover, Fence
<1>4. new # NoJob
  BY <1>3, NoJobAssumption
<1>5. /\ new.seq = frame + 1 /\ new.blit = FALSE
      /\ new.done = NoFence /\ new.acq = NoFence
      /\ new.port = Head(pool).port /\ new.fail = FALSE
  BY DEF NewHWLayer
<1> QED BY <1>3, <1>4, <1>5

\* Each action keeps the types and the main thread's place: a frame to blit.
LEMMA SetBlitTypes ==
  ASSUME Types, Stages, SetBlit
  PROVE  Types' /\ Stages'
<1> USE DEF Types
<1>1. /\ mpc = "idle" /\ pool # <<>> /\ frame < MaxFrame /\ frame' = frame + 1
      /\ pool' = Tail(pool) /\ mpc' = "dequeue"
      /\ UNCHANGED <<queueVars, overlayVars, m_prev, jobs, dropping, failed,
                     historyVars>>
  BY DEF SetBlit
<1>2. frame + 1 \in 1 .. MaxFrame
  BY <1>1, Bounds DEF MainTypes
<1>3. PICK created \in BOOLEAN :
         /\ cur' = NewHWLayer(TRUE, FenceIf(created, "done", frame + 1),
                              <<"acq", frame + 1>>)
         /\ live' = live \cup ({FenceIf(created, "done", frame + 1),
                                <<"acq", frame + 1>>} \ {NoFence})
  BY DEF SetBlit
<1>4. /\ FenceIf(created, "done", frame + 1) \in Fence
      /\ <<"acq", frame + 1>> \in Fence
  BY <1>2, FenceIfType, FenceNames DEF Kinds, Fence
<1>5. /\ cur' \in HWLayer /\ cur' # NoJob /\ cur'.seq = frame + 1
      /\ cur'.blit = TRUE /\ cur'.fail = FALSE
  <2>1. PICK done \in Fence, acq \in Fence : cur' = NewBlit(done, acq)
    BY <1>3, <1>4, Zenon DEF NewBlit
  <2>2. MainTypes /\ JobTypes /\ pool # <<>> /\ frame < MaxFrame
    BY <1>1
  <2> HIDE DEF Types
  <2>3. LET new == NewBlit(done, acq)
        IN  /\ new \in HWLayer /\ new # NoJob /\ new.seq = frame + 1
            /\ new.blit = TRUE /\ new.fail = FALSE
    BY <2>2, NewBlitJob, Zenon
  <2> QED BY <2>1, <2>3
<1>6. live' \in SUBSET Fds
  BY <1>3, <1>4 DEF MainTypes, Fence
<1>7. /\ DOMAIN m_job_params' = DOMAIN m_job_params \cup {frame + 1}
      /\ \A n \in DOMAIN m_job_params' :
            m_job_params'[n] = IF n = frame + 1
                                 THEN [src |-> NoFence, dst |-> NoFence]
                                 ELSE m_job_params[n]
  BY DEF SetBlit
<1>8. [src |-> NoFence, dst |-> NoFence] \in Params
  BY DEF Params, Fence
<1>9. pool' \in Seq(Leftover)
  BY <1>1, HeadTailProperties DEF JobTypes
<1>10. QueueTypes'
  BY <1>1 DEF QueueTypes
<1>11. MainTypes'
  BY <1>1, <1>2, <1>6 DEF MainTypes
<1>12. JobTypes'
  BY <1>1, <1>2, <1>5, <1>7, <1>8, <1>9 DEF JobTypes
<1>13. Stages'
  BY <1>1, <1>5 DEF Stages
<1> QED BY <1>10, <1>11, <1>12, <1>13

\* A frame that shows the layer's buffer again.
LEMMA SetBypassTypes ==
  ASSUME Types, Stages, SetBypass
  PROVE  Types' /\ Stages'
<1> USE DEF Types
<1>1. /\ mpc = "idle" /\ pool # <<>> /\ frame < MaxFrame /\ frame' = frame + 1
      /\ pool' = Tail(pool) /\ mpc' = "prepare"
      /\ live' = live \ {m_rel_fence} /\ m_rel_fence' = NoFence
      /\ cur' = NewHWLayer(FALSE, NoFence, NoFence)
      /\ UNCHANGED <<queueVars, m_last_acquired, m_job_params, m_prev, jobs,
                     dropping, failed, historyVars>>
  BY Bounds DEF SetBypass, MainTypes
<1>2. frame + 1 \in 1 .. MaxFrame /\ NoFence \in Fence
  BY <1>1, Bounds DEF MainTypes, Fence
<1>3. /\ cur' \in HWLayer /\ cur' # NoJob /\ cur'.seq = frame + 1
      /\ cur'.blit = FALSE /\ cur'.fail = FALSE
  BY <1>1, NewBypassJob
<1>4. pool' \in Seq(Leftover)
  BY <1>1, HeadTailProperties DEF JobTypes
<1>5. QueueTypes'
  BY <1>1 DEF QueueTypes
<1>6. MainTypes'
  BY <1>1, <1>2 DEF MainTypes
<1>7. JobTypes'
  BY <1>1, <1>3, <1>4 DEF JobTypes
<1>8. Stages'
  BY <1>1, <1>3 DEF Stages
<1> QED BY <1>5, <1>6, <1>7, <1>8

WithSlot(job, i) == [job EXCEPT !.slot = i]

\* A job that got its slot.
LEMMA JobWithSlot ==
  ASSUME NEW job \in HWLayer, NEW i \in Q!Slots
  PROVE  LET new == WithSlot(job, i)
         IN  /\ new \in HWLayer /\ new # NoJob /\ new.seq = job.seq
             /\ new.blit = job.blit /\ new.slot = i
             /\ new.done = job.done /\ new.acq = job.acq
             /\ new.port = job.port /\ new.fail = job.fail
             /\ new.shows = job.shows
<1>1. WithSlot(job, i) \in HWLayer
  BY DEF WithSlot, HWLayer, Fence
<1>2. LET new == WithSlot(job, i)
      IN  /\ new.seq = job.seq /\ new.blit = job.blit
          /\ new.slot = i /\ new.done = job.done
          /\ new.acq = job.acq /\ new.port = job.port
          /\ new.fail = job.fail /\ new.shows = job.shows
  BY DEF WithSlot, HWLayer
<1> QED BY <1>1, <1>2, NoJobAssumption

\* A job whose configuration failed.
LEMMA JobFailed ==
  ASSUME NEW job \in HWLayer, NEW new,
         new = [job EXCEPT !.done = NoFence, !.fail = TRUE]
  PROVE  /\ new \in HWLayer /\ new # NoJob /\ new.seq = job.seq
         /\ new.blit = job.blit /\ new.slot = job.slot /\ new.done = NoFence
         /\ new.acq = job.acq /\ new.port = job.port
         /\ new.fail = TRUE /\ new.shows = job.shows
<1>1. new \in HWLayer
  BY DEF HWLayer, Fence
<1>2. /\ new.seq = job.seq
      /\ new.blit = job.blit /\ new.slot = job.slot /\ new.done = NoFence
      /\ new.acq = job.acq /\ new.port = job.port
      /\ new.fail = TRUE /\ new.shows = job.shows
  BY DEF HWLayer
<1> QED BY <1>1, <1>2, NoJobAssumption

\* A job that was configured: its fences are with MDP and the buffer queue.
LEMMA JobQueued ==
  ASSUME NEW job \in HWLayer, NEW new,
         new = [job EXCEPT !.acq = NoFence, !.done = NoFence]
  PROVE  /\ new \in HWLayer /\ new # NoJob /\ new.seq = job.seq
         /\ new.blit = job.blit /\ new.slot = job.slot /\ new.done = NoFence
         /\ new.acq = NoFence /\ new.port = job.port
         /\ new.fail = job.fail /\ new.shows = job.shows
<1>1. new \in HWLayer
  BY DEF HWLayer, Fence
<1>2. /\ new.seq = job.seq
      /\ new.blit = job.blit /\ new.slot = job.slot /\ new.done = NoFence
      /\ new.acq = NoFence /\ new.port = job.port
      /\ new.fail = job.fail /\ new.shows = job.shows
  BY DEF HWLayer
<1> QED BY <1>1, <1>2, NoJobAssumption

Prepared(job, fence, n) == [job EXCEPT !.port = fence, !.shows = n]

\* A job with what the overlay is to show and wait for.
LEMMA JobPrepared ==
  ASSUME NEW job \in HWLayer, NEW fence \in Fence, NEW n \in 0 .. MaxFrame
  PROVE  LET new == Prepared(job, fence, n)
         IN  /\ new \in HWLayer /\ new # NoJob /\ new.seq = job.seq
             /\ new.blit = job.blit /\ new.slot = job.slot
             /\ new.done = job.done /\ new.acq = job.acq
             /\ new.port = fence /\ new.fail = job.fail
             /\ new.shows = n
<1>1. Prepared(job, fence, n) \in HWLayer
  BY DEF Prepared, HWLayer, Fence
<1>2. LET new == Prepared(job, fence, n)
      IN  /\ new.seq = job.seq /\ new.blit = job.blit
          /\ new.slot = job.slot /\ new.done = job.done
          /\ new.acq = job.acq /\ new.port = fence
          /\ new.fail = job.fail /\ new.shows = n
  BY DEF Prepared, HWLayer
<1> QED BY <1>1, <1>2, NoJobAssumption

\* The calls that a blit makes on the queue, with what they leave in the job.
LEMMA DequeueTypes ==
  ASSUME Types, Stages, Dequeue
  PROVE  /\ Types' /\ Stages'
         /\ \E i \in Q!Slots :
              /\ Q!DequeueBuffer(i, TRUE)
              /\ cur' = [cur EXCEPT !.slot = i]
<1> USE DEF Types
<1>1. /\ mpc = "dequeue" /\ mpc' = "config"
      /\ UNCHANGED <<overlayVars, m_job_params, m_prev, jobVars, frame, failed,
                     live, historyVars>>
  BY DEF Dequeue
<1>2. PICK i \in Q!Slots :
         Q!DequeueBuffer(i, TRUE) /\ cur' = [cur EXCEPT !.slot = i]
  BY DEF Dequeue
<1>3. cur \in HWLayer /\ cur.seq = frame /\ cur.blit /\ ~cur.fail
  BY <1>1 DEF Stages, JobTypes
<1>4. /\ cur' \in HWLayer /\ cur' # NoJob /\ cur'.slot = i
      /\ cur'.seq = cur.seq /\ cur'.blit = cur.blit /\ cur'.fail = cur.fail
  <2>1. cur' = WithSlot(cur, i)
    BY <1>2 DEF WithSlot
  <2> QED BY <1>3, <2>1, JobWithSlot
<1>5. QueueTypes'
  <2>1. slots[i].release_fence \in Fence
    BY SlotFields
  <2>2. /\ slots' \in [Q!Slots -> Q!BufferSlot]
        /\ pbuf' = [pbuf EXCEPT ![i] = slots[i].release_fence]
        /\ UNCHANGED <<m_queue, m_is_synchronous, m_frame_counter, qopen, cbuf,
                       last, dropped>>
    BY <1>2, DequeueSlots
  <2> QED BY <1>1, <2>1, <2>2 DEF QueueTypes
<1>6. MainTypes'
  BY <1>1 DEF MainTypes
<1>7. JobTypes'
  BY <1>1, <1>4 DEF JobTypes
<1>8. Stages'
  <2>1. m_queue' = m_queue
    BY <1>2 DEF Q!DequeueBuffer
  <2> QED BY <1>1, <1>3, <1>4, <2>1 DEF Stages
<1> QED BY <1>2, <1>5, <1>6, <1>7, <1>8

\* A frame that could not be configured goes on as a failed one.
LEMMA ConfigFailsTypes ==
  ASSUME Types, Stages, ConfigFails
  PROVE  Types' /\ Stages'
<1> USE DEF Types
<1>1. /\ mpc = "config" /\ mpc' = "trigger" /\ failed < MaxFailed
      /\ failed' = failed + 1
      /\ m_job_params' = Erase(cur.seq)
      /\ pbuf' = [pbuf EXCEPT ![cur.slot] = NoFence]
      /\ cur' = [cur EXCEPT !.done = NoFence, !.fail = TRUE]
      /\ UNCHANGED <<slots, m_queue, m_is_synchronous, m_frame_counter, qopen,
                     cbuf, last, dropped, overlayVars, m_prev, jobVars, frame,
                     live, historyVars>>
  BY DEF ConfigFails
<1>2. cur \in HWLayer /\ cur.seq = frame /\ cur.blit
  BY <1>1 DEF Stages, JobTypes
<1>3. /\ cur' \in HWLayer /\ cur' # NoJob
      /\ cur'.seq = cur.seq /\ cur'.blit = cur.blit /\ cur'.fail = TRUE
  BY <1>1, <1>2, JobFailed
<1>4. /\ DOMAIN m_job_params' = DOMAIN m_job_params \ {cur.seq}
      /\ \A n \in DOMAIN m_job_params' : m_job_params'[n] = m_job_params[n]
  BY <1>1 DEF Erase
<1>5. QueueTypes'
  <2>1. NoFence \in Fence
    BY DEF Fence
  <2> QED BY <1>1, <2>1 DEF QueueTypes
<1>6. MainTypes'
  BY <1>1, Bounds DEF MainTypes
<1>7. JobTypes'
  BY <1>1, <1>3, <1>4 DEF JobTypes
<1>8. Stages'
  BY <1>1, <1>2, <1>3 DEF Stages
<1> QED BY <1>5, <1>6, <1>7, <1>8

\* The buffer of a configured frame is the only one in the queue.
LEMMA ConfigAndQueueTypes ==
  ASSUME Types, Stages, ConfigAndQueue
  PROVE  Types' /\ Stages'
<1> USE DEF Types
<1> DEFINE made == cur.done # NoFence
           prev == FenceIf(made, "prev", cur.seq)
           blit == FenceIf(made, "blit", cur.seq)
<1>1. /\ mpc = "config" /\ mpc' = "release"
      /\ Q!QueueBuffer(cur.slot, blit)
      /\ m_job_params' = [m_job_params EXCEPT ![cur.seq] =
                             [src |-> cur.acq, dst |-> pbuf[cur.slot]]]
      /\ cur' = [cur EXCEPT !.acq = NoFence, !.done = NoFence]
      /\ m_prev' = prev
      /\ live' = (live \ {cur.done, m_prev}) \cup ({prev, blit} \ {NoFence})
      /\ contents' = [contents EXCEPT ![cur.slot] = cur.seq]
      /\ UNCHANGED <<overlayVars, jobVars, frame, failed, given, use, cancelled>>
  BY DEF ConfigAndQueue
<1>2. /\ cur \in HWLayer /\ cur.seq = frame /\ cur.blit /\ ~cur.fail
      /\ cur.slot \in Q!Slots /\ m_queue = <<>>
  BY <1>1 DEF Stages, JobTypes
<1>3. frame \in 1 .. MaxFrame /\ cur.acq \in Fence /\ cur.done \in Fence
  BY <1>2 DEF HWLayer
<1>4. prev \in Fence /\ blit \in Fence
  BY <1>2, <1>3, FenceIfType DEF Kinds
<1>5. /\ cur' \in HWLayer /\ cur' # NoJob /\ cur'.slot = cur.slot
      /\ cur'.seq = cur.seq /\ cur'.blit = cur.blit /\ cur'.fail = cur.fail
  BY <1>1, <1>2, JobQueued
<1> HIDE DEF prev, blit
<1>6. /\ DOMAIN m_job_params' = DOMAIN m_job_params
      /\ \A n \in DOMAIN m_job_params' :
            m_job_params'[n] = IF n = cur.seq
                                 THEN [src |-> cur.acq, dst |-> pbuf[cur.slot]]
                                 ELSE m_job_params[n]
  BY <1>1
<1>7. [src |-> cur.acq, dst |-> pbuf[cur.slot]] \in Params
  BY <1>2, <1>3 DEF Params, QueueTypes
<1>8. QueueTypes'
  <2>1. /\ slots' \in [Q!Slots -> Q!BufferSlot]
        /\ m_queue' = <<cur.slot>>
        /\ m_frame_counter' \in 0 .. MaxFrame
        /\ qopen' \in SUBSET Fds
        /\ pbuf' = [pbuf EXCEPT ![cur.slot] = NoFence]
        /\ UNCHANGED <<m_is_synchronous, cbuf, last, dropped>>
    BY <1>1, <1>2, <1>4, QueueSlots
  <2>2. NoFence \in Fence /\ frame \in 0 .. MaxFrame
    BY DEF Fence, MainTypes
  <2>3. <<cur.slot>> \in Seq(Q!Slots)
    BY <1>2
  <2>4. contents' \in [Q!Slots -> 0 .. MaxFrame]
    BY <1>1, <1>2, <2>2 DEF QueueTypes
  <2> QED BY <1>1, <1>2, <2>1, <2>2, <2>3, <2>4 DEF QueueTypes
<1>9. MainTypes'
  <2>1. live' \in SUBSET Fds
    BY <1>1, <1>4 DEF MainTypes, Fence
  <2> QED BY <1>1, <1>4, <2>1 DEF MainTypes
<1>10. JobTypes'
  <2>1. \A n \in DOMAIN m_job_params' : m_job_params'[n] \in Params
    BY <1>6, <1>7 DEF JobTypes
  <2> QED BY <1>1, <1>5, <1>6, <2>1 DEF JobTypes
<1>11. Stages'
  <2>1. m_queue' = <<cur.slot>>
    BY <1>1, <1>2, <1>4, QueueSlots
  <2> QED BY <1>1, <1>2, <1>5, <2>1 DEF Stages
<1> QED BY <1>8, <1>9, <1>10, <1>11

\* The buffer shown so far is no longer acquired.
LEMMA ReleaseLastTypes ==
  ASSUME Types, Stages, ReleaseLast
  PROVE  Types' /\ Stages'
<1> USE DEF Types
<1>1. /\ mpc = "release" /\ mpc' = "acquire"
      /\ UNCHANGED <<m_last_acquired, cur, m_job_params, m_prev, jobVars, frame,
                     failed, live, historyVars>>
      /\ m_rel_fence' \in Fence
  BY DEF ReleaseLast, MainTypes, Fence
<1>2. QueueTypes' /\ m_queue' = m_queue
  <2>1. CASE m_last_acquired = NoSlot
    BY <1>1, <2>1 DEF ReleaseLast, QueueTypes
  <2>2. CASE m_last_acquired # NoSlot
    <3>1. /\ m_last_acquired \in Q!Slots /\ m_rel_fence \in Fence
          /\ Q!ReleaseBuffer(m_last_acquired, m_rel_fence)
      BY <2>2 DEF ReleaseLast, MainTypes
    <3>2. /\ slots' \in [Q!Slots -> Q!BufferSlot]
          /\ qopen' \in SUBSET Fds
          /\ cbuf' = [cbuf EXCEPT ![m_last_acquired] = NoFence]
          /\ UNCHANGED <<m_queue, m_is_synchronous, m_frame_counter, pbuf, last,
                         dropped>>
      BY <3>1, ReleaseSlots
    <3>3. NoFence \in Fence
      BY DEF Fence
    <3> QED BY <1>1, <3>2, <3>3 DEF QueueTypes
  <2> QED BY <2>1, <2>2
<1>3. MainTypes' /\ JobTypes' /\ Stages'
  BY <1>1, <1>2 DEF MainTypes, JobTypes, Stages
<1> QED BY <1>2, <1>3

\* The buffer acquired is the frame's own.
LEMMA AcquireTypes ==
  ASSUME Types, Stages, Acquire
  PROVE  Types' /\ Stages' /\ m_last_acquired' = cur.slot
<1> USE DEF Types
<1>1. /\ mpc = "acquire" /\ mpc' = "prepare"
      /\ Q!AcquireBuffer(TRUE)
      /\ m_last_acquired' = Head(m_queue)
      /\ UNCHANGED <<m_rel_fence, cur, m_job_params, m_prev, jobVars, frame,
                     failed, live, historyVars>>
  BY DEF Acquire
<1>2. cur.slot \in Q!Slots /\ m_queue = <<cur.slot>>
  BY <1>1 DEF Stages
<1>3. /\ slots' \in [Q!Slots -> Q!BufferSlot]
      /\ m_queue' = <<>> /\ Head(m_queue) = cur.slot
      /\ last' \in 0 .. MaxFrame
      /\ cbuf' = [cbuf EXCEPT ![cur.slot] = slots[cur.slot].acquire_fence]
      /\ UNCHANGED <<m_is_synchronous, m_frame_counter, qopen, pbuf, dropped>>
  BY <1>1, <1>2, AcquireSlots
<1>4. slots[cur.slot].acquire_fence \in Fence
  BY <1>2, SlotFields
<1>5. QueueTypes'
  BY <1>1, <1>3, <1>4, EmptySeq DEF QueueTypes
<1>6. MainTypes' /\ JobTypes' /\ Stages'
  BY <1>1, <1>2, <1>3 DEF MainTypes, JobTypes, Stages
<1> QED BY <1>1, <1>3, <1>5, <1>6

\* The frame's job gets the fence of its buffer.
LEMMA PrepareTypes ==
  ASSUME Types, Stages, Prepare
  PROVE  Types' /\ Stages'
<1> USE DEF Types
<1> DEFINE i == m_last_acquired
           fence == IF i = NoSlot THEN NoFence ELSE cbuf[i]
           shows == IF i = NoSlot THEN 0 ELSE contents[i]
<1>1. /\ mpc = "prepare" /\ mpc' = "trigger"
      /\ live' = live \cup ({m_rel_fence'} \ {NoFence})
      /\ cur' = [cur EXCEPT !.port = fence, !.shows = shows]
      /\ cbuf' = [j \in Q!Slots |-> IF j = i THEN NoFence ELSE cbuf[j]]
      /\ qopen' = qopen \ {fence}
      /\ use' = [j \in Q!Slots |-> IF j = i THEN m_rel_fence' ELSE use[j]]
      /\ UNCHANGED <<slots, m_queue, m_is_synchronous, m_frame_counter, pbuf,
                     last, dropped, m_last_acquired, m_job_params, m_prev,
                     jobVars, frame, failed, given, contents, cancelled>>
  BY DEF Prepare
<1>2. PICK made \in BOOLEAN : m_rel_fence' = FenceIf(made, "rel", frame)
  BY DEF Prepare
<1>3. cur \in HWLayer /\ cur.seq = frame /\ ~cur.fail
  BY <1>1 DEF Stages, JobTypes
<1>4. m_rel_fence' \in Fence
  <2>1. frame \in 1 .. MaxFrame
    BY <1>3 DEF HWLayer
  <2> QED BY <1>2, <2>1, FenceIfType DEF Kinds
<1>5. fence \in Fence /\ shows \in 0 .. MaxFrame /\ NoFence \in Fence
  BY Bounds DEF MainTypes, QueueTypes, Fence
<1>6. /\ cur' \in HWLayer /\ cur' # NoJob /\ cur'.slot = cur.slot
      /\ cur'.seq = cur.seq /\ cur'.blit = cur.blit /\ cur'.fail = cur.fail
  <2>1. cur' = Prepared(cur, fence, shows)
    BY <1>1 DEF Prepared
  <2> HIDE DEF fence, shows
  <2> QED BY <1>3, <1>5, <2>1, JobPrepared
<1> HIDE DEF fence, shows
<1>7. QueueTypes'
  BY <1>1, <1>4, <1>5 DEF QueueTypes
<1>8. MainTypes'
  BY <1>1, <1>4 DEF MainTypes, Fence
<1>9. JobTypes'
  BY <1>1, <1>6 DEF JobTypes
<1>10. Stages'
  BY <1>1, <1>3, <1>6 DEF Stages
<1> QED BY <1>7, <1>8, <1>9, <1>10

\* The job leaves the main thread.
LEMMA TriggerTypes ==
  ASSUME Types, Stages, Trigger
  PROVE  Types' /\ Stages'
<1> USE DEF Types
<1>1. /\ mpc = "trigger" /\ mpc' = "idle" /\ jobs' = Append(jobs, cur)
      /\ cur' = NoJob
      /\ UNCHANGED <<queueVars, overlayVars, m_job_params, m_prev, pool,
                     dropping, frame, failed, live, historyVars>>
  BY DEF Trigger
<1>2. cur \in HWLayer
  BY <1>1 DEF Stages, JobTypes
<1>3. jobs' \in Seq(HWLayer)
  BY <1>1, <1>2, AppendProperties DEF JobTypes
<1>4. QueueTypes' /\ MainTypes'
  BY <1>1 DEF QueueTypes, MainTypes
<1>5. JobTypes' /\ Stages'
  BY <1>1, <1>3 DEF JobTypes, Stages
<1> QED BY <1>4, <1>5

\* What handling or dropping a job does to the queue of jobs and the pool.
LEMMA JobTaken ==
  ASSUME JobTypes, jobs # <<>>
  PROVE  /\ Head(jobs) \in HWLayer /\ Tail(jobs) \in Seq(HWLayer)
         /\ Append(pool, Left(Head(jobs))) \in Seq(Leftover)
         /\ \A n : /\ DOMAIN Erase(n) = DOMAIN m_job_params \ {n}
                   /\ \A m \in DOMAIN Erase(n) : Erase(n)[m] = m_job_params[m]
<1>1. Head(jobs) \in HWLayer /\ Tail(jobs) \in Seq(HWLayer)
  BY HeadTailProperties DEF JobTypes
<1>2. Left(Head(jobs)) \in Leftover
  BY <1>1 DEF Left, HWLayer, Leftover
<1>3. Append(pool, Left(Head(jobs))) \in Seq(Leftover)
  BY <1>2, AppendProperties DEF JobTypes
<1>4. \A n : /\ DOMAIN Erase(n) = DOMAIN m_job_params \ {n}
             /\ \A m \in DOMAIN Erase(n) : Erase(n)[m] = m_job_params[m]
  BY DEF Erase
<1> QED BY <1>1, <1>3, <1>4

\* The dispatch thread's actions keep the types.
LEMMA HandledTypes ==
  ASSUME Types, Stages, Process \/ CancelLayers \/ IgnoreJobs
  PROVE  Types' /\ Stages'
<1> USE DEF Types
<1>1. CASE Process
  <2>1. /\ jobs # <<>>
        /\ given' = given \cup ({Head(jobs).port} \ {NoFence})
        /\ live' \subseteq live
        /\ m_job_params' = IF Head(jobs).blit THEN Erase(Head(jobs).seq)
                                              ELSE m_job_params
        /\ jobs' = Tail(jobs) /\ pool' = Append(pool, Left(Head(jobs)))
        /\ UNCHANGED <<queueVars, overlayVars, mpc, cur, m_prev, dropping,
                       frame, failed, use, contents, cancelled>>
    BY <1>1 DEF Process
  <2>2. given' \in SUBSET Fds
    BY <2>1, JobTaken DEF JobTypes, HWLayer, Fence
  <2>3. QueueTypes' /\ MainTypes' /\ Stages'
    BY <2>1 DEF QueueTypes, MainTypes, Stages
  <2>4. JobTypes'
    BY <2>1, <2>2, JobTaken DEF JobTypes
  <2> QED BY <2>3, <2>4
<1>2. CASE CancelLayers
  <2>1. /\ jobs # <<>>
        /\ cancelled' = cancelled \cup {Head(jobs).seq}
        /\ live' \subseteq live
        /\ m_job_params' = IF Head(jobs).blit THEN Erase(Head(jobs).seq)
                                              ELSE m_job_params
        /\ jobs' = Tail(jobs) /\ pool' = Append(pool, Left(Head(jobs)))
        /\ UNCHANGED <<queueVars, overlayVars, mpc, cur, m_prev, dropping,
                       frame, failed, given, use, contents>>
    BY <1>2 DEF CancelLayers
  <2>2. cancelled' \in SUBSET (1 .. MaxFrame)
    BY <2>1, JobTaken DEF JobTypes, HWLayer
  <2>3. QueueTypes' /\ MainTypes' /\ Stages'
    BY <2>1 DEF QueueTypes, MainTypes, Stages
  <2>4. JobTypes'
    BY <2>1, <2>2, JobTaken DEF JobTypes
  <2> QED BY <2>3, <2>4
<1>3. CASE IgnoreJobs
  BY <1>3 DEF IgnoreJobs, QueueTypes, MainTypes, JobTypes, Stages
<1> QED BY <1>1, <1>2, <1>3

\* The types and stages hold after every step.
LEMMA TypesKept ==
  ASSUME Types, Stages, Next
  PROVE  Types' /\ Stages'
BY SetBlitTypes, SetBypassTypes, DequeueTypes, ConfigFailsTypes,
   ConfigAndQueueTypes, ReleaseLastTypes, AcquireTypes, PrepareTypes,
   TriggerTypes, HandledTypes, Zenon DEF Next

-----------------------------------------------------------------------------
(* What each step does, slot by slot and frame by frame.                   *)

Frames == 1 .. MaxFrame
Slots == Q!Slots

\* The fences by their names, and the parts of a name.
Acq(n) == <<"acq", n>>
Done(n) == <<"done", n>>
Blit(n) == <<"blit", n>>
Prev(n) == <<"prev", n>>
Rel(n) == <<"rel", n>>
Kind(f) == f[1]
Number(f) == f[2]

\* The fences that MDP is to wait for, of a job that may not have any.
Src(n) == IF n \in DOMAIN m_job_params THEN m_job_params[n].src ELSE NoFence
Dst(n) == IF n \in DOMAIN m_job_params THEN m_job_params[n].dst ELSE NoFence

\* A name tells the fence's kind and frame.
LEMMA Names ==
  /\ \A n \in Frames :
        /\ Acq(n) \in Fds /\ Kind(Acq(n)) = "acq" /\ Number(Acq(n)) = n
        /\ Done(n) \in Fds /\ Kind(Done(n)) = "done" /\ Number(Done(n)) = n
        /\ Blit(n) \in Fds /\ Kind(Blit(n)) = "blit" /\ Number(Blit(n)) = n
        /\ Prev(n) \in Fds /\ Kind(Prev(n)) = "prev" /\ Number(Prev(n)) = n
        /\ Rel(n) \in Fds /\ Kind(Rel(n)) = "rel" /\ Number(Rel(n)) = n
  /\ NoFence \notin Fds
  /\ \A f \in Fds : Number(f) \in Frames /\ Kind(f) \in Kinds
<1>1. \A n \in Frames :
        /\ Acq(n) \in Fds /\ Done(n) \in Fds /\ Blit(n) \in Fds
        /\ Prev(n) \in Fds /\ Rel(n) \in Fds
  BY DEF Acq, Done, Blit, Prev, Rel, Fds, Kinds, Frames
<1>2. \A n \in Frames :
        /\ Kind(Acq(n)) = "acq" /\ Number(Acq(n)) = n
        /\ Kind(Done(n)) = "done" /\ Number(Done(n)) = n
        /\ Kind(Blit(n)) = "blit" /\ Number(Blit(n)) = n
        /\ Kind(Prev(n)) = "prev" /\ Number(Prev(n)) = n
        /\ Kind(Rel(n)) = "rel" /\ Number(Rel(n)) = n
  BY DEF Acq, Done, Blit, Prev, Rel, Kind, Number
<1>3. NoFence \notin Fds
  BY BlitAssumption
<1>4. \A f \in Fds : Number(f) \in Frames /\ Kind(f) \in Kinds
  BY DEF Fds, Number, Kind, Frames
<1> QED BY <1>1, <1>2, <1>3, <1>4

\* Two fences of different kinds or frames differ, and each is one.
LEMMA NamesDiffer ==
  /\ \A m, n \in Frames :
        /\ Acq(m) # Done(n) /\ Acq(m) # Blit(n) /\ Acq(m) # Prev(n)
        /\ Acq(m) # Rel(n) /\ Done(m) # Blit(n) /\ Done(m) # Prev(n)
        /\ Done(m) # Rel(n) /\ Blit(m) # Prev(n) /\ Blit(m) # Rel(n)
        /\ Prev(m) # Rel(n)
        /\ (Acq(m) = Acq(n) => m = n) /\ (Done(m) = Done(n) => m = n)
        /\ (Blit(m) = Blit(n) => m = n) /\ (Prev(m) = Prev(n) => m = n)
        /\ (Rel(m) = Rel(n) => m = n)
  /\ \A n \in Frames : /\ Acq(n) # NoFence /\ Done(n) # NoFence
                       /\ Blit(n) # NoFence /\ Prev(n) # NoFence
                       /\ Rel(n) # NoFence
<1>1. /\ "acq" # "done" /\ "acq" # "blit" /\ "acq" # "prev" /\ "acq" # "rel"
      /\ "done" # "blit" /\ "done" # "prev" /\ "done" # "rel"
      /\ "blit" # "prev" /\ "blit" # "rel" /\ "prev" # "rel"
  OBVIOUS
<1>2. \A m, n \in Frames :
        /\ Acq(m) # Done(n) /\ Acq(m) # Blit(n) /\ Acq(m) # Prev(n)
        /\ Acq(m) # Rel(n) /\ Done(m) # Blit(n) /\ Done(m) # Prev(n)
        /\ Done(m) # Rel(n) /\ Blit(m) # Prev(n) /\ Blit(m) # Rel(n)
        /\ Prev(m) # Rel(n)
  BY <1>1, Names
<1>3. \A m, n \in Frames :
        /\ (Acq(m) = Acq(n) => m = n) /\ (Done(m) = Done(n) => m = n)
        /\ (Blit(m) = Blit(n) => m = n) /\ (Prev(m) = Prev(n) => m = n)
        /\ (Rel(m) = Rel(n) => m = n)
  BY Names
<1>4. \A n \in Frames : /\ Acq(n) # NoFence /\ Done(n) # NoFence
                        /\ Blit(n) # NoFence /\ Prev(n) # NoFence
                        /\ Rel(n) # NoFence
  BY Names
<1> QED BY <1>2, <1>3, <1>4

\* A fence that a call may return.
LEMMA FenceIfNames ==
  ASSUME NEW made, NEW n
  PROVE  /\ FenceIf(made, "done", n) = IF made THEN Done(n) ELSE NoFence
         /\ FenceIf(made, "blit", n) = IF made THEN Blit(n) ELSE NoFence
         /\ FenceIf(made, "prev", n) = IF made THEN Prev(n) ELSE NoFence
         /\ FenceIf(made, "rel", n) = IF made THEN Rel(n) ELSE NoFence
BY DEF FenceIf, Done, Blit, Prev, Rel

\* The fences of the MDP jobs are fences.
LEMMA ParamTypes ==
  ASSUME JobTypes, NEW n
  PROVE  Src(n) \in Fence /\ Dst(n) \in Fence
BY DEF JobTypes, Params, Src, Dst, Fence

\* SetBlit makes the job of the next frame.
BlitSet(done) ==
    /\ mpc = "idle" /\ mpc' = "dequeue" /\ pool # <<>>
    /\ frame < MaxFrame /\ frame' = frame + 1 /\ frame' \in Frames
    /\ cur' \in HWLayer /\ cur'.seq = frame' /\ cur'.blit /\ ~cur'.fail
    /\ cur'.done = done /\ cur'.acq = Acq(frame')
    /\ cur'.port = Head(pool).port
    /\ done \in {NoFence, Done(frame')}
    /\ live' = live \cup ({done, Acq(frame')} \ {NoFence})
    /\ DOMAIN m_job_params' = DOMAIN m_job_params \cup {frame'}
    /\ \A n \in Frames :
          /\ Src(n)' = IF n = frame' THEN NoFence ELSE Src(n)
          /\ Dst(n)' = IF n = frame' THEN NoFence ELSE Dst(n)
    /\ pool' = Tail(pool)
    /\ UNCHANGED <<queueVars, overlayVars, m_prev, jobs, dropping, failed,
                   historyVars>>

\* What SetBlit does to each slot and frame.
LEMMA SetBlitStep ==
  ASSUME Types, SetBlit
  PROVE  \E done : BlitSet(done)
<1> USE DEF Types
<1>1. /\ mpc = "idle" /\ pool # <<>> /\ frame < MaxFrame /\ frame' = frame + 1
      /\ pool' = Tail(pool) /\ mpc' = "dequeue"
      /\ UNCHANGED <<queueVars, overlayVars, m_prev, jobs, dropping, failed,
                     historyVars>>
  BY DEF SetBlit
<1>2. frame' \in Frames
  BY <1>1, Bounds DEF MainTypes, Frames
<1>3. PICK created \in BOOLEAN :
         /\ cur' = NewHWLayer(TRUE, FenceIf(created, "done", frame + 1),
                              <<"acq", frame + 1>>)
         /\ live' = live \cup ({FenceIf(created, "done", frame + 1),
                                <<"acq", frame + 1>>} \ {NoFence})
  BY DEF SetBlit
<1>4. PICK done : done = FenceIf(created, "done", frame + 1)
  OBVIOUS
<1>5. /\ done \in {NoFence, Done(frame')}
      /\ done \in Fence /\ Acq(frame') \in Fence
  BY <1>1, <1>2, <1>4, FenceIfNames, Names DEF Fence
<1>6. /\ cur' = NewBlit(done, Acq(frame'))
      /\ live' = live \cup ({done, Acq(frame')} \ {NoFence})
  BY <1>1, <1>3, <1>4 DEF NewBlit, Acq
<1>7. /\ cur' \in HWLayer /\ cur'.seq = frame' /\ cur'.blit /\ ~cur'.fail
      /\ cur'.done = done /\ cur'.acq = Acq(frame')
      /\ cur'.port = Head(pool).port
  <2>1. PICK acq \in Fence : acq = Acq(frame') /\ cur' = NewBlit(done, acq)
    BY <1>5, <1>6
  <2>2. /\ cur' \in HWLayer /\ cur'.seq = frame + 1 /\ cur'.blit = TRUE
        /\ cur'.fail = FALSE
    BY <1>1, <1>5, <2>1, NewBlitJob
  <2>3. cur'.done = done /\ cur'.acq = acq /\ cur'.port = Head(pool).port
    BY <2>1 DEF NewBlit, NewHWLayer
  <2> QED BY <1>1, <2>1, <2>2, <2>3
<1>8. /\ DOMAIN m_job_params' = DOMAIN m_job_params \cup {frame'}
      /\ \A n \in DOMAIN m_job_params' :
            m_job_params'[n] = IF n = frame'
                                 THEN [src |-> NoFence, dst |-> NoFence]
                                 ELSE m_job_params[n]
  BY <1>1 DEF SetBlit
<1>9. \A n \in Frames :
          /\ Src(n)' = IF n = frame' THEN NoFence ELSE Src(n)
          /\ Dst(n)' = IF n = frame' THEN NoFence ELSE Dst(n)
  BY <1>8 DEF Src, Dst
<1> QED BY <1>1, <1>2, <1>5, <1>6, <1>7, <1>8, <1>9 DEF BlitSet

\* SetBypass makes a job that has nothing but what its HWLayer was left with.
BypassSet ==
    /\ mpc = "idle" /\ mpc' = "prepare" /\ pool # <<>>
    /\ frame < MaxFrame /\ frame > 0 /\ frame' = frame + 1 /\ frame' \in Frames
    /\ cur' \in HWLayer /\ cur'.seq = frame' /\ ~cur'.blit /\ ~cur'.fail
    /\ cur'.done = NoFence /\ cur'.acq = NoFence
    /\ cur'.port = Head(pool).port
    /\ live' = live \ {m_rel_fence} /\ m_rel_fence' = NoFence
    /\ \A n \in Frames : Src(n)' = Src(n) /\ Dst(n)' = Dst(n)
    /\ pool' = Tail(pool)
    /\ UNCHANGED <<queueVars, m_last_acquired, m_job_params, m_prev, jobs,
                   dropping, failed, historyVars>>

\* What SetBypass does.
LEMMA SetBypassStep ==
  ASSUME Types, SetBypass
  PROVE  BypassSet
<1> USE DEF Types
<1>1. /\ mpc = "idle" /\ pool # <<>> /\ frame < MaxFrame /\ frame' = frame + 1
      /\ frame > 0 /\ pool' = Tail(pool) /\ mpc' = "prepare"
      /\ live' = live \ {m_rel_fence} /\ m_rel_fence' = NoFence
      /\ cur' = NewHWLayer(FALSE, NoFence, NoFence)
      /\ UNCHANGED <<queueVars, m_last_acquired, m_job_params, m_prev, jobs,
                     dropping, failed, historyVars>>
  BY Bounds DEF SetBypass, MainTypes
<1>2. frame' \in Frames
  BY <1>1, Bounds DEF MainTypes, Frames
<1>3. /\ cur' \in HWLayer /\ cur'.seq = frame' /\ ~cur'.blit /\ ~cur'.fail
      /\ cur'.done = NoFence /\ cur'.acq = NoFence
      /\ cur'.port = Head(pool).port
  BY <1>1, NewBypassJob
<1>4. \A n \in Frames : Src(n)' = Src(n) /\ Dst(n)' = Dst(n)
  BY <1>1 DEF Src, Dst
<1> QED BY <1>1, <1>2, <1>3, <1>4 DEF BypassSet

\* Dequeue takes a free slot and its release fence.
Dequeued(i) ==
    /\ i \in Slots /\ mpc = "dequeue" /\ mpc' = "config"
    /\ slots[i].state = "FREE"
    /\ \A j \in Slots :
          /\ slots'[j].state = IF j = i THEN "DEQUEUED" ELSE slots[j].state
          /\ slots'[j].release_fence =
                IF j = i THEN NoFence ELSE slots[j].release_fence
          /\ slots'[j].acquire_fence = slots[j].acquire_fence
          /\ pbuf'[j] = IF j = i THEN slots[i].release_fence ELSE pbuf[j]
    /\ cur \in HWLayer /\ cur' \in HWLayer
    /\ cur'.slot = i /\ cur'.seq = cur.seq /\ cur'.blit = cur.blit
    /\ cur'.fail = cur.fail /\ cur'.acq = cur.acq /\ cur'.done = cur.done
    /\ cur'.port = cur.port /\ cur'.shows = cur.shows
    /\ \A n \in Frames : Src(n)' = Src(n) /\ Dst(n)' = Dst(n)
    /\ UNCHANGED <<m_queue, cbuf, overlayVars, m_job_params, m_prev, jobVars,
                   frame, failed, live, historyVars>>

\* What Dequeue does.
LEMMA DequeueStep ==
  ASSUME Types, Stages, Dequeue
  PROVE  \E i \in Slots : Dequeued(i)
<1> USE DEF Types, Slots
<1>1. /\ mpc = "dequeue" /\ mpc' = "config"
      /\ UNCHANGED <<overlayVars, m_job_params, m_prev, jobVars, frame, failed,
                     live, historyVars>>
  BY DEF Dequeue
<1>2. PICK i \in Q!Slots :
         Q!DequeueBuffer(i, TRUE) /\ cur' = [cur EXCEPT !.slot = i]
  BY DEF Dequeue
<1>3. cur \in HWLayer
  BY <1>1 DEF Stages, JobTypes
<1>4. /\ cur' \in HWLayer /\ cur'.slot = i
      /\ cur'.seq = cur.seq /\ cur'.blit = cur.blit
      /\ cur'.fail = cur.fail /\ cur'.acq = cur.acq /\ cur'.done = cur.done
      /\ cur'.port = cur.port /\ cur'.shows = cur.shows
  <2>1. cur' = WithSlot(cur, i)
    BY <1>2 DEF WithSlot
  <2> QED BY <1>3, <2>1, JobWithSlot
<1>5. /\ slots[i].state = "FREE"
      /\ \A j \in Slots :
            /\ slots'[j].state = IF j = i THEN "DEQUEUED" ELSE slots[j].state
            /\ slots'[j].release_fence =
                  IF j = i THEN NoFence ELSE slots[j].release_fence
            /\ slots'[j].acquire_fence = slots[j].acquire_fence
      /\ pbuf' = [pbuf EXCEPT ![i] = slots[i].release_fence]
      /\ UNCHANGED <<m_queue, cbuf>>
  BY <1>2, DequeueSlots
<1>6. \A j \in Slots :
         pbuf'[j] = IF j = i THEN slots[i].release_fence ELSE pbuf[j]
  BY <1>5 DEF QueueTypes
<1>7. \A n \in Frames : Src(n)' = Src(n) /\ Dst(n)' = Dst(n)
  BY <1>1 DEF Src, Dst
<1>8. Dequeued(i)
  BY <1>1, <1>3, <1>4, <1>5, <1>6, <1>7 DEF Dequeued
<1> QED BY <1>8

\* ConfigFails gives the MDP job up.
ConfigFailed ==
    /\ mpc = "config" /\ mpc' = "trigger" /\ failed' = failed + 1
    /\ cur \in HWLayer /\ cur' \in HWLayer /\ cur.slot \in Slots
    /\ cur'.slot = cur.slot /\ cur'.seq = cur.seq /\ cur'.blit = cur.blit
    /\ cur'.fail = TRUE /\ cur'.acq = cur.acq /\ cur'.done = NoFence
    /\ cur'.port = cur.port /\ cur'.shows = cur.shows
    /\ \A j \in Slots : pbuf'[j] = IF j = cur.slot THEN NoFence ELSE pbuf[j]
    /\ DOMAIN m_job_params' = DOMAIN m_job_params \ {cur.seq}
    /\ \A n \in Frames :
          /\ Src(n)' = IF n = cur.seq THEN NoFence ELSE Src(n)
          /\ Dst(n)' = IF n = cur.seq THEN NoFence ELSE Dst(n)
    /\ UNCHANGED <<slots, m_queue, cbuf, overlayVars, m_prev, jobVars, frame,
                   live, historyVars>>

\* What ConfigFails does.
LEMMA ConfigFailsStep ==
  ASSUME Types, Stages, ConfigFails
  PROVE  ConfigFailed
<1> USE DEF Types, Slots
<1>1. /\ mpc = "config" /\ mpc' = "trigger" /\ failed' = failed + 1
      /\ m_job_params' = Erase(cur.seq)
      /\ pbuf' = [pbuf EXCEPT ![cur.slot] = NoFence]
      /\ cur' = [cur EXCEPT !.done = NoFence, !.fail = TRUE]
      /\ UNCHANGED <<slots, m_queue, cbuf, overlayVars, m_prev, jobVars, frame,
                     live, historyVars>>
  BY DEF ConfigFails
<1>2. cur \in HWLayer /\ cur.slot \in Slots
  BY <1>1 DEF Stages, JobTypes
<1>3. /\ cur' \in HWLayer
      /\ cur'.slot = cur.slot /\ cur'.seq = cur.seq /\ cur'.blit = cur.blit
      /\ cur'.fail = TRUE /\ cur'.acq = cur.acq /\ cur'.done = NoFence
      /\ cur'.port = cur.port /\ cur'.shows = cur.shows
  BY <1>1, <1>2, JobFailed
<1>4. /\ DOMAIN m_job_params' = DOMAIN m_job_params \ {cur.seq}
      /\ \A n \in DOMAIN m_job_params' : m_job_params'[n] = m_job_params[n]
  BY <1>1 DEF Erase
<1>5. \A n \in Frames :
          /\ Src(n)' = IF n = cur.seq THEN NoFence ELSE Src(n)
          /\ Dst(n)' = IF n = cur.seq THEN NoFence ELSE Dst(n)
  BY <1>4 DEF Src, Dst
<1>6. \A j \in Slots : pbuf'[j] = IF j = cur.slot THEN NoFence ELSE pbuf[j]
  BY <1>1, <1>2 DEF QueueTypes
<1> QED BY <1>1, <1>2, <1>3, <1>4, <1>5, <1>6 DEF ConfigFailed

\* ConfigAndQueue hands the fences to MDP and queues the buffer with its own.
Configured(made) ==
    LET blit == IF made THEN Blit(frame) ELSE NoFence
        prev == IF made THEN Prev(frame) ELSE NoFence
    IN  /\ mpc = "config" /\ mpc' = "release" /\ frame \in Frames
        /\ made \in BOOLEAN /\ (made <=> cur.done # NoFence)
        /\ cur \in HWLayer /\ cur' \in HWLayer /\ cur.slot \in Slots
        /\ cur'.slot = cur.slot /\ cur'.seq = cur.seq /\ cur'.blit = cur.blit
        /\ cur'.fail = cur.fail /\ cur'.acq = NoFence /\ cur'.done = NoFence
        /\ cur'.port = cur.port /\ cur'.shows = cur.shows
        /\ slots[cur.slot].state = "DEQUEUED"
        /\ \A j \in Slots :
              /\ slots'[j].state = IF j = cur.slot THEN "QUEUED"
                                                   ELSE slots[j].state
              /\ slots'[j].release_fence = slots[j].release_fence
              /\ slots'[j].acquire_fence = IF j = cur.slot THEN blit
                                             ELSE slots[j].acquire_fence
              /\ pbuf'[j] = IF j = cur.slot THEN NoFence ELSE pbuf[j]
              /\ contents'[j] = IF j = cur.slot THEN frame ELSE contents[j]
        /\ m_prev' = prev
        /\ live' = (live \ {cur.done, m_prev}) \cup ({prev, blit} \ {NoFence})
        /\ DOMAIN m_job_params' = DOMAIN m_job_params
        /\ \A n \in Frames :
              /\ Src(n)' = IF n = frame /\ n \in DOMAIN m_job_params
                             THEN cur.acq ELSE Src(n)
              /\ Dst(n)' = IF n = frame /\ n \in DOMAIN m_job_params
                             THEN pbuf[cur.slot] ELSE Dst(n)
        /\ UNCHANGED <<cbuf, overlayVars, jobVars, frame, failed, given, use,
                       cancelled>>

\* What ConfigAndQueue does: setSrc and setDst find the MDP job.
LEMMA ConfigAndQueueStep ==
  ASSUME Types, Stages, ConfigAndQueue
  PROVE  \E made : Configured(made)
<1> USE DEF Types, Slots
<1>1. PICK made \in BOOLEAN : made <=> cur.done # NoFence
  OBVIOUS
<1>2. PICK blit, prev : /\ blit = IF made THEN Blit(frame) ELSE NoFence
                        /\ prev = IF made THEN Prev(frame) ELSE NoFence
  OBVIOUS
<1>3. /\ mpc = "config"
      /\ cur \in HWLayer /\ cur.seq = frame /\ cur.slot \in Slots
      /\ m_queue = <<>>
  BY DEF Stages, JobTypes, ConfigAndQueue
<1>4. frame \in Frames /\ cur.acq \in Fence /\ cur.done \in Fence
  BY <1>3 DEF HWLayer, Frames
<1>5. /\ FenceIf(cur.done # NoFence, "blit", cur.seq) = blit
      /\ FenceIf(cur.done # NoFence, "prev", cur.seq) = prev
  BY <1>1, <1>2, <1>3 DEF FenceIf, Blit, Prev
<1>6. /\ mpc' = "release"
      /\ Q!QueueBuffer(cur.slot, blit)
      /\ m_job_params' = [m_job_params EXCEPT ![cur.seq] =
                             [src |-> cur.acq, dst |-> pbuf[cur.slot]]]
      /\ cur' = [cur EXCEPT !.acq = NoFence, !.done = NoFence]
      /\ m_prev' = prev
      /\ live' = (live \ {cur.done, m_prev}) \cup ({prev, blit} \ {NoFence})
      /\ contents' = [contents EXCEPT ![cur.slot] = cur.seq]
      /\ UNCHANGED <<overlayVars, jobVars, frame, failed, given, use, cancelled>>
  BY <1>5 DEF ConfigAndQueue
<1>7. blit \in Fence
  BY <1>2, <1>4, Names DEF Fence
<1>8. /\ slots[cur.slot].state = "DEQUEUED"
      /\ \A j \in Slots :
            /\ slots'[j].state = IF j = cur.slot THEN "QUEUED"
                                                 ELSE slots[j].state
            /\ slots'[j].release_fence = slots[j].release_fence
            /\ slots'[j].acquire_fence = IF j = cur.slot THEN blit
                                           ELSE slots[j].acquire_fence
      /\ pbuf' = [pbuf EXCEPT ![cur.slot] = NoFence]
      /\ UNCHANGED cbuf
  BY <1>3, <1>6, <1>7, QueueSlots
<1>9. \A j \in Slots :
          /\ pbuf'[j] = IF j = cur.slot THEN NoFence ELSE pbuf[j]
          /\ contents'[j] = IF j = cur.slot THEN frame ELSE contents[j]
  BY <1>3, <1>6, <1>8 DEF QueueTypes
<1>10. /\ cur' \in HWLayer
       /\ cur'.slot = cur.slot /\ cur'.seq = cur.seq /\ cur'.blit = cur.blit
       /\ cur'.fail = cur.fail /\ cur'.acq = NoFence /\ cur'.done = NoFence
       /\ cur'.port = cur.port /\ cur'.shows = cur.shows
  BY <1>3, <1>6, JobQueued
<1>11. /\ DOMAIN m_job_params' = DOMAIN m_job_params
       /\ \A n \in DOMAIN m_job_params' :
             m_job_params'[n] = IF n = frame
                                 THEN [src |-> cur.acq, dst |-> pbuf[cur.slot]]
                                 ELSE m_job_params[n]
  BY <1>3, <1>6
<1>12. \A n \in Frames :
          /\ Src(n)' = IF n = frame /\ n \in DOMAIN m_job_params
                         THEN cur.acq ELSE Src(n)
          /\ Dst(n)' = IF n = frame /\ n \in DOMAIN m_job_params
                         THEN pbuf[cur.slot] ELSE Dst(n)
  BY <1>11 DEF Src, Dst
<1>13. Configured(made)
  BY <1>1, <1>2, <1>3, <1>4, <1>6, <1>8, <1>9, <1>10, <1>11, <1>12
     DEF Configured
<1> QED BY <1>13

\* ReleaseLast returns the slot shown so far, if there is one.
Released ==
    /\ mpc = "release" /\ mpc' = "acquire"
    /\ \A j \in Slots :
          /\ slots'[j].state = IF j = m_last_acquired THEN "FREE"
                                                      ELSE slots[j].state
          /\ slots'[j].release_fence =
                IF j = m_last_acquired THEN m_rel_fence
                                       ELSE slots[j].release_fence
          /\ slots'[j].acquire_fence = slots[j].acquire_fence
          /\ cbuf'[j] = IF j = m_last_acquired THEN NoFence ELSE cbuf[j]
    /\ m_last_acquired # NoSlot =>
          /\ m_last_acquired \in Slots
          /\ slots[m_last_acquired].state = "ACQUIRED"
    /\ m_rel_fence' = IF m_last_acquired = NoSlot THEN m_rel_fence ELSE NoFence
    /\ \A n \in Frames : Src(n)' = Src(n) /\ Dst(n)' = Dst(n)
    /\ UNCHANGED <<m_queue, pbuf, m_last_acquired, cur, m_job_params, m_prev,
                   jobVars, frame, failed, live, historyVars>>

\* What ReleaseLast does.
LEMMA ReleaseLastStep ==
  ASSUME Types, ReleaseLast
  PROVE  Released
<1> USE DEF Types, Slots
<1>1. /\ mpc = "release" /\ mpc' = "acquire"
      /\ UNCHANGED <<m_last_acquired, cur, m_job_params, m_prev, jobVars, frame,
                     failed, live, historyVars>>
  BY DEF ReleaseLast
<1>2. \A n \in Frames : Src(n)' = Src(n) /\ Dst(n)' = Dst(n)
  BY <1>1 DEF Src, Dst
<1>3. CASE m_last_acquired = NoSlot
  <2>1. NoSlot \notin Slots
    BY BlitAssumption DEF Q!Slots
  <2>2. UNCHANGED <<queueVars, m_rel_fence>>
    BY <1>3 DEF ReleaseLast
  <2> QED BY <1>1, <1>2, <1>3, <2>1, <2>2 DEF Released
<1>4. CASE m_last_acquired # NoSlot
  <2>1. /\ m_last_acquired \in Slots /\ m_rel_fence \in Fence
        /\ Q!ReleaseBuffer(m_last_acquired, m_rel_fence)
        /\ m_rel_fence' = NoFence
    BY <1>4 DEF ReleaseLast, MainTypes
  <2>2. /\ slots[m_last_acquired].state = "ACQUIRED"
        /\ \A j \in Slots :
              /\ slots'[j].state = IF j = m_last_acquired THEN "FREE"
                                                          ELSE slots[j].state
              /\ slots'[j].release_fence =
                    IF j = m_last_acquired THEN m_rel_fence
                                           ELSE slots[j].release_fence
              /\ slots'[j].acquire_fence = slots[j].acquire_fence
        /\ cbuf' = [cbuf EXCEPT ![m_last_acquired] = NoFence]
        /\ UNCHANGED <<m_queue, pbuf>>
    BY <2>1, ReleaseSlots
  <2>3. \A j \in Slots :
           cbuf'[j] = IF j = m_last_acquired THEN NoFence ELSE cbuf[j]
    BY <2>1, <2>2 DEF QueueTypes
  <2> QED BY <1>1, <1>2, <1>4, <2>1, <2>2, <2>3 DEF Released
<1> QED BY <1>3, <1>4

\* Acquire takes the slot that was queued, with the fence of the blit.
Acquired ==
    /\ mpc = "acquire" /\ mpc' = "prepare" /\ cur.slot \in Slots
    /\ m_last_acquired' = cur.slot
    /\ \A j \in Slots :
          /\ slots'[j].state = IF j = cur.slot THEN "ACQUIRED"
                                               ELSE slots[j].state
          /\ slots'[j].release_fence = slots[j].release_fence
          /\ slots'[j].acquire_fence = IF j = cur.slot THEN NoFence
                                         ELSE slots[j].acquire_fence
          /\ cbuf'[j] = IF j = cur.slot THEN slots[j].acquire_fence ELSE cbuf[j]
    /\ \A n \in Frames : Src(n)' = Src(n) /\ Dst(n)' = Dst(n)
    /\ UNCHANGED <<pbuf, m_rel_fence, cur, m_job_params, m_prev, jobVars, frame,
                   failed, live, historyVars>>

\* What Acquire does: the buffer is the one just queued.
LEMMA AcquireStep ==
  ASSUME Types, Stages, Acquire
  PROVE  Acquired
<1> USE DEF Types, Slots
<1>1. /\ mpc = "acquire" /\ mpc' = "prepare"
      /\ Q!AcquireBuffer(TRUE)
      /\ m_last_acquired' = Head(m_queue)
      /\ UNCHANGED <<m_rel_fence, cur, m_job_params, m_prev, jobVars, frame,
                     failed, live, historyVars>>
  BY DEF Acquire
<1>2. cur.slot \in Slots /\ m_queue = <<cur.slot>>
  BY <1>1 DEF Stages
<1>3. /\ \A j \in Slots :
            /\ slots'[j].state = IF j = cur.slot THEN "ACQUIRED"
                                                 ELSE slots[j].state
            /\ slots'[j].release_fence = slots[j].release_fence
            /\ slots'[j].acquire_fence = IF j = cur.slot THEN NoFence
                                           ELSE slots[j].acquire_fence
      /\ Head(m_queue) = cur.slot
      /\ cbuf' = [cbuf EXCEPT ![cur.slot] = slots[cur.slot].acquire_fence]
      /\ UNCHANGED pbuf
  BY <1>1, <1>2, AcquireSlots
<1>4. \A j \in Slots :
         cbuf'[j] = IF j = cur.slot THEN slots[j].acquire_fence ELSE cbuf[j]
  BY <1>2, <1>3 DEF QueueTypes
<1>5. \A n \in Frames : Src(n)' = Src(n) /\ Dst(n)' = Dst(n)
  BY <1>1 DEF Src, Dst
<1> QED BY <1>1, <1>2, <1>3, <1>4, <1>5 DEF Acquired

\* Prepare shows the slot that is acquired, or nothing.
PreparedStep(made) ==
    /\ mpc = "prepare" /\ mpc' = "trigger" /\ frame \in Frames
    /\ made \in BOOLEAN
    /\ m_rel_fence' = IF made THEN Rel(frame) ELSE NoFence
    /\ live' = live \cup ({m_rel_fence'} \ {NoFence})
    /\ cur \in HWLayer /\ cur' \in HWLayer
    /\ cur'.slot = cur.slot /\ cur'.seq = cur.seq /\ cur'.blit = cur.blit
    /\ cur'.fail = cur.fail /\ cur'.acq = cur.acq /\ cur'.done = cur.done
    /\ cur'.port = IF m_last_acquired = NoSlot THEN NoFence
                                               ELSE cbuf[m_last_acquired]
    /\ cur'.shows = IF m_last_acquired = NoSlot THEN 0
                                                ELSE contents[m_last_acquired]
    /\ \A j \in Slots :
          /\ cbuf'[j] = IF j = m_last_acquired THEN NoFence ELSE cbuf[j]
          /\ use'[j] = IF j = m_last_acquired THEN m_rel_fence' ELSE use[j]
    /\ \A n \in Frames : Src(n)' = Src(n) /\ Dst(n)' = Dst(n)
    /\ UNCHANGED <<slots, m_queue, pbuf, m_last_acquired, m_job_params, m_prev,
                   jobVars, frame, failed, given, contents, cancelled>>

\* What Prepare does.
LEMMA PrepareStep ==
  ASSUME Types, Stages, Prepare
  PROVE  \E made : PreparedStep(made)
<1> USE DEF Types, Slots
<1> DEFINE i == m_last_acquired
           fence == IF i = NoSlot THEN NoFence ELSE cbuf[i]
           shows == IF i = NoSlot THEN 0 ELSE contents[i]
<1>1. /\ mpc = "prepare" /\ mpc' = "trigger"
      /\ live' = live \cup ({m_rel_fence'} \ {NoFence})
      /\ cur' = [cur EXCEPT !.port = fence, !.shows = shows]
      /\ cbuf' = [j \in Q!Slots |-> IF j = i THEN NoFence ELSE cbuf[j]]
      /\ use' = [j \in Q!Slots |-> IF j = i THEN m_rel_fence' ELSE use[j]]
      /\ UNCHANGED <<slots, m_queue, pbuf, m_last_acquired, m_job_params,
                     m_prev, jobVars, frame, failed, given, contents, cancelled>>
  BY DEF Prepare
<1>2. PICK made \in BOOLEAN : m_rel_fence' = FenceIf(made, "rel", frame)
  BY DEF Prepare
<1>3. cur \in HWLayer /\ cur.seq = frame
  BY <1>1 DEF Stages, JobTypes
<1>4. frame \in Frames
  BY <1>3 DEF HWLayer, Frames
<1>5. m_rel_fence' = IF made THEN Rel(frame) ELSE NoFence
  BY <1>2, FenceIfNames
<1>6. fence \in Fence /\ shows \in 0 .. MaxFrame
  BY Bounds DEF MainTypes, QueueTypes, Fence
<1>7. /\ cur' \in HWLayer
      /\ cur'.slot = cur.slot /\ cur'.seq = cur.seq /\ cur'.blit = cur.blit
      /\ cur'.fail = cur.fail /\ cur'.acq = cur.acq /\ cur'.done = cur.done
      /\ cur'.port = fence /\ cur'.shows = shows
  <2>1. cur' = Prepared(cur, fence, shows)
    BY <1>1 DEF Prepared
  <2> HIDE DEF fence, shows
  <2> QED BY <1>3, <1>6, <2>1, JobPrepared
<1>8. \A j \in Slots :
          /\ cbuf'[j] = IF j = m_last_acquired THEN NoFence ELSE cbuf[j]
          /\ use'[j] = IF j = m_last_acquired THEN m_rel_fence' ELSE use[j]
  BY <1>1
<1>9. \A n \in Frames : Src(n)' = Src(n) /\ Dst(n)' = Dst(n)
  BY <1>1 DEF Src, Dst
<1>10. PreparedStep(made)
  BY <1>1, <1>3, <1>4, <1>5, <1>7, <1>8, <1>9 DEF PreparedStep
<1> QED BY <1>10

\* Trigger gives the job to the dispatch thread.
Triggered ==
    /\ mpc = "trigger" /\ mpc' = "idle" /\ cur \in HWLayer /\ cur' = NoJob
    /\ jobs' = Append(jobs, cur)
    /\ \A n \in Frames : Src(n)' = Src(n) /\ Dst(n)' = Dst(n)
    /\ UNCHANGED <<queueVars, overlayVars, m_job_params, m_prev, pool,
                   dropping, frame, failed, live, historyVars>>

\* What Trigger does.
LEMMA TriggerStep ==
  ASSUME Types, Stages, Trigger
  PROVE  Triggered
<1>1. mpc = "trigger" /\ UNCHANGED m_job_params
  BY DEF Trigger
<1>2. cur \in HWLayer
  BY <1>1 DEF Stages, Types, JobTypes
<1>3. \A n \in Frames : Src(n)' = Src(n) /\ Dst(n)' = Dst(n)
  BY <1>1 DEF Src, Dst
<1> QED BY <1>2, <1>3 DEF Trigger, Triggered

\* A job leaves the queue: MDP or nobody gets its fences.
Taken(job) ==
    /\ jobs # <<>> /\ job = Head(jobs) /\ job \in HWLayer
    /\ jobs' = Tail(jobs) /\ pool' = Append(pool, Left(job))
    /\ DOMAIN m_job_params' =
          DOMAIN m_job_params \ (IF job.blit THEN {job.seq} ELSE {})
    /\ \A n \in Frames :
          /\ Src(n)' = IF job.blit /\ n = job.seq THEN NoFence ELSE Src(n)
          /\ Dst(n)' = IF job.blit /\ n = job.seq THEN NoFence ELSE Dst(n)
    /\ UNCHANGED <<queueVars, overlayVars, mpc, cur, m_prev, dropping, frame,
                   failed, use, contents>>

\* What MDP or nobody gets.
BlitFences(job) ==
    IF job.blit THEN ParamFences(job.seq) \cup {job.acq} ELSE {}

Processed(job) ==
    /\ Taken(job) /\ ~dropping
    /\ given' = given \cup ({job.port} \ {NoFence})
    /\ live' = live \ ({job.port} \cup BlitFences(job))
    /\ cancelled' = cancelled

Cancelled(job) ==
    /\ Taken(job) /\ dropping
    /\ live' = live \ BlitFences(job)
    /\ cancelled' = cancelled \cup {job.seq} /\ given' = given

\* A job that is handled takes its MDP job with it.
LEMMA TakenParams ==
  ASSUME JobTypes, jobs # <<>>,
         m_job_params' = IF Head(jobs).blit THEN Erase(Head(jobs).seq)
                                            ELSE m_job_params
  PROVE  /\ Head(jobs) \in HWLayer
         /\ DOMAIN m_job_params' = DOMAIN m_job_params
               \ (IF Head(jobs).blit THEN {Head(jobs).seq} ELSE {})
         /\ \A n \in Frames :
              /\ Src(n)' = IF Head(jobs).blit /\ n = Head(jobs).seq
                             THEN NoFence ELSE Src(n)
              /\ Dst(n)' = IF Head(jobs).blit /\ n = Head(jobs).seq
                             THEN NoFence ELSE Dst(n)
<1>1. Head(jobs) \in HWLayer
  BY JobTaken
<1>2. CASE Head(jobs).blit
  <2>1. /\ DOMAIN m_job_params' = DOMAIN m_job_params \ {Head(jobs).seq}
        /\ \A n \in DOMAIN m_job_params' : m_job_params'[n] = m_job_params[n]
    BY <1>2 DEF Erase
  <2> QED BY <1>1, <1>2, <2>1 DEF Src, Dst
<1>3. CASE ~Head(jobs).blit
  BY <1>1, <1>3 DEF Src, Dst
<1> QED BY <1>2, <1>3

\* What Process does.
LEMMA ProcessStep ==
  ASSUME Types, Process
  PROVE  \E job : Processed(job)
<1>1. /\ jobs # <<>> /\ ~dropping
      /\ m_job_params' = IF Head(jobs).blit THEN Erase(Head(jobs).seq)
                                            ELSE m_job_params
  BY DEF Process
<1>2. Processed(Head(jobs))
  BY <1>1, TakenParams DEF Process, Processed, Taken, Types, BlitFences
<1> QED BY <1>2

\* What CancelLayers does.
LEMMA CancelLayersStep ==
  ASSUME Types, CancelLayers
  PROVE  \E job : Cancelled(job)
<1>1. /\ jobs # <<>> /\ dropping
      /\ m_job_params' = IF Head(jobs).blit THEN Erase(Head(jobs).seq)
                                            ELSE m_job_params
  BY DEF CancelLayers
<1>2. Cancelled(Head(jobs))
  BY <1>1, TakenParams DEF CancelLayers, Cancelled, Taken, Types, BlitFences
<1> QED BY <1>2

\* The fences that MDP or nobody gets are those of the job's frame.
LEMMA BlitFencesOf ==
  ASSUME NEW job, NEW f
  PROVE  f \in BlitFences(job) \/ f = NoFence <=>
            \/ f = NoFence
            \/ job.blit /\ f \in {Src(job.seq), Dst(job.seq), job.acq}
BY DEF BlitFences, ParamFences, Src, Dst

\* The display goes away, or a step that changes nothing.
Idled ==
    /\ dropping => dropping'
    /\ \A n \in Frames : Src(n)' = Src(n) /\ Dst(n)' = Dst(n)
    /\ UNCHANGED <<queueVars, overlayVars, mpc, cur, m_job_params, m_prev,
                   pool, jobs, frame, failed, live, historyVars>>

\* IgnoreJobs and stuttering touch none of it.
LEMMA IdleStep ==
  ASSUME IgnoreJobs \/ UNCHANGED vars
  PROVE  Idled
BY DEF IgnoreJobs, vars, Idled, Src, Dst

\* One of these is what a step does.
LEMMA StepCases ==
  ASSUME Types, Stages, [Next]_vars
  PROVE  \/ \E done : BlitSet(done)
         \/ BypassSet
         \/ \E i \in Slots : Dequeued(i)
         \/ ConfigFailed
         \/ \E made : Configured(made)
         \/ Released
         \/ Acquired
         \/ \E made : PreparedStep(made)
         \/ Triggered
         \/ \E job : Processed(job)
         \/ \E job : Cancelled(job)
         \/ Idled
BY SetBlitStep, SetBypassStep, DequeueStep, ConfigFailsStep,
   ConfigAndQueueStep, ReleaseLastStep, AcquireStep, PrepareStep, TriggerStep,
   ProcessStep, CancelLayersStep, IdleStep, Zenon DEF Next

-----------------------------------------------------------------------------
(* The slots: a blit finds one, and waits for the overlay's last use of it. *)

\* The state of a slot follows the main thread: it queues one slot at a time
\* and shows one, and a fence is kept only by a slot that is free or queued.
SlotStages ==
    \A i \in Slots :
        /\ slots[i].state = "QUEUED" <=>
              mpc \in {"release", "acquire"} /\ i = cur.slot
        /\ slots[i].state = "ACQUIRED" <=>
              mpc # "acquire" /\ i = m_last_acquired
        /\ mpc = "config" /\ i = cur.slot => slots[i].state = "DEQUEUED"
        /\ slots[i].state # "FREE" => slots[i].release_fence = NoFence
        /\ slots[i].acquire_fence # NoFence =>
              slots[i].state = "QUEUED" /\ slots[i].acquire_fence = Blit(frame)
        /\ pbuf[i] # NoFence => mpc = "config" /\ i = cur.slot
        /\ cbuf[i] # NoFence => /\ mpc = "prepare" /\ i = m_last_acquired
                                /\ cbuf[i] = Blit(frame)

\* The fence of a slot's last use stays with the slot: with the overlay while
\* the slot is on the screen, in the queue while it is free, and with the
\* producer that took it.
Uses ==
    /\ \A i \in Slots : slots[i].state = "FREE" => slots[i].release_fence = use[i]
    /\ mpc = "config" => pbuf[cur.slot] = use[cur.slot]
    /\ m_last_acquired # NoSlot /\ mpc \notin {"acquire", "prepare"} =>
          m_rel_fence = use[m_last_acquired]

\* A slot that was dequeued for a frame that then failed is not used again.
LeftBehind == {i \in Slots : /\ slots[i].state = "DEQUEUED"
                             /\ ~(mpc = "config" /\ i = cur.slot)}
FewLeft == Cardinality(LeftBehind) <= failed

\* NoSlot is no slot.
LEMMA NoSlotNone == NoSlot \notin Slots
BY BlitAssumption DEF Slots, Q!Slots

\* The main thread's own slots stay in step with it.
LEMMA SlotStagesKept ==
  ASSUME Types, Stages, SlotStages, [Next]_vars
  PROVE  SlotStages'
<1>1. m_last_acquired \in Slots \cup {NoSlot}
  BY DEF Types, MainTypes, Slots
<1>2. CASE \E done : BlitSet(done)
  BY <1>1, <1>2 DEF BlitSet, SlotStages
<1>3. CASE BypassSet
  BY <1>1, <1>3 DEF BypassSet, SlotStages
<1>4. CASE \E i \in Slots : Dequeued(i)
  BY <1>1, <1>4 DEF Dequeued, SlotStages
<1>5. CASE ConfigFailed
  BY <1>1, <1>5 DEF ConfigFailed, SlotStages
<1>6. CASE \E made : Configured(made)
  BY <1>1, <1>6 DEF Configured, SlotStages
<1>7. CASE Released
  BY <1>1, <1>7, NoSlotNone DEF Released, SlotStages
<1>8. CASE Acquired
  BY <1>1, <1>8 DEF Acquired, SlotStages
<1>9. CASE \E made : PreparedStep(made)
  BY <1>1, <1>9 DEF PreparedStep, SlotStages
<1>10. CASE Triggered
  BY <1>1, <1>10 DEF Triggered, SlotStages
<1>11. CASE \E job : Processed(job)
  BY <1>1, <1>11 DEF Processed, Taken, SlotStages
<1>12. CASE \E job : Cancelled(job)
  BY <1>1, <1>12 DEF Cancelled, Taken, SlotStages
<1>13. CASE Idled
  BY <1>1, <1>13 DEF Idled, SlotStages
<1> QED BY <1>2, <1>3, <1>4, <1>5, <1>6, <1>7, <1>8, <1>9, <1>10, <1>11,
           <1>12, <1>13, StepCases, Zenon

\* The fence of the last use goes with its slot.
LEMMA UsesKept ==
  ASSUME Types, Stages, SlotStages, Uses, [Next]_vars
  PROVE  Uses'
<1>1. m_last_acquired \in Slots \cup {NoSlot}
  BY DEF Types, MainTypes, Slots
<1>2. CASE \E done : BlitSet(done)
  BY <1>1, <1>2 DEF BlitSet, Uses
<1>3. CASE BypassSet
  BY <1>1, <1>3 DEF BypassSet, Uses
<1>4. CASE \E i \in Slots : Dequeued(i)
  BY <1>1, <1>4, NoSlotNone DEF Dequeued, Uses
<1>5. CASE ConfigFailed
  BY <1>1, <1>5 DEF ConfigFailed, Uses
<1>6. CASE \E made : Configured(made)
  BY <1>1, <1>6 DEF Configured, Uses
<1>7. CASE Released
  BY <1>1, <1>7, NoSlotNone DEF Released, Uses
<1>8. CASE Acquired
  BY <1>1, <1>8 DEF Acquired, Uses
<1>9. CASE \E made : PreparedStep(made)
  BY <1>1, <1>9 DEF PreparedStep, SlotStages, Uses
<1>10. CASE Triggered
  BY <1>1, <1>10 DEF Triggered, Uses
<1>11. CASE \E job : Processed(job)
  BY <1>1, <1>11 DEF Processed, Taken, Uses
<1>12. CASE \E job : Cancelled(job)
  BY <1>1, <1>12 DEF Cancelled, Taken, Uses
<1>13. CASE Idled
  BY <1>1, <1>13 DEF Idled, Uses
<1> QED BY <1>2, <1>3, <1>4, <1>5, <1>6, <1>7, <1>8, <1>9, <1>10, <1>11,
           <1>12, <1>13, StepCases, Zenon

\* The slots are finitely many, and so are those left behind.
LEMMA SlotCount ==
  /\ IsFiniteSet(Slots) /\ Cardinality(Slots) = NumSlots
  /\ IsFiniteSet(LeftBehind) /\ Cardinality(LeftBehind) \in Nat
<1>1. 0 \in Int /\ NumSlots - 1 \in Int
  BY Bounds
<1>2. IsFiniteSet(Slots) /\ Cardinality(Slots) = NumSlots
  BY <1>1, FS_Interval, Bounds DEF Slots, Q!Slots
<1>3. IsFiniteSet(LeftBehind)
  BY <1>2, FS_Subset DEF LeftBehind
<1> QED BY <1>2, <1>3, FS_CardinalityType

\* Only a frame that fails leaves a slot behind.
LEMMA FewLeftKept ==
  ASSUME Types, Stages, SlotStages, FewLeft, [Next]_vars
  PROVE  FewLeft'
<1>1. failed \in Nat
  BY Bounds DEF Types, MainTypes
<1>2. CASE LeftBehind' = LeftBehind /\ failed' = failed
  BY <1>2 DEF FewLeft
<1>3. CASE ConfigFailed
  <2>1. LeftBehind' = LeftBehind \cup {cur.slot} /\ cur.slot \notin LeftBehind
    BY <1>3 DEF ConfigFailed, LeftBehind, SlotStages
  <2>2. Cardinality(LeftBehind') = Cardinality(LeftBehind) + 1
    BY <2>1, SlotCount, FS_AddElement
  <2> QED BY <1>1, <1>3, <2>2, SlotCount DEF FewLeft, ConfigFailed
<1>4. CASE \/ \E done : BlitSet(done)
           \/ BypassSet
           \/ \E i \in Slots : Dequeued(i)
           \/ \E made : Configured(made)
           \/ Released
           \/ Acquired
           \/ \E made : PreparedStep(made)
           \/ Triggered
           \/ \E job : Processed(job)
           \/ \E job : Cancelled(job)
           \/ Idled
  <2>1. LeftBehind' = LeftBehind /\ failed' = failed
    <3>1. CASE \E done : BlitSet(done)
      BY <3>1 DEF BlitSet, LeftBehind
    <3>2. CASE BypassSet
      BY <3>2 DEF BypassSet, LeftBehind
    <3>3. CASE \E i \in Slots : Dequeued(i)
      BY <3>3 DEF Dequeued, LeftBehind
    <3>4. CASE \E made : Configured(made)
      BY <3>4 DEF Configured, LeftBehind
    <3>5. CASE Released
      BY <3>5, NoSlotNone DEF Released, LeftBehind, SlotStages
    <3>6. CASE Acquired
      BY <3>6 DEF Acquired, LeftBehind, SlotStages
    <3>7. CASE \E made : PreparedStep(made)
      BY <3>7 DEF PreparedStep, LeftBehind
    <3>8. CASE Triggered
      BY <3>8 DEF Triggered, LeftBehind
    <3>9. CASE \E job : Processed(job)
      BY <3>9 DEF Processed, Taken, LeftBehind
    <3>10. CASE \E job : Cancelled(job)
      BY <3>10 DEF Cancelled, Taken, LeftBehind
    <3>11. CASE Idled
      BY <3>11 DEF Idled, LeftBehind
    <3> QED BY <1>4, <3>1, <3>2, <3>3, <3>4, <3>5, <3>6, <3>7, <3>8, <3>9,
               <3>10, <3>11, Zenon
  <2> QED BY <2>1, <1>2
<1> QED BY <1>3, <1>4, StepCases, Zenon

\* When no slot is free all but the one on the screen are left behind.
LEMMA FreeSlot ==
  ASSUME Types, Stages, SlotStages, FewLeft
  PROVE  SlotForEveryFrame
<1> SUFFICES ASSUME mpc = "dequeue", failed < NumSlots - 1,
                    Q!InState("FREE") = {}
             PROVE  FALSE
  BY DEF SlotForEveryFrame
<1>1. failed \in Nat /\ NumSlots \in Nat
  BY Bounds DEF Types, MainTypes
<1>2. \A i \in Slots : slots[i].state \in Q!BufferState /\ slots[i].state # "FREE"
  BY SlotFields DEF Types, Slots, Q!InState
<1>3. Slots \subseteq LeftBehind \cup {m_last_acquired}
  BY <1>2 DEF SlotStages, LeftBehind, Q!BufferState
<1>4. /\ IsFiniteSet(LeftBehind \cup {m_last_acquired})
      /\ Cardinality(LeftBehind \cup {m_last_acquired})
            <= Cardinality(LeftBehind) + 1
  BY SlotCount, FS_AddElement
<1>5. Cardinality(LeftBehind \cup {m_last_acquired}) \in Nat
  BY <1>4, FS_CardinalityType
<1>6. NumSlots <= Cardinality(LeftBehind \cup {m_last_acquired})
  BY <1>3, <1>4, SlotCount, FS_Subset
<1> QED BY <1>1, <1>4, <1>5, <1>6, SlotCount DEF FewLeft

-----------------------------------------------------------------------------
(* The jobs: one of a frame, in the order of the frames, and an MDP job for *)
(* each that is to be blitted.                                             *)

\* The dispatch thread gets the jobs in the order of their frames.
JobsInOrder ==
    /\ \A k, l \in 1 .. Len(jobs) : k < l => jobs[k].seq < jobs[l].seq
    /\ \A k \in 1 .. Len(jobs) :
          jobs[k].seq <= frame /\ (cur # NoJob => jobs[k].seq < frame)

\* A frame that is to be blitted, and could be configured so far.
Blits(job) == job.blit /\ ~job.fail

\* Every such frame has its MDP job, and only these have one.
ParamsOwned ==
    /\ \A k \in 1 .. Len(jobs) :
          Blits(jobs[k]) => jobs[k].seq \in DOMAIN m_job_params
    /\ cur # NoJob /\ Blits(cur) => frame \in DOMAIN m_job_params
    /\ \A n \in DOMAIN m_job_params :
          \/ cur # NoJob /\ Blits(cur) /\ n = frame
          \/ \E k \in 1 .. Len(jobs) : Blits(jobs[k]) /\ n = jobs[k].seq

\* A job that is handled leaves the others in their order, and its HWLayer
\* becomes the last of the pool.
LEMMA TakenJobs ==
  ASSUME JobTypes, NEW job, Taken(job)
  PROVE  /\ Len(jobs) \in Nat \ {0} /\ Len(jobs') = Len(jobs) - 1
         /\ job = jobs[1] /\ job \in HWLayer
         /\ \A k \in 1 .. Len(jobs') : /\ jobs'[k] = jobs[k + 1]
                                       /\ k + 1 \in 1 .. Len(jobs)
         /\ \A k \in 1 .. Len(jobs) : k = 1 \/ /\ k - 1 \in 1 .. Len(jobs')
                                               /\ jobs'[k - 1] = jobs[k]
         /\ Len(pool) \in Nat /\ Len(pool') = Len(pool) + 1
         /\ \A k \in 1 .. Len(pool') :
               \/ k \in 1 .. Len(pool) /\ pool'[k].port = pool[k].port
               \/ pool'[k].port = job.port
<1>1. /\ jobs \in Seq(HWLayer) /\ jobs # <<>> /\ jobs' = Tail(jobs)
      /\ job = Head(jobs) /\ job \in HWLayer
      /\ pool \in Seq(Leftover) /\ pool' = Append(pool, Left(job))
  BY DEF JobTypes, Taken
<1>2. /\ Len(jobs) \in Nat \ {0} /\ Len(jobs') = Len(jobs) - 1 /\ job = jobs[1]
      /\ \A k \in 1 .. Len(jobs') : jobs'[k] = jobs[k + 1]
  BY <1>1, HeadTailProperties, LenProperties, EmptySeq
<1>3. Left(job) \in Leftover /\ Left(job).port = job.port
  BY <1>1 DEF Left, Leftover, HWLayer
<1>4. /\ Len(pool) \in Nat /\ Len(pool') = Len(pool) + 1
      /\ \A k \in 1 .. Len(pool) : pool'[k] = pool[k]
      /\ pool'[Len(pool) + 1] = Left(job)
  BY <1>1, <1>3, AppendProperties, LenProperties
<1> QED BY <1>1, <1>2, <1>3, <1>4

\* Trigger makes the main thread's job the last.
LEMMA TriggeredJobs ==
  ASSUME JobTypes, Triggered
  PROVE  /\ Len(jobs) \in Nat /\ Len(jobs') = Len(jobs) + 1
         /\ \A k \in 1 .. Len(jobs) : jobs'[k] = jobs[k]
         /\ jobs'[Len(jobs) + 1] = cur
         /\ cur \in HWLayer /\ cur # NoJob
<1>1. jobs \in Seq(HWLayer) /\ cur \in HWLayer /\ jobs' = Append(jobs, cur)
  BY DEF JobTypes, Triggered
<1>2. cur # NoJob
  BY <1>1, NoJobAssumption
<1> QED BY <1>1, <1>2, AppendProperties, LenProperties

\* A job that leaves the pool is its first.
LEMMA PooledJobs ==
  ASSUME JobTypes, pool # <<>>, pool' = Tail(pool)
  PROVE  /\ Len(pool) \in Nat \ {0} /\ Len(pool') = Len(pool) - 1
         /\ Head(pool) = pool[1]
         /\ \A k \in 1 .. Len(pool') : /\ pool'[k] = pool[k + 1]
                                       /\ k + 1 \in 1 .. Len(pool)
<1>1. pool \in Seq(Leftover)
  BY DEF JobTypes
<1>2. /\ Len(pool) \in Nat \ {0} /\ Len(pool') = Len(pool) - 1
      /\ Head(pool) = pool[1]
      /\ \A k \in 1 .. Len(pool') : pool'[k] = pool[k + 1]
  BY <1>1, HeadTailProperties, LenProperties, EmptySeq
<1> QED BY <1>2

\* The numbers in a job, and of the jobs.
LEMMA JobNumbers ==
  ASSUME Types
  PROVE  /\ Len(jobs) \in Nat /\ frame \in Nat
         /\ \A k \in 1 .. Len(jobs) : /\ jobs[k] \in HWLayer
                                      /\ jobs[k].seq \in Frames
                                      /\ jobs[k].blit \in BOOLEAN
                                      /\ jobs[k].fail \in BOOLEAN
<1>1. jobs \in Seq(HWLayer) /\ frame \in 0 .. MaxFrame
  BY DEF Types, JobTypes, MainTypes
<1>2. Len(jobs) \in Nat /\ frame \in Nat
  BY <1>1, Bounds, LenProperties
<1>3. \A k \in 1 .. Len(jobs) : jobs[k] \in HWLayer
  BY <1>1, ElementOfSeq
<1> QED BY <1>2, <1>3 DEF HWLayer, Frames

\* No job overtakes another.
LEMMA JobsInOrderKept ==
  ASSUME Types, Stages, JobsInOrder, [Next]_vars
  PROVE  JobsInOrder'
<1> USE JobNumbers DEF Types
<1>1. cur # NoJob => cur.seq = frame
  BY DEF Stages
<1>2. CASE \/ \E done : BlitSet(done)
           \/ BypassSet
  <2>1. jobs' = jobs /\ frame' = frame + 1
    BY <1>2 DEF BlitSet, BypassSet
  <2> QED BY <2>1 DEF JobsInOrder, Frames
<1>3. CASE \/ \E i \in Slots : Dequeued(i)
           \/ ConfigFailed
           \/ \E made : Configured(made)
           \/ \E made : PreparedStep(made)
  <2>1. jobs' = jobs /\ frame' = frame /\ cur # NoJob
    BY <1>3, NoJobAssumption
       DEF Dequeued, ConfigFailed, Configured, PreparedStep
  <2> QED BY <2>1 DEF JobsInOrder, Frames
<1>4. CASE Released \/ Acquired \/ Idled
  BY <1>4 DEF Released, Acquired, Idled, JobsInOrder
<1>5. CASE Triggered
  <2>1. frame' = frame /\ cur' = NoJob
    BY <1>5 DEF Triggered
  <2> QED BY <1>1, <1>5, <2>1, TriggeredJobs DEF JobsInOrder
<1>6. CASE \E job : Processed(job) \/ Cancelled(job)
  <2>1. PICK job : Taken(job)
    BY <1>6 DEF Processed, Cancelled
  <2>2. frame' = frame /\ cur' = cur
    BY <2>1 DEF Taken
  <2>3. /\ Len(jobs) \in Nat \ {0} /\ Len(jobs') = Len(jobs) - 1
        /\ job = jobs[1] /\ job \in HWLayer
        /\ \A k \in 1 .. Len(jobs') : /\ jobs'[k] = jobs[k + 1]
                                      /\ k + 1 \in 1 .. Len(jobs)
    BY <2>1, TakenJobs
  <2>4. ASSUME NEW k \in 1 .. Len(jobs')
        PROVE  /\ jobs'[k].seq <= frame'
               /\ cur' # NoJob => jobs'[k].seq < frame'
    BY <2>2, <2>3 DEF JobsInOrder
  <2>5. ASSUME NEW k \in 1 .. Len(jobs'), NEW l \in 1 .. Len(jobs'), k < l
        PROVE  jobs'[k].seq < jobs'[l].seq
    <3> HIDE DEF Types
    <3>1. k + 1 \in 1 .. Len(jobs) /\ l + 1 \in 1 .. Len(jobs) /\ k + 1 < l + 1
      BY <2>3, <2>5
    <3>2. jobs[k + 1].seq < jobs[l + 1].seq
      BY <3>1 DEF JobsInOrder
    <3> QED BY <2>3, <3>2
  <2> QED BY <2>4, <2>5 DEF JobsInOrder
<1> QED BY <1>2, <1>3, <1>4, <1>5, <1>6, StepCases, Zenon

\* The MDP jobs are made and given up with their frames.
LEMMA ParamsOwnedKept ==
  ASSUME Types, Stages, JobsInOrder, ParamsOwned, [Next]_vars
  PROVE  ParamsOwned'
<1> USE JobNumbers DEF Types
<1>1. /\ cur # NoJob => cur \in HWLayer /\ cur.seq = frame
      /\ (cur = NoJob <=> mpc = "idle")
  BY DEF Stages, JobTypes
<1>2. CASE \E done : BlitSet(done)
  BY <1>1, <1>2, NoJobAssumption DEF BlitSet, ParamsOwned, Blits
<1>3. CASE BypassSet
  BY <1>1, <1>3, NoJobAssumption DEF BypassSet, ParamsOwned, Blits
<1>4. CASE \/ \E i \in Slots : Dequeued(i)
           \/ \E made : Configured(made)
           \/ \E made : PreparedStep(made)
  <2>1. /\ jobs' = jobs /\ frame' = frame /\ cur # NoJob /\ cur' # NoJob
        /\ cur'.blit = cur.blit /\ cur'.fail = cur.fail
        /\ DOMAIN m_job_params' = DOMAIN m_job_params
    BY <1>4, NoJobAssumption DEF Dequeued, Configured, PreparedStep
  <2>2. Blits(cur)' <=> Blits(cur)
    BY <2>1 DEF Blits
  <2>3. \A k \in 1 .. Len(jobs) : Blits(jobs[k])' <=> Blits(jobs[k])
    BY <2>1 DEF Blits
  <2> QED BY <2>1, <2>2, <2>3 DEF ParamsOwned
<1>5. CASE ConfigFailed
  <2>1. /\ jobs' = jobs /\ frame' = frame /\ cur # NoJob /\ cur.seq = frame
        /\ cur'.fail = TRUE
        /\ DOMAIN m_job_params' = DOMAIN m_job_params \ {frame}
    BY <1>1, <1>5, NoJobAssumption DEF ConfigFailed
  <2> QED BY <2>1 DEF ParamsOwned, Blits, JobsInOrder
<1>6. CASE Released \/ Acquired \/ Idled
  BY <1>6 DEF Released, Acquired, Idled, ParamsOwned
<1>7. CASE Triggered
  <2>1. /\ frame' = frame /\ cur' = NoJob /\ cur.seq = frame
        /\ m_job_params' = m_job_params
    BY <1>1, <1>7, TriggeredJobs DEF Triggered
  <2>2. \A k \in 1 .. Len(jobs') :
           Blits(jobs'[k]) => jobs'[k].seq \in DOMAIN m_job_params'
    BY <1>7, <2>1, TriggeredJobs DEF ParamsOwned
  <2>3. ASSUME NEW n \in DOMAIN m_job_params'
        PROVE  \E k \in 1 .. Len(jobs') : Blits(jobs'[k]) /\ n = jobs'[k].seq
    BY <1>7, <2>1, TriggeredJobs DEF ParamsOwned
  <2> QED BY <2>1, <2>2, <2>3 DEF ParamsOwned, Blits
<1>8. CASE \E job : Processed(job) \/ Cancelled(job)
  <2>1. PICK job : Taken(job)
    BY <1>8 DEF Processed, Cancelled
  <2>0. /\ Len(jobs) \in Nat \ {0} /\ Len(jobs') = Len(jobs) - 1
        /\ job = jobs[1] /\ job \in HWLayer
        /\ \A k \in 1 .. Len(jobs') : /\ jobs'[k] = jobs[k + 1]
                                      /\ k + 1 \in 1 .. Len(jobs)
    BY <2>1, TakenJobs
  <2>2. /\ frame' = frame /\ cur' = cur
        /\ DOMAIN m_job_params' =
              DOMAIN m_job_params \ (IF job.blit THEN {job.seq} ELSE {})
    BY <2>1 DEF Taken
  <2>3. /\ \A k \in 1 .. Len(jobs') : jobs'[k].seq # job.seq
        /\ cur # NoJob => job.seq # frame
    BY <2>0 DEF JobsInOrder, Frames
  <2>4. \A k \in 1 .. Len(jobs') :
           Blits(jobs'[k]) => jobs'[k].seq \in DOMAIN m_job_params'
    BY <2>0, <2>2, <2>3 DEF ParamsOwned
  <2>5. cur # NoJob /\ Blits(cur) => frame \in DOMAIN m_job_params'
    BY <2>2, <2>3 DEF ParamsOwned
  <2>6. ASSUME NEW n \in DOMAIN m_job_params',
               ~(cur # NoJob /\ Blits(cur) /\ n = frame)
        PROVE  \E k \in 1 .. Len(jobs') : Blits(jobs'[k]) /\ n = jobs'[k].seq
    <3>1. PICK k \in 1 .. Len(jobs) : Blits(jobs[k]) /\ n = jobs[k].seq
      BY <2>2, <2>6 DEF ParamsOwned
    <3>2. k # 1
      BY <2>1, <2>2, <3>1, TakenJobs DEF Blits
    <3> QED BY <2>1, <3>1, <3>2, TakenJobs
  <2> QED BY <2>2, <2>4, <2>5, <2>6 DEF ParamsOwned, Blits
<1> QED BY <1>2, <1>3, <1>4, <1>5, <1>6, <1>7, <1>8, StepCases, Zenon

\* The jobs of the dispatch thread and of the main thread, in one sequence.
LEMMA AllJobsParts ==
  ASSUME Types
  PROVE  /\ AllJobs \in Seq(HWLayer)
         /\ Len(AllJobs) = IF cur = NoJob THEN Len(jobs) ELSE Len(jobs) + 1
         /\ \A k \in 1 .. Len(jobs) : AllJobs[k] = jobs[k]
         /\ cur # NoJob => AllJobs[Len(jobs) + 1] = cur
<1>1. jobs \in Seq(HWLayer) /\ (cur # NoJob => cur \in HWLayer)
  BY DEF Types, JobTypes
<1>2. CASE cur = NoJob
  <2>1. AllJobs = jobs
    BY <1>1, <1>2, ConcatEmptySeq DEF AllJobs, One
  <2> QED BY <1>1, <1>2, <2>1
<1>3. CASE cur # NoJob
  <2>1. AllJobs = Append(jobs, cur)
    BY <1>1, <1>3, AppendIsConcat DEF AllJobs, One
  <2> QED BY <1>1, <1>3, <2>1, AppendProperties, LenProperties
<1> QED BY <1>2, <1>3

\* The MDP jobs are those of the frames that are to be blitted.
LEMMA ParamsOwnedShown ==
  ASSUME Types, Stages, ParamsOwned
  PROVE  JobParamsOfFrames
<1>1. /\ DOMAIN AllJobs = 1 .. Len(AllJobs) /\ Len(jobs) \in Nat
      /\ Len(AllJobs) = IF cur = NoJob THEN Len(jobs) ELSE Len(jobs) + 1
      /\ \A k \in 1 .. Len(jobs) : AllJobs[k] = jobs[k]
      /\ cur # NoJob => AllJobs[Len(jobs) + 1] = cur /\ cur.seq = frame
  BY AllJobsParts, JobNumbers, LenProperties DEF Stages
<1>2. ASSUME NEW k \in DOMAIN AllJobs, Blits(AllJobs[k])
      PROVE  AllJobs[k].seq \in DOMAIN m_job_params
  <2>1. CASE k \in 1 .. Len(jobs)
    BY <1>1, <1>2, <2>1 DEF ParamsOwned
  <2>2. CASE k \notin 1 .. Len(jobs)
    <3>1. cur # NoJob /\ k = Len(jobs) + 1
      BY <1>1, <2>2
    <3> QED BY <1>1, <1>2, <3>1 DEF ParamsOwned
  <2> QED BY <2>1, <2>2
<1>3. ASSUME NEW n \in DOMAIN m_job_params
      PROVE  \E k \in DOMAIN AllJobs : Blits(AllJobs[k]) /\ AllJobs[k].seq = n
  <2>1. CASE cur # NoJob /\ Blits(cur) /\ n = frame
    <3>1. Len(jobs) + 1 \in DOMAIN AllJobs
      BY <1>1, <2>1
    <3> QED BY <1>1, <2>1, <3>1
  <2>2. CASE \E k \in 1 .. Len(jobs) : Blits(jobs[k]) /\ n = jobs[k].seq
    <3>1. PICK k \in 1 .. Len(jobs) : Blits(jobs[k]) /\ n = jobs[k].seq
      BY <2>2
    <3>2. k \in DOMAIN AllJobs
      BY <1>1
    <3> QED BY <1>1, <3>1, <3>2
  <2> QED BY <2>1, <2>2 DEF ParamsOwned
<1>4. JobParamsOfFrames <=>
        DOMAIN m_job_params =
          {AllJobs[k].seq : k \in {l \in DOMAIN AllJobs : Blits(AllJobs[l])}}
  BY Zenon DEF JobParamsOfFrames, Blits
<1> QED BY <1>2, <1>3, <1>4

-----------------------------------------------------------------------------
(* Which fence is where.                                                   *)

\* A job that the main thread is done with has given its fences to MDP, unless
\* it failed, and waits for no blit but its own.
HandedOver(job) ==
    /\ job.done = NoFence
    /\ job.acq \in {NoFence, Acq(job.seq)}
    /\ job.acq # NoFence => job.fail
    /\ job.fail => job.blit
    /\ ~job.fail => /\ job.port \in {NoFence, Blit(job.seq)}
                    /\ job.shows <= job.seq

\* The fences of the jobs are those of their frames.
JobNames ==
    /\ mpc \in {"dequeue", "config"} =>
          /\ cur.acq = Acq(frame) /\ cur.done \in {NoFence, Done(frame)}
          /\ Src(frame) = NoFence /\ Dst(frame) = NoFence
    /\ mpc \in {"release", "acquire", "prepare"} =>
          cur.acq = NoFence /\ cur.done = NoFence
    /\ mpc = "trigger" => HandedOver(cur)
    /\ \A k \in 1 .. Len(jobs) : HandedOver(jobs[k])
    /\ \A n \in Frames : Src(n) \in {NoFence, Acq(n)}
    /\ \A i \in Slots : contents[i] <= frame

\* The fences of the overlay's uses, and the one kept for the next frame.
IsRel(f) == f = NoFence \/ (f \in Fds /\ Kind(f) = "rel")
RelNames ==
    /\ \A i \in Slots : IsRel(slots[i].release_fence) /\ IsRel(pbuf[i])
    /\ \A n \in Frames : IsRel(Dst(n))
    /\ IsRel(m_rel_fence)
    /\ m_prev # NoFence => m_prev \in Fds /\ Kind(m_prev) = "prev"

\* The fence that an HWLayer was left with is the blit's of an earlier frame.
Before(f) ==
    f = NoFence \/ /\ f \in Fds /\ Kind(f) = "blit" /\ Number(f) <= frame
                   /\ cur # NoJob => Number(f) < frame
PortsBefore ==
    /\ \A k \in 1 .. Len(pool) : Before(pool[k].port)
    /\ \A k \in 1 .. Len(jobs) : jobs[k].fail => Before(jobs[k].port)
    /\ cur # NoJob /\ (mpc # "trigger" \/ cur.fail) => Before(cur.port)

\* The types of a job's fences and of the queue's.
LEMMA FenceTypes ==
  ASSUME Types
  PROVE  /\ \A i \in Slots :
              /\ slots[i].release_fence \in Fence
              /\ slots[i].acquire_fence \in Fence
              /\ pbuf[i] \in Fence /\ cbuf[i] \in Fence
              /\ contents[i] \in 0 .. MaxFrame
         /\ m_rel_fence \in Fence /\ m_prev \in Fence
         /\ m_last_acquired \in Slots \cup {NoSlot}
         /\ frame \in Nat /\ frame \in 0 .. MaxFrame
         /\ cur # NoJob => cur \in HWLayer
         /\ \A job \in HWLayer :
              /\ job.acq \in Fence /\ job.done \in Fence /\ job.port \in Fence
              /\ job.seq \in Frames /\ job.shows \in Nat
              /\ job.fail \in BOOLEAN /\ job.blit \in BOOLEAN
         /\ \A n \in Frames : Src(n) \in Fence /\ Dst(n) \in Fence
<1>1. \A i \in Slots :
         /\ slots[i].release_fence \in Fence
         /\ slots[i].acquire_fence \in Fence
         /\ pbuf[i] \in Fence /\ cbuf[i] \in Fence
         /\ contents[i] \in 0 .. MaxFrame
  BY SlotFields DEF Types, QueueTypes, Slots
<1>2. \A job \in HWLayer :
         /\ job.acq \in Fence /\ job.done \in Fence /\ job.port \in Fence
         /\ job.seq \in Frames /\ job.shows \in Nat
         /\ job.fail \in BOOLEAN /\ job.blit \in BOOLEAN
  BY Bounds DEF HWLayer, Frames
<1>3. /\ m_rel_fence \in Fence /\ m_prev \in Fence
      /\ m_last_acquired \in Slots \cup {NoSlot}
      /\ frame \in Nat /\ frame \in 0 .. MaxFrame
      /\ cur # NoJob => cur \in HWLayer
  BY Bounds DEF Types, MainTypes, JobTypes, Slots
<1>4. \A n \in Frames : Src(n) \in Fence /\ Dst(n) \in Fence
  BY ParamTypes DEF Types
<1> QED BY <1>1, <1>2, <1>3, <1>4

\* The fences stay with the frames they were made for.
LEMMA JobNamesKept ==
  ASSUME Types, Stages, SlotStages, JobsInOrder, JobNames, [Next]_vars
  PROVE  JobNames'
<1>1. /\ cur # NoJob => cur \in HWLayer /\ cur.seq = frame
      /\ (cur = NoJob <=> mpc = "idle")
      /\ mpc \in {"dequeue", "config", "release", "acquire"} => cur.blit
      /\ mpc # "trigger" /\ cur # NoJob => ~cur.fail
      /\ m_last_acquired \in Slots \cup {NoSlot}
  BY FenceTypes DEF Stages
<1>2. /\ frame \in Nat
      /\ \A i \in Slots : contents[i] \in Nat
      /\ \A n \in Frames : n \in Nat
  BY FenceTypes, Bounds DEF Frames
<1>3. CASE \E done : BlitSet(done)
  BY <1>2, <1>3 DEF BlitSet, JobNames
<1>4. CASE BypassSet
  BY <1>2, <1>4 DEF BypassSet, JobNames
<1>5. CASE \E i \in Slots : Dequeued(i)
  <2>1. PICK i \in Slots : Dequeued(i)
    BY <1>5
  <2>2. Src(frame)' = NoFence /\ Dst(frame)' = NoFence
    <3>1. frame \in Frames /\ frame' = frame
      BY <1>1, <2>1, FenceTypes, NoJobAssumption DEF Dequeued
    <3> QED BY <2>1, <3>1 DEF Dequeued, JobNames
  <2> QED BY <2>1, <2>2 DEF Dequeued, JobNames
<1>6. CASE ConfigFailed
  <2>1. HandedOver(cur)'
    BY <1>1, <1>6 DEF ConfigFailed, HandedOver, JobNames
  <2> QED BY <1>6, <2>1 DEF ConfigFailed, JobNames
<1>7. CASE \E made : Configured(made)
  BY <1>2, <1>7 DEF Configured, JobNames
<1>8. CASE Released
  BY <1>8 DEF Released, JobNames
<1>9. CASE Acquired
  BY <1>9 DEF Acquired, JobNames
<1>10. CASE \E made : PreparedStep(made)
  <2>1. PICK made : PreparedStep(made)
    BY <1>10
  <2>2. cur'.port \in {NoFence, Blit(frame)} /\ cur'.shows <= frame
    BY <1>1, <1>2, <2>1 DEF PreparedStep, SlotStages, JobNames
  <2>3. /\ cur'.seq = frame /\ cur'.acq = NoFence /\ cur'.done = NoFence
        /\ ~cur'.fail
    BY <1>1, <2>1, NoJobAssumption DEF PreparedStep, JobNames
  <2>4. HandedOver(cur)'
    BY <2>2, <2>3 DEF HandedOver
  <2> QED BY <2>1, <2>4 DEF PreparedStep, JobNames
<1>11. CASE Triggered
  <2>1. \A k \in 1 .. Len(jobs') : HandedOver(jobs'[k])
    BY <1>11, TriggeredJobs DEF Triggered, JobNames, Types
  <2> QED BY <1>11, <2>1 DEF Triggered, JobNames
<1>12. CASE \E job : Processed(job) \/ Cancelled(job)
  <2>1. PICK job : Taken(job)
    BY <1>12 DEF Processed, Cancelled
  <2>2. \A k \in 1 .. Len(jobs') : HandedOver(jobs'[k])
    <3>1. \A k \in 1 .. Len(jobs') : /\ jobs'[k] = jobs[k + 1]
                                     /\ k + 1 \in 1 .. Len(jobs)
      BY <2>1, TakenJobs DEF Types
    <3> QED BY <3>1 DEF JobNames
  <2>3. mpc \in {"dequeue", "config"} => ~(job.blit /\ frame = job.seq)
    <3>1. job = jobs[1] /\ 1 \in 1 .. Len(jobs)
      BY <2>1, TakenJobs DEF Types
    <3>2. job.seq \in Nat
      BY <2>1, TakenJobs, FenceTypes, <1>2 DEF Types
    <3> QED BY <1>1, <1>2, <3>1, <3>2 DEF JobsInOrder
  <2>4. frame \in Frames \/ mpc = "idle"
    BY <1>1, FenceTypes
  <2>5. \A n \in Frames : /\ Src(n)' \in {NoFence, Src(n)}
                           /\ Dst(n)' \in {NoFence, Dst(n)}
    BY <2>1 DEF Taken
  <2>6. UNCHANGED <<mpc, cur, frame, contents>>
    BY <2>1 DEF Taken
  <2>7. mpc \in {"dequeue", "config"} =>
           Src(frame)' = NoFence /\ Dst(frame)' = NoFence
    BY <2>4, <2>5, <2>6 DEF JobNames
  <2> QED BY <2>2, <2>5, <2>6, <2>7 DEF JobNames
<1>13. CASE Idled
  BY <1>13, <1>1, FenceTypes DEF Idled, JobNames
<1> QED BY <1>3, <1>4, <1>5, <1>6, <1>7, <1>8, <1>9, <1>10, <1>11, <1>12,
           <1>13, StepCases, Zenon

\* A fence of the overlay's use goes to the slot, to the producer and to MDP.
LEMMA RelNamesKept ==
  ASSUME Types, Stages, RelNames, [Next]_vars
  PROVE  RelNames'
<1>1. /\ IsRel(NoFence)
      /\ \A n \in Frames : /\ IsRel(Rel(n))
                           /\ Prev(n) \in Fds /\ Kind(Prev(n)) = "prev"
      /\ m_last_acquired \in Slots \cup {NoSlot}
  BY Names, FenceTypes DEF IsRel
<1>2. CASE \E done : BlitSet(done)
  BY <1>1, <1>2 DEF BlitSet, RelNames
<1>3. CASE BypassSet
  BY <1>1, <1>3 DEF BypassSet, RelNames
<1>4. CASE \E i \in Slots : Dequeued(i)
  BY <1>1, <1>4 DEF Dequeued, RelNames
<1>5. CASE ConfigFailed
  BY <1>1, <1>5 DEF ConfigFailed, RelNames
<1>6. CASE \E made : Configured(made)
  BY <1>1, <1>6 DEF Configured, RelNames
<1>7. CASE Released
  BY <1>1, <1>7 DEF Released, RelNames
<1>8. CASE Acquired
  BY <1>8 DEF Acquired, RelNames
<1>9. CASE \E made : PreparedStep(made)
  BY <1>1, <1>9 DEF PreparedStep, RelNames
<1>10. CASE Triggered \/ Idled
  BY <1>10 DEF Triggered, Idled, RelNames
<1>11. CASE \E job : Processed(job) \/ Cancelled(job)
  <2>1. PICK job : Taken(job)
    BY <1>11 DEF Processed, Cancelled
  <2> QED BY <1>1, <2>1 DEF Taken, RelNames
<1> QED BY <1>2, <1>3, <1>4, <1>5, <1>6, <1>7, <1>8, <1>9, <1>10, <1>11,
           StepCases, Zenon

\* What an HWLayer was left with belongs to an earlier frame.
LEMMA PortsBeforeKept ==
  ASSUME Types, Stages, JobsInOrder, JobNames, PortsBefore, [Next]_vars
  PROVE  PortsBefore'
<1>1. /\ cur # NoJob => cur \in HWLayer /\ cur.seq = frame
      /\ (cur = NoJob <=> mpc = "idle")
      /\ frame \in Nat
      /\ \A f \in Fds : Number(f) \in Nat
      /\ NoJob \notin HWLayer
  BY FenceTypes, Names, Bounds, NoJobAssumption DEF Stages, Frames
<1>2. CASE \/ \E done : BlitSet(done)
           \/ BypassSet
  <2>1. /\ pool # <<>> /\ pool' = Tail(pool) /\ cur = NoJob /\ cur' # NoJob
        /\ frame' = frame + 1 /\ jobs' = jobs /\ mpc' # "trigger"
        /\ cur'.port = Head(pool).port
    BY <1>1, <1>2 DEF BlitSet, BypassSet
  <2>2. /\ cur'.port = pool[1].port /\ 1 \in 1 .. Len(pool)
        /\ \A k \in 1 .. Len(pool') : /\ pool'[k] = pool[k + 1]
                                      /\ k + 1 \in 1 .. Len(pool)
    BY <2>1, PooledJobs DEF Types
  <2>3. \A f : Before(f) => Before(f)'
    BY <1>1, <2>1 DEF Before
  <2>4. \A k \in 1 .. Len(pool') : Before(pool[k].port)'
    BY <2>2, <2>3 DEF PortsBefore
  <2>5. \A k \in 1 .. Len(jobs') : jobs'[k].fail => Before(jobs[k].port)'
    BY <2>1, <2>3 DEF PortsBefore
  <2>6. Before(cur.port)'
    BY <2>2, <2>3 DEF PortsBefore
  <2> QED BY <2>4, <2>5, <2>6 DEF PortsBefore
<1>3. CASE \/ \E i \in Slots : Dequeued(i)
           \/ ConfigFailed
           \/ \E made : Configured(made)
  <2>1. /\ jobs' = jobs /\ pool' = pool /\ frame' = frame
        /\ cur # NoJob /\ cur' # NoJob /\ cur'.port = cur.port
        /\ mpc # "trigger"
    BY <1>1, <1>3 DEF Dequeued, ConfigFailed, Configured
  <2> QED BY <2>1 DEF PortsBefore, Before
<1>4. CASE \E made : PreparedStep(made)
  <2>1. /\ jobs' = jobs /\ pool' = pool /\ frame' = frame
        /\ cur # NoJob /\ cur' # NoJob /\ mpc' = "trigger" /\ ~cur'.fail
    BY <1>1, <1>4 DEF PreparedStep, Stages
  <2> QED BY <2>1 DEF PortsBefore, Before
<1>5. CASE Released \/ Acquired \/ Idled
  BY <1>5 DEF Released, Acquired, Idled, PortsBefore, Before
<1>6. CASE Triggered
  <2>1. /\ pool' = pool /\ frame' = frame /\ cur' = NoJob /\ cur # NoJob
        /\ mpc = "trigger"
    BY <1>1, <1>6 DEF Triggered
  <2>2. \A f : Before(f) => Before(f)'
    BY <2>1 DEF Before
  <2>3. \A k \in 1 .. Len(jobs') : jobs'[k].fail => Before(jobs[k].port)'
    <3>1. /\ Len(jobs) \in Nat /\ Len(jobs') = Len(jobs) + 1
          /\ \A k \in 1 .. Len(jobs) : jobs'[k] = jobs[k]
          /\ jobs'[Len(jobs) + 1] = cur
      BY <1>6, TriggeredJobs DEF Types
    <3>2. \A k \in 1 .. Len(jobs') : k \in 1 .. Len(jobs) \/ k = Len(jobs) + 1
      BY <3>1
    <3> QED BY <2>1, <2>2, <3>1, <3>2 DEF PortsBefore
  <2>4. \A k \in 1 .. Len(pool') : Before(pool[k].port)'
    BY <2>1, <2>2 DEF PortsBefore
  <2> QED BY <2>1, <2>3, <2>4 DEF PortsBefore
<1>7. CASE \E job : Processed(job) \/ Cancelled(job)
  <2>1. PICK job : Taken(job)
    BY <1>7 DEF Processed, Cancelled
  <2>2. UNCHANGED <<mpc, cur, frame>>
    BY <2>1 DEF Taken
  <2>3. /\ job = jobs[1] /\ 1 \in 1 .. Len(jobs) /\ job \in HWLayer
        /\ \A k \in 1 .. Len(jobs') : /\ jobs'[k] = jobs[k + 1]
                                      /\ k + 1 \in 1 .. Len(jobs)
        /\ \A k \in 1 .. Len(pool') :
              \/ k \in 1 .. Len(pool) /\ pool'[k].port = pool[k].port
              \/ pool'[k].port = job.port
    BY <2>1, TakenJobs DEF Types
  <2>4. Before(job.port)
    <3>1. CASE job.fail
      BY <2>3, <3>1 DEF PortsBefore
    <3>2. CASE ~job.fail
      <4>1. job.port \in {NoFence, Blit(job.seq)} /\ job.seq \in Frames
        BY <2>3, <3>2, FenceTypes DEF JobNames, HandedOver
      <4> QED BY <2>3, <4>1, Names DEF Before, JobsInOrder
    <3> QED BY <3>1, <3>2
  <2>5. \A f : Before(f) => Before(f)'
    BY <2>2 DEF Before
  <2>6. \A k \in 1 .. Len(pool') : Before(pool[k].port)'
    BY <2>3, <2>4, <2>5 DEF PortsBefore
  <2>7. \A k \in 1 .. Len(jobs') : jobs'[k].fail => Before(jobs[k].port)'
    BY <2>3, <2>5 DEF PortsBefore
  <2>8. cur' # NoJob /\ (mpc' # "trigger" \/ cur'.fail) => Before(cur.port)'
    BY <2>2, <2>5 DEF PortsBefore
  <2> QED BY <2>6, <2>7, <2>8 DEF PortsBefore
<1> QED BY <1>2, <1>3, <1>4, <1>5, <1>6, <1>7, StepCases, Zenon

\* No fence is open before the frame that makes it gets that far.
Fresh ==
    \A f \in live :
        /\ Number(f) <= frame
        /\ Number(f) = frame =>
              /\ Kind(f) \in {"blit", "prev"} => mpc \notin {"dequeue", "config"}
              /\ Kind(f) = "rel" => mpc \in {"idle", "trigger"}

\* The name of a new fence is new: the frame has none of that kind open.
LEMMA FreshKept ==
  ASSUME Types, Stages, Fresh, [Next]_vars
  PROVE  Fresh'
<1>1. /\ frame \in Nat
      /\ live \subseteq Fds
      /\ \A f \in Fds : Number(f) \in Nat
      /\ \A n \in Frames : n \in Nat
  BY FenceTypes, Names, Bounds DEF Frames, Types, MainTypes
<1>2. CASE \E done : BlitSet(done)
  <2>1. PICK done : BlitSet(done)
    BY <1>2
  <2>2. /\ frame' = frame + 1 /\ frame' \in Frames /\ mpc' = "dequeue"
        /\ \A f \in live' : f \in live \/ f = Acq(frame') \/ f = Done(frame')
    BY <2>1 DEF BlitSet
  <2>3. \A f \in live : Number(f) < frame'
    BY <1>1, <2>2 DEF Fresh
  <2>4. /\ Number(Acq(frame')) = frame' /\ Number(Done(frame')) = frame'
        /\ Kind(Acq(frame')) = "acq" /\ Kind(Done(frame')) = "done"
    BY <2>2, Names
  <2> QED BY <1>1, <2>2, <2>3, <2>4 DEF Fresh
<1>3. CASE BypassSet
  <2>1. frame' = frame + 1 /\ live' \subseteq live
    BY <1>3 DEF BypassSet
  <2>2. \A f \in live' : Number(f) < frame'
    BY <1>1, <2>1 DEF Fresh
  <2> QED BY <1>1, <2>1, <2>2 DEF Fresh
<1>4. CASE \/ \E i \in Slots : Dequeued(i)
           \/ ConfigFailed
           \/ Released
           \/ Acquired
           \/ Triggered
           \/ Idled
  BY <1>4 DEF Dequeued, ConfigFailed, Released, Acquired, Triggered, Idled, Fresh
<1>5. CASE \E made : Configured(made)
  <2>1. /\ frame' = frame /\ frame \in Frames /\ mpc' = "release"
        /\ mpc = "config"
        /\ \A f \in live' : f \in live \/ f = Blit(frame) \/ f = Prev(frame)
    BY <1>5 DEF Configured
  <2>2. /\ Number(Blit(frame)) = frame /\ Number(Prev(frame)) = frame
        /\ Kind(Blit(frame)) = "blit" /\ Kind(Prev(frame)) = "prev"
    BY <2>1, Names
  <2> QED BY <1>1, <2>1, <2>2 DEF Fresh
<1>6. CASE \E made : PreparedStep(made)
  <2>1. /\ frame' = frame /\ frame \in Frames /\ mpc' = "trigger"
        /\ mpc = "prepare"
        /\ \A f \in live' : f \in live \/ f = Rel(frame)
    BY <1>6 DEF PreparedStep
  <2>2. Number(Rel(frame)) = frame /\ Kind(Rel(frame)) = "rel"
    BY <2>1, Names
  <2> QED BY <1>1, <2>1, <2>2 DEF Fresh
<1>7. CASE \E job : Processed(job) \/ Cancelled(job)
  <2>1. live' \subseteq live /\ frame' = frame /\ mpc' = mpc
    BY <1>7 DEF Processed, Cancelled, Taken
  <2> QED BY <2>1 DEF Fresh
<1> QED BY <1>2, <1>3, <1>4, <1>5, <1>6, <1>7, StepCases, Zenon

\* What an HWLayer was left with is closed, as long as no job is dropped.
Stale ==
    ~dropping =>
        /\ \A k \in 1 .. Len(pool) : pool[k].port \notin live
        /\ \A k \in 1 .. Len(jobs) : jobs[k].fail => jobs[k].port \notin live
        /\ cur # NoJob /\ (mpc # "trigger" \/ cur.fail) => cur.port \notin live

\* A fence left in an HWLayer is closed, unless jobs are dropped: the engine has
\* it since process().
LEMMA StaleKept ==
  ASSUME Types, Stages, PortsBefore, Stale, [Next]_vars
  PROVE  Stale'
<1>1. /\ cur # NoJob => cur \in HWLayer /\ cur.seq = frame
      /\ (cur = NoJob <=> mpc = "idle")
      /\ frame \in Nat
      /\ \A f \in Fds : Number(f) \in Nat
      /\ NoJob \notin HWLayer /\ NoFence \notin live
      /\ live \subseteq Fds /\ NoFence \notin Fds
  BY FenceTypes, Names, Bounds, NoJobAssumption
     DEF Stages, Frames, Types, MainTypes
<1> SUFFICES ASSUME ~dropping'
             PROVE  /\ \A k \in 1 .. Len(pool') : pool'[k].port \notin live'
                    /\ \A k \in 1 .. Len(jobs') :
                          jobs'[k].fail => jobs'[k].port \notin live'
                    /\ cur' # NoJob /\ (mpc' # "trigger" \/ cur'.fail) =>
                          cur'.port \notin live'
  BY DEF Stale
<1>2. CASE \/ \E done : BlitSet(done)
           \/ BypassSet
  <2>1. /\ pool # <<>> /\ pool' = Tail(pool) /\ cur = NoJob /\ cur' # NoJob
        /\ frame' = frame + 1 /\ jobs' = jobs /\ mpc' # "trigger"
        /\ cur'.port = Head(pool).port /\ dropping' = dropping
    BY <1>1, <1>2 DEF BlitSet, BypassSet
  <2>2. /\ cur'.port = pool[1].port /\ 1 \in 1 .. Len(pool)
        /\ \A k \in 1 .. Len(pool') : /\ pool'[k] = pool[k + 1]
                                      /\ k + 1 \in 1 .. Len(pool)
    BY <2>1, PooledJobs DEF Types
  <2>3. \A f : Before(f) /\ f \notin live => f \notin live'
    <3>1. CASE \E done : BlitSet(done)
      <4>1. /\ frame' \in Frames
            /\ \A f \in live' : f \in live \/ f = Acq(frame') \/ f = Done(frame')
        BY <3>1 DEF BlitSet
      <4> QED BY <4>1, Names DEF Before
    <3>2. CASE BypassSet
      BY <3>2 DEF BypassSet
    <3> QED BY <1>2, <3>1, <3>2
  <2> QED BY <2>1, <2>2, <2>3 DEF PortsBefore, Stale
<1>3. CASE \/ \E i \in Slots : Dequeued(i)
           \/ ConfigFailed
  <2>1. /\ jobs' = jobs /\ pool' = pool /\ live' = live
        /\ cur # NoJob /\ cur' # NoJob /\ cur'.port = cur.port
        /\ mpc # "trigger" /\ dropping' = dropping
    BY <1>1, <1>3 DEF Dequeued, ConfigFailed
  <2> QED BY <2>1 DEF Stale
<1>4. CASE \E made : Configured(made)
  <2>1. /\ jobs' = jobs /\ pool' = pool /\ mpc # "trigger"
        /\ cur # NoJob /\ cur' # NoJob /\ cur'.port = cur.port
        /\ dropping' = dropping /\ frame \in Frames
        /\ \A f \in live' : f \in live \/ f = Blit(frame) \/ f = Prev(frame)
    BY <1>1, <1>4 DEF Configured
  <2>2. \A f : Before(f) /\ f \notin live => f \notin live'
    BY <1>1, <2>1, Names DEF Before
  <2> QED BY <2>1, <2>2 DEF Stale, PortsBefore
<1>5. CASE \E made : PreparedStep(made)
  <2>1. /\ jobs' = jobs /\ pool' = pool /\ frame \in Frames
        /\ cur # NoJob /\ cur' # NoJob /\ mpc' = "trigger" /\ ~cur'.fail
        /\ dropping' = dropping
        /\ \A f \in live' : f \in live \/ f = Rel(frame)
    BY <1>1, <1>5 DEF PreparedStep, Stages
  <2>2. \A f : Before(f) /\ f \notin live => f \notin live'
    BY <1>1, <2>1, Names DEF Before
  <2> QED BY <2>1, <2>2 DEF PortsBefore, Stale
<1>6. CASE Released \/ Acquired \/ Idled
  BY <1>6 DEF Released, Acquired, Idled, Stale
<1>7. CASE Triggered
  <2>1. /\ pool' = pool /\ cur' = NoJob /\ cur # NoJob /\ mpc = "trigger"
        /\ dropping' = dropping /\ live' = live
    BY <1>1, <1>7 DEF Triggered
  <2>2. /\ Len(jobs) \in Nat /\ Len(jobs') = Len(jobs) + 1
        /\ \A k \in 1 .. Len(jobs) : jobs'[k] = jobs[k]
        /\ jobs'[Len(jobs) + 1] = cur
    BY <1>7, TriggeredJobs DEF Types
  <2>3. \A k \in 1 .. Len(jobs') : k \in 1 .. Len(jobs) \/ k = Len(jobs) + 1
    BY <2>2
  <2> QED BY <2>1, <2>2, <2>3 DEF Stale
<1>8. CASE \E job : Processed(job)
  <2>1. PICK job : Processed(job)
    BY <1>8
  <2>2. /\ UNCHANGED <<mpc, cur, frame, dropping>>
        /\ live' \subseteq live /\ job.port \notin live' /\ Taken(job)
    BY <2>1 DEF Taken, Processed
  <2>3. /\ \A k \in 1 .. Len(jobs') : /\ jobs'[k] = jobs[k + 1]
                                      /\ k + 1 \in 1 .. Len(jobs)
        /\ \A k \in 1 .. Len(pool') :
              \/ k \in 1 .. Len(pool) /\ pool'[k].port = pool[k].port
              \/ pool'[k].port = job.port
    BY <2>2, TakenJobs DEF Types
  <2> QED BY <2>2, <2>3 DEF Stale
<1>9. CASE \E job : Cancelled(job)
  BY <1>9 DEF Cancelled, Taken
<1> QED BY <1>2, <1>3, <1>4, <1>5, <1>6, <1>7, <1>8, <1>9, StepCases, Zenon

\* Who holds a fence tells its kind and, but for the overlay's uses, its frame.
HolderNames ==
    /\ \A i \in Slots :
          /\ slots[i].acquire_fence # NoFence =>
                /\ mpc \in {"release", "acquire"} /\ i = cur.slot
                /\ Kind(slots[i].acquire_fence) = "blit"
                /\ Number(slots[i].acquire_fence) = frame
          /\ cbuf[i] # NoFence => /\ mpc = "prepare" /\ i = m_last_acquired
                                  /\ Kind(cbuf[i]) = "blit"
                                  /\ Number(cbuf[i]) = frame
          /\ slots[i].release_fence # NoFence =>
                Kind(slots[i].release_fence) = "rel"
          /\ pbuf[i] # NoFence => /\ mpc = "config" /\ i = cur.slot
                                  /\ Kind(pbuf[i]) = "rel"
    /\ \A n \in Frames :
          /\ Src(n) # NoFence => Kind(Src(n)) = "acq" /\ Number(Src(n)) = n
          /\ Dst(n) # NoFence => Kind(Dst(n)) = "rel"
    /\ \A k \in 1 .. Len(jobs) :
          /\ jobs[k].done = NoFence
          /\ jobs[k].acq # NoFence =>
                /\ jobs[k].fail
                /\ Kind(jobs[k].acq) = "acq" /\ Number(jobs[k].acq) = jobs[k].seq
          /\ ~jobs[k].fail /\ jobs[k].port # NoFence =>
                /\ Kind(jobs[k].port) = "blit"
                /\ Number(jobs[k].port) = jobs[k].seq
    /\ cur # NoJob =>
          /\ cur.acq # NoFence =>
                /\ mpc \in {"dequeue", "config"} \/ (mpc = "trigger" /\ cur.fail)
                /\ Kind(cur.acq) = "acq" /\ Number(cur.acq) = frame
          /\ cur.done # NoFence =>
                /\ mpc \in {"dequeue", "config"}
                /\ Kind(cur.done) = "done" /\ Number(cur.done) = frame
          /\ mpc = "trigger" /\ ~cur.fail /\ cur.port # NoFence =>
                Kind(cur.port) = "blit" /\ Number(cur.port) = frame
    /\ m_rel_fence # NoFence => Kind(m_rel_fence) = "rel"
    /\ m_prev # NoFence => Kind(m_prev) = "prev"

\* The names follow from where the fences are.
LEMMA HoldersNamed ==
  ASSUME Types, Stages, SlotStages, JobNames, RelNames
  PROVE  HolderNames
<1>1. /\ cur # NoJob => /\ cur \in HWLayer /\ cur.seq = frame
                        /\ frame \in Frames
      /\ cur = NoJob <=> mpc = "idle"
  BY FenceTypes DEF Stages
<1>2. ASSUME NEW i \in Slots
      PROVE  /\ slots[i].acquire_fence # NoFence =>
                   /\ mpc \in {"release", "acquire"} /\ i = cur.slot
                   /\ Kind(slots[i].acquire_fence) = "blit"
                   /\ Number(slots[i].acquire_fence) = frame
             /\ cbuf[i] # NoFence => /\ mpc = "prepare" /\ i = m_last_acquired
                                     /\ Kind(cbuf[i]) = "blit"
                                     /\ Number(cbuf[i]) = frame
  <2>1. slots[i].acquire_fence # NoFence =>
           /\ mpc \in {"release", "acquire"} /\ i = cur.slot
           /\ slots[i].acquire_fence = Blit(frame)
    BY DEF SlotStages
  <2>2. cbuf[i] # NoFence => /\ mpc = "prepare" /\ i = m_last_acquired
                             /\ cbuf[i] = Blit(frame)
    BY DEF SlotStages
  <2> QED BY <1>1, <2>1, <2>2, Names
<1>3. ASSUME NEW i \in Slots
      PROVE  /\ slots[i].release_fence # NoFence =>
                   Kind(slots[i].release_fence) = "rel"
             /\ pbuf[i] # NoFence => /\ mpc = "config" /\ i = cur.slot
                                     /\ Kind(pbuf[i]) = "rel"
  BY DEF SlotStages, RelNames, IsRel
<1>4. ASSUME NEW n \in Frames
      PROVE  /\ Src(n) # NoFence => Kind(Src(n)) = "acq" /\ Number(Src(n)) = n
             /\ Dst(n) # NoFence => Kind(Dst(n)) = "rel"
  BY Names DEF JobNames, RelNames, IsRel
<1>5. \A job \in HWLayer :
         HandedOver(job) =>
           /\ job.done = NoFence
           /\ job.acq # NoFence => /\ job.fail
                                   /\ Kind(job.acq) = "acq"
                                   /\ Number(job.acq) = job.seq
           /\ ~job.fail /\ job.port # NoFence =>
                 Kind(job.port) = "blit" /\ Number(job.port) = job.seq
  BY Names, FenceTypes DEF HandedOver
<1>6. \A k \in 1 .. Len(jobs) : HandedOver(jobs[k]) /\ jobs[k] \in HWLayer
  BY JobNumbers DEF JobNames
<1>7. ASSUME cur # NoJob
      PROVE  /\ cur.acq # NoFence =>
                   /\ mpc \in {"dequeue", "config"} \/ (mpc = "trigger" /\ cur.fail)
                   /\ Kind(cur.acq) = "acq" /\ Number(cur.acq) = frame
             /\ cur.done # NoFence =>
                   /\ mpc \in {"dequeue", "config"}
                   /\ Kind(cur.done) = "done" /\ Number(cur.done) = frame
             /\ mpc = "trigger" /\ ~cur.fail /\ cur.port # NoFence =>
                   Kind(cur.port) = "blit" /\ Number(cur.port) = frame
  <2>1. CASE mpc \in {"dequeue", "config"}
    BY <1>1, <1>7, <2>1, Names DEF JobNames
  <2>2. CASE mpc \in {"release", "acquire", "prepare"}
    BY <2>2 DEF JobNames
  <2>3. CASE mpc = "trigger"
    BY <1>1, <1>5, <1>7, <2>3 DEF JobNames
  <2> QED BY <1>1, <1>7, <2>1, <2>2, <2>3 DEF Types, MainTypes
<1>8. /\ m_rel_fence # NoFence => Kind(m_rel_fence) = "rel"
      /\ m_prev # NoFence => Kind(m_prev) = "prev"
  BY DEF RelNames, IsRel
<1> QED BY <1>2, <1>3, <1>4, <1>5, <1>6, <1>7, <1>8 DEF HolderNames

\* A fence that has an owner is open.
Open(f) == f # NoFence => f \in live
HeldOpen ==
    /\ \A i \in Slots :
          /\ Open(slots[i].acquire_fence) /\ Open(slots[i].release_fence)
          /\ Open(pbuf[i]) /\ Open(cbuf[i])
    /\ \A n \in Frames : Open(Src(n)) /\ Open(Dst(n))
    /\ \A k \in 1 .. Len(jobs) :
          /\ Open(jobs[k].acq)
          /\ ~jobs[k].fail => Open(jobs[k].port)
    /\ cur # NoJob =>
          /\ Open(cur.acq) /\ Open(cur.done)
          /\ mpc = "trigger" /\ ~cur.fail => Open(cur.port)
    /\ Open(m_rel_fence) /\ Open(m_prev)

\* A fence of the overlay's use is in one place.
Same(f, g) == f = g /\ f # NoFence
RelOnce ==
    /\ \A i, j \in Slots :
          /\ Same(slots[i].release_fence, slots[j].release_fence) => i = j
          /\ ~Same(slots[i].release_fence, pbuf[j])
    /\ \A m, n \in Frames : Same(Dst(m), Dst(n)) => m = n
    /\ \A i \in Slots, n \in Frames :
          ~Same(slots[i].release_fence, Dst(n)) /\ ~Same(pbuf[i], Dst(n))
    /\ \A i \in Slots : /\ ~Same(m_rel_fence, slots[i].release_fence)
                        /\ ~Same(m_rel_fence, pbuf[i])
    /\ \A n \in Frames : ~Same(m_rel_fence, Dst(n))

\* The fence of a use goes from place to place and leaves none behind.
LEMMA RelOnceKept ==
  ASSUME Types, Stages, SlotStages, Fresh, HeldOpen, RelOnce, [Next]_vars
  PROVE  RelOnce'
<1>1. m_last_acquired \in Slots \cup {NoSlot} /\ NoSlot \notin Slots
  BY FenceTypes, NoSlotNone
<1>2. CASE \E done : BlitSet(done)
  BY <1>2 DEF BlitSet, RelOnce, Same
<1>3. CASE BypassSet
  BY <1>3 DEF BypassSet, RelOnce, Same
<1>4. CASE \E i \in Slots : Dequeued(i)
  <2>1. PICK s \in Slots : Dequeued(s)
    BY <1>4
  <2>2. /\ \A j \in Slots :
             /\ slots'[j].release_fence =
                   IF j = s THEN NoFence ELSE slots[j].release_fence
             /\ pbuf'[j] = IF j = s THEN slots[s].release_fence ELSE NoFence
        /\ \A n \in Frames : Dst(n)' = Dst(n)
        /\ m_rel_fence' = m_rel_fence
    BY <2>1 DEF Dequeued, SlotStages
  <2> QED BY <2>2 DEF RelOnce, Same
<1>5. CASE ConfigFailed
  BY <1>5 DEF ConfigFailed, RelOnce, Same
<1>6. CASE \E made : Configured(made)
  <2>1. /\ cur.slot \in Slots
        /\ \A j \in Slots :
             /\ slots'[j].release_fence = slots[j].release_fence
             /\ pbuf'[j] = IF j = cur.slot THEN NoFence ELSE pbuf[j]
        /\ \A n \in Frames :
             Dst(n)' = Dst(n) \/ (n = frame /\ Dst(n)' = pbuf[cur.slot])
        /\ m_rel_fence' = m_rel_fence
    BY <1>6 DEF Configured
  <2>2. \A m, n \in Frames : Same(Dst(m)', Dst(n)') => m = n
    BY <2>1 DEF RelOnce, Same
  <2>3. \A i \in Slots, n \in Frames :
           /\ ~Same(slots'[i].release_fence, Dst(n)')
           /\ ~Same(pbuf'[i], Dst(n)')
    <3>1. ASSUME NEW i \in Slots, NEW n \in Frames
          PROVE  ~Same(slots'[i].release_fence, Dst(n)')
      BY <2>1 DEF RelOnce, Same
    <3>2. ASSUME NEW i \in Slots, NEW n \in Frames
          PROVE  ~Same(pbuf'[i], Dst(n)')
      BY <2>1 DEF RelOnce, Same, SlotStages
    <3> QED BY <3>1, <3>2
  <2>4. /\ \A n \in Frames : ~Same(m_rel_fence', Dst(n)')
        /\ \A i, j \in Slots :
              /\ Same(slots'[i].release_fence, slots'[j].release_fence) => i = j
              /\ ~Same(slots'[i].release_fence, pbuf'[j])
        /\ \A i \in Slots : /\ ~Same(m_rel_fence', slots'[i].release_fence)
                            /\ ~Same(m_rel_fence', pbuf'[i])
    BY <2>1 DEF RelOnce, Same
  <2> QED BY <2>2, <2>3, <2>4 DEF RelOnce, Same
<1>7. CASE Released
  <2>1. CASE m_last_acquired = NoSlot
    BY <1>1, <1>7, <2>1 DEF Released, RelOnce, Same
  <2>2. CASE m_last_acquired # NoSlot
    BY <1>1, <1>7, <2>2 DEF Released, RelOnce, Same
  <2> QED BY <2>1, <2>2
<1>8. CASE Acquired
  BY <1>8 DEF Acquired, RelOnce, Same
<1>9. CASE \E made : PreparedStep(made)
  <2>1. /\ frame \in Frames /\ mpc = "prepare"
        /\ m_rel_fence' \in {NoFence, Rel(frame)}
        /\ UNCHANGED <<slots, pbuf>>
        /\ \A n \in Frames : Dst(n)' = Dst(n)
    BY <1>9 DEF PreparedStep
  <2>2. Rel(frame) \notin live
    BY <2>1, Names DEF Fresh
  <2>3. /\ \A i \in Slots : /\ ~Same(m_rel_fence', slots[i].release_fence)
                            /\ ~Same(m_rel_fence', pbuf[i])
        /\ \A n \in Frames : ~Same(m_rel_fence', Dst(n))
    BY <2>1, <2>2 DEF HeldOpen, Open, Same
  <2> QED BY <2>1, <2>3 DEF RelOnce, Same
<1>10. CASE Triggered \/ Idled
  BY <1>10 DEF Triggered, Idled, RelOnce, Same
<1>11. CASE \E job : Processed(job) \/ Cancelled(job)
  <2>1. /\ UNCHANGED <<slots, pbuf, m_rel_fence>>
        /\ \A n \in Frames : Dst(n)' \in {NoFence, Dst(n)}
    BY <1>11 DEF Processed, Cancelled, Taken
  <2> QED BY <2>1 DEF RelOnce, Same
<1> QED BY <1>2, <1>3, <1>4, <1>5, <1>6, <1>7, <1>8, <1>9, <1>10, <1>11,
           StepCases, Zenon

\* Whoever has a fence keeps it open, and closes only what he has.
LEMMA HeldOpenKept ==
  ASSUME Types, Stages, SlotStages, JobsInOrder, JobNames, HolderNames, Stale,
         RelOnce, HeldOpen, [Next]_vars
  PROVE  HeldOpen'
<1> USE DEF Open
<1>1. /\ cur # NoJob => cur \in HWLayer /\ cur.seq = frame
      /\ (cur = NoJob <=> mpc = "idle")
      /\ m_last_acquired \in Slots \cup {NoSlot} /\ NoSlot \notin Slots
      /\ NoJob \notin HWLayer
  BY FenceTypes, NoSlotNone, NoJobAssumption DEF Stages
<1>2. CASE \E done : BlitSet(done)
  <2>1. /\ live \subseteq live' /\ cur = NoJob /\ mpc' = "dequeue"
        /\ cur'.acq \in live'
        /\ cur'.done = NoFence \/ cur'.done \in live'
        /\ UNCHANGED <<slots, pbuf, cbuf, jobs, m_rel_fence, m_prev>>
        /\ \A n \in Frames : /\ Src(n)' \in {NoFence, Src(n)}
                             /\ Dst(n)' \in {NoFence, Dst(n)}
    <3>1. PICK done : BlitSet(done)
      BY <1>2
    <3>2. Acq(frame') # NoFence
      BY <3>1, NamesDiffer DEF BlitSet
    <3> QED BY <1>1, <3>1, <3>2 DEF BlitSet
  <2> QED BY <2>1 DEF HeldOpen
<1>3. CASE BypassSet
  <2>1. /\ \A f \in live : f \in live' \/ (f = m_rel_fence /\ m_rel_fence # NoFence)
        /\ mpc' = "prepare" /\ m_rel_fence' = NoFence
        /\ cur'.acq = NoFence /\ cur'.done = NoFence
        /\ UNCHANGED <<slots, pbuf, cbuf, jobs, m_prev>>
        /\ \A n \in Frames : Src(n)' = Src(n) /\ Dst(n)' = Dst(n)
    <3>1. NoFence \notin live
      BY Names DEF Types, MainTypes
    <3> QED BY <1>3, <3>1 DEF BypassSet
  <2>2. \A i \in Slots : /\ Open(slots[i].acquire_fence)'
                         /\ Open(slots[i].release_fence)'
                         /\ Open(pbuf[i])' /\ Open(cbuf[i])'
    BY <2>1 DEF HeldOpen, HolderNames, RelOnce, Same
  <2>3. \A n \in Frames : Open(Src(n))' /\ Open(Dst(n))'
    BY <2>1 DEF HeldOpen, HolderNames, RelOnce, Same
  <2>4. \A k \in 1 .. Len(jobs) : /\ Open(jobs[k].acq)'
                                  /\ ~jobs[k].fail => Open(jobs[k].port)'
    BY <2>1 DEF HeldOpen, HolderNames
  <2>5. Open(m_rel_fence)' /\ Open(m_prev)' /\ Open(cur.acq)' /\ Open(cur.done)'
    BY <2>1 DEF HeldOpen, HolderNames
  <2> QED BY <2>1, <2>2, <2>3, <2>4, <2>5 DEF HeldOpen
<1>4. CASE \E i \in Slots : Dequeued(i)
  BY <1>1, <1>4 DEF Dequeued, HeldOpen
<1>5. CASE ConfigFailed
  BY <1>1, <1>5 DEF ConfigFailed, HeldOpen
<1>6. CASE \E made : Configured(made)
  <2>1. PICK made : Configured(made)
    BY <1>6
  <2>2. /\ frame \in Frames /\ mpc = "config" /\ mpc' = "release"
        /\ cur # NoJob /\ cur.slot \in Slots
        /\ cur'.acq = NoFence /\ cur'.done = NoFence
        /\ \A j \in Slots :
              /\ slots'[j].release_fence = slots[j].release_fence
              /\ \/ slots'[j].acquire_fence = slots[j].acquire_fence
                 \/ slots'[j].acquire_fence = NoFence
                 \/ slots'[j].acquire_fence \in live'
              /\ pbuf'[j] \in {NoFence, pbuf[j]}
        /\ m_prev' = NoFence \/ m_prev' \in live'
        /\ \A f \in live : f \in live' \/ f = cur.done \/ f = m_prev
        /\ \A n \in Frames : /\ Src(n)' \in {Src(n), cur.acq}
                             /\ Dst(n)' \in {Dst(n), pbuf[cur.slot]}
        /\ UNCHANGED <<cbuf, jobs, m_rel_fence, frame>>
    <3>1. Prev(frame) # NoFence /\ Blit(frame) # NoFence
      BY <2>1, NamesDiffer DEF Configured
    <3> QED BY <1>1, <2>1, <3>1 DEF Configured
  <2>3. \A f \in live : Kind(f) \notin {"done", "prev"} => f \in live'
    BY <2>2, Names DEF HolderNames, Types, MainTypes
  <2>4. \A i \in Slots : /\ Open(slots[i].acquire_fence)'
                         /\ Open(slots[i].release_fence)'
                         /\ Open(pbuf[i])' /\ Open(cbuf[i])'
    BY <2>2, <2>3 DEF HeldOpen, HolderNames
  <2>5. \A n \in Frames : Open(Src(n))' /\ Open(Dst(n))'
    BY <2>2, <2>3 DEF HeldOpen, HolderNames
  <2>6. \A k \in 1 .. Len(jobs) : /\ Open(jobs[k].acq)'
                                  /\ ~jobs[k].fail => Open(jobs[k].port)'
    BY <2>2, <2>3 DEF HeldOpen, HolderNames
  <2>7. Open(m_rel_fence)' /\ Open(m_prev)' /\ Open(cur.acq)' /\ Open(cur.done)'
    BY <2>2, <2>3 DEF HeldOpen, HolderNames
  <2> QED BY <2>2, <2>4, <2>5, <2>6, <2>7 DEF HeldOpen
<1>7. CASE Released
  BY <1>1, <1>7 DEF Released, HeldOpen
<1>8. CASE Acquired
  BY <1>1, <1>8 DEF Acquired, HeldOpen
<1>9. CASE \E made : PreparedStep(made)
  <2>1. /\ live \subseteq live'
        /\ m_rel_fence' = NoFence \/ m_rel_fence' \in live'
        /\ cur # NoJob /\ cur'.acq = cur.acq /\ cur'.done = cur.done
        /\ cur'.port = NoFence \/ \E i \in Slots : cur'.port = cbuf[i]
        /\ \A i \in Slots : cbuf'[i] \in {NoFence, cbuf[i]}
        /\ \A n \in Frames : Src(n)' = Src(n) /\ Dst(n)' = Dst(n)
        /\ UNCHANGED <<slots, pbuf, jobs, m_prev>>
    <3>1. PICK made : PreparedStep(made)
      BY <1>9
    <3>2. m_rel_fence' = NoFence \/ m_rel_fence' \in live'
      BY <3>1 DEF PreparedStep
    <3> QED BY <1>1, <3>1, <3>2 DEF PreparedStep
  <2> QED BY <2>1 DEF HeldOpen
<1>10. CASE Triggered
  <2>1. /\ UNCHANGED <<slots, pbuf, cbuf, live, m_rel_fence, m_prev>>
        /\ \A n \in Frames : Src(n)' = Src(n) /\ Dst(n)' = Dst(n)
        /\ cur' = NoJob /\ mpc = "trigger"
    BY <1>10 DEF Triggered
  <2>2. /\ Len(jobs) \in Nat /\ Len(jobs') = Len(jobs) + 1
        /\ \A k \in 1 .. Len(jobs) : jobs'[k] = jobs[k]
        /\ jobs'[Len(jobs) + 1] = cur /\ cur # NoJob
    BY <1>10, TriggeredJobs DEF Types
  <2>3. \A k \in 1 .. Len(jobs') : k \in 1 .. Len(jobs) \/ k = Len(jobs) + 1
    BY <2>2
  <2>4. \A k \in 1 .. Len(jobs') : /\ Open(jobs[k].acq)'
                                   /\ ~jobs'[k].fail => Open(jobs[k].port)'
    BY <2>1, <2>2, <2>3 DEF HeldOpen
  <2> QED BY <2>1, <2>4 DEF HeldOpen
<1>11. CASE \E job : Processed(job) \/ Cancelled(job)
  <2>1. PICK job : Processed(job) \/ Cancelled(job)
    BY <1>11
  <2>2. /\ Taken(job)
        /\ UNCHANGED <<slots, pbuf, cbuf, m_rel_fence, m_prev, mpc, cur, frame>>
        /\ \A n \in Frames :
              /\ Src(n)' = IF job.blit /\ n = job.seq THEN NoFence ELSE Src(n)
              /\ Dst(n)' = IF job.blit /\ n = job.seq THEN NoFence ELSE Dst(n)
    BY <2>1 DEF Processed, Cancelled, Taken
  <2>3. /\ Len(jobs) \in Nat \ {0} /\ Len(jobs') = Len(jobs) - 1
        /\ job = jobs[1] /\ job \in HWLayer /\ 1 \in 1 .. Len(jobs)
        /\ \A k \in 1 .. Len(jobs') : /\ jobs'[k] = jobs[k + 1]
                                      /\ k + 1 \in 1 .. Len(jobs)
    BY <2>2, TakenJobs DEF Types
  <2>4. /\ job.seq \in Frames /\ job.seq \in Nat /\ frame \in Nat
        /\ \A k \in 1 .. Len(jobs') : jobs'[k].seq # job.seq
        /\ cur # NoJob => frame # job.seq
    BY <2>3, FenceTypes, JobNumbers, Bounds DEF JobsInOrder, Frames
  <2>5. \A f \in live : \/ f \in live'
                        \/ ~job.fail /\ f = job.port
                        \/ job.blit /\ f \in {Src(job.seq), Dst(job.seq), job.acq}
    <3>1. \A f \in live : \/ f \in live'
                          \/ f \in BlitFences(job)
                          \/ f = job.port /\ ~dropping
      BY <2>1 DEF Processed, Cancelled
    <3>2. \A f \in live : f = job.port /\ ~dropping => ~job.fail
      BY <2>3 DEF Stale
    <3>3. NoFence \notin live
      BY Names DEF Types, MainTypes
    <3>4. \A f : f \in BlitFences(job) => \/ f = NoFence
                                         \/ /\ job.blit
                                            /\ f \in {Src(job.seq), Dst(job.seq),
                                                     job.acq}
      BY BlitFencesOf
    <3> QED BY <3>1, <3>2, <3>3, <3>4
  <2>6. \A f \in live : Kind(f) \notin {"blit", "acq", "rel"} => f \in live'
    BY <2>3, <2>4, <2>5, Names DEF HolderNames, Types, MainTypes
  <2>7. \A f \in live :
           Kind(f) \in {"blit", "acq"} /\ Number(f) # job.seq => f \in live'
    BY <2>3, <2>4, <2>5, Names DEF HolderNames, Types, MainTypes
  <2>8. \A f \in live : Kind(f) = "rel" /\ f # Dst(job.seq) => f \in live'
    BY <2>3, <2>4, <2>5, Names DEF HolderNames, Types, MainTypes
  <2>9. \A f \in live : Kind(f) = "rel" /\ ~job.blit => f \in live'
    BY <2>3, <2>4, <2>5, Names DEF HolderNames, Types, MainTypes
  <2>10. \A i \in Slots : /\ Open(slots[i].acquire_fence)'
                          /\ Open(pbuf[i])' /\ Open(cbuf[i])'
                          /\ Open(slots[i].release_fence)'
    BY <1>1, <2>2, <2>4, <2>7, <2>8 DEF HeldOpen, HolderNames, RelOnce, Same
  <2>11. \A n \in Frames : Open(Src(n))' /\ Open(Dst(n))'
    <3>1. ASSUME NEW n \in Frames PROVE Open(Src(n))'
      <4>1. CASE n = job.seq
        BY <2>2, <2>3, <2>4, <2>5, <4>1 DEF HeldOpen, HolderNames
      <4>2. CASE n # job.seq
        BY <2>2, <2>7, <4>2 DEF HeldOpen, HolderNames
      <4> QED BY <4>1, <4>2
    <3>2. ASSUME NEW n \in Frames PROVE Open(Dst(n))'
      BY <2>2, <2>4, <2>8, <2>9 DEF HeldOpen, HolderNames, RelOnce, Same
    <3> QED BY <3>1, <3>2
  <2>12. \A k \in 1 .. Len(jobs') : /\ Open(jobs[k].acq)'
                                    /\ ~jobs'[k].fail => Open(jobs[k].port)'
    BY <2>3, <2>4, <2>7 DEF HeldOpen, HolderNames
  <2>13. cur # NoJob =>
           /\ Open(cur.acq)' /\ Open(cur.done)'
           /\ mpc = "trigger" /\ ~cur.fail => Open(cur.port)'
    BY <2>2, <2>4, <2>6, <2>7 DEF HeldOpen, HolderNames
  <2>14. Open(m_rel_fence)' /\ Open(m_prev)'
    BY <2>2, <2>4, <2>6, <2>8 DEF HeldOpen, HolderNames, RelOnce, Same
  <2> QED BY <2>2, <2>10, <2>11, <2>12, <2>13, <2>14 DEF HeldOpen
<1>12. CASE Idled
  BY <1>12 DEF Idled, HeldOpen
<1> QED BY <1>2, <1>3, <1>4, <1>5, <1>6, <1>7, <1>8, <1>9, <1>10, <1>11,
           <1>12, StepCases, Zenon

-----------------------------------------------------------------------------
(* Fences that nobody owns any more.                                       *)

\* Fences of a layer's buffer and of the last blit are never left open.
AcqOwner(f) ==
    \/ \E n \in Frames : Src(n) = f
    \/ cur # NoJob /\ cur.acq = f
    \/ \E k \in 1 .. Len(jobs) : jobs[k].acq = f
AcqOwned == \A f \in live : Kind(f) = "acq" => AcqOwner(f)
PrevOwned == \A f \in live : Kind(f) = "prev" => f = m_prev

\* The fence of a blit is left open with the job of its frame that is dropped.
BlitOwner(f) ==
    \/ \E i \in Slots : slots[i].acquire_fence = f \/ cbuf[i] = f
    \/ cur # NoJob /\ mpc = "trigger" /\ ~cur.fail /\ cur.port = f
    \/ \E k \in 1 .. Len(jobs) : ~jobs[k].fail /\ jobs[k].port = f
BlitOwned ==
    /\ \A f \in live : Kind(f) = "blit" => Number(f) \in cancelled \/ BlitOwner(f)
    /\ ~dropping => cancelled = {}

\* No MDP job is there before its frame.
LEMMA LaterParams ==
  ASSUME Types, JobsInOrder, ParamsOwned, NEW n \in Frames, n > frame
  PROVE  Src(n) = NoFence /\ Dst(n) = NoFence
<1>1. \A k \in 1 .. Len(jobs) : jobs[k].seq # n
  BY JobNumbers, Bounds DEF JobsInOrder, Frames
<1>2. frame # n
  BY JobNumbers, Bounds DEF Frames
<1>3. n \notin DOMAIN m_job_params
  BY <1>1, <1>2 DEF ParamsOwned
<1> QED BY <1>3 DEF Src, Dst

\* What is open has a name.
LEMMA OpenNames ==
  ASSUME Types
  PROVE  /\ NoFence \notin live /\ live \subseteq Fds
         /\ frame \in Nat /\ \A n \in Frames : n \in Nat
         /\ m_last_acquired \in Slots \cup {NoSlot} /\ NoSlot \notin Slots
         /\ NoJob \notin HWLayer
BY Names, FenceTypes, Bounds, NoJobAssumption, NoSlotNone
   DEF Types, MainTypes, Frames

\* The acquire fence of a layer goes from its frame to MDP.
LEMMA AcqOwnedKept ==
  ASSUME Types, Stages, JobsInOrder, ParamsOwned, JobNames, AcqOwned,
         [Next]_vars
  PROVE  AcqOwned'
<1>1. /\ cur # NoJob => cur \in HWLayer /\ cur.seq = frame
      /\ (cur = NoJob <=> mpc = "idle")
  BY FenceTypes DEF Stages
<1> SUFFICES ASSUME NEW f \in live', Kind(f) = "acq"
             PROVE  AcqOwner(f)'
  BY DEF AcqOwned, Kind
<1>2. CASE \E done : BlitSet(done)
  <2>1. PICK done : BlitSet(done)
    BY <1>2
  <2>2. /\ cur = NoJob /\ cur' # NoJob /\ jobs' = jobs /\ frame' \in Frames
        /\ f \in live \/ f = cur'.acq \/ f = Done(frame')
        /\ \A n \in Frames : Src(n)' = IF n = frame' THEN NoFence ELSE Src(n)
        /\ frame' > frame
    BY <1>1, <2>1, OpenNames DEF BlitSet
  <2>3. Kind(Done(frame')) # "acq"
    BY <2>2, Names
  <2>4. PICK next \in Frames : next = frame'
    BY <2>2
  <2>5. Src(next) = NoFence
    BY <2>2, <2>4, LaterParams
  <2>6. f \in live => f # NoFence
    BY OpenNames
  <2> QED BY <2>2, <2>3, <2>4, <2>5, <2>6 DEF AcqOwned, AcqOwner
<1>3. CASE BypassSet
  <2>1. /\ cur = NoJob /\ jobs' = jobs /\ f \in live
        /\ \A n \in Frames : Src(n)' = Src(n)
    BY <1>1, <1>3 DEF BypassSet
  <2> QED BY <2>1 DEF AcqOwned, AcqOwner
<1>4. CASE (\E i \in Slots : Dequeued(i)) \/ \E made : PreparedStep(made)
  <2>1. /\ jobs' = jobs /\ cur # NoJob /\ cur' # NoJob /\ cur'.acq = cur.acq
        /\ \A n \in Frames : Src(n)' = Src(n)
        /\ f \in live \/ f = NoFence \/ f = Rel(frame)
        /\ frame \in Frames
    BY <1>1, <1>4, OpenNames, FenceTypes DEF Dequeued, PreparedStep
  <2>2. Kind(Rel(frame)) # "acq"
    BY <2>1, Names
  <2>3. f # NoFence
    <3>1. f \in live \/ f \in live' \ live
      OBVIOUS
    <3>2. CASE \E i \in Slots : Dequeued(i)
      BY <3>2, OpenNames DEF Dequeued
    <3>3. CASE \E made : PreparedStep(made)
      BY <3>3, OpenNames DEF PreparedStep
    <3> QED BY <1>4, <3>2, <3>3
  <2> QED BY <2>1, <2>2, <2>3 DEF AcqOwned, AcqOwner
<1>5. CASE ConfigFailed
  <2>1. /\ jobs' = jobs /\ cur # NoJob /\ cur' # NoJob /\ cur'.acq = cur.acq
        /\ \A n \in Frames : Src(n)' = IF n = cur.seq THEN NoFence ELSE Src(n)
        /\ f \in live /\ mpc = "config"
    BY <1>1, <1>5, OpenNames DEF ConfigFailed
  <2>2. Src(frame) = NoFence /\ cur.seq = frame
    BY <1>1, <2>1 DEF JobNames
  <2> QED BY <2>1, <2>2, OpenNames DEF AcqOwned, AcqOwner
<1>6. CASE \E made : Configured(made)
  <2>1. /\ mpc = "config" /\ cur # NoJob /\ frame \in Frames /\ jobs' = jobs
        /\ \A n \in Frames :
              Src(n)' = IF n = frame /\ n \in DOMAIN m_job_params
                          THEN cur.acq ELSE Src(n)
        /\ f \in live \/ f = Blit(frame) \/ f = Prev(frame)
    BY <1>1, <1>6, OpenNames DEF Configured
  <2>2. Src(frame) = NoFence /\ frame \in DOMAIN m_job_params
    BY <2>1 DEF JobNames, ParamsOwned, Blits, Stages
  <2>3. Kind(Blit(frame)) # "acq" /\ Kind(Prev(frame)) # "acq"
    BY <2>1, Names
  <2> QED BY <2>1, <2>2, <2>3, OpenNames DEF AcqOwned, AcqOwner
<1>7. CASE Released \/ Acquired \/ Idled
  BY <1>7 DEF Released, Acquired, Idled, AcqOwned, AcqOwner
<1>8. CASE Triggered
  <2>1. f \in live /\ \A n \in Frames : Src(n)' = Src(n)
    BY <1>8 DEF Triggered
  <2>2. /\ Len(jobs) \in Nat /\ Len(jobs') = Len(jobs) + 1
        /\ \A k \in 1 .. Len(jobs) : jobs'[k] = jobs[k]
        /\ jobs'[Len(jobs) + 1] = cur
    BY <1>8, TriggeredJobs DEF Types
  <2>3. \A k \in 1 .. Len(jobs) : k \in 1 .. Len(jobs')
    BY <2>2
  <2>4. Len(jobs) + 1 \in 1 .. Len(jobs')
    BY <2>2
  <2> QED BY <2>1, <2>2, <2>3, <2>4 DEF AcqOwned, AcqOwner
<1>9. CASE \E job : Processed(job) \/ Cancelled(job)
  <2>1. PICK job : Taken(job) /\ f \in live /\ f \notin BlitFences(job)
    BY <1>9 DEF Processed, Cancelled
  <2>2. /\ cur' = cur
        /\ \A n \in Frames :
              Src(n)' = IF job.blit /\ n = job.seq THEN NoFence ELSE Src(n)
    BY <2>1 DEF Taken
  <2>3. /\ job = jobs[1] /\ 1 \in 1 .. Len(jobs) /\ job \in HWLayer
        /\ \A k \in 1 .. Len(jobs) : k = 1 \/ /\ k - 1 \in 1 .. Len(jobs')
                                              /\ jobs'[k - 1] = jobs[k]
    BY <2>1, TakenJobs DEF Types
  <2>5. f # NoFence
    BY <2>1, OpenNames
  <2>4. job.blit => f # Src(job.seq) /\ f # job.acq
    <3>1. ~(job.blit /\ f \in {Src(job.seq), Dst(job.seq), job.acq})
      BY <2>1, <2>5, BlitFencesOf
    <3> QED BY <3>1
  <2>6. ~job.blit => f # job.acq
    BY <2>3, <2>5 DEF JobNames, HandedOver
  <2> QED BY <2>1, <2>2, <2>3, <2>4, <2>5, <2>6 DEF AcqOwned, AcqOwner
<1> QED BY <1>2, <1>3, <1>4, <1>5, <1>6, <1>7, <1>8, <1>9, StepCases, Zenon

\* The fence kept for frames that show the layer again is the latest.
LEMMA PrevOwnedKept ==
  ASSUME Types, Stages, PrevOwned, [Next]_vars
  PROVE  PrevOwned'
<1>1. /\ cur # NoJob => cur \in HWLayer /\ cur.seq = frame
      /\ (cur = NoJob <=> mpc = "idle")
  BY FenceTypes DEF Stages
<1> SUFFICES ASSUME NEW f \in live', Kind(f) = "prev"
             PROVE  f = m_prev'
  BY DEF PrevOwned, Kind
<1>2. CASE \E done : BlitSet(done)
  <2>1. /\ f \in live \/ f = Acq(frame') \/ f = Done(frame')
        /\ frame' \in Frames /\ m_prev' = m_prev
    BY <1>2 DEF BlitSet
  <2> QED BY <2>1, Names DEF PrevOwned
<1>3. CASE \E made : Configured(made)
  <2>1. /\ f = m_prev' \/ f = Blit(frame) \/ (f \in live /\ f # m_prev)
        /\ frame \in Frames
    BY <1>3 DEF Configured
  <2> QED BY <2>1, Names DEF PrevOwned
<1>4. CASE \E made : PreparedStep(made)
  <2>1. /\ f \in live \/ f = Rel(frame)
        /\ frame \in Frames /\ m_prev' = m_prev
    BY <1>4 DEF PreparedStep
  <2> QED BY <2>1, Names DEF PrevOwned
<1>5. CASE \/ BypassSet
           \/ \E i \in Slots : Dequeued(i)
           \/ ConfigFailed
           \/ Released
           \/ Acquired
           \/ Triggered
           \/ \E job : Processed(job)
           \/ \E job : Cancelled(job)
           \/ Idled
  <2>1. f \in live /\ m_prev' = m_prev
    BY <1>5 DEF BypassSet, Dequeued, ConfigFailed, Released, Acquired,
       Triggered, Processed, Cancelled, Taken, Idled
  <2> QED BY <2>1 DEF PrevOwned
<1> QED BY <1>2, <1>3, <1>4, <1>5, StepCases, Zenon

\* The fence of a blit goes with its buffer, then with its job.
LEMMA BlitOwnedKept ==
  ASSUME Types, Stages, SlotStages, HolderNames, BlitOwned, [Next]_vars
  PROVE  BlitOwned'
<1>1. /\ cur # NoJob => cur \in HWLayer /\ cur.seq = frame
      /\ (cur = NoJob <=> mpc = "idle")
  BY FenceTypes DEF Stages
<1>2. cancelled \subseteq cancelled' /\ (~dropping' => cancelled' = {})
  <2>1. CASE \E job : Cancelled(job)
    BY <2>1 DEF Cancelled, Taken
  <2>2. CASE \/ \E done : BlitSet(done)
             \/ BypassSet
             \/ \E i \in Slots : Dequeued(i)
             \/ ConfigFailed
             \/ \E made : Configured(made)
             \/ Released
             \/ Acquired
             \/ \E made : PreparedStep(made)
             \/ Triggered
             \/ \E job : Processed(job)
             \/ Idled
    <3>1. cancelled' = cancelled /\ (dropping => dropping')
      <4>1. CASE \E done : BlitSet(done)
        BY <4>1 DEF BlitSet
      <4>2. CASE BypassSet
        BY <4>2 DEF BypassSet
      <4>3. CASE \E i \in Slots : Dequeued(i)
        BY <4>3 DEF Dequeued
      <4>4. CASE ConfigFailed
        BY <4>4 DEF ConfigFailed
      <4>5. CASE \E made : Configured(made)
        BY <4>5 DEF Configured
      <4>6. CASE Released
        BY <4>6 DEF Released
      <4>7. CASE Acquired
        BY <4>7 DEF Acquired
      <4>8. CASE \E made : PreparedStep(made)
        BY <4>8 DEF PreparedStep
      <4>9. CASE Triggered
        BY <4>9 DEF Triggered
      <4>10. CASE \E job : Processed(job)
        BY <4>10 DEF Processed, Taken
      <4>11. CASE Idled
        BY <4>11 DEF Idled
      <4> QED BY <2>2, <4>1, <4>2, <4>3, <4>4, <4>5, <4>6, <4>7, <4>8, <4>9,
                 <4>10, <4>11, Zenon
    <3> QED BY <3>1 DEF BlitOwned
  <2> QED BY <2>1, <2>2, StepCases, Zenon
<1> SUFFICES ASSUME NEW f \in live', Kind(f) = "blit", Number(f) \notin cancelled'
             PROVE  BlitOwner(f)'
  BY <1>2 DEF BlitOwned, Kind, Number
<1>3. CASE \E done : BlitSet(done)
  <2>1. /\ f \in live \/ f = Acq(frame') \/ f = Done(frame')
        /\ frame' \in Frames /\ cur = NoJob
        /\ UNCHANGED <<slots, cbuf, jobs>>
    BY <1>1, <1>3 DEF BlitSet
  <2> QED BY <1>2, <2>1, Names DEF BlitOwned, BlitOwner
<1>4. CASE BypassSet
  <2>1. f \in live /\ cur = NoJob /\ UNCHANGED <<slots, cbuf, jobs>>
    BY <1>1, <1>4 DEF BypassSet
  <2> QED BY <1>2, <2>1 DEF BlitOwned, BlitOwner
<1>5. CASE \E i \in Slots : Dequeued(i)
  <2>1. /\ f \in live /\ mpc # "trigger" /\ UNCHANGED <<cbuf, jobs>>
        /\ \A i \in Slots : slots'[i].acquire_fence = slots[i].acquire_fence
    BY <1>5 DEF Dequeued
  <2> QED BY <1>2, <2>1 DEF BlitOwned, BlitOwner
<1>6. CASE ConfigFailed
  <2>1. f \in live /\ mpc # "trigger" /\ UNCHANGED <<slots, cbuf, jobs>>
    BY <1>6 DEF ConfigFailed
  <2> QED BY <1>2, <2>1 DEF BlitOwned, BlitOwner
<1>7. CASE \E made : Configured(made)
  <2>1. PICK made : Configured(made)
    BY <1>7
  <2>2. /\ f \in live \/ f = Prev(frame) \/ (made /\ f = Blit(frame))
        /\ frame \in Frames /\ mpc = "config" /\ cur.slot \in Slots
        /\ \A i \in Slots : i # cur.slot =>
              slots'[i].acquire_fence = slots[i].acquire_fence
        /\ made => slots'[cur.slot].acquire_fence = Blit(frame)
        /\ UNCHANGED <<cbuf, jobs>>
    BY <2>1 DEF Configured
  <2>3. slots[cur.slot].acquire_fence = NoFence
    BY <2>2 DEF HolderNames
  <2>4. f \in live => f # NoFence
    BY OpenNames
  <2>5. Kind(Prev(frame)) # "blit"
    BY <2>2, Names
  <2>6. CASE f \in live
    BY <1>2, <2>2, <2>3, <2>4, <2>6 DEF BlitOwned, BlitOwner
  <2>7. CASE f \notin live
    BY <2>2, <2>5, <2>7 DEF BlitOwner
  <2> QED BY <2>6, <2>7
<1>8. CASE Released
  <2>1. /\ f \in live /\ mpc = "release" /\ UNCHANGED <<cur, jobs>>
        /\ \A i \in Slots : /\ slots'[i].acquire_fence = slots[i].acquire_fence
                            /\ cbuf'[i] = NoFence \/ cbuf'[i] = cbuf[i]
    BY <1>8 DEF Released
  <2>2. f # NoFence /\ \A i \in Slots : cbuf[i] = NoFence
    BY <2>1, OpenNames DEF HolderNames
  <2> QED BY <1>2, <2>1, <2>2 DEF BlitOwned, BlitOwner
<1>9. CASE Acquired
  <2>1. /\ f \in live /\ mpc = "acquire" /\ UNCHANGED <<cur, jobs>>
        /\ cur.slot \in Slots
        /\ \A i \in Slots :
              IF i = cur.slot THEN cbuf'[i] = slots[i].acquire_fence
                ELSE /\ slots'[i].acquire_fence = slots[i].acquire_fence
                     /\ cbuf'[i] = cbuf[i]
    BY <1>9 DEF Acquired
  <2>2. f # NoFence /\ \A i \in Slots : cbuf[i] = NoFence
    BY <2>1, OpenNames DEF HolderNames
  <2> QED BY <1>2, <2>1, <2>2 DEF BlitOwned, BlitOwner
<1>10. CASE \E made : PreparedStep(made)
  <2>1. /\ f \in live \/ f = Rel(frame)
        /\ frame \in Frames /\ cur # NoJob /\ cur' # NoJob
        /\ mpc = "prepare" /\ mpc' = "trigger"
        /\ UNCHANGED <<slots, jobs>> /\ ~cur'.fail
        /\ \A i \in Slots :
              IF i = m_last_acquired THEN cur'.port = cbuf[i]
                                     ELSE cbuf'[i] = cbuf[i]
    BY <1>1, <1>10, OpenNames DEF PreparedStep, Stages
  <2>2. f \in live
    BY <2>1, Names
  <2>3. BlitOwner(f)
    BY <1>2, <2>2 DEF BlitOwned
  <2> QED BY <2>1, <2>3 DEF BlitOwner
<1>11. CASE Triggered
  <2>1. f \in live /\ UNCHANGED <<slots, cbuf>>
    BY <1>11 DEF Triggered
  <2>2. /\ Len(jobs) \in Nat /\ Len(jobs') = Len(jobs) + 1
        /\ \A k \in 1 .. Len(jobs) : jobs'[k] = jobs[k]
        /\ jobs'[Len(jobs) + 1] = cur
    BY <1>11, TriggeredJobs DEF Types
  <2>3. \A k \in 1 .. Len(jobs) : k \in 1 .. Len(jobs')
    BY <2>2
  <2>4. Len(jobs) + 1 \in 1 .. Len(jobs')
    BY <2>2
  <2> QED BY <1>2, <2>1, <2>2, <2>3, <2>4 DEF BlitOwned, BlitOwner
<1>12. CASE \E job : Processed(job) \/ Cancelled(job)
  <2>1. PICK job : Processed(job) \/ Cancelled(job)
    BY <1>12
  <2>2. /\ Taken(job) /\ f \in live /\ UNCHANGED <<slots, cbuf, mpc, cur>>
        /\ f # job.port \/ job.seq \in cancelled'
    BY <2>1 DEF Processed, Cancelled, Taken
  <2>3. /\ job = jobs[1] /\ 1 \in 1 .. Len(jobs) /\ job \in HWLayer
        /\ \A k \in 1 .. Len(jobs) : k = 1 \/ /\ k - 1 \in 1 .. Len(jobs')
                                              /\ jobs'[k - 1] = jobs[k]
    BY <2>2, TakenJobs DEF Types
  <2>4. ~job.fail => f # job.port
    BY <2>2, <2>3, OpenNames DEF HolderNames
  <2> QED BY <1>2, <2>2, <2>3, <2>4 DEF BlitOwned, BlitOwner
<1>13. CASE Idled
  BY <1>2, <1>13 DEF Idled, BlitOwned, BlitOwner
<1> QED BY <1>3, <1>4, <1>5, <1>6, <1>7, <1>8, <1>9, <1>10, <1>11, <1>12,
           <1>13, StepCases, Zenon

\* The overlay gets the fence of the blit that the job shows, or had it before.
LEMMA OverlayGetsFence ==
  ASSUME Types, Stages, JobsInOrder, JobNames, HolderNames, HeldOpen, BlitOwned,
         Process
  PROVE  LET job == Head(jobs)
             blit == <<"blit", job.shows>>
         IN  ~job.fail => /\ job.port # NoFence => job.port \in live
                          /\ blit \in live => blit \in given'
<1>1. PICK job : /\ job = Head(jobs) /\ jobs # <<>> /\ ~dropping
                 /\ given' = given \cup ({job.port} \ {NoFence})
  BY DEF Process
<1>2. job = jobs[1] /\ 1 \in 1 .. Len(jobs) /\ job \in HWLayer
  <2>1. jobs \in Seq(HWLayer)
    BY DEF Types, JobTypes
  <2> QED BY <1>1, <2>1, HeadTailProperties, LenProperties, EmptySeq, JobNumbers
<1>3. /\ job.seq \in Nat /\ frame \in Nat /\ job.seq <= frame
      /\ cur # NoJob => job.seq < frame
      /\ \A k \in 1 .. Len(jobs) :
            jobs[k].seq \in Nat /\ (k = 1 \/ job.seq < jobs[k].seq)
  BY <1>2, JobNumbers, Bounds DEF JobsInOrder, Frames
<1>4. ASSUME ~job.fail, Blit(job.shows) \in live
      PROVE  Blit(job.shows) \in given'
  <2>1. job.shows \in Nat /\ job.shows <= job.seq
    BY <1>2, <1>4, FenceTypes DEF JobNames, HandedOver
  <2>2. /\ Kind(Blit(job.shows)) = "blit" /\ Number(Blit(job.shows)) = job.shows
        /\ Blit(job.shows) # NoFence
    BY <1>4, OpenNames DEF Kind, Number, Blit
  <2>3. BlitOwner(Blit(job.shows))
    BY <1>1, <1>4, <2>2 DEF BlitOwned
  <2>4. cur = NoJob <=> mpc = "idle"
    BY DEF Stages
  <2>5. PICK k \in 1 .. Len(jobs) :
           ~jobs[k].fail /\ jobs[k].port = Blit(job.shows)
    BY <1>3, <2>1, <2>2, <2>3, <2>4 DEF BlitOwner, HolderNames
  <2>6. job.shows = jobs[k].seq
    BY <2>2, <2>5 DEF HolderNames
  <2>7. k = 1
    BY <1>3, <2>1, <2>6
  <2> QED BY <1>1, <1>2, <2>2, <2>5, <2>7
<1>5. ~job.fail /\ job.port # NoFence => job.port \in live
  BY <1>2 DEF HeldOpen, Open
<1> QED BY <1>1, <1>4, <1>5 DEF Blit

\* The fences of MDP jobs that nobody owns.
LostDone == {f \in live : Kind(f) = "done" /\ ~(cur # NoJob /\ cur.done = f)}

\* The fences of the overlay's uses that nobody owns.
RelOwner(f) ==
    \/ f = m_rel_fence
    \/ \E i \in Slots : slots[i].release_fence = f \/ pbuf[i] = f
    \/ \E n \in Frames : Dst(n) = f
LostRel == {f \in live : Kind(f) = "rel" /\ ~RelOwner(f)}

\* Until the overlay has shown a slot there is no use to wait for, and a fence
\* that prepareInput returned can only come from a frame that had nothing to
\* show because an earlier one failed.
NothingShown ==
    m_last_acquired = NoSlot \/ (mpc = "prepare" /\ m_rel_fence # NoFence)
FirstUses ==
    /\ NothingShown => LostRel = {}
    /\ NothingShown /\ m_rel_fence # NoFence => failed > 0
    /\ m_last_acquired = NoSlot /\ failed = 0 =>
          \/ mpc = "idle" /\ frame = 0
          \/ mpc \in {"dequeue", "config", "release", "acquire"}
    /\ m_last_acquired = NoSlot =>
          \A i \in Slots : slots[i].release_fence = NoFence /\ pbuf[i] = NoFence
    /\ mpc = "acquire" /\ m_last_acquired # NoSlot => m_rel_fence = NoFence
    /\ mpc = "prepare" /\ m_last_acquired = NoSlot => m_rel_fence = NoFence

\* Each frame that fails loses at most the fence of its MDP job and that of its
\* slot's last use.
FewLost ==
    Cardinality(LostDone) <= failed /\ Cardinality(LostRel) <= failed

\* There are finitely many fences.
LEMMA FencesFinite ==
  ASSUME Types
  PROVE  /\ IsFiniteSet(live) /\ IsFiniteSet(LostDone) /\ IsFiniteSet(LostRel)
         /\ Cardinality(LostDone) \in Nat /\ Cardinality(LostRel) \in Nat
<1>1. IsFiniteSet(1 .. MaxFrame)
  BY FS_Interval, Bounds
<1>2. IsFiniteSet(Kinds)
  <2>1. /\ IsFiniteSet({"acq"}) /\ IsFiniteSet({"done"}) /\ IsFiniteSet({"blit"})
        /\ IsFiniteSet({"prev"}) /\ IsFiniteSet({"rel"})
    BY FS_Singleton
  <2>2. IsFiniteSet({"acq"} \cup {"done"})
    BY <2>1, FS_Union
  <2>3. IsFiniteSet({"blit"} \cup {"prev"})
    BY <2>1, FS_Union
  <2>4. IsFiniteSet(({"acq"} \cup {"done"}) \cup ({"blit"} \cup {"prev"}))
    BY <2>2, <2>3, FS_Union
  <2>5. IsFiniteSet((({"acq"} \cup {"done"}) \cup ({"blit"} \cup {"prev"}))
                      \cup {"rel"})
    BY <2>1, <2>4, FS_Union
  <2>6. Kinds = (({"acq"} \cup {"done"}) \cup ({"blit"} \cup {"prev"}))
                  \cup {"rel"}
    BY DEF Kinds
  <2> QED BY <2>5, <2>6
<1>3. IsFiniteSet(Fds)
  BY <1>1, <1>2, FS_Product DEF Fds
<1>4. IsFiniteSet(live)
  BY <1>3, FS_Subset DEF Types, MainTypes
<1>5. IsFiniteSet(LostDone) /\ IsFiniteSet(LostRel)
  BY <1>4, FS_Subset DEF LostDone, LostRel
<1> QED BY <1>4, <1>5, FS_CardinalityType

\* Only a frame that fails loses the fence of its MDP job.
LEMMA LostDoneStep ==
  ASSUME Types, Stages, JobNames, [Next]_vars
  PROVE  \/ LostDone' \subseteq LostDone
         \/ /\ failed' = failed + 1
            /\ LostDone' \subseteq LostDone \cup {cur.done}
<1>1. /\ cur # NoJob => cur \in HWLayer /\ cur.seq = frame
      /\ (cur = NoJob <=> mpc = "idle")
      /\ NoFence \notin live /\ NoJob \notin HWLayer
  BY FenceTypes, OpenNames DEF Stages
<1>2. CASE \E done : BlitSet(done)
  <2>1. /\ \A f \in live' : f \in live \/ f = Acq(frame') \/ f = cur'.done
        /\ frame' \in Frames /\ cur = NoJob /\ cur' # NoJob
    BY <1>1, <1>2 DEF BlitSet
  <2> QED BY <2>1, Names DEF LostDone
<1>3. CASE \E made : Configured(made)
  <2>1. /\ \A f \in live' : \/ f \in live /\ f # cur.done
                            \/ f = Blit(frame)
                            \/ f = Prev(frame)
        /\ frame \in Frames
    BY <1>3 DEF Configured
  <2> QED BY <2>1, Names DEF LostDone
<1>4. CASE \E made : PreparedStep(made)
  <2>1. /\ \A f \in live' : f \in live \/ f = Rel(frame)
        /\ frame \in Frames /\ cur # NoJob /\ cur' # NoJob
        /\ cur'.done = cur.done
    BY <1>1, <1>4 DEF PreparedStep
  <2> QED BY <2>1, Names DEF LostDone
<1>5. CASE BypassSet
  BY <1>1, <1>5 DEF BypassSet, LostDone
<1>6. CASE \E i \in Slots : Dequeued(i)
  BY <1>1, <1>6 DEF Dequeued, LostDone
<1>7. CASE ConfigFailed
  BY <1>1, <1>7 DEF ConfigFailed, LostDone
<1>8. CASE Released \/ Acquired \/ Idled
  BY <1>8 DEF Released, Acquired, Idled, LostDone
<1>9. CASE Triggered
  <2>1. cur.done = NoFence /\ live' = live /\ cur' = NoJob
    BY <1>9 DEF Triggered, JobNames, HandedOver
  <2> QED BY <1>1, <2>1 DEF LostDone
<1>10. CASE \E job : Processed(job) \/ Cancelled(job)
  <2>1. live' \subseteq live /\ cur' = cur
    BY <1>10 DEF Processed, Cancelled, Taken
  <2> QED BY <2>1 DEF LostDone
<1> QED BY <1>2, <1>3, <1>4, <1>5, <1>6, <1>7, <1>8, <1>9, <1>10, StepCases,
           Zenon

\* The fence of a use is lost by a frame that fails after it dequeued the slot,
\* or by Prepare, which overwrites it if the slot was not returned.
LEMMA LostRelStep ==
  ASSUME Types, Stages, SlotStages, JobsInOrder, ParamsOwned, JobNames,
         HolderNames, [Next]_vars
  PROVE  \/ LostRel' \subseteq LostRel
         \/ /\ ConfigFailed
            /\ LostRel' \subseteq LostRel \cup ({pbuf[cur.slot]} \ {NoFence})
         \/ /\ \E made : PreparedStep(made)
            /\ LostRel' \subseteq LostRel \cup ({m_rel_fence} \ {NoFence})
<1>1. /\ cur # NoJob => cur \in HWLayer /\ cur.seq = frame
      /\ (cur = NoJob <=> mpc = "idle")
      /\ NoFence \notin live /\ NoJob \notin HWLayer
      /\ m_last_acquired \in Slots \cup {NoSlot} /\ NoSlot \notin Slots
  BY FenceTypes, OpenNames DEF Stages
<1>2. CASE \E done : BlitSet(done)
  <2>1. PICK done : BlitSet(done)
    BY <1>2
  <2>2. /\ \A f \in live' : f \in live \/ f = Acq(frame') \/ f = Done(frame')
        /\ frame' \in Frames /\ frame' > frame
        /\ UNCHANGED <<slots, pbuf, m_rel_fence>>
        /\ \A n \in Frames : Dst(n)' = IF n = frame' THEN NoFence ELSE Dst(n)
    BY <2>1, OpenNames DEF BlitSet
  <2>3. PICK next \in Frames : next = frame'
    BY <2>2
  <2>4. Dst(next) = NoFence
    BY <2>2, <2>3, LaterParams
  <2>5. \A f \in live' : Kind(f) = "rel" => f \in live
    BY <2>2, Names
  <2> QED BY <1>1, <2>2, <2>3, <2>4, <2>5 DEF LostRel, RelOwner
<1>3. CASE BypassSet
  BY <1>1, <1>3 DEF BypassSet, LostRel, RelOwner
<1>4. CASE \E i \in Slots : Dequeued(i)
  <2>1. PICK s \in Slots : Dequeued(s)
    BY <1>4
  <2>2. /\ live' = live /\ m_rel_fence' = m_rel_fence
        /\ \A j \in Slots :
              j # s => /\ slots'[j].release_fence = slots[j].release_fence
                       /\ pbuf'[j] = pbuf[j]
        /\ pbuf'[s] = slots[s].release_fence /\ mpc = "dequeue"
        /\ \A n \in Frames : Dst(n)' = Dst(n)
    BY <2>1 DEF Dequeued
  <2>3. pbuf[s] = NoFence
    BY <2>2 DEF HolderNames
  <2> QED BY <1>1, <2>2, <2>3 DEF LostRel, RelOwner
<1>5. CASE ConfigFailed
  <2>1. /\ live' = live /\ UNCHANGED <<slots, m_rel_fence>>
        /\ mpc = "config" /\ cur # NoJob
        /\ \A j \in Slots : j # cur.slot => pbuf'[j] = pbuf[j]
        /\ \A n \in Frames : n # cur.seq => Dst(n)' = Dst(n)
    BY <1>1, <1>5 DEF ConfigFailed
  <2>2. Dst(frame) = NoFence /\ cur.seq = frame
    BY <1>1, <2>1 DEF JobNames
  <2> QED BY <1>1, <1>5, <2>1, <2>2 DEF LostRel, RelOwner
<1>6. CASE \E made : Configured(made)
  <2>1. PICK made : Configured(made)
    BY <1>6
  <2>2. /\ \A f \in live' : f \in live \/ f = Blit(frame) \/ f = Prev(frame)
        /\ frame \in Frames /\ mpc = "config" /\ cur # NoJob
        /\ m_rel_fence' = m_rel_fence
        /\ \A j \in Slots : /\ slots'[j].release_fence = slots[j].release_fence
                            /\ j # cur.slot => pbuf'[j] = pbuf[j]
        /\ \A n \in Frames : n # frame => Dst(n)' = Dst(n)
        /\ frame \in DOMAIN m_job_params =>
              \A n \in Frames : n = frame => Dst(n)' = pbuf[cur.slot]
    BY <1>1, <2>1 DEF Configured
  <2>3. Dst(frame) = NoFence /\ frame \in DOMAIN m_job_params
    BY <2>2 DEF JobNames, ParamsOwned, Blits, Stages
  <2>4. \A f \in live' : Kind(f) = "rel" => f \in live
    BY <2>2, Names
  <2> QED BY <1>1, <2>2, <2>3, <2>4 DEF LostRel, RelOwner
<1>7. CASE Released
  <2>1. CASE m_last_acquired = NoSlot
    BY <1>1, <1>7, <2>1 DEF Released, LostRel, RelOwner
  <2>2. CASE m_last_acquired # NoSlot
    <3>1. /\ live' = live /\ m_last_acquired \in Slots
          /\ slots[m_last_acquired].release_fence = NoFence
          /\ slots'[m_last_acquired].release_fence = m_rel_fence
          /\ \A j \in Slots : j # m_last_acquired =>
                slots'[j].release_fence = slots[j].release_fence
          /\ pbuf' = pbuf /\ \A n \in Frames : Dst(n)' = Dst(n)
      BY <1>1, <1>7, <2>2 DEF Released, SlotStages
    <3> QED BY <1>1, <3>1 DEF LostRel, RelOwner
  <2> QED BY <2>1, <2>2
<1>8. CASE Acquired
  BY <1>8 DEF Acquired, LostRel, RelOwner
<1>9. CASE \E made : PreparedStep(made)
  <2>1. /\ \A f \in live' : f \in live \/ f = m_rel_fence'
        /\ UNCHANGED <<slots, pbuf>>
        /\ \A n \in Frames : Dst(n)' = Dst(n)
    BY <1>9 DEF PreparedStep
  <2> QED BY <1>1, <1>9, <2>1 DEF LostRel, RelOwner
<1>10. CASE Triggered \/ Idled
  BY <1>10 DEF Triggered, Idled, LostRel, RelOwner
<1>11. CASE \E job : Processed(job) \/ Cancelled(job)
  <2>1. PICK job : Taken(job) /\ live' \subseteq live \ BlitFences(job)
    BY <1>11 DEF Processed, Cancelled
  <2>2. /\ UNCHANGED <<slots, pbuf, m_rel_fence>>
        /\ \A n \in Frames :
              Dst(n)' = IF job.blit /\ n = job.seq THEN NoFence ELSE Dst(n)
    BY <2>1 DEF Taken
  <2>3. \A f \in live' : f \in live /\ ~(job.blit /\ f = Dst(job.seq))
    <3>1. \A f \in live' : f # NoFence /\ f \in live /\ f \notin BlitFences(job)
      BY <1>1, <2>1
    <3> QED BY <3>1, BlitFencesOf
  <2> QED BY <2>2, <2>3 DEF LostRel, RelOwner
<1> QED BY <1>2, <1>3, <1>4, <1>5, <1>6, <1>7, <1>8, <1>9, <1>10, <1>11,
           StepCases, Zenon

\* No use is lost before the overlay has shown a slot.
LEMMA FirstUsesKept ==
  ASSUME Types, Stages, SlotStages, JobsInOrder, ParamsOwned, JobNames,
         HolderNames, FirstUses, [Next]_vars
  PROVE  FirstUses'
<1>1. /\ cur # NoJob => cur \in HWLayer /\ cur.seq = frame
      /\ (cur = NoJob <=> mpc = "idle")
      /\ m_last_acquired \in Slots \cup {NoSlot} /\ NoSlot \notin Slots
      /\ frame \in Nat /\ failed \in Nat
      /\ mpc \in {"idle", "dequeue", "config", "release", "acquire", "prepare",
                  "trigger"}
  BY FenceTypes, OpenNames, Bounds DEF Stages, Types, MainTypes
<1>2. CASE \E done : BlitSet(done)
  <2>1. /\ mpc = "idle" /\ mpc' = "dequeue"
        /\ UNCHANGED <<m_last_acquired, m_rel_fence, failed, slots, pbuf>>
    BY <1>2 DEF BlitSet
  <2>2. LostRel' \subseteq LostRel
    BY <2>1, LostRelStep DEF ConfigFailed, PreparedStep
  <2> QED BY <2>1, <2>2 DEF FirstUses, NothingShown
<1>3. CASE BypassSet
  <2>1. /\ mpc = "idle" /\ mpc' = "prepare" /\ m_rel_fence' = NoFence
        /\ UNCHANGED <<m_last_acquired, failed, slots, pbuf>> /\ frame > 0
    BY <1>3 DEF BypassSet
  <2>2. LostRel' \subseteq LostRel
    BY <2>1, LostRelStep DEF ConfigFailed, PreparedStep
  <2> QED BY <1>1, <2>1, <2>2 DEF FirstUses, NothingShown
<1>4. CASE \E i \in Slots : Dequeued(i)
  <2>1. PICK s \in Slots : Dequeued(s)
    BY <1>4
  <2>2. /\ mpc = "dequeue" /\ mpc' = "config"
        /\ UNCHANGED <<m_last_acquired, failed, m_rel_fence>>
        /\ \A i \in Slots :
              /\ slots'[i].release_fence \in {NoFence, slots[i].release_fence}
              /\ pbuf'[i] \in {pbuf[i], slots[s].release_fence}
    BY <2>1 DEF Dequeued
  <2>3. LostRel' \subseteq LostRel
    BY <2>2, LostRelStep DEF ConfigFailed, PreparedStep
  <2> QED BY <2>2, <2>3 DEF FirstUses, NothingShown
<1>5. CASE ConfigFailed
  <2>1. /\ mpc = "config" /\ mpc' = "trigger" /\ failed' = failed + 1
        /\ UNCHANGED <<m_last_acquired, m_rel_fence, slots>>
        /\ cur.slot \in Slots
        /\ \A i \in Slots : pbuf'[i] \in {NoFence, pbuf[i]}
    BY <1>5 DEF ConfigFailed
  <2>2. LostRel' \subseteq LostRel \cup ({pbuf[cur.slot]} \ {NoFence})
    BY <2>1, LostRelStep DEF PreparedStep
  <2>3. NothingShown' => m_last_acquired = NoSlot
    BY <2>1 DEF NothingShown
  <2>4. NothingShown' => LostRel' = {}
    BY <2>1, <2>2, <2>3 DEF FirstUses, NothingShown
  <2>5. failed' > 0
    BY <1>1, <2>1
  <2> QED BY <1>1, <2>1, <2>3, <2>4, <2>5 DEF FirstUses
<1>6. CASE \E made : Configured(made)
  <2>1. /\ mpc = "config" /\ mpc' = "release"
        /\ UNCHANGED <<m_last_acquired, m_rel_fence, failed>>
        /\ \A i \in Slots :
              /\ slots'[i].release_fence = slots[i].release_fence
              /\ pbuf'[i] \in {NoFence, pbuf[i]}
    BY <1>6 DEF Configured
  <2>2. LostRel' \subseteq LostRel
    BY <2>1, LostRelStep DEF ConfigFailed, PreparedStep
  <2> QED BY <2>1, <2>2 DEF FirstUses, NothingShown
<1>7. CASE Released
  <2>1. /\ mpc = "release" /\ mpc' = "acquire"
        /\ UNCHANGED <<m_last_acquired, failed, pbuf>>
        /\ m_rel_fence' = IF m_last_acquired = NoSlot THEN m_rel_fence
                                                      ELSE NoFence
        /\ \A i \in Slots :
              slots'[i].release_fence = IF i = m_last_acquired
                                          THEN m_rel_fence
                                          ELSE slots[i].release_fence
    BY <1>7 DEF Released
  <2>2. LostRel' \subseteq LostRel
    BY <2>1, LostRelStep DEF ConfigFailed, PreparedStep
  <2> QED BY <1>1, <2>1, <2>2 DEF FirstUses, NothingShown
<1>8. CASE Acquired
  <2>1. /\ mpc = "acquire" /\ mpc' = "prepare" /\ m_last_acquired' \in Slots
        /\ UNCHANGED <<m_rel_fence, failed>>
    BY <1>8 DEF Acquired
  <2>2. LostRel' \subseteq LostRel
    BY <2>1, LostRelStep DEF ConfigFailed, PreparedStep
  <2>3. NothingShown' => NothingShown
    BY <2>1, <1>1 DEF FirstUses, NothingShown
  <2> QED BY <1>1, <2>1, <2>2, <2>3 DEF FirstUses
<1>9. CASE \E made : PreparedStep(made)
  <2>1. /\ mpc = "prepare" /\ mpc' = "trigger"
        /\ UNCHANGED <<m_last_acquired, failed, slots, pbuf>>
    BY <1>9 DEF PreparedStep
  <2>2. LostRel' \subseteq LostRel \cup ({m_rel_fence} \ {NoFence})
    BY <2>1, LostRelStep DEF ConfigFailed
  <2>3. NothingShown' => m_last_acquired = NoSlot
    BY <2>1 DEF NothingShown
  <2>4. NothingShown' => LostRel' = {}
    BY <2>1, <2>2, <2>3 DEF FirstUses, NothingShown
  <2>5. m_last_acquired = NoSlot => failed > 0
    BY <1>1, <2>1 DEF FirstUses
  <2> QED BY <1>1, <2>1, <2>3, <2>4, <2>5 DEF FirstUses
<1>10. CASE Triggered
  <2>1. /\ mpc = "trigger" /\ mpc' = "idle"
        /\ UNCHANGED <<m_last_acquired, m_rel_fence, failed, slots, pbuf>>
    BY <1>10 DEF Triggered
  <2>2. LostRel' \subseteq LostRel
    BY <2>1, LostRelStep DEF ConfigFailed, PreparedStep
  <2> QED BY <2>1, <2>2 DEF FirstUses, NothingShown
<1>11. CASE (\E job : Processed(job) \/ Cancelled(job)) \/ Idled
  <2>1. /\ mpc' = mpc /\ frame' = frame
        /\ UNCHANGED <<m_last_acquired, m_rel_fence, failed, slots, pbuf>>
    BY <1>11 DEF Processed, Cancelled, Taken, Idled
  <2>2. LostRel' \subseteq LostRel
    <3>1. mpc' = mpc => ~ConfigFailed /\ ~(\E made : PreparedStep(made))
      BY DEF ConfigFailed, PreparedStep
    <3> QED BY <2>1, <3>1, LostRelStep, Zenon
  <2> QED BY <2>1, <2>2 DEF FirstUses, NothingShown
<1> QED BY <1>2, <1>3, <1>4, <1>5, <1>6, <1>7, <1>8, <1>9, <1>10, <1>11,
           StepCases, Zenon

\* A set that grows by at most one element.
LEMMA OneMore ==
  ASSUME NEW S, IsFiniteSet(S), NEW T, NEW x, T \subseteq S \cup {x}
  PROVE  /\ IsFiniteSet(T) /\ Cardinality(T) \in Nat /\ Cardinality(S) \in Nat
         /\ Cardinality(T) <= Cardinality(S) + 1
<1>1. /\ IsFiniteSet(S \cup {x}) /\ Cardinality(S) \in Nat
      /\ Cardinality(S \cup {x}) <= Cardinality(S) + 1
  <2>1. Cardinality(S) \in Nat
    BY FS_CardinalityType
  <2>2. /\ IsFiniteSet(S \cup {x})
        /\ \/ Cardinality(S \cup {x}) = Cardinality(S)
           \/ Cardinality(S \cup {x}) = Cardinality(S) + 1
    BY FS_AddElement
  <2> QED BY <2>1, <2>2
<1>2. IsFiniteSet(T) /\ Cardinality(T) <= Cardinality(S \cup {x})
  BY <1>1, FS_Subset
<1> QED BY <1>1, <1>2, FS_CardinalityType

\* Only a frame that fails loses fences, one of each kind.
LEMMA FewLostKept ==
  ASSUME Types, Stages, SlotStages, JobsInOrder, ParamsOwned, JobNames,
         HolderNames, FirstUses, FewLost, [Next]_vars
  PROVE  FewLost'
<1>1. failed \in Nat
  BY Bounds DEF Types, MainTypes
<1>2. failed' = failed + 1 \/ failed' = failed
  BY DEF Next, vars, SetBlit, SetBypass, Dequeue, ConfigFails, ConfigAndQueue,
     ReleaseLast, Acquire, Prepare, Trigger, Process, CancelLayers, IgnoreJobs
<1>3. /\ IsFiniteSet(LostDone) /\ IsFiniteSet(LostRel)
      /\ Cardinality(LostDone) \in Nat /\ Cardinality(LostRel) \in Nat
  BY FencesFinite
<1>4. Cardinality(LostDone') <= failed'
  <2>1. CASE LostDone' \subseteq LostDone
    <3>1. /\ Cardinality(LostDone') <= Cardinality(LostDone)
          /\ IsFiniteSet(LostDone')
      BY <1>3, <2>1, FS_Subset
    <3>2. Cardinality(LostDone') \in Nat
      BY <3>1, FS_CardinalityType
    <3> QED BY <1>1, <1>2, <1>3, <3>1, <3>2 DEF FewLost
  <2>2. CASE failed' = failed + 1 /\ LostDone' \subseteq LostDone \cup {cur.done}
    <3>1. /\ Cardinality(LostDone') \in Nat
          /\ Cardinality(LostDone') <= Cardinality(LostDone) + 1
      BY <1>3, <2>2, OneMore
    <3> QED BY <1>1, <1>3, <2>2, <3>1 DEF FewLost
  <2> QED BY <2>1, <2>2, LostDoneStep
<1>5. Cardinality(LostRel') <= failed'
  <2>1. CASE LostRel' \subseteq LostRel
    <3>1. /\ Cardinality(LostRel') <= Cardinality(LostRel)
          /\ IsFiniteSet(LostRel')
      BY <1>3, <2>1, FS_Subset
    <3>2. Cardinality(LostRel') \in Nat
      BY <3>1, FS_CardinalityType
    <3> QED BY <1>1, <1>2, <1>3, <3>1, <3>2 DEF FewLost
  <2>2. CASE ConfigFailed /\ LostRel' \subseteq LostRel \cup {pbuf[cur.slot]}
    <3>1. /\ Cardinality(LostRel') \in Nat
          /\ Cardinality(LostRel') <= Cardinality(LostRel) + 1
      BY <1>3, <2>2, OneMore
    <3> QED BY <1>1, <1>3, <2>2, <3>1 DEF FewLost, ConfigFailed
  <2>3. CASE /\ \E made : PreparedStep(made)
             /\ ~(LostRel' \subseteq LostRel)
             /\ LostRel' \subseteq LostRel \cup ({m_rel_fence} \ {NoFence})
    <3>1. m_rel_fence # NoFence /\ mpc = "prepare" /\ failed' = failed
      BY <2>3 DEF PreparedStep
    <3>2. LostRel = {} /\ failed > 0
      BY <3>1 DEF FirstUses, NothingShown
    <3>3. LostRel' \subseteq {} \cup {m_rel_fence}
      BY <2>3, <3>2
    <3>4. IsFiniteSet({}) /\ Cardinality({}) = 0
      BY FS_EmptySet
    <3>5. /\ Cardinality(LostRel') \in Nat
          /\ Cardinality(LostRel') <= 0 + 1
      BY <3>3, <3>4, OneMore
    <3> QED BY <1>1, <3>1, <3>2, <3>5
  <2>4. \/ LostRel' \subseteq LostRel
        \/ ConfigFailed /\ LostRel' \subseteq LostRel \cup {pbuf[cur.slot]}
        \/ /\ \E made : PreparedStep(made)
           /\ LostRel' \subseteq LostRel \cup ({m_rel_fence} \ {NoFence})
    BY LostRelStep
  <2> QED BY <2>1, <2>2, <2>3, <2>4, Zenon
<1> QED BY <1>4, <1>5 DEF FewLost

-----------------------------------------------------------------------------
(* A fence has one owner: the owners as lists, joined one by one.          *)

\* A list of fences that has none twice, and the fences that it has.
Once(s) == \A k, l \in DOMAIN s : s[k] = s[l] /\ s[k] # NoFence => k = l
List(s) == s \in Seq(Fence) /\ Once(s)
Has(s) == {s[k] : k \in DOMAIN s} \ {NoFence}

\* A function on the first numbers is a list if no two of them have one fence.
LEMMA ListOf ==
  ASSUME NEW n \in Nat, NEW s \in [1 .. n -> Fence],
         \A k, l \in 1 .. n : s[k] = s[l] /\ s[k] # NoFence => k = l
  PROVE  List(s) /\ DOMAIN s = 1 .. n
<1>1. s \in Seq(Fence)
  BY SeqDef
<1> QED BY <1>1 DEF List, Once

\* Two lists that have no fence in common are one list of what both have.
LEMMA JoinLists ==
  ASSUME NEW s, NEW t, List(s), List(t),
         \A f \in Has(s) : f \notin Has(t)
  PROVE  List(s \o t) /\ Has(s \o t) = Has(s) \cup Has(t)
<1> DEFINE m == Len(s)
           n == Len(t)
           u == s \o t
<1>1. /\ m \in Nat /\ n \in Nat /\ DOMAIN s = 1 .. m /\ DOMAIN t = 1 .. n
  BY LenProperties DEF List
<1>2. /\ u \in Seq(Fence) /\ Len(u) = m + n
      /\ \A k \in 1 .. m + n : u[k] = IF k <= m THEN s[k] ELSE t[k - m]
  BY ConcatProperties DEF List
<1>3. DOMAIN u = 1 .. m + n
  BY <1>2, LenProperties
<1> HIDE DEF m, n, u
<1>4. /\ \A k \in DOMAIN s : k \in DOMAIN u /\ u[k] = s[k]
      /\ \A k \in DOMAIN t : m + k \in DOMAIN u /\ u[m + k] = t[k]
  BY <1>1, <1>2, <1>3
<1>5. \A k \in DOMAIN u : \/ k <= m /\ k \in DOMAIN s /\ u[k] = s[k]
                          \/ k > m /\ k - m \in DOMAIN t /\ u[k] = t[k - m]
  BY <1>1, <1>2, <1>3
<1>6. Has(u) = Has(s) \cup Has(t)
  BY <1>4, <1>5 DEF Has
<1>7. ASSUME NEW k \in DOMAIN u, NEW l \in DOMAIN u, u[k] = u[l], u[k] # NoFence
      PROVE  k = l
  <2>1. k \in Nat /\ l \in Nat
    BY <1>1, <1>3
  <2>2. CASE k <= m /\ l <= m
    BY <1>1, <1>5, <1>7, <2>1, <2>2 DEF List, Once
  <2>3. CASE k > m /\ l > m
    <3>1. /\ k - m \in DOMAIN t /\ l - m \in DOMAIN t
          /\ u[k] = t[k - m] /\ u[l] = t[l - m]
      BY <1>1, <1>5, <2>1, <2>3
    <3>2. k - m = l - m
      BY <1>7, <3>1 DEF List, Once
    <3> QED BY <1>1, <2>1, <3>2
  <2>4. CASE k <= m /\ l > m
    BY <1>1, <1>5, <1>7, <2>1, <2>4 DEF Has
  <2>5. CASE k > m /\ l <= m
    BY <1>1, <1>5, <1>7, <2>1, <2>5 DEF Has
  <2> QED BY <1>1, <2>1, <2>2, <2>3, <2>4, <2>5
<1> QED BY <1>2, <1>6, <1>7 DEF List, Once, u

\* The fences of the queue's slots.
SlotHolds(f) ==
    \E i \in Slots : \/ f = slots[i].acquire_fence \/ f = slots[i].release_fence
                     \/ f = pbuf[i] \/ f = cbuf[i]

\* The slots hold no fence twice.
LEMMA SlotList ==
  ASSUME Types, HolderNames, RelOnce
  PROVE  /\ List(SlotHolders)
         /\ \A f : f \in Has(SlotHolders) <=> f # NoFence /\ SlotHolds(f)
<1> DEFINE a == [k \in 1 .. NumSlots |-> slots[k - 1].acquire_fence]
           r == [k \in 1 .. NumSlots |-> slots[k - 1].release_fence]
           p == [k \in 1 .. NumSlots |-> pbuf[k - 1]]
           c == [k \in 1 .. NumSlots |-> cbuf[k - 1]]
<1>1. /\ NumSlots \in Nat /\ \A k \in 1 .. NumSlots : k - 1 \in Slots
      /\ \A i \in Slots : i + 1 \in 1 .. NumSlots /\ (i + 1) - 1 = i
      /\ \A k, l \in 1 .. NumSlots : k - 1 = l - 1 => k = l
  BY Bounds DEF Slots, Q!Slots
<1>2. /\ a \in [1 .. NumSlots -> Fence] /\ r \in [1 .. NumSlots -> Fence]
      /\ p \in [1 .. NumSlots -> Fence] /\ c \in [1 .. NumSlots -> Fence]
  BY <1>1, FenceTypes
<1>3. List(a) /\ DOMAIN a = 1 .. NumSlots
  <2>1. \A k, l \in 1 .. NumSlots : a[k] = a[l] /\ a[k] # NoFence => k = l
    BY <1>1 DEF HolderNames
  <2> HIDE DEF a
  <2> QED BY <1>1, <1>2, <2>1, ListOf
<1>4. List(r) /\ DOMAIN r = 1 .. NumSlots
  <2>1. \A k, l \in 1 .. NumSlots : r[k] = r[l] /\ r[k] # NoFence => k = l
    BY <1>1 DEF RelOnce, Same
  <2> HIDE DEF r
  <2> QED BY <1>1, <1>2, <2>1, ListOf
<1>5. List(p) /\ DOMAIN p = 1 .. NumSlots
  <2>1. \A k, l \in 1 .. NumSlots : p[k] = p[l] /\ p[k] # NoFence => k = l
    BY <1>1 DEF HolderNames
  <2> HIDE DEF p
  <2> QED BY <1>1, <1>2, <2>1, ListOf
<1>6. List(c) /\ DOMAIN c = 1 .. NumSlots
  <2>1. \A k, l \in 1 .. NumSlots : c[k] = c[l] /\ c[k] # NoFence => k = l
    BY <1>1 DEF HolderNames
  <2> HIDE DEF c
  <2> QED BY <1>1, <1>2, <2>1, ListOf
<1>7. /\ \A f : f \in Has(a) <=> /\ f # NoFence
                                 /\ \E i \in Slots : f = slots[i].acquire_fence
      /\ \A f : f \in Has(r) <=> /\ f # NoFence
                                 /\ \E i \in Slots : f = slots[i].release_fence
      /\ \A f : f \in Has(p) <=> f # NoFence /\ \E i \in Slots : f = pbuf[i]
      /\ \A f : f \in Has(c) <=> f # NoFence /\ \E i \in Slots : f = cbuf[i]
  <2>1. ASSUME NEW f
        PROVE  f \in Has(a) <=> /\ f # NoFence
                                /\ \E i \in Slots : f = slots[i].acquire_fence
    BY <1>1 DEF Has
  <2>2. ASSUME NEW f
        PROVE  f \in Has(r) <=> /\ f # NoFence
                                /\ \E i \in Slots : f = slots[i].release_fence
    BY <1>1 DEF Has
  <2>3. ASSUME NEW f
        PROVE  f \in Has(p) <=> f # NoFence /\ \E i \in Slots : f = pbuf[i]
    BY <1>1 DEF Has
  <2>4. ASSUME NEW f
        PROVE  f \in Has(c) <=> f # NoFence /\ \E i \in Slots : f = cbuf[i]
    BY <1>1 DEF Has
  <2> QED BY <2>1, <2>2, <2>3, <2>4
<1>8. SlotHolders = ((a \o r) \o p) \o c
  BY DEF SlotHolders
<1> HIDE DEF a, r, p, c
<1>9. List(a \o r) /\ Has(a \o r) = Has(a) \cup Has(r)
  <2>1. \A f \in Has(a) : f \notin Has(r)
    BY <1>7 DEF HolderNames
  <2> QED BY <1>3, <1>4, <2>1, JoinLists
<1>10. List((a \o r) \o p) /\ Has((a \o r) \o p) = Has(a \o r) \cup Has(p)
  <2>1. \A f \in Has(a \o r) : f \notin Has(p)
    BY <1>7, <1>9 DEF HolderNames, RelOnce, Same
  <2> QED BY <1>5, <1>9, <2>1, JoinLists
<1>11. /\ List(SlotHolders) 
       /\ Has(SlotHolders) = Has((a \o r) \o p) \cup Has(c)
  <2>1. \A f \in Has((a \o r) \o p) : f \notin Has(c)
    BY <1>7, <1>9, <1>10 DEF HolderNames
  <2> QED BY <1>6, <1>8, <1>10, <2>1, JoinLists
<1> QED BY <1>7, <1>9, <1>10, <1>11 DEF SlotHolds

\* The fences of the jobs.
CurHolds(f) == /\ cur # NoJob
               /\ \/ f = cur.acq \/ f = cur.done
                  \/ mpc = "trigger" /\ ~cur.fail /\ f = cur.port
JobHolds(f) ==
    \/ CurHolds(f)
    \/ \E k \in 1 .. Len(jobs) : \/ f = jobs[k].acq \/ f = jobs[k].done
                                 \/ ~jobs[k].fail /\ f = jobs[k].port

\* What the jobs hold, by their place in the list of all jobs.
LEMMA AllJobFences ==
  ASSUME Types, Stages, JobsInOrder
  PROVE  /\ DOMAIN AllJobs = 1 .. Len(AllJobs) /\ Len(AllJobs) \in Nat
         /\ \A k \in DOMAIN AllJobs :
              /\ AllJobs[k] \in HWLayer /\ PortOf(AllJobs[k]) \in Fence
              /\ AllJobs[k].seq \in Frames
              /\ \/ /\ k \in 1 .. Len(jobs) /\ AllJobs[k] = jobs[k]
                    /\ PortOf(jobs[k]) = IF jobs[k].fail THEN NoFence
                                                         ELSE jobs[k].port
                 \/ /\ k = Len(jobs) + 1 /\ cur # NoJob /\ AllJobs[k] = cur
                    /\ cur.seq = frame
                    /\ PortOf(cur) = IF cur.fail \/ mpc # "trigger"
                                       THEN NoFence ELSE cur.port
         /\ \A k \in 1 .. Len(jobs) : k \in DOMAIN AllJobs
         /\ cur # NoJob => Len(jobs) + 1 \in DOMAIN AllJobs
         /\ \A k, l \in DOMAIN AllJobs : AllJobs[k].seq = AllJobs[l].seq => k = l
<1>1. /\ AllJobs \in Seq(HWLayer) /\ Len(jobs) \in Nat
      /\ Len(AllJobs) = IF cur = NoJob THEN Len(jobs) ELSE Len(jobs) + 1
      /\ \A k \in 1 .. Len(jobs) : AllJobs[k] = jobs[k]
      /\ cur # NoJob => AllJobs[Len(jobs) + 1] = cur /\ cur.seq = frame
  BY AllJobsParts, JobNumbers DEF Stages
<1>2. /\ DOMAIN AllJobs = 1 .. Len(AllJobs) /\ Len(AllJobs) \in Nat
      /\ \A k \in DOMAIN AllJobs : AllJobs[k] \in HWLayer
  BY <1>1, LenProperties
<1>3. \A job \in HWLayer : job.port \in Fence /\ job.seq \in Frames
  BY FenceTypes
<1>4. \A k \in 1 .. Len(jobs) : jobs[k] # cur
  <2>1. \A k \in 1 .. Len(jobs) : jobs[k] \in HWLayer
    BY JobNumbers
  <2>2. frame \in Nat /\ \A n \in Frames : n \in Nat
    BY OpenNames
  <2> QED BY <1>1, <1>3, <2>1, <2>2, NoJobAssumption DEF JobsInOrder
<1>5. ASSUME NEW k \in DOMAIN AllJobs
      PROVE  /\ AllJobs[k] \in HWLayer /\ PortOf(AllJobs[k]) \in Fence
             /\ AllJobs[k].seq \in Frames
             /\ \/ /\ k \in 1 .. Len(jobs) /\ AllJobs[k] = jobs[k]
                   /\ PortOf(jobs[k]) = IF jobs[k].fail THEN NoFence
                                                        ELSE jobs[k].port
                \/ /\ k = Len(jobs) + 1 /\ cur # NoJob /\ AllJobs[k] = cur
                   /\ cur.seq = frame
                   /\ PortOf(cur) = IF cur.fail \/ mpc # "trigger"
                                      THEN NoFence ELSE cur.port
  <2>1. AllJobs[k] \in HWLayer /\ AllJobs[k].seq \in Frames
    BY <1>2, <1>3
  <2>2. PortOf(AllJobs[k]) \in Fence
    BY <1>3, <2>1 DEF PortOf, Fence
  <2>3. CASE k \in 1 .. Len(jobs)
    BY <1>1, <1>4, <2>1, <2>2, <2>3 DEF PortOf
  <2>4. CASE k \notin 1 .. Len(jobs)
    BY <1>1, <1>2, <2>1, <2>2, <2>4 DEF PortOf
  <2> QED BY <2>3, <2>4
<1>6. /\ \A k \in 1 .. Len(jobs) : k \in DOMAIN AllJobs
      /\ cur # NoJob => Len(jobs) + 1 \in DOMAIN AllJobs
  BY <1>1, <1>2
<1>7. ASSUME NEW k \in DOMAIN AllJobs, NEW l \in DOMAIN AllJobs,
             AllJobs[k].seq = AllJobs[l].seq
      PROVE  k = l
  <2>1. /\ \A i \in 1 .. Len(jobs) : jobs[i].seq \in Nat /\ i \in Nat
        /\ frame \in Nat
    BY <1>2, <1>3, JobNumbers, OpenNames
  <2>2. \A i, j \in 1 .. Len(jobs) : jobs[i].seq = jobs[j].seq => i = j
    BY <2>1 DEF JobsInOrder
  <2>3. \A i \in 1 .. Len(jobs) : cur # NoJob => jobs[i].seq # frame
    BY <2>1 DEF JobsInOrder
  <2>4. /\ \/ k \in 1 .. Len(jobs) /\ AllJobs[k] = jobs[k]
           \/ k = Len(jobs) + 1 /\ cur # NoJob /\ AllJobs[k].seq = frame
        /\ \/ l \in 1 .. Len(jobs) /\ AllJobs[l] = jobs[l]
           \/ l = Len(jobs) + 1 /\ cur # NoJob /\ AllJobs[l].seq = frame
    BY <1>5
  <2> QED BY <1>7, <2>2, <2>3, <2>4
<1> QED BY <1>2, <1>5, <1>6, <1>7

\* The jobs hold no fence twice.
LEMMA JobList ==
  ASSUME Types, Stages, JobsInOrder, HolderNames
  PROVE  /\ List(JobHolders)
         /\ \A f : f \in Has(JobHolders) <=> f # NoFence /\ JobHolds(f)
<1> DEFINE a == [k \in DOMAIN AllJobs |-> AllJobs[k].acq]
           d == [k \in DOMAIN AllJobs |-> AllJobs[k].done]
           p == [k \in DOMAIN AllJobs |-> PortOf(AllJobs[k])]
           N == Len(AllJobs)
<1>1. N \in Nat /\ DOMAIN AllJobs = 1 .. N
  BY AllJobFences
<1>2. /\ a \in [1 .. N -> Fence] /\ d \in [1 .. N -> Fence]
      /\ p \in [1 .. N -> Fence]
  BY <1>1, AllJobFences, FenceTypes
<1>3. \A k \in DOMAIN AllJobs :
         /\ AllJobs[k].acq # NoFence => /\ Kind(AllJobs[k].acq) = "acq"
                                        /\ Number(AllJobs[k].acq) = AllJobs[k].seq
         /\ AllJobs[k].done # NoFence => /\ Kind(AllJobs[k].done) = "done"
                                         /\ Number(AllJobs[k].done) = AllJobs[k].seq
         /\ PortOf(AllJobs[k]) # NoFence =>
               /\ Kind(PortOf(AllJobs[k])) = "blit"
               /\ Number(PortOf(AllJobs[k])) = AllJobs[k].seq
  BY AllJobFences DEF HolderNames
<1>4. List(a) /\ DOMAIN a = 1 .. N
  <2>1. \A k, l \in 1 .. N : a[k] = a[l] /\ a[k] # NoFence => k = l
    BY <1>1, <1>3, AllJobFences
  <2> HIDE DEF a
  <2> QED BY <1>1, <1>2, <2>1, ListOf
<1>5. List(d) /\ DOMAIN d = 1 .. N
  <2>1. \A k, l \in 1 .. N : d[k] = d[l] /\ d[k] # NoFence => k = l
    BY <1>1, <1>3, AllJobFences
  <2> HIDE DEF d
  <2> QED BY <1>1, <1>2, <2>1, ListOf
<1>6. List(p) /\ DOMAIN p = 1 .. N
  <2>1. \A k, l \in 1 .. N : p[k] = p[l] /\ p[k] # NoFence => k = l
    BY <1>1, <1>3, AllJobFences
  <2> HIDE DEF p
  <2> QED BY <1>1, <1>2, <2>1, ListOf
<1>7. /\ \A f : f \in Has(a) <=> /\ f # NoFence
                                 /\ \E k \in DOMAIN AllJobs : f = AllJobs[k].acq
      /\ \A f : f \in Has(d) <=> /\ f # NoFence
                                 /\ \E k \in DOMAIN AllJobs : f = AllJobs[k].done
      /\ \A f : f \in Has(p) <=> /\ f # NoFence
                                 /\ \E k \in DOMAIN AllJobs : f = PortOf(AllJobs[k])
  BY DEF Has
<1>8. JobHolders = (a \o d) \o p
  BY DEF JobHolders
<1> HIDE DEF a, d, p, N
<1>9. List(a \o d) /\ Has(a \o d) = Has(a) \cup Has(d)
  <2>1. \A f \in Has(a) : f \notin Has(d)
    BY <1>3, <1>7
  <2> QED BY <1>4, <1>5, <2>1, JoinLists
<1>10. /\ List(JobHolders) /\ Has(JobHolders) = Has(a \o d) \cup Has(p)
  <2>1. \A f \in Has(a \o d) : f \notin Has(p)
    BY <1>3, <1>7, <1>9
  <2> QED BY <1>6, <1>8, <1>9, <2>1, JoinLists
<1>11. ASSUME NEW f, f # NoFence
       PROVE  (\E k \in DOMAIN AllJobs : \/ f = AllJobs[k].acq
                                         \/ f = AllJobs[k].done
                                         \/ f = PortOf(AllJobs[k]))
                <=> JobHolds(f)
  <2>1. ASSUME NEW k \in DOMAIN AllJobs,
               \/ f = AllJobs[k].acq \/ f = AllJobs[k].done
               \/ f = PortOf(AllJobs[k])
        PROVE  JobHolds(f)
    BY <1>11, <2>1, AllJobFences DEF JobHolds, CurHolds
  <2>2. ASSUME CurHolds(f)
        PROVE  \E k \in DOMAIN AllJobs : \/ f = AllJobs[k].acq
                                         \/ f = AllJobs[k].done
                                         \/ f = PortOf(AllJobs[k])
    <3>1. /\ Len(jobs) + 1 \in DOMAIN AllJobs
          /\ Len(jobs) \in Nat /\ Len(jobs) + 1 \notin 1 .. Len(jobs)
      BY <2>2, AllJobFences, JobNumbers DEF CurHolds
    <3>2. /\ AllJobs[Len(jobs) + 1] = cur
          /\ PortOf(cur) = IF cur.fail \/ mpc # "trigger"
                             THEN NoFence ELSE cur.port
      BY <3>1, AllJobFences
    <3> QED BY <2>2, <3>1, <3>2 DEF CurHolds
  <2>3. ASSUME NEW k \in 1 .. Len(jobs),
               \/ f = jobs[k].acq \/ f = jobs[k].done
               \/ ~jobs[k].fail /\ f = jobs[k].port
        PROVE  \E l \in DOMAIN AllJobs : \/ f = AllJobs[l].acq
                                         \/ f = AllJobs[l].done
                                         \/ f = PortOf(AllJobs[l])
    <3>1. k \in DOMAIN AllJobs /\ Len(jobs) \in Nat /\ k # Len(jobs) + 1
      BY AllJobFences, JobNumbers
    <3>2. /\ AllJobs[k] = jobs[k]
          /\ PortOf(jobs[k]) = IF jobs[k].fail THEN NoFence ELSE jobs[k].port
      BY <3>1, AllJobFences
    <3> QED BY <2>3, <3>1, <3>2
  <2> QED BY <2>1, <2>2, <2>3 DEF JobHolds
<1> QED BY <1>7, <1>9, <1>10, <1>11

\* The fences that MDP is to wait for.
MDPHolds(f) == \E n \in Frames : f = Src(n) \/ f = Dst(n)

\* The MDP jobs hold no fence twice.
LEMMA ParamList ==
  ASSUME Types, HolderNames, RelOnce
  PROVE  /\ List(ParamHolders)
         /\ \A f : f \in Has(ParamHolders) <=> f # NoFence /\ MDPHolds(f)
<1> DEFINE s == [n \in 1 .. MaxFrame |-> Src(n)]
           d == [n \in 1 .. MaxFrame |-> Dst(n)]
<1>1. MaxFrame \in Nat /\ Frames = 1 .. MaxFrame
  BY Bounds DEF Frames
<1>2. s \in [1 .. MaxFrame -> Fence] /\ d \in [1 .. MaxFrame -> Fence]
  BY <1>1, FenceTypes
<1>3. List(s) /\ DOMAIN s = 1 .. MaxFrame
  <2>1. \A k, l \in 1 .. MaxFrame : s[k] = s[l] /\ s[k] # NoFence => k = l
    BY <1>1 DEF HolderNames
  <2> HIDE DEF s
  <2> QED BY <1>1, <1>2, <2>1, ListOf
<1>4. List(d) /\ DOMAIN d = 1 .. MaxFrame
  <2>1. \A k, l \in 1 .. MaxFrame : d[k] = d[l] /\ d[k] # NoFence => k = l
    BY <1>1 DEF RelOnce, Same
  <2> HIDE DEF d
  <2> QED BY <1>1, <1>2, <2>1, ListOf
<1>5. /\ \A f : f \in Has(s) <=> f # NoFence /\ \E n \in Frames : f = Src(n)
      /\ \A f : f \in Has(d) <=> f # NoFence /\ \E n \in Frames : f = Dst(n)
  BY <1>1 DEF Has
<1>6. ParamHolders = s \o d
  BY DEF ParamHolders, Src, Dst
<1> HIDE DEF s, d
<1>7. \A f \in Has(s) : f \notin Has(d)
  BY <1>5 DEF HolderNames
<1>8. List(ParamHolders) /\ Has(ParamHolders) = Has(s) \cup Has(d)
  BY <1>3, <1>4, <1>6, <1>7, JoinLists
<1> QED BY <1>5, <1>8 DEF MDPHolds

\* The fences that prepareOverlayPortParam and set keep.
LEMMA KeptList ==
  ASSUME Types, HolderNames
  PROVE  /\ List(<<m_rel_fence, m_prev>>)
         /\ \A f : f \in Has(<<m_rel_fence, m_prev>>)
                     <=> f # NoFence /\ (f = m_rel_fence \/ f = m_prev)
<1> DEFINE s == <<m_rel_fence, m_prev>>
<1>1. m_rel_fence \in Fence /\ m_prev \in Fence
  BY FenceTypes
<1>2. s \in [1 .. 2 -> Fence] /\ s[1] = m_rel_fence /\ s[2] = m_prev
  BY <1>1
<1>3. m_rel_fence = m_prev => m_rel_fence = NoFence
  BY DEF HolderNames
<1> HIDE DEF s
<1>4. List(s) /\ DOMAIN s = 1 .. 2
  <2>1. \A k, l \in 1 .. 2 : s[k] = s[l] /\ s[k] # NoFence => k = l
    BY <1>2, <1>3
  <2> QED BY <1>2, <2>1, ListOf
<1>5. \A f : f \in Has(s) <=> f # NoFence /\ (f = m_rel_fence \/ f = m_prev)
  BY <1>2, <1>4 DEF Has
<1> QED BY <1>4, <1>5 DEF s

\* Who has to close a fence.
Holds(f) == \/ SlotHolds(f) \/ JobHolds(f) \/ MDPHolds(f)
            \/ f = m_rel_fence \/ f = m_prev

\* All owners are one list that has no fence twice.
LEMMA HolderList ==
  ASSUME Types, Stages, SlotStages, JobsInOrder, ParamsOwned, JobNames,
         HolderNames, RelOnce
  PROVE  /\ List(Holders)
         /\ \A f : f \in Has(Holders) <=> f # NoFence /\ Holds(f)
<1>1. /\ List(SlotHolders) /\ List(JobHolders) /\ List(ParamHolders)
      /\ List(<<m_rel_fence, m_prev>>)
  BY SlotList, JobList, ParamList, KeptList
<1>2. /\ \A f : f \in Has(SlotHolders) <=> f # NoFence /\ SlotHolds(f)
      /\ \A f : f \in Has(JobHolders) <=> f # NoFence /\ JobHolds(f)
      /\ \A f : f \in Has(ParamHolders) <=> f # NoFence /\ MDPHolds(f)
      /\ \A f : f \in Has(<<m_rel_fence, m_prev>>)
                  <=> f # NoFence /\ (f = m_rel_fence \/ f = m_prev)
  BY SlotList, JobList, ParamList, KeptList
<1>3. /\ cur # NoJob => cur \in HWLayer /\ cur.seq = frame
      /\ (cur = NoJob <=> mpc = "idle")
      /\ \A k \in 1 .. Len(jobs) : jobs[k].seq \in Nat /\ frame \in Nat
  BY FenceTypes, OpenNames, JobNumbers DEF Stages
<1>4. ASSUME NEW f, f # NoFence, SlotHolds(f)
      PROVE  ~JobHolds(f)
  <2>1. Kind(f) \in {"blit", "rel"}
    BY <1>4 DEF SlotHolds, HolderNames
  <2>2. ~CurHolds(f)
    BY <1>4, <2>1 DEF SlotHolds, CurHolds, HolderNames
  <2>3. Kind(f) = "blit" => Number(f) = frame /\ cur # NoJob
    BY <1>3, <1>4 DEF SlotHolds, HolderNames
  <2>4. ASSUME NEW k \in 1 .. Len(jobs)
        PROVE  /\ f # jobs[k].acq /\ f # jobs[k].done
               /\ ~(~jobs[k].fail /\ f = jobs[k].port)
    BY <1>3, <1>4, <2>1, <2>3 DEF HolderNames, JobsInOrder
  <2> QED BY <2>2, <2>4 DEF JobHolds
<1>5. ASSUME NEW f, f # NoFence, MDPHolds(f)
      PROVE  ~SlotHolds(f) /\ ~JobHolds(f)
  <2>1. PICK n \in Frames : f = Src(n) \/ f = Dst(n)
    BY <1>5 DEF MDPHolds
  <2>2. CASE f = Dst(n)
    <3>1. Kind(f) = "rel"
      BY <1>5, <2>2 DEF HolderNames
    <3>2. ~SlotHolds(f)
      BY <1>5, <2>2, <3>1 DEF SlotHolds, HolderNames, RelOnce, Same
    <3>3. ~JobHolds(f)
      BY <1>5, <3>1 DEF JobHolds, CurHolds, HolderNames
    <3> QED BY <3>2, <3>3
  <2>3. CASE f = Src(n)
    <3>1. Kind(f) = "acq" /\ Number(f) = n
      BY <1>5, <2>3 DEF HolderNames
    <3>2. ~SlotHolds(f)
      BY <1>5, <3>1 DEF SlotHolds, HolderNames
    <3>3. \/ cur # NoJob /\ Blits(cur) /\ n = frame
          \/ \E k \in 1 .. Len(jobs) : Blits(jobs[k]) /\ n = jobs[k].seq
      BY <1>5, <2>3 DEF ParamsOwned, Src
    <3>4. ~CurHolds(f)
      <4>1. SUFFICES ASSUME cur # NoJob, f = cur.acq
                     PROVE  FALSE
        BY <1>5, <3>1 DEF CurHolds, HolderNames
      <4>2. /\ n = frame
            /\ mpc \in {"dequeue", "config"} \/ (mpc = "trigger" /\ cur.fail)
        BY <1>5, <3>1, <4>1 DEF HolderNames
      <4>3. CASE mpc \in {"dequeue", "config"}
        BY <1>5, <2>3, <4>2, <4>3 DEF JobNames
      <4>4. CASE cur.fail
        BY <1>3, <3>3, <4>1, <4>2, <4>4 DEF Blits, JobsInOrder
      <4> QED BY <4>2, <4>3, <4>4
    <3>5. ASSUME NEW k \in 1 .. Len(jobs)
          PROVE  /\ f # jobs[k].acq /\ f # jobs[k].done
                 /\ ~(~jobs[k].fail /\ f = jobs[k].port)
      <4>1. SUFFICES ASSUME f = jobs[k].acq
                     PROVE  FALSE
        BY <1>5, <3>1 DEF HolderNames
      <4>2. jobs[k].fail /\ n = jobs[k].seq
        BY <1>5, <3>1, <4>1 DEF HolderNames
      <4>3. \A l \in 1 .. Len(jobs) : jobs[l].seq = jobs[k].seq => l = k
        BY <1>3, JobNumbers DEF JobsInOrder
      <4> QED BY <1>3, <3>3, <4>2, <4>3 DEF Blits, JobsInOrder
    <3> QED BY <3>2, <3>4, <3>5 DEF JobHolds
  <2> QED BY <2>1, <2>2, <2>3
<1>6. ASSUME NEW f, f # NoFence, f = m_rel_fence \/ f = m_prev
      PROVE  ~SlotHolds(f) /\ ~JobHolds(f) /\ ~MDPHolds(f)
  <2>1. ~JobHolds(f)
    BY <1>6 DEF JobHolds, CurHolds, HolderNames
  <2>2. CASE f = m_rel_fence
    BY <1>6, <2>1, <2>2 DEF SlotHolds, MDPHolds, HolderNames, RelOnce, Same
  <2>3. CASE f = m_prev
    BY <1>6, <2>1, <2>3 DEF SlotHolds, MDPHolds, HolderNames
  <2> QED BY <1>6, <2>2, <2>3
<1> DEFINE s == SlotHolders
           j == JobHolders
           p == ParamHolders
           o == <<m_rel_fence, m_prev>>
<1>7. Holders = ((s \o j) \o p) \o o
  BY DEF Holders
<1> HIDE DEF s, j, p, o
<1>8. /\ List(s) /\ List(j) /\ List(p) /\ List(o)
      /\ \A f : f \in Has(s) <=> f # NoFence /\ SlotHolds(f)
      /\ \A f : f \in Has(j) <=> f # NoFence /\ JobHolds(f)
      /\ \A f : f \in Has(p) <=> f # NoFence /\ MDPHolds(f)
      /\ \A f : f \in Has(o) <=> f # NoFence /\ (f = m_rel_fence \/ f = m_prev)
  BY <1>1, <1>2 DEF s, j, p, o
<1>9. List(s \o j) /\ Has(s \o j) = Has(s) \cup Has(j)
  <2>1. \A f \in Has(s) : f \notin Has(j)
    BY <1>4, <1>8
  <2> QED BY <1>8, <2>1, JoinLists
<1>10. List((s \o j) \o p) /\ Has((s \o j) \o p) = Has(s \o j) \cup Has(p)
  <2>1. \A f \in Has(s \o j) : f \notin Has(p)
    BY <1>5, <1>8, <1>9
  <2> QED BY <1>8, <1>9, <2>1, JoinLists
<1>11. List(Holders) /\ Has(Holders) = Has((s \o j) \o p) \cup Has(o)
  <2>1. \A f \in Has((s \o j) \o p) : f \notin Has(o)
    BY <1>6, <1>8, <1>9, <1>10
  <2> QED BY <1>7, <1>8, <1>10, <2>1, JoinLists
<1> QED BY <1>8, <1>9, <1>10, <1>11 DEF Holds

\* A fence has one owner at a time; few are left without one.
LEMMA OwnedOnce ==
  ASSUME Types, Stages, SlotStages, JobsInOrder, ParamsOwned, JobNames,
         HolderNames, RelOnce, HeldOpen, AcqOwned, PrevOwned, BlitOwned, FewLost,
         IsFiniteSet(cancelled)
  PROVE  FencesOwnedOnce
<1> DEFINE lost == live \ Has(Holders)
           blits == {f \in lost : Kind(f) = "blit"}
           others == {f \in lost : Kind(f) # "blit"}
<1>1. /\ List(Holders)
      /\ \A f : f \in Has(Holders) <=> f # NoFence /\ Holds(f)
  BY HolderList
<1>2. NoFence \notin live /\ live \subseteq Fds
  BY OpenNames
<1>3. \A f \in lost : f \in Fds /\ f \in live /\ ~Holds(f)
  BY <1>1, <1>2
<1>4. Has(Holders) \subseteq live
  <2>1. ASSUME NEW f, f # NoFence, Holds(f)
        PROVE  f \in live
    <3>1. CASE SlotHolds(f)
      BY <2>1, <3>1 DEF SlotHolds, HeldOpen, Open
    <3>2. CASE JobHolds(f)
      BY <2>1, <3>2 DEF JobHolds, CurHolds, HeldOpen, Open, HolderNames
    <3>3. CASE MDPHolds(f)
      BY <2>1, <3>3 DEF MDPHolds, HeldOpen, Open
    <3>4. CASE f = m_rel_fence \/ f = m_prev
      BY <2>1, <3>4 DEF HeldOpen, Open
    <3> QED BY <2>1, <3>1, <3>2, <3>3, <3>4 DEF Holds
  <2> QED BY <1>1, <2>1
<1>5. Cardinality(blits) <= Cardinality(cancelled)
  <2> DEFINE number == [f \in blits |-> Number(f)]
  <2>1. \A f \in blits : Number(f) \in cancelled
    BY <1>3 DEF BlitOwned, BlitOwner, Holds, SlotHolds, JobHolds, CurHolds
  <2>2. \A f, g \in blits : Number(f) = Number(g) => f = g
    <3>1. \A f, g \in Fds : Kind(f) = Kind(g) /\ Number(f) = Number(g) => f = g
      BY DEF Fds, Kind, Number
    <3> QED BY <1>3, <3>1
  <2>3. number \in Injection(blits, cancelled)
    BY <2>1, <2>2 DEF Injection, IsInjective
  <2> HIDE DEF blits, number
  <2> QED BY <2>3, FS_Injection
<1>6. others \subseteq LostDone \cup LostRel
  <2>1. ASSUME NEW f \in others
        PROVE  f \in LostDone \cup LostRel
    <3>1. /\ f \in live /\ ~Holds(f) /\ Kind(f) \in Kinds /\ Kind(f) # "blit"
      BY <1>3, <2>1, Names
    <3>2. Kind(f) # "acq"
      BY <3>1 DEF AcqOwned, AcqOwner, Holds, JobHolds, CurHolds, MDPHolds
    <3>3. Kind(f) # "prev"
      BY <3>1 DEF PrevOwned, Holds
    <3>4. CASE Kind(f) = "done"
      BY <3>1, <3>4 DEF LostDone, Holds, JobHolds, CurHolds
    <3>5. CASE Kind(f) = "rel"
      BY <3>1, <3>5 DEF LostRel, RelOwner, Holds, SlotHolds, MDPHolds
    <3> QED BY <3>1, <3>2, <3>3, <3>4, <3>5 DEF Kinds
  <2> QED BY <2>1
<1>7. Cardinality(others) <= 2 * failed
  <2> HIDE DEF others
  <2>1. /\ IsFiniteSet(LostDone) /\ IsFiniteSet(LostRel) /\ failed \in Nat
        /\ Cardinality(LostDone) \in Nat /\ Cardinality(LostRel) \in Nat
    BY FencesFinite, Bounds DEF Types, MainTypes
  <2>2. /\ IsFiniteSet(LostDone \cup LostRel)
        /\ Cardinality(LostDone \cup LostRel) =
             Cardinality(LostDone) + Cardinality(LostRel)
               - Cardinality(LostDone \cap LostRel)
    BY <2>1, FS_Union
  <2>3. IsFiniteSet(LostDone \cap LostRel)
    BY <2>1, FS_Subset
  <2>4. Cardinality(LostDone \cap LostRel) \in Nat
    BY <2>3, FS_CardinalityType
  <2>5. /\ IsFiniteSet(others)
        /\ Cardinality(others) <= Cardinality(LostDone \cup LostRel)
    BY <1>6, <2>2, FS_Subset
  <2>6. Cardinality(others) \in Nat
    BY <2>5, FS_CardinalityType
  <2> QED BY <2>1, <2>2, <2>4, <2>5, <2>6 DEF FewLost
<1> DEFINE hs == Holders
           held == {hs[k] : k \in DOMAIN hs} \ {NoFence}
<1>8. held = Has(Holders)
  BY DEF Has
<1>9. \A k, l \in DOMAIN hs : hs[k] = hs[l] /\ hs[k] # NoFence => k = l
  BY <1>1 DEF List, Once
<1>10. /\ {f \in live \ held : f[1] = "blit"} = blits
       /\ {f \in live \ held : f[1] # "blit"} = others
  BY <1>8 DEF Kind
<1> HIDE DEF held, hs, blits, others
<1>11. /\ held \subseteq live
       /\ \A k, l \in DOMAIN hs : hs[k] = hs[l] /\ hs[k] # NoFence => k = l
       /\ Cardinality({f \in live \ held : f[1] = "blit"})
             <= Cardinality(cancelled)
       /\ Cardinality({f \in live \ held : f[1] # "blit"}) <= 2 * failed
  BY <1>4, <1>5, <1>7, <1>8, <1>9, <1>10
<1> QED BY <1>11 DEF FencesOwnedOnce, held, hs

-----------------------------------------------------------------------------
(* The inductive invariant.                                                *)

ControlInv == Types /\ Stages /\ SlotStages /\ Uses /\ FewLeft
JobInv == JobsInOrder /\ ParamsOwned /\ JobNames /\ RelNames
OpenInv == PortsBefore /\ Fresh /\ Stale /\ RelOnce /\ HeldOpen
LostInv == AcqOwned /\ PrevOwned /\ BlitOwned /\ FirstUses /\ FewLost
IInv == ControlInv /\ JobInv /\ OpenInv /\ LostInv

\* It holds at first.
LEMMA InitTypes ==
  ASSUME Init
  PROVE  Types
<1>1. QueueTypes
  <2>1. /\ [state |-> "FREE", frame_num |-> 0, acquire_fence |-> NoFence,
            release_fence |-> NoFence] \in Q!BufferSlot
        /\ <<>> \in Seq(Q!Slots) /\ 0 \in 0 .. MaxFrame /\ NoFence \in Fence
    BY Bounds, EmptySeq DEF Q!BufferSlot, Q!BufferState, Q!Fence, Fence
  <2> QED BY <2>1 DEF Init, QueueTypes
<1>2. MainTypes
  <2>1. dropping \in BOOLEAN
    BY Zenon DEF Init
  <2>2. frame \in 0 .. MaxFrame /\ failed \in 0 .. MaxFailed
    BY Bounds DEF Init
  <2>3. /\ m_rel_fence \in Fence /\ m_prev \in Fence
        /\ m_last_acquired \in Q!Slots \cup {NoSlot}
        /\ mpc = "idle" /\ live \in SUBSET Fds
    BY DEF Init, Fence
  <2> QED BY <2>1, <2>2, <2>3 DEF MainTypes
<1>3. JobTypes
  <2>1. /\ [port |-> NoFence, shows |-> 0] \in Leftover
        /\ <<>> \in Seq(HWLayer)
    BY Bounds, EmptySeq DEF Leftover, Fence
  <2>2. [k \in 1 .. NumJobs |-> [port |-> NoFence, shows |-> 0]] \in Seq(Leftover)
    BY <2>1, SeqDef, BlitAssumption
  <2>3. DOMAIN m_job_params = {}
    BY DEF Init
  <2> QED BY <2>1, <2>2, <2>3 DEF Init, JobTypes
<1> QED BY <1>1, <1>2, <1>3 DEF Types

\* What is left of the initial state, field by field.
LEMMA InitFields ==
  ASSUME Init
  PROVE  /\ \A i \in Slots :
              /\ slots[i].state = "FREE" /\ slots[i].acquire_fence = NoFence
              /\ slots[i].release_fence = NoFence
              /\ pbuf[i] = NoFence /\ cbuf[i] = NoFence
              /\ use[i] = NoFence /\ contents[i] = 0
         /\ \A n \in Frames : Src(n) = NoFence /\ Dst(n) = NoFence
         /\ DOMAIN m_job_params = {}
         /\ jobs = <<>> /\ Len(jobs) = 0 /\ cur = NoJob /\ mpc = "idle"
         /\ m_last_acquired = NoSlot /\ m_rel_fence = NoFence
         /\ m_prev = NoFence /\ frame = 0 /\ failed = 0
         /\ live = {} /\ cancelled = {} /\ m_queue = <<>>
         /\ \A k \in 1 .. Len(pool) : pool[k].port = NoFence
<1>1. DOMAIN m_job_params = {} /\ jobs = <<>> /\ Len(jobs) = 0
  BY EmptySeq DEF Init
<1>2. \A n \in Frames : Src(n) = NoFence /\ Dst(n) = NoFence
  BY <1>1 DEF Src, Dst
<1>3. \A k \in 1 .. Len(pool) : pool[k].port = NoFence
  <2>1. DOMAIN pool = 1 .. NumJobs
    BY DEF Init
  <2>2. DOMAIN pool = 1 .. Len(pool)
    BY InitTypes, LenProperties DEF Types, JobTypes
  <2> QED BY <2>1, <2>2 DEF Init
<1>4. \A i \in Slots :
         /\ slots[i].state = "FREE" /\ slots[i].acquire_fence = NoFence
         /\ slots[i].release_fence = NoFence
         /\ pbuf[i] = NoFence /\ cbuf[i] = NoFence
         /\ use[i] = NoFence /\ contents[i] = 0
  BY DEF Init, Slots
<1> QED BY <1>1, <1>2, <1>3, <1>4 DEF Init

\* All parts hold initially.
LEMMA InitInv ==
  ASSUME Init
  PROVE  IInv
<1>1. Types
  BY InitTypes
<1>2. NoSlot \notin Slots
  BY NoSlotNone
<1>3. Stages /\ SlotStages /\ Uses
  BY <1>2, InitFields DEF Stages, SlotStages, Uses
<1>4. FewLeft
  <2>1. LeftBehind = {}
    BY InitFields DEF LeftBehind
  <2> QED BY <2>1, FS_EmptySet, InitFields DEF FewLeft
<1>5. \A k : k \notin 1 .. Len(jobs)
  BY InitFields
<1>6. JobsInOrder /\ ParamsOwned
  BY <1>5, InitFields DEF JobsInOrder, ParamsOwned
<1>7. JobNames /\ RelNames
  BY <1>5, InitFields DEF JobNames, RelNames, IsRel
<1>8. PortsBefore /\ Fresh /\ Stale
  BY <1>5, InitFields DEF PortsBefore, Before, Fresh, Stale
<1>9. RelOnce /\ HeldOpen
  BY <1>5, InitFields DEF RelOnce, Same, HeldOpen, Open
<1>10. AcqOwned /\ PrevOwned /\ BlitOwned
  BY InitFields DEF AcqOwned, PrevOwned, BlitOwned
<1>11. LostDone = {} /\ LostRel = {}
  BY InitFields DEF LostDone, LostRel
<1>12. FirstUses /\ FewLost
  BY <1>11, FS_EmptySet, InitFields DEF FirstUses, NothingShown, FewLost
<1> QED BY <1>1, <1>3, <1>4, <1>6, <1>7, <1>8, <1>9, <1>10, <1>12
           DEF IInv, ControlInv, JobInv, OpenInv, LostInv

\* A step that changes nothing keeps the types.
LEMMA StutterTypes ==
  ASSUME Types, Stages, UNCHANGED vars
  PROVE  Types' /\ Stages'
<1>1. QueueTypes' /\ MainTypes'
  BY DEF vars, Types, QueueTypes, MainTypes
<1>2. JobTypes' /\ Stages'
  BY DEF vars, Types, JobTypes, Stages
<1> QED BY <1>1, <1>2 DEF Types

\* Each part is kept, with the help of the others.
LEMMA StepInv ==
  ASSUME IInv, [Next]_vars
  PROVE  IInv'
<1>1. /\ Types /\ Stages /\ SlotStages /\ Uses /\ FewLeft
      /\ JobsInOrder /\ ParamsOwned /\ JobNames /\ RelNames
      /\ PortsBefore /\ Fresh /\ Stale /\ RelOnce /\ HeldOpen
      /\ AcqOwned /\ PrevOwned /\ BlitOwned /\ FirstUses /\ FewLost
  BY DEF IInv, ControlInv, JobInv, OpenInv, LostInv
<1>2. HolderNames
  BY <1>1, HoldersNamed
<1>3. Types' /\ Stages'
  BY <1>1, TypesKept, StutterTypes
<1>4. SlotStages' /\ Uses' /\ FewLeft'
  BY <1>1, SlotStagesKept, UsesKept, FewLeftKept
<1>5. JobsInOrder' /\ ParamsOwned' /\ JobNames' /\ RelNames'
  BY <1>1, JobsInOrderKept, ParamsOwnedKept, JobNamesKept, RelNamesKept
<1>6. PortsBefore' /\ Fresh' /\ Stale' /\ RelOnce' /\ HeldOpen'
  BY <1>1, <1>2, PortsBeforeKept, FreshKept, StaleKept, RelOnceKept,
     HeldOpenKept
<1>7. AcqOwned' /\ PrevOwned' /\ BlitOwned'
  BY <1>1, <1>2, AcqOwnedKept, PrevOwnedKept, BlitOwnedKept
<1>8. FirstUses' /\ FewLost'
  BY <1>1, <1>2, FirstUsesKept, FewLostKept
<1> QED BY <1>3, <1>4, <1>5, <1>6, <1>7, <1>8
           DEF IInv, ControlInv, JobInv, OpenInv, LostInv

\* The invariant holds in every state of every instance.
THEOREM BlitInv == Spec => []IInv
BY InitInv, StepInv, PTL DEF Spec

-----------------------------------------------------------------------------
(* The properties.                                                         *)

\* Every variable keeps its type, for every number of slots, jobs and frames.
THEOREM BlitTypeOK == Spec => []TypeOK
<1>1. ASSUME IInv
      PROVE  TypeOK
  <2>1. QueueTypes /\ MainTypes /\ JobTypes
    BY <1>1 DEF IInv, ControlInv, Types
  <2>2. Q!Typed
    BY <2>1 DEF QueueTypes, Q!Typed, Q!Fence, Fence, Fds
  <2> QED BY <2>1, <2>2 DEF TypeOK, MainTypes, JobTypes, Params, Leftover
<1> QED BY <1>1, BlitInv, PTL

\* MDP never writes into a slot before the overlay's last use of it ended: the
\* release fence that setDst gets is that of the latest frame that showed it.
THEOREM BlitWaits == Spec => []BlitWaitsForLastUse
<1>1. ASSUME IInv
      PROVE  BlitWaitsForLastUse
  BY <1>1 DEF IInv, ControlInv, Uses, BlitWaitsForLastUse
<1> QED BY <1>1, BlitInv, PTL

\* dequeueBuffer does not wait until all slots but one are left behind by
\* frames that could not be configured.
THEOREM BlitSlots == Spec => []SlotForEveryFrame
<1>1. ASSUME IInv
      PROVE  SlotForEveryFrame
  BY <1>1, FreeSlot DEF IInv, ControlInv
<1> QED BY <1>1, BlitInv, PTL

\* BliterNode keeps exactly the MDP jobs of the frames that are on their way.
THEOREM BlitJobParams == Spec => []JobParamsOfFrames
<1>1. ASSUME IInv
      PROVE  JobParamsOfFrames
  BY <1>1, ParamsOwnedShown DEF IInv, ControlInv, JobInv
<1> QED BY <1>1, BlitInv, PTL

\* A fence that passes through the blit path has one owner, who keeps it open;
\* two fences of each failed frame and one of each dropped job at most are lost.
THEOREM BlitFencesOwned == Spec => []FencesOwnedOnce
<1>1. ASSUME IInv
      PROVE  FencesOwnedOnce
  <2>1. /\ Types /\ Stages /\ SlotStages /\ JobsInOrder /\ ParamsOwned
        /\ JobNames /\ RelNames /\ RelOnce /\ HeldOpen /\ AcqOwned /\ PrevOwned
        /\ BlitOwned /\ FewLost
    BY <1>1 DEF IInv, ControlInv, JobInv, OpenInv, LostInv
  <2>2. HolderNames
    BY <2>1, HoldersNamed
  <2>3. IsFiniteSet(cancelled)
    <3>1. IsFiniteSet(1 .. MaxFrame) /\ cancelled \in SUBSET (1 .. MaxFrame)
      BY <2>1, Bounds, FS_Interval DEF Types, JobTypes
    <3> QED BY <3>1, FS_Subset
  <2> QED BY <2>1, <2>2, <2>3, OwnedOnce
<1> QED BY <1>1, BlitInv, PTL

\* The overlay engine gets the fence of the blit it shows, still open, in the
\* step that hands it the buffer or before.
THEOREM BlitOverlayWaits == Spec => OverlayWaitsForBlit
<1> DEFINE Given == LET job == Head(jobs)
                        blit == <<"blit", job.shows>>
                    IN  ~job.fail =>
                          /\ job.port # NoFence => job.port \in live
                          /\ blit \in live => blit \in given'
<1>1. ASSUME IInv, [Next]_vars
      PROVE  [Process => Given]_vars
  <2>1. /\ Types /\ Stages /\ SlotStages /\ JobsInOrder
        /\ JobNames /\ RelNames /\ HeldOpen /\ BlitOwned
    BY <1>1 DEF IInv, ControlInv, JobInv, OpenInv, LostInv
  <2>2. HolderNames
    BY <2>1, HoldersNamed
  <2>3. Process => Given
    BY <2>1, <2>2, OverlayGetsFence
  <2> HIDE DEF Given
  <2> QED BY <2>3
<1> HIDE DEF Given
<1>2. Spec => [][Process => Given]_vars
  BY <1>1, BlitInv, PTL DEF Spec
<1> QED BY <1>2 DEF Given, OverlayWaitsForBlit
=============================================================================
