---------------------- MODULE DisplayBufferQueue_proofs ----------------------
(***************************************************************************)
(* For every number of slots, every set of descriptors and every bound:    *)
(* the FIFO and the slot states agree, frames come out in the order they   *)
(* went in, every fence has one holder and none is lost but those of       *)
(* replaced frames, and the queue implements the abstract stream.          *)
(***************************************************************************)
EXTENDS DisplayBufferQueue, SequenceTheorems, FiniteSetTheorems, TLAPS

\* No frame is newer than the counter that numbers them.
FramesCounted ==
    /\ last <= m_frame_counter
    /\ \A i \in Slots : slots[i].frame_num <= m_frame_counter

QueueInv ==
    /\ Typed
    /\ QueueHoldsQueuedSlots
    /\ FramesInOrder
    /\ AsyncHoldsOneFrame
    /\ FramesCounted

(* The initial state satisfies the invariant.                              *)
LEMMA InitQueueInv == Init => QueueInv
  BY QueueAssumption
     DEF Init, QueueInv, Typed, QueueHoldsQueuedSlots, FramesInOrder,
         AsyncHoldsOneFrame, FramesCounted, Slots, Fence, BufferSlot,
         BufferState

(* dequeueBuffer takes a slot that no one waits for.                       *)
LEMMA DequeueStep ==
  ASSUME QueueInv, NEW i \in Slots, NEW async \in BOOLEAN,
         DequeueBuffer(i, async)
  PROVE  QueueInv'
<1> USE QueueAssumption DEF QueueInv
<1>1. slots' = [slots EXCEPT ![i].state = "DEQUEUED",
                             ![i].release_fence = NoFence]
      /\ slots[i].state = "FREE"
  BY DEF DequeueBuffer, OldestFree
<1>2. Typed'
  <2>1. slots' \in [Slots -> BufferSlot]
    <3> DEFINE s == [slots[i] EXCEPT !.state = "DEQUEUED", !.release_fence = NoFence]
    <3>1. slots[i] \in BufferSlot
      BY DEF Typed
    <3>2. s \in BufferSlot
      BY <3>1 DEF Fence, BufferSlot, BufferState
    <3>3. slots' = [slots EXCEPT ![i] = s]
      BY <1>1 DEF Typed
    <3> QED BY <3>2, <3>3 DEF Typed
  <2>2. /\ m_queue' \in Seq(Slots)
        /\ m_is_synchronous' \in BOOLEAN
        /\ m_frame_counter' \in 0 .. MaxFrame
        /\ cbuf' \in [Slots -> Fence]
        /\ last' \in 0 .. MaxFrame
        /\ dropped' \subseteq Fence
    BY DEF DequeueBuffer, Typed
  <2>3. slots[i].release_fence \in Fence /\ NoFence \in Fence
    BY DEF Typed, BufferSlot, Fence
  <2>4. pbuf' \in [Slots -> Fence] /\ open' \subseteq Fds
    BY <2>3 DEF DequeueBuffer, Typed
  <2> QED BY <2>1, <2>2, <2>4 DEF Typed
<1>3. \A k \in 1 .. Len(m_queue) : m_queue[k] \in Slots /\ m_queue[k] # i
  BY <1>1 DEF QueueHoldsQueuedSlots, Typed
<1>4. m_queue' = m_queue /\ last' = last /\ m_frame_counter' = m_frame_counter
      /\ m_is_synchronous' = m_is_synchronous
  BY DEF DequeueBuffer
<1>5. \A j \in Slots : slots'[j].frame_num = slots[j].frame_num
  BY <1>1 DEF Typed, BufferSlot
<1>6. QueueHoldsQueuedSlots'
  BY <1>1, <1>3, <1>4 DEF QueueHoldsQueuedSlots, Typed, BufferSlot
<1>7. FramesInOrder' /\ AsyncHoldsOneFrame' /\ FramesCounted'
  BY <1>3, <1>4, <1>5 DEF FramesInOrder, AsyncHoldsOneFrame, FramesCounted
<1> QED BY <1>2, <1>6, <1>7

(* cancelBuffer gives back a slot that no one waits for.                   *)
LEMMA CancelStep ==
  ASSUME QueueInv, NEW i \in Slots, CancelBuffer(i)
  PROVE  QueueInv'
<1> USE QueueAssumption DEF QueueInv
<1> DEFINE s == [state |-> "FREE", frame_num |-> 0,
                 acquire_fence |-> NoFence, release_fence |-> NoFence]
<1>1. slots' = [slots EXCEPT ![i] = s] /\ slots[i].state = "DEQUEUED"
  BY DEF CancelBuffer
<1>2. m_queue' = m_queue /\ last' = last /\ m_frame_counter' = m_frame_counter
      /\ m_is_synchronous' = m_is_synchronous
  BY DEF CancelBuffer
<1>3. Typed'
  <2>1. s \in BufferSlot
    BY DEF Fence, BufferSlot, BufferState
  <2>2. slots' \in [Slots -> BufferSlot]
    BY <1>1, <2>1 DEF Typed
  <2> QED BY <2>2 DEF CancelBuffer, Typed, Fence
<1>4. \A k \in 1 .. Len(m_queue) : m_queue[k] \in Slots /\ m_queue[k] # i
  BY <1>1 DEF QueueHoldsQueuedSlots, Typed
<1>5. \A j \in Slots : j # i => slots'[j] = slots[j]
  BY <1>1 DEF Typed
<1>6. slots'[i].state = "FREE" /\ slots'[i].frame_num = 0
  BY <1>1 DEF Typed
<1>7. QueueHoldsQueuedSlots'
  BY <1>1, <1>2, <1>4, <1>5, <1>6 DEF QueueHoldsQueuedSlots
<1>8. FramesInOrder' /\ AsyncHoldsOneFrame'
  BY <1>2, <1>4, <1>5 DEF FramesInOrder, AsyncHoldsOneFrame
<1>9. FramesCounted'
  BY <1>2, <1>5, <1>6 DEF FramesCounted, Typed
<1> QED BY <1>3, <1>7, <1>8, <1>9

(* setSynchronousMode leaves an empty queue when it goes asynchronous.     *)
LEMMA SetModeStep ==
  ASSUME QueueInv, NEW enabled \in BOOLEAN, SetSynchronousMode(enabled)
  PROVE  QueueInv'
<1> USE DEF QueueInv, SetSynchronousMode
<1>1. Typed'
  BY DEF Typed
<1>2. QueueHoldsQueuedSlots' /\ FramesInOrder' /\ FramesCounted'
  BY DEF QueueHoldsQueuedSlots, FramesInOrder, FramesCounted
<1>3. AsyncHoldsOneFrame'
  BY DEF AsyncHoldsOneFrame
<1> QED BY <1>1, <1>2, <1>3

(* releaseBuffer frees a slot that no one waits for.                       *)
LEMMA ReleaseStep ==
  ASSUME QueueInv, NEW i \in Slots, NEW fence \in NewFence,
         ReleaseBuffer(i, fence)
  PROVE  QueueInv'
<1> USE QueueAssumption DEF QueueInv
<1> DEFINE s == [slots[i] EXCEPT !.state = "FREE", !.release_fence = fence]
<1>1. slots' = [slots EXCEPT ![i] = s] /\ slots[i].state = "ACQUIRED"
  BY DEF ReleaseBuffer, Typed
<1>2. m_queue' = m_queue /\ last' = last /\ m_frame_counter' = m_frame_counter
      /\ m_is_synchronous' = m_is_synchronous
  BY DEF ReleaseBuffer
<1>3. fence \in Fence /\ slots[i] \in BufferSlot
  BY DEF NewFence, Fence, Typed
<1>4. s \in BufferSlot /\ s.state = "FREE" /\ s.frame_num = slots[i].frame_num
  BY <1>3 DEF BufferSlot, BufferState
<1>5. Typed'
  <2>1. slots' \in [Slots -> BufferSlot]
    BY <1>1, <1>4 DEF Typed
  <2>2. open' \subseteq Fds
    BY <1>3 DEF ReleaseBuffer, Typed, Fence
  <2> QED BY <2>1, <2>2 DEF ReleaseBuffer, Typed, Fence
<1>6. \A k \in 1 .. Len(m_queue) : m_queue[k] \in Slots /\ m_queue[k] # i
  BY <1>1 DEF QueueHoldsQueuedSlots, Typed
<1>7. \A j \in Slots : /\ slots'[j].frame_num = slots[j].frame_num
                       /\ j # i => slots'[j] = slots[j]
  BY <1>1, <1>4 DEF Typed
<1>8. QueueHoldsQueuedSlots'
  BY <1>1, <1>2, <1>4, <1>6, <1>7 DEF QueueHoldsQueuedSlots, Typed
<1>9. FramesInOrder' /\ AsyncHoldsOneFrame' /\ FramesCounted'
  BY <1>2, <1>6, <1>7 DEF FramesInOrder, AsyncHoldsOneFrame, FramesCounted
<1> QED BY <1>5, <1>8, <1>9

(* acquireBuffer takes the front: the rest keeps its order and is newer.   *)
LEMMA AcquireStep ==
  ASSUME QueueInv, NEW async \in BOOLEAN, AcquireBuffer(async)
  PROVE  QueueInv'
<1> USE QueueAssumption DEF QueueInv
<1> DEFINE i == Head(m_queue)
           s == [slots[i] EXCEPT !.state = "ACQUIRED", !.acquire_fence = NoFence]
<1>1. m_queue \in Seq(Slots) /\ m_queue # <<>>
  BY DEF AcquireBuffer, Typed
<1>2. /\ i = m_queue[1] /\ i \in Slots
      /\ m_queue' = Tail(m_queue) /\ m_queue' \in Seq(Slots)
      /\ Len(m_queue') = Len(m_queue) - 1 /\ Len(m_queue) >= 1
      /\ \A k \in 1 .. Len(m_queue') : m_queue'[k] = m_queue[k + 1]
  BY <1>1 DEF AcquireBuffer
<1>3. slots[i] \in BufferSlot
  BY <1>2 DEF Typed
<1>4. s \in BufferSlot /\ s.state = "ACQUIRED" /\ s.frame_num = slots[i].frame_num
  BY <1>3 DEF BufferSlot, BufferState, Fence
<1>5. slots' = [slots EXCEPT ![i] = s]
  BY <1>2 DEF AcquireBuffer, Typed
<1>6. /\ last' = slots[i].frame_num
      /\ m_frame_counter' = m_frame_counter
      /\ m_is_synchronous' = m_is_synchronous
  BY DEF AcquireBuffer
<1>7. Typed'
  <2>1. slots' \in [Slots -> BufferSlot]
    BY <1>4, <1>5 DEF Typed
  <2>2. last' \in 0 .. MaxFrame /\ slots[i].acquire_fence \in Fence
    BY <1>3, <1>6 DEF BufferSlot
  <2>3. cbuf' \in [Slots -> Fence] /\ open' \subseteq Fds
    BY <2>2, <1>2 DEF AcquireBuffer, Typed
  <2>4. pbuf' = pbuf /\ dropped' = dropped
    BY DEF AcquireBuffer
  <2> QED BY <2>1, <2>2, <2>3, <2>4, <1>2, <1>6 DEF Typed
<1>8. \A j \in Slots : /\ slots'[j].frame_num = slots[j].frame_num
                       /\ j # i => slots'[j] = slots[j]
  BY <1>4, <1>5 DEF Typed
<1>9. slots'[i].state = "ACQUIRED"
  BY <1>2, <1>4, <1>5 DEF Typed
<1>10. \A k \in 2 .. Len(m_queue) : m_queue[k] \in Slots /\ m_queue[k] # i
  BY <1>1, <1>2 DEF QueueHoldsQueuedSlots
<1>11. QueueHoldsQueuedSlots'
  <2>1. \A j \in Slots : slots'[j].state = "QUEUED" <=>
                           \E k \in 1 .. Len(m_queue') : m_queue'[k] = j
    <3> SUFFICES ASSUME NEW j \in Slots
                 PROVE  slots'[j].state = "QUEUED" <=>
                           \E k \in 1 .. Len(m_queue') : m_queue'[k] = j
      OBVIOUS
    <3>1. CASE j = i
      BY <3>1, <1>2, <1>9, <1>10
    <3>2. CASE j # i
      <4>1. slots'[j].state = "QUEUED" <=>
               \E k \in 1 .. Len(m_queue) : m_queue[k] = j
        BY <3>2, <1>8 DEF QueueHoldsQueuedSlots
      <4>2. ASSUME NEW k \in 1 .. Len(m_queue), m_queue[k] = j
            PROVE  k - 1 \in 1 .. Len(m_queue') /\ m_queue'[k - 1] = j
        BY <4>2, <3>2, <1>2
      <4>3. ASSUME NEW k \in 1 .. Len(m_queue'), m_queue'[k] = j
            PROVE  k + 1 \in 1 .. Len(m_queue) /\ m_queue[k + 1] = j
        BY <4>3, <1>2
      <4> QED BY <4>1, <4>2, <4>3
    <3> QED BY <3>1, <3>2
  <2>2. \A k, l \in 1 .. Len(m_queue') : m_queue'[k] = m_queue'[l] => k = l
    BY <1>2 DEF QueueHoldsQueuedSlots
  <2> QED BY <2>1, <2>2 DEF QueueHoldsQueuedSlots
<1>12. FramesInOrder'
  BY <1>2, <1>6, <1>8, <1>10 DEF FramesInOrder
<1>13. AsyncHoldsOneFrame'
  BY <1>2, <1>6 DEF AsyncHoldsOneFrame
<1>14. FramesCounted'
  BY <1>2, <1>6, <1>8 DEF FramesCounted
<1> QED BY <1>7, <1>11, <1>12, <1>13, <1>14

(* queueBuffer, the new frame at the end: synchronous, or nothing waits.   *)
LEMMA AppendStep ==
  ASSUME QueueInv, NEW i \in Slots, NEW fence \in NewFence,
         QueueBuffer(i, fence), m_is_synchronous \/ m_queue = <<>>
  PROVE  QueueInv'
<1> USE QueueAssumption DEF QueueInv
<1> DEFINE n == Len(m_queue)
           s == [slots[i] EXCEPT !.state = "QUEUED",
                                 !.frame_num = m_frame_counter + 1,
                                 !.acquire_fence = fence]
<1>1. /\ slots[i].state = "DEQUEUED"
      /\ slots' = [slots EXCEPT ![i] = s]
      /\ m_queue' = Append(m_queue, i)
      /\ m_frame_counter < MaxFrame
      /\ m_frame_counter' = m_frame_counter + 1
      /\ last' = last /\ m_is_synchronous' = m_is_synchronous
      /\ dropped' = dropped /\ cbuf' = cbuf
  BY DEF QueueBuffer, Typed
<1>2. /\ m_queue \in Seq(Slots) /\ n \in Nat
      /\ m_queue' \in Seq(Slots) /\ Len(m_queue') = n + 1
      /\ m_queue'[n + 1] = i
      /\ \A k \in 1 .. n : m_queue'[k] = m_queue[k] /\ m_queue[k] \in Slots
  BY <1>1 DEF Typed
<1>3. fence \in Fence /\ slots[i] \in BufferSlot /\ m_frame_counter' \in 0 .. MaxFrame
  BY <1>1 DEF NewFence, Fence, Typed
<1>4. /\ s \in BufferSlot /\ s.state = "QUEUED"
      /\ s.frame_num = m_frame_counter + 1
  BY <1>1, <1>3 DEF BufferSlot, BufferState
<1>5. Typed'
  <2>1. slots' \in [Slots -> BufferSlot]
    BY <1>1, <1>4 DEF Typed
  <2>2. open' \subseteq Fds /\ pbuf' \in [Slots -> Fence]
    BY <1>3 DEF QueueBuffer, Typed, Fence
  <2> QED BY <2>1, <2>2, <1>1, <1>2, <1>3 DEF Typed
<1>6. /\ \A j \in Slots : j # i => slots'[j] = slots[j]
      /\ slots'[i] = s
  BY <1>1 DEF Typed
<1>7. \A k \in 1 .. n : m_queue[k] # i
  BY <1>1 DEF QueueHoldsQueuedSlots
<1>8. QueueHoldsQueuedSlots'
  <2>1. \A j \in Slots : slots'[j].state = "QUEUED" <=>
                           \E k \in 1 .. n + 1 : m_queue'[k] = j
    <3> SUFFICES ASSUME NEW j \in Slots
                 PROVE  slots'[j].state = "QUEUED" <=>
                           \E k \in 1 .. n + 1 : m_queue'[k] = j
      OBVIOUS
    <3>1. CASE j = i
      BY <3>1, <1>2, <1>4, <1>6
    <3>2. CASE j # i
      BY <3>2, <1>2, <1>6 DEF QueueHoldsQueuedSlots
    <3> QED BY <3>1, <3>2
  <2>2. \A k, l \in 1 .. n + 1 : m_queue'[k] = m_queue'[l] => k = l
    BY <1>2, <1>7 DEF QueueHoldsQueuedSlots
  <2> QED BY <2>1, <2>2, <1>2 DEF QueueHoldsQueuedSlots
<1>9. FramesInOrder'
  <2>1. \A k \in 1 .. n : /\ slots'[m_queue'[k]] = slots[m_queue[k]]
                          /\ slots[m_queue[k]].frame_num \in Nat
                          /\ slots[m_queue[k]].frame_num <= m_frame_counter
    BY <1>2, <1>6, <1>7 DEF FramesCounted, Typed, BufferSlot
  <2>2. slots'[m_queue'[n + 1]].frame_num = m_frame_counter + 1
    BY <1>2, <1>4, <1>6
  <2>3. last \in Nat /\ last <= m_frame_counter /\ m_frame_counter \in Nat
    BY DEF Typed, FramesCounted
  <2>4. \A k, l \in 1 .. n + 1 :
           k < l => slots'[m_queue'[k]].frame_num < slots'[m_queue'[l]].frame_num
    <3> SUFFICES ASSUME NEW k \in 1 .. n + 1, NEW l \in 1 .. n + 1, k < l
                 PROVE  slots'[m_queue'[k]].frame_num < slots'[m_queue'[l]].frame_num
      OBVIOUS
    <3>1. k \in 1 .. n
      BY <1>2
    <3>2. CASE l \in 1 .. n
      BY <3>1, <3>2, <2>1 DEF FramesInOrder
    <3>3. CASE l = n + 1
      BY <3>1, <3>3, <2>1, <2>2, <2>3
    <3> QED BY <3>2, <3>3, <1>2
  <2>5. \A k \in 1 .. n + 1 : last < slots'[m_queue'[k]].frame_num
    BY <2>1, <2>2, <2>3, <1>2 DEF FramesInOrder
  <2> QED BY <2>4, <2>5, <1>1, <1>2 DEF FramesInOrder
<1>10. AsyncHoldsOneFrame'
  BY <1>1, <1>2 DEF AsyncHoldsOneFrame
<1>11. FramesCounted'
  BY <1>1, <1>3, <1>4, <1>6 DEF FramesCounted, Typed, BufferSlot
<1> QED BY <1>5, <1>8, <1>9, <1>10, <1>11

(* queueBuffer, the new frame in place of the one that waits.              *)
LEMMA ReplaceStep ==
  ASSUME QueueInv, NEW i \in Slots, NEW fence \in NewFence,
         QueueBuffer(i, fence), ~m_is_synchronous, Len(m_queue) = 1
  PROVE  QueueInv'
<1> USE QueueAssumption DEF QueueInv
<1> DEFINE f == m_queue[1]
           r == [slots[f] EXCEPT !.state = "FREE"]
           s == [slots[i] EXCEPT !.state = "QUEUED",
                                 !.frame_num = m_frame_counter + 1,
                                 !.acquire_fence = fence]
<1>1. m_queue \in Seq(Slots) /\ Len(m_queue) = 1 /\ f \in Slots
      /\ m_queue = <<f>>
  <2>1. m_queue \in Seq(Slots) /\ Len(m_queue) = 1
    BY DEF Typed
  <2>2. f \in Slots
    <3> HIDE DEF QueueInv
    <3>1. 1 \in 1 .. Len(m_queue)
      BY <2>1
    <3>2. m_queue[1] \in Slots
      BY <2>1, <3>1, ElementOfSeq
    <3> QED BY <3>2
  <2>3. <<f>> \in Seq(Slots) /\ Len(<<f>>) = 1
    BY <2>2
  <2> QED BY <2>1, <2>2, <2>3, SeqEqual
<1>2. slots[f].state = "QUEUED" /\ slots[i].state = "DEQUEUED" /\ f # i
  BY <1>1 DEF QueueHoldsQueuedSlots, QueueBuffer
<1>3. /\ m_queue' = [m_queue EXCEPT ![1] = i]
      /\ slots' = [[slots EXCEPT ![f] = r] EXCEPT ![i] = s]
      /\ m_frame_counter < MaxFrame
      /\ m_frame_counter' = m_frame_counter + 1
      /\ last' = last /\ m_is_synchronous' = m_is_synchronous
      /\ dropped' = dropped \cup {slots[f].acquire_fence} /\ cbuf' = cbuf
  <2>1. ~m_is_synchronous /\ m_queue # <<>>
    OBVIOUS
  <2> QED BY <2>1, <1>1, <1>2 DEF QueueBuffer, Typed
<1>4. /\ m_queue' \in Seq(Slots) /\ Len(m_queue') = 1 /\ m_queue'[1] = i
  BY <1>1, <1>3, ExceptSeq
<1>5. /\ fence \in Fence /\ slots[i] \in BufferSlot /\ slots[f] \in BufferSlot
      /\ m_frame_counter' \in 0 .. MaxFrame
  BY <1>1, <1>3 DEF NewFence, Fence, Typed
<1>6. /\ s \in BufferSlot /\ s.state = "QUEUED"
      /\ s.frame_num = m_frame_counter + 1
      /\ r \in BufferSlot /\ r.state = "FREE" /\ r.frame_num = slots[f].frame_num
  BY <1>3, <1>5 DEF BufferSlot, BufferState
<1>7. Typed'
  <2>1. slots' \in [Slots -> BufferSlot]
    BY <1>3, <1>6 DEF Typed
  <2>2. open' \subseteq Fds /\ pbuf' \in [Slots -> Fence]
    BY <1>5 DEF QueueBuffer, Typed, Fence
  <2>3. slots[f].acquire_fence \in Fence
    BY <1>5 DEF BufferSlot
  <2> QED BY <2>1, <2>2, <2>3, <1>3, <1>4, <1>5 DEF Typed
<1>8. /\ \A j \in Slots : j # i /\ j # f => slots'[j] = slots[j]
      /\ slots'[i] = s /\ slots'[f] = r
  BY <1>1, <1>2, <1>3 DEF Typed
<1>a. /\ last' = last /\ m_frame_counter' = m_frame_counter + 1
      /\ m_queue'[1] = i /\ Len(m_queue') = 1
  BY <1>3, <1>4
<1> HIDE DEF f, r, s
<1>9. \A j \in Slots : slots'[j].state = "QUEUED" <=> j = i
  <2>1. \A j \in Slots : slots[j].state = "QUEUED" <=> j = f
    BY <1>1 DEF QueueHoldsQueuedSlots
  <2> QED BY <2>1, <1>1, <1>2, <1>6, <1>8
<1>10. QueueHoldsQueuedSlots'
  BY <1>4, <1>9 DEF QueueHoldsQueuedSlots
<1>11. FramesInOrder'
  <2>1. last < slots'[i].frame_num
    <3>1. last \in Nat /\ m_frame_counter \in Nat /\ last <= m_frame_counter
      BY DEF FramesCounted, Typed
    <3> QED BY <3>1, <1>6, <1>8
  <2> QED BY <2>1, <1>a DEF FramesInOrder
<1>12. AsyncHoldsOneFrame'
  BY <1>4 DEF AsyncHoldsOneFrame
<1>13. FramesCounted'
  <2>1. last \in Nat /\ m_frame_counter \in Nat /\ last <= m_frame_counter
    BY DEF FramesCounted, Typed
  <2>2. ASSUME NEW j \in Slots
        PROVE  slots'[j].frame_num <= m_frame_counter'
    <3>1. slots[j].frame_num \in Nat /\ slots[j].frame_num <= m_frame_counter
      BY DEF FramesCounted, Typed, BufferSlot
    <3>2. CASE j = i
      BY <3>2, <2>1, <1>a, <1>6, <1>8
    <3>3. CASE j = f
      BY <3>1, <3>3, <2>1, <1>a, <1>6, <1>8
    <3>4. CASE j # i /\ j # f
      BY <3>1, <3>4, <2>1, <1>a, <1>8
    <3> QED BY <3>2, <3>3, <3>4
  <2> QED BY <2>1, <2>2, <1>a DEF FramesCounted
<1> QED BY <1>7, <1>10, <1>11, <1>12, <1>13

(* Every step preserves the invariant.                                     *)
LEMMA NextQueueInv == QueueInv /\ [Next]_vars => QueueInv'
<1> SUFFICES ASSUME QueueInv, [Next]_vars
             PROVE  QueueInv'
  OBVIOUS
<1>1. CASE Dequeue
  BY <1>1, DequeueStep DEF Dequeue
<1>2. CASE Queue
  <2>1. CASE m_is_synchronous \/ m_queue = <<>>
    BY <1>2, <2>1, AppendStep DEF Queue
  <2>2. CASE ~m_is_synchronous /\ m_queue # <<>>
    <3>1. m_queue \in Seq(Slots) /\ Len(m_queue) <= 1
      BY <2>2 DEF QueueInv, Typed, AsyncHoldsOneFrame
    <3>2. Len(m_queue) = 1
      BY <3>1, <2>2, EmptySeq
    <3> QED BY <1>2, <2>2, <3>2, ReplaceStep DEF Queue
  <2> QED BY <2>1, <2>2
<1>3. CASE Cancel
  BY <1>3, CancelStep DEF Cancel
<1>4. CASE SetMode
  BY <1>4, SetModeStep DEF SetMode
<1>5. CASE Acquire
  BY <1>5, AcquireStep DEF Acquire
<1>6. CASE Release
  BY <1>6, ReleaseStep DEF Release
<1>7. CASE UNCHANGED vars
  BY <1>7 DEF vars, queueVars, QueueInv, Typed, QueueHoldsQueuedSlots,
              FramesInOrder, AsyncHoldsOneFrame, FramesCounted
<1> QED BY <1>1, <1>2, <1>3, <1>4, <1>5, <1>6, <1>7 DEF Next

LEMMA QueueInvariant == Spec => []QueueInv
<1>1. Init => QueueInv
  BY InitQueueInv
<1>2. QueueInv /\ [Next]_vars => QueueInv'
  BY NextQueueInv
<1> QED BY <1>1, <1>2, PTL DEF Spec

(* Each waiting slot is in the FIFO once, so the FIFO is an injection of   *)
(* its positions into the slots and no longer than there are slots.        *)
LEMMA QueueBounded ==
  ASSUME Typed, QueueHoldsQueuedSlots
  PROVE  Len(m_queue) <= NumSlots
<1>1. Len(m_queue) \in Nat /\ m_queue \in [1 .. Len(m_queue) -> Slots]
  BY DEF Typed
<1>2. m_queue \in Injection(1 .. Len(m_queue), Slots)
  BY <1>1 DEF QueueHoldsQueuedSlots, Injection, IsInjective
<1>3. /\ IsFiniteSet(Slots)
      /\ Cardinality(Slots) = NumSlots
  BY FS_Interval, QueueAssumption DEF Slots
<1>4. Cardinality(1 .. Len(m_queue)) = Len(m_queue)
  BY <1>1, FS_Interval
<1>5. Cardinality(1 .. Len(m_queue)) <= Cardinality(Slots)
  BY <1>2, <1>3, FS_Injection
<1> QED BY <1>3, <1>4, <1>5

(* The queue variables keep their types, and the FIFO never outgrows the   *)
(* slots.                                                                  *)
THEOREM QueueTypeOK == Spec => []TypeOK
<1>1. QueueInv => TypeOK
  BY QueueBounded DEF QueueInv, TypeOK
<1> QED BY <1>1, QueueInvariant, PTL

(* The FIFO holds the QUEUED slots, each once: no buffer is lost and none  *)
(* is with two parties at a time.                                          *)
THEOREM QueueConsistent == Spec => []QueueHoldsQueuedSlots
<1>1. QueueInv => QueueHoldsQueuedSlots
  BY DEF QueueInv
<1> QED BY <1>1, QueueInvariant, PTL

(* Frames come out in the order they went in.                              *)
THEOREM QueueInOrder == Spec => []FramesInOrder
<1>1. QueueInv => FramesInOrder
  BY DEF QueueInv
<1> QED BY <1>1, QueueInvariant, PTL

(* At most one frame waits in asynchronous mode.                           *)
THEOREM QueueAsyncDepth == Spec => []AsyncHoldsOneFrame
<1>1. QueueInv => AsyncHoldsOneFrame
  BY DEF QueueInv
<1> QED BY <1>1, QueueInvariant, PTL

-----------------------------------------------------------------------------
(* Fences.  HeldBy is what each place holds, as one function, so that a    *)
(* call is a few updates of it; Sole and Leaked are FenceHeldOnce and      *)
(* OnlyReplacedFramesLeak of such a function.                              *)

HeldBy == [p \in Place |-> Held(p)]

Sole(h, o) ==
    \A p \in Place : h[p] # NoFence =>
        h[p] \in o /\ \A q \in Place : h[q] = h[p] => q = p

Leaked(h, o, d) == \A f \in o : (\A p \in Place : h[p] # f) => f \in d

\* What a slot's state says of the fences at its places: nobody holds the
\* fence of a buffer that is with somebody else, and an acquire fence outside
\* the queue is the one of a replaced frame.
FencePlaces ==
    \A i \in Slots :
        /\ pbuf[i] # NoFence => slots[i].state = "DEQUEUED"
        /\ cbuf[i] # NoFence => slots[i].state = "ACQUIRED"
        /\ slots[i].state = "DEQUEUED" => slots[i].release_fence = NoFence
        /\ \/ slots[i].acquire_fence = NoFence
           \/ slots[i].state = "QUEUED"
           \/ slots[i].acquire_fence \in dropped

FenceInv == FenceHeldOnce /\ OnlyReplacedFramesLeak /\ FencePlaces

\* A place by its kind and slot; the provers need not look into the pair.
Kind == {"acquire", "release", "producer", "consumer"}
At(k, i) == <<k, i>>

(* Places are pairs of a kind and a slot, all different.                   *)
LEMMA AtPlace ==
  /\ \A k \in Kind, i \in Slots : At(k, i) \in Place
  /\ \A k, l \in Kind, i, j \in Slots : At(k, i) = At(l, j) => k = l /\ i = j
<1>1. \A k \in Kind, i \in Slots : At(k, i) \in Place
  BY DEF At, Place, Kind
<1>2. \A k, l \in Kind, i, j \in Slots : At(k, i) = At(l, j) => k = l /\ i = j
  BY DEF At
<1> QED BY <1>1, <1>2

(* Every place belongs to some slot.                                       *)
LEMMA SlotOfPlace ==
  \A p \in Place : \E i \in Slots :
     \/ p = At("acquire", i)  \/ p = At("release", i)
     \/ p = At("producer", i) \/ p = At("consumer", i)
  BY DEF Place, At

(* What the four places of a slot hold.                                    *)
LEMMA HeldOfSlot ==
  \A i \in Slots : /\ HeldBy[At("acquire", i)] = slots[i].acquire_fence
                  /\ HeldBy[At("release", i)] = slots[i].release_fence
                  /\ HeldBy[At("producer", i)] = pbuf[i]
                  /\ HeldBy[At("consumer", i)] = cbuf[i]
  BY AtPlace DEF HeldBy, Held, Kind, At

(* Two functions that agree at the four places of every slot agree.        *)
LEMMA EqualByPlace ==
  ASSUME NEW g, NEW h,
         \A i \in Slots : /\ g[At("acquire", i)] = h[At("acquire", i)]
                         /\ g[At("release", i)] = h[At("release", i)]
                         /\ g[At("producer", i)] = h[At("producer", i)]
                         /\ g[At("consumer", i)] = h[At("consumer", i)]
  PROVE  \A p \in Place : g[p] = h[p]
<1> SUFFICES ASSUME NEW p \in Place
             PROVE  g[p] = h[p]
  OBVIOUS
<1>1. PICK i \in Slots : \/ p = At("acquire", i)  \/ p = At("release", i)
                         \/ p = At("producer", i) \/ p = At("consumer", i)
  BY SlotOfPlace
<1> QED BY <1>1

(* So the function after a step is the one it is meant to be.              *)
LEMMA HeldByNext ==
  ASSUME NEW h \in [Place -> Fence],
         \A i \in Slots : /\ h[At("acquire", i)] = slots'[i].acquire_fence
                         /\ h[At("release", i)] = slots'[i].release_fence
                         /\ h[At("producer", i)] = pbuf'[i]
                         /\ h[At("consumer", i)] = cbuf'[i]
  PROVE  HeldBy' = h
<1>1. \A p \in Place : HeldBy'[p] = h[p]
  <2> DEFINE g == HeldBy'
  <2>1. \A i \in Slots : /\ g[At("acquire", i)] = h[At("acquire", i)]
                         /\ g[At("release", i)] = h[At("release", i)]
                         /\ g[At("producer", i)] = h[At("producer", i)]
                         /\ g[At("consumer", i)] = h[At("consumer", i)]
    BY AtPlace DEF HeldBy, Held, Kind, At
  <2> HIDE DEF g
  <2>2. \A p \in Place : g[p] = h[p]
    BY <2>1, EqualByPlace
  <2> QED BY <2>2 DEF g
<1> QED BY <1>1 DEF HeldBy

(* The two properties are those of the function.                           *)
LEMMA FencesAsFunction ==
  /\ FenceHeldOnce <=> Sole(HeldBy, open)
  /\ OnlyReplacedFramesLeak <=> Leaked(HeldBy, open, dropped)
  /\ FenceHeldOnce' <=> Sole(HeldBy', open')
  /\ OnlyReplacedFramesLeak' <=> Leaked(HeldBy', open', dropped')
  BY DEF FenceHeldOnce, OnlyReplacedFramesLeak, Sole, Leaked, HeldBy

(* Places hold fences.                                                     *)
LEMMA HeldByType == Typed => HeldBy \in [Place -> Fence]
<1> SUFFICES ASSUME Typed, NEW p \in Place
             PROVE  Held(p) \in Fence
  BY DEF HeldBy
<1>1. \A i \in Slots : /\ slots[i].acquire_fence \in Fence
                       /\ slots[i].release_fence \in Fence
                       /\ pbuf[i] \in Fence /\ cbuf[i] \in Fence
  BY DEF Typed, BufferSlot
<1>2. PICK i \in Slots : \/ p = At("acquire", i)  \/ p = At("release", i)
                         \/ p = At("producer", i) \/ p = At("consumer", i)
  BY SlotOfPlace
<1> QED BY <1>1, <1>2 DEF Held, At

(* Closing the fence of a place.                                           *)
LEMMA CloseAt ==
  ASSUME NEW h \in [Place -> Fence], NEW o, NEW d, NEW a \in Place,
         Sole(h, o), Leaked(h, o, d)
  PROVE  LET g == [h EXCEPT ![a] = NoFence]
         IN  Sole(g, o \ {h[a]}) /\ Leaked(g, o \ {h[a]}, d)
<1> DEFINE g == [h EXCEPT ![a] = NoFence]
<1>1. \A p \in Place : g[p] = IF p = a THEN NoFence ELSE h[p]
  OBVIOUS
<1> HIDE DEF g
<1>2. Sole(g, o \ {h[a]})
  BY <1>1 DEF Sole
<1>3. Leaked(g, o \ {h[a]}, d)
  BY <1>1 DEF Leaked
<1> QED BY <1>2, <1>3 DEF g

(* Handing the fence of a place on to another, which holds none.           *)
LEMMA MoveTo ==
  ASSUME NEW h \in [Place -> Fence], NEW o, NEW d,
         NEW a \in Place, NEW b \in Place, a # b, h[b] = NoFence,
         NoFence \notin o, Sole(h, o), Leaked(h, o, d)
  PROVE  LET g == [h EXCEPT ![a] = NoFence, ![b] = h[a]]
         IN  Sole(g, o) /\ Leaked(g, o, d)
<1> DEFINE g == [h EXCEPT ![a] = NoFence, ![b] = h[a]]
<1>1. \A p \in Place : g[p] = IF p = b THEN h[a] ELSE IF p = a THEN NoFence ELSE h[p]
  OBVIOUS
<1> HIDE DEF g
<1>2. Sole(g, o)
  BY <1>1 DEF Sole
<1>3. Leaked(g, o, d)
  BY <1>1 DEF Leaked
<1> QED BY <1>2, <1>3 DEF g

(* A new fence, or none, in a place whose fence may be forgotten.          *)
LEMMA FillAt ==
  ASSUME NEW h \in [Place -> Fence], NEW o, NEW d, NEW a \in Place,
         NEW f \in Fence, f \notin o, NoFence \notin o,
         h[a] = NoFence \/ h[a] \in d, Sole(h, o), Leaked(h, o, d),
         NEW g, g = [h EXCEPT ![a] = f],
         NEW o2, o2 = IF f = NoFence THEN o ELSE o \cup {f}
  PROVE  Sole(g, o2) /\ Leaked(g, o2, d)
<1>1. \A p \in Place : g[p] = IF p = a THEN f ELSE h[p]
  OBVIOUS
<1>2. \A e : e \in o2 <=> e \in o \/ (e = f /\ f # NoFence)
  OBVIOUS
<1>3. Sole(g, o2)
  BY <1>1, <1>2 DEF Sole
<1>4. Leaked(g, o2, d)
  BY <1>1, <1>2 DEF Leaked
<1> QED BY <1>3, <1>4

(* Initially nobody holds a fence.                                         *)
LEMMA InitFenceInv == Init => FenceInv
<1> SUFFICES ASSUME Init
             PROVE  FenceInv
  OBVIOUS
<1>1. \A i \in Slots : /\ slots[i].acquire_fence = NoFence
                       /\ slots[i].release_fence = NoFence
                       /\ slots[i].state = "FREE"
                       /\ pbuf[i] = NoFence /\ cbuf[i] = NoFence
  BY DEF Init
<1>2. \A p \in Place : HeldBy[p] = NoFence
  <2> DEFINE none == [p \in Place |-> NoFence]
             h == HeldBy
  <2>1. \A i \in Slots : /\ h[At("acquire", i)] = none[At("acquire", i)]
                         /\ h[At("release", i)] = none[At("release", i)]
                         /\ h[At("producer", i)] = none[At("producer", i)]
                         /\ h[At("consumer", i)] = none[At("consumer", i)]
    BY <1>1, HeldOfSlot, AtPlace DEF Kind
  <2> HIDE DEF h, none
  <2>2. \A p \in Place : h[p] = none[p]
    BY <2>1, EqualByPlace
  <2> QED BY <2>2 DEF h, none
<1>3. FenceHeldOnce /\ OnlyReplacedFramesLeak
  BY <1>2, FencesAsFunction DEF Sole, Leaked, Init
<1> QED BY <1>1, <1>3 DEF FenceInv, FencePlaces

(* dequeueBuffer hands the release fence of the slot on, or waits and so   *)
(* closes it.                                                              *)
LEMMA DequeueFences ==
  ASSUME QueueInv, FenceInv, NEW i \in Slots, NEW async \in BOOLEAN,
         DequeueBuffer(i, async)
  PROVE  FenceInv'
<1> DEFINE r == At("release", i)
           p == At("producer", i)
<1>1. /\ Typed /\ slots[i].state = "FREE" /\ slots[i] \in BufferSlot
      /\ slots' = [slots EXCEPT ![i].state = "DEQUEUED",
                                ![i].release_fence = NoFence]
      /\ cbuf' = cbuf /\ dropped' = dropped
      /\ pbuf' = [pbuf EXCEPT ![i] = IF async THEN slots[i].release_fence
                                              ELSE NoFence]
      /\ open' = IF async THEN open ELSE open \ {slots[i].release_fence}
  BY DEF DequeueBuffer, OldestFree, QueueInv, Typed
<1>2. /\ pbuf[i] = NoFence /\ NoFence \notin open
      /\ HeldBy[r] = slots[i].release_fence /\ HeldBy[p] = NoFence
  BY <1>1, HeldOfSlot, QueueAssumption DEF FenceInv, FencePlaces, Typed
<1>3. \A j \in Slots :
         /\ slots'[j].acquire_fence = slots[j].acquire_fence
         /\ slots'[j].release_fence = IF j = i THEN NoFence ELSE slots[j].release_fence
         /\ slots'[j].state = IF j = i THEN "DEQUEUED" ELSE slots[j].state
         /\ pbuf'[j] = IF j = i THEN (IF async THEN slots[i].release_fence ELSE NoFence)
                                ELSE pbuf[j]
         /\ cbuf'[j] = cbuf[j]
  BY <1>1 DEF Typed, BufferSlot
<1>4. FencePlaces'
  <2>1. FencePlaces
    BY DEF FenceInv
  <2> SUFFICES ASSUME NEW j \in Slots
               PROVE  /\ pbuf'[j] # NoFence => slots'[j].state = "DEQUEUED"
                      /\ cbuf'[j] # NoFence => slots'[j].state = "ACQUIRED"
                      /\ slots'[j].state = "DEQUEUED" => slots'[j].release_fence = NoFence
                      /\ \/ slots'[j].acquire_fence = NoFence
                         \/ slots'[j].state = "QUEUED"
                         \/ slots'[j].acquire_fence \in dropped'
    BY DEF FencePlaces
  <2>2. /\ slots[i].state = "FREE" /\ dropped' = dropped
    BY <1>1
  <2> QED BY <2>1, <2>2, <1>3 DEF FencePlaces
<1>5. /\ r \in Place /\ p \in Place /\ r # p /\ HeldBy \in [Place -> Fence]
      /\ Sole(HeldBy, open) /\ Leaked(HeldBy, open, dropped)
  BY <1>1, AtPlace, HeldByType, FencesAsFunction DEF FenceInv, Kind
<1>6. CASE async
  <2>1. HeldBy' = [HeldBy EXCEPT ![r] = NoFence, ![p] = HeldBy[r]]
    <3> DEFINE g == [HeldBy EXCEPT ![r] = NoFence, ![p] = HeldBy[r]]
    <3>1. \A j \in Slots : /\ g[At("acquire", j)] = slots'[j].acquire_fence
                           /\ g[At("release", j)] = slots'[j].release_fence
                           /\ g[At("producer", j)] = pbuf'[j]
                           /\ g[At("consumer", j)] = cbuf'[j]
      BY <1>2, <1>3, <1>5, <1>6, AtPlace, HeldOfSlot DEF Kind
    <3>2. g \in [Place -> Fence]
      BY <1>5 DEF Fence
    <3> QED BY <3>1, <3>2, HeldByNext
  <2>2. Sole(HeldBy', open) /\ Leaked(HeldBy', open, dropped)
    BY <2>1, <1>2, <1>5, MoveTo
  <2> QED BY <2>2, <1>1, <1>4, <1>6, FencesAsFunction DEF FenceInv
<1>7. CASE ~async
  <2>1. HeldBy' = [HeldBy EXCEPT ![r] = NoFence]
    <3> DEFINE g == [HeldBy EXCEPT ![r] = NoFence]
    <3>1. \A j \in Slots : /\ g[At("acquire", j)] = slots'[j].acquire_fence
                           /\ g[At("release", j)] = slots'[j].release_fence
                           /\ g[At("producer", j)] = pbuf'[j]
                           /\ g[At("consumer", j)] = cbuf'[j]
      BY <1>2, <1>3, <1>5, <1>7, AtPlace, HeldOfSlot DEF Kind
    <3>2. g \in [Place -> Fence]
      BY <1>5 DEF Fence
    <3> QED BY <3>1, <3>2, HeldByNext
  <2>2. Sole(HeldBy', open \ {HeldBy[r]}) /\ Leaked(HeldBy', open \ {HeldBy[r]}, dropped)
    BY <2>1, <1>5, CloseAt
  <2> QED BY <2>2, <1>1, <1>2, <1>4, <1>7, FencesAsFunction DEF FenceInv
<1> QED BY <1>6, <1>7

(* cancelBuffer closes the fence the producer was given.                   *)
LEMMA CancelFences ==
  ASSUME QueueInv, FenceInv, NEW i \in Slots, CancelBuffer(i)
  PROVE  FenceInv'
<1> DEFINE a == At("acquire", i)
           r == At("release", i)
           p == At("producer", i)
           h == [HeldBy EXCEPT ![p] = NoFence]
<1>1. /\ Typed /\ FencePlaces /\ slots[i].state = "DEQUEUED"
      /\ slots' = [slots EXCEPT ![i] = [state |-> "FREE", frame_num |-> 0,
                                        acquire_fence |-> NoFence,
                                        release_fence |-> NoFence]]
      /\ pbuf' = [pbuf EXCEPT ![i] = NoFence]
      /\ open' = open \ {pbuf[i]}
      /\ cbuf' = cbuf /\ dropped' = dropped
  BY DEF CancelBuffer, QueueInv, FenceInv
<1>2. \A j \in Slots :
         /\ slots'[j].acquire_fence = IF j = i THEN NoFence ELSE slots[j].acquire_fence
         /\ slots'[j].release_fence = IF j = i THEN NoFence ELSE slots[j].release_fence
         /\ slots'[j].state = IF j = i THEN "FREE" ELSE slots[j].state
         /\ pbuf'[j] = IF j = i THEN NoFence ELSE pbuf[j]
         /\ cbuf'[j] = cbuf[j]
  BY <1>1 DEF Typed
<1>3. /\ slots[i].state = "DEQUEUED" /\ slots[i].release_fence = NoFence
      /\ slots[i].acquire_fence = NoFence \/ slots[i].acquire_fence \in dropped
      /\ dropped' = dropped /\ open' = open \ {pbuf[i]} /\ NoFence \notin open
  BY <1>1, QueueAssumption DEF FencePlaces, Typed
<1>4. FencePlaces'
  <2>1. FencePlaces
    BY DEF FenceInv
  <2> SUFFICES ASSUME NEW j \in Slots
               PROVE  /\ pbuf'[j] # NoFence => slots'[j].state = "DEQUEUED"
                      /\ cbuf'[j] # NoFence => slots'[j].state = "ACQUIRED"
                      /\ slots'[j].state = "DEQUEUED" => slots'[j].release_fence = NoFence
                      /\ \/ slots'[j].acquire_fence = NoFence
                         \/ slots'[j].state = "QUEUED"
                         \/ slots'[j].acquire_fence \in dropped'
    BY DEF FencePlaces
  <2> QED BY <2>1, <1>2, <1>3 DEF FencePlaces
<1>5. /\ a \in Place /\ r \in Place /\ p \in Place /\ a # p /\ r # p
      /\ HeldBy \in [Place -> Fence]
      /\ Sole(HeldBy, open) /\ Leaked(HeldBy, open, dropped)
      /\ HeldBy[p] = pbuf[i] /\ HeldBy[a] = slots[i].acquire_fence
  BY <1>1, AtPlace, HeldOfSlot, HeldByType, FencesAsFunction DEF FenceInv, Kind
<1>6. /\ Sole(h, open') /\ Leaked(h, open', dropped)
      /\ h \in [Place -> Fence]
      /\ h[a] = NoFence \/ h[a] \in dropped
      /\ \A q \in Place : h[q] = IF q = p THEN NoFence ELSE HeldBy[q]
  BY <1>3, <1>5, CloseAt DEF Fence
<1> HIDE DEF h
<1>7. HeldBy' = [h EXCEPT ![a] = NoFence]
  <2> DEFINE g == [h EXCEPT ![a] = NoFence]
  <2>0. \A q \in Place : g[q] = IF q = a \/ q = p THEN NoFence ELSE HeldBy[q]
    BY <1>6
  <2> HIDE DEF g
  <2>1. \A j \in Slots : /\ g[At("acquire", j)] = slots'[j].acquire_fence
                         /\ g[At("release", j)] = slots'[j].release_fence
                         /\ g[At("producer", j)] = pbuf'[j]
                         /\ g[At("consumer", j)] = cbuf'[j]
    BY <2>0, <1>2, <1>3, AtPlace, HeldOfSlot DEF Kind
  <2>2. g \in [Place -> Fence]
    BY <1>6 DEF Fence, g
  <2> QED BY <2>1, <2>2, HeldByNext DEF g
<1>8. Sole(HeldBy', open') /\ Leaked(HeldBy', open', dropped)
  <2> HIDE DEF a
  <2>1. NoFence \notin open' /\ NoFence \in Fence
    BY <1>3 DEF Fence
  <2> QED BY <2>1, <1>5, <1>6, <1>7, FillAt
<1> QED BY <1>3, <1>4, <1>8, FencesAsFunction DEF FenceInv

(* setSynchronousMode touches no fence.                                    *)
LEMMA SetModeFences ==
  ASSUME FenceInv, NEW enabled \in BOOLEAN, SetSynchronousMode(enabled)
  PROVE  FenceInv'
<1>1. /\ slots' = slots /\ pbuf' = pbuf /\ cbuf' = cbuf
      /\ open' = open /\ dropped' = dropped
  BY DEF SetSynchronousMode
<1>2. HeldBy' = HeldBy
  BY <1>1 DEF HeldBy, Held
<1>3. FenceHeldOnce' /\ OnlyReplacedFramesLeak'
  BY <1>1, <1>2, FencesAsFunction DEF FenceInv
<1> QED BY <1>1, <1>3 DEF FenceInv, FencePlaces

(* acquireBuffer hands the acquire fence of the front on, or waits and so  *)
(* closes it.                                                              *)
LEMMA AcquireFences ==
  ASSUME QueueInv, FenceInv, NEW async \in BOOLEAN, AcquireBuffer(async)
  PROVE  FenceInv'
<1> DEFINE i == Head(m_queue)
           a == At("acquire", i)
           c == At("consumer", i)
<1>1. /\ Typed /\ FencePlaces /\ i \in Slots /\ slots[i].state = "QUEUED"
  <2>1. m_queue \in Seq(Slots) /\ m_queue # <<>>
    BY DEF AcquireBuffer, QueueInv, Typed
  <2>2. i = m_queue[1] /\ i \in Slots /\ Len(m_queue) >= 1
    BY <2>1
  <2> QED BY <2>1, <2>2 DEF QueueInv, QueueHoldsQueuedSlots, FenceInv
<1> HIDE DEF i
<1>2. /\ slots' = [slots EXCEPT ![i].state = "ACQUIRED", ![i].acquire_fence = NoFence]
      /\ cbuf' = IF async THEN [cbuf EXCEPT ![i] = slots[i].acquire_fence] ELSE cbuf
      /\ open' = IF async THEN open ELSE open \ {slots[i].acquire_fence}
      /\ pbuf' = pbuf /\ dropped' = dropped
  BY DEF AcquireBuffer, i
<1>3. \A j \in Slots :
         /\ slots'[j].acquire_fence = IF j = i THEN NoFence ELSE slots[j].acquire_fence
         /\ slots'[j].release_fence = slots[j].release_fence
         /\ slots'[j].state = IF j = i THEN "ACQUIRED" ELSE slots[j].state
         /\ pbuf'[j] = pbuf[j]
         /\ cbuf'[j] = IF j = i /\ async THEN slots[i].acquire_fence ELSE cbuf[j]
  BY <1>1, <1>2 DEF Typed, BufferSlot
<1>4. /\ cbuf[i] = NoFence /\ NoFence \notin open /\ dropped' = dropped
      /\ slots[i].state = "QUEUED" /\ i \in Slots
  BY <1>1, <1>2, QueueAssumption DEF FencePlaces, Typed
<1>5. FencePlaces'
  <2>1. FencePlaces
    BY DEF FenceInv
  <2> SUFFICES ASSUME NEW j \in Slots
               PROVE  /\ pbuf'[j] # NoFence => slots'[j].state = "DEQUEUED"
                      /\ cbuf'[j] # NoFence => slots'[j].state = "ACQUIRED"
                      /\ slots'[j].state = "DEQUEUED" => slots'[j].release_fence = NoFence
                      /\ \/ slots'[j].acquire_fence = NoFence
                         \/ slots'[j].state = "QUEUED"
                         \/ slots'[j].acquire_fence \in dropped'
    BY DEF FencePlaces
  <2> QED BY <2>1, <1>1, <1>3, <1>4 DEF FencePlaces
<1>6. /\ a \in Place /\ c \in Place /\ a # c /\ HeldBy \in [Place -> Fence]
      /\ Sole(HeldBy, open) /\ Leaked(HeldBy, open, dropped)
      /\ HeldBy[a] = slots[i].acquire_fence /\ HeldBy[c] = NoFence
  BY <1>1, <1>4, AtPlace, HeldOfSlot, HeldByType, FencesAsFunction DEF FenceInv, Kind
<1>7. CASE async
  <2>1. HeldBy' = [HeldBy EXCEPT ![a] = NoFence, ![c] = HeldBy[a]]
    <3> DEFINE g == [HeldBy EXCEPT ![a] = NoFence, ![c] = HeldBy[a]]
    <3>0. \A q \in Place : g[q] = IF q = c THEN HeldBy[a]
                                  ELSE IF q = a THEN NoFence ELSE HeldBy[q]
      BY <1>6
    <3> HIDE DEF g
    <3>1. \A j \in Slots : /\ g[At("acquire", j)] = slots'[j].acquire_fence
                           /\ g[At("release", j)] = slots'[j].release_fence
                           /\ g[At("producer", j)] = pbuf'[j]
                           /\ g[At("consumer", j)] = cbuf'[j]
      BY <3>0, <1>3, <1>4, <1>6, <1>7, AtPlace, HeldOfSlot DEF Kind
    <3>2. g \in [Place -> Fence]
      BY <1>6 DEF Fence, g
    <3> QED BY <3>1, <3>2, HeldByNext DEF g
  <2>2. Sole(HeldBy', open) /\ Leaked(HeldBy', open, dropped)
    BY <2>1, <1>4, <1>6, MoveTo
  <2> QED BY <2>2, <1>2, <1>5, <1>7, FencesAsFunction DEF FenceInv
<1>8. CASE ~async
  <2>1. HeldBy' = [HeldBy EXCEPT ![a] = NoFence]
    <3> DEFINE g == [HeldBy EXCEPT ![a] = NoFence]
    <3>0. \A q \in Place : g[q] = IF q = a THEN NoFence ELSE HeldBy[q]
      BY <1>6
    <3> HIDE DEF g
    <3>1. \A j \in Slots : /\ g[At("acquire", j)] = slots'[j].acquire_fence
                           /\ g[At("release", j)] = slots'[j].release_fence
                           /\ g[At("producer", j)] = pbuf'[j]
                           /\ g[At("consumer", j)] = cbuf'[j]
      BY <3>0, <1>3, <1>4, <1>6, <1>8, AtPlace, HeldOfSlot DEF Kind
    <3>2. g \in [Place -> Fence]
      BY <1>6 DEF Fence, g
    <3> QED BY <3>1, <3>2, HeldByNext DEF g
  <2>2. Sole(HeldBy', open \ {HeldBy[a]}) /\ Leaked(HeldBy', open \ {HeldBy[a]}, dropped)
    BY <2>1, <1>6, CloseAt
  <2> QED BY <2>2, <1>2, <1>5, <1>6, <1>8, FencesAsFunction DEF FenceInv
<1> QED BY <1>7, <1>8

(* releaseBuffer closes the fences that the slot and the consumer hold and *)
(* keeps the one it is given.                                              *)
LEMMA ReleaseFences ==
  ASSUME QueueInv, FenceInv, NEW i \in Slots, NEW fence \in NewFence,
         ReleaseBuffer(i, fence)
  PROVE  FenceInv'
<1> DEFINE r == At("release", i)
           c == At("consumer", i)
           h == [HeldBy EXCEPT ![r] = NoFence]
           e == [h EXCEPT ![c] = NoFence]
           o == (open \ {HeldBy[r]}) \ {h[c]}
<1>1. /\ Typed /\ FencePlaces /\ slots[i].state = "ACQUIRED"
      /\ slots' = [slots EXCEPT ![i].state = "FREE", ![i].release_fence = fence]
      /\ cbuf' = [cbuf EXCEPT ![i] = NoFence]
      /\ open' = (open \ {slots[i].release_fence, cbuf[i]}) \cup ({fence} \ {NoFence})
      /\ pbuf' = pbuf /\ dropped' = dropped
  BY DEF ReleaseBuffer, QueueInv, FenceInv
<1>2. \A j \in Slots :
         /\ slots'[j].acquire_fence = slots[j].acquire_fence
         /\ slots'[j].release_fence = IF j = i THEN fence ELSE slots[j].release_fence
         /\ slots'[j].state = IF j = i THEN "FREE" ELSE slots[j].state
         /\ pbuf'[j] = pbuf[j]
         /\ cbuf'[j] = IF j = i THEN NoFence ELSE cbuf[j]
  BY <1>1 DEF Typed, BufferSlot
<1>3. /\ slots[i].state = "ACQUIRED" /\ dropped' = dropped
      /\ NoFence \notin open /\ fence \notin open /\ fence \in Fence
  BY <1>1, QueueAssumption DEF Typed, NewFence, Fence
<1>4. FencePlaces'
  <2>1. FencePlaces
    BY DEF FenceInv
  <2> SUFFICES ASSUME NEW j \in Slots
               PROVE  /\ pbuf'[j] # NoFence => slots'[j].state = "DEQUEUED"
                      /\ cbuf'[j] # NoFence => slots'[j].state = "ACQUIRED"
                      /\ slots'[j].state = "DEQUEUED" => slots'[j].release_fence = NoFence
                      /\ \/ slots'[j].acquire_fence = NoFence
                         \/ slots'[j].state = "QUEUED"
                         \/ slots'[j].acquire_fence \in dropped'
    BY DEF FencePlaces
  <2> QED BY <2>1, <1>2, <1>3 DEF FencePlaces
<1>5. /\ r \in Place /\ c \in Place /\ r # c /\ HeldBy \in [Place -> Fence]
      /\ Sole(HeldBy, open) /\ Leaked(HeldBy, open, dropped)
      /\ HeldBy[r] = slots[i].release_fence /\ HeldBy[c] = cbuf[i]
  BY <1>1, AtPlace, HeldOfSlot, HeldByType, FencesAsFunction DEF FenceInv, Kind
<1>6. /\ Sole(h, open \ {HeldBy[r]}) /\ Leaked(h, open \ {HeldBy[r]}, dropped)
      /\ h \in [Place -> Fence] /\ h[c] = HeldBy[c]
      /\ \A q \in Place : h[q] = IF q = r THEN NoFence ELSE HeldBy[q]
  BY <1>5, CloseAt DEF Fence
<1> HIDE DEF h, r, c
<1>7. /\ Sole(e, o) /\ Leaked(e, o, dropped)
      /\ e \in [Place -> Fence] /\ e[r] = NoFence
      /\ \A q \in Place : e[q] = IF q = c THEN NoFence ELSE h[q]
  BY <1>5, <1>6, CloseAt DEF Fence
<1>8. /\ fence \notin o /\ NoFence \notin o
      /\ open' = IF fence = NoFence THEN o ELSE o \cup {fence}
  BY <1>1, <1>3, <1>5, <1>6
<1> HIDE DEF e, o
<1>9. HeldBy' = [e EXCEPT ![r] = fence]
  <2> DEFINE g == [e EXCEPT ![r] = fence]
  <2>0. \A q \in Place : g[q] = IF q = r THEN fence
                                ELSE IF q = c THEN NoFence ELSE HeldBy[q]
    BY <1>6, <1>7
  <2>2. g \in [Place -> Fence]
    BY <1>3, <1>7
  <2> HIDE DEF g
  <2>1. \A j \in Slots : /\ g[At("acquire", j)] = slots'[j].acquire_fence
                         /\ g[At("release", j)] = slots'[j].release_fence
                         /\ g[At("producer", j)] = pbuf'[j]
                         /\ g[At("consumer", j)] = cbuf'[j]
    BY <2>0, <1>2, <1>3, AtPlace, HeldOfSlot DEF Kind, r, c
  <2> QED BY <2>1, <2>2, HeldByNext DEF g
<1>10. Sole(HeldBy', open') /\ Leaked(HeldBy', open', dropped)
  BY <1>3, <1>5, <1>7, <1>8, <1>9, FillAt
<1> QED BY <1>3, <1>4, <1>10, FencesAsFunction DEF FenceInv

(* queueBuffer closes the producer's fence and keeps the one it is given;  *)
(* the fence of a frame it replaces is dropped.                            *)
LEMMA QueueFences ==
  ASSUME QueueInv, FenceInv, NEW i \in Slots, NEW fence \in NewFence,
         QueueBuffer(i, fence)
  PROVE  FenceInv'
<1> DEFINE a == At("acquire", i)
           p == At("producer", i)
           h == [HeldBy EXCEPT ![p] = NoFence]
           f == m_queue[1]
           replace == ~m_is_synchronous /\ m_queue # <<>>
           o == open \ {HeldBy[p]}
<1>1. /\ Typed /\ FencePlaces /\ slots[i].state = "DEQUEUED"
      /\ open' = (open \ {pbuf[i]}) \cup ({fence} \ {NoFence})
      /\ pbuf' = [pbuf EXCEPT ![i] = NoFence]
      /\ cbuf' = cbuf
  BY DEF QueueBuffer, QueueInv, FenceInv
<1>2. replace => f \in Slots /\ slots[f].state = "QUEUED"
  <2> SUFFICES ASSUME replace
               PROVE  f \in Slots /\ slots[f].state = "QUEUED"
    OBVIOUS
  <2>1. m_queue \in Seq(Slots) /\ m_queue # <<>>
    BY <1>1 DEF Typed
  <2>2. f \in Slots /\ 1 \in 1 .. Len(m_queue)
    BY <2>1
  <2> QED BY <2>2 DEF QueueInv, QueueHoldsQueuedSlots
<1>3. dropped' = IF replace THEN dropped \cup {slots[f].acquire_fence} ELSE dropped
  BY DEF QueueBuffer
<1>4. \A j \in Slots :
         /\ slots'[j].acquire_fence = IF j = i THEN fence ELSE slots[j].acquire_fence
         /\ slots'[j].release_fence = slots[j].release_fence
         /\ slots'[j].state = IF j = i THEN "QUEUED"
                              ELSE IF replace /\ j = f THEN "FREE"
                              ELSE slots[j].state
         /\ pbuf'[j] = IF j = i THEN NoFence ELSE pbuf[j]
         /\ cbuf'[j] = cbuf[j]
  <2> HIDE DEF f
  <2>1. CASE replace
    <3>1. slots' = [[slots EXCEPT ![f].state = "FREE"]
                      EXCEPT ![i].state = "QUEUED",
                             ![i].frame_num = m_frame_counter + 1,
                             ![i].acquire_fence = fence]
      BY <2>1 DEF QueueBuffer, f
    <3> QED BY <3>1, <2>1, <1>1, <1>2 DEF Typed, BufferSlot
  <2>2. CASE ~replace
    <3>1. slots' = [slots EXCEPT ![i].state = "QUEUED",
                                 ![i].frame_num = m_frame_counter + 1,
                                 ![i].acquire_fence = fence]
      BY <2>2 DEF QueueBuffer
    <3> QED BY <3>1, <2>2, <1>1 DEF Typed, BufferSlot
  <2> QED BY <2>1, <2>2
<1>5. /\ NoFence \notin open /\ fence \notin open /\ fence \in Fence
      /\ slots[i].state = "DEQUEUED"
      /\ slots[i].acquire_fence = NoFence \/ slots[i].acquire_fence \in dropped
      /\ dropped \subseteq dropped'
  BY <1>1, <1>3, QueueAssumption DEF Typed, FencePlaces, NewFence, Fence
<1>6. FencePlaces'
  <2>1. FencePlaces /\ (replace => slots[f].acquire_fence \in dropped')
    BY <1>3 DEF FenceInv
  <2> HIDE DEF f, replace
  <2> SUFFICES ASSUME NEW j \in Slots
               PROVE  /\ pbuf'[j] # NoFence => slots'[j].state = "DEQUEUED"
                      /\ cbuf'[j] # NoFence => slots'[j].state = "ACQUIRED"
                      /\ slots'[j].state = "DEQUEUED" => slots'[j].release_fence = NoFence
                      /\ \/ slots'[j].acquire_fence = NoFence
                         \/ slots'[j].state = "QUEUED"
                         \/ slots'[j].acquire_fence \in dropped'
    BY DEF FencePlaces
  <2> QED BY <2>1, <1>2, <1>4, <1>5 DEF FencePlaces
<1>7. /\ a \in Place /\ p \in Place /\ a # p /\ HeldBy \in [Place -> Fence]
      /\ Sole(HeldBy, open) /\ Leaked(HeldBy, open, dropped')
      /\ HeldBy[p] = pbuf[i] /\ HeldBy[a] = slots[i].acquire_fence
  <2>1. /\ a \in Place /\ p \in Place /\ a # p /\ HeldBy \in [Place -> Fence]
        /\ Sole(HeldBy, open) /\ Leaked(HeldBy, open, dropped)
        /\ HeldBy[p] = pbuf[i] /\ HeldBy[a] = slots[i].acquire_fence
    BY <1>1, AtPlace, HeldOfSlot, HeldByType, FencesAsFunction DEF FenceInv, Kind
  <2> QED BY <2>1, <1>5 DEF Leaked
<1>8. /\ Sole(h, o) /\ Leaked(h, o, dropped')
      /\ h \in [Place -> Fence]
      /\ h[a] = NoFence \/ h[a] \in dropped'
      /\ \A q \in Place : h[q] = IF q = p THEN NoFence ELSE HeldBy[q]
  BY <1>5, <1>7, CloseAt DEF Fence
<1>9. /\ fence \notin o /\ NoFence \notin o
      /\ open' = IF fence = NoFence THEN o ELSE o \cup {fence}
  BY <1>1, <1>5, <1>7
<1> HIDE DEF h, o, a, p
<1>10. HeldBy' = [h EXCEPT ![a] = fence]
  <2> DEFINE g == [h EXCEPT ![a] = fence]
  <2>0. \A q \in Place : g[q] = IF q = a THEN fence
                                ELSE IF q = p THEN NoFence ELSE HeldBy[q]
    BY <1>8
  <2>2. g \in [Place -> Fence]
    BY <1>5, <1>8
  <2> HIDE DEF g
  <2>1. \A j \in Slots : /\ g[At("acquire", j)] = slots'[j].acquire_fence
                         /\ g[At("release", j)] = slots'[j].release_fence
                         /\ g[At("producer", j)] = pbuf'[j]
                         /\ g[At("consumer", j)] = cbuf'[j]
    BY <2>0, <1>4, AtPlace, HeldOfSlot DEF Kind, a, p
  <2> QED BY <2>1, <2>2, HeldByNext DEF g
<1>11. Sole(HeldBy', open') /\ Leaked(HeldBy', open', dropped')
  BY <1>5, <1>7, <1>8, <1>9, <1>10, FillAt
<1> QED BY <1>6, <1>11, FencesAsFunction DEF FenceInv

(* Every step preserves the fence invariant.                               *)
LEMMA NextFenceInv == QueueInv /\ FenceInv /\ [Next]_vars => FenceInv'
<1> SUFFICES ASSUME QueueInv, FenceInv, [Next]_vars
             PROVE  FenceInv'
  OBVIOUS
<1>1. CASE Dequeue
  BY <1>1, DequeueFences DEF Dequeue
<1>2. CASE Queue
  BY <1>2, QueueFences DEF Queue
<1>3. CASE Cancel
  BY <1>3, CancelFences DEF Cancel
<1>4. CASE SetMode
  BY <1>4, SetModeFences DEF SetMode
<1>5. CASE Acquire
  BY <1>5, AcquireFences DEF Acquire
<1>6. CASE Release
  BY <1>6, ReleaseFences DEF Release
<1>7. CASE UNCHANGED vars
  <2>1. /\ slots' = slots /\ pbuf' = pbuf /\ cbuf' = cbuf
        /\ open' = open /\ dropped' = dropped
    BY <1>7 DEF vars, queueVars
  <2>2. HeldBy' = HeldBy
    BY <2>1 DEF HeldBy, Held
  <2>3. FenceHeldOnce' /\ OnlyReplacedFramesLeak'
    BY <2>1, <2>2, FencesAsFunction DEF FenceInv
  <2> QED BY <2>1, <2>3 DEF FenceInv, FencePlaces
<1> QED BY <1>1, <1>2, <1>3, <1>4, <1>5, <1>6, <1>7 DEF Next

(* The fences of the queue are accounted for in every reachable state.     *)
LEMMA FenceInvariant == Spec => []FenceInv
<1>1. Init => QueueInv /\ FenceInv
  BY InitQueueInv, InitFenceInv
<1>2. QueueInv /\ FenceInv /\ [Next]_vars => QueueInv' /\ FenceInv'
  BY NextQueueInv, NextFenceInv
<1> QED BY <1>1, <1>2, PTL DEF Spec

(* Whoever will close a descriptor holds it alone and it is open: no fence *)
(* of the queue is closed twice or used after it was closed.               *)
THEOREM QueueFencesHeldOnce == Spec => []FenceHeldOnce
<1>1. FenceInv => FenceHeldOnce
  BY DEF FenceInv
<1> QED BY <1>1, FenceInvariant, PTL

(* The only descriptors the queue loses are the acquire fences of frames   *)
(* that the asynchronous mode replaced.                                    *)
THEOREM QueueLeaksOnlyReplaced == Spec => []OnlyReplacedFramesLeak
<1>1. FenceInv => OnlyReplacedFramesLeak
  BY DEF FenceInv
<1> QED BY <1>1, FenceInvariant, PTL

-----------------------------------------------------------------------------
(* The queue implements the abstract stream: the frames that wait are the  *)
(* numbers of the queued slots, oldest first.                              *)

Waiting == [k \in 1 .. Len(m_queue) |-> slots[m_queue[k]].frame_num]

(* What waits, as a sequence.                                              *)
LEMMA WaitingSeq ==
  ASSUME Typed
  PROVE  /\ Waiting \in Seq(Nat) /\ Len(Waiting) = Len(m_queue)
         /\ Len(m_queue) \in Nat
         /\ DOMAIN Waiting = 1 .. Len(m_queue)
         /\ \A k \in 1 .. Len(m_queue) : Waiting[k] = slots[m_queue[k]].frame_num
         /\ (m_queue = <<>>) <=> (Waiting = <<>>)
<1>1. m_queue \in Seq(Slots) /\ Len(m_queue) \in Nat
  BY DEF Typed
<1>2. \A k \in 1 .. Len(m_queue) : slots[m_queue[k]].frame_num \in Nat
  <2> SUFFICES ASSUME NEW k \in 1 .. Len(m_queue)
               PROVE  slots[m_queue[k]].frame_num \in Nat
    OBVIOUS
  <2>1. m_queue[k] \in Slots
    BY <1>1
  <2> QED BY <2>1 DEF Typed, BufferSlot
<1>3. Waiting \in Seq(Nat) /\ Len(Waiting) = Len(m_queue)
  BY <1>1, <1>2, IsASeq, LenProperties DEF Waiting
<1> QED BY <1>1, <1>3, EmptySeq DEF Waiting

(* The initial state is an initial state of the stream.                    *)
LEMMA InitStream == Init => Stream!Init
<1> SUFFICES ASSUME Init
             PROVE  Stream!Init
  OBVIOUS
<1>1. Typed /\ m_queue = <<>>
  BY InitQueueInv DEF QueueInv, Init
<1>2. Waiting = <<>>
  BY <1>1, WaitingSeq
<1> QED BY <1>2 DEF Init, Stream!Init, Waiting

(* A call that neither queues nor acquires leaves the frames that wait.    *)
LEMMA WaitingKept ==
  ASSUME Typed, m_queue' = m_queue,
         \A k \in 1 .. Len(m_queue) :
            slots'[m_queue[k]].frame_num = slots[m_queue[k]].frame_num
  PROVE  Waiting' = Waiting
  BY DEF Waiting

(* So dequeueBuffer, cancelBuffer and releaseBuffer are stutters.          *)
LEMMA StreamStutters ==
  ASSUME QueueInv, NEW i \in Slots,
         slots[i].state # "QUEUED",
         \A j \in Slots : j # i => slots'[j] = slots[j],
         m_queue' = m_queue, m_is_synchronous' = m_is_synchronous,
         m_frame_counter' = m_frame_counter, last' = last
  PROVE  UNCHANGED Stream!vars
<1>1. \A k \in 1 .. Len(m_queue) : m_queue[k] \in Slots /\ m_queue[k] # i
  BY DEF QueueInv, QueueHoldsQueuedSlots, Typed
<1>2. Waiting' = Waiting
  BY <1>1, WaitingKept DEF QueueInv
<1> QED BY <1>2 DEF Stream!vars, Waiting

(* queueBuffer puts the next frame: at the end, or alone.                  *)
LEMMA QueuePuts ==
  ASSUME QueueInv, NEW i \in Slots, NEW fence \in NewFence,
         QueueBuffer(i, fence)
  PROVE  Stream!Put
<1> DEFINE n == Len(m_queue)
<1>1. /\ Typed /\ slots[i].state = "DEQUEUED"
      /\ m_queue \in Seq(Slots) /\ n \in Nat
      /\ m_frame_counter < MaxFrame /\ m_frame_counter \in Nat
      /\ m_frame_counter' = m_frame_counter + 1
      /\ m_is_synchronous' = m_is_synchronous /\ last' = last
  BY DEF QueueBuffer, QueueInv, Typed
<1>2. \A k \in 1 .. n : m_queue[k] \in Slots /\ m_queue[k] # i
  BY <1>1 DEF QueueInv, QueueHoldsQueuedSlots
<1>3. QueueInv'
  <2>1. Queue
    BY DEF Queue
  <2> QED BY <2>1, NextQueueInv DEF Next
<1>4. m_queue' \in Seq(Slots) /\ Typed'
  BY <1>3 DEF QueueInv, Typed
<1>5. Waiting \in Seq(Nat) /\ Len(Waiting) = n
      /\ \A k \in 1 .. n : Waiting[k] = slots[m_queue[k]].frame_num
  BY <1>1, WaitingSeq
<1>6. Waiting' = [k \in 1 .. Len(m_queue') |-> slots'[m_queue'[k]].frame_num]
  BY DEF Waiting
<1>7. CASE m_is_synchronous \/ m_queue = <<>>
  <2>1. /\ m_queue' = Append(m_queue, i)
        /\ slots' = [slots EXCEPT ![i].state = "QUEUED",
                                  ![i].frame_num = m_frame_counter + 1,
                                  ![i].acquire_fence = fence]
    BY <1>7 DEF QueueBuffer
  <2>2. /\ Len(m_queue') = n + 1 /\ m_queue'[n + 1] = i
        /\ \A k \in 1 .. n : m_queue'[k] = m_queue[k]
    BY <2>1, <1>1
  <2>3. /\ slots'[i].frame_num = m_frame_counter + 1
        /\ \A j \in Slots : j # i => slots'[j] = slots[j]
    BY <2>1, <1>1 DEF Typed, BufferSlot
  <2>4. Waiting' = Append(Waiting, m_frame_counter + 1)
    <3> DEFINE w == Append(Waiting, m_frame_counter + 1)
    <3>1. /\ w \in Seq(Nat) /\ Len(w) = n + 1 /\ w[n + 1] = m_frame_counter + 1
          /\ \A k \in 1 .. n : w[k] = Waiting[k]
      BY <1>1, <1>5
    <3>2. w = [k \in 1 .. n + 1 |-> w[k]]
      BY <3>1
    <3> HIDE DEF w
    <3>3. ASSUME NEW k \in 1 .. n + 1
          PROVE  slots'[m_queue'[k]].frame_num = w[k]
      <4>1. CASE k \in 1 .. n
        BY <4>1, <3>1, <2>2, <2>3, <1>2, <1>5
      <4>2. CASE k = n + 1
        BY <4>2, <3>1, <2>2, <2>3
      <4> QED BY <4>1, <4>2, <1>1
    <3>4. Waiting' = [k \in 1 .. n + 1 |-> w[k]]
      BY <3>3, <2>2, <1>6
    <3> QED BY <3>2, <3>4 DEF w
  <2>5. ~m_is_synchronous => Append(Waiting, m_frame_counter + 1) = <<m_frame_counter + 1>>
    <3>1. ~m_is_synchronous => Waiting = <<>>
      BY <1>1, <1>7, WaitingSeq
    <3> QED BY <3>1
  <2> QED BY <2>4, <2>5, <1>1 DEF Stream!Put, Waiting
<1>8. CASE ~m_is_synchronous /\ m_queue # <<>>
  <2>1. n = 1
    <3>1. n <= 1
      BY <1>8 DEF QueueInv, AsyncHoldsOneFrame
    <3>2. n \in Nat \ {0}
      BY <1>1, <1>8, EmptySeq
    <3> QED BY <3>1, <3>2
  <2>2. m_queue' = [m_queue EXCEPT ![1] = i] /\ m_queue[1] # i /\ m_queue[1] \in Slots
    BY <1>2, <1>8, <2>1 DEF QueueBuffer
  <2>3. Len(m_queue') = 1 /\ m_queue'[1] = i
    BY <2>1, <2>2, <1>1
  <2>4. slots'[i].frame_num = m_frame_counter + 1
    <3>1. slots' = [[slots EXCEPT ![m_queue[1]].state = "FREE"]
                      EXCEPT ![i].state = "QUEUED",
                             ![i].frame_num = m_frame_counter + 1,
                             ![i].acquire_fence = fence]
      BY <1>8 DEF QueueBuffer
    <3> QED BY <3>1, <2>2, <1>1 DEF Typed, BufferSlot
  <2>5. Waiting' = <<m_frame_counter + 1>>
    <3>1. Waiting' = [k \in 1 .. 1 |-> m_frame_counter + 1]
      BY <2>3, <2>4, <1>6
    <3> QED BY <3>1
  <2> QED BY <2>5, <1>1, <1>8 DEF Stream!Put, Waiting
<1> QED BY <1>7, <1>8

(* acquireBuffer takes the oldest frame.                                   *)
LEMMA AcquireTakes ==
  ASSUME QueueInv, NEW async \in BOOLEAN, AcquireBuffer(async)
  PROVE  Stream!Take
<1> DEFINE n == Len(m_queue)
           i == Head(m_queue)
<1>1. /\ Typed /\ m_queue \in Seq(Slots) /\ m_queue # <<>>
      /\ m_queue' = Tail(m_queue)
      /\ slots' = [slots EXCEPT ![i].state = "ACQUIRED", ![i].acquire_fence = NoFence]
      /\ last' = slots[i].frame_num
      /\ m_frame_counter' = m_frame_counter
      /\ m_is_synchronous' = m_is_synchronous
  BY DEF AcquireBuffer, QueueInv, Typed
<1>2. /\ n \in Nat /\ n >= 1 /\ i = m_queue[1] /\ i \in Slots
      /\ Len(m_queue') = n - 1
      /\ \A k \in 1 .. n - 1 : m_queue'[k] = m_queue[k + 1]
      /\ \A k \in 1 .. n : m_queue[k] \in Slots
  BY <1>1
<1>3. \A j \in Slots : slots'[j].frame_num = slots[j].frame_num
  BY <1>1, <1>2 DEF Typed, BufferSlot
<1>4. /\ Waiting \in Seq(Nat) /\ Len(Waiting) = n /\ Waiting # <<>>
      /\ \A k \in 1 .. n : Waiting[k] = slots[m_queue[k]].frame_num
  BY <1>1, WaitingSeq
<1>5. last' = Head(Waiting)
  <2>1. Head(Waiting) = Waiting[1]
    BY <1>4
  <2>2. 1 \in 1 .. n
    BY <1>2
  <2> QED BY <2>1, <2>2, <1>1, <1>2, <1>4
<1>6. Waiting' = Tail(Waiting)
  <2> DEFINE w == Tail(Waiting)
  <2>1. /\ w \in Seq(Nat) /\ Len(w) = n - 1
        /\ \A k \in 1 .. n - 1 : w[k] = Waiting[k + 1]
    BY <1>2, <1>4
  <2> HIDE DEF w
  <2>2. w = [k \in 1 .. n - 1 |-> w[k]]
    BY <2>1, LenProperties
  <2>3. ASSUME NEW k \in 1 .. n - 1
        PROVE  slots'[m_queue'[k]].frame_num = w[k]
    <3>1. k + 1 \in 1 .. n
      BY <1>2
    <3> QED BY <3>1, <2>1, <1>2, <1>3, <1>4
  <2>4. Waiting' = [k \in 1 .. n - 1 |-> slots'[m_queue'[k]].frame_num]
    BY <1>2 DEF Waiting
  <2>5. Waiting' = [k \in 1 .. n - 1 |-> w[k]]
    BY <2>3, <2>4
  <2> QED BY <2>2, <2>5 DEF w
<1> QED BY <1>1, <1>4, <1>5, <1>6 DEF Stream!Take, Waiting

(* setSynchronousMode switches the stream.                                 *)
LEMMA SetModeSwitches ==
  ASSUME QueueInv, NEW enabled \in BOOLEAN, SetSynchronousMode(enabled)
  PROVE  Stream!Switch
<1>1. /\ Typed /\ m_is_synchronous # enabled /\ m_is_synchronous' = enabled
      /\ m_is_synchronous \in BOOLEAN
      /\ (~enabled => m_queue = <<>>)
      /\ slots' = slots /\ m_queue' = m_queue
      /\ m_frame_counter' = m_frame_counter /\ last' = last
  BY DEF SetSynchronousMode, QueueInv, Typed
<1>2. Waiting' = Waiting
  BY <1>1, WaitingKept
<1>3. m_is_synchronous => Waiting = <<>>
  BY <1>1, WaitingSeq
<1> QED BY <1>1, <1>2, <1>3 DEF Stream!Switch, Waiting

(* Every step of the queue is a step of the stream or a stutter.           *)
LEMMA NextStream == QueueInv /\ [Next]_vars => [Stream!Next]_(Stream!vars)
<1> SUFFICES ASSUME QueueInv, [Next]_vars
             PROVE  Stream!Next \/ UNCHANGED Stream!vars
  OBVIOUS
<1>1. Typed
  BY DEF QueueInv
<1>2. CASE Dequeue
  <2>1. PICK i \in Slots, async \in BOOLEAN : DequeueBuffer(i, async)
    BY <1>2 DEF Dequeue
  <2>2. /\ slots[i].state # "QUEUED"
        /\ \A j \in Slots : j # i => slots'[j] = slots[j]
        /\ m_queue' = m_queue /\ m_is_synchronous' = m_is_synchronous
        /\ m_frame_counter' = m_frame_counter /\ last' = last
    BY <2>1, <1>1 DEF DequeueBuffer, OldestFree, Typed
  <2> QED BY <2>2, StreamStutters
<1>3. CASE Queue
  BY <1>3, QueuePuts DEF Queue, Stream!Next
<1>4. CASE Cancel
  <2>1. PICK i \in Slots : CancelBuffer(i)
    BY <1>4 DEF Cancel
  <2>2. /\ slots[i].state # "QUEUED"
        /\ \A j \in Slots : j # i => slots'[j] = slots[j]
        /\ m_queue' = m_queue /\ m_is_synchronous' = m_is_synchronous
        /\ m_frame_counter' = m_frame_counter /\ last' = last
    BY <2>1, <1>1 DEF CancelBuffer, Typed
  <2> QED BY <2>2, StreamStutters
<1>5. CASE SetMode
  BY <1>5, SetModeSwitches DEF SetMode, Stream!Next
<1>6. CASE Acquire
  BY <1>6, AcquireTakes DEF Acquire, Stream!Next
<1>7. CASE Release
  <2>1. PICK i \in Slots, fence \in NewFence : ReleaseBuffer(i, fence)
    BY <1>7 DEF Release
  <2>2. /\ slots[i].state # "QUEUED"
        /\ \A j \in Slots : j # i => slots'[j] = slots[j]
        /\ m_queue' = m_queue /\ m_is_synchronous' = m_is_synchronous
        /\ m_frame_counter' = m_frame_counter /\ last' = last
    BY <2>1, <1>1 DEF ReleaseBuffer, Typed
  <2> QED BY <2>2, StreamStutters
<1>8. CASE UNCHANGED vars
  BY <1>8 DEF vars, queueVars, Stream!vars
<1> QED BY <1>2, <1>3, <1>4, <1>5, <1>6, <1>7, <1>8 DEF Next

(* The queue implements the stream of frames: numbered as they are queued, *)
(* handed out in that order, all of them while the mode is synchronous.    *)
THEOREM QueueImplementsStream == Spec => ImplementsStream
<1>1. Init => Stream!Init
  BY InitStream
<1>2. QueueInv /\ [Next]_vars => [Stream!Next]_(Stream!vars)
  BY NextStream
<1> QED BY <1>1, <1>2, QueueInvariant, PTL DEF Spec, ImplementsStream, Stream!Spec

=============================================================================
