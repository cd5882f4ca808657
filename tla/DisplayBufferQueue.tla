------------------------- MODULE DisplayBufferQueue -------------------------
(***************************************************************************)
(* The buffer queue between a producer (MDP blit, OVL write-back, AI blue  *)
(* light) and a consumer (overlay input, mirror blit) of one display:      *)
(* 2.0.0/queue.cpp.  Every operation runs under m_mutex, so one call is    *)
(* one action; a call that waits on m_dequeue_condition is an action that  *)
(* is not enabled until the condition it re-checks holds.                  *)
(*                                                                         *)
(* A fence is a file descriptor: a member of Fds that is in `open` from    *)
(* the moment the kernel returns it until somebody closes it.  The queue   *)
(* stores descriptors in its slots and hands them out; `pbuf` and `cbuf`   *)
(* are the DisplayBuffers the producer and the consumer got from it.       *)
(***************************************************************************)
EXTENDS Integers, Sequences, FiniteSets

CONSTANTS
    NumSlots,   \* NUM_BUFFER_SLOTS
    Fds,        \* descriptor numbers
    NoFence,    \* -1
    MaxFrame    \* bound on m_frame_counter

ASSUME QueueAssumption ==
    /\ NumSlots \in Nat \ {0}
    /\ MaxFrame \in Nat
    /\ NoFence \notin Fds

VARIABLES
    slots,             \* m_slots
    m_queue,           \* indices of the QUEUED slots, oldest first
    m_is_synchronous,
    m_frame_counter,
    open,              \* descriptors the process has open
    pbuf,              \* slot -> release fence in the producer's hands
    cbuf,              \* slot -> acquire fence in the consumer's hands
    last,              \* frame_num of the last buffer acquired (history)
    dropped            \* acquire fences of frames replaced before use (history)

queueVars == <<slots, m_queue, m_is_synchronous, m_frame_counter>>
vars == <<queueVars, open, pbuf, cbuf, last, dropped>>

Slots == 0 .. NumSlots - 1
Fence == Fds \cup {NoFence}
BufferState == {"FREE", "DEQUEUED", "QUEUED", "ACQUIRED"}
BufferSlot == [state : BufferState, frame_num : 0 .. MaxFrame,
               acquire_fence : Fence, release_fence : Fence]

InState(s) == {i \in Slots : slots[i].state = s}

(* dequeueBuffer's scan: the FREE slot with the smallest frame_num, the    *)
(* lowest index among equals.                                              *)
OldestFree(i) ==
    /\ slots[i].state = "FREE"
    /\ \A j \in InState("FREE") :
          \/ slots[i].frame_num < slots[j].frame_num
          \/ slots[i].frame_num = slots[j].frame_num /\ i <= j

-----------------------------------------------------------------------------
(* The calls.                                                              *)

\* An asynchronous dequeue hands the slot's release fence to the producer; a
\* synchronous one waits for it, and waiting closes it.
DequeueBuffer(i, async) ==
    /\ OldestFree(i)
    /\ slots' = [slots EXCEPT ![i].state = "DEQUEUED",
                              ![i].release_fence = NoFence]
    /\ IF async
         THEN /\ pbuf' = [pbuf EXCEPT ![i] = slots[i].release_fence]
              /\ UNCHANGED open
         ELSE /\ pbuf' = [pbuf EXCEPT ![i] = NoFence]
              /\ open' = open \ {slots[i].release_fence}
    /\ UNCHANGED <<m_queue, m_is_synchronous, m_frame_counter, cbuf, last,
                   dropped>>

\* Mutant of QueueBuffer: the replaced slot keeps its state.
QueueBufferNoFree(i, fence) ==
    /\ slots[i].state = "DEQUEUED"
    /\ m_frame_counter < MaxFrame
    /\ m_queue' = IF m_is_synchronous \/ m_queue = <<>>
                    THEN Append(m_queue, i)
                    ELSE [m_queue EXCEPT ![1] = i]
    /\ m_frame_counter' = m_frame_counter + 1
    /\ slots' = [slots EXCEPT ![i].state = "QUEUED",
                              ![i].frame_num = m_frame_counter + 1,
                              ![i].acquire_fence = fence]
    /\ open' = (open \ {pbuf[i]}) \cup ({fence} \ {NoFence})
    /\ pbuf' = [pbuf EXCEPT ![i] = NoFence]
    /\ UNCHANGED <<m_is_synchronous, cbuf, last, dropped>>

\* Mutant of QueueBuffer: the asynchronous mode appends too.
QueueBufferAppend(i, fence) ==
    /\ slots[i].state = "DEQUEUED"
    /\ m_frame_counter < MaxFrame
    /\ m_queue' = Append(m_queue, i)
    /\ m_frame_counter' = m_frame_counter + 1
    /\ slots' = [slots EXCEPT ![i].state = "QUEUED",
                              ![i].frame_num = m_frame_counter + 1,
                              ![i].acquire_fence = fence]
    /\ open' = (open \ {pbuf[i]}) \cup ({fence} \ {NoFence})
    /\ pbuf' = [pbuf EXCEPT ![i] = NoFence]
    /\ UNCHANGED <<m_is_synchronous, cbuf, last, dropped>>

\* Mutant of QueueBuffer: the slot's state is not looked at, so a buffer that
\* waits already can be queued again.
QueueBufferUnchecked(i, fence) ==
    /\ m_frame_counter < MaxFrame
    /\ m_queue' = IF m_is_synchronous \/ m_queue = <<>>
                    THEN Append(m_queue, i)
                    ELSE [m_queue EXCEPT ![1] = i]
    /\ m_frame_counter' = m_frame_counter + 1
    /\ slots' = [slots EXCEPT ![i].state = "QUEUED",
                              ![i].frame_num = m_frame_counter + 1,
                              ![i].acquire_fence = fence]
    /\ open' = (open \ {pbuf[i]}) \cup ({fence} \ {NoFence})
    /\ pbuf' = [pbuf EXCEPT ![i] = NoFence]
    /\ UNCHANGED <<m_is_synchronous, cbuf, last, dropped>>

\* The producer has consumed the release fence by now and supplies a fence for
\* the new contents.  In asynchronous mode the buffer still waiting is freed
\* and its place in the queue taken; its acquire_fence stays in the slot.
QueueBuffer(i, fence) ==
    LET replace == ~m_is_synchronous /\ m_queue # <<>>
        Queued(s) == [s EXCEPT ![i].state = "QUEUED",
                               ![i].frame_num = m_frame_counter + 1,
                               ![i].acquire_fence = fence]
    IN  /\ slots[i].state = "DEQUEUED"
        /\ m_frame_counter < MaxFrame
        /\ m_frame_counter' = m_frame_counter + 1
        /\ IF replace
             THEN /\ m_queue' = [m_queue EXCEPT ![1] = i]
                  /\ slots' = Queued([slots EXCEPT ![m_queue[1]].state = "FREE"])
                  /\ dropped' = dropped \cup {slots[m_queue[1]].acquire_fence}
             ELSE /\ m_queue' = Append(m_queue, i)
                  /\ slots' = Queued(slots)
                  /\ UNCHANGED dropped
        /\ open' = (open \ {pbuf[i]}) \cup ({fence} \ {NoFence})
        /\ pbuf' = [pbuf EXCEPT ![i] = NoFence]
        /\ UNCHANGED <<m_is_synchronous, cbuf, last>>

\* Mutant of CancelBuffer: the release fence of the buffer is forgotten.
CancelBufferNoClose(i) ==
    /\ slots[i].state = "DEQUEUED"
    /\ slots' = [slots EXCEPT ![i] = [state |-> "FREE", frame_num |-> 0,
                                      acquire_fence |-> NoFence,
                                      release_fence |-> NoFence]]
    /\ pbuf' = [pbuf EXCEPT ![i] = NoFence]
    /\ UNCHANGED <<m_queue, m_is_synchronous, m_frame_counter, open, cbuf, last,
                   dropped>>

\* The producer gives the buffer up and closes the release fence it was given.
CancelBuffer(i) ==
    /\ slots[i].state = "DEQUEUED"
    /\ slots' = [slots EXCEPT ![i] = [state |-> "FREE", frame_num |-> 0,
                                      acquire_fence |-> NoFence,
                                      release_fence |-> NoFence]]
    /\ open' = open \ {pbuf[i]}
    /\ pbuf' = [pbuf EXCEPT ![i] = NoFence]
    /\ UNCHANGED <<m_queue, m_is_synchronous, m_frame_counter, cbuf, last,
                   dropped>>

\* Mutant of SetSynchronousMode: no drain.
SetSynchronousModeNoDrain(enabled) ==
    /\ m_is_synchronous # enabled
    /\ m_is_synchronous' = enabled
    /\ UNCHANGED <<slots, m_queue, m_frame_counter, open, pbuf, cbuf, last,
                   dropped>>

\* Changing to asynchronous mode waits in drainQueueLocked until the queue is
\* empty.
SetSynchronousMode(enabled) ==
    /\ m_is_synchronous # enabled
    /\ ~enabled => m_queue = <<>>
    /\ m_is_synchronous' = enabled
    /\ UNCHANGED <<slots, m_queue, m_frame_counter, open, pbuf, cbuf, last,
                   dropped>>

\* Mutant of AcquireBuffer: the newest buffer is taken.
AcquireBufferNewest(async) ==
    LET n == Len(m_queue)
        i == m_queue[n]
    IN  /\ m_queue # <<>>
        /\ m_queue' = SubSeq(m_queue, 1, n - 1)
        /\ slots' = [slots EXCEPT ![i].state = "ACQUIRED",
                                  ![i].acquire_fence = NoFence]
        /\ last' = slots[i].frame_num
        /\ cbuf' = [cbuf EXCEPT ![i] = slots[i].acquire_fence]
        /\ UNCHANGED <<m_is_synchronous, m_frame_counter, open, pbuf, dropped>>

\* Mutant of AcquireBuffer: the slot keeps the fence it hands out.
AcquireBufferKeepsFence(async) ==
    LET i == Head(m_queue)
    IN  /\ m_queue # <<>>
        /\ m_queue' = Tail(m_queue)
        /\ slots' = [slots EXCEPT ![i].state = "ACQUIRED"]
        /\ last' = slots[i].frame_num
        /\ cbuf' = [cbuf EXCEPT ![i] = slots[i].acquire_fence]
        /\ UNCHANGED <<m_is_synchronous, m_frame_counter, open, pbuf, dropped>>

AcquireBuffer(async) ==
    LET i == Head(m_queue)
    IN  /\ m_queue # <<>>
        /\ m_queue' = Tail(m_queue)
        /\ slots' = [slots EXCEPT ![i].state = "ACQUIRED",
                                  ![i].acquire_fence = NoFence]
        /\ last' = slots[i].frame_num
        /\ IF async
             THEN /\ cbuf' = [cbuf EXCEPT ![i] = slots[i].acquire_fence]
                  /\ UNCHANGED open
             ELSE /\ open' = open \ {slots[i].acquire_fence}
                  /\ UNCHANGED cbuf
        /\ UNCHANGED <<m_is_synchronous, m_frame_counter, pbuf, dropped>>

\* The consumer has passed the acquire fence on to the hardware and returns
\* the buffer with the fence of its last use.
ReleaseBuffer(i, fence) ==
    /\ slots[i].state = "ACQUIRED"
    /\ slots' = [slots EXCEPT ![i].state = "FREE", ![i].release_fence = fence]
    /\ open' = (open \ {slots[i].release_fence, cbuf[i]})
                  \cup ({fence} \ {NoFence})
    /\ cbuf' = [cbuf EXCEPT ![i] = NoFence]
    /\ UNCHANGED <<m_queue, m_is_synchronous, m_frame_counter, pbuf, last,
                   dropped>>

-----------------------------------------------------------------------------
NewFence == (Fds \ open) \cup {NoFence}

Init ==
    /\ slots = [i \in Slots |-> [state |-> "FREE", frame_num |-> 0,
                                 acquire_fence |-> NoFence,
                                 release_fence |-> NoFence]]
    /\ m_queue = <<>>
    /\ m_is_synchronous = TRUE
    /\ m_frame_counter = 0
    /\ open = {}
    /\ pbuf = [i \in Slots |-> NoFence]
    /\ cbuf = [i \in Slots |-> NoFence]
    /\ last = 0
    /\ dropped = {}

Dequeue == \E i \in Slots, async \in BOOLEAN : DequeueBuffer(i, async)
Queue   == \E i \in Slots, fence \in NewFence : QueueBuffer(i, fence)
Cancel  == \E i \in Slots : CancelBuffer(i)
SetMode == \E enabled \in BOOLEAN : SetSynchronousMode(enabled)
Acquire == \E async \in BOOLEAN : AcquireBuffer(async)
Release == \E i \in Slots, fence \in NewFence : ReleaseBuffer(i, fence)

Next == Dequeue \/ Queue \/ Cancel \/ SetMode \/ Acquire \/ Release

Spec == Init /\ [][Next]_vars

-----------------------------------------------------------------------------
Typed ==
    /\ slots \in [Slots -> BufferSlot]
    /\ m_queue \in Seq(Slots)
    /\ m_is_synchronous \in BOOLEAN
    /\ m_frame_counter \in 0 .. MaxFrame
    /\ open \subseteq Fds
    /\ pbuf \in [Slots -> Fence]
    /\ cbuf \in [Slots -> Fence]
    /\ last \in 0 .. MaxFrame
    /\ dropped \subseteq Fence

(* Every variable has its type, and the FIFO is never longer than there    *)
(* are slots: queueBuffer takes a buffer only from its producer.           *)
TypeOK == Typed /\ Len(m_queue) <= NumSlots

(* The FIFO and the slot states tell the same story: the queue holds each  *)
(* QUEUED slot once and no other, so no buffer is with the producer or     *)
(* the consumer while it waits, and none that waits is lost.               *)
QueueHoldsQueuedSlots ==
    /\ \A i \in Slots : slots[i].state = "QUEUED" <=>
                          \E k \in 1 .. Len(m_queue) : m_queue[k] = i
    /\ \A k, l \in 1 .. Len(m_queue) : m_queue[k] = m_queue[l] => k = l

(* Frames reach the consumer in the order they were queued: what waits is  *)
(* newer than what was acquired last and sorted oldest first.              *)
FramesInOrder ==
    /\ \A k, l \in 1 .. Len(m_queue) :
          k < l => slots[m_queue[k]].frame_num < slots[m_queue[l]].frame_num
    /\ \A k \in 1 .. Len(m_queue) : last < slots[m_queue[k]].frame_num

(* In asynchronous mode at most one frame waits: the drain makes the mode  *)
(* change safe, since QueueBuffer then only ever looks at the front.       *)
AsyncHoldsOneFrame == ~m_is_synchronous => Len(m_queue) <= 1

\* The places a descriptor can be held in, and what each holds.
Place == {"acquire", "release", "producer", "consumer"} \X Slots
Held(p) == CASE p[1] = "acquire"  -> slots[p[2]].acquire_fence
             [] p[1] = "release"  -> slots[p[2]].release_fence
             [] p[1] = "producer" -> pbuf[p[2]]
             [] p[1] = "consumer" -> cbuf[p[2]]

(* A descriptor that some holder will close is open and has no second      *)
(* holder: no fence is closed twice, none is used after it was closed.     *)
FenceHeldOnce ==
    \A p \in Place : Held(p) # NoFence =>
        /\ Held(p) \in open
        /\ \A q \in Place : Held(q) = Held(p) => q = p

(* A descriptor nobody holds any more is the fence of a frame that the     *)
(* asynchronous mode replaced: nothing else leaks.                         *)
OnlyReplacedFramesLeak ==
    \A f \in open : (\A p \in Place : Held(p) # f) => f \in dropped

(* The frames the producer queues and the consumer acquires are those of   *)
(* the abstract stream.                                                    *)
Stream == INSTANCE FrameStream WITH
            waiting  <- [k \in 1 .. Len(m_queue) |-> slots[m_queue[k]].frame_num],
            lossless <- m_is_synchronous,
            put      <- m_frame_counter,
            taken    <- last,
            Limit    <- MaxFrame

ImplementsStream == Stream!Spec
=============================================================================
