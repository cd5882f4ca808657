----------------------- MODULE DispatchThread_proofs -----------------------
(***************************************************************************)
(* Proofs about DispatchThread for any number of jobs and VSync posts.     *)
(* The invariant has two parts.  ThreadInv holds however the thread is     *)
(* started; StartInv is about a thread that has run readyToRun before its  *)
(* first job, and is what the flush of wait() depends on.                  *)
(***************************************************************************)
EXTENDS DispatchThread, SequenceTheorems, TLAPS

\* The thread has a job in hand exactly while it handles one.
BusyHasJob == pc = "busy" <=> cur # NoJob

\* Outside the loop a queued job has a semaphore count that leads back to it.
SemCovers == pc \notin {"loop", "busy"} /\ m_queue # <<>> => m_event > 0

\* About to sleep, or asleep, without a count or a VSync post to come: idle.
RestsIdle ==
    pc \in {"sem", "return"} /\ m_event = 0 /\ vsync # "post"
        => m_state = "IDLE"

ThreadInv == TypeOK /\ JobsKept /\ BusyHasJob /\ SemCovers /\ RestsIdle

\* Nothing is triggered, and no release begins, before readyToRun.
StartsEmpty ==
    pc = "start" => m_queue = <<>> /\ caller \in {"idle", "wait"}

\* An idle thread has nothing queued and nothing in hand.
IdleFlushed == m_state = "IDLE" => m_queue = <<>> /\ pc # "busy"

StartInv == LateStart \/ (StartsEmpty /\ IdleFlushed)

IInv == ThreadInv /\ StartInv

-----------------------------------------------------------------------------
(* The initial states satisfy the invariant: an empty queue, an idle       *)
(* thread that has not run.                                                *)
LEMMA InitIInv == Init => IInv
<1> SUFFICES ASSUME Init PROVE IInv
  OBVIOUS
<1> USE DispatchAssumption DEF Init, ThreadInit
<1>1. TypeOK
  <2>1. m_queue \in Seq(Jobs)
    BY EmptySeq
  <2> QED
    BY <2>1 DEF TypeOK, ThreadTypeOK, Places, CallerPlaces
<1>2. JobsKept
  BY DEF JobsKept, InHand
<1>3. BusyHasJob /\ SemCovers /\ RestsIdle /\ StartsEmpty /\ IdleFlushed
  BY DEF BusyHasJob, SemCovers, RestsIdle, StartsEmpty, IdleFlushed
<1> QED
  BY <1>1, <1>2, <1>3 DEF IInv, ThreadInv, StartInv

(* A push appends the next job of the sequence, sets the state and counts. *)
LEMMA PushKeeps ==
  ASSUME TypeOK, JobsKept, PushJob, cur' = cur, finished' = finished
  PROVE  /\ triggered' \in Nat
         /\ m_queue' \in Seq(Jobs)
         /\ m_event' \in Nat
         /\ m_event' > 0
         /\ m_state' = "TRIGGER"
         /\ JobsKept'
<1> USE DEF TypeOK, ThreadTypeOK, Jobs
<1>1. /\ triggered' = triggered + 1
      /\ m_queue' = Append(m_queue, triggered + 1)
      /\ m_state' = "TRIGGER"
      /\ m_event' = m_event + 1
  BY DEF PushJob, Enqueue, Post
<1>2. /\ Len(m_queue') = Len(m_queue) + 1
      /\ \A k \in 1 .. Len(m_queue) : m_queue'[k] = m_queue[k]
      /\ m_queue'[Len(m_queue) + 1] = triggered + 1
  BY <1>1
<1>3. InHand' = InHand /\ InHand \in Nat
  BY DEF InHand
<1>4. triggered' = finished' + InHand' + Len(m_queue')
  BY <1>1, <1>2, <1>3 DEF JobsKept
<1>5. ASSUME NEW k \in 1 .. Len(m_queue')
      PROVE  m_queue'[k] = finished' + InHand' + k
  <2>1. CASE k = Len(m_queue) + 1
    BY <1>2, <1>3, <2>1 DEF JobsKept
  <2>2. CASE k # Len(m_queue) + 1
    <3>1. k \in 1 .. Len(m_queue)
      BY <1>2, <1>5, <2>2
    <3> QED
      BY <1>2, <1>3, <3>1 DEF JobsKept
  <2> QED
    BY <2>1, <2>2
<1>6. JobsKept'
  BY <1>4, <1>5 DEF JobsKept
<1> QED
  BY <1>1, <1>6

(* Taking the front moves the job after the last finished one into the     *)
(* thread's hands.                                                         *)
LEMMA TakeKeeps ==
  ASSUME TypeOK, JobsKept, BusyHasJob, Take, triggered' = triggered,
         finished' = finished
  PROVE  /\ cur' \in Jobs
         /\ cur' # NoJob
         /\ m_queue' \in Seq(Jobs)
         /\ JobsKept'
<1> USE DispatchAssumption DEF TypeOK, ThreadTypeOK, Jobs
<1>1. /\ cur = NoJob /\ InHand = 0
      /\ m_queue # <<>>
      /\ cur' = Head(m_queue)
      /\ m_queue' = Tail(m_queue)
  BY DEF Take, BusyHasJob, InHand
<1>2. /\ Len(m_queue) \in Nat \ {0}
      /\ Len(m_queue') = Len(m_queue) - 1
      /\ \A k \in 1 .. Len(m_queue') : m_queue'[k] = m_queue[k + 1]
      /\ cur' = m_queue[1]
      /\ m_queue' \in Seq(Jobs)
  BY <1>1
<1>3. cur' = finished + 1
  BY <1>1, <1>2 DEF JobsKept
<1>4. cur' \in Jobs /\ cur' # NoJob /\ InHand' = 1
  BY <1>3 DEF InHand
<1>5. triggered' = finished' + InHand' + Len(m_queue')
  BY <1>1, <1>2, <1>4 DEF JobsKept
<1>6. ASSUME NEW k \in 1 .. Len(m_queue')
      PROVE  m_queue'[k] = finished' + InHand' + k
  <2>1. k + 1 \in 1 .. Len(m_queue)
    BY <1>2, <1>6
  <2>2. m_queue[k + 1] = finished + 0 + (k + 1)
    BY <1>1, <2>1 DEF JobsKept
  <2> QED
    BY <1>2, <1>4, <2>2
<1> QED
  BY <1>2, <1>3, <1>4, <1>5, <1>6 DEF JobsKept

(* The invariant is kept by a push, wherever the thread is.                *)
LEMMA PushIInv ==
  ASSUME IInv, PushJob, UNCHANGED <<exiting, pc, cur, finished, vsync>>,
         caller' \in CallerPlaces, LateStart \/ pc # "start"
  PROVE  IInv'
<1> USE DEF IInv, ThreadInv
<1>1. /\ triggered' \in Nat /\ m_queue' \in Seq(Jobs)
      /\ m_event' \in Nat /\ m_event' > 0
      /\ m_state' = "TRIGGER" /\ JobsKept'
  BY PushKeeps
<1>2. TypeOK'
  BY <1>1 DEF TypeOK, ThreadTypeOK
<1>3. BusyHasJob' /\ SemCovers' /\ RestsIdle'
  BY <1>1 DEF BusyHasJob, SemCovers, RestsIdle
<1>4. StartInv'
  BY <1>1 DEF StartInv, StartsEmpty, IdleFlushed
<1> QED
  BY <1>1, <1>2, <1>3, <1>4

(* A call that changes neither the thread nor the jobs keeps the invariant *)
(* if it does not begin a release before the thread runs.                  *)
LEMMA CallIInv ==
  ASSUME IInv, UNCHANGED <<threadVars, triggered, finished, vsync>>,
         caller' \in CallerPlaces,
         LateStart \/ pc # "start" \/ caller' \in {"idle", "wait"}
  PROVE  IInv'
<1> USE DEF IInv, ThreadInv, threadVars
<1>1. TypeOK' /\ JobsKept'
  BY DEF TypeOK, ThreadTypeOK, JobsKept, InHand
<1>2. BusyHasJob' /\ SemCovers' /\ RestsIdle' /\ StartInv'
  BY DEF BusyHasJob, SemCovers, RestsIdle, StartInv, StartsEmpty, IdleFlushed
<1> QED
  BY <1>1, <1>2

(* Each step of the thread itself keeps the invariant.                     *)
LEMMA ThreadIInv ==
  ASSUME IInv, ThreadStep \/ FinishJob
  PROVE  IInv'
<1> USE DispatchAssumption DEF IInv, ThreadInv
<1>1. CASE ReadyToRun /\ ThreadStep
  <2> USE <1>1 DEF ReadyToRun, ThreadStep
  <2>1. TypeOK' /\ JobsKept'
    BY DEF TypeOK, ThreadTypeOK, JobsKept, InHand, Places
  <2>2. BusyHasJob' /\ SemCovers' /\ RestsIdle'
    BY DEF BusyHasJob, SemCovers, RestsIdle
  <2>3. StartInv'
    BY DEF StartInv, StartsEmpty, IdleFlushed
  <2> QED
    BY <2>1, <2>2, <2>3
<1>2. CASE Wake /\ ThreadStep
  <2> USE <1>2 DEF Wake, ThreadStep
  <2>1. TypeOK' /\ JobsKept'
    BY DEF TypeOK, ThreadTypeOK, JobsKept, InHand, Places
  <2>2. BusyHasJob' /\ SemCovers' /\ RestsIdle'
    BY DEF BusyHasJob, SemCovers, RestsIdle
  <2>3. StartInv'
    BY DEF StartInv, StartsEmpty, IdleFlushed
  <2> QED
    BY <2>1, <2>2, <2>3
<1>3. CASE Take /\ ThreadStep
  <2>1. cur' \in Jobs /\ cur' # NoJob /\ m_queue' \in Seq(Jobs) /\ JobsKept'
    BY <1>3, TakeKeeps DEF ThreadStep
  <2> USE <1>3 DEF Take, ThreadStep
  <2>2. TypeOK'
    BY <2>1 DEF TypeOK, ThreadTypeOK, Places
  <2>3. BusyHasJob' /\ SemCovers' /\ RestsIdle'
    BY <2>1 DEF BusyHasJob, SemCovers, RestsIdle
  <2>4. StartInv'
    BY DEF StartInv, StartsEmpty, IdleFlushed
  <2> QED
    BY <2>1, <2>2, <2>3, <2>4
<1>4. CASE Break /\ ThreadStep
  <2> USE <1>4 DEF Break, ThreadStep
  <2>1. TypeOK' /\ JobsKept'
    BY DEF TypeOK, ThreadTypeOK, JobsKept, InHand, Places
  <2>2. BusyHasJob' /\ SemCovers' /\ RestsIdle'
    BY DEF BusyHasJob, SemCovers, RestsIdle
  <2>3. StartInv'
    BY DEF StartInv, StartsEmpty, IdleFlushed
  <2> QED
    BY <2>1, <2>2, <2>3
<1>5. CASE GoIdle /\ ThreadStep
  <2> USE <1>5 DEF GoIdle, ThreadStep
  <2>1. TypeOK' /\ JobsKept'
    BY DEF TypeOK, ThreadTypeOK, JobsKept, InHand, Places
  <2>2. BusyHasJob' /\ SemCovers' /\ RestsIdle'
    BY DEF BusyHasJob, SemCovers, RestsIdle, TypeOK, ThreadTypeOK
  <2>3. StartInv'
    BY DEF StartInv, StartsEmpty, IdleFlushed
  <2> QED
    BY <2>1, <2>2, <2>3
<1>6. CASE LoopAgain /\ ThreadStep
  <2> USE <1>6 DEF LoopAgain, ThreadStep
  <2>1. TypeOK' /\ JobsKept'
    BY DEF TypeOK, ThreadTypeOK, JobsKept, InHand, Places
  <2>2. BusyHasJob' /\ SemCovers' /\ RestsIdle'
    BY DEF BusyHasJob, SemCovers, RestsIdle
  <2>3. StartInv'
    BY DEF StartInv, StartsEmpty, IdleFlushed
  <2> QED
    BY <2>1, <2>2, <2>3
<1>7. CASE FinishJob
  <2> USE <1>7 DEF FinishJob, Finish
  <2>1. cur = finished + 1 /\ InHand = 1 /\ InHand' = 0 /\ cur \in Jobs
    BY DEF BusyHasJob, JobsKept, InHand, TypeOK, ThreadTypeOK
  <2>2. JobsKept'
    BY <2>1 DEF JobsKept, TypeOK, ThreadTypeOK
  <2>3. TypeOK'
    BY <2>1 DEF TypeOK, ThreadTypeOK, Places, Jobs
  <2>4. BusyHasJob' /\ SemCovers' /\ RestsIdle'
    BY DEF BusyHasJob, SemCovers, RestsIdle
  <2>5. StartInv'
    BY DEF StartInv, StartsEmpty, IdleFlushed
  <2> QED
    BY <2>2, <2>3, <2>4, <2>5
<1> QED
  BY <1>1, <1>2, <1>3, <1>4, <1>5, <1>6, <1>7 DEF ThreadStep

(* Every step of the specification keeps the invariant.                    *)
LEMMA NextIInv == IInv /\ [Next]_vars => IInv'
<1> SUFFICES ASSUME IInv, [Next]_vars PROVE IInv'
  OBVIOUS
<1>1. CASE Trigger
  <2>1. caller' \in CallerPlaces
    BY <1>1 DEF Trigger, IInv, ThreadInv, TypeOK
  <2> QED
    BY <1>1, <2>1, PushIInv DEF Trigger
<1>2. CASE Wait
  BY <1>2, CallIInv DEF Wait, CallerPlaces
<1>3. CASE Release
  BY <1>3, CallIInv DEF Release, CallerPlaces
<1>4. CASE WaitReturn
  BY <1>4, CallIInv DEF WaitReturn, CallerPlaces
<1>5. CASE ReleaseWaited
  <2>1. LateStart \/ pc # "start"
    BY <1>5 DEF ReleaseWaited, IInv, StartInv, StartsEmpty
  <2> QED
    BY <1>5, <2>1, CallIInv DEF ReleaseWaited, CallerPlaces
<1>6. CASE RequestExit
  <2> USE <1>6 DEF RequestExit, IInv, ThreadInv
  <2>1. TypeOK' /\ JobsKept'
    BY DEF TypeOK, ThreadTypeOK, JobsKept, InHand, CallerPlaces
  <2>2. BusyHasJob' /\ SemCovers' /\ RestsIdle' /\ StartInv'
    BY DEF BusyHasJob, SemCovers, RestsIdle, StartInv, StartsEmpty,
           IdleFlushed
  <2> QED
    BY <2>1, <2>2
<1>7. CASE HandOver
  <2>1. /\ LateStart \/ pc # "start"
        /\ caller' \in CallerPlaces
    BY <1>7 DEF HandOver, IInv, StartInv, StartsEmpty, CallerPlaces
  <2>2. CASE PushJob
    BY <1>7, <2>1, <2>2, PushIInv DEF HandOver
  <2>3. CASE Post /\ UNCHANGED <<m_queue, triggered>>
    <3> USE <1>7, <2>1, <2>3 DEF HandOver, Post, IInv, ThreadInv
    <3>1. m_event \in Nat /\ m_event' = m_event + 1
      BY DEF TypeOK, ThreadTypeOK
    <3>2. TypeOK' /\ JobsKept'
      BY <3>1 DEF TypeOK, ThreadTypeOK, JobsKept, InHand
    <3>3. BusyHasJob' /\ SemCovers' /\ RestsIdle'
      BY <3>1 DEF BusyHasJob, SemCovers, RestsIdle
    <3>4. StartInv'
      BY DEF StartInv, StartsEmpty, IdleFlushed
    <3> QED
      BY <3>2, <3>3, <3>4
  <2> QED
    BY <1>7, <2>2, <2>3 DEF HandOver
<1>8. CASE Joined
  BY <1>8, CallIInv DEF Joined, CallerPlaces
<1>9. CASE VSyncRead
  <2> USE <1>9 DEF VSyncRead, threadVars, IInv, ThreadInv
  <2>1. TypeOK' /\ JobsKept'
    BY DEF TypeOK, ThreadTypeOK, JobsKept, InHand
  <2>2. BusyHasJob' /\ SemCovers' /\ RestsIdle' /\ StartInv'
    BY DEF BusyHasJob, SemCovers, RestsIdle, StartInv, StartsEmpty,
           IdleFlushed
  <2> QED
    BY <2>1, <2>2
<1>10. CASE VSyncWrite
  <2> USE <1>10 DEF VSyncWrite, IInv, ThreadInv
  <2>1. TypeOK' /\ JobsKept'
    BY DEF TypeOK, ThreadTypeOK, JobsKept, InHand
  <2>2. BusyHasJob' /\ SemCovers' /\ RestsIdle' /\ StartInv'
    BY DEF BusyHasJob, SemCovers, RestsIdle, StartInv, StartsEmpty,
           IdleFlushed
  <2> QED
    BY <2>1, <2>2
<1>11. CASE VSyncPost
  <2> USE <1>11 DEF VSyncPost, IInv, ThreadInv
  <2>1. m_event \in Nat /\ m_event' = m_event + 1
    BY DEF TypeOK, ThreadTypeOK
  <2>2. TypeOK' /\ JobsKept'
    BY <2>1 DEF TypeOK, ThreadTypeOK, JobsKept, InHand
  <2>3. BusyHasJob' /\ SemCovers' /\ RestsIdle' /\ StartInv'
    BY <2>1 DEF BusyHasJob, SemCovers, RestsIdle, StartInv, StartsEmpty,
                IdleFlushed
  <2> QED
    BY <2>2, <2>3
<1>12. CASE ThreadStep \/ FinishJob
  BY <1>12, ThreadIInv
<1>13. CASE UNCHANGED vars
  <2> USE <1>13 DEF vars, threadVars, IInv, ThreadInv
  <2>1. TypeOK' /\ JobsKept'
    BY DEF TypeOK, ThreadTypeOK, JobsKept, InHand
  <2>2. BusyHasJob' /\ SemCovers' /\ RestsIdle' /\ StartInv'
    BY DEF BusyHasJob, SemCovers, RestsIdle, StartInv, StartsEmpty,
           IdleFlushed
  <2> QED
    BY <2>1, <2>2
<1> QED
  BY <1>1, <1>2, <1>3, <1>4, <1>5, <1>6, <1>7, <1>8, <1>9, <1>10, <1>11,
     <1>12, <1>13 DEF Next, CallerReturn, VSyncEnd

(* The invariant holds in every reachable state.                           *)
LEMMA InvariantHolds == Spec => []IInv
<1>1. Init => IInv
  BY InitIInv
<1>2. IInv /\ [Next]_vars => IInv'
  BY NextIInv
<1> QED
  BY <1>1, <1>2, PTL DEF Spec

-----------------------------------------------------------------------------
(* Queue, semaphore, state and program counter always have their types.    *)
THEOREM DispatchTypeOK == Spec => []TypeOK
<1>1. IInv => TypeOK
  BY DEF IInv, ThreadInv
<1> QED
  BY <1>1, InvariantHolds, PTL

(* No interleaving of trigger, VSync, release and the thread's loop loses, *)
(* repeats or reorders a job.                                              *)
THEOREM DispatchKeepsJobs == Spec => []JobsKept
<1>1. IInv => JobsKept
  BY DEF IInv, ThreadInv
<1> QED
  BY <1>1, InvariantHolds, PTL

(* The thread is never in sem_wait with a count of zero and a job queued.  *)
THEOREM DispatchWakes == Spec => []NeverSleepsOnWork
<1>1. IInv => NeverSleepsOnWork
  BY DEF IInv, ThreadInv, SemCovers, NeverSleepsOnWork
<1> QED
  BY <1>1, InvariantHolds, PTL

(* A thread that nobody will wake is idle, so wait() does not hang on it.  *)
THEOREM DispatchSleepsIdle == Spec => []SleepsIdle
<1>1. IInv => SleepsIdle
  BY DEF IInv, ThreadInv, RestsIdle, SleepsIdle
<1> QED
  BY <1>1, InvariantHolds, PTL

(* Jobs are finished one by one, in the order of the triggers.             *)
THEOREM DispatchInOrder == Spec => FinishedInOrder
<1>1. IInv /\ [Next]_vars => [finished' \in {finished, finished + 1}]_vars
  <2> SUFFICES ASSUME IInv, [Next]_vars
               PROVE  finished' \in {finished, finished + 1}
    OBVIOUS
  <2>1. CASE FinishJob
    BY <2>1, DispatchAssumption
       DEF FinishJob, Finish, IInv, ThreadInv, BusyHasJob, JobsKept
  <2>2. CASE ~FinishJob
    BY <2>2 DEF Next, vars, Trigger, Wait, Release, CallerReturn, WaitReturn,
                ReleaseWaited, RequestExit, HandOver, Joined, VSyncRead,
                VSyncEnd, VSyncWrite, VSyncPost, ThreadStep
  <2> QED
    BY <2>1, <2>2
<1> QED
  BY <1>1, InvariantHolds, PTL DEF Spec, FinishedInOrder

(* If the thread has run readyToRun before the first job, then every       *)
(* return of wait(), in a flush or in a release, finds all jobs finished.  *)
THEOREM DispatchFlushes == ASSUME ~LateStart PROVE Spec => WaitFlushes
<1>1. IInv => (WaitReturn \/ ReleaseWaited => finished = triggered)
  <2> SUFFICES ASSUME IInv, WaitReturn \/ ReleaseWaited
               PROVE  finished = triggered
    OBVIOUS
  <2>1. m_queue = <<>> /\ pc # "busy"
    BY DEF IInv, StartInv, IdleFlushed, WaitReturn, ReleaseWaited, Idle
  <2>2. InHand = 0
    BY <2>1 DEF IInv, ThreadInv, BusyHasJob, InHand
  <2> QED
    BY <2>1, <2>2 DEF IInv, ThreadInv, JobsKept, TypeOK
<1> QED
  BY <1>1, InvariantHolds, PTL DEF WaitFlushes
=============================================================================
