--------------------------- MODULE DispatchThread ---------------------------
(***************************************************************************)
(* One display's DispatchThread (2.0.0/dispatcher.cpp) and those who drive *)
(* it: HWCDispatcher, which triggers, flushes and releases it while it     *)
(* holds the display's plug_lock_main, so one call at a time; and the      *)
(* VSync thread, whose onVSync touches the queue and the state under a     *)
(* different lock.  Jobs are numbered in the order they are triggered.     *)
(***************************************************************************)
EXTENDS HWCThread

CONSTANTS
    MaxJobs,      \* bound on the jobs triggered
    MaxPosts,     \* bound on the semaphore value up to which VSync posts
    LateStart     \* can a job be triggered before readyToRun has run?

ASSUME DispatchAssumption ==
    /\ MaxJobs \in Nat
    /\ MaxPosts \in Nat
    /\ LateStart \in BOOLEAN
    /\ NoJob = 0

VARIABLES
    triggered,    \* number of jobs triggered so far
    finished,     \* the last job the thread is done with (history)
    caller,       \* what the holder of plug_lock_main does
    vsync         \* where the VSync thread is in onVSync

vars == <<threadVars, triggered, finished, caller, vsync>>

Jobs == Nat \ {0}

CallerPlaces == {"idle", "wait", "release", "request", "hand_over", "join",
                 "gone"}

\* Every variable has its type, and the loop is left only by a thread that was
\* told to exit: until then it takes jobs.
TypeOK ==
    /\ ThreadTypeOK(Jobs)
    /\ pc = "exited" => exiting
    /\ triggered \in Nat
    /\ finished \in Nat
    /\ caller \in CallerPlaces
    /\ vsync \in {"idle", "write", "post"}

Init ==
    /\ ThreadInit
    /\ triggered = 0
    /\ finished = 0
    /\ caller = "idle"
    /\ vsync = "idle"

-----------------------------------------------------------------------------
(* The holder of plug_lock_main.                                           *)

\* Mutant of PushJob: the semaphore is posted only for an idle thread.
PushJobPostIfIdle ==
    /\ triggered < MaxJobs
    /\ triggered' = triggered + 1
    /\ Enqueue(triggered + 1)
    /\ m_state' = "TRIGGER"
    /\ m_event' = IF Idle THEN m_event + 1 ELSE m_event

\* Mutant of PushJob: the newest job goes first.
PushJobFront ==
    /\ triggered < MaxJobs
    /\ triggered' = triggered + 1
    /\ m_queue' = <<triggered + 1>> \o m_queue
    /\ Post

\* DispatchThread::trigger with a job, one section of m_lock.
PushJob ==
    /\ triggered < MaxJobs
    /\ triggered' = triggered + 1
    /\ Enqueue(triggered + 1)
    /\ Post

Trigger ==
    /\ caller = "idle"
    /\ LateStart \/ pc # "start"
    /\ PushJob
    /\ UNCHANGED <<exiting, pc, cur, finished, caller, vsync>>

\* setSessionMode, onPlugOut, setPowerMode and the force_wait of trigger.
Wait ==
    /\ caller = "idle"
    /\ caller' = "wait"
    /\ UNCHANGED <<threadVars, triggered, finished, vsync>>

\* Mutant of WaitReturn: wait() does not look at the state.
WaitReturnAtOnce ==
    /\ caller = "wait"
    /\ caller' = "idle"
    /\ UNCHANGED <<threadVars, triggered, finished, vsync>>

WaitReturn ==
    /\ caller = "wait"
    /\ Idle
    /\ caller' = "idle"
    /\ UNCHANGED <<threadVars, triggered, finished, vsync>>

\* releaseResourceLocked: wait, requestExit, trigger the current job if there
\* is one, join.
Release ==
    /\ caller = "idle"
    /\ LateStart \/ pc # "start"
    /\ caller' = "release"
    /\ UNCHANGED <<threadVars, triggered, finished, vsync>>

ReleaseWaited ==
    /\ caller = "release"
    /\ Idle
    /\ caller' = "request"
    /\ UNCHANGED <<threadVars, triggered, finished, vsync>>

RequestExit ==
    /\ caller = "request"
    /\ exiting' = TRUE
    /\ caller' = "hand_over"
    /\ UNCHANGED <<m_queue, m_state, m_event, pc, cur, triggered, finished,
                   vsync>>

HandOver ==
    /\ caller = "hand_over"
    /\ caller' = "join"
    /\ \/ PushJob
       \/ Post /\ UNCHANGED <<m_queue, triggered>>
    /\ UNCHANGED <<exiting, pc, cur, finished, vsync>>

Joined ==
    /\ caller = "join"
    /\ pc = "exited"
    /\ caller' = "gone"
    /\ UNCHANGED <<threadVars, triggered, finished, vsync>>

-----------------------------------------------------------------------------
(* The VSync thread: onVSync of a display that trigger_by_vsync.  It holds *)
(* m_vsync_lock and not m_lock, so its read of the queue, its write of the *)
(* state and its post are three steps.  The listener is removed only after *)
(* the join.                                                               *)

VSyncRead ==
    /\ vsync = "idle"
    /\ caller # "gone"
    /\ m_event < MaxPosts
    /\ m_queue # <<>>
    /\ vsync' = "write"
    /\ UNCHANGED <<threadVars, triggered, finished, caller>>

VSyncWrite ==
    /\ vsync = "write"
    /\ m_state' = "TRIGGER"
    /\ vsync' = "post"
    /\ UNCHANGED <<m_queue, m_event, exiting, pc, cur, triggered, finished,
                   caller>>

\* Mutant of VSyncPost: the state is set and nobody is woken.
VSyncNoPost ==
    /\ vsync = "post"
    /\ vsync' = "idle"
    /\ UNCHANGED <<threadVars, triggered, finished, caller>>

VSyncPost ==
    /\ vsync = "post"
    /\ m_event' = m_event + 1
    /\ vsync' = "idle"
    /\ UNCHANGED <<m_queue, m_state, exiting, pc, cur, triggered, finished,
                   caller>>

-----------------------------------------------------------------------------
(* The thread.  The job is handled between Take and Finish.                *)

ThreadStep ==
    /\ \/ ReadyToRun \/ Wake \/ Take \/ Break \/ GoIdle \/ LoopAgain
    /\ UNCHANGED <<triggered, finished, caller, vsync>>

FinishJob ==
    /\ Finish
    /\ finished' = cur
    /\ UNCHANGED <<triggered, caller, vsync>>

CallerReturn == WaitReturn \/ ReleaseWaited \/ RequestExit \/ HandOver \/ Joined

VSyncEnd == VSyncWrite \/ VSyncPost

Next ==
    \/ Trigger \/ Wait \/ Release \/ CallerReturn
    \/ VSyncRead \/ VSyncEnd
    \/ ThreadStep \/ FinishJob

\* The scheduler runs the thread, a call in progress and a VSync callback in
\* progress; nobody has to start a call.
Fairness ==
    /\ WF_vars(ThreadStep \/ FinishJob)
    /\ WF_vars(CallerReturn)
    /\ WF_vars(VSyncEnd)

Spec == Init /\ [][Next]_vars /\ Fairness

-----------------------------------------------------------------------------
(* Properties.                                                             *)

InHand == IF cur = NoJob THEN 0 ELSE 1

\* Every triggered job is finished, in the thread's hands or in the queue,
\* once, and the queue holds the jobs after the one in hand in the order of
\* the triggers: no interleaving of callers, VSync and thread loses, repeats or
\* reorders a job.
JobsKept ==
    /\ triggered = finished + InHand + Len(m_queue)
    /\ cur # NoJob => cur = finished + 1
    /\ \A k \in 1 .. Len(m_queue) : m_queue[k] = finished + InHand + k

\* Jobs are finished one by one in the order they were triggered.
FinishedInOrder == [][finished' \in {finished, finished + 1}]_vars

\* The thread does not sleep on the semaphore while a job is queued: a trigger
\* that comes between the loop's last look at the queue and sem_wait is not
\* missed.
NeverSleepsOnWork == pc = "sem" /\ m_queue # <<>> => m_event > 0

\* A sleeping thread that nobody is about to wake is idle, so a caller of wait()
\* does not wait for a thread that has nothing to do.
SleepsIdle ==
    pc = "sem" /\ m_event = 0 /\ vsync # "post" => m_state = "IDLE"

\* wait() "is used to wait until thread is idle" (worker.h:32), and the flushes
\* rely on that (dispatcher.cpp:463, 831): when it returns every job triggered
\* before is finished.
WaitFlushes ==
    [][ WaitReturn \/ ReleaseWaited => finished = triggered ]_vars

\* "flush pending display job of display before destroy display session"
\* (dispatcher.cpp:831): once the thread is joined no job is left.
JoinFlushes == caller = "gone" => finished = triggered
=============================================================================
