----------------------------- MODULE HWCThread -----------------------------
(***************************************************************************)
(* The job-queue thread of 2.0.0/worker.{h,cpp} with the loop that its two *)
(* users, DispatchThread and OverlayEngine, run around it: a queue under   *)
(* m_lock, a semaphore that counts triggers and a two-valued state that    *)
(* wait() polls.  This module holds the state and the steps; the modules   *)
(* that use it say who calls and what handling a job means.                *)
(*                                                                         *)
(* The loop body looks at the queue, and removes its front, in separate    *)
(* sections of m_lock.  Only the thread itself removes, and a push between *)
(* the two does not change the front, so Take is one step.                 *)
(***************************************************************************)
EXTENDS Integers, Sequences

CONSTANT NoJob     \* the null sp<>

VARIABLES
    m_queue,       \* m_job_queue or m_frame_queue
    m_state,       \* HWC_THREAD_IDLE or HWC_THREAD_TRIGGER
    m_event,       \* the semaphore's value
    exiting,       \* Thread::mExitPending
    pc,            \* where the thread is
    cur            \* the job or frame it handles

threadVars == <<m_queue, m_state, m_event, exiting, pc, cur>>

Places == {"start", "sem", "loop", "busy", "last", "return", "exited"}

ThreadTypeOK(Jobs) ==
    /\ m_queue \in Seq(Jobs)
    /\ m_state \in {"IDLE", "TRIGGER"}
    /\ m_event \in Nat
    /\ exiting \in BOOLEAN
    /\ pc \in Places
    /\ cur \in Jobs \cup {NoJob}

\* The constructor, and run() in onFirstRef: the thread exists and has not
\* reached readyToRun yet.
ThreadInit ==
    /\ m_queue = <<>>
    /\ m_state = "IDLE"
    /\ m_event = 0
    /\ exiting = FALSE
    /\ pc = "start"
    /\ cur = NoJob

-----------------------------------------------------------------------------
(* What callers do, in sections of m_lock that the using module combines.  *)

Enqueue(job) == m_queue' = Append(m_queue, job)

Post ==
    /\ m_state' = "TRIGGER"
    /\ m_event' = m_event + 1

\* wait() returns when a check, at a signal or after 50 ms, sees this.
Idle == m_state = "IDLE"

-----------------------------------------------------------------------------
(* What the thread does.                                                   *)

\* readyToRun takes no lock.  Thread::_threadLoop skips the first threadLoop
\* when an exit is already pending.
ReadyToRun ==
    /\ pc = "start"
    /\ m_state' = "IDLE"
    /\ pc' = IF exiting THEN "exited" ELSE "sem"
    /\ UNCHANGED <<m_queue, m_event, exiting, cur>>

Wake ==
    /\ pc = "sem"
    /\ m_event > 0
    /\ m_event' = m_event - 1
    /\ pc' = "loop"
    /\ UNCHANGED <<m_queue, m_state, exiting, cur>>

Take ==
    /\ pc = "loop"
    /\ m_queue # <<>>
    /\ cur' = Head(m_queue)
    /\ m_queue' = Tail(m_queue)
    /\ pc' = "busy"
    /\ UNCHANGED <<m_state, m_event, exiting>>

Break ==
    /\ pc = "loop"
    /\ m_queue = <<>>
    /\ pc' = "last"
    /\ UNCHANGED <<m_queue, m_state, m_event, exiting, cur>>

Finish ==
    /\ pc = "busy"
    /\ cur' = NoJob
    /\ pc' = "loop"
    /\ UNCHANGED <<m_queue, m_state, m_event, exiting>>

\* Mutant of GoIdle: a job that arrived since the loop ended is not looked for.
GoIdleUnchecked ==
    /\ pc = "last"
    /\ m_state' = "IDLE"
    /\ pc' = "return"
    /\ UNCHANGED <<m_queue, m_event, exiting, cur>>

\* The last section: idle only if nothing arrived since the loop ended.
GoIdle ==
    /\ pc = "last"
    /\ m_state' = IF m_queue = <<>> THEN "IDLE" ELSE m_state
    /\ pc' = "return"
    /\ UNCHANGED <<m_queue, m_event, exiting, cur>>

\* Mutant of LoopAgain: threadLoop returns false, which ends the thread.
LoopEnds ==
    /\ pc = "return"
    /\ pc' = "exited"
    /\ UNCHANGED <<m_queue, m_state, m_event, exiting, cur>>

\* threadLoop returned true; Thread::_threadLoop looks at mExitPending.
LoopAgain ==
    /\ pc = "return"
    /\ pc' = IF exiting THEN "exited" ELSE "sem"
    /\ UNCHANGED <<m_queue, m_state, m_event, exiting, cur>>
=============================================================================
