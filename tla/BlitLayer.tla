----------------------------- MODULE BlitLayer -----------------------------
(***************************************************************************)
(* One layer that is blitted by MDP before the overlay shows it, from      *)
(* validated frame to driver: AsyncBliterHandler (2.0.0/bliter_async.cpp)  *)
(* with its BliterNode (bliter_ultra.cpp) and the DisplayBufferQueue of    *)
(* the layer, of which it is producer and consumer at once.                *)
(*                                                                         *)
(* The main thread prepares the layer of a frame in set(); the dispatch    *)
(* thread hands it to MDP and the overlay in process() or gives it up in   *)
(* cancelLayers().  Fences have names here: <<"acq", n>> the job's         *)
(* duplicate of the layer's acquire fence, <<"done", n>> the fence of the  *)
(* MDP job, <<"blit", n>> and <<"prev", n>> its duplicates, <<"rel", n>>   *)
(* the fence that prepareInput returns for the overlay input.              *)
(***************************************************************************)
EXTENDS Integers, Sequences, FiniteSets

CONSTANTS
    NumSlots,     \* NUM_BUFFER_SLOTS of the queue
    NumJobs,      \* HWLayers for the layer's input, one per DispatcherJob
    MaxFrame,     \* bound on the frames
    MaxFailed,    \* bound on the frames whose configuration fails
    NoFence,      \* -1
    NoSlot,       \* INVALID_BUFFER_SLOT
    NoJob

Kinds == {"acq", "done", "blit", "prev", "rel"}
Fds == Kinds \X (1 .. MaxFrame)

ASSUME BlitAssumption ==
    /\ NumSlots \in Nat \ {0} /\ NumJobs \in Nat \ {0}
    /\ MaxFrame \in Nat /\ MaxFailed \in Nat
    /\ NoFence \notin Fds
    /\ NoSlot \notin 0 .. NumSlots - 1

VARIABLES
    \* the layer's DisplayBufferQueue
    slots, m_queue, m_is_synchronous, m_frame_counter, qopen, pbuf, cbuf,
    last, dropped,
    m_rel_fence,       \* its m_rel_fence_fd
    m_last_acquired,   \* its m_last_acquired_buf.index
    \* the main thread and the two handlers
    mpc, cur, m_job_params, m_prev,
    \* the jobs: free HWLayers with what their last use left in them, and those
    \* the dispatch thread has to handle
    pool, jobs,
    dropping,          \* the display is being plugged out: jobs are dropped
    frame, failed, live,
    \* history: fences the overlay engine got, the fence of a slot's last use,
    \* the frame whose blit a slot holds, dropped jobs
    given, use, contents, cancelled

queueVars == <<slots, m_queue, m_is_synchronous, m_frame_counter, qopen, pbuf,
               cbuf, last, dropped>>
overlayVars == <<m_rel_fence, m_last_acquired>>
jobVars == <<pool, jobs, dropping>>
historyVars == <<given, use, contents, cancelled>>
vars == <<queueVars, overlayVars, mpc, cur, m_job_params, m_prev, jobVars,
          frame, failed, live, historyVars>>

Q == INSTANCE DisplayBufferQueue WITH open <- qopen

Fence == Fds \cup {NoFence}
FenceIf(made, kind, n) == IF made THEN <<kind, n>> ELSE NoFence

\* An HWLayer: its frame, doBlit, its slot, the MDP job's fence, the acquire
\* fence in `layer` and `fence` in ovl_port_param; `fail` and `shows` tell how
\* that was filled.
HWLayer == [seq : 1 .. MaxFrame, blit : BOOLEAN, slot : Q!Slots \cup {NoSlot},
            done : Fence, acq : Fence, port : Fence, fail : BOOLEAN,
            shows : 0 .. MaxFrame]

ASSUME NoJobAssumption == NoJob \notin HWLayer

\* resetData leaves ovl_port_param as it is.
Left(job) == [port |-> job.port, shows |-> job.shows]

Erase(n) == [m \in DOMAIN m_job_params \ {n} |-> m_job_params[m]]
ParamFences(n) == IF n \in DOMAIN m_job_params
                    THEN {m_job_params[n].src, m_job_params[n].dst} ELSE {}

-----------------------------------------------------------------------------
Init ==
    /\ slots = [i \in Q!Slots |-> [state |-> "FREE", frame_num |-> 0,
                                   acquire_fence |-> NoFence,
                                   release_fence |-> NoFence]]
    /\ m_queue = <<>> /\ m_is_synchronous = FALSE /\ m_frame_counter = 0
    /\ qopen = {} /\ last = 0 /\ dropped = {}
    /\ pbuf = [i \in Q!Slots |-> NoFence] /\ cbuf = [i \in Q!Slots |-> NoFence]
    /\ m_rel_fence = NoFence /\ m_last_acquired = NoSlot
    /\ mpc = "idle" /\ cur = NoJob /\ m_job_params = << >> /\ m_prev = NoFence
    /\ pool = [k \in 1 .. NumJobs |-> [port |-> NoFence, shows |-> 0]]
    /\ jobs = <<>> /\ dropping = FALSE
    /\ frame = 0 /\ failed = 0 /\ live = {}
    /\ given = {} /\ cancelled = {}
    /\ use = [i \in Q!Slots |-> NoFence] /\ contents = [i \in Q!Slots |-> 0]

-----------------------------------------------------------------------------
(* AsyncBliterHandler::set, in the main thread.                            *)

NewHWLayer(blit, done, acq) ==
    [seq |-> frame + 1, blit |-> blit, slot |-> NoSlot, done |-> done,
     acq |-> acq, port |-> Head(pool).port, fail |-> FALSE,
     shows |-> Head(pool).shows]

\* createJob gives the job its number even if the driver fails to make it, and
\* then no fence.
SetBlit ==
    /\ mpc = "idle" /\ pool # <<>> /\ frame < MaxFrame
    /\ \E created \in BOOLEAN :
          LET done == FenceIf(created, "done", frame + 1)
              acq == <<"acq", frame + 1>>
          IN  /\ cur' = NewHWLayer(TRUE, done, acq)
              /\ live' = live \cup ({done, acq} \ {NoFence})
    /\ m_job_params' = [n \in DOMAIN m_job_params \cup {frame + 1} |->
                          IF n = frame + 1
                            THEN [src |-> NoFence, dst |-> NoFence]
                            ELSE m_job_params[n]]
    /\ frame' = frame + 1
    /\ pool' = Tail(pool)
    /\ mpc' = "dequeue"
    /\ UNCHANGED <<queueVars, overlayVars, m_prev, jobs, dropping, failed,
                   historyVars>>

\* A layer that is not dirty shows the buffer acquired last once more.  The
\* fence of its last use is closed: a newer one replaces it.
SetBypass ==
    /\ mpc = "idle" /\ pool # <<>> /\ frame \in 1 .. MaxFrame - 1
    /\ cur' = NewHWLayer(FALSE, NoFence, NoFence)
    /\ live' = live \ {m_rel_fence}
    /\ m_rel_fence' = NoFence
    /\ frame' = frame + 1
    /\ pool' = Tail(pool)
    /\ mpc' = "prepare"
    /\ UNCHANGED <<queueVars, m_last_acquired, m_job_params, m_prev, jobs,
                   dropping, failed, historyVars>>

\* dequeueBuffer waits while no slot is free.
Dequeue ==
    /\ mpc = "dequeue"
    /\ \E i \in Q!Slots : Q!DequeueBuffer(i, TRUE) /\ cur' = [cur EXCEPT !.slot = i]
    /\ mpc' = "config"
    /\ UNCHANGED <<overlayVars, m_job_params, m_prev, jobVars, frame, failed,
                   live, historyVars>>

\* setDpConfig fails: the MDP job is cancelled, before it has any fence.  The
\* frame goes on; its slot, the slot's release fence and the fence of the MDP
\* job are left behind.
ConfigFails ==
    /\ mpc = "config" /\ failed < MaxFailed
    /\ m_job_params' = Erase(cur.seq)
    /\ pbuf' = [pbuf EXCEPT ![cur.slot] = NoFence]
    /\ cur' = [cur EXCEPT !.done = NoFence, !.fail = TRUE]
    /\ failed' = failed + 1
    /\ mpc' = "trigger"
    /\ UNCHANGED <<slots, m_queue, m_is_synchronous, m_frame_counter, qopen,
                   cbuf, last, dropped, overlayVars, m_prev, jobVars, frame,
                   live, historyVars>>

\* Mutant of ConfigAndQueue: the fence of the layer's last job stays open.
ConfigAndQueueKeepPrev ==
    LET n == cur.seq
        made == cur.done # NoFence
    IN  /\ mpc = "config"
        /\ Q!QueueBuffer(cur.slot, FenceIf(made, "blit", n))
        /\ m_job_params' = [m_job_params EXCEPT ![n] =
                               [src |-> cur.acq, dst |-> pbuf[cur.slot]]]
        /\ cur' = [cur EXCEPT !.acq = NoFence, !.done = NoFence]
        /\ m_prev' = FenceIf(made, "prev", n)
        /\ live' = (live \ {cur.done})
                     \cup ({FenceIf(made, "prev", n), FenceIf(made, "blit", n)}
                            \ {NoFence})
        /\ contents' = [contents EXCEPT ![cur.slot] = n]
        /\ mpc' = "release"
        /\ UNCHANGED <<overlayVars, jobVars, frame, failed, given, use,
                       cancelled>>

\* setSrc and setDst pass the acquire fence and the slot's release fence to the
\* MDP job, whose own fence goes to the HWCLayer; one duplicate is kept for
\* frames that show the layer again, one is queued with the buffer.
ConfigAndQueue ==
    LET n == cur.seq
        made == cur.done # NoFence
        prev == FenceIf(made, "prev", n)
        blit == FenceIf(made, "blit", n)
    IN  /\ mpc = "config"
        /\ Q!QueueBuffer(cur.slot, blit)
        /\ m_job_params' = [m_job_params EXCEPT ![n] =
                               [src |-> cur.acq, dst |-> pbuf[cur.slot]]]
        /\ cur' = [cur EXCEPT !.acq = NoFence, !.done = NoFence]
        /\ m_prev' = prev
        /\ live' = (live \ {cur.done, m_prev}) \cup ({prev, blit} \ {NoFence})
        /\ contents' = [contents EXCEPT ![cur.slot] = n]
        /\ mpc' = "release"
        /\ UNCHANGED <<overlayVars, jobVars, frame, failed, given, use,
                       cancelled>>

(* prepareOverlayPortParam.                                                *)

\* Mutant of ReleaseLast: the buffer is returned without its fence.
ReleaseLastNoFence ==
    /\ mpc = "release"
    /\ IF m_last_acquired = NoSlot
         THEN UNCHANGED <<queueVars, m_rel_fence>>
         ELSE /\ Q!ReleaseBuffer(m_last_acquired, NoFence)
              /\ UNCHANGED m_rel_fence
    /\ mpc' = "acquire"
    /\ UNCHANGED <<m_last_acquired, cur, m_job_params, m_prev, jobVars, frame,
                   failed, live, historyVars>>

\* Mutant of ReleaseLast: the buffer shown last is not returned.
ReleaseLastNot ==
    /\ mpc = "release"
    /\ mpc' = "acquire"
    /\ UNCHANGED <<queueVars, overlayVars, cur, m_job_params, m_prev, jobVars,
                   frame, failed, live, historyVars>>

\* The buffer shown so far returns with the fence of its last use.
ReleaseLast ==
    /\ mpc = "release"
    /\ IF m_last_acquired = NoSlot
         THEN UNCHANGED <<queueVars, m_rel_fence>>
         ELSE /\ Q!ReleaseBuffer(m_last_acquired, m_rel_fence)
              /\ m_rel_fence' = NoFence
    /\ mpc' = "acquire"
    /\ UNCHANGED <<m_last_acquired, cur, m_job_params, m_prev, jobVars, frame,
                   failed, live, historyVars>>

Acquire ==
    /\ mpc = "acquire"
    /\ Q!AcquireBuffer(TRUE)
    /\ m_last_acquired' = Head(m_queue)
    /\ mpc' = "prepare"
    /\ UNCHANGED <<m_rel_fence, cur, m_job_params, m_prev, jobVars, frame,
                   failed, live, historyVars>>

\* prepareInput returns the fence of this use, if it can; the fence of the blit
\* moves from the buffer to the job.
Prepare ==
    LET i == m_last_acquired
        fence == IF i = NoSlot THEN NoFence ELSE cbuf[i]
    IN  /\ mpc = "prepare"
        /\ \E made \in BOOLEAN : m_rel_fence' = FenceIf(made, "rel", frame)
        /\ live' = live \cup ({m_rel_fence'} \ {NoFence})
        /\ cur' = [cur EXCEPT !.port = fence,
                              !.shows = IF i = NoSlot THEN 0 ELSE contents[i]]
        /\ cbuf' = [j \in Q!Slots |-> IF j = i THEN NoFence ELSE cbuf[j]]
        /\ qopen' = qopen \ {fence}
        /\ use' = [j \in Q!Slots |-> IF j = i THEN m_rel_fence' ELSE use[j]]
        /\ mpc' = "trigger"
        /\ UNCHANGED <<slots, m_queue, m_is_synchronous, m_frame_counter, pbuf,
                       last, dropped, m_last_acquired, m_job_params, m_prev,
                       jobVars, frame, failed, given, contents, cancelled>>

Trigger ==
    /\ mpc = "trigger"
    /\ jobs' = Append(jobs, cur)
    /\ cur' = NoJob
    /\ mpc' = "idle"
    /\ UNCHANGED <<queueVars, overlayVars, m_job_params, m_prev, pool,
                   dropping, frame, failed, live, historyVars>>

-----------------------------------------------------------------------------
(* The dispatch thread.                                                    *)

\* Mutant of Process: the overlay does not get the fence of the blit.
ProcessNoPort ==
    LET job == Head(jobs)
        n == job.seq
    IN  /\ jobs # <<>> /\ ~dropping
        /\ UNCHANGED given
        /\ live' = live \ (IF job.blit THEN ParamFences(n) \cup {job.acq} ELSE {})
        /\ m_job_params' = IF job.blit THEN Erase(n) ELSE m_job_params
        /\ jobs' = Tail(jobs)
        /\ pool' = Append(pool, Left(job))
        /\ UNCHANGED <<queueVars, overlayVars, mpc, cur, m_prev, dropping,
                       frame, failed, use, contents, cancelled>>

\* process: the overlay gets ovl_port_param with its fence; a blit is started,
\* by which MDP gets the two fences of the job, or given up because the job
\* could not be created, by which they are closed.
Process ==
    LET job == Head(jobs)
        n == job.seq
        blitted == IF job.blit THEN ParamFences(n) \cup {job.acq} ELSE {}
    IN  /\ jobs # <<>> /\ ~dropping
        /\ given' = given \cup ({job.port} \ {NoFence})
        /\ live' = live \ ({job.port} \cup blitted)
        /\ m_job_params' = IF job.blit THEN Erase(n) ELSE m_job_params
        /\ jobs' = Tail(jobs)
        /\ pool' = Append(pool, Left(job))
        /\ UNCHANGED <<queueVars, overlayVars, mpc, cur, m_prev, dropping,
                       frame, failed, use, contents, cancelled>>

\* Mutant of CancelLayers: only the fence of the layer is closed.
CancelLayersKeepJob ==
    LET job == Head(jobs)
    IN  /\ jobs # <<>> /\ dropping
        /\ live' = live \ (IF job.blit THEN {job.acq} ELSE {})
        /\ jobs' = Tail(jobs)
        /\ pool' = Append(pool, Left(job))
        /\ cancelled' = cancelled \cup {job.seq}
        /\ UNCHANGED <<queueVars, overlayVars, mpc, cur, m_job_params, m_prev,
                       dropping, frame, failed, given, use, contents>>

\* cancelLayers: the MDP job is cancelled and its fences closed; ovl_port_param
\* is not looked at.
CancelLayers ==
    LET job == Head(jobs)
        n == job.seq
    IN  /\ jobs # <<>> /\ dropping
        /\ live' = live \ (IF job.blit THEN ParamFences(n) \cup {job.acq} ELSE {})
        /\ m_job_params' = IF job.blit THEN Erase(n) ELSE m_job_params
        /\ jobs' = Tail(jobs)
        /\ pool' = Append(pool, Left(job))
        /\ cancelled' = cancelled \cup {n}
        /\ UNCHANGED <<queueVars, overlayVars, mpc, cur, m_prev, dropping,
                       frame, failed, given, use, contents>>

\* The layer does not outlive the plug-out of its display.
IgnoreJobs ==
    /\ ~dropping /\ dropping' = TRUE
    /\ UNCHANGED <<queueVars, overlayVars, mpc, cur, m_job_params, m_prev,
                   pool, jobs, frame, failed, live, historyVars>>

Next ==
    \/ SetBlit \/ SetBypass \/ Dequeue \/ ConfigFails \/ ConfigAndQueue
    \/ ReleaseLast \/ Acquire \/ Prepare \/ Trigger
    \/ Process \/ CancelLayers \/ IgnoreJobs

Spec == Init /\ [][Next]_vars

-----------------------------------------------------------------------------
(* Properties.                                                             *)

One(x) == IF x = NoJob THEN <<>> ELSE <<x>>
AllJobs == jobs \o One(cur)

\* The types of the variables, on which the properties below rest.
TypeOK ==
    /\ Q!Typed
    /\ m_rel_fence \in Fence /\ m_prev \in Fence
    /\ m_last_acquired \in Q!Slots \cup {NoSlot}
    /\ mpc \in {"idle", "dequeue", "config", "release", "acquire", "prepare",
                "trigger"}
    /\ cur \in HWLayer \cup {NoJob}
    /\ DOMAIN m_job_params \subseteq 1 .. MaxFrame
    /\ \A n \in DOMAIN m_job_params :
          m_job_params[n] \in [src : Fence, dst : Fence]
    /\ pool \in Seq([port : Fence, shows : 0 .. MaxFrame])
    /\ jobs \in Seq(HWLayer)
    /\ frame \in 0 .. MaxFrame /\ failed \in 0 .. MaxFailed
    /\ live \subseteq Fds /\ dropping \in BOOLEAN

\* MDP writes into a slot only after the overlay's last use of it: whatever
\* frames showed the slot again in between, the release fence that setDst gets
\* is the one of the latest of them.
BlitWaitsForLastUse == mpc = "config" => pbuf[cur.slot] = use[cur.slot]

\* The overlay never shows a slot without the fence of the blit into it: with
\* the job that shows it, or with an earlier one, the engine got that fence,
\* and the fence a job carries is still open when the engine gets it.  (A frame
\* that could not be configured shows what its HWLayer was left with.)
OverlayWaitsForBlit ==
    [][ Process => LET job == Head(jobs)
                       blit == <<"blit", job.shows>>
                   IN  ~job.fail =>
                         /\ job.port # NoFence => job.port \in live
                         /\ blit \in live => blit \in given' ]_vars

\* An MDP job lives as long as the frame it was created for: none is left when
\* its frame was handled, cancelled or could not be configured.
JobParamsOfFrames ==
    DOMAIN m_job_params =
        {AllJobs[k].seq : k \in {l \in DOMAIN AllJobs :
                                   AllJobs[l].blit /\ ~AllJobs[l].fail}}

\* Who has to close a fence, and which.
PortOf(job) == IF job.fail \/ (job = cur /\ mpc # "trigger")
                 THEN NoFence ELSE job.port
SlotHolders == [k \in 1 .. NumSlots |-> slots[k - 1].acquire_fence]
                 \o [k \in 1 .. NumSlots |-> slots[k - 1].release_fence]
                 \o [k \in 1 .. NumSlots |-> pbuf[k - 1]]
                 \o [k \in 1 .. NumSlots |-> cbuf[k - 1]]
JobHolders == [k \in DOMAIN AllJobs |-> AllJobs[k].acq]
                \o [k \in DOMAIN AllJobs |-> AllJobs[k].done]
                \o [k \in DOMAIN AllJobs |-> PortOf(AllJobs[k])]
ParamHolders ==
    LET Of(n) == IF n \in DOMAIN m_job_params
                   THEN m_job_params[n] ELSE [src |-> NoFence, dst |-> NoFence]
    IN  [n \in 1 .. MaxFrame |-> Of(n).src]
          \o [n \in 1 .. MaxFrame |-> Of(n).dst]
Holders == SlotHolders \o JobHolders \o ParamHolders \o <<m_rel_fence, m_prev>>

\* A fence has one owner at a time and is open as long as it has one; without
\* an owner it stays open for ever, which happens to at most two fences of a
\* frame that could not be configured and to the blit fence of a dropped job.
FencesOwnedOnce ==
    LET holders == Holders
        held == {holders[k] : k \in DOMAIN holders} \ {NoFence}
        lost == live \ held
    IN  /\ held \subseteq live
        /\ \A k, l \in DOMAIN holders :
              holders[k] = holders[l] /\ holders[k] # NoFence => k = l
        /\ Cardinality({f \in lost : f[1] = "blit"}) <= Cardinality(cancelled)
        /\ Cardinality({f \in lost : f[1] # "blit"}) <= 2 * failed

\* The main thread finds a free slot for every frame, so dequeueBuffer does not
\* wait, until all slots but the one on the screen are left behind.
SlotForEveryFrame ==
    mpc = "dequeue" /\ failed < NumSlots - 1 => Q!InState("FREE") # {}

\* "job_param == nullptr" is fatal (bliter_ultra.cpp:518): the MDP job that
\* process() starts or cancelLayers() cancels exists.
JobParamFound ==
    [][ (Process \/ CancelLayers) /\ Head(jobs).blit =>
            Head(jobs).seq \in DOMAIN m_job_params ]_vars
=============================================================================
