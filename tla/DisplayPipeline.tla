-------------------------- MODULE DisplayPipeline --------------------------
(***************************************************************************)
(* The way of a frame through one pluggable physical display: the main     *)
(* thread takes a job from the pool (getJob), completes it (setJob) and    *)
(* triggers it; the DispatchThread turns it into a frame for the           *)
(* OverlayEngine; the engine's thread waits for the frame's fences and     *)
(* gives it to the driver.  Meanwhile the main thread switches the power   *)
(* and the hotplug thread tears the display down and sets it up again.     *)
(* 2.0.0/dispatcher.cpp, overlay.cpp, display.cpp, hwc_common/pool.h.      *)
(*                                                                         *)
(* Both threads are instances of HWCThread.  A job or a frame carries the  *)
(* fences it has to close, each a member of Fences: <<"A", n>> for the     *)
(* acquire fences of job n, its layers' and with them its client target's, *)
(* <<"C", n>> for the client target's if job n has nothing else to show,   *)
(* <<"P", n>> for the duplicate of its present fence that the next job     *)
(* waits for, <<"Q", n>> for its picture-quality fence.                    *)
(***************************************************************************)
EXTENDS Integers, Sequences, FiniteSets

CONSTANTS
    JobPoolSize,      \* DispatcherJobs of the display
    FramePoolSize,    \* FrameInfos of its OverlayEngine
    FenceWait,        \* isFenceWaitSupported of the overlay device
    TriggerByVSync,   \* trigger_by_vsync of the display
    JobFences,        \* the fences a job may come with: see Complete
    MaxSeq,           \* bound on the jobs taken from the pool
    MaxPlugs,         \* bound on the times the display is plugged in again
    NoJob             \* the null sp<>

ASSUME PipelineAssumption ==
    /\ JobPoolSize \in Nat /\ JobPoolSize >= 2
    /\ FramePoolSize \in Nat /\ FramePoolSize >= 2
    /\ FenceWait \in BOOLEAN
    /\ TriggerByVSync \in BOOLEAN
    /\ JobFences \subseteq {"A", "C"} \X BOOLEAN \X BOOLEAN
    /\ MaxSeq \in Nat /\ MaxPlugs \in Nat

VARIABLES
    \* the display's WorkerCluster
    enable, ignore_job, main_lock, m_curr, job_pool, curr_fence,
    \* its DispatchThread
    dq, dstate, dsem, dexit, dpc, dcur, dstep,
    \* its OverlayEngine
    engine, frame_free, m_stop, m_last,
    oq, ostate, osem, oexit, opc, ocur,
    \* the main thread, the hotplug thread
    mpc, raw, hpc, plugs,
    \* the rest: m_sequence, open descriptors, last job given to the driver
    m_sequence, open, presented

clusterVars == <<enable, ignore_job, main_lock, m_curr, job_pool, curr_fence>>
dispatchVars == <<dq, dstate, dsem, dexit, dpc, dcur, dstep>>
overlayVars == <<engine, frame_free, m_stop, m_last,
                 oq, ostate, osem, oexit, opc, ocur>>
mainVars == <<mpc, raw>>
hotplugVars == <<hpc, plugs>>
restVars == <<m_sequence, open, presented>>
vars == <<clusterVars, dispatchVars, overlayVars, mainVars, hotplugVars,
          restVars>>

\* m_state, m_event and so on of the two threads.
D == INSTANCE HWCThread WITH m_queue <- dq, m_state <- dstate,
        m_event <- dsem, exiting <- dexit, pc <- dpc, cur <- dcur
O == INSTANCE HWCThread WITH m_queue <- oq, m_state <- ostate,
        m_event <- osem, exiting <- oexit, pc <- opc, cur <- ocur

Fences == {"A", "C", "P", "Q"} \X (1 .. MaxSeq)
Job == [seq : 0 .. MaxSeq, enable : BOOLEAN, fences : SUBSET Fences]
Frame == [seq : 1 .. MaxSeq, fences : SUBSET Fences]

ASSUME NoJobAssumption == NoJob \notin Job /\ NoJob \notin Frame

OfKind(kinds, fences) == {f \in fences : f[1] \in kinds}

\* resetData leaves a job like this.  It closes the present and the
\* picture-quality fence it finds, and forgets those of the layers.
CleanJob == [seq |-> 0, enable |-> FALSE, fences |-> {}]
ResetCloses(job) == OfKind({"P", "Q"}, job.fences)

One(x) == IF x = NoJob THEN <<>> ELSE <<x>>

\* plug_lock_loop is held while the dispatch thread handles a job.
LoopLocked == dpc = "busy" /\ dstep \in {"frame", "post"}

-----------------------------------------------------------------------------

FullPool == [i \in 1 .. JobPoolSize |-> CleanJob]

\* The display is plugged in and its threads and pools are new.
Init ==
    /\ enable = TRUE /\ ignore_job = FALSE /\ main_lock = "free"
    /\ m_curr = NoJob /\ job_pool = FullPool /\ curr_fence = {}
    /\ D!ThreadInit /\ dstep = "none"
    /\ engine = "on" /\ frame_free = FramePoolSize
    /\ m_stop = FALSE /\ m_last = NoJob
    /\ O!ThreadInit
    /\ mpc = "idle" /\ raw = 0
    /\ hpc = "up" /\ plugs = 0
    /\ m_sequence = 0 /\ open = {} /\ presented = 0

-----------------------------------------------------------------------------
(* The main thread.  It validates, possibly more than once, and presents.  *)

\* The two threads have run readyToRun; DispatchThread says what depends on it.
Started == enable => dpc # "start" /\ opc # "start"

\* getJob without a job: m_curr_jobs loses its reference to the old one.
NoNewJob ==
    /\ m_curr' = NoJob
    /\ job_pool' = job_pool \o One(m_curr)
    /\ raw' = 0
    /\ mpc' = "prepared"
    /\ UNCHANGED main_lock

\* The frame rate limit looks at the clock, so any job may be dropped; a queue
\* of more than two jobs makes sure of it.
MayDrop == TriggerByVSync /\ enable
MustDrop == MayDrop /\ Len(dq) > 2

GetJob ==
    /\ mpc \in {"idle", "prepared"}
    /\ main_lock = "free"
    /\ Started
    /\ \/ MayDrop /\ NoNewJob
       \/ ~MustDrop /\ (~enable \/ engine # "on") /\ NoNewJob
       \/ /\ ~MustDrop /\ enable /\ engine = "on"
          /\ m_sequence < MaxSeq
          /\ main_lock' = "main"
          /\ mpc' = "getting"
          /\ UNCHANGED <<m_curr, job_pool, raw>>
    /\ UNCHANGED <<enable, ignore_job, curr_fence, dispatchVars, overlayVars,
                   hotplugVars, restVars>>

\* Mutant of GetJobTake: the untriggered job is not given back.
GetJobTakeLeak ==
    /\ mpc = "getting"
    /\ job_pool # <<>>
    /\ m_sequence' = m_sequence + 1
    /\ m_curr' = [Head(job_pool) EXCEPT !.seq = m_sequence + 1]
    /\ job_pool' = Tail(job_pool)
    /\ raw' = m_sequence + 1
    /\ main_lock' = "free"
    /\ mpc' = "prepared"
    /\ UNCHANGED <<enable, ignore_job, curr_fence, dispatchVars, overlayVars,
                   hotplugVars, open, presented>>

\* getFreeObject, which waits with plug_lock_main held, and the assignment to
\* m_curr_jobs, which gives an untriggered job back to the pool.
GetJobTake ==
    /\ mpc = "getting"
    /\ job_pool # <<>>
    /\ m_sequence' = m_sequence + 1
    /\ m_curr' = [Head(job_pool) EXCEPT !.seq = m_sequence + 1]
    /\ job_pool' = Tail(job_pool) \o One(m_curr)
    /\ raw' = m_sequence + 1
    /\ main_lock' = "free"
    /\ mpc' = "prepared"
    /\ UNCHANGED <<enable, ignore_job, curr_fence, dispatchVars, overlayVars,
                   hotplugVars, open, presented>>

\* The dirty job gets the fences of its layers, or of the client target alone,
\* the present fence of the job before it and perhaps a picture-quality fence;
\* its own present fence is duplicated for the job after it unless the driver
\* fails to make one.
Complete(job, acquire, present, pq) ==
    LET own == {<<acquire, job.seq>>}
                  \cup (IF pq THEN {<<"Q", job.seq>>} ELSE {})
        next == IF present THEN {<<"P", job.seq>>} ELSE {}
    IN  /\ m_curr' = [job EXCEPT !.enable = TRUE,
                                 !.fences = own \cup curr_fence]
        /\ curr_fence' = next
        /\ open' = open \cup own \cup next

\* Without an enabled display, a running engine, a job or a dirty layer the
\* fences of the layers are closed on the spot and the job stays disabled.
SetJob ==
    /\ mpc = "prepared"
    /\ main_lock = "free"
    /\ mpc' = "set"
    /\ \/ /\ enable /\ engine = "on" /\ m_curr # NoJob
          /\ \E f \in JobFences : Complete(m_curr, f[1], f[2], f[3])
       \/ /\ m_curr' = IF enable /\ engine = "on" /\ m_curr # NoJob
                         THEN [m_curr EXCEPT !.enable = FALSE] ELSE m_curr
          /\ UNCHANGED <<curr_fence, open>>
    /\ UNCHANGED <<enable, ignore_job, main_lock, job_pool, dispatchVars,
                   overlayVars, raw, hotplugVars, m_sequence, presented>>

\* Mutant of Trigger: m_curr_jobs keeps its reference.
TriggerKeep ==
    /\ mpc = "set"
    /\ main_lock = "free"
    /\ mpc' = "idle" /\ raw' = 0
    /\ IF enable /\ m_curr # NoJob
         THEN D!Enqueue(m_curr) /\ D!Post
         ELSE UNCHANGED <<dq, dstate, dsem>>
    /\ UNCHANGED <<m_curr, enable, ignore_job, main_lock, job_pool, curr_fence,
                   dexit, dpc, dcur, dstep, overlayVars, hotplugVars, restVars>>

\* At most JobPoolSize jobs exist, so the queue never has the more than five
\* that would make trigger wait.
Trigger ==
    /\ mpc = "set"
    /\ main_lock = "free"
    /\ mpc' = "idle" /\ raw' = 0
    /\ IF enable /\ m_curr # NoJob
         THEN D!Enqueue(m_curr) /\ D!Post /\ m_curr' = NoJob
         ELSE UNCHANGED <<dq, dstate, dsem, m_curr>>
    /\ UNCHANGED <<enable, ignore_job, main_lock, job_pool, curr_fence, dexit,
                   dpc, dcur, dstep, overlayVars, hotplugVars, restVars>>

\* setPowerMode: off waits for both threads, in this order, under
\* plug_lock_main; a display that is not there has none to wait for.
PowerOff ==
    /\ mpc = "idle"
    /\ main_lock = "free"
    /\ enable /\ engine = "on" /\ Started
    /\ main_lock' = "main"
    /\ mpc' = "off_dispatch"
    /\ UNCHANGED <<enable, ignore_job, m_curr, job_pool, curr_fence,
                   dispatchVars, overlayVars, raw, hotplugVars, restVars>>

\* Mutant of PowerOffDispatched: the dispatch thread is not waited for.
PowerOffDispatchedAtOnce ==
    /\ mpc = "off_dispatch"
    /\ mpc' = "off_overlay"
    /\ UNCHANGED <<clusterVars, dispatchVars, overlayVars, raw, hotplugVars,
                   restVars>>

PowerOffDispatched ==
    /\ mpc = "off_dispatch"
    /\ D!Idle
    /\ mpc' = "off_overlay"
    /\ UNCHANGED <<clusterVars, dispatchVars, overlayVars, raw, hotplugVars,
                   restVars>>

PowerOffDone ==
    /\ mpc = "off_overlay"
    /\ O!Idle
    /\ engine' = "paused"
    /\ main_lock' = "free"
    /\ mpc' = "idle"
    /\ UNCHANGED <<enable, ignore_job, m_curr, job_pool, curr_fence,
                   dispatchVars, frame_free, m_stop, m_last,
                   oq, ostate, osem, oexit, opc, ocur, raw, hotplugVars,
                   restVars>>

PowerOn ==
    /\ mpc = "idle"
    /\ main_lock = "free"
    /\ enable /\ engine = "paused"
    /\ engine' = "on"
    /\ UNCHANGED <<clusterVars, dispatchVars, frame_free, m_stop, m_last,
                   oq, ostate, osem, oexit, opc, ocur, mainVars, hotplugVars,
                   restVars>>

-----------------------------------------------------------------------------
(* The dispatch thread.                                                    *)

DispatchIdleStep ==
    /\ D!ReadyToRun \/ D!Wake \/ D!Break \/ D!GoIdle \/ D!LoopAgain
    /\ UNCHANGED <<clusterVars, dstep, overlayVars, mainVars, hotplugVars,
                   restVars>>

\* dropJob reads ignore_job under plug_lock_loop.
DispatchTake ==
    /\ D!Take
    /\ dstep' = IF ignore_job THEN "drop" ELSE "handle"
    /\ UNCHANGED <<clusterVars, overlayVars, mainVars, hotplugVars, restVars>>

\* clearUsedJob, and the loop's last reference to the job.
ClearUsedJob(job) ==
    /\ D!Finish
    /\ dstep' = "none"
    /\ job_pool' = Append(job_pool, CleanJob)
    /\ open' = open \ ResetCloses(job)

\* Mutant of DispatchDrop: the layers of a dropped job are not cancelled.
DispatchDropNoCancel ==
    /\ dpc = "busy" /\ dstep = "drop"
    /\ D!Finish
    /\ dstep' = "none"
    /\ job_pool' = Append(job_pool, CleanJob)
    /\ open' = open \ OfKind({"P", "Q"}, dcur.fences)
    /\ UNCHANGED <<enable, ignore_job, main_lock, m_curr, curr_fence,
                   overlayVars, mainVars, hotplugVars, m_sequence, presented>>

\* A dropped job that is enabled has its layers cancelled, which closes their
\* fences; cancelLayers is not called for a job without layers, so the fence of
\* a client target that is all there is to show stays open.
DispatchDrop ==
    LET cancelled == IF dcur.enable THEN OfKind({"A"}, dcur.fences) ELSE {}
    IN  /\ dpc = "busy" /\ dstep = "drop"
        /\ D!Finish
        /\ dstep' = "none"
        /\ job_pool' = Append(job_pool, CleanJob)
        /\ open' = open \ (cancelled \cup ResetCloses(dcur))
        /\ UNCHANGED <<enable, ignore_job, main_lock, m_curr, curr_fence,
                       overlayVars, mainVars, hotplugVars, m_sequence,
                       presented>>

\* plug_lock_loop is taken; a job that is not enabled is passed over.
DispatchHandle ==
    /\ dpc = "busy" /\ dstep = "handle"
    /\ IF dcur.enable
         THEN /\ dstep' = "frame"
              /\ UNCHANGED <<dq, dstate, dsem, dexit, dpc, dcur, job_pool, open>>
         ELSE ClearUsedJob(dcur)
    /\ UNCHANGED <<enable, ignore_job, main_lock, m_curr, curr_fence,
                   overlayVars, mainVars, hotplugVars, m_sequence, presented>>

\* Mutant of DispatchFrame: the pool is not waited for.
DispatchFrameNoWait ==
    /\ dpc = "busy" /\ dstep = "frame"
    /\ frame_free' = frame_free - 1
    /\ O!Enqueue([seq |-> dcur.seq, fences |-> dcur.fences])
    /\ dcur' = [dcur EXCEPT !.fences = {}]
    /\ dstep' = "post"
    /\ UNCHANGED <<clusterVars, dq, dstate, dsem, dexit, dpc, engine, m_stop,
                   m_last, ostate, osem, oexit, opc, ocur, mainVars,
                   hotplugVars, restVars>>

\* OverlayEngine::trigger, first section: a FrameInfo, for which the pool may
\* have to be waited for, takes over the fences of the job and is queued.
DispatchFrame ==
    /\ dpc = "busy" /\ dstep = "frame"
    /\ frame_free > 0
    /\ frame_free' = frame_free - 1
    /\ O!Enqueue([seq |-> dcur.seq, fences |-> dcur.fences])
    /\ dcur' = [dcur EXCEPT !.fences = {}]
    /\ dstep' = "post"
    /\ UNCHANGED <<clusterVars, dq, dstate, dsem, dexit, dpc, engine, m_stop,
                   m_last, ostate, osem, oexit, opc, ocur, mainVars,
                   hotplugVars, restVars>>

\* Mutant of DispatchPost: the engine is told of its frame only by the state.
DispatchPostNoEvent ==
    /\ dpc = "busy" /\ dstep = "post"
    /\ ostate' = "TRIGGER" /\ osem' = osem
    /\ ClearUsedJob(dcur)
    /\ UNCHANGED <<enable, ignore_job, main_lock, m_curr, curr_fence,
                   engine, frame_free, m_stop, m_last, oq, oexit, opc, ocur,
                   mainVars, hotplugVars, m_sequence, presented>>

\* Second section of trigger; then the job is cleared.
DispatchPost ==
    /\ dpc = "busy" /\ dstep = "post"
    /\ O!Post
    /\ ClearUsedJob(dcur)
    /\ UNCHANGED <<enable, ignore_job, main_lock, m_curr, curr_fence,
                   engine, frame_free, m_stop, m_last, oq, oexit, opc, ocur,
                   mainVars, hotplugVars, m_sequence, presented>>

DispatchStep ==
    \/ DispatchIdleStep \/ DispatchTake \/ DispatchDrop
    \/ DispatchHandle \/ DispatchFrame \/ DispatchPost

-----------------------------------------------------------------------------
(* The overlay engine's thread.                                            *)

\* m_stop ends the loop whatever is queued.
OverlayStopped ==
    /\ opc = "loop" /\ m_stop
    /\ opc' = "last"
    /\ UNCHANGED <<oq, ostate, osem, oexit, ocur>>

OverlayIdleStep ==
    /\ \/ O!ReadyToRun \/ O!Wake \/ O!GoIdle \/ O!LoopAgain
       \/ ~m_stop /\ (O!Take \/ O!Break)
       \/ OverlayStopped
    /\ UNCHANGED <<clusterVars, dispatchVars, engine, frame_free, m_stop,
                   m_last, mainVars, hotplugVars, restVars>>

\* waitAllFence closes every fence it waits for; closeAllFenceFd knows the
\* fences of the inputs and the present fence.
FrameCloses(frame) ==
    IF FenceWait THEN OfKind({"A", "C", "P"}, frame.fences) ELSE frame.fences

\* Mutant of OverlayCommit: the frame kept for dumps is replaced, not released.
OverlayCommitLeak ==
    /\ opc = "busy"
    /\ O!Finish
    /\ presented' = ocur.seq
    /\ open' = open \ FrameCloses(ocur)
    /\ m_last' = [ocur EXCEPT !.fences = @ \ FrameCloses(ocur)]
    /\ UNCHANGED <<frame_free, clusterVars, dispatchVars, engine, m_stop,
                   mainVars, hotplugVars, m_sequence>>

\* The frame goes to the driver, its fences are closed, and it takes the place
\* of m_last_frame_info, whose object returns to the pool.
OverlayCommit ==
    /\ opc = "busy"
    /\ O!Finish
    /\ presented' = ocur.seq
    /\ open' = open \ FrameCloses(ocur)
    /\ m_last' = [ocur EXCEPT !.fences = @ \ FrameCloses(ocur)]
    /\ frame_free' = frame_free + Len(One(m_last))
    /\ UNCHANGED <<clusterVars, dispatchVars, engine, m_stop, mainVars,
                   hotplugVars, m_sequence>>

OverlayStep == OverlayIdleStep \/ OverlayCommit

-----------------------------------------------------------------------------
(* The hotplug thread: DisplayManager::hotplugExt and, under               *)
(* plug_lock_main, onPlugOut with releaseResourceLocked.                   *)

\* ignoreJob(true) waits for plug_lock_loop.
PlugOut ==
    /\ hpc = "up"
    /\ Started
    /\ ~LoopLocked
    /\ ignore_job' = TRUE
    /\ hpc' = "out"
    /\ UNCHANGED <<enable, main_lock, m_curr, job_pool, curr_fence,
                   dispatchVars, overlayVars, mainVars, plugs, restVars>>

\* Mutant of ReleaseBegin: a current job has to be triggered first.
ReleaseBeginWhenTriggered ==
    /\ hpc = "out"
    /\ main_lock = "free" /\ m_curr = NoJob
    /\ main_lock' = "hotplug"
    /\ hpc' = "wait"
    /\ UNCHANGED <<enable, ignore_job, m_curr, job_pool, curr_fence,
                   dispatchVars, overlayVars, mainVars, plugs, restVars>>

ReleaseBegin ==
    /\ hpc = "out"
    /\ main_lock = "free"
    /\ main_lock' = "hotplug"
    /\ hpc' = "wait"
    /\ UNCHANGED <<enable, ignore_job, m_curr, job_pool, curr_fence,
                   dispatchVars, overlayVars, mainVars, plugs, restVars>>

ReleaseWaited ==
    /\ hpc = "wait"
    /\ D!Idle
    /\ hpc' = "request"
    /\ UNCHANGED <<clusterVars, dispatchVars, overlayVars, mainVars, plugs,
                   restVars>>

ReleaseRequest ==
    /\ hpc = "request"
    /\ dexit' = TRUE
    /\ hpc' = "hand_over"
    /\ UNCHANGED <<clusterVars, dq, dstate, dsem, dpc, dcur, dstep,
                   overlayVars, mainVars, plugs, restVars>>

\* The current job, or no job, is triggered for the exiting thread.
ReleaseHandOver ==
    /\ hpc = "hand_over"
    /\ dq' = dq \o One(m_curr)
    /\ D!Post
    /\ m_curr' = NoJob
    /\ hpc' = "join"
    /\ UNCHANGED <<enable, ignore_job, main_lock, job_pool, curr_fence,
                   dexit, dpc, dcur, dstep, overlayVars, mainVars, plugs,
                   restVars>>

\* Mutant of ReleaseJoined: the dispatch thread is not joined.
ReleaseNotJoined ==
    /\ hpc = "join"
    /\ job_pool' = job_pool \o dq
    /\ dq' = <<>>
    /\ curr_fence' = {}
    /\ oexit' = TRUE
    /\ m_stop' = TRUE
    /\ hpc' = "wake"
    /\ UNCHANGED <<enable, ignore_job, main_lock, m_curr, dstate, dsem, dexit,
                   dpc, dcur, dstep, engine, frame_free, m_last, oq, ostate,
                   osem, opc, ocur, mainVars, plugs, restVars>>

\* The thread is gone: its queue and the post handler go too, the jobs left in
\* the queue back to the pool as they are, the kept present fence nowhere.  The
\* engine is asked to exit and to stop.
ReleaseJoined ==
    /\ hpc = "join"
    /\ dpc = "exited"
    /\ job_pool' = job_pool \o dq
    /\ dq' = <<>>
    /\ curr_fence' = {}
    /\ oexit' = TRUE
    /\ m_stop' = TRUE
    /\ hpc' = "wake"
    /\ UNCHANGED <<enable, ignore_job, main_lock, m_curr, dstate, dsem, dexit,
                   dpc, dcur, dstep, engine, frame_free, m_last, oq, ostate,
                   osem, opc, ocur, mainVars, plugs, restVars>>

\* trigger with do_nothing.
ReleaseWake ==
    /\ hpc = "wake"
    /\ O!Post
    /\ hpc' = "join_overlay"
    /\ UNCHANGED <<clusterVars, dispatchVars, engine, frame_free, m_stop,
                   m_last, oq, oexit, opc, ocur, mainVars, plugs, restVars>>

\* ~OverlayEngine closes the fences of the frames that are still queued.
ReleaseOverlay ==
    /\ hpc = "join_overlay"
    /\ opc = "exited"
    /\ engine' = "gone"
    /\ open' = open \ UNION {OfKind({"A", "C", "P"}, oq[i].fences) :
                              i \in DOMAIN oq}
    /\ frame_free' = frame_free + Len(oq) + Len(One(m_last))
    /\ oq' = <<>>
    /\ m_last' = NoJob
    /\ hpc' = "delete_pool"
    /\ UNCHANGED <<clusterVars, dispatchVars, m_stop, ostate, osem, oexit,
                   opc, ocur, mainVars, plugs, m_sequence, presented>>

\* ~ObjectPool waits for all its objects.  The display is disabled and
\* plug_lock_main released.
ReleaseDone ==
    /\ hpc = "delete_pool"
    /\ Len(job_pool) = JobPoolSize
    /\ enable' = FALSE
    /\ main_lock' = "free"
    /\ hpc' = "down"
    /\ UNCHANGED <<ignore_job, m_curr, job_pool, curr_fence, dispatchVars,
                   overlayVars, mainVars, plugs, restVars>>

PlugIn ==
    /\ hpc = "down"
    /\ main_lock = "free"
    /\ plugs < MaxPlugs
    /\ plugs' = plugs + 1
    /\ enable' = TRUE
    /\ job_pool' = FullPool /\ curr_fence' = {}
    /\ dq' = <<>> /\ dstate' = "IDLE" /\ dsem' = 0 /\ dexit' = FALSE
    /\ dpc' = "start" /\ dcur' = NoJob /\ dstep' = "none"
    /\ engine' = "on" /\ frame_free' = FramePoolSize
    /\ m_stop' = FALSE /\ m_last' = NoJob
    /\ oq' = <<>> /\ ostate' = "IDLE" /\ osem' = 0 /\ oexit' = FALSE
    /\ opc' = "start" /\ ocur' = NoJob
    /\ hpc' = "in"
    /\ UNCHANGED <<ignore_job, main_lock, m_curr, mainVars, restVars>>

\* ignoreJob(false) comes after the display is enabled.
PlugInDone ==
    /\ hpc = "in"
    /\ ~LoopLocked
    /\ ignore_job' = FALSE
    /\ hpc' = "up"
    /\ UNCHANGED <<enable, main_lock, m_curr, job_pool, curr_fence,
                   dispatchVars, overlayVars, mainVars, plugs, restVars>>

HotplugReturn ==
    \/ ReleaseBegin \/ ReleaseWaited \/ ReleaseRequest \/ ReleaseHandOver
    \/ ReleaseJoined \/ ReleaseWake \/ ReleaseOverlay \/ ReleaseDone
    \/ PlugInDone

MainReturn == GetJobTake \/ PowerOffDispatched \/ PowerOffDone

Next ==
    \/ GetJob \/ SetJob \/ Trigger \/ PowerOff \/ PowerOn \/ MainReturn
    \/ DispatchStep \/ OverlayStep
    \/ PlugOut \/ PlugIn \/ HotplugReturn

\* The scheduler runs the two threads and every call that is under way.  The
\* hotplug thread gets plug_lock_main in spite of the main thread's frames,
\* which leave it free most of the time.
Fairness ==
    /\ WF_vars(DispatchStep)
    /\ WF_vars(OverlayStep)
    /\ WF_vars(MainReturn)
    /\ SF_vars(HotplugReturn)

Spec == Init /\ [][Next]_vars /\ Fairness

-----------------------------------------------------------------------------
(* Properties.                                                             *)

TypeOK ==
    /\ {enable, ignore_job, dexit, oexit, m_stop} \subseteq BOOLEAN
    /\ main_lock \in {"free", "main", "hotplug"}
    /\ m_curr \in Job \cup {NoJob}
    /\ job_pool \in Seq(Job)
    /\ D!ThreadTypeOK(Job) /\ O!ThreadTypeOK(Frame)
    /\ dstep \in {"none", "drop", "handle", "frame", "post"}
    /\ engine \in {"on", "paused", "gone"}
    /\ frame_free \in 0 .. FramePoolSize
    /\ m_last \in Frame \cup {NoJob}
    /\ mpc \in {"idle", "getting", "prepared", "set", "off_dispatch",
                "off_overlay"}
    /\ raw \in 0 .. MaxSeq
    /\ hpc \in {"up", "out", "wait", "request", "hand_over", "join", "wake",
                "join_overlay", "delete_pool", "down", "in"}
    /\ plugs \in 0 .. MaxPlugs
    /\ m_sequence \in 0 .. MaxSeq /\ presented \in 0 .. MaxSeq
    /\ curr_fence \subseteq Fences /\ open \subseteq Fences

\* Every DispatcherJob is in one place, so getJob cannot run out of jobs for
\* good and the destructor of the pool gets them all; and until the display is
\* released a job in the pool carries nothing of its last use.
JobsConserved ==
    /\ Len(job_pool) + Len(One(m_curr)) + Len(dq) + Len(One(dcur)) = JobPoolSize
    /\ hpc \in {"up", "out", "in"} =>
          \A i \in DOMAIN job_pool :
             ~job_pool[i].enable /\ job_pool[i].fences = {}

\* Every FrameInfo is free, queued, handled or kept for dumps.
FramesConserved ==
    frame_free + Len(oq) + Len(One(ocur)) + Len(One(m_last)) = FramePoolSize

Seqs(s) == [i \in DOMAIN s |-> s[i].seq]

\* The jobs and frames under way are in the order they were taken from the
\* pool, and newer than what the driver has: whatever is dropped, validated
\* again or torn down, an older frame never replaces a newer one.
OldestFirst ==
    LET frame == IF dstep = "post" THEN <<>> ELSE Seqs(One(dcur))
        line == <<presented>> \o Seqs(One(ocur)) \o Seqs(oq) \o frame
                  \o Seqs(dq) \o Seqs(One(m_curr))
    IN  \A i \in 1 .. Len(line) - 1 : line[i] < line[i + 1]

\* Those who have to close fences, and the fences they have.
FencesOf(s) == [i \in DOMAIN s |-> s[i].fences]
Holders == FencesOf(One(m_curr)) \o FencesOf(dq) \o FencesOf(One(dcur))
             \o FencesOf(oq) \o FencesOf(One(ocur)) \o <<curr_fence>>
Held == UNION {Holders[i] : i \in DOMAIN Holders}

Releases == plugs + (IF hpc \in {"wake", "join_overlay", "delete_pool", "down"}
                       THEN 1 ELSE 0)

\* A fence is closed at most once: what somebody still has to close is open and
\* nobody else's.  And it is closed at least once, with two exceptions.  From the
\* moment a plug-out has jobs dropped, the client target's fence of a dropped job
\* that shows nothing else is lost.  And a release can lose the fences of the
\* last job and the one the post handler kept, and the picture-quality fences of
\* the frames the engine did not get to.
FencesClosedOnce ==
    LET lost == open \ Held
    IN  /\ Held \subseteq open
        /\ \A i, j \in DOMAIN Holders : i # j => Holders[i] \cap Holders[j] = {}
        /\ plugs = 0 /\ hpc = "up" => lost = {}
        /\ Releases = 0 => lost = OfKind({"C"}, lost)
        /\ Cardinality({f[2] : f \in OfKind({"A", "P"}, lost)}) <= 2 * Releases

\* "close all fence fd in here" (overlay.cpp:861): a frame given to the driver
\* holds no fence any more.
PresentedHoldsNoFence == m_last # NoJob => m_last.fences = {}

\* Power is cut only when every triggered job has reached the driver.
PowerOffFlushes ==
    [][ PowerOffDone => /\ dq = <<>> /\ dcur = NoJob
                        /\ oq = <<>> /\ ocur = NoJob ]_vars

\* Nothing runs on a display that is torn down: no thread is inside its loop
\* when the engine is destroyed, and none is left when the display is disabled.
NoUseAfterRelease == engine = "gone" => dpc = "exited" /\ opc = "exited"

\* m_curr_jobs "holds DispatcherJob of all displays and is used between
\* prepare() and set()" (dispatcher.h:730): the job that the main thread works
\* on through getExistJob is still the current one.
CurrJobStays == mpc = "prepared" /\ raw # 0 => m_curr # NoJob

\* The main thread gets its job and its power switch although it waits for
\* them with the lock held.
MainGetsOn == mpc \in {"getting", "off_dispatch", "off_overlay"} ~>
                 mpc \in {"prepared", "idle"}

\* A plug-out ends: no thread, pool or lock it waits for is held for ever.
PlugOutEnds == hpc = "out" ~> hpc = "down"

\* A job in the dispatch thread's queue reaches the driver unless it is not
\* enabled or the display is ignored or released meanwhile.
JobsReachDriver ==
    \A n \in 1 .. MaxSeq :
        (\E i \in DOMAIN dq : dq[i].seq = n /\ dq[i].enable)
            ~> (presented >= n \/ ignore_job)
=============================================================================
