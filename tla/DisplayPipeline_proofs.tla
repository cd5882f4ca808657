----------------------- MODULE DisplayPipeline_proofs -----------------------
(***************************************************************************)
(* Proofs about DisplayPipeline for pools of any size, any number of jobs  *)
(* and any number of plug-ins.  The invariant has four parts: the types,   *)
(* the control state (who holds which lock, how far a release has come),   *)
(* where the jobs and frames are, and what an idle thread has left to do.  *)
(***************************************************************************)
EXTENDS DisplayPipeline, SequenceTheorems, TLAPS

USE DEF clusterVars, dispatchVars, overlayVars, mainVars, hotplugVars, restVars

\* Between getFreeObject and resetData a job has a number; in the pool, until
\* a release puts back what was queued, it has nothing else.
NumberedJob == [seq : 1 .. MaxSeq, enable : BOOLEAN, fences : SUBSET Fences]
IdleJob == {job \in Job : ~job.enable /\ job.fences = {}}

MainTypes ==
    /\ enable \in BOOLEAN /\ ignore_job \in BOOLEAN
    /\ main_lock \in {"free", "main", "hotplug"}
    /\ m_curr \in NumberedJob \cup {NoJob}
    /\ mpc \in {"idle", "getting", "prepared", "set", "off_dispatch",
                "off_overlay"}
    /\ raw \in 0 .. MaxSeq
    /\ hpc \in {"up", "out", "wait", "request", "hand_over", "join", "wake",
                "join_overlay", "delete_pool", "down", "in"}
    /\ plugs \in 0 .. MaxPlugs
    /\ m_sequence \in 0 .. MaxSeq
    /\ mpc = "getting" => m_sequence < MaxSeq
    /\ curr_fence \in SUBSET Fences /\ open \in SUBSET Fences

DispatchTypes ==
    /\ D!ThreadTypeOK(NumberedJob)
    /\ dstep \in {"none", "drop", "handle", "frame", "post"}
    /\ job_pool \in Seq(Job)

OverlayTypes ==
    /\ O!ThreadTypeOK(Frame)
    /\ engine \in {"on", "paused", "gone"}
    /\ frame_free \in Nat
    /\ m_stop \in BOOLEAN
    /\ m_last \in Frame \cup {NoJob}
    /\ presented \in 0 .. MaxSeq

\* Who has which lock, and who is in the middle of a call that needs it.
LocksHeld ==
    /\ main_lock = "main" <=> mpc \in {"getting", "off_dispatch", "off_overlay"}
    /\ main_lock = "main" => enable
    /\ main_lock = "hotplug" <=> hpc \in {"wait", "request", "hand_over", "join",
                                          "wake", "join_overlay", "delete_pool"}

\* What the release has done when it comes to each of its steps.
TornDown ==
    /\ enable = FALSE <=> hpc = "down"
    /\ hpc \in {"wake", "join_overlay", "delete_pool", "down"} =>
          dpc = "exited" /\ dq = <<>>
    /\ hpc \in {"delete_pool", "down"} => opc = "exited" /\ oq = <<>>
    /\ engine = "gone" <=> hpc \in {"delete_pool", "down"}

\* A thread has something in hand exactly while it handles it.
HandsFull ==
    /\ dpc = "busy" <=> dcur # NoJob
    /\ dpc = "busy" <=> dstep # "none"
    /\ opc = "busy" <=> ocur # NoJob

\* The number of jobs, in whatever place they are.
JobCount ==
    Len(job_pool) + Len(One(m_curr)) + Len(dq) + Len(One(dcur)) = JobPoolSize

\* There is a current job only from getJob to trigger, a release takes it away
\* before it joins, and only setJob puts something into it.
CurrKept ==
    /\ mpc \in {"idle", "off_dispatch", "off_overlay"} => m_curr = NoJob
    /\ hpc \in {"join", "wake", "join_overlay", "delete_pool", "down"} =>
          m_curr = NoJob
    /\ mpc # "set" => m_curr \in IdleJob \cup {NoJob}

PoolClean ==
    hpc \notin {"wake", "join_overlay", "delete_pool", "down"} =>
        job_pool \in Seq(IdleJob)

-----------------------------------------------------------------------------
(* The control state.                                                      *)

\* What comes out of a queue is something, and so is a job without fences.
LEMMA NoJobs ==
  /\ DispatchTypes /\ dq # <<>> => Head(dq) # NoJob
  /\ DispatchTypes /\ dcur # NoJob => [dcur EXCEPT !.fences = {}] # NoJob
  /\ OverlayTypes /\ oq # <<>> => Head(oq) # NoJob
<1>1. NoJob \notin NumberedJob /\ NoJob \notin Frame
  BY NoJobAssumption DEF NumberedJob, Job
<1>2. ASSUME DispatchTypes, dq # <<>> PROVE Head(dq) \in NumberedJob
  BY <1>2, HeadTailProperties DEF DispatchTypes, D!ThreadTypeOK
<1>3. ASSUME DispatchTypes, dcur # NoJob
      PROVE  [dcur EXCEPT !.fences = {}] \in NumberedJob
  BY <1>3 DEF DispatchTypes, D!ThreadTypeOK, NumberedJob
<1>4. ASSUME OverlayTypes, oq # <<>> PROVE Head(oq) \in Frame
  BY <1>4, HeadTailProperties DEF OverlayTypes, O!ThreadTypeOK
<1> QED
  BY <1>1, <1>2, <1>3, <1>4

\* The locks are held by the calls that need them, and the main thread gets
\* plug_lock_main for a display that is there.
LEMMA LocksHeldKept ==
  ASSUME MainTypes, LocksHeld, TornDown, Next
  PROVE  LocksHeld'
<1> USE DEF MainTypes, LocksHeld, TornDown
<1>1. CASE GetJob
  BY <1>1 DEF GetJob, NoNewJob
<1>2. CASE SetJob
  BY <1>2 DEF SetJob, Complete
<1>3. CASE Trigger
  BY <1>3 DEF Trigger
<1>4. CASE PowerOff
  BY <1>4 DEF PowerOff
<1>5. CASE PowerOn
  BY <1>5 DEF PowerOn
<1>6. CASE MainReturn
  BY <1>6 DEF MainReturn, GetJobTake, PowerOffDispatched, PowerOffDone
<1>7. CASE DispatchStep
  BY <1>7 DEF DispatchStep, DispatchIdleStep, DispatchTake, DispatchDrop,
              DispatchHandle, DispatchFrame, DispatchPost, ClearUsedJob
<1>8. CASE OverlayStep
  BY <1>8 DEF OverlayStep, OverlayIdleStep, OverlayStopped, OverlayCommit
<1>9. CASE PlugOut
  BY <1>9 DEF PlugOut
<1>10. CASE PlugIn
  BY <1>10 DEF PlugIn
<1>11. CASE HotplugReturn
  BY <1>11 DEF HotplugReturn, ReleaseBegin, ReleaseWaited, ReleaseRequest,
               ReleaseHandOver, ReleaseJoined, ReleaseWake, ReleaseOverlay,
               ReleaseDone, PlugInDone
<1> QED
  BY <1>1, <1>2, <1>3, <1>4, <1>5, <1>6, <1>7, <1>8, <1>9, <1>10, <1>11 DEF Next

\* A released display stays released: no thread starts again, no job and no
\* frame is queued for it.
LEMMA TornDownKept ==
  ASSUME MainTypes, LocksHeld, TornDown, HandsFull, Next
  PROVE  TornDown'
<1> USE DEF MainTypes, LocksHeld, TornDown, HandsFull
<1>1. CASE GetJob
  BY <1>1 DEF GetJob, NoNewJob
<1>2. CASE SetJob
  BY <1>2 DEF SetJob, Complete
<1>3. CASE Trigger
  BY <1>3 DEF Trigger,
              D!Enqueue, D!Post
<1>4. CASE PowerOff
  BY <1>4 DEF PowerOff
<1>5. CASE PowerOn
  BY <1>5 DEF PowerOn
<1>6. CASE MainReturn
  BY <1>6 DEF MainReturn, GetJobTake, PowerOffDispatched, PowerOffDone
<1>7. CASE DispatchStep
  BY <1>7 DEF DispatchStep, DispatchIdleStep, DispatchTake, DispatchDrop,
              DispatchHandle, DispatchFrame, DispatchPost, ClearUsedJob,
              D!ReadyToRun, D!Wake, D!Break, D!GoIdle, D!LoopAgain, D!Take,
              D!Finish, O!Enqueue, O!Post
<1>8. CASE OverlayStep
  BY <1>8 DEF OverlayStep, OverlayIdleStep, OverlayStopped, OverlayCommit,
              O!ReadyToRun, O!Wake, O!Break, O!GoIdle, O!LoopAgain, O!Take,
              O!Finish
<1>9. CASE PlugOut
  BY <1>9 DEF PlugOut
<1>10. CASE PlugIn
  BY <1>10 DEF PlugIn
<1>11. CASE HotplugReturn
  BY <1>11 DEF HotplugReturn, ReleaseBegin, ReleaseWaited, ReleaseRequest,
               ReleaseHandOver, ReleaseJoined, ReleaseWake, ReleaseOverlay,
               ReleaseDone, PlugInDone,
              D!Post, O!Post
<1> QED
  BY <1>1, <1>2, <1>3, <1>4, <1>5, <1>6, <1>7, <1>8, <1>9, <1>10, <1>11 DEF Next

\* A thread has something in hand exactly while it handles it.
LEMMA HandsFullKept ==
  ASSUME DispatchTypes, OverlayTypes, HandsFull, Next
  PROVE  HandsFull'
<1> USE NoJobs DEF HandsFull
<1>1. CASE GetJob
  BY <1>1 DEF GetJob, NoNewJob
<1>2. CASE SetJob
  BY <1>2 DEF SetJob, Complete
<1>3. CASE Trigger
  BY <1>3 DEF Trigger,
              D!Enqueue, D!Post
<1>4. CASE PowerOff
  BY <1>4 DEF PowerOff
<1>5. CASE PowerOn
  BY <1>5 DEF PowerOn
<1>6. CASE MainReturn
  BY <1>6 DEF MainReturn, GetJobTake, PowerOffDispatched, PowerOffDone
<1>7. CASE DispatchStep
  BY <1>7 DEF DispatchStep, DispatchIdleStep, DispatchTake, DispatchDrop,
              DispatchHandle, DispatchFrame, DispatchPost, ClearUsedJob,
              D!ReadyToRun, D!Wake, D!Break, D!GoIdle, D!LoopAgain, D!Take,
              D!Finish, O!Enqueue, O!Post
<1>8. CASE OverlayStep
  BY <1>8 DEF OverlayStep, OverlayIdleStep, OverlayStopped, OverlayCommit,
              O!ReadyToRun, O!Wake, O!Break, O!GoIdle, O!LoopAgain, O!Take,
              O!Finish
<1>9. CASE PlugOut
  BY <1>9 DEF PlugOut
<1>10. CASE PlugIn
  BY <1>10 DEF PlugIn
<1>11. CASE HotplugReturn
  BY <1>11 DEF HotplugReturn, ReleaseBegin, ReleaseWaited, ReleaseRequest,
               ReleaseHandOver, ReleaseJoined, ReleaseWake, ReleaseOverlay,
               ReleaseDone, PlugInDone,
              D!Post, O!Post
<1> QED
  BY <1>1, <1>2, <1>3, <1>4, <1>5, <1>6, <1>7, <1>8, <1>9, <1>10, <1>11 DEF Next

-----------------------------------------------------------------------------
(* Jobs and the sequences that hold them.                                  *)

\* A reference holds one object or none.
LEMMA OneProperties ==
  ASSUME NEW S, NEW x \in S \cup {NoJob}
  PROVE  /\ One(x) \in Seq(S)
         /\ Len(One(x)) = IF x = NoJob THEN 0 ELSE 1
  BY EmptySeq DEF One

\* A job gets its number from getJob and keeps its type from there on.
LEMMA JobKinds ==
  /\ NumberedJob \subseteq Job /\ IdleJob \subseteq Job
  /\ Seq(NumberedJob) \subseteq Seq(Job) /\ Seq(IdleJob) \subseteq Seq(Job)
  /\ CleanJob \in IdleJob
  /\ \A job \in Job, n \in 1 .. MaxSeq : [job EXCEPT !.seq = n] \in NumberedJob
  /\ \A job \in IdleJob, n \in 1 .. MaxSeq :
        [job EXCEPT !.seq = n] \in IdleJob
  /\ \A job \in NumberedJob : [job EXCEPT !.fences = {}] \in NumberedJob
  /\ \A job \in NumberedJob : [job EXCEPT !.enable = FALSE] \in NumberedJob
  /\ \A job \in NumberedJob :
        [seq |-> job.seq, fences |-> job.fences] \in Frame
  /\ \A frame \in Frame : [frame EXCEPT !.fences = @ \ FrameCloses(frame)] \in Frame
<1>1. NumberedJob \subseteq Job
  BY PipelineAssumption DEF NumberedJob, Job
<1>2. IdleJob \subseteq Job
  BY DEF IdleJob
<1>3. CleanJob \in IdleJob
  BY PipelineAssumption DEF IdleJob, Job, CleanJob
<1>4. Seq(NumberedJob) \subseteq Seq(Job) /\ Seq(IdleJob) \subseteq Seq(Job)
  BY <1>1, <1>2, SeqMonotonic
<1>5. \A job \in Job, n \in 1 .. MaxSeq : [job EXCEPT !.seq = n] \in NumberedJob
  BY PipelineAssumption DEF NumberedJob, Job
<1>6. \A job \in IdleJob, n \in 1 .. MaxSeq : [job EXCEPT !.seq = n] \in IdleJob
  BY PipelineAssumption DEF IdleJob, Job
<1>7. /\ \A job \in NumberedJob : [job EXCEPT !.fences = {}] \in NumberedJob
      /\ \A job \in NumberedJob : [job EXCEPT !.enable = FALSE] \in NumberedJob
      /\ \A job \in NumberedJob :
            [seq |-> job.seq, fences |-> job.fences] \in Frame
  BY DEF NumberedJob, Frame
<1>8. \A frame \in Frame :
         [frame EXCEPT !.fences = @ \ FrameCloses(frame)] \in Frame
  BY DEF Frame
<1> QED
  BY <1>1, <1>2, <1>3, <1>4, <1>5, <1>6, <1>7, <1>8

\* A new pool holds JobPoolSize clean jobs.
LEMMA FullPoolProperties ==
  /\ FullPool \in Seq(IdleJob) /\ FullPool \in Seq(Job)
  /\ Len(FullPool) = JobPoolSize
<1>1. JobPoolSize \in Nat
  BY PipelineAssumption
<1>2. CleanJob \in IdleJob
  BY JobKinds
<1>3. FullPool \in [1 .. JobPoolSize -> IdleJob]
  BY <1>2 DEF FullPool
<1>4. FullPool \in Seq(IdleJob)
  BY <1>1, <1>3, SeqDef
<1>5. DOMAIN FullPool = 1 .. JobPoolSize
  BY <1>3
<1>6. Len(FullPool) = JobPoolSize
  BY <1>1, <1>4, <1>5, LenProperties
<1> QED
  BY <1>4, <1>6, JobKinds

\* The fences that setJob gives to a job are fences of that job.
LEMMA CompleteTypes ==
  ASSUME MainTypes, m_curr # NoJob, NEW f \in JobFences,
         Complete(m_curr, f[1], f[2], f[3])
  PROVE  /\ m_curr' \in NumberedJob
         /\ curr_fence' \in SUBSET Fences /\ open' \in SUBSET Fences
<1> DEFINE own == {<<f[1], m_curr.seq>>} \cup
                  (IF f[3] THEN {<<"Q", m_curr.seq>>} ELSE {})
           next == IF f[2] THEN {<<"P", m_curr.seq>>} ELSE {}
<1>1. m_curr \in NumberedJob
  BY DEF MainTypes
<1>2. own \in SUBSET Fences /\ next \in SUBSET Fences
  <2>1. f[1] \in {"A", "C"}
    BY PipelineAssumption
  <2>2. /\ <<f[1], m_curr.seq>> \in Fences
        /\ <<"Q", m_curr.seq>> \in Fences
        /\ <<"P", m_curr.seq>> \in Fences
    BY <1>1, <2>1 DEF NumberedJob, Fences
  <2> QED BY <2>2
<1>3. /\ m_curr' = [m_curr EXCEPT !.enable = TRUE, !.fences = own \cup curr_fence]
      /\ curr_fence' = next
      /\ open' = open \cup own \cup next
  BY DEF Complete
<1>4. own \cup curr_fence \in SUBSET Fences
  BY <1>2 DEF MainTypes
<1>5. m_curr' \in NumberedJob
  BY <1>1, <1>3, <1>4 DEF NumberedJob
<1> QED
  BY <1>2, <1>3, <1>5 DEF MainTypes

-----------------------------------------------------------------------------
(* Types.                                                                  *)

\* The state of the main and the hotplug thread keeps its type; the number of
\* a job is within the bound because getJob checks it before it waits.
LEMMA MainTypesKept ==
  ASSUME MainTypes, DispatchTypes, Next
  PROVE  MainTypes'
<1>1. CASE GetJob
  BY <1>1, PipelineAssumption DEF GetJob, NoNewJob, MainTypes
<1>2. CASE SetJob
  <2>1. CASE m_curr # NoJob /\ \E f \in JobFences : Complete(m_curr, f[1], f[2], f[3])
    <3>1. /\ m_curr' \in NumberedJob
          /\ curr_fence' \in SUBSET Fences /\ open' \in SUBSET Fences
      BY <2>1, CompleteTypes
    <3> QED
      BY <1>2, <3>1 DEF SetJob, MainTypes
  <2>2. CASE /\ m_curr' = IF enable /\ engine = "on" /\ m_curr # NoJob
                            THEN [m_curr EXCEPT !.enable = FALSE] ELSE m_curr
             /\ UNCHANGED <<curr_fence, open>>
    <3>1. m_curr' \in NumberedJob \cup {NoJob}
      BY <2>2, JobKinds DEF MainTypes
    <3> QED
      BY <1>2, <2>2, <3>1 DEF SetJob, MainTypes
  <2> QED
    BY <1>2, <2>1, <2>2 DEF SetJob
<1>3. CASE Trigger
  BY <1>3, PipelineAssumption DEF Trigger, MainTypes
<1>4. CASE PowerOff
  BY <1>4 DEF PowerOff, MainTypes
<1>5. CASE PowerOn
  BY <1>5 DEF PowerOn, MainTypes
<1>6. CASE GetJobTake
  <2>1. m_sequence + 1 \in 1 .. MaxSeq
    BY <1>6, PipelineAssumption DEF GetJobTake, MainTypes
  <2>2. Head(job_pool) \in Job
    BY <1>6, HeadTailProperties DEF GetJobTake, DispatchTypes
  <2>3. m_curr' \in NumberedJob
    BY <1>6, <2>1, <2>2, JobKinds DEF GetJobTake
  <2> QED
    BY <1>6, <2>1, <2>3 DEF GetJobTake, MainTypes
<1>7. CASE PowerOffDispatched \/ PowerOffDone
  BY <1>7 DEF PowerOffDispatched, PowerOffDone, MainTypes
<1>8. CASE DispatchStep
  <2>1. open' \subseteq open
    BY <1>8 DEF DispatchStep, DispatchIdleStep, DispatchTake, DispatchDrop,
                DispatchHandle, DispatchFrame, DispatchPost, ClearUsedJob
  <2> QED
    BY <1>8, <2>1
    DEF DispatchStep, DispatchIdleStep, DispatchTake, DispatchDrop,
        DispatchHandle, DispatchFrame, DispatchPost, MainTypes
<1>9. CASE OverlayStep
  BY <1>9 DEF OverlayStep, OverlayIdleStep, OverlayCommit, MainTypes
<1>10. CASE PlugOut
  BY <1>10 DEF PlugOut, MainTypes
<1>11. CASE PlugIn
  BY <1>11, PipelineAssumption DEF PlugIn, MainTypes
<1>12. CASE HotplugReturn
  BY <1>12 DEF HotplugReturn, ReleaseBegin, ReleaseWaited, ReleaseRequest,
               ReleaseHandOver, ReleaseJoined, ReleaseWake, ReleaseOverlay,
               ReleaseDone, PlugInDone, MainTypes
<1> QED
  BY <1>1, <1>2, <1>3, <1>4, <1>5, <1>6, <1>7, <1>8, <1>9, <1>10, <1>11, <1>12
  DEF Next, MainReturn

\* The dispatch thread and the pool hold jobs, whoever puts them there.
LEMMA DispatchTypesKept ==
  ASSUME MainTypes, DispatchTypes, HandsFull, Next
  PROVE  DispatchTypes'
<1> USE DEF DispatchTypes, D!ThreadTypeOK, D!Places
<1>1. /\ One(m_curr) \in Seq(NumberedJob) /\ One(m_curr) \in Seq(Job)
      /\ dq \in Seq(Job) /\ job_pool \in Seq(Job) /\ CleanJob \in Job
  BY OneProperties, JobKinds DEF MainTypes
<1>2. CASE GetJob
  <2>1. job_pool \o One(m_curr) \in Seq(Job)
    BY <1>1, ConcatProperties
  <2> QED
    BY <1>2, <2>1 DEF GetJob, NoNewJob
<1>3. CASE SetJob
  BY <1>3 DEF SetJob
<1>4. CASE Trigger
  <2>1. CASE enable /\ m_curr # NoJob
    <3>1. dq' \in Seq(NumberedJob)
      BY <1>4, <2>1, AppendProperties DEF Trigger, D!Enqueue, MainTypes
    <3> QED
      BY <1>4, <2>1, <3>1 DEF Trigger, D!Enqueue, D!Post
  <2>2. CASE ~(enable /\ m_curr # NoJob)
    BY <1>4, <2>2 DEF Trigger
  <2> QED
    BY <2>1, <2>2
<1>5. CASE PowerOff \/ PowerOn
  BY <1>5 DEF PowerOff, PowerOn
<1>6. CASE GetJobTake
  <2>1. Tail(job_pool) \o One(m_curr) \in Seq(Job)
    BY <1>1, <1>6, ConcatProperties, HeadTailProperties DEF GetJobTake
  <2> QED
    BY <1>6, <2>1 DEF GetJobTake
<1>7. CASE PowerOffDispatched \/ PowerOffDone
  BY <1>7 DEF PowerOffDispatched, PowerOffDone
<1>8. CASE DispatchIdleStep
  BY <1>8 DEF DispatchIdleStep, D!ReadyToRun, D!Wake, D!Break, D!GoIdle,
              D!LoopAgain
<1>9. CASE DispatchTake
  <2>1. Head(dq) \in NumberedJob /\ Tail(dq) \in Seq(NumberedJob)
    BY <1>9, HeadTailProperties DEF DispatchTake, D!Take
  <2> QED
    BY <1>9, <2>1 DEF DispatchTake, D!Take
<1>10. CASE DispatchDrop \/ DispatchHandle \/ DispatchPost
  <2>1. Append(job_pool, CleanJob) \in Seq(Job)
    BY <1>1, AppendProperties
  <2> QED
    BY <1>10, <2>1 DEF DispatchDrop, DispatchHandle, DispatchPost, ClearUsedJob,
                       D!Finish
<1>11. CASE DispatchFrame
  <2>1. dcur \in NumberedJob
    BY <1>11 DEF DispatchFrame, HandsFull
  <2>2. dcur' \in NumberedJob
    BY <1>11, <2>1, JobKinds DEF DispatchFrame
  <2> QED
    BY <1>11, <2>2 DEF DispatchFrame
<1>12. CASE OverlayStep
  BY <1>12 DEF OverlayStep, OverlayIdleStep, OverlayCommit
<1>13. CASE PlugOut
  BY <1>13 DEF PlugOut
<1>14. CASE PlugIn
  <2>1. FullPool \in Seq(Job)
    BY FullPoolProperties
  <2> QED
    BY <1>14, <2>1, EmptySeq DEF PlugIn
<1>15. CASE ReleaseHandOver
  <2>1. dq \o One(m_curr) \in Seq(NumberedJob)
    BY <1>1, ConcatProperties
  <2> QED
    BY <1>15, <2>1 DEF ReleaseHandOver, D!Post
<1>16. CASE ReleaseJoined
  <2>1. job_pool \o dq \in Seq(Job)
    BY <1>1, ConcatProperties
  <2> QED
    BY <1>16, <2>1, EmptySeq DEF ReleaseJoined
<1>17. CASE \/ ReleaseBegin \/ ReleaseWaited \/ ReleaseRequest \/ ReleaseWake
            \/ ReleaseOverlay \/ ReleaseDone \/ PlugInDone
  BY <1>17 DEF ReleaseBegin, ReleaseWaited, ReleaseRequest, ReleaseWake,
               ReleaseOverlay, ReleaseDone, PlugInDone
<1> QED
  BY <1>2, <1>3, <1>4, <1>5, <1>6, <1>7, <1>8, <1>9, <1>10, <1>11, <1>12,
     <1>13, <1>14, <1>15, <1>16, <1>17
  DEF Next, MainReturn, DispatchStep, HotplugReturn

\* The engine's thread and its pool hold frames.
LEMMA OverlayTypesKept ==
  ASSUME DispatchTypes, OverlayTypes, HandsFull, Next
  PROVE  OverlayTypes'
<1> USE DEF OverlayTypes, O!ThreadTypeOK, O!Places
<1>1. CASE GetJob \/ SetJob \/ Trigger \/ PowerOff \/ PowerOn \/ MainReturn
  BY <1>1 DEF GetJob, SetJob, Trigger, PowerOff, PowerOn, MainReturn, GetJobTake,
              PowerOffDispatched, PowerOffDone, Complete
<1>2. CASE DispatchIdleStep \/ DispatchTake \/ DispatchDrop \/ DispatchHandle
  BY <1>2 DEF DispatchIdleStep, DispatchTake, DispatchDrop, DispatchHandle
<1>3. CASE DispatchFrame
  <2>1. [seq |-> dcur.seq, fences |-> dcur.fences] \in Frame
    <3>1. dcur \in NumberedJob
      BY <1>3 DEF DispatchFrame, HandsFull, DispatchTypes, D!ThreadTypeOK
    <3> QED
      BY <3>1, JobKinds
  <2>2. oq' \in Seq(Frame)
    BY <1>3, <2>1, AppendProperties DEF DispatchFrame, O!Enqueue
  <2>3. frame_free' \in Nat
    BY <1>3 DEF DispatchFrame
  <2> QED
    BY <1>3, <2>2, <2>3 DEF DispatchFrame
<1>4. CASE DispatchPost
  BY <1>4 DEF DispatchPost, O!Post
<1>5. CASE OverlayIdleStep
  <2>1. ASSUME oq # <<>> PROVE Head(oq) \in Frame /\ Tail(oq) \in Seq(Frame)
    BY <2>1, HeadTailProperties
  <2> QED
    BY <1>5, <2>1 DEF OverlayIdleStep, OverlayStopped, O!ReadyToRun, O!Wake,
                      O!GoIdle, O!LoopAgain, O!Take, O!Break
<1>6. CASE OverlayCommit
  <2>1. ocur \in Frame
    BY <1>6 DEF OverlayCommit, HandsFull
  <2>2. m_last' \in Frame
    BY <1>6, <2>1, JobKinds DEF OverlayCommit
  <2>3. presented' \in 0 .. MaxSeq
    BY <1>6, <2>1 DEF OverlayCommit, Frame
  <2>4. frame_free' \in Nat
    BY <1>6, OneProperties DEF OverlayCommit
  <2> QED
    BY <1>6, <2>2, <2>3, <2>4 DEF OverlayCommit, O!Finish
<1>7. CASE PlugOut
  BY <1>7 DEF PlugOut
<1>8. CASE PlugIn
  BY <1>8, PipelineAssumption, EmptySeq DEF PlugIn
<1>9. CASE ReleaseJoined \/ ReleaseWake
  <2>1. CASE ReleaseJoined
    BY <2>1 DEF ReleaseJoined
  <2>2. CASE ReleaseWake
    BY <2>2 DEF ReleaseWake, O!Post
  <2> QED
    BY <1>9, <2>1, <2>2
<1>10. CASE ReleaseOverlay
  <2>1. frame_free' \in Nat
    BY <1>10, OneProperties DEF ReleaseOverlay
  <2> QED
    BY <1>10, <2>1, EmptySeq DEF ReleaseOverlay
<1>11. CASE \/ ReleaseBegin \/ ReleaseWaited \/ ReleaseRequest
            \/ ReleaseHandOver \/ ReleaseDone \/ PlugInDone
  BY <1>11 DEF ReleaseBegin, ReleaseWaited, ReleaseRequest, ReleaseHandOver,
               ReleaseDone, PlugInDone
<1> QED
  BY <1>1, <1>2, <1>3, <1>4, <1>5, <1>6, <1>7, <1>8, <1>9, <1>10, <1>11
  DEF Next, DispatchStep, OverlayStep, HotplugReturn

-----------------------------------------------------------------------------
(* The jobs and frames.                                                    *)

\* A reference counts for one object or none, and a null one is no object.
LEMMA OneLength == \A x : Len(One(x)) = IF x = NoJob THEN 0 ELSE 1
  BY DEF One

LEMMA NoJobIsNone == NoJob \notin NumberedJob /\ NoJob \notin Job /\ NoJob \notin Frame
  BY NoJobAssumption, JobKinds

\* What becomes of the sizes of a queue of S.
LEMMA Lengths ==
  ASSUME NEW S, NEW q \in Seq(S)
  PROVE  /\ Len(q) \in Nat
         /\ \A x \in S : Len(Append(q, x)) = Len(q) + 1
         /\ \A r \in Seq(S) : Len(q \o r) = Len(q) + Len(r)
         /\ q # <<>> => Len(Tail(q)) = Len(q) - 1
  BY AppendProperties, ConcatProperties, HeadTailProperties, LenProperties

\* No FrameInfo is lost: trigger takes one from the pool for each that it
\* queues, and the engine gives back the one it replaces.
LEMMA FramesKept ==
  ASSUME DispatchTypes, OverlayTypes, HandsFull, FramesConserved, Next
  PROVE  FramesConserved'
<1> USE OneLength, NoJobIsNone DEF FramesConserved
<1>1. oq \in Seq(Frame) /\ frame_free \in Nat /\ Len(oq) \in Nat
  BY LenProperties DEF OverlayTypes, O!ThreadTypeOK
<1>2. CASE GetJob \/ SetJob \/ Trigger \/ PowerOff \/ PowerOn \/ MainReturn
  BY <1>2 DEF GetJob, SetJob, Trigger, PowerOff, PowerOn, MainReturn, GetJobTake,
              PowerOffDispatched, PowerOffDone
<1>3. CASE DispatchStep /\ ~DispatchFrame
  BY <1>3 DEF DispatchStep, DispatchIdleStep, DispatchTake, DispatchDrop,
              DispatchHandle, DispatchPost
<1>4. CASE DispatchFrame
  <2>1. dcur \in NumberedJob
    BY <1>4 DEF DispatchFrame, HandsFull, DispatchTypes, D!ThreadTypeOK
  <2>2. Len(oq') = Len(oq) + 1
    BY <1>1, <1>4, <2>1, JobKinds, Lengths DEF DispatchFrame, O!Enqueue
  <2> QED
    BY <1>1, <1>4, <2>2 DEF DispatchFrame
<1>5. CASE OverlayIdleStep
  <2>1. CASE O!Take
    <3>1. Len(oq') = Len(oq) - 1
      BY <1>1, <2>1, Lengths DEF O!Take
    <3>2. ocur = NoJob /\ ocur' # NoJob
      BY <2>1, NoJobs DEF O!Take, HandsFull
    <3>3. Len(One(ocur)) = 0 /\ Len(One(ocur')) = 1
      BY <3>2
    <3>4. m_last' = m_last /\ frame_free' = frame_free
      BY <1>5 DEF OverlayIdleStep
    <3> QED
      BY <1>1, <3>1, <3>3, <3>4
  <2>2. CASE ~O!Take
    BY <1>5, <2>2 DEF OverlayIdleStep, OverlayStopped, O!ReadyToRun, O!Wake,
                      O!GoIdle, O!LoopAgain, O!Break
  <2> QED
    BY <2>1, <2>2
<1>6. CASE OverlayCommit
  <2>1. ocur \in Frame /\ ocur # NoJob
    BY <1>6 DEF OverlayCommit, HandsFull, OverlayTypes, O!ThreadTypeOK
  <2>2. m_last' # NoJob /\ ocur' = NoJob
    BY <1>6, <2>1, JobKinds DEF OverlayCommit, O!Finish
  <2>3. /\ oq' = oq /\ frame_free' = frame_free + Len(One(m_last))
        /\ Len(One(m_last)) \in Nat
    BY <1>6 DEF OverlayCommit, O!Finish
  <2>4. /\ Len(One(ocur)) = 1 /\ Len(One(ocur')) = 0
        /\ Len(One(m_last')) = 1
    BY <2>1, <2>2
  <2> QED
    BY <1>1, <2>3, <2>4
<1>7. CASE PlugOut
  BY <1>7 DEF PlugOut
<1>8. CASE PlugIn
  BY <1>8, PipelineAssumption, EmptySeq DEF PlugIn
<1>9. CASE ReleaseOverlay
  <2>1. Len(oq') = 0 /\ m_last' = NoJob /\ ocur' = ocur
    BY <1>9, EmptySeq DEF ReleaseOverlay
  <2> QED
    BY <1>1, <1>9, <2>1 DEF ReleaseOverlay
<1>10. CASE HotplugReturn /\ ~ReleaseOverlay
  BY <1>10 DEF HotplugReturn, ReleaseBegin, ReleaseWaited, ReleaseRequest,
               ReleaseHandOver, ReleaseJoined, ReleaseWake, ReleaseDone,
               PlugInDone
<1> QED
  BY <1>2, <1>3, <1>4, <1>5, <1>6, <1>7, <1>8, <1>9, <1>10
  DEF Next, DispatchStep, OverlayStep

\* No job is lost: it goes from the pool to m_curr_jobs, to the queue and the
\* dispatch thread, and back.
LEMMA JobCountKept ==
  ASSUME MainTypes, DispatchTypes, HandsFull, CurrKept, JobCount, Next
  PROVE  JobCount'
<1> USE OneLength, NoJobIsNone DEF JobCount
<1>1. /\ dq \in Seq(NumberedJob) /\ dq \in Seq(Job) /\ job_pool \in Seq(Job)
      /\ One(m_curr) \in Seq(NumberedJob) /\ One(m_curr) \in Seq(Job)
      /\ CleanJob \in Job
  BY OneProperties, JobKinds DEF MainTypes, DispatchTypes, D!ThreadTypeOK
<1>2. Len(dq) \in Nat /\ Len(job_pool) \in Nat
  BY <1>1, Lengths
<1>3. CASE GetJob
  <2>1. CASE NoNewJob
    <3>1. Len(job_pool') = Len(job_pool) + Len(One(m_curr))
      BY <1>1, <2>1, Lengths DEF NoNewJob
    <3> QED
      BY <1>2, <1>3, <2>1, <3>1 DEF GetJob, NoNewJob
  <2>2. CASE UNCHANGED <<m_curr, job_pool>>
    BY <1>3, <2>2 DEF GetJob
  <2> QED
    BY <1>3, <2>1, <2>2 DEF GetJob
<1>4. CASE SetJob
  <2>1. m_curr' = NoJob <=> m_curr = NoJob
    <3>1. ASSUME m_curr # NoJob, NEW f \in JobFences,
                 Complete(m_curr, f[1], f[2], f[3])
          PROVE  m_curr' # NoJob
      BY <3>1, CompleteTypes
    <3>2. m_curr # NoJob => [m_curr EXCEPT !.enable = FALSE] # NoJob
      BY JobKinds DEF MainTypes
    <3> QED
      BY <1>4, <3>1, <3>2 DEF SetJob
  <2> QED
    BY <1>4, <2>1 DEF SetJob
<1>5. CASE Trigger
  <2>1. CASE enable /\ m_curr # NoJob
    <3>1. Len(dq') = Len(dq) + 1
      BY <1>1, <1>5, <2>1, Lengths DEF Trigger, D!Enqueue, MainTypes
    <3>2. /\ Len(One(m_curr)) = 1 /\ Len(One(m_curr')) = 0
          /\ job_pool' = job_pool /\ dcur' = dcur
      BY <1>5, <2>1 DEF Trigger
    <3> QED
      BY <1>2, <3>1, <3>2
  <2>2. CASE ~(enable /\ m_curr # NoJob)
    BY <1>5, <2>2 DEF Trigger
  <2> QED
    BY <2>1, <2>2
<1>6. CASE PowerOff \/ PowerOn \/ PowerOffDispatched \/ PowerOffDone
  BY <1>6 DEF PowerOff, PowerOn, PowerOffDispatched, PowerOffDone
<1>7. CASE GetJobTake
  <2>1. Tail(job_pool) \in Seq(Job) /\ Len(Tail(job_pool)) = Len(job_pool) - 1
    BY <1>1, <1>7, HeadTailProperties DEF GetJobTake
  <2>2. Len(job_pool') = Len(job_pool) - 1 + Len(One(m_curr))
    BY <1>1, <1>7, <2>1, Lengths DEF GetJobTake
  <2>3. m_curr' # NoJob
    <3>1. m_curr' = [Head(job_pool) EXCEPT !.seq = m_sequence + 1]
      BY <1>7 DEF GetJobTake
    <3>2. Head(job_pool) \in Job /\ m_sequence + 1 \in 1 .. MaxSeq
      BY <1>1, <1>7, HeadTailProperties, PipelineAssumption
      DEF GetJobTake, MainTypes
    <3> QED
      BY <3>1, <3>2, JobKinds
  <2>4. Len(One(m_curr')) = 1 /\ dq' = dq /\ dcur' = dcur
    BY <1>7, <2>3 DEF GetJobTake
  <2> QED
    BY <1>2, <2>2, <2>4
<1>8. CASE DispatchIdleStep
  BY <1>8 DEF DispatchIdleStep, D!ReadyToRun, D!Wake, D!Break, D!GoIdle,
              D!LoopAgain
<1>9. CASE DispatchTake
  <2>1. Len(dq') = Len(dq) - 1
    BY <1>1, <1>9, Lengths DEF DispatchTake, D!Take
  <2>2. dcur = NoJob /\ dcur' # NoJob
    BY <1>9, NoJobs DEF DispatchTake, D!Take, HandsFull
  <2>3. /\ Len(One(dcur)) = 0 /\ Len(One(dcur')) = 1
        /\ job_pool' = job_pool /\ m_curr' = m_curr
    BY <1>9, <2>2 DEF DispatchTake
  <2> QED
    BY <1>2, <2>1, <2>3
<1>10. CASE DispatchDrop \/ DispatchHandle \/ DispatchPost
  <2>1. dcur # NoJob
    BY <1>10 DEF DispatchDrop, DispatchHandle, DispatchPost, HandsFull
  <2>2. Len(Append(job_pool, CleanJob)) = Len(job_pool) + 1
    BY <1>1, Lengths
  <2>3. dq' = dq /\ m_curr' = m_curr
    BY <1>10
    DEF DispatchDrop, DispatchHandle, DispatchPost, ClearUsedJob, D!Finish
  <2>4. CASE job_pool' = Append(job_pool, CleanJob) /\ dcur' = NoJob
    <3>1. Len(One(dcur)) = 1 /\ Len(One(dcur')) = 0
      BY <2>1, <2>4
    <3> QED
      BY <1>2, <2>2, <2>3, <2>4, <3>1
  <2>5. CASE UNCHANGED <<job_pool, dcur>>
    BY <2>3, <2>5
  <2> QED
    BY <1>10, <2>4, <2>5
    DEF DispatchDrop, DispatchHandle, DispatchPost, ClearUsedJob, D!Finish
<1>11. CASE DispatchFrame
  <2>1. dcur # NoJob /\ dcur' # NoJob
    BY <1>11, NoJobs DEF DispatchFrame, HandsFull
  <2> QED
    BY <1>11, <2>1 DEF DispatchFrame
<1>12. CASE OverlayStep
  BY <1>12 DEF OverlayStep, OverlayIdleStep, OverlayCommit
<1>13. CASE PlugOut
  BY <1>13 DEF PlugOut
<1>14. CASE PlugIn
  <2>1. Len(FullPool) = JobPoolSize
    BY FullPoolProperties
  <2>2. m_curr' = NoJob /\ Len(dq') = 0 /\ dcur' = NoJob /\ job_pool' = FullPool
    BY <1>14, EmptySeq DEF PlugIn, CurrKept
  <2> QED
    BY <2>1, <2>2, PipelineAssumption
<1>15. CASE ReleaseHandOver
  <2>1. Len(dq') = Len(dq) + Len(One(m_curr))
    BY <1>1, <1>15, Lengths DEF ReleaseHandOver
  <2> QED
    BY <1>2, <1>15, <2>1 DEF ReleaseHandOver
<1>16. CASE ReleaseJoined
  <2>1. Len(job_pool') = Len(job_pool) + Len(dq) /\ Len(dq') = 0
    BY <1>1, <1>16, Lengths, EmptySeq DEF ReleaseJoined
  <2> QED
    BY <1>2, <1>16, <2>1 DEF ReleaseJoined
<1>17. CASE \/ ReleaseBegin \/ ReleaseWaited \/ ReleaseRequest \/ ReleaseWake
            \/ ReleaseOverlay \/ ReleaseDone \/ PlugInDone
  BY <1>17 DEF ReleaseBegin, ReleaseWaited, ReleaseRequest, ReleaseWake,
               ReleaseOverlay, ReleaseDone, PlugInDone
<1> QED
  BY <1>3, <1>4, <1>5, <1>6, <1>7, <1>8, <1>9, <1>10, <1>11, <1>12, <1>13,
     <1>14, <1>15, <1>16, <1>17
  DEF Next, MainReturn, DispatchStep, HotplugReturn

\* getJob runs on a display whose release has not begun, so that the pool it
\* takes the job from is clean.
LEMMA GetJobTakeIdle ==
  ASSUME MainTypes, LocksHeld, TornDown, CurrKept, PoolClean, GetJobTake
  PROVE  /\ hpc \in {"up", "out", "in"}
         /\ job_pool \in Seq(IdleJob)
         /\ One(m_curr) \in Seq(IdleJob)
         /\ m_curr' \in IdleJob
<1>1. hpc \in {"up", "out", "in"}
  BY DEF GetJobTake, MainTypes, LocksHeld, TornDown
<1>2. job_pool \in Seq(IdleJob)
  BY <1>1 DEF PoolClean
<1>3. One(m_curr) \in Seq(IdleJob)
  BY OneProperties DEF GetJobTake, CurrKept
<1>4. Head(job_pool) \in IdleJob
  BY <1>2, HeadTailProperties DEF GetJobTake
<1>5. m_sequence + 1 \in 1 .. MaxSeq
  BY PipelineAssumption DEF GetJobTake, MainTypes
<1>6. m_curr' \in IdleJob
  BY <1>4, <1>5, JobKinds DEF GetJobTake
<1> QED
  BY <1>1, <1>2, <1>3, <1>6

\* A job that is triggered is one of a display that is there.
LEMMA TriggerEmpties ==
  ASSUME MainTypes, TornDown, CurrKept, Trigger
  PROVE  m_curr' = NoJob
  BY DEF Trigger, MainTypes, TornDown, CurrKept

\* The current job exists from getJob to trigger, and is empty until setJob.
LEMMA CurrKeptKept ==
  ASSUME MainTypes, LocksHeld, TornDown, CurrKept, PoolClean, Next
  PROVE  CurrKept'
<1>1. CASE GetJob
  BY <1>1 DEF GetJob, NoNewJob, CurrKept
<1>2. CASE SetJob
  <2>1. CASE enable
    <3>1. hpc \notin {"join", "wake", "join_overlay", "delete_pool", "down"}
      BY <1>2, <2>1 DEF SetJob, MainTypes, LocksHeld, TornDown
    <3> QED
      BY <1>2, <3>1 DEF SetJob, CurrKept
  <2>2. CASE ~enable
    <3>1. m_curr' = m_curr
      BY <1>2, <2>2 DEF SetJob
    <3> QED
      BY <1>2, <3>1 DEF SetJob, CurrKept
  <2> QED
    BY <2>1, <2>2
<1>3. CASE Trigger
  BY <1>3, TriggerEmpties DEF CurrKept
<1>4. CASE PowerOff \/ PowerOn \/ PowerOffDispatched \/ PowerOffDone
  BY <1>4 DEF PowerOff, PowerOn, PowerOffDispatched, PowerOffDone, CurrKept
<1>5. CASE GetJobTake
  <2>1. hpc' = hpc /\ mpc' = "prepared"
    BY <1>5 DEF GetJobTake
  <2> QED
    BY <1>5, <2>1, GetJobTakeIdle DEF CurrKept
<1>6. CASE DispatchStep
  BY <1>6 DEF DispatchStep, DispatchIdleStep, DispatchTake, DispatchDrop,
              DispatchHandle, DispatchFrame, DispatchPost, CurrKept
<1>7. CASE OverlayStep
  BY <1>7 DEF OverlayStep, OverlayIdleStep, OverlayCommit, CurrKept
<1>8. CASE PlugOut \/ PlugIn
  BY <1>8 DEF PlugOut, PlugIn, CurrKept
<1>9. CASE HotplugReturn
  BY <1>9 DEF HotplugReturn, ReleaseBegin, ReleaseWaited, ReleaseRequest,
              ReleaseHandOver, ReleaseJoined, ReleaseWake, ReleaseOverlay,
              ReleaseDone, PlugInDone, CurrKept
<1> QED
  BY <1>1, <1>2, <1>3, <1>4, <1>5, <1>6, <1>7, <1>8, <1>9
  DEF Next, MainReturn

\* Only a release puts jobs into the pool as they are.
LEMMA PoolCleanKept ==
  ASSUME MainTypes, LocksHeld, TornDown, CurrKept, PoolClean, Next
  PROVE  PoolClean'
<1> USE DEF PoolClean
<1>1. CleanJob \in IdleJob
  BY JobKinds
<1>2. CASE GetJob
  <2>1. One(m_curr) \in Seq(IdleJob)
    BY <1>2, OneProperties DEF GetJob, CurrKept
  <2>2. job_pool \in Seq(IdleJob) => job_pool \o One(m_curr) \in Seq(IdleJob)
    BY <2>1, ConcatProperties
  <2> QED
    BY <1>2, <2>2 DEF GetJob, NoNewJob
<1>3. CASE SetJob \/ Trigger \/ PowerOff \/ PowerOn \/ PowerOffDispatched
           \/ PowerOffDone
  BY <1>3 DEF SetJob, Trigger, PowerOff, PowerOn, PowerOffDispatched,
              PowerOffDone
<1>4. CASE GetJobTake
  <2>1. job_pool \in Seq(IdleJob) /\ One(m_curr) \in Seq(IdleJob)
    BY <1>4, GetJobTakeIdle
  <2>2. Tail(job_pool) \in Seq(IdleJob)
    BY <1>4, <2>1, HeadTailProperties DEF GetJobTake
  <2>3. job_pool' \in Seq(IdleJob)
    BY <1>4, <2>1, <2>2, ConcatProperties DEF GetJobTake
  <2> QED
    BY <2>3
<1>5. CASE DispatchStep
  <2>1. job_pool \in Seq(IdleJob) => Append(job_pool, CleanJob) \in Seq(IdleJob)
    BY <1>1, AppendProperties
  <2> QED
    BY <1>5, <2>1
    DEF DispatchStep, DispatchIdleStep, DispatchTake, DispatchDrop,
        DispatchHandle, DispatchFrame, DispatchPost, ClearUsedJob
<1>6. CASE OverlayStep
  BY <1>6 DEF OverlayStep, OverlayIdleStep, OverlayCommit
<1>7. CASE PlugOut
  BY <1>7 DEF PlugOut
<1>8. CASE PlugIn
  <2>1. FullPool \in Seq(IdleJob)
    BY FullPoolProperties
  <2> QED
    BY <1>8, <2>1 DEF PlugIn
<1>9. CASE HotplugReturn
  BY <1>9 DEF HotplugReturn, ReleaseBegin, ReleaseWaited, ReleaseRequest,
              ReleaseHandOver, ReleaseJoined, ReleaseWake, ReleaseOverlay,
              ReleaseDone, PlugInDone
<1> QED
  BY <1>2, <1>3, <1>4, <1>5, <1>6, <1>7, <1>8, <1>9 DEF Next, MainReturn

-----------------------------------------------------------------------------
(* What the power switch depends on: an idle thread has nothing to do.     *)

\* Before the two threads have run there is no job for them.
StartsEmpty ==
    dpc = "start" \/ opc = "start" =>
        /\ m_curr = NoJob /\ dq = <<>> /\ oq = <<>> /\ dpc # "busy"
        /\ mpc \notin {"getting", "off_dispatch", "off_overlay"}
        /\ hpc \in {"up", "in"}

\* The dispatcher queues and posts in one section of m_lock.
DispatchIdle == dstate = "IDLE" => dq = <<>> /\ dpc # "busy"

\* The engine queues in one section and posts in the next, so that its state
\* tells the truth only outside the dispatch thread's call of trigger.
OverlayIdle ==
    ostate = "IDLE" /\ dstep # "post" => oq = <<>> /\ opc # "busy"

\* While the main thread waits for the engine nothing reaches the dispatcher.
OffFlushed == mpc = "off_overlay" => dq = <<>> /\ dpc # "busy"

FlushInv == StartsEmpty /\ DispatchIdle /\ OverlayIdle /\ OffFlushed

\* getJob and the hotplug thread wait until both threads have run.
LEMMA StartsEmptyKept ==
  ASSUME MainTypes, LocksHeld, TornDown, HandsFull, CurrKept, StartsEmpty, Next
  PROVE  StartsEmpty'
<1> USE DEF MainTypes, LocksHeld, TornDown, CurrKept, StartsEmpty
<1>1. CASE GetJob
  BY <1>1 DEF GetJob, NoNewJob,
              Started
<1>2. CASE SetJob
  BY <1>2 DEF SetJob, Complete
<1>3. CASE Trigger
  BY <1>3 DEF Trigger,
              D!Enqueue, D!Post
<1>4. CASE PowerOff
  BY <1>4 DEF PowerOff,
              Started
<1>5. CASE PowerOn
  BY <1>5 DEF PowerOn
<1>6. CASE MainReturn
  BY <1>6 DEF MainReturn, GetJobTake, PowerOffDispatched, PowerOffDone
<1>7. CASE DispatchStep
  BY <1>7 DEF DispatchStep, DispatchIdleStep, DispatchTake, DispatchDrop,
              DispatchHandle, DispatchFrame, DispatchPost, ClearUsedJob,
              D!ReadyToRun, D!Wake, D!Break, D!GoIdle, D!LoopAgain, D!Take,
              D!Finish, O!Enqueue, O!Post
<1>8. CASE OverlayStep
  BY <1>8 DEF OverlayStep, OverlayIdleStep, OverlayStopped, OverlayCommit,
              O!ReadyToRun, O!Wake, O!Break, O!GoIdle, O!LoopAgain, O!Take,
              O!Finish
<1>9. CASE PlugOut
  BY <1>9 DEF PlugOut,
              Started
<1>10. CASE PlugIn
  BY <1>10 DEF PlugIn
<1>11. CASE HotplugReturn
  BY <1>11 DEF HotplugReturn, ReleaseBegin, ReleaseWaited, ReleaseRequest,
               ReleaseHandOver, ReleaseJoined, ReleaseWake, ReleaseOverlay,
               ReleaseDone, PlugInDone,
              D!Post, O!Post
<1> QED
  BY <1>1, <1>2, <1>3, <1>4, <1>5, <1>6, <1>7, <1>8,
     <1>9, <1>10, <1>11 DEF Next

\* readyToRun finds an empty queue, and the loop's last look at it decides.
LEMMA DispatchIdleKept ==
  ASSUME StartsEmpty, DispatchIdle, Next
  PROVE  DispatchIdle'
<1> USE DEF StartsEmpty, DispatchIdle
<1>1. CASE GetJob
  BY <1>1 DEF GetJob, NoNewJob
<1>2. CASE SetJob
  BY <1>2 DEF SetJob, Complete
<1>3. CASE Trigger
  BY <1>3 DEF Trigger,
              D!Enqueue, D!Post
<1>4. CASE PowerOff
  BY <1>4 DEF PowerOff
<1>5. CASE PowerOn
  BY <1>5 DEF PowerOn
<1>6. CASE MainReturn
  BY <1>6 DEF MainReturn, GetJobTake, PowerOffDispatched, PowerOffDone
<1>7. CASE DispatchStep
  BY <1>7 DEF DispatchStep, DispatchIdleStep, DispatchTake, DispatchDrop,
              DispatchHandle, DispatchFrame, DispatchPost, ClearUsedJob,
              D!ReadyToRun, D!Wake, D!Break, D!GoIdle, D!LoopAgain, D!Take,
              D!Finish, O!Enqueue, O!Post
<1>8. CASE OverlayStep
  BY <1>8 DEF OverlayStep, OverlayIdleStep, OverlayStopped, OverlayCommit,
              O!ReadyToRun, O!Wake, O!Break, O!GoIdle, O!LoopAgain, O!Take,
              O!Finish
<1>9. CASE PlugOut
  BY <1>9 DEF PlugOut
<1>10. CASE PlugIn
  BY <1>10 DEF PlugIn
<1>11. CASE HotplugReturn
  BY <1>11 DEF HotplugReturn, ReleaseBegin, ReleaseWaited, ReleaseRequest,
               ReleaseHandOver, ReleaseJoined, ReleaseWake, ReleaseOverlay,
               ReleaseDone, PlugInDone,
              D!Post, O!Post
<1> QED
  BY <1>1, <1>2, <1>3, <1>4, <1>5, <1>6, <1>7, <1>8,
     <1>9, <1>10, <1>11 DEF Next

\* The same of the engine, once trigger has posted.
LEMMA OverlayIdleKept ==
  ASSUME HandsFull, StartsEmpty, OverlayIdle, Next
  PROVE  OverlayIdle'
<1> USE DEF HandsFull, StartsEmpty, OverlayIdle
<1>1. CASE GetJob
  BY <1>1 DEF GetJob, NoNewJob
<1>2. CASE SetJob
  BY <1>2 DEF SetJob, Complete
<1>3. CASE Trigger
  BY <1>3 DEF Trigger,
              D!Enqueue, D!Post
<1>4. CASE PowerOff
  BY <1>4 DEF PowerOff
<1>5. CASE PowerOn
  BY <1>5 DEF PowerOn
<1>6. CASE MainReturn
  BY <1>6 DEF MainReturn, GetJobTake, PowerOffDispatched, PowerOffDone
<1>7. CASE DispatchStep
  BY <1>7 DEF DispatchStep, DispatchIdleStep, DispatchTake, DispatchDrop,
              DispatchHandle, DispatchFrame, DispatchPost, ClearUsedJob,
              D!ReadyToRun, D!Wake, D!Break, D!GoIdle, D!LoopAgain, D!Take,
              D!Finish, O!Enqueue, O!Post
<1>8. CASE OverlayStep
  BY <1>8 DEF OverlayStep, OverlayIdleStep, OverlayStopped, OverlayCommit,
              O!ReadyToRun, O!Wake, O!Break, O!GoIdle, O!LoopAgain, O!Take,
              O!Finish
<1>9. CASE PlugOut
  BY <1>9 DEF PlugOut
<1>10. CASE PlugIn
  BY <1>10 DEF PlugIn
<1>11. CASE HotplugReturn
  BY <1>11 DEF HotplugReturn, ReleaseBegin, ReleaseWaited, ReleaseRequest,
               ReleaseHandOver, ReleaseJoined, ReleaseWake, ReleaseOverlay,
               ReleaseDone, PlugInDone,
              D!Post, O!Post
<1> QED
  BY <1>1, <1>2, <1>3, <1>4, <1>5, <1>6, <1>7, <1>8,
     <1>9, <1>10, <1>11 DEF Next

\* The main thread holds plug_lock_main, and triggers nothing, while it waits.
LEMMA OffFlushedKept ==
  ASSUME MainTypes, LocksHeld, DispatchIdle, OffFlushed, Next
  PROVE  OffFlushed'
<1> USE DEF MainTypes, LocksHeld, DispatchIdle, OffFlushed
<1>1. CASE GetJob
  BY <1>1 DEF GetJob, NoNewJob
<1>2. CASE SetJob
  BY <1>2 DEF SetJob, Complete
<1>3. CASE Trigger
  BY <1>3 DEF Trigger,
              D!Enqueue, D!Post
<1>4. CASE PowerOff
  BY <1>4 DEF PowerOff
<1>5. CASE PowerOn
  BY <1>5 DEF PowerOn
<1>6. CASE MainReturn
  BY <1>6 DEF MainReturn, GetJobTake, PowerOffDispatched, PowerOffDone,
              D!Idle
<1>7. CASE DispatchStep
  BY <1>7 DEF DispatchStep, DispatchIdleStep, DispatchTake, DispatchDrop,
              DispatchHandle, DispatchFrame, DispatchPost, ClearUsedJob,
              D!ReadyToRun, D!Wake, D!Break, D!GoIdle, D!LoopAgain, D!Take,
              D!Finish, O!Enqueue, O!Post
<1>8. CASE OverlayStep
  BY <1>8 DEF OverlayStep, OverlayIdleStep, OverlayStopped, OverlayCommit,
              O!ReadyToRun, O!Wake, O!Break, O!GoIdle, O!LoopAgain, O!Take,
              O!Finish
<1>9. CASE PlugOut
  BY <1>9 DEF PlugOut
<1>10. CASE PlugIn
  BY <1>10 DEF PlugIn
<1>11. CASE HotplugReturn
  BY <1>11 DEF HotplugReturn, ReleaseBegin, ReleaseWaited, ReleaseRequest,
               ReleaseHandOver, ReleaseJoined, ReleaseWake, ReleaseOverlay,
               ReleaseDone, PlugInDone,
              D!Post, O!Post
<1> QED
  BY <1>1, <1>2, <1>3, <1>4, <1>5, <1>6, <1>7, <1>8,
     <1>9, <1>10, <1>11 DEF Next

-----------------------------------------------------------------------------
(* The invariant and what follows from it.                                 *)

IInv ==
    /\ MainTypes /\ DispatchTypes /\ OverlayTypes
    /\ LocksHeld /\ TornDown /\ HandsFull
    /\ FramesConserved /\ JobCount /\ CurrKept /\ PoolClean
    /\ FlushInv

\* A display that is just plugged in satisfies the invariant.
LEMMA InitIInv == Init => IInv
<1> SUFFICES ASSUME Init PROVE IInv
  OBVIOUS
<1>2. FullPool \in Seq(Job) /\ FullPool \in Seq(IdleJob) /\ Len(FullPool) = JobPoolSize
  BY FullPoolProperties
<1> USE PipelineAssumption DEF Init, D!ThreadInit, O!ThreadInit
<1>1. MainTypes
  <2>1. enable \in BOOLEAN /\ ignore_job \in BOOLEAN /\ main_lock = "free"
    OBVIOUS
  <2>2. m_curr = NoJob /\ mpc = "idle" /\ hpc = "up"
    OBVIOUS
  <2>3. /\ raw \in 0 .. MaxSeq /\ plugs \in 0 .. MaxPlugs
        /\ m_sequence \in 0 .. MaxSeq
    OBVIOUS
  <2>4. curr_fence \in SUBSET Fences /\ open \in SUBSET Fences
    OBVIOUS
  <2> HIDE DEF Init
  <2> QED
    BY <2>1, <2>2, <2>3, <2>4 DEF MainTypes
<1>3. DispatchTypes
  BY <1>2, EmptySeq DEF DispatchTypes, D!ThreadTypeOK, D!Places
<1>4. OverlayTypes
  <2>1. O!ThreadTypeOK(Frame)
    BY EmptySeq DEF O!ThreadTypeOK, O!Places
  <2>2. frame_free \in Nat /\ presented \in 0 .. MaxSeq
    OBVIOUS
  <2>3. m_stop \in BOOLEAN /\ engine = "on" /\ m_last = NoJob
    OBVIOUS
  <2> HIDE DEF Init
  <2> QED
    BY <2>1, <2>2, <2>3 DEF OverlayTypes
<1>5. LocksHeld /\ TornDown /\ HandsFull
  BY DEF LocksHeld, TornDown, HandsFull
<1>6. FramesConserved
  BY EmptySeq, OneLength DEF FramesConserved
<1>7. JobCount
  BY <1>2, EmptySeq, OneLength DEF JobCount
<1>8. CurrKept /\ PoolClean
  BY <1>2 DEF CurrKept, PoolClean
<1>9. FlushInv
  BY DEF FlushInv, StartsEmpty, DispatchIdle, OverlayIdle, OffFlushed
<1> QED
  BY <1>1, <1>3, <1>4, <1>5, <1>6, <1>7, <1>8, <1>9 DEF IInv

\* Every step keeps it.
LEMMA NextIInv == IInv /\ [Next]_vars => IInv'
<1> SUFFICES ASSUME IInv, [Next]_vars PROVE IInv'
  OBVIOUS
<1>1. CASE Next
  BY <1>1, MainTypesKept, DispatchTypesKept, OverlayTypesKept, LocksHeldKept,
     TornDownKept, HandsFullKept, FramesKept, JobCountKept, CurrKeptKept,
     PoolCleanKept, StartsEmptyKept, DispatchIdleKept, OverlayIdleKept,
     OffFlushedKept
  DEF IInv, FlushInv
<1>2. CASE UNCHANGED vars
  BY <1>2 DEF vars, IInv, MainTypes, DispatchTypes, OverlayTypes, LocksHeld,
              TornDown, HandsFull, FramesConserved, JobCount, CurrKept,
              PoolClean, FlushInv, StartsEmpty, DispatchIdle, OverlayIdle,
              OffFlushed, D!ThreadTypeOK, O!ThreadTypeOK
<1> QED
  BY <1>1, <1>2

\* The invariant holds in every state of the pipeline.
LEMMA PipelineIInv == Spec => []IInv
  BY InitIInv, NextIInv, PTL DEF Spec

\* Every variable of the pipeline keeps its type: whatever the order of the
\* three threads' steps, the pool of FrameInfos is never overdrawn and never
\* gets more objects than it was made with.
THEOREM PipelineTypeOK == Spec => []TypeOK
<1>1. IInv => TypeOK
  <2> SUFFICES ASSUME IInv PROVE TypeOK
    OBVIOUS
  <2>1. frame_free \in 0 .. FramePoolSize
    <3>1. frame_free \in Nat /\ Len(oq) \in Nat
      BY LenProperties DEF IInv, OverlayTypes, O!ThreadTypeOK
    <3> QED
      BY <3>1, OneLength, PipelineAssumption DEF IInv, FramesConserved
  <2>2. D!ThreadTypeOK(Job)
    BY JobKinds DEF IInv, DispatchTypes, D!ThreadTypeOK
  <2>3. {enable, ignore_job, dexit, oexit, m_stop} \subseteq BOOLEAN
    BY DEF IInv, MainTypes, DispatchTypes, OverlayTypes, D!ThreadTypeOK,
           O!ThreadTypeOK
  <2>4. m_curr \in Job \cup {NoJob} /\ job_pool \in Seq(Job)
    BY JobKinds DEF IInv, MainTypes, DispatchTypes
  <2> QED
    BY <2>1, <2>2, <2>3, <2>4
    DEF IInv, MainTypes, DispatchTypes, OverlayTypes, TypeOK
<1> QED
  BY <1>1, PipelineIInv, PTL

\* Every FrameInfo of the engine's pool is free, queued, handled or kept for
\* dumps, and none twice.
THEOREM PipelineFrames == Spec => []FramesConserved
<1>1. IInv => FramesConserved
  BY DEF IInv
<1> QED
  BY <1>1, PipelineIInv, PTL

\* No DispatcherJob is lost by a job that is not triggered, dropped or torn
\* down with its thread, and getJob finds no rest of a job's last use.
THEOREM PipelineJobs == Spec => []JobsConserved
<1>1. IInv => JobsConserved
  <2> SUFFICES ASSUME IInv PROVE JobsConserved
    OBVIOUS
  <2>1. ASSUME hpc \in {"up", "out", "in"}, NEW i \in DOMAIN job_pool
        PROVE  ~job_pool[i].enable /\ job_pool[i].fences = {}
    <3>1. job_pool \in Seq(IdleJob)
      BY <2>1 DEF IInv, PoolClean
    <3>2. job_pool[i] \in IdleJob
      BY <2>1, <3>1, ElementOfSeq, LenProperties
    <3> QED
      BY <3>2 DEF IdleJob
  <2> QED
    BY <2>1 DEF IInv, JobCount, JobsConserved
<1> QED
  BY <1>1, PipelineIInv, PTL

\* When the engine is destroyed both threads have left their loops, and neither
\* starts or gets work again before the next plug-in.
THEOREM PipelineNoUse == Spec => []NoUseAfterRelease
<1>1. IInv => NoUseAfterRelease
  BY DEF IInv, TornDown, NoUseAfterRelease
<1> QED
  BY <1>1, PipelineIInv, PTL

\* setPowerMode waits for the dispatch thread and then for the engine, and when
\* it cuts the power every job triggered before has reached the driver: neither
\* thread can be idle with a job, and no new job comes between the two waits.
THEOREM PipelinePowerOffFlushes == Spec => PowerOffFlushes
<1>1. IInv /\ PowerOffDone => dq = <<>> /\ dcur = NoJob /\ oq = <<>> /\ ocur = NoJob
  BY DEF IInv, FlushInv, HandsFull, OffFlushed, OverlayIdle, PowerOffDone, O!Idle
<1>2. IInv /\ [Next]_vars =>
        [PowerOffDone => /\ dq = <<>> /\ dcur = NoJob
                         /\ oq = <<>> /\ ocur = NoJob]_vars
  BY <1>1
<1> QED
  BY <1>2, PipelineIInv, PTL DEF Spec, PowerOffFlushes

=============================================================================
