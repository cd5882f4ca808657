-------------------- MODULE DisplayPipelineFences_proofs --------------------
(***************************************************************************)
(* More proofs about DisplayPipeline: the order of the jobs and frames and *)
(* the ownership of the fences they carry.  The order needs the numbers of *)
(* the five places a job or a frame can be in and nothing else.  The       *)
(* fences need, besides one owner for each, that the number of a new fence *)
(* is new, that only an enabled job has fences, and what the last job of a *)
(* display carries when its thread is joined.                              *)
(***************************************************************************)
EXTENDS DisplayPipeline_proofs, FiniteSetTheorems

USE DEF clusterVars, dispatchVars, overlayVars, mainVars, hotplugVars, restVars

-----------------------------------------------------------------------------
(* The order of the jobs and frames.                                       *)

\* The numbers of the jobs or frames in a sequence.
Numbers(s) == {s[i].seq : i \in DOMAIN s}

Increasing(s) == \A i, j \in DOMAIN s : i < j => s[i].seq < s[j].seq

Less(A, B) == \A a \in A, b \in B : a < b

\* The number p of the frame that the driver has, those of the frames in the
\* engine's hands and queue, those of the jobs in the dispatch thread's hands
\* and queue, the current one's, and the last number given out.
InOrder(p, E, Q, H, W, C, top) ==
    /\ p <= top
    /\ \A n \in E \cup Q \cup H \cup W \cup C : p < n /\ n <= top
    /\ Less(E, Q \cup H \cup W \cup C)
    /\ Less(Q, H \cup W \cup C)
    /\ Less(H, W \cup C)
    /\ Less(W, C)

\* A job whose frame is queued for the engine is no more under way itself.
InHand == IF dstep = "post" THEN {} ELSE Numbers(One(dcur))

Order == InOrder(presented, Numbers(One(ocur)), Numbers(oq), InHand,
                 Numbers(dq), Numbers(One(m_curr)), m_sequence)

Ordered == Order /\ Increasing(oq) /\ Increasing(dq)

\* The number of what a reference holds.
LEMMA NumbersOfOne ==
  \A x : Numbers(One(x)) = IF x = NoJob THEN {} ELSE {x.seq}
<1> SUFFICES ASSUME NEW x
             PROVE  Numbers(One(x)) = IF x = NoJob THEN {} ELSE {x.seq}
  OBVIOUS
<1>1. CASE x = NoJob
  <2>1. One(x) = <<>> /\ DOMAIN <<>> = {}
    BY <1>1 DEF One
  <2> QED BY <1>1, <2>1 DEF Numbers
<1>2. CASE x # NoJob
  <2>1. One(x) = <<x>> /\ DOMAIN <<x>> = {1} /\ <<x>>[1] = x
    BY <1>2 DEF One
  <2> QED BY <1>2, <2>1 DEF Numbers
<1> QED BY <1>1, <1>2

\* The numbers in a queue, when something is put into it or taken from it.
LEMMA NumbersOfQueue ==
  ASSUME NEW S, NEW q \in Seq(S)
  PROVE  /\ \A x \in S : Numbers(Append(q, x)) = Numbers(q) \cup {x.seq}
         /\ q # <<>> => /\ Head(q).seq \in Numbers(q)
                        /\ Numbers(Tail(q)) \subseteq Numbers(q)
<1>1. DOMAIN q = 1 .. Len(q) /\ Len(q) \in Nat
  BY LenProperties
<1>2. ASSUME NEW x \in S
      PROVE  Numbers(Append(q, x)) = Numbers(q) \cup {x.seq}
  <2>1. /\ Append(q, x) \in Seq(S) /\ Len(Append(q, x)) = Len(q) + 1
        /\ \A i \in 1 .. Len(q) : Append(q, x)[i] = q[i]
        /\ Append(q, x)[Len(q) + 1] = x
    BY AppendProperties
  <2>2. DOMAIN Append(q, x) = 1 .. Len(q) + 1
    BY <2>1, LenProperties
  <2> QED BY <1>1, <2>1, <2>2 DEF Numbers
<1>3. ASSUME q # <<>>
      PROVE  /\ Head(q).seq \in Numbers(q)
             /\ Numbers(Tail(q)) \subseteq Numbers(q)
  <2>1. /\ Tail(q) \in Seq(S) /\ Len(Tail(q)) = Len(q) - 1 /\ Len(q) # 0
        /\ Head(q) = q[1] /\ \A i \in 1 .. Len(q) - 1 : Tail(q)[i] = q[i + 1]
    BY <1>1, <1>3, HeadTailProperties, EmptySeq
  <2>2. DOMAIN Tail(q) = 1 .. Len(q) - 1
    BY <2>1, LenProperties
  <2> QED BY <1>1, <2>1, <2>2 DEF Numbers
<1> QED BY <1>2, <1>3

\* An increasing queue stays so when a newer element is put into it; the one
\* taken from it is older than all that stay.
LEMMA IncreasingQueue ==
  ASSUME NEW S, NEW q \in Seq(S), Increasing(q)
  PROVE  /\ \A x \in S : Less(Numbers(q), {x.seq}) => Increasing(Append(q, x))
         /\ q # <<>> => /\ Increasing(Tail(q))
                        /\ Less({Head(q).seq}, Numbers(Tail(q)))
<1>1. DOMAIN q = 1 .. Len(q) /\ Len(q) \in Nat
  BY LenProperties
<1>2. ASSUME NEW x \in S, Less(Numbers(q), {x.seq})
      PROVE  Increasing(Append(q, x))
  <2>1. /\ Append(q, x) \in Seq(S) /\ Len(Append(q, x)) = Len(q) + 1
        /\ \A i \in 1 .. Len(q) : Append(q, x)[i] = q[i]
        /\ Append(q, x)[Len(q) + 1] = x
    BY AppendProperties
  <2>2. DOMAIN Append(q, x) = 1 .. Len(q) + 1
    BY <2>1, LenProperties
  <2>3. \A i \in 1 .. Len(q) : q[i].seq < x.seq
    BY <1>1, <1>2 DEF Less, Numbers
  <2> QED BY <1>1, <2>1, <2>2, <2>3 DEF Increasing
<1>3. ASSUME q # <<>>
      PROVE  Increasing(Tail(q)) /\ Less({Head(q).seq}, Numbers(Tail(q)))
  <2>1. /\ Tail(q) \in Seq(S) /\ Len(Tail(q)) = Len(q) - 1 /\ Len(q) # 0
        /\ Head(q) = q[1] /\ \A i \in 1 .. Len(q) - 1 : Tail(q)[i] = q[i + 1]
    BY <1>1, <1>3, HeadTailProperties, EmptySeq
  <2>2. DOMAIN Tail(q) = 1 .. Len(q) - 1
    BY <2>1, LenProperties
  <2>3. Increasing(Tail(q))
    BY <1>1, <2>1, <2>2 DEF Increasing
  <2>4. \A i \in 1 .. Len(q) - 1 : q[1].seq < q[i + 1].seq
    BY <1>1, <2>1 DEF Increasing
  <2>5. Less({Head(q).seq}, Numbers(Tail(q)))
    BY <2>1, <2>2, <2>4 DEF Less, Numbers
  <2> QED BY <2>3, <2>5
<1> QED BY <1>2, <1>3

\* Nothing is queued in an empty queue.
LEMMA EmptyQueue == Numbers(<<>>) = {} /\ Increasing(<<>>)
  BY DEF Numbers, Increasing

\* A reference at the end of a queue is one more element or none.
LEMMA HandedOver ==
  ASSUME NEW S, NEW q \in Seq(S), NEW x \in S \cup {NoJob}
  PROVE  q \o One(x) = IF x = NoJob THEN q ELSE Append(q, x)
<1>1. CASE x = NoJob
  BY <1>1, ConcatEmptySeq DEF One
<1>2. CASE x # NoJob
  BY <1>2, AppendIsConcat DEF One
<1> QED BY <1>1, <1>2

-----------------------------------------------------------------------------
(* The order.                                                              *)

\* Taking a new job, dropping one and tearing down leave the rest in order.
LEMMA FewerInOrder ==
  ASSUME NEW p \in Nat, NEW top \in Nat, NEW top2 \in Nat, top <= top2,
         NEW E \in SUBSET Nat, NEW E2 \in SUBSET E,
         NEW Q \in SUBSET Nat, NEW Q2 \in SUBSET Q,
         NEW H \in SUBSET Nat, NEW H2 \in SUBSET H,
         NEW W \in SUBSET Nat, NEW W2 \in SUBSET W,
         NEW C \in SUBSET Nat, NEW C2 \in SUBSET C,
         InOrder(p, E, Q, H, W, C, top)
  PROVE  InOrder(p, E2, Q2, H2, W2, C2, top2)
  BY DEF InOrder, Less

\* The numbers that the order relates.
LEMMA NumbersAreNumbers ==
  ASSUME MainTypes, DispatchTypes, OverlayTypes
  PROVE  /\ presented \in Nat /\ m_sequence \in Nat
         /\ Numbers(One(ocur)) \in SUBSET Nat /\ Numbers(oq) \in SUBSET Nat
         /\ InHand \in SUBSET Nat
         /\ Numbers(dq) \in SUBSET Nat /\ Numbers(One(m_curr)) \in SUBSET Nat
<1>1. ASSUME NEW S, \A x \in S : x.seq \in Nat, NEW q \in Seq(S)
      PROVE  Numbers(q) \in SUBSET Nat
  <2>1. \A i \in DOMAIN q : q[i] \in S
    BY <1>1, ElementOfSeq, LenProperties
  <2> QED BY <1>1, <2>1 DEF Numbers
<1>2. /\ \A x \in Frame : x.seq \in Nat
      /\ \A x \in NumberedJob : x.seq \in Nat
  BY PipelineAssumption DEF Frame, NumberedJob
<1>3. /\ One(ocur) \in Seq(Frame) /\ oq \in Seq(Frame)
      /\ One(dcur) \in Seq(NumberedJob) /\ dq \in Seq(NumberedJob)
      /\ One(m_curr) \in Seq(NumberedJob)
  BY OneProperties
     DEF MainTypes, DispatchTypes, OverlayTypes, D!ThreadTypeOK, O!ThreadTypeOK
<1>4. /\ Numbers(One(ocur)) \in SUBSET Nat /\ Numbers(oq) \in SUBSET Nat
      /\ Numbers(One(dcur)) \in SUBSET Nat /\ Numbers(dq) \in SUBSET Nat
      /\ Numbers(One(m_curr)) \in SUBSET Nat
  BY <1>1, <1>2, <1>3
<1> QED
  BY <1>4, PipelineAssumption DEF InHand, MainTypes, OverlayTypes

\* Every step keeps the order: a job moves on only behind those before it.
LEMMA OrderedKept ==
  ASSUME MainTypes, DispatchTypes, OverlayTypes, HandsFull, CurrKept,
         MainTypes', DispatchTypes', OverlayTypes', HandsFull',
         Ordered, Next
  PROVE  Ordered'
<1>1. /\ presented \in Nat /\ m_sequence \in Nat
      /\ Numbers(One(ocur)) \in SUBSET Nat /\ Numbers(oq) \in SUBSET Nat
      /\ InHand \in SUBSET Nat
      /\ Numbers(dq) \in SUBSET Nat /\ Numbers(One(m_curr)) \in SUBSET Nat
  BY NumbersAreNumbers
<1>2. /\ dq \in Seq(NumberedJob) /\ oq \in Seq(Frame)
      /\ m_curr \in NumberedJob \cup {NoJob}
      /\ dcur \in NumberedJob \cup {NoJob} /\ ocur \in Frame \cup {NoJob}
  BY DEF MainTypes, DispatchTypes, OverlayTypes, D!ThreadTypeOK, O!ThreadTypeOK
<1>3. Order /\ Increasing(oq) /\ Increasing(dq)
  BY DEF Ordered
\* What stays out of the order's way.
<1>4. ASSUME UNCHANGED <<presented, oq, dq, ocur>>,
             InHand' \subseteq InHand,
             Numbers(One(m_curr))' \subseteq Numbers(One(m_curr)),
             m_sequence' = m_sequence
      PROVE  Ordered'
  <2>1. Order'
    BY <1>1, <1>3, <1>4, FewerInOrder DEF Order
  <2> QED BY <1>3, <1>4, <2>1 DEF Ordered
<1>5. UNCHANGED <<dcur, dstep>> => InHand' = InHand
  BY DEF InHand
<1>6. CASE GetJob
  <2>1. m_curr' \in {m_curr, NoJob}
    BY <1>6 DEF GetJob, NoNewJob
  <2>2. Numbers(One(m_curr))' \subseteq Numbers(One(m_curr))
    BY <2>1, NumbersOfOne
  <2> QED BY <1>4, <1>5, <1>6, <2>2 DEF GetJob
<1>7. CASE SetJob
  <2>1. /\ m_curr' = NoJob <=> m_curr = NoJob
        /\ m_curr # NoJob => m_curr'.seq = m_curr.seq
    <3>1. ASSUME m_curr # NoJob, NEW come \in JobFences,
                 Complete(m_curr, come[1], come[2], come[3])
          PROVE  m_curr' # NoJob /\ m_curr'.seq = m_curr.seq
      <4>1. m_curr' # NoJob
        BY <3>1, CompleteTypes, NoJobIsNone
      <4> QED BY <1>2, <3>1, <4>1 DEF Complete, NumberedJob
    <3>2. m_curr # NoJob =>
            /\ [m_curr EXCEPT !.enable = FALSE] # NoJob
            /\ [m_curr EXCEPT !.enable = FALSE].seq = m_curr.seq
      BY <1>2, JobKinds, NoJobIsNone DEF NumberedJob
    <3> QED BY <1>7, <3>1, <3>2 DEF SetJob
  <2>2. Numbers(One(m_curr))' = Numbers(One(m_curr))
    BY <2>1, NumbersOfOne
  <2> QED BY <1>4, <1>5, <1>7, <2>2 DEF SetJob
<1>8. CASE Trigger
  <2>1. CASE enable /\ m_curr # NoJob
    <3>1. dq' = Append(dq, m_curr) /\ m_curr' = NoJob
      BY <1>8, <2>1 DEF Trigger, D!Enqueue
    <3>2. Numbers(dq)' = Numbers(dq) \cup {m_curr.seq}
      BY <1>2, <2>1, <3>1, NumbersOfQueue
    <3>3. /\ Numbers(One(m_curr)) = {m_curr.seq}
          /\ Numbers(One(m_curr))' = {}
      BY <2>1, <3>1, NumbersOfOne
    <3>4. /\ UNCHANGED <<presented, m_sequence, Numbers(One(ocur)), Numbers(oq)>>
          /\ InHand' = InHand /\ oq' = oq
      BY <1>5, <1>8 DEF Trigger
    <3>5. Order'
      BY <1>1, <1>3, <3>2, <3>3, <3>4 DEF Order, InOrder, Less
    <3>6. Less(Numbers(dq), {m_curr.seq})
      BY <1>3, <3>3 DEF Order, InOrder
    <3>7. Increasing(dq)'
      BY <1>2, <1>3, <2>1, <3>1, <3>6, IncreasingQueue
    <3> QED BY <1>3, <3>4, <3>5, <3>7 DEF Ordered
  <2>2. CASE ~(enable /\ m_curr # NoJob)
    BY <1>4, <1>5, <1>8, <2>2 DEF Trigger
  <2> QED BY <2>1, <2>2
<1>9. CASE PowerOff \/ PowerOn \/ PowerOffDispatched \/ PowerOffDone
  BY <1>4, <1>5, <1>9 DEF PowerOff, PowerOn, PowerOffDispatched, PowerOffDone
<1>10. CASE GetJobTake
  <2>1. m_sequence' = m_sequence + 1
    BY <1>10 DEF GetJobTake
  <2>2. m_curr' # NoJob /\ m_curr'.seq = m_sequence + 1
    <3>1. /\ Head(job_pool) \in Job /\ m_sequence + 1 \in 1 .. MaxSeq
          /\ m_curr' = [Head(job_pool) EXCEPT !.seq = m_sequence + 1]
      BY <1>10, HeadTailProperties, PipelineAssumption
      DEF GetJobTake, MainTypes, DispatchTypes
    <3> QED BY <3>1, JobKinds, NoJobIsNone DEF Job
  <2>3. Numbers(One(m_curr))' = {m_sequence + 1}
    BY <2>2, NumbersOfOne
  <2>4. /\ UNCHANGED <<presented, Numbers(One(ocur)), Numbers(oq), Numbers(dq)>>
        /\ InHand' = InHand /\ oq' = oq /\ dq' = dq
    BY <1>5, <1>10 DEF GetJobTake
  <2>5. Order'
    <3>1. \A E, Q, H, W \in SUBSET Nat, C \in SUBSET Nat, p, top \in Nat :
             InOrder(p, E, Q, H, W, C, top) =>
               InOrder(p, E, Q, H, W, {top + 1}, top + 1)
      BY DEF InOrder, Less
    <3> QED BY <1>1, <1>3, <2>1, <2>3, <2>4, <3>1 DEF Order
  <2> QED BY <1>3, <2>4, <2>5 DEF Ordered
<1>11. CASE DispatchIdleStep
  BY <1>4, <1>5, <1>11
  DEF DispatchIdleStep, D!ReadyToRun, D!Wake, D!Break, D!GoIdle, D!LoopAgain
<1>12. CASE DispatchTake
  <2>1. dq # <<>> /\ dcur' = Head(dq) /\ dq' = Tail(dq) /\ dstep' # "post"
    BY <1>12 DEF DispatchTake, D!Take
  <2>2. /\ Head(dq).seq \in Numbers(dq) /\ Numbers(dq)' \subseteq Numbers(dq)
        /\ Increasing(dq)' /\ Less({Head(dq).seq}, Numbers(dq)')
    BY <1>2, <1>3, <2>1, NumbersOfQueue, IncreasingQueue
  <2>3. dcur' # NoJob
    BY <2>1, NoJobs
  <2>4. InHand' = {Head(dq).seq}
    BY <2>1, <2>3, NumbersOfOne DEF InHand
  <2>5. /\ UNCHANGED <<presented, m_sequence, Numbers(One(ocur)), Numbers(oq),
                       Numbers(One(m_curr))>>
        /\ oq' = oq
    BY <1>12 DEF DispatchTake
  <2>6. Order'
    BY <1>1, <1>3, <2>2, <2>4, <2>5 DEF Order, InOrder, Less
  <2> QED BY <1>3, <2>2, <2>5, <2>6 DEF Ordered
<1>13. CASE DispatchDrop \/ DispatchHandle \/ DispatchPost
  <2>1. \/ dcur' = NoJob /\ dstep' = "none"
        \/ dcur' = dcur /\ dstep = "handle" /\ dstep' = "frame"
    BY <1>13
    DEF DispatchDrop, DispatchHandle, DispatchPost, ClearUsedJob, D!Finish
  <2>2. InHand' \subseteq InHand
    BY <2>1, NumbersOfOne DEF InHand
  <2> QED
    BY <1>4, <1>13, <2>2
    DEF DispatchDrop, DispatchHandle, DispatchPost, ClearUsedJob, D!Finish
<1>14. CASE DispatchFrame
  <2> DEFINE frame == [seq |-> dcur.seq, fences |-> dcur.fences]
  <2>1. dcur \in NumberedJob /\ dcur # NoJob /\ dstep = "frame"
    BY <1>2, <1>14 DEF DispatchFrame, HandsFull
  <2>2. frame \in Frame /\ frame.seq = dcur.seq
    BY <2>1, JobKinds
  <2>3. oq' = Append(oq, frame) /\ dstep' = "post"
    BY <1>14 DEF DispatchFrame, O!Enqueue
  <2>4. /\ UNCHANGED <<presented, m_sequence, Numbers(One(ocur)), Numbers(dq),
                       Numbers(One(m_curr))>>
        /\ dq' = dq
    BY <1>14 DEF DispatchFrame
  <2> HIDE DEF frame
  <2>5. Numbers(oq)' = Numbers(oq) \cup {dcur.seq}
    BY <1>2, <2>2, <2>3, NumbersOfQueue
  <2>6. InHand = {dcur.seq} /\ InHand' = {}
    BY <2>1, <2>3, NumbersOfOne DEF InHand
  <2>7. Order'
    BY <1>1, <1>3, <2>4, <2>5, <2>6 DEF Order, InOrder, Less
  <2>8. Less(Numbers(oq), {frame.seq})
    BY <1>3, <2>2, <2>6 DEF Order, InOrder, Less
  <2>9. Increasing(oq)'
    BY <1>2, <1>3, <2>2, <2>3, <2>8, IncreasingQueue
  <2> QED BY <1>3, <2>4, <2>7, <2>9 DEF Ordered
<1>15. CASE OverlayIdleStep
  <2>1. CASE O!Take
    <3>1. oq # <<>> /\ ocur' = Head(oq) /\ oq' = Tail(oq)
      BY <2>1 DEF O!Take
    <3>2. /\ Head(oq).seq \in Numbers(oq) /\ Numbers(oq)' \subseteq Numbers(oq)
          /\ Increasing(oq)' /\ Less({Head(oq).seq}, Numbers(oq)')
      BY <1>2, <1>3, <3>1, NumbersOfQueue, IncreasingQueue
    <3>3. ocur' # NoJob
      BY <3>1, NoJobs
    <3>4. Numbers(One(ocur))' = {Head(oq).seq}
      BY <3>1, <3>3, NumbersOfOne
    <3>5. /\ UNCHANGED <<presented, m_sequence, Numbers(dq), Numbers(One(m_curr))>>
          /\ InHand' = InHand /\ dq' = dq
      BY <1>5, <1>15 DEF OverlayIdleStep
    <3>6. Order'
      BY <1>1, <1>3, <3>2, <3>4, <3>5 DEF Order, InOrder, Less
    <3> QED BY <1>3, <3>2, <3>5, <3>6 DEF Ordered
  <2>2. CASE ~O!Take
    BY <1>4, <1>5, <1>15, <2>2
    DEF OverlayIdleStep, OverlayStopped, O!ReadyToRun, O!Wake, O!GoIdle,
        O!LoopAgain, O!Break
  <2> QED BY <2>1, <2>2
<1>16. CASE OverlayCommit
  <2>1. ocur # NoJob /\ ocur' = NoJob /\ presented' = ocur.seq
    BY <1>16 DEF OverlayCommit, O!Finish, HandsFull
  <2>2. Numbers(One(ocur)) = {ocur.seq} /\ Numbers(One(ocur))' = {}
    BY <2>1, NumbersOfOne
  <2>3. /\ UNCHANGED <<m_sequence, Numbers(oq), Numbers(dq), Numbers(One(m_curr))>>
        /\ InHand' = InHand /\ oq' = oq /\ dq' = dq
    BY <1>5, <1>16 DEF OverlayCommit, O!Finish
  <2>4. Order'
    BY <1>1, <1>3, <2>1, <2>2, <2>3 DEF Order, InOrder, Less
  <2> QED BY <1>3, <2>3, <2>4 DEF Ordered
<1>17. CASE PlugOut
  BY <1>4, <1>5, <1>17 DEF PlugOut
<1>18. CASE PlugIn
  <2>1. /\ dq' = <<>> /\ oq' = <<>> /\ ocur' = NoJob /\ dcur' = NoJob
        /\ UNCHANGED <<presented, m_sequence, m_curr, Numbers(One(m_curr))>>
    BY <1>18 DEF PlugIn
  <2>2. /\ Numbers(dq)' = {} /\ Numbers(oq)' = {} /\ Numbers(One(ocur))' = {}
        /\ InHand' = {}
    BY <2>1, EmptyQueue, NumbersOfOne DEF InHand
  <2>3. Order'
    BY <1>1, <1>3, <2>1, <2>2, FewerInOrder DEF Order
  <2> QED BY <2>1, <2>3, EmptyQueue DEF Ordered
<1>19. CASE ReleaseHandOver
  <2>1. dq' = dq \o One(m_curr) /\ m_curr' = NoJob
    BY <1>19 DEF ReleaseHandOver
  <2>2. /\ UNCHANGED <<presented, m_sequence, Numbers(One(ocur)), Numbers(oq)>>
        /\ InHand' = InHand /\ oq' = oq /\ ocur' = ocur
    BY <1>5, <1>19 DEF ReleaseHandOver
  <2>3. CASE m_curr = NoJob
    <3>1. dq' = dq
      BY <1>2, <2>1, <2>3, HandedOver
    <3> QED BY <1>4, <2>1, <2>2, <2>3, <3>1
  <2>4. CASE m_curr # NoJob
    <3>1. dq' = Append(dq, m_curr)
      BY <1>2, <2>1, <2>4, HandedOver
    <3>2. Numbers(dq)' = Numbers(dq) \cup {m_curr.seq}
      BY <1>2, <2>4, <3>1, NumbersOfQueue
    <3>3. /\ Numbers(One(m_curr)) = {m_curr.seq}
          /\ Numbers(One(m_curr))' = {}
      BY <2>1, <2>4, NumbersOfOne
    <3>4. Order'
      BY <1>1, <1>3, <2>2, <3>2, <3>3 DEF Order, InOrder, Less
    <3>5. Less(Numbers(dq), {m_curr.seq})
      BY <1>3, <3>3 DEF Order, InOrder
    <3>6. Increasing(dq)'
      BY <1>2, <1>3, <2>4, <3>1, <3>5, IncreasingQueue
    <3> QED BY <1>3, <2>2, <3>4, <3>6 DEF Ordered
  <2> QED BY <2>3, <2>4
<1>20. CASE ReleaseJoined
  <2>1. /\ dq' = <<>> /\ oq' = oq
        /\ UNCHANGED <<presented, m_sequence, Numbers(One(ocur)), Numbers(oq),
                       Numbers(One(m_curr))>>
        /\ InHand' = InHand
    BY <1>5, <1>20 DEF ReleaseJoined
  <2>2. Numbers(dq)' = {}
    BY <2>1, EmptyQueue
  <2>3. Order'
    BY <1>1, <1>3, <2>1, <2>2, FewerInOrder DEF Order
  <2> QED BY <1>3, <2>1, <2>3, EmptyQueue DEF Ordered
<1>21. CASE ReleaseOverlay
  <2>1. /\ oq' = <<>> /\ dq' = dq
        /\ UNCHANGED <<presented, m_sequence, Numbers(One(ocur)), Numbers(dq),
                       Numbers(One(m_curr))>>
        /\ InHand' = InHand
    BY <1>5, <1>21 DEF ReleaseOverlay
  <2>2. Numbers(oq)' = {}
    BY <2>1, EmptyQueue
  <2>3. Order'
    BY <1>1, <1>3, <2>1, <2>2, FewerInOrder DEF Order
  <2> QED BY <1>3, <2>1, <2>3, EmptyQueue DEF Ordered
<1>22. CASE \/ ReleaseBegin \/ ReleaseWaited \/ ReleaseRequest \/ ReleaseWake
            \/ ReleaseDone \/ PlugInDone
  BY <1>4, <1>5, <1>22
  DEF ReleaseBegin, ReleaseWaited, ReleaseRequest, ReleaseWake, ReleaseDone,
      PlugInDone
<1> QED
  BY <1>6, <1>7, <1>8, <1>9, <1>10, <1>11, <1>12, <1>13, <1>14, <1>15, <1>16,
     <1>17, <1>18, <1>19, <1>20, <1>21, <1>22
  DEF Next, MainReturn, DispatchStep, OverlayStep, HotplugReturn

-----------------------------------------------------------------------------
(* The whole line of jobs and frames.                                      *)

Ascending(s) == \A i, j \in DOMAIN s : i < j => s[i] < s[j]

\* Two sequences in order, one above the other, are in order together.
LEMMA JoinAscending ==
  ASSUME NEW s \in Seq(Nat), NEW t \in Seq(Nat), Ascending(s), Ascending(t),
         Less(Range(s), Range(t))
  PROVE  /\ s \o t \in Seq(Nat)
         /\ Ascending(s \o t)
         /\ Range(s \o t) = Range(s) \cup Range(t)
<1>1. /\ s \o t \in Seq(Nat) /\ Len(s \o t) = Len(s) + Len(t)
      /\ \A i \in 1 .. Len(s) + Len(t) :
            (s \o t)[i] = IF i <= Len(s) THEN s[i] ELSE t[i - Len(s)]
  BY ConcatProperties
<1>2. /\ DOMAIN s = 1 .. Len(s) /\ Len(s) \in Nat
      /\ DOMAIN t = 1 .. Len(t) /\ Len(t) \in Nat
      /\ DOMAIN (s \o t) = 1 .. Len(s) + Len(t)
  BY <1>1, LenProperties
<1>3. Range(s \o t) = Range(s) \cup Range(t)
  BY RangeConcatenation
<1>4. Ascending(s \o t)
  <2> SUFFICES ASSUME NEW i \in DOMAIN (s \o t), NEW j \in DOMAIN (s \o t), i < j
               PROVE  (s \o t)[i] < (s \o t)[j]
    BY DEF Ascending
  <2>1. CASE j <= Len(s)
    BY <1>1, <1>2, <2>1 DEF Ascending
  <2>2. CASE i > Len(s)
    BY <1>1, <1>2, <2>2 DEF Ascending
  <2>3. CASE i <= Len(s) /\ j > Len(s)
    <3>1. /\ (s \o t)[i] = s[i] /\ i \in DOMAIN s
          /\ (s \o t)[j] = t[j - Len(s)] /\ j - Len(s) \in DOMAIN t
      BY <1>1, <1>2, <2>3
    <3> QED BY <3>1 DEF Less, Range
  <2> QED BY <1>2, <2>1, <2>2, <2>3
<1> QED BY <1>1, <1>3, <1>4

\* The numbers of a queue, in the order of the queue.
LEMMA SeqsOfQueue ==
  ASSUME NEW S, \A x \in S : x.seq \in Nat, NEW q \in Seq(S)
  PROVE  /\ Seqs(q) \in Seq(Nat)
         /\ Range(Seqs(q)) = Numbers(q)
         /\ Increasing(q) => Ascending(Seqs(q))
<1>1. /\ DOMAIN q = 1 .. Len(q) /\ Len(q) \in Nat
      /\ \A i \in DOMAIN q : q[i] \in S
  BY LenProperties, ElementOfSeq
<1>2. /\ Seqs(q) \in [1 .. Len(q) -> Nat]
      /\ \A i \in DOMAIN q : Seqs(q)[i] = q[i].seq
  BY <1>1 DEF Seqs
<1>3. Seqs(q) \in Seq(Nat)
  BY <1>1, <1>2, SeqDef
<1>4. DOMAIN Seqs(q) = DOMAIN q
  BY <1>1, <1>2
<1>5. Range(Seqs(q)) = Numbers(q)
  BY <1>2, <1>4 DEF Range, Numbers
<1>6. Increasing(q) => Ascending(Seqs(q))
  BY <1>2, <1>4 DEF Increasing, Ascending
<1> QED BY <1>3, <1>5, <1>6

\* What a reference holds is in order.
LEMMA IncreasingOne == \A x : Increasing(One(x))
<1> SUFFICES ASSUME NEW x PROVE Increasing(One(x))
  OBVIOUS
<1>1. CASE x = NoJob
  BY <1>1, EmptyQueue DEF One
<1>2. CASE x # NoJob
  <2>1. One(x) = <<x>> /\ DOMAIN <<x>> = {1}
    BY <1>2 DEF One
  <2> QED BY <2>1 DEF Increasing
<1> QED BY <1>1, <1>2

\* The order of the five places is the order of the line.
LEMMA OrderedLine ==
  ASSUME MainTypes, DispatchTypes, OverlayTypes, Ordered
  PROVE  OldestFirst
<1>1. /\ \A x \in Frame : x.seq \in Nat
      /\ \A x \in NumberedJob : x.seq \in Nat
  BY PipelineAssumption DEF Frame, NumberedJob
<1>2. /\ One(ocur) \in Seq(Frame) /\ oq \in Seq(Frame)
      /\ One(dcur) \in Seq(NumberedJob) /\ dq \in Seq(NumberedJob)
      /\ One(m_curr) \in Seq(NumberedJob) /\ presented \in Nat
  BY OneProperties
     DEF MainTypes, DispatchTypes, OverlayTypes, D!ThreadTypeOK, O!ThreadTypeOK
<1> DEFINE frame == IF dstep = "post" THEN <<>> ELSE Seqs(One(dcur))
           l1 == <<presented>> \o Seqs(One(ocur))
           l2 == l1 \o Seqs(oq)
           l3 == l2 \o frame
           l4 == l3 \o Seqs(dq)
           l5 == l4 \o Seqs(One(m_curr))
<1>3. /\ <<presented>> \in Seq(Nat) /\ Ascending(<<presented>>)
      /\ Range(<<presented>>) = {presented}
  <2>1. DOMAIN <<presented>> = {1} /\ <<presented>>[1] = presented
    OBVIOUS
  <2> QED BY <1>2, <2>1 DEF Ascending, Range
<1>4. /\ Seqs(One(ocur)) \in Seq(Nat) /\ Ascending(Seqs(One(ocur)))
      /\ Range(Seqs(One(ocur))) = Numbers(One(ocur))
  BY <1>1, <1>2, SeqsOfQueue, IncreasingOne
<1>5. /\ Seqs(oq) \in Seq(Nat) /\ Ascending(Seqs(oq))
      /\ Range(Seqs(oq)) = Numbers(oq)
  BY <1>1, <1>2, SeqsOfQueue DEF Ordered
<1>6. /\ frame \in Seq(Nat) /\ Ascending(frame)
      /\ Range(frame) = InHand
  <2>1. CASE dstep = "post"
    <3>1. <<>> \in Seq(Nat) /\ DOMAIN <<>> = {}
      BY EmptySeq
    <3> QED BY <2>1, <3>1 DEF Ascending, Range, InHand
  <2>2. CASE dstep # "post"
    BY <1>1, <1>2, <2>2, SeqsOfQueue, IncreasingOne DEF InHand
  <2> QED BY <2>1, <2>2
<1>7. /\ Seqs(dq) \in Seq(Nat) /\ Ascending(Seqs(dq))
      /\ Range(Seqs(dq)) = Numbers(dq)
  BY <1>1, <1>2, SeqsOfQueue DEF Ordered
<1>8. /\ Seqs(One(m_curr)) \in Seq(Nat) /\ Ascending(Seqs(One(m_curr)))
      /\ Range(Seqs(One(m_curr))) = Numbers(One(m_curr))
  BY <1>1, <1>2, SeqsOfQueue, IncreasingOne
<1> HIDE DEF frame
<1>9. Order
  BY DEF Ordered
<1>10. /\ l1 \in Seq(Nat) /\ Ascending(l1)
       /\ Range(l1) = {presented} \cup Numbers(One(ocur))
  <2>1. Less({presented}, Numbers(One(ocur)))
    BY <1>9 DEF Order, InOrder, Less
  <2> QED BY <1>3, <1>4, <2>1, JoinAscending
<1> HIDE DEF l1
<1>11. /\ l2 \in Seq(Nat) /\ Ascending(l2)
       /\ Range(l2) = Range(l1) \cup Numbers(oq)
  <2>1. Less(Range(l1), Numbers(oq))
    BY <1>9, <1>10 DEF Order, InOrder, Less
  <2> QED BY <1>5, <1>10, <2>1, JoinAscending
<1> HIDE DEF l2
<1>12. /\ l3 \in Seq(Nat) /\ Ascending(l3)
       /\ Range(l3) = Range(l2) \cup InHand
  <2>1. Less(Range(l2), InHand)
    BY <1>9, <1>10, <1>11 DEF Order, InOrder, Less
  <2> QED BY <1>6, <1>11, <2>1, JoinAscending
<1> HIDE DEF l3
<1>13. /\ l4 \in Seq(Nat) /\ Ascending(l4)
       /\ Range(l4) = Range(l3) \cup Numbers(dq)
  <2>1. Less(Range(l3), Numbers(dq))
    BY <1>9, <1>10, <1>11, <1>12 DEF Order, InOrder, Less
  <2>2. /\ l3 \in Seq(Nat) /\ Ascending(l3)
        /\ Seqs(dq) \in Seq(Nat) /\ Ascending(Seqs(dq))
        /\ Less(Range(l3), Range(Seqs(dq)))
    BY <1>7, <1>12, <2>1
  <2>3. Range(l4) = Range(l3) \cup Range(Seqs(dq))
    BY <2>2, JoinAscending
  <2> QED BY <1>7, <2>2, <2>3, JoinAscending
<1> HIDE DEF l4
<1>14. l5 \in Seq(Nat) /\ Ascending(l5)
  <2>1. Less(Range(l4), Numbers(One(m_curr)))
    BY <1>9, <1>10, <1>11, <1>12, <1>13 DEF Order, InOrder, Less
  <2> QED BY <1>8, <1>13, <2>1, JoinAscending
<1> HIDE DEF l5
<1>15. \A i \in 1 .. Len(l5) - 1 : l5[i] < l5[i + 1]
  <2>1. DOMAIN l5 = 1 .. Len(l5) /\ Len(l5) \in Nat
    BY <1>14, LenProperties
  <2> QED BY <1>14, <2>1 DEF Ascending
<1> QED BY <1>15 DEF OldestFirst, l5, l4, l3, l2, l1, frame

-----------------------------------------------------------------------------
(* Who holds the fences.                                                   *)

\* The fences that the jobs or frames of a sequence carry; no two carry the
\* same.
Holds(s) == UNION {s[i].fences : i \in DOMAIN s}
Apart(s) == \A i, j \in DOMAIN s : i # j => s[i].fences \cap s[j].fences = {}

\* The fences of the current job, the dispatch thread's queue and hands, the
\* engine's queue and hands and those kept for the next job: all open, none
\* twice.
Once(C, W, H, Q, E, K, descriptors) ==
    /\ C \cup W \cup H \cup Q \cup E \cup K \subseteq descriptors
    /\ C \cap (W \cup H \cup Q \cup E \cup K) = {}
    /\ W \cap (H \cup Q \cup E \cup K) = {}
    /\ H \cap (Q \cup E \cup K) = {}
    /\ Q \cap (E \cup K) = {}
    /\ E \cap K = {}

OnceHeld == Once(Holds(One(m_curr)), Holds(dq), Holds(One(dcur)), Holds(oq),
                 Holds(One(ocur)), curr_fence, open)
HeldOnce == OnceHeld /\ Apart(dq) /\ Apart(oq)

InSomeHand ==
    Holds(One(m_curr)) \cup Holds(dq) \cup Holds(One(dcur)) \cup Holds(oq)
      \cup Holds(One(ocur)) \cup curr_fence
Lost == open \ InSomeHand

\* What a sequence of jobs or frames carries, one by one.
LEMMA HoldsEach ==
  \A s, f : f \in Holds(s) <=> \E i \in DOMAIN s : f \in s[i].fences
  BY DEF Holds

\* What a reference carries.
LEMMA HoldsOne ==
  \A x : Holds(One(x)) = IF x = NoJob THEN {} ELSE x.fences
<1> SUFFICES ASSUME NEW x
             PROVE  Holds(One(x)) = IF x = NoJob THEN {} ELSE x.fences
  OBVIOUS
<1>1. CASE x = NoJob
  <2>1. One(x) = <<>> /\ DOMAIN <<>> = {}
    BY <1>1 DEF One
  <2> QED BY <1>1, <2>1 DEF Holds
<1>2. CASE x # NoJob
  <2>1. One(x) = <<x>> /\ DOMAIN <<x>> = {1} /\ <<x>>[1] = x
    BY <1>2 DEF One
  <2>2. \A f : f \in Holds(One(x)) <=> f \in x.fences
    BY <2>1, HoldsEach
  <2> QED BY <1>2, <2>2
<1> QED BY <1>1, <1>2

\* An empty queue carries nothing.
LEMMA HoldsNothing == Holds(<<>>) = {} /\ Apart(<<>>)
  BY DEF Holds, Apart

\* What a queue carries when something is put into it or taken from it.
LEMMA HoldsQueue ==
  ASSUME NEW S, NEW q \in Seq(S), Apart(q)
  PROVE  /\ \A x \in S :
              /\ Holds(Append(q, x)) = Holds(q) \cup x.fences
              /\ x.fences \cap Holds(q) = {} => Apart(Append(q, x))
         /\ q # <<>> => /\ Holds(q) = Holds(Tail(q)) \cup Head(q).fences
                        /\ Head(q).fences \cap Holds(Tail(q)) = {}
                        /\ Apart(Tail(q))
<1>1. DOMAIN q = 1 .. Len(q) /\ Len(q) \in Nat
  BY LenProperties
<1>2. ASSUME NEW x \in S
      PROVE  /\ Holds(Append(q, x)) = Holds(q) \cup x.fences
             /\ x.fences \cap Holds(q) = {} => Apart(Append(q, x))
  <2>1. /\ Append(q, x) \in Seq(S) /\ Len(Append(q, x)) = Len(q) + 1
        /\ \A i \in 1 .. Len(q) : Append(q, x)[i] = q[i]
        /\ Append(q, x)[Len(q) + 1] = x
    BY AppendProperties
  <2>2. DOMAIN Append(q, x) = 1 .. Len(q) + 1
    BY <2>1, LenProperties
  <2>3. \A f : f \in Holds(Append(q, x)) <=> f \in Holds(q) \/ f \in x.fences
    <3> TAKE f
    <3>1. f \in Holds(Append(q, x))
            <=> \E i \in 1 .. Len(q) + 1 : f \in Append(q, x)[i].fences
      BY <2>2, HoldsEach, Zenon
    <3>2. f \in Holds(q) <=> \E i \in 1 .. Len(q) : f \in q[i].fences
      BY <1>1, HoldsEach, Zenon
    <3>3. (\E i \in 1 .. Len(q) + 1 : f \in Append(q, x)[i].fences)
            => f \in Holds(q) \/ f \in x.fences
      BY <1>1, <2>1, <3>2
    <3>4. f \in Holds(q) \/ f \in x.fences
            => \E i \in 1 .. Len(q) + 1 : f \in Append(q, x)[i].fences
      BY <1>1, <2>1, <3>2
    <3> QED BY <3>1, <3>3, <3>4
  <2>4. Holds(Append(q, x)) = Holds(q) \cup x.fences
    BY <2>3
  <2>5. ASSUME x.fences \cap Holds(q) = {}
        PROVE  Apart(Append(q, x))
    <3>1. \A i \in 1 .. Len(q) : q[i].fences \cap x.fences = {}
      BY <1>1, <2>5, HoldsEach
    <3> QED BY <1>1, <2>1, <2>2, <3>1 DEF Apart
  <2> QED BY <2>4, <2>5
<1>3. ASSUME q # <<>>
      PROVE  /\ Holds(q) = Holds(Tail(q)) \cup Head(q).fences
             /\ Head(q).fences \cap Holds(Tail(q)) = {}
             /\ Apart(Tail(q))
  <2>1. /\ Tail(q) \in Seq(S) /\ Len(Tail(q)) = Len(q) - 1 /\ Len(q) # 0
        /\ Head(q) = q[1] /\ \A i \in 1 .. Len(q) - 1 : Tail(q)[i] = q[i + 1]
    BY <1>1, <1>3, HeadTailProperties, EmptySeq
  <2>2. DOMAIN Tail(q) = 1 .. Len(q) - 1
    BY <2>1, LenProperties
  <2>3. \A f : f \in Holds(Tail(q)) <=>
                 \E i \in 2 .. Len(q) : f \in q[i].fences
    <3>1. \A i \in 2 .. Len(q) : i - 1 \in 1 .. Len(q) - 1 /\ q[i] = Tail(q)[i - 1]
      BY <1>1, <2>1
    <3>2. \A i \in 1 .. Len(q) - 1 : i + 1 \in 2 .. Len(q) /\ Tail(q)[i] = q[i + 1]
      BY <1>1, <2>1
    <3> TAKE f
    <3>3. f \in Holds(Tail(q))
            <=> \E i \in 1 .. Len(q) - 1 : f \in Tail(q)[i].fences
      BY <2>2, HoldsEach, Zenon
    <3> QED BY <3>1, <3>2, <3>3
  <2>4. \A f : f \in Holds(q) <=> f \in Holds(Tail(q)) \/ f \in Head(q).fences
    BY <1>1, <2>1, <2>3, HoldsEach
  <2>5. \A f : ~(f \in Head(q).fences /\ f \in Holds(Tail(q)))
    BY <1>1, <2>1, <2>3 DEF Apart
  <2>6. Apart(Tail(q))
    BY <1>1, <2>1, <2>2 DEF Apart
  <2> QED BY <2>4, <2>5, <2>6
<1> QED BY <1>2, <1>3

\* The kind and the number of a fence.
Kind(f) == f[1]
Number(f) == f[2]
Descriptor(kind, n) == <<kind, n>>

\* What a fence is made of, and which fences OfKind picks.
LEMMA FenceParts ==
  /\ \A f \in Fences : /\ Kind(f) \in {"A", "C", "P", "Q"}
                       /\ Number(f) \in 1 .. MaxSeq
  /\ \A kind, n : /\ Kind(Descriptor(kind, n)) = kind
                  /\ Number(Descriptor(kind, n)) = n
  /\ \A kinds, F : OfKind(kinds, F) = {f \in F : Kind(f) \in kinds}
<1>1. \A f \in Fences : Kind(f) \in {"A", "C", "P", "Q"} /\ Number(f) \in 1 .. MaxSeq
  BY DEF Fences, Kind, Number
<1>2. \A kind, n : /\ Kind(Descriptor(kind, n)) = kind
                   /\ Number(Descriptor(kind, n)) = n
  BY DEF Kind, Number, Descriptor
<1>3. \A kinds, F : OfKind(kinds, F) = {f \in F : Kind(f) \in kinds}
  BY DEF OfKind, Kind
<1> QED BY <1>1, <1>2, <1>3

\* A job that is not enabled carries no fences, and the job whose frame is
\* queued has given them away.
BareJob == {job \in NumberedJob : ~job.enable => job.fences = {}}
BareJobs ==
    /\ m_curr \in BareJob \cup {NoJob} /\ dcur \in BareJob \cup {NoJob}
    /\ dq \in Seq(BareJob)
    /\ dstep = "post" => dcur.fences = {}

\* Only setJob gives fences to a job, and it enables it.
LEMMA BareJobsKept ==
  ASSUME MainTypes, HandsFull, CurrKept, BareJobs, MainTypes', CurrKept', Next
  PROVE  BareJobs'
<1> USE DEF BareJobs
<1>1. /\ m_curr' \in NumberedJob \cup {NoJob}
      /\ mpc' # "set" => m_curr' \in IdleJob \cup {NoJob}
  BY DEF MainTypes, CurrKept
<1>2. m_curr' \in IdleJob /\ m_curr' # NoJob => m_curr' \in BareJob
  BY <1>1 DEF BareJob, IdleJob
<1>3. CASE GetJob \/ GetJobTake \/ PowerOff \/ PowerOn \/ PowerOffDispatched
           \/ PowerOffDone
  <2>1. mpc' # "set"
    BY <1>3
    DEF GetJob, NoNewJob, GetJobTake, PowerOff, PowerOn, PowerOffDispatched,
        PowerOffDone
  <2>2. UNCHANGED <<dq, dcur, dstep>>
    BY <1>3
    DEF GetJob, GetJobTake, PowerOff, PowerOn, PowerOffDispatched, PowerOffDone
  <2> QED BY <1>1, <1>2, <2>1, <2>2
<1>4. CASE SetJob
  <2>1. mpc = "prepared" /\ UNCHANGED <<dq, dcur, dstep>>
    BY <1>4 DEF SetJob
  <2>2. m_curr' \in BareJob \cup {NoJob}
    <3>1. ASSUME m_curr # NoJob, NEW come \in JobFences,
                 Complete(m_curr, come[1], come[2], come[3])
          PROVE  m_curr' \in BareJob
      <4>1. m_curr' \in NumberedJob
        BY <3>1, CompleteTypes
      <4>2. m_curr'.enable
        BY <3>1 DEF Complete, BareJob, NumberedJob
      <4> QED BY <4>1, <4>2 DEF BareJob
    <3>2. m_curr # NoJob => [m_curr EXCEPT !.enable = FALSE] \in BareJob
      BY <2>1 DEF CurrKept, BareJob, NumberedJob, IdleJob
    <3> QED BY <1>4, <3>1, <3>2 DEF SetJob
  <2> QED BY <2>1, <2>2
<1>5. CASE Trigger
  <2>1. CASE enable /\ m_curr # NoJob
    <3>1. dq' = Append(dq, m_curr) /\ m_curr \in BareJob /\ m_curr' = NoJob
      BY <1>5, <2>1 DEF Trigger, D!Enqueue
    <3>2. dq' \in Seq(BareJob)
      BY <3>1, AppendProperties
    <3> QED BY <1>5, <3>1, <3>2 DEF Trigger
  <2>2. CASE ~(enable /\ m_curr # NoJob)
    BY <1>5, <2>2 DEF Trigger
  <2> QED BY <2>1, <2>2
<1>6. CASE DispatchIdleStep
  BY <1>6
  DEF DispatchIdleStep, D!ReadyToRun, D!Wake, D!Break, D!GoIdle, D!LoopAgain
<1>7. CASE DispatchTake
  <2>1. Head(dq) \in BareJob /\ Tail(dq) \in Seq(BareJob)
    BY <1>7, HeadTailProperties DEF DispatchTake, D!Take
  <2> QED BY <1>7, <2>1 DEF DispatchTake, D!Take
<1>8. CASE DispatchDrop \/ DispatchHandle \/ DispatchPost
  BY <1>8 DEF DispatchDrop, DispatchHandle, DispatchPost, ClearUsedJob, D!Finish
<1>9. CASE DispatchFrame
  <2>1. dcur \in BareJob
    BY <1>9 DEF DispatchFrame, HandsFull
  <2>2. dcur' \in BareJob /\ dcur'.fences = {}
    BY <1>9, <2>1 DEF DispatchFrame, BareJob, NumberedJob
  <2> QED BY <1>9, <2>2 DEF DispatchFrame
<1>10. CASE OverlayStep
  BY <1>10 DEF OverlayStep, OverlayIdleStep, OverlayCommit
<1>11. CASE PlugOut
  BY <1>11 DEF PlugOut
<1>12. CASE PlugIn
  BY <1>12, EmptySeq DEF PlugIn
<1>13. CASE ReleaseHandOver
  <2>1. dq \o One(m_curr) \in Seq(BareJob)
    BY OneProperties, ConcatProperties
  <2> QED BY <1>13, <2>1 DEF ReleaseHandOver
<1>14. CASE ReleaseJoined
  BY <1>14, EmptySeq DEF ReleaseJoined
<1>15. CASE \/ ReleaseBegin \/ ReleaseWaited \/ ReleaseRequest \/ ReleaseWake
            \/ ReleaseOverlay \/ ReleaseDone \/ PlugInDone
  BY <1>15 DEF ReleaseBegin, ReleaseWaited, ReleaseRequest, ReleaseWake,
               ReleaseOverlay, ReleaseDone, PlugInDone
<1> QED
  BY <1>3, <1>4, <1>5, <1>6, <1>7, <1>8, <1>9, <1>10, <1>11, <1>12, <1>13,
     <1>14, <1>15
  DEF Next, MainReturn, DispatchStep, HotplugReturn

\* The current job has the last number given out, and until setJob no fence
\* has that number.
Fresh ==
    /\ m_curr # NoJob => m_curr.seq = m_sequence
    /\ m_curr # NoJob /\ mpc # "set" => \A f \in open : Number(f) < m_sequence
    /\ \A f \in open : Number(f) <= m_sequence

\* setJob makes new fences, whose numbers are the job's, and gives it the one
\* kept from the job before.
LEMMA CompleteFences ==
  ASSUME m_curr \in NumberedJob, NEW come \in JobFences,
         Complete(m_curr, come[1], come[2], come[3])
  PROVE  \E own \in SUBSET Fences :
           /\ m_curr'.fences = own \cup curr_fence
           /\ m_curr'.seq = m_curr.seq
           /\ curr_fence' \in SUBSET Fences
           /\ open' = open \cup own \cup curr_fence'
           /\ \A g \in own : Kind(g) # "P" /\ Number(g) = m_curr.seq
           /\ \A g \in curr_fence' : g = Descriptor("P", m_curr.seq)
<1> DEFINE own == {Descriptor(come[1], m_curr.seq)} \cup
                    (IF come[3] THEN {Descriptor("Q", m_curr.seq)} ELSE {})
           next == IF come[2] THEN {Descriptor("P", m_curr.seq)} ELSE {}
<1>1. come[1] \in {"A", "C"}
  BY PipelineAssumption
<1>2. /\ m_curr' = [m_curr EXCEPT !.enable = TRUE, !.fences = own \cup curr_fence]
      /\ curr_fence' = next
      /\ open' = open \cup own \cup next
  BY DEF Complete, Descriptor
<1>3. own \in SUBSET Fences /\ next \in SUBSET Fences
  <2>1. \A kind \in {"A", "C", "P", "Q"} : Descriptor(kind, m_curr.seq) \in Fences
    BY DEF Descriptor, NumberedJob, Fences
  <2> QED BY <1>1, <2>1
<1>4. \A g \in own : Kind(g) # "P" /\ Number(g) = m_curr.seq
  <2> SUFFICES ASSUME NEW g \in own
               PROVE  Kind(g) # "P" /\ Number(g) = m_curr.seq
    OBVIOUS
  <2>1. g = Descriptor(come[1], m_curr.seq) \/ g = Descriptor("Q", m_curr.seq)
    OBVIOUS
  <2> HIDE DEF own
  <2> QED BY <1>1, <2>1, FenceParts
<1>5. \A g \in next : g = Descriptor("P", m_curr.seq)
  OBVIOUS
<1>6. m_curr'.fences = own \cup curr_fence /\ m_curr'.seq = m_curr.seq
  BY <1>2 DEF NumberedJob
<1> HIDE DEF own, next
<1> QED BY <1>2, <1>3, <1>4, <1>5, <1>6

\* Numbers are given out in getJob, and used in setJob.
LEMMA FreshKept ==
  ASSUME MainTypes, DispatchTypes, LocksHeld, TornDown, CurrKept, Fresh,
         MainTypes', CurrKept', Next
  PROVE  Fresh'
<1>1. \A f \in open : Number(f) \in Nat
  BY FenceParts DEF MainTypes
<1>2. m_sequence \in Nat
  BY PipelineAssumption DEF MainTypes
<1> USE DEF Fresh
<1>3. CASE GetJob
  BY <1>3 DEF GetJob, NoNewJob
<1>4. CASE SetJob
  <2>1. mpc' = "set" /\ m_sequence' = m_sequence
    BY <1>4 DEF SetJob
  <2>2. ASSUME m_curr # NoJob, NEW come \in JobFences,
               Complete(m_curr, come[1], come[2], come[3])
        PROVE  Fresh'
    <3>1. m_curr \in NumberedJob
      BY <2>2 DEF MainTypes
    <3>2. PICK own \in SUBSET Fences :
             /\ m_curr'.seq = m_curr.seq
             /\ open' = open \cup own \cup curr_fence'
             /\ \A f \in own : Number(f) = m_curr.seq
             /\ \A f \in curr_fence' : f = Descriptor("P", m_curr.seq)
      BY <2>2, <3>1, CompleteFences
    <3>3. \A f \in curr_fence' : Number(f) = m_curr.seq
      BY <3>2, FenceParts
    <3> QED BY <1>1, <1>2, <2>1, <2>2, <3>2, <3>3
  <2>3. m_curr # NoJob => [m_curr EXCEPT !.enable = FALSE].seq = m_curr.seq
    BY DEF MainTypes, NumberedJob
  <2>4. ASSUME m_curr' \in {m_curr, [m_curr EXCEPT !.enable = FALSE]},
               m_curr' # m_curr => m_curr # NoJob, open' = open
        PROVE  Fresh'
    BY <2>1, <2>3, <2>4
  <2> QED BY <1>4, <2>2, <2>4 DEF SetJob
<1>5. CASE Trigger
  <2>1. m_curr' = NoJob
    BY <1>5, TriggerEmpties
  <2> QED BY <1>5, <2>1 DEF Trigger
<1>6. CASE PowerOff \/ PowerOn \/ PowerOffDispatched \/ PowerOffDone
  BY <1>6
  DEF PowerOff, PowerOn, PowerOffDispatched, PowerOffDone, CurrKept
<1>7. CASE GetJobTake
  <2>1. /\ Head(job_pool) \in Job /\ m_sequence + 1 \in 1 .. MaxSeq
        /\ m_curr' = [Head(job_pool) EXCEPT !.seq = m_sequence + 1]
        /\ m_sequence' = m_sequence + 1 /\ open' = open
    BY <1>7, HeadTailProperties, PipelineAssumption
    DEF GetJobTake, MainTypes, DispatchTypes
  <2>2. m_curr'.seq = m_sequence'
    BY <2>1 DEF Job
  <2> QED BY <1>1, <1>2, <2>1, <2>2
<1>8. CASE DispatchStep
  <2>1. open' \subseteq open /\ UNCHANGED <<m_curr, m_sequence, mpc>>
    BY <1>8 DEF DispatchStep, DispatchIdleStep, DispatchTake, DispatchDrop,
                DispatchHandle, DispatchFrame, DispatchPost, ClearUsedJob
  <2> QED BY <2>1
<1>9. CASE OverlayStep
  <2>1. open' \subseteq open /\ UNCHANGED <<m_curr, m_sequence, mpc>>
    BY <1>9 DEF OverlayStep, OverlayIdleStep, OverlayCommit
  <2> QED BY <2>1
<1>10. CASE PlugOut \/ PlugIn
  BY <1>10 DEF PlugOut, PlugIn
<1>11. CASE HotplugReturn
  <2>1. /\ open' \subseteq open /\ UNCHANGED <<m_sequence, mpc>>
        /\ m_curr' \in {m_curr, NoJob}
    BY <1>11 DEF HotplugReturn, ReleaseBegin, ReleaseWaited, ReleaseRequest,
                 ReleaseHandOver, ReleaseJoined, ReleaseWake, ReleaseOverlay,
                 ReleaseDone, PlugInDone
  <2> QED BY <2>1
<1> QED
  BY <1>3, <1>4, <1>5, <1>6, <1>7, <1>8, <1>9, <1>10, <1>11
  DEF Next, MainReturn

\* What a job carries from its setJob on: fences of its own number, and one
\* present fence at most, of an earlier job.  Its own present fence is the one
\* kept for the next job.
Carries(job) ==
    /\ \A f, g \in job.fences : Kind(f) = "P" /\ Kind(g) = "P" => f = g
    /\ \A f \in job.fences : Kind(f) # "P" => Number(f) = job.seq
    /\ job.enable => \A f \in curr_fence : Number(f) = job.seq

\* One present fence is kept at most.  When the dispatch thread is joined, the
\* current job is the only one that may be left in its queue, and then the
\* kept fence is forgotten.
LastJob ==
    /\ \A f, g \in curr_fence : Kind(f) = "P" /\ f = g
    /\ m_curr # NoJob => Carries(m_curr)
    /\ hpc \in {"request", "hand_over"} => dq = <<>> /\ dpc # "busy"
    /\ hpc = "join" => Len(dq) <= 1 /\ (dq # <<>> => Carries(Head(dq)))
    /\ hpc \in {"wake", "join_overlay", "delete_pool", "down"} =>
          curr_fence = {}

\* A release waits for the dispatch thread with the lock that the main thread
\* needs to give it more.
LEMMA LastJobKept ==
  ASSUME MainTypes, DispatchTypes, LocksHeld, TornDown, CurrKept, DispatchIdle,
         LastJob, MainTypes', CurrKept', Next
  PROVE  LastJob'
<1>1. dq \in Seq(NumberedJob) /\ m_curr \in NumberedJob \cup {NoJob}
  BY DEF MainTypes, DispatchTypes, D!ThreadTypeOK
<1>2. ASSUME UNCHANGED <<curr_fence, dq, hpc>>,
             m_curr' # NoJob => Carries(m_curr)',
             dpc' # "busy" \/ hpc \notin {"request", "hand_over"}
      PROVE  LastJob'
  BY <1>2 DEF LastJob, Carries
<1>3. /\ m_curr' = m_curr /\ curr_fence' = curr_fence /\ m_curr # NoJob
           => Carries(m_curr)'
      /\ dpc' = dpc => dpc' # "busy" \/ hpc \notin {"request", "hand_over"}
  BY DEF LastJob, Carries
<1>4. m_curr' \in IdleJob => Carries(m_curr)'
  BY DEF IdleJob, Carries
<1>5. CASE GetJob \/ GetJobTake
  <2>1. m_curr' \in IdleJob \cup {NoJob}
    BY <1>5 DEF GetJob, NoNewJob, GetJobTake, CurrKept
  <2> QED BY <1>2, <1>3, <1>4, <1>5, <2>1 DEF GetJob, GetJobTake
<1>6. CASE SetJob
  <2>1. UNCHANGED <<dq, dpc, hpc>> /\ mpc = "prepared" /\ main_lock = "free"
    BY <1>6 DEF SetJob
  <2>2. hpc \in {"up", "out", "in", "down"}
    BY <2>1 DEF LocksHeld, MainTypes
  <2>3. ASSUME m_curr # NoJob, NEW come \in JobFences,
               Complete(m_curr, come[1], come[2], come[3])
        PROVE  LastJob'
    <3>1. m_curr \in NumberedJob
      BY <1>1, <2>3
    <3>2. PICK own \in SUBSET Fences :
             /\ m_curr'.fences = own \cup curr_fence
             /\ m_curr'.seq = m_curr.seq
             /\ \A f \in own : Kind(f) # "P" /\ Number(f) = m_curr.seq
             /\ \A f \in curr_fence' : f = Descriptor("P", m_curr.seq)
      BY <2>3, <3>1, CompleteFences
    <3>3. /\ \A f, g \in curr_fence' : Kind(f) = "P" /\ f = g
          /\ \A f \in curr_fence' : Number(f) = m_curr.seq
      BY <3>2, FenceParts
    <3>4. \A f, g \in curr_fence : Kind(f) = "P" /\ f = g
      BY DEF LastJob
    <3>5. Carries(m_curr)'
      BY <3>2, <3>3, <3>4 DEF Carries
    <3>6. hpc # "down"
      BY <2>3 DEF CurrKept
    <3> QED BY <2>1, <2>2, <3>3, <3>5, <3>6 DEF LastJob
  <2>4. m_curr # NoJob => Carries([m_curr EXCEPT !.enable = FALSE])
    BY <1>1, <2>1 DEF CurrKept, IdleJob, Carries, NumberedJob
  <2>5. ASSUME m_curr' \in {m_curr, [m_curr EXCEPT !.enable = FALSE]},
               m_curr' # m_curr => m_curr # NoJob, curr_fence' = curr_fence
        PROVE  LastJob'
    <3>1. m_curr' # NoJob => Carries(m_curr)'
      BY <1>3, <2>4, <2>5 DEF Carries
    <3> QED BY <1>2, <1>3, <2>1, <2>5, <3>1
  <2> QED BY <1>6, <2>3, <2>5 DEF SetJob
<1>7. CASE Trigger
  <2>1. m_curr' = NoJob
    BY <1>7, TriggerEmpties
  <2>2. hpc \in {"up", "out", "in", "down"}
    BY <1>7 DEF Trigger, LocksHeld, MainTypes
  <2> QED BY <1>7, <2>1, <2>2 DEF Trigger, LastJob
<1>8. CASE PowerOff \/ PowerOn \/ PowerOffDispatched \/ PowerOffDone
  BY <1>2, <1>3, <1>8
  DEF PowerOff, PowerOn, PowerOffDispatched, PowerOffDone
<1>9. CASE DispatchIdleStep
  <2>1. UNCHANGED <<m_curr, curr_fence, dq, hpc>> /\ dpc' # "busy"
    BY <1>9 DEF DispatchIdleStep, D!ReadyToRun, D!Wake, D!Break, D!GoIdle,
                D!LoopAgain
  <2> QED BY <1>2, <1>3, <2>1
<1>10. CASE DispatchTake
  <2>1. /\ dq # <<>> /\ dq' = Tail(dq) /\ UNCHANGED <<m_curr, curr_fence, hpc>>
    BY <1>10 DEF DispatchTake, D!Take
  <2>2. Len(dq') = Len(dq) - 1 /\ Len(dq) \in Nat /\ dq' \in Seq(NumberedJob)
    BY <1>1, <2>1, Lengths, HeadTailProperties
  <2>3. Len(dq) <= 1 => dq' = <<>>
    BY <2>2, EmptySeq
  <2>4. m_curr' # NoJob => Carries(m_curr)'
    BY <1>3, <2>1
  <2> QED BY <2>1, <2>2, <2>3, <2>4 DEF LastJob
<1>11. CASE DispatchDrop \/ DispatchHandle \/ DispatchFrame \/ DispatchPost
  <2>1. UNCHANGED <<m_curr, curr_fence, dq, hpc>> /\ dpc = "busy"
    BY <1>11
    DEF DispatchDrop, DispatchHandle, DispatchFrame, DispatchPost, ClearUsedJob,
        D!Finish
  <2>2. hpc \notin {"request", "hand_over"}
    BY <2>1 DEF LastJob
  <2> QED BY <1>2, <1>3, <2>1, <2>2
<1>12. CASE OverlayStep
  BY <1>2, <1>3, <1>12 DEF OverlayStep, OverlayIdleStep, OverlayCommit
<1>13. CASE PlugOut \/ ReleaseBegin
  <2>1. /\ UNCHANGED <<m_curr, curr_fence, dq>> /\ hpc' \in {"out", "wait"}
    BY <1>13 DEF PlugOut, ReleaseBegin
  <2> QED BY <1>3, <2>1 DEF LastJob
<1>14. CASE PlugIn
  <2>1. curr_fence' = {} /\ hpc' = "in" /\ m_curr' = m_curr /\ curr_fence = {}
    BY <1>14 DEF PlugIn, LastJob
  <2> QED BY <1>3, <2>1 DEF LastJob
<1>15. CASE ReleaseWaited
  <2>1. dq = <<>> /\ dpc # "busy"
    BY <1>15 DEF ReleaseWaited, D!Idle, DispatchIdle
  <2>2. /\ UNCHANGED <<m_curr, curr_fence, dq, dpc>> /\ hpc' = "request"
    BY <1>15 DEF ReleaseWaited
  <2> QED BY <1>3, <2>1, <2>2 DEF LastJob
<1>16. CASE ReleaseRequest
  <2>1. dq = <<>> /\ dpc # "busy"
    BY <1>16 DEF ReleaseRequest, LastJob
  <2>2. /\ UNCHANGED <<m_curr, curr_fence, dq, dpc>> /\ hpc' = "hand_over"
    BY <1>16 DEF ReleaseRequest
  <2> QED BY <1>3, <2>1, <2>2 DEF LastJob
<1>17. CASE ReleaseHandOver
  <2>1. /\ dq' = <<>> \o One(m_curr) /\ m_curr' = NoJob /\ hpc' = "join"
        /\ curr_fence' = curr_fence
    BY <1>17 DEF ReleaseHandOver, LastJob
  <2>2. <<>> \o One(m_curr) = One(m_curr)
    <3>1. One(m_curr) \in Seq(NumberedJob)
      BY <1>1, OneProperties
    <3> QED BY <3>1, ConcatEmptySeq
  <2>3. CASE m_curr = NoJob
    <3>1. dq' = <<>> /\ Len(dq') = 0
      BY <2>1, <2>2, <2>3, EmptySeq DEF One
    <3> QED BY <2>1, <3>1 DEF LastJob
  <2>4. CASE m_curr # NoJob
    <3>1. dq' = <<m_curr>>
      BY <2>1, <2>2, <2>4 DEF One
    <3>2. Head(dq') = m_curr /\ Len(dq') = 1
      BY <3>1
    <3>3. Carries(Head(dq))'
      BY <2>1, <2>4, <3>2 DEF LastJob, Carries
    <3>4. \A f, g \in curr_fence' : Kind(f) = "P" /\ f = g
      BY <2>1 DEF LastJob
    <3>5. Len(dq)' <= 1
      BY <3>2
    <3> HIDE DEF Carries
    <3> QED BY <2>1, <3>3, <3>4, <3>5, Zenon DEF LastJob
  <2> QED BY <2>3, <2>4
<1>18. CASE ReleaseJoined
  <2>1. curr_fence' = {} /\ hpc' = "wake" /\ m_curr' = m_curr /\ m_curr = NoJob
    BY <1>18 DEF ReleaseJoined, CurrKept
  <2> QED BY <2>1 DEF LastJob
<1>19. CASE ReleaseWake \/ ReleaseOverlay \/ ReleaseDone
  <2>1. /\ UNCHANGED <<m_curr, curr_fence>> /\ curr_fence = {}
        /\ hpc' \in {"join_overlay", "delete_pool", "down"}
    BY <1>19 DEF ReleaseWake, ReleaseOverlay, ReleaseDone, LastJob
  <2> QED BY <1>3, <2>1 DEF LastJob
<1>20. CASE PlugInDone
  <2>1. UNCHANGED <<m_curr, curr_fence>> /\ hpc' = "up"
    BY <1>20 DEF PlugInDone
  <2> QED BY <1>3, <2>1 DEF LastJob
<1> QED
  BY <1>5, <1>6, <1>7, <1>8, <1>9, <1>10, <1>11, <1>12, <1>13, <1>14, <1>15,
     <1>16, <1>17, <1>18, <1>19, <1>20
  DEF Next, MainReturn, DispatchStep, HotplugReturn

\* What a step may leave without a holder: a dropped job forgets the fence of
\* its client target, the end of the engine and, where the engine does not wait
\* for fences itself, a frame given to the driver forget picture-quality fences,
\* and the joining of the dispatch thread forgets the fences in its queue and
\* the one kept for the next job.
Loses ==
    \/ Lost' \subseteq Lost
    \/ DispatchDrop /\ Lost' \subseteq Lost \cup OfKind({"C"}, Fences)
    \/ /\ FenceWait \/ ReleaseOverlay
       /\ Lost' \subseteq Lost \cup OfKind({"Q"}, Fences)
    \/ ReleaseJoined /\ Lost' \subseteq Lost \cup Holds(dq) \cup curr_fence

\* A fence is with one holder before and after every step, and only a drop, a
\* release or a frame with a picture-quality fence leaves one without.
LEMMA HeldOnceKept ==
  ASSUME MainTypes, DispatchTypes, OverlayTypes, HandsFull, TornDown, CurrKept,
         BareJobs, Fresh, HeldOnce, LastJob, MainTypes', CurrKept', Next
  PROVE  HeldOnce' /\ Loses
<1>1. /\ dq \in Seq(NumberedJob) /\ oq \in Seq(Frame)
      /\ m_curr \in NumberedJob \cup {NoJob}
      /\ dcur \in NumberedJob \cup {NoJob} /\ ocur \in Frame \cup {NoJob}
  BY DEF MainTypes, DispatchTypes, OverlayTypes, D!ThreadTypeOK, O!ThreadTypeOK
<1>2. OnceHeld /\ Apart(oq) /\ Apart(dq)
  BY DEF HeldOnce
<1>3. open \in SUBSET Fences /\ curr_fence \in SUBSET Fences
  BY DEF MainTypes
<1>4. Lost' \subseteq Lost => Loses
  BY DEF Loses
<1>5. ASSUME UNCHANGED <<dq, oq, ocur, curr_fence, open>>,
             Holds(One(m_curr))' = Holds(One(m_curr)),
             Holds(One(dcur))' = Holds(One(dcur))
      PROVE  HeldOnce' /\ Loses
  <2>1. UNCHANGED <<Holds(dq), Holds(oq), Holds(One(ocur)), Apart(dq), Apart(oq)>>
    BY <1>5
  <2>2. OnceHeld' /\ Lost' = Lost
    BY <1>2, <1>5, <2>1 DEF OnceHeld, Lost, InSomeHand
  <2> QED BY <1>2, <1>4, <2>1, <2>2 DEF HeldOnce
<1>6. m_curr' = m_curr => Holds(One(m_curr))' = Holds(One(m_curr))
  OBVIOUS
<1>7. dcur' = dcur => Holds(One(dcur))' = Holds(One(dcur))
  OBVIOUS
<1>8. CASE GetJob \/ GetJobTake
  <2>1. \/ m_curr' = m_curr
        \/ Holds(One(m_curr)) = {} /\ Holds(One(m_curr))' = {}
    <3>1. m_curr \in IdleJob \cup {NoJob}
      BY <1>8 DEF GetJob, GetJobTake, CurrKept
    <3>2. Holds(One(m_curr)) = {}
      BY <3>1, HoldsOne DEF IdleJob
    <3>3. CASE GetJob
      BY <3>2, <3>3, HoldsOne DEF GetJob, NoNewJob
    <3>4. CASE GetJobTake
      <4>1. m_curr' \in IdleJob \cup {NoJob}
        BY <3>4 DEF GetJobTake, CurrKept
      <4> QED BY <3>2, <4>1, HoldsOne DEF IdleJob
    <3> QED BY <1>8, <3>3, <3>4
  <2> QED BY <1>5, <1>6, <1>7, <1>8, <2>1 DEF GetJob, GetJobTake
<1>9. CASE SetJob
  <2>1. UNCHANGED <<dq, dcur, oq, ocur>>
    BY <1>9 DEF SetJob
  <2>2. ASSUME m_curr # NoJob, NEW come \in JobFences,
               Complete(m_curr, come[1], come[2], come[3])
        PROVE  HeldOnce' /\ Loses
    <3>1. m_curr \in NumberedJob /\ m_curr \in IdleJob
      BY <1>1, <1>9, <2>2 DEF SetJob, CurrKept
    <3>2. PICK own \in SUBSET Fences :
             /\ m_curr'.fences = own \cup curr_fence
             /\ open' = open \cup own \cup curr_fence'
             /\ \A f \in own : Kind(f) # "P" /\ Number(f) = m_curr.seq
             /\ \A f \in curr_fence' : f = Descriptor("P", m_curr.seq)
      BY <2>2, <3>1, CompleteFences
    <3>3. \A f \in open : Number(f) < m_curr.seq
      BY <1>9, <2>2 DEF SetJob, Fresh
    <3>4. /\ \A f \in own \cup curr_fence' : Number(f) = m_curr.seq
          /\ \A f \in curr_fence' : Kind(f) = "P"
      BY <3>2, FenceParts
    <3>5. /\ own \cap open = {} /\ curr_fence' \cap open = {}
          /\ own \cap curr_fence' = {}
      <4>1. m_curr.seq \in Nat
        BY <3>1 DEF NumberedJob
      <4> QED BY <3>2, <3>3, <3>4, <4>1
    <3>6. Holds(One(m_curr)) = {}
      BY <3>1, HoldsOne DEF IdleJob
    <3>7. Holds(One(m_curr))' = own \cup curr_fence
      <4>1. m_curr' # NoJob
        BY <2>2, CompleteTypes, NoJobIsNone
      <4> QED BY <3>2, <4>1, HoldsOne
    <3>8. UNCHANGED <<Holds(dq), Holds(One(dcur)), Holds(oq), Holds(One(ocur)),
                      Apart(dq), Apart(oq)>>
      BY <2>1
    <3>9. OnceHeld'
      BY <1>2, <3>2, <3>5, <3>6, <3>7, <3>8 DEF OnceHeld, Once
    <3>10. Lost' \subseteq Lost
      BY <3>2, <3>6, <3>7, <3>8 DEF Lost, InSomeHand
    <3> QED BY <1>2, <1>4, <3>8, <3>9, <3>10 DEF HeldOnce
  <2>3. ASSUME m_curr' \in {m_curr, [m_curr EXCEPT !.enable = FALSE]},
               m_curr' # m_curr => m_curr # NoJob, UNCHANGED <<curr_fence, open>>
        PROVE  HeldOnce' /\ Loses
    <3>1. m_curr # NoJob =>
            /\ [m_curr EXCEPT !.enable = FALSE].fences = m_curr.fences
            /\ [m_curr EXCEPT !.enable = FALSE] # NoJob
      BY <1>1, JobKinds, NoJobIsNone DEF NumberedJob
    <3>2. Holds(One(m_curr))' = Holds(One(m_curr))
      BY <2>3, <3>1, HoldsOne
    <3> QED BY <1>5, <1>7, <2>1, <2>3, <3>2
  <2> QED BY <1>9, <2>2, <2>3 DEF SetJob
<1>10. ASSUME dq' = Append(dq, m_curr), m_curr # NoJob, m_curr' = NoJob,
              UNCHANGED <<dcur, oq, ocur, curr_fence, open>>
       PROVE  HeldOnce' /\ Loses
  <2>1. /\ Holds(One(m_curr)) = m_curr.fences
        /\ Holds(One(m_curr))' = {}
    BY <1>10, HoldsOne
  <2>2. m_curr.fences \cap Holds(dq) = {}
    BY <1>2, <2>1 DEF OnceHeld, Once
  <2>3. Holds(dq)' = Holds(dq) \cup Holds(One(m_curr)) /\ Apart(dq)'
    BY <1>1, <1>2, <1>10, <2>1, <2>2, HoldsQueue
  <2>4. UNCHANGED <<Holds(One(dcur)), Holds(oq), Holds(One(ocur)), Apart(oq)>>
    BY <1>10
  <2>5. OnceHeld'
    BY <1>2, <1>10, <2>1, <2>3, <2>4 DEF OnceHeld, Once
  <2>6. Lost' \subseteq Lost
    BY <1>10, <2>1, <2>3, <2>4 DEF Lost, InSomeHand
  <2> QED BY <1>2, <1>4, <2>3, <2>4, <2>5, <2>6 DEF HeldOnce
<1>11. CASE Trigger
  <2>1. CASE enable /\ m_curr # NoJob
    BY <1>10, <1>11, <2>1 DEF Trigger, D!Enqueue
  <2>2. CASE ~(enable /\ m_curr # NoJob)
    BY <1>5, <1>6, <1>7, <1>11, <2>2 DEF Trigger
  <2> QED BY <2>1, <2>2
<1>12. CASE PowerOff \/ PowerOn \/ PowerOffDispatched \/ PowerOffDone
  BY <1>5, <1>6, <1>7, <1>12
  DEF PowerOff, PowerOn, PowerOffDispatched, PowerOffDone
<1>13. CASE DispatchIdleStep
  BY <1>5, <1>6, <1>7, <1>13
  DEF DispatchIdleStep, D!ReadyToRun, D!Wake, D!Break, D!GoIdle, D!LoopAgain
<1>14. CASE DispatchTake
  <2>1. /\ dq # <<>> /\ dcur' = Head(dq) /\ dq' = Tail(dq)
        /\ UNCHANGED <<m_curr, oq, ocur, curr_fence, open>>
    BY <1>14 DEF DispatchTake, D!Take
  <2>2. dcur = NoJob /\ dcur' # NoJob
    BY <1>14, <2>1, NoJobs DEF DispatchTake, D!Take, HandsFull
  <2>3. /\ Holds(One(dcur)) = {} /\ Holds(One(dcur))' = Head(dq).fences
    BY <2>1, <2>2, HoldsOne
  <2>4. /\ Holds(dq) = Holds(dq)' \cup Holds(One(dcur))'
        /\ Holds(One(dcur))' \cap Holds(dq)' = {} /\ Apart(dq)'
    BY <1>1, <1>2, <2>1, <2>3, HoldsQueue
  <2>5. UNCHANGED <<Holds(One(m_curr)), Holds(oq), Holds(One(ocur)), Apart(oq)>>
    BY <2>1
  <2>6. OnceHeld'
    BY <1>2, <2>1, <2>3, <2>4, <2>5 DEF OnceHeld, Once
  <2>7. Lost' \subseteq Lost
    BY <2>1, <2>3, <2>4, <2>5 DEF Lost, InSomeHand
  <2> QED BY <1>2, <1>4, <2>4, <2>5, <2>6, <2>7 DEF HeldOnce
<1>15. CASE DispatchDrop \/ DispatchHandle \/ DispatchPost
  <2>1. dcur \in NumberedJob /\ dcur # NoJob
    BY <1>1, <1>15 DEF DispatchDrop, DispatchHandle, DispatchPost, HandsFull
  <2>2. /\ dcur.fences \in SUBSET Fences
        /\ ~dcur.enable => dcur.fences = {}
        /\ dstep = "post" => dcur.fences = {}
    BY <2>1 DEF NumberedJob, BareJobs, BareJob
  <2>3. Holds(One(dcur)) = dcur.fences
    BY <2>1, HoldsOne
  <2>4. UNCHANGED <<m_curr, dq, oq, ocur, curr_fence>>
    BY <1>15
    DEF DispatchDrop, DispatchHandle, DispatchPost, ClearUsedJob, D!Finish
  <2>5. ASSUME dcur' = NoJob, NEW closes \in SUBSET dcur.fences,
               open' = open \ closes
        PROVE  HeldOnce' /\ Lost' \subseteq Lost \cup (dcur.fences \ closes)
    <3>1. Holds(One(dcur))' = {}
      BY <2>5, HoldsOne
    <3>2. UNCHANGED <<Holds(One(m_curr)), Holds(dq), Holds(oq), Holds(One(ocur)),
                      Apart(dq), Apart(oq)>>
      BY <2>4
    <3>3. OnceHeld'
      BY <1>2, <2>3, <2>4, <2>5, <3>1, <3>2 DEF OnceHeld, Once
    <3>4. Lost' \subseteq Lost \cup (dcur.fences \ closes)
      BY <2>3, <2>4, <2>5, <3>1, <3>2 DEF Lost, InSomeHand
    <3> QED BY <1>2, <3>2, <3>3, <3>4 DEF HeldOnce
  <2>6. dcur.fences \ (OfKind({"A"}, dcur.fences) \cup ResetCloses(dcur))
          \subseteq OfKind({"C"}, Fences)
    BY <2>2, FenceParts DEF ResetCloses
  <2>7. dcur.fences = {} => ResetCloses(dcur) = {}
    BY DEF ResetCloses, OfKind
  <2>8. CASE DispatchDrop
    <3> DEFINE closes == (IF dcur.enable THEN OfKind({"A"}, dcur.fences) ELSE {})
                            \cup ResetCloses(dcur)
    <3>1. dcur' = NoJob /\ open' = open \ closes
      BY <2>8 DEF DispatchDrop, D!Finish
    <3>2. closes \in SUBSET dcur.fences
      BY DEF OfKind, ResetCloses
    <3>3. dcur.fences \ closes \subseteq OfKind({"C"}, Fences)
      BY <2>2, <2>6
    <3> HIDE DEF closes
    <3>4. HeldOnce' /\ Lost' \subseteq Lost \cup (dcur.fences \ closes)
      BY <2>5, <3>1, <3>2
    <3> QED BY <2>8, <3>3, <3>4 DEF Loses
  <2>9. CASE DispatchHandle
    <3>1. CASE dcur.enable
      BY <1>5, <1>6, <1>7, <2>4, <2>9, <3>1 DEF DispatchHandle
    <3>2. CASE ~dcur.enable
      <4>1. dcur' = NoJob /\ open' = open \ ResetCloses(dcur)
        BY <2>9, <3>2 DEF DispatchHandle, ClearUsedJob, D!Finish
      <4>2. HeldOnce' /\ Lost' \subseteq Lost \cup (dcur.fences \ {})
        BY <2>2, <2>5, <2>7, <3>2, <4>1
      <4> QED BY <1>4, <2>2, <3>2, <4>2
    <3> QED BY <3>1, <3>2
  <2>10. CASE DispatchPost
    <3>1. dcur' = NoJob /\ open' = open \ ResetCloses(dcur) /\ dstep = "post"
      BY <2>10 DEF DispatchPost, ClearUsedJob, D!Finish
    <3>2. HeldOnce' /\ Lost' \subseteq Lost \cup (dcur.fences \ {})
      BY <2>2, <2>5, <2>7, <3>1
    <3> QED BY <1>4, <2>2, <3>1, <3>2
  <2> QED BY <1>15, <2>8, <2>9, <2>10
<1>16. CASE DispatchFrame
  <2> DEFINE frame == [seq |-> dcur.seq, fences |-> dcur.fences]
  <2>1. dcur \in NumberedJob /\ dcur # NoJob
    BY <1>1, <1>16 DEF DispatchFrame, HandsFull
  <2>2. frame \in Frame /\ frame.fences = dcur.fences
    BY <2>1, JobKinds
  <2>3. /\ oq' = Append(oq, frame) /\ dcur' = [dcur EXCEPT !.fences = {}]
        /\ UNCHANGED <<m_curr, dq, ocur, curr_fence, open>>
    BY <1>16 DEF DispatchFrame, O!Enqueue
  <2> HIDE DEF frame
  <2>4. Holds(One(dcur)) = dcur.fences /\ Holds(One(dcur))' = {}
    <3>1. dcur' # NoJob /\ dcur'.fences = {}
      BY <2>1, <2>3, JobKinds, NoJobIsNone DEF NumberedJob
    <3> QED BY <2>1, <3>1, HoldsOne
  <2>5. frame.fences \cap Holds(oq) = {}
    BY <1>2, <2>2, <2>4 DEF OnceHeld, Once
  <2>6. Holds(oq)' = Holds(oq) \cup Holds(One(dcur)) /\ Apart(oq)'
    BY <1>1, <1>2, <2>2, <2>3, <2>4, <2>5, HoldsQueue
  <2>7. UNCHANGED <<Holds(One(m_curr)), Holds(dq), Holds(One(ocur)), Apart(dq)>>
    BY <2>3
  <2>8. OnceHeld'
    BY <1>2, <2>3, <2>4, <2>6, <2>7 DEF OnceHeld, Once
  <2>9. Lost' \subseteq Lost
    BY <2>3, <2>4, <2>6, <2>7 DEF Lost, InSomeHand
  <2> QED BY <1>2, <1>4, <2>6, <2>7, <2>8, <2>9 DEF HeldOnce
<1>17. CASE OverlayIdleStep
  <2>1. UNCHANGED <<m_curr, dq, dcur, curr_fence, open>>
    BY <1>17 DEF OverlayIdleStep
  <2>2. CASE O!Take
    <3>1. /\ oq # <<>> /\ ocur' = Head(oq) /\ oq' = Tail(oq)
          /\ ocur = NoJob /\ ocur' # NoJob
      BY <2>2, NoJobs DEF O!Take, HandsFull
    <3>2. Holds(One(ocur)) = {} /\ Holds(One(ocur))' = Head(oq).fences
      BY <3>1, HoldsOne
    <3>3. /\ Holds(oq) = Holds(oq)' \cup Holds(One(ocur))'
          /\ Holds(One(ocur))' \cap Holds(oq)' = {} /\ Apart(oq)'
      BY <1>1, <1>2, <3>1, <3>2, HoldsQueue
    <3>4. UNCHANGED <<Holds(One(m_curr)), Holds(dq), Holds(One(dcur)), Apart(dq)>>
      BY <2>1
    <3>5. OnceHeld'
      BY <1>2, <2>1, <3>2, <3>3, <3>4 DEF OnceHeld, Once
    <3>6. Lost' \subseteq Lost
      BY <2>1, <3>2, <3>3, <3>4 DEF Lost, InSomeHand
    <3> QED BY <1>2, <1>4, <3>3, <3>4, <3>5, <3>6 DEF HeldOnce
  <2>3. CASE ~O!Take
    BY <1>5, <1>6, <1>7, <1>17, <2>1, <2>3
    DEF OverlayIdleStep, OverlayStopped, O!ReadyToRun, O!Wake, O!GoIdle,
        O!LoopAgain, O!Break
  <2> QED BY <2>2, <2>3
<1>18. CASE OverlayCommit
  <2>1. /\ ocur \in Frame /\ ocur # NoJob /\ ocur' = NoJob
        /\ open' = open \ FrameCloses(ocur)
        /\ UNCHANGED <<m_curr, dq, dcur, oq, curr_fence>>
    BY <1>1, <1>18 DEF OverlayCommit, O!Finish, HandsFull
  <2>2. Holds(One(ocur)) = ocur.fences /\ Holds(One(ocur))' = {}
    BY <2>1, HoldsOne
  <2>3. /\ FrameCloses(ocur) \subseteq ocur.fences
        /\ ocur.fences \subseteq FrameCloses(ocur) \cup OfKind({"Q"}, Fences)
        /\ ~FenceWait => FrameCloses(ocur) = ocur.fences
    <3>1. ocur.fences \in SUBSET Fences
      BY <2>1 DEF Frame
    <3> QED BY <3>1, FenceParts DEF FrameCloses
  <2>4. UNCHANGED <<Holds(One(m_curr)), Holds(dq), Holds(One(dcur)), Holds(oq),
                    Apart(dq), Apart(oq)>>
    BY <2>1
  <2>5. OnceHeld'
    BY <1>2, <2>1, <2>2, <2>3, <2>4 DEF OnceHeld, Once
  <2>6. Lost' \subseteq Lost \cup (ocur.fences \ FrameCloses(ocur))
    BY <2>1, <2>2, <2>4 DEF Lost, InSomeHand
  <2>7. Loses
    BY <2>3, <2>6 DEF Loses
  <2> QED BY <1>2, <2>4, <2>5, <2>7 DEF HeldOnce
<1>19. CASE PlugOut
  BY <1>5, <1>6, <1>7, <1>19 DEF PlugOut
<1>20. CASE PlugIn
  <2>1. /\ dq = <<>> /\ oq = <<>> /\ dcur = NoJob /\ ocur = NoJob
    BY <1>20 DEF PlugIn, TornDown, HandsFull
  <2>2. /\ dq' = <<>> /\ oq' = <<>> /\ dcur' = NoJob /\ ocur' = NoJob
        /\ curr_fence' = {} /\ m_curr' = m_curr /\ open' = open
    BY <1>20 DEF PlugIn
  <2>3. /\ UNCHANGED <<Holds(One(m_curr)), Holds(dq), Holds(One(dcur)), Holds(oq),
                       Holds(One(ocur)), Apart(dq), Apart(oq)>>
    BY <2>1, <2>2
  <2>4. curr_fence = {}
    BY <1>20 DEF PlugIn, LastJob
  <2>5. OnceHeld' /\ Lost' = Lost
    BY <1>2, <2>2, <2>3, <2>4 DEF OnceHeld, Once, Lost, InSomeHand
  <2> QED BY <1>2, <1>4, <2>3, <2>5 DEF HeldOnce
<1>21. CASE ReleaseHandOver
  <2>1. /\ dq' = dq \o One(m_curr) /\ m_curr' = NoJob
        /\ UNCHANGED <<dcur, oq, ocur, curr_fence, open>>
    BY <1>21 DEF ReleaseHandOver
  <2>2. CASE m_curr = NoJob
    <3>1. dq' = dq
      BY <1>1, <2>1, <2>2, HandedOver
    <3> QED BY <1>5, <1>6, <1>7, <2>1, <2>2, <3>1
  <2>3. CASE m_curr # NoJob
    <3>1. dq' = Append(dq, m_curr)
      BY <1>1, <2>1, <2>3, HandedOver
    <3> QED BY <1>10, <2>1, <2>3, <3>1
  <2> QED BY <2>2, <2>3
<1>22. CASE ReleaseJoined
  <2>1. /\ dq' = <<>> /\ curr_fence' = {}
        /\ UNCHANGED <<m_curr, dcur, oq, ocur, open>>
    BY <1>22 DEF ReleaseJoined
  <2>2. Holds(dq)' = {} /\ Apart(dq)'
    BY <2>1, HoldsNothing
  <2>3. UNCHANGED <<Holds(One(m_curr)), Holds(One(dcur)), Holds(oq),
                    Holds(One(ocur)), Apart(oq)>>
    BY <2>1
  <2>4. OnceHeld'
    BY <1>2, <2>1, <2>2, <2>3 DEF OnceHeld, Once
  <2>5. Lost' \subseteq Lost \cup Holds(dq) \cup curr_fence
    BY <2>1, <2>2, <2>3 DEF Lost, InSomeHand
  <2> QED BY <1>2, <1>22, <2>2, <2>3, <2>4, <2>5 DEF HeldOnce, Loses
<1>23. CASE ReleaseOverlay
  <2> DEFINE closed == UNION {OfKind({"A", "C", "P"}, oq[i].fences) : i \in DOMAIN oq}
  <2>1. /\ oq' = <<>> /\ open' = open \ closed
        /\ UNCHANGED <<m_curr, dq, dcur, ocur, curr_fence>>
    BY <1>23 DEF ReleaseOverlay
  <2>2. /\ closed \subseteq Holds(oq)
        /\ Holds(oq) \subseteq closed \cup OfKind({"Q"}, Fences)
    <3>1. \A i \in DOMAIN oq : oq[i].fences \in SUBSET Fences
      <4>1. \A i \in DOMAIN oq : oq[i] \in Frame
        BY <1>1, ElementOfSeq, LenProperties
      <4> QED BY <4>1 DEF Frame
    <3>2. \A f : f \in closed <=>
             \E i \in DOMAIN oq : f \in OfKind({"A", "C", "P"}, oq[i].fences)
      OBVIOUS
    <3> HIDE DEF closed
    <3>3. \A i \in DOMAIN oq :
             /\ OfKind({"A", "C", "P"}, oq[i].fences) \subseteq oq[i].fences
             /\ oq[i].fences \subseteq OfKind({"A", "C", "P"}, oq[i].fences)
                                         \cup OfKind({"Q"}, Fences)
      BY <3>1, FenceParts
    <3> QED BY <3>2, <3>3, HoldsEach
  <2> HIDE DEF closed
  <2>3. Holds(oq)' = {} /\ Apart(oq)'
    BY <2>1, HoldsNothing
  <2>4. UNCHANGED <<Holds(One(m_curr)), Holds(dq), Holds(One(dcur)),
                    Holds(One(ocur)), Apart(dq)>>
    BY <2>1
  <2>5. OnceHeld'
    BY <1>2, <2>1, <2>2, <2>3, <2>4 DEF OnceHeld, Once
  <2>6. Lost' \subseteq Lost \cup OfKind({"Q"}, Fences)
    BY <2>1, <2>2, <2>3, <2>4 DEF Lost, InSomeHand
  <2> QED BY <1>2, <1>23, <2>3, <2>4, <2>5, <2>6 DEF HeldOnce, Loses
<1>24. CASE \/ ReleaseBegin \/ ReleaseWaited \/ ReleaseRequest \/ ReleaseWake
            \/ ReleaseDone \/ PlugInDone
  BY <1>5, <1>6, <1>7, <1>24
  DEF ReleaseBegin, ReleaseWaited, ReleaseRequest, ReleaseWake, ReleaseDone,
      PlugInDone
<1> QED
  BY <1>8, <1>9, <1>11, <1>12, <1>13, <1>14, <1>15, <1>16, <1>17, <1>18,
     <1>19, <1>20, <1>21, <1>22, <1>23, <1>24
  DEF Next, MainReturn, DispatchStep, OverlayStep, HotplugReturn

-----------------------------------------------------------------------------
(* How much is lost.                                                       *)

\* The numbers of the acquire and present fences in a set, and of those that
\* nobody has to close any more.
NumbersIn(F) == {Number(f) : f \in OfKind({"A", "P"}, F)}

\* Before the first plug-out nothing is dropped.
Undropped ==
    /\ hpc = "in" => plugs # 0
    /\ plugs = 0 /\ hpc = "up" => ~ignore_job /\ dstep # "drop"

LostLittle ==
    /\ plugs = 0 /\ hpc = "up" => /\ Lost \subseteq OfKind({"Q"}, Fences)
                                  /\ ~FenceWait => Lost = {}
    /\ Releases = 0 /\ ~FenceWait => Lost \subseteq OfKind({"C"}, Fences)
    /\ Cardinality(NumbersIn(Lost)) <= 2 * Releases

\* What is a number of a set of fences.
LEMMA NumbersInEach ==
  \A F, n : n \in NumbersIn(F) <=>
              \E f \in F : Kind(f) \in {"A", "P"} /\ n = Number(f)
<1> SUFFICES ASSUME NEW F
             PROVE  \A n : n \in NumbersIn(F) <=>
                       \E f \in F : Kind(f) \in {"A", "P"} /\ n = Number(f)
  OBVIOUS
<1>1. OfKind({"A", "P"}, F) = {f \in F : Kind(f) \in {"A", "P"}}
  BY FenceParts
<1> QED BY <1>1 DEF NumbersIn

\* There are finitely many numbers.
LEMMA NumbersInFinite ==
  ASSUME NEW F \in SUBSET Fences
  PROVE  IsFiniteSet(NumbersIn(F)) /\ Cardinality(NumbersIn(F)) \in Nat
<1>1. NumbersIn(F) \subseteq 1 .. MaxSeq
  BY FenceParts, NumbersInEach
<1>2. IsFiniteSet(1 .. MaxSeq)
  BY PipelineAssumption, FS_Interval
<1>3. IsFiniteSet(NumbersIn(F))
  BY <1>1, <1>2, FS_Subset
<1> QED BY <1>3, FS_CardinalityType

\* Two numbers more make the set larger by two at most.
LEMMA TwoMore ==
  ASSUME NEW S, IsFiniteSet(S), NEW T, NEW a, NEW b, T \subseteq S \cup {a, b}
  PROVE  IsFiniteSet(T) /\ Cardinality(T) <= Cardinality(S) + 2
<1>1. /\ IsFiniteSet(S \cup {a})
      /\ Cardinality(S \cup {a}) \in {Cardinality(S), Cardinality(S) + 1}
  BY FS_AddElement
<1>2. /\ IsFiniteSet((S \cup {a}) \cup {b})
      /\ Cardinality((S \cup {a}) \cup {b})
           \in {Cardinality(S \cup {a}), Cardinality(S \cup {a}) + 1}
  BY <1>1, FS_AddElement
<1>3. T \subseteq (S \cup {a}) \cup {b}
  OBVIOUS
<1>4. IsFiniteSet(T) /\ Cardinality(T) <= Cardinality((S \cup {a}) \cup {b})
  BY <1>2, <1>3, FS_Subset
<1>5. Cardinality(S) \in Nat /\ Cardinality(T) \in Nat
  BY <1>4, FS_CardinalityType
<1> QED BY <1>1, <1>2, <1>4, <1>5

\* The joining of the dispatch thread is what makes one release more.
LEMMA ReleasesCount ==
  ASSUME MainTypes, Next
  PROVE  /\ Releases \in Nat
         /\ Releases' = IF ReleaseJoined THEN Releases + 1 ELSE Releases
<1>1. plugs \in Nat
  BY PipelineAssumption DEF MainTypes
<1>2. Releases \in Nat
  BY <1>1 DEF Releases
<1>3. ReleaseJoined => Releases' = Releases + 1
  BY <1>1 DEF ReleaseJoined, Releases
<1>4. CASE \/ GetJob \/ SetJob \/ Trigger \/ PowerOff \/ PowerOn \/ MainReturn
           \/ DispatchStep \/ OverlayStep
  <2>1. UNCHANGED <<hpc, plugs>>
    BY <1>4
    DEF GetJob, SetJob, Trigger, PowerOff, PowerOn, MainReturn, GetJobTake,
        PowerOffDispatched, PowerOffDone, DispatchStep, DispatchIdleStep,
        DispatchTake, DispatchDrop, DispatchHandle, DispatchFrame,
        DispatchPost, OverlayStep, OverlayIdleStep, OverlayCommit
  <2>2. ~ReleaseJoined
    BY <2>1 DEF ReleaseJoined
  <2> QED BY <1>2, <2>1, <2>2 DEF Releases
<1>5. CASE \/ PlugOut \/ PlugIn \/ HotplugReturn
  <2>1. ~ReleaseJoined => Releases' = Releases
    BY <1>1, <1>5
    DEF PlugOut, PlugIn, HotplugReturn, ReleaseBegin, ReleaseWaited,
        ReleaseRequest, ReleaseHandOver, ReleaseWake, ReleaseOverlay,
        ReleaseDone, PlugInDone, Releases
  <2> QED BY <1>2, <1>3, <2>1
<1> QED BY <1>4, <1>5 DEF Next

\* What the join forgets has two numbers: that of the last job and that of the
\* present fence it carries or, if it carries none, is kept.
LEMMA ForgottenNumbers ==
  ASSUME MainTypes, DispatchTypes, BareJobs, LastJob, ReleaseJoined
  PROVE  \E a, b : \A f \in Holds(dq) \cup curr_fence :
                      Kind(f) \in {"A", "P"} => Number(f) \in {a, b}
<1>1. /\ \A f, g \in curr_fence : Kind(f) = "P" /\ f = g
      /\ Len(dq) <= 1 /\ (dq # <<>> => Carries(Head(dq)))
      /\ dq \in Seq(BareJob)
  BY DEF ReleaseJoined, LastJob, BareJobs
<1>2. ASSUME NEW F, \A f, g \in F : Kind(f) = "P" /\ Kind(g) = "P" => f = g
      PROVE  \E p : \A f \in F : Kind(f) = "P" => Number(f) = p
  <2>1. CASE \E f \in F : Kind(f) = "P"
    <3>1. PICK g \in F : Kind(g) = "P"
      BY <2>1
    <3> WITNESS Number(g)
    <3> QED BY <1>2, <3>1
  <2>2. CASE ~\E f \in F : Kind(f) = "P"
    BY <2>2
  <2> QED BY <2>1, <2>2
<1>3. PICK k : \A f \in curr_fence : Number(f) = k
  <2>1. \E p : \A f \in curr_fence : Kind(f) = "P" => Number(f) = p
    BY <1>1, <1>2
  <2> QED BY <1>1, <2>1
<1>4. CASE dq = <<>>
  <2>1. Holds(dq) = {}
    BY <1>4, HoldsNothing
  <2> WITNESS k, k
  <2> QED BY <1>3, <2>1
<1>5. CASE dq # <<>>
  <2> DEFINE job == Head(dq)
  <2>1. Holds(dq) = job.fences /\ job \in BareJob
    <3>1. Len(dq) = 1 /\ DOMAIN dq = {1} /\ job = dq[1] /\ job \in BareJob
      <4>1. Len(dq) \in Nat /\ Len(dq) # 0 /\ DOMAIN dq = 1 .. Len(dq)
        BY <1>1, <1>5, EmptySeq, LenProperties
      <4>2. Len(dq) = 1
        BY <1>1, <4>1
      <4>3. DOMAIN dq = {1}
        BY <4>1, <4>2
      <4> QED BY <1>1, <1>5, <4>2, <4>3, HeadTailProperties
    <3> HIDE DEF job
    <3>2. \A f : f \in Holds(dq) <=> f \in job.fences
      BY <3>1, HoldsEach
    <3> QED BY <3>1, <3>2
  <2>2. /\ \A f, g \in job.fences : Kind(f) = "P" /\ Kind(g) = "P" => f = g
        /\ \A f \in job.fences : Kind(f) # "P" => Number(f) = job.seq
        /\ job.enable => \A f \in curr_fence : Number(f) = job.seq
    BY <1>1, <1>5 DEF Carries
  <2>3. ~job.enable => job.fences = {}
    BY <2>1 DEF BareJob
  <2> HIDE DEF job
  <2>4. PICK p : \A f \in job.fences : Kind(f) = "P" => Number(f) = p
    BY <1>2, <2>2
  <2>5. CASE job.enable
    <3> WITNESS job.seq, p
    <3> QED BY <2>1, <2>2, <2>4, <2>5
  <2>6. CASE ~job.enable
    <3> WITNESS k, k
    <3> QED BY <1>3, <2>1, <2>3, <2>6
  <2> QED BY <2>5, <2>6
<1> QED BY <1>4, <1>5

\* The first plug-out is begun once: what is up and was never plugged in again
\* was up all the time.
LEMMA UndroppedKept ==
  ASSUME MainTypes, Undropped, Next
  PROVE  /\ Undropped'
         /\ plugs' = 0 /\ hpc' = "up" =>
               plugs = 0 /\ hpc = "up" /\ ~DispatchDrop
<1>1. plugs \in Nat
  BY PipelineAssumption DEF MainTypes
<1> USE DEF Undropped
<1>2. ASSUME UNCHANGED <<ignore_job, hpc, plugs>>,
             dstep' # "drop" \/ dstep' = dstep, ~DispatchDrop
      PROVE  /\ Undropped'
             /\ plugs' = 0 /\ hpc' = "up" =>
                   plugs = 0 /\ hpc = "up" /\ ~DispatchDrop
  BY <1>2
<1>3. CASE GetJob \/ SetJob \/ Trigger \/ PowerOff \/ PowerOn \/ MainReturn
           \/ OverlayStep
  <2>1. UNCHANGED <<ignore_job, hpc, plugs, dstep, dcur>>
    BY <1>3
    DEF GetJob, SetJob, Trigger, PowerOff, PowerOn, MainReturn, GetJobTake,
        PowerOffDispatched, PowerOffDone, OverlayStep, OverlayIdleStep,
        OverlayCommit
  <2>2. DispatchDrop => dstep' # dstep
    BY DEF DispatchDrop
  <2> QED BY <1>2, <2>1, <2>2
<1>4. CASE DispatchDrop
  <2>1. UNCHANGED <<ignore_job, hpc, plugs>> /\ dstep = "drop" /\ dstep' = "none"
    BY <1>4 DEF DispatchDrop
  <2> QED BY <2>1
<1>5. CASE DispatchTake
  <2>1. /\ UNCHANGED <<ignore_job, hpc, plugs>>
        /\ dstep' = IF ignore_job THEN "drop" ELSE "handle"
        /\ dpc = "loop"
    BY <1>5 DEF DispatchTake, D!Take
  <2>2. ~DispatchDrop
    BY <2>1 DEF DispatchDrop
  <2> QED BY <2>1, <2>2
<1>6. CASE DispatchIdleStep \/ DispatchHandle \/ DispatchFrame \/ DispatchPost
  <2>1. UNCHANGED <<ignore_job, hpc, plugs>> /\ dstep' \in {dstep, "frame", "none", "post"}
    BY <1>6 DEF DispatchIdleStep, DispatchHandle, DispatchFrame, DispatchPost,
                ClearUsedJob
  <2>2. dstep' # "drop" \/ dstep' = dstep
    BY <2>1
  <2>3. DispatchDrop => dstep = "drop" /\ dpc = "busy" /\ dstep' = "none"
    BY DEF DispatchDrop
  <2>4. DispatchIdleStep => dstep' = dstep
    BY DEF DispatchIdleStep
  <2>5. DispatchHandle \/ DispatchFrame \/ DispatchPost => dstep # "drop"
    BY DEF DispatchHandle, DispatchFrame, DispatchPost
  <2>6. ~DispatchDrop
    BY <1>6, <2>3, <2>4, <2>5
  <2> QED BY <1>2, <2>1, <2>2, <2>6
<1>7. CASE PlugOut \/ PlugIn \/ HotplugReturn
  <2>1. /\ hpc' # "up" \/ (hpc = "in" /\ plugs' = plugs)
        /\ hpc' = "in" => plugs' # 0
    BY <1>1, <1>7
    DEF PlugOut, PlugIn, HotplugReturn, ReleaseBegin, ReleaseWaited,
        ReleaseRequest, ReleaseHandOver, ReleaseJoined, ReleaseWake,
        ReleaseOverlay, ReleaseDone, PlugInDone
  <2> QED BY <2>1
<1> QED BY <1>3, <1>4, <1>5, <1>6, <1>7 DEF Next, DispatchStep

\* Nothing is lost before the first plug-out, but the fences of client targets
\* before the first release, and two numbers of others with each release.
LEMMA LostLittleKept ==
  ASSUME MainTypes, DispatchTypes, BareJobs, LastJob, LostLittle, Undropped,
         MainTypes', Loses, Next
  PROVE  LostLittle'
<1>1. /\ IsFiniteSet(NumbersIn(Lost)) /\ Cardinality(NumbersIn(Lost)) \in Nat
      /\ IsFiniteSet(NumbersIn(Lost'))
      /\ Cardinality(NumbersIn(Lost')) \in Nat
  <2>1. Lost \in SUBSET Fences /\ Lost' \in SUBSET Fences
    BY DEF Lost, MainTypes
  <2> QED BY <2>1, NumbersInFinite
<1>2. /\ Releases \in Nat
      /\ Releases' = IF ReleaseJoined THEN Releases + 1 ELSE Releases
  BY ReleasesCount
<1>3. plugs' = 0 /\ hpc' = "up" => plugs = 0 /\ hpc = "up" /\ ~DispatchDrop
  BY UndroppedKept
<1>4. Releases' = 0 => Releases = 0
  BY <1>2
<1>5. ASSUME NEW kinds, Lost' \subseteq Lost \cup OfKind(kinds, Fences),
             kinds \cap {"A", "P"} = {}
      PROVE  Cardinality(NumbersIn(Lost')) <= 2 * Releases'
  <2>1. \A f \in OfKind(kinds, Fences) : Kind(f) \notin {"A", "P"}
    BY <1>5, FenceParts
  <2>2. NumbersIn(Lost') \subseteq NumbersIn(Lost)
    BY <1>5, <2>1, NumbersInEach
  <2>3. Cardinality(NumbersIn(Lost')) <= Cardinality(NumbersIn(Lost))
    BY <1>1, <2>2, FS_Subset
  <2> QED BY <1>1, <1>2, <2>3 DEF LostLittle
<1>6. CASE Lost' \subseteq Lost
  <2>1. Lost' \subseteq Lost \cup OfKind({}, Fences)
    BY <1>6
  <2>2. Cardinality(NumbersIn(Lost')) <= 2 * Releases'
    BY <1>5, <2>1
  <2>3. plugs' = 0 /\ hpc' = "up" => /\ Lost' \subseteq OfKind({"Q"}, Fences)
                                     /\ ~FenceWait => Lost' = {}
    BY <1>3, <1>6 DEF LostLittle
  <2>4. Releases' = 0 /\ ~FenceWait => Lost' \subseteq OfKind({"C"}, Fences)
    BY <1>4, <1>6 DEF LostLittle
  <2> QED BY <2>2, <2>3, <2>4 DEF LostLittle
<1>7. CASE DispatchDrop /\ Lost' \subseteq Lost \cup OfKind({"C"}, Fences)
  <2>1. Cardinality(NumbersIn(Lost')) <= 2 * Releases'
    BY <1>5, <1>7
  <2> QED BY <1>3, <1>4, <1>7, <2>1 DEF LostLittle
<1>8. CASE /\ FenceWait \/ ReleaseOverlay
           /\ Lost' \subseteq Lost \cup OfKind({"Q"}, Fences)
  <2>1. Cardinality(NumbersIn(Lost')) <= 2 * Releases'
    BY <1>5, <1>8
  <2>2. ReleaseOverlay => Releases # 0 /\ hpc' # "up"
    <3>1. plugs \in Nat
      BY PipelineAssumption DEF MainTypes
    <3> QED BY <3>1 DEF ReleaseOverlay, Releases
  <2>3. Releases' = 0 => ~ReleaseOverlay
    BY <1>4, <2>2
  <2> QED BY <1>3, <1>8, <2>1, <2>2, <2>3 DEF LostLittle
<1>9. CASE ReleaseJoined /\ Lost' \subseteq Lost \cup Holds(dq) \cup curr_fence
  <2>1. PICK a, b : \A f \in Holds(dq) \cup curr_fence :
                       Kind(f) \in {"A", "P"} => Number(f) \in {a, b}
    BY <1>9, ForgottenNumbers
  <2>2. NumbersIn(Lost') \subseteq NumbersIn(Lost) \cup {a, b}
    BY <1>9, <2>1, NumbersInEach
  <2>3. Cardinality(NumbersIn(Lost')) <= Cardinality(NumbersIn(Lost)) + 2
    BY <1>1, <2>2, TwoMore
  <2>4. Releases' # 0 /\ hpc' # "up"
    BY <1>2, <1>9 DEF ReleaseJoined
  <2> QED BY <1>1, <1>2, <1>9, <2>3, <2>4 DEF LostLittle
<1> QED BY <1>6, <1>7, <1>8, <1>9 DEF Loses

-----------------------------------------------------------------------------
(* The sequence of all holders.                                            *)

\* What is in the sets of a sequence; no two of them share anything.
All(s) == UNION {s[i] : i \in DOMAIN s}
Disjoint(s) == \A i, j \in DOMAIN s : i # j => s[i] \cap s[j] = {}

\* Two sequences of disjoint sets that share nothing are one together.
LEMMA JoinDisjoint ==
  ASSUME NEW S, NEW s \in Seq(S), NEW t \in Seq(S), Disjoint(s), Disjoint(t),
         All(s) \cap All(t) = {}
  PROVE  /\ s \o t \in Seq(S)
         /\ Disjoint(s \o t)
         /\ All(s \o t) = All(s) \cup All(t)
<1>1. /\ s \o t \in Seq(S) /\ Len(s \o t) = Len(s) + Len(t)
      /\ \A i \in 1 .. Len(s) + Len(t) :
            (s \o t)[i] = IF i <= Len(s) THEN s[i] ELSE t[i - Len(s)]
  BY ConcatProperties
<1>2. /\ DOMAIN s = 1 .. Len(s) /\ Len(s) \in Nat
      /\ DOMAIN t = 1 .. Len(t) /\ Len(t) \in Nat
      /\ DOMAIN (s \o t) = 1 .. Len(s) + Len(t)
  BY <1>1, LenProperties
<1>3. \A i \in DOMAIN s : i \in DOMAIN (s \o t) /\ (s \o t)[i] = s[i]
  BY <1>1, <1>2
<1>4. \A i \in DOMAIN t :
         i + Len(s) \in DOMAIN (s \o t) /\ (s \o t)[i + Len(s)] = t[i]
  BY <1>1, <1>2
<1>5. \A i \in DOMAIN (s \o t) :
         \/ i \in DOMAIN s
         \/ i - Len(s) \in DOMAIN t /\ i = (i - Len(s)) + Len(s)
  BY <1>2
<1>6. \A r, x : x \in All(r) <=> \E i \in DOMAIN r : x \in r[i]
  BY DEF All
<1>7. All(s \o t) = All(s) \cup All(t)
  <2>1. \A x \in All(s \o t) : x \in All(s) \cup All(t)
    <3> SUFFICES ASSUME NEW x \in All(s \o t) PROVE x \in All(s) \cup All(t)
      OBVIOUS
    <3>1. PICK i \in DOMAIN (s \o t) : x \in (s \o t)[i]
      BY <1>6
    <3> QED BY <1>3, <1>4, <1>5, <1>6, <3>1
  <2>2. \A x \in All(s) : x \in All(s \o t)
    BY <1>3, <1>6
  <2>3. \A x \in All(t) : x \in All(s \o t)
    BY <1>4, <1>6
  <2> QED BY <2>1, <2>2, <2>3
<1>8. Disjoint(s \o t)
  <2> SUFFICES ASSUME NEW i \in DOMAIN (s \o t), NEW j \in DOMAIN (s \o t),
                      i # j, NEW x, x \in (s \o t)[i], x \in (s \o t)[j]
               PROVE  FALSE
    BY DEF Disjoint
  <2>1. CASE i \in DOMAIN s /\ j \in DOMAIN s
    BY <1>3, <2>1 DEF Disjoint
  <2>2. CASE i \in DOMAIN s /\ j \notin DOMAIN s
    <3>1. x \in s[i] /\ j - Len(s) \in DOMAIN t /\ x \in t[j - Len(s)]
      BY <1>3, <1>4, <1>5, <2>2
    <3>2. x \in All(s) /\ x \in All(t)
      BY <2>2, <3>1 DEF All
    <3> QED BY <3>2
  <2>3. CASE i \notin DOMAIN s /\ j \in DOMAIN s
    <3>1. x \in s[j] /\ i - Len(s) \in DOMAIN t /\ x \in t[i - Len(s)]
      BY <1>3, <1>4, <1>5, <2>3
    <3>2. x \in All(s) /\ x \in All(t)
      BY <2>3, <3>1 DEF All
    <3> QED BY <3>2
  <2>4. CASE i \notin DOMAIN s /\ j \notin DOMAIN s
    <3>1. /\ i - Len(s) \in DOMAIN t /\ x \in t[i - Len(s)]
          /\ j - Len(s) \in DOMAIN t /\ x \in t[j - Len(s)]
      BY <1>4, <1>5, <2>4
    <3>2. i - Len(s) # j - Len(s)
      BY <1>2
    <3> QED BY <3>1, <3>2 DEF Disjoint
  <2> QED BY <2>1, <2>2, <2>3, <2>4
<1> QED BY <1>1, <1>7, <1>8

\* The fences in a queue, place by place.
LEMMA FencesOfQueue ==
  ASSUME NEW S, NEW F, \A x \in S : x.fences \in SUBSET F, NEW q \in Seq(S)
  PROVE  /\ FencesOf(q) \in Seq(SUBSET F)
         /\ All(FencesOf(q)) = Holds(q)
         /\ Apart(q) => Disjoint(FencesOf(q))
<1>1. /\ DOMAIN q = 1 .. Len(q) /\ Len(q) \in Nat
      /\ \A i \in DOMAIN q : q[i] \in S
  BY LenProperties, ElementOfSeq
<1>2. /\ FencesOf(q) \in [1 .. Len(q) -> SUBSET F]
      /\ \A i \in DOMAIN q : FencesOf(q)[i] = q[i].fences
  BY <1>1 DEF FencesOf
<1>3. FencesOf(q) \in Seq(SUBSET F)
  BY <1>1, <1>2, SeqDef
<1>4. DOMAIN FencesOf(q) = DOMAIN q
  BY <1>1, <1>2
<1>5. All(FencesOf(q)) = Holds(q)
  <2>1. \A f : f \in Holds(q) <=> \E i \in DOMAIN q : f \in q[i].fences
    BY HoldsEach
  <2>2. \A f : f \in All(FencesOf(q))
                 <=> \E i \in DOMAIN q : f \in FencesOf(q)[i]
    BY <1>4 DEF All
  <2>3. \A f : f \in All(FencesOf(q)) <=> f \in Holds(q)
    BY <1>2, <2>1, <2>2
  <2> QED BY <2>3
<1>6. Apart(q) => Disjoint(FencesOf(q))
  BY <1>2, <1>4 DEF Apart, Disjoint
<1> QED BY <1>3, <1>5, <1>6

\* What a reference holds is one set at most.
LEMMA ApartOne == \A x : Apart(One(x))
<1> SUFFICES ASSUME NEW x PROVE Apart(One(x))
  OBVIOUS
<1>1. CASE x = NoJob
  BY <1>1, HoldsNothing DEF One
<1>2. CASE x # NoJob
  <2>1. One(x) = <<x>> /\ DOMAIN <<x>> = {1}
    BY <1>2 DEF One
  <2> QED BY <2>1 DEF Apart
<1> QED BY <1>1, <1>2

\* The six places share no fence, so the sequence of the holders does not.
LEMMA HoldersApart ==
  ASSUME MainTypes, DispatchTypes, OverlayTypes, HeldOnce
  PROVE  Disjoint(Holders) /\ All(Holders) = InSomeHand
<1>1. /\ \A x \in Frame : x.fences \in SUBSET Fences
      /\ \A x \in NumberedJob : x.fences \in SUBSET Fences
  BY DEF Frame, NumberedJob
<1>2. /\ One(ocur) \in Seq(Frame) /\ oq \in Seq(Frame)
      /\ One(dcur) \in Seq(NumberedJob) /\ dq \in Seq(NumberedJob)
      /\ One(m_curr) \in Seq(NumberedJob) /\ curr_fence \in SUBSET Fences
  BY OneProperties
     DEF MainTypes, DispatchTypes, OverlayTypes, D!ThreadTypeOK, O!ThreadTypeOK
<1> DEFINE s1 == FencesOf(One(m_curr))
           s2 == FencesOf(dq)
           s3 == FencesOf(One(dcur))
           s4 == FencesOf(oq)
           s5 == FencesOf(One(ocur))
           s6 == <<curr_fence>>
           l2 == s1 \o s2
           l3 == l2 \o s3
           l4 == l3 \o s4
           l5 == l4 \o s5
           l6 == l5 \o s6
           Sets == SUBSET Fences
<1>3. /\ s1 \in Seq(Sets) /\ Disjoint(s1) /\ All(s1) = Holds(One(m_curr))
      /\ s3 \in Seq(Sets) /\ Disjoint(s3) /\ All(s3) = Holds(One(dcur))
      /\ s5 \in Seq(Sets) /\ Disjoint(s5) /\ All(s5) = Holds(One(ocur))
  BY <1>1, <1>2, FencesOfQueue, ApartOne
<1>4. /\ s2 \in Seq(Sets) /\ Disjoint(s2) /\ All(s2) = Holds(dq)
      /\ s4 \in Seq(Sets) /\ Disjoint(s4) /\ All(s4) = Holds(oq)
  BY <1>1, <1>2, FencesOfQueue DEF HeldOnce
<1>5. s6 \in Seq(Sets) /\ Disjoint(s6) /\ All(s6) = curr_fence
  <2>1. DOMAIN <<curr_fence>> = {1} /\ <<curr_fence>>[1] = curr_fence
    OBVIOUS
  <2> QED BY <1>2, <2>1 DEF Disjoint, All
<1>6. OnceHeld
  BY DEF HeldOnce
<1> HIDE DEF s1, s2, s3, s4, s5, s6, Sets
<1>7. /\ l2 \in Seq(Sets) /\ Disjoint(l2) /\ All(l2) = All(s1) \cup All(s2)
  <2>1. All(s1) \cap All(s2) = {}
    BY <1>3, <1>4, <1>6 DEF OnceHeld, Once
  <2> QED BY <1>3, <1>4, <2>1, JoinDisjoint
<1> HIDE DEF l2
<1>8. /\ l3 \in Seq(Sets) /\ Disjoint(l3) /\ All(l3) = All(l2) \cup All(s3)
  <2>1. All(l2) \cap All(s3) = {}
    BY <1>3, <1>4, <1>6, <1>7 DEF OnceHeld, Once
  <2> QED BY <1>3, <1>7, <2>1, JoinDisjoint
<1> HIDE DEF l3
<1>9. /\ l4 \in Seq(Sets) /\ Disjoint(l4) /\ All(l4) = All(l3) \cup All(s4)
  <2>1. All(l3) \cap All(s4) = {}
    BY <1>3, <1>4, <1>6, <1>7, <1>8 DEF OnceHeld, Once
  <2> QED BY <1>4, <1>8, <2>1, JoinDisjoint
<1> HIDE DEF l4
<1>10. /\ l5 \in Seq(Sets) /\ Disjoint(l5) /\ All(l5) = All(l4) \cup All(s5)
  <2>1. All(l4) \cap All(s5) = {}
    BY <1>3, <1>4, <1>6, <1>7, <1>8, <1>9 DEF OnceHeld, Once
  <2> QED BY <1>3, <1>9, <2>1, JoinDisjoint
<1> HIDE DEF l5
<1>11. Disjoint(l6) /\ All(l6) = All(l5) \cup All(s6)
  <2>1. All(l5) \cap All(s6) = {}
    BY <1>3, <1>4, <1>5, <1>6, <1>7, <1>8, <1>9, <1>10 DEF OnceHeld, Once
  <2> QED BY <1>5, <1>10, <2>1, JoinDisjoint
<1> HIDE DEF l6
<1>12. All(l6) = InSomeHand
  BY <1>3, <1>4, <1>5, <1>7, <1>8, <1>9, <1>10, <1>11 DEF InSomeHand
<1> QED
  BY <1>11, <1>12 DEF Holders, l6, l5, l4, l3, l2, s1, s2, s3, s4, s5, s6

-----------------------------------------------------------------------------
(* The invariant, and what follows from it.                                *)

DataInv ==
    /\ Ordered /\ BareJobs /\ Fresh /\ HeldOnce /\ LastJob
    /\ Undropped /\ LostLittle

\* A display that was just plugged in has no jobs, no frames and no fences.
LEMMA InitDataInv == Init => DataInv
<1> SUFFICES ASSUME Init PROVE DataInv
  OBVIOUS
<1>1. /\ m_curr = NoJob /\ dcur = NoJob /\ ocur = NoJob
      /\ dq = <<>> /\ oq = <<>> /\ curr_fence = {} /\ open = {}
      /\ m_sequence = 0 /\ presented = 0 /\ plugs = 0 /\ hpc = "up"
      /\ dstep = "none" /\ ~ignore_job
  BY DEF Init, D!ThreadInit, O!ThreadInit
<1>2. Numbers(One(NoJob)) = {} /\ Holds(One(NoJob)) = {}
  BY NumbersOfOne, HoldsOne
<1>3. /\ Numbers(<<>>) = {} /\ Increasing(<<>>)
      /\ Holds(<<>>) = {} /\ Apart(<<>>)
  BY EmptyQueue, HoldsNothing
<1>4. Ordered
  BY <1>1, <1>2, <1>3 DEF Ordered, Order, InOrder, InHand, Less
<1>5. BareJobs
  BY <1>1, EmptySeq DEF BareJobs
<1>6. Fresh
  BY <1>1 DEF Fresh
<1>7. HeldOnce
  BY <1>1, <1>2, <1>3 DEF HeldOnce, OnceHeld, Once
<1>8. LastJob
  BY <1>1 DEF LastJob
<1>9. LostLittle
  <2>1. Lost = {}
    BY <1>1 DEF Lost
  <2>2. NumbersIn(Lost) = {}
    BY <2>1, NumbersInEach
  <2>3. Releases = 0
    BY <1>1 DEF Releases
  <2> QED BY <2>1, <2>2, <2>3, FS_EmptySet DEF LostLittle
<1>10. Undropped
  BY <1>1 DEF Undropped
<1> QED BY <1>4, <1>5, <1>6, <1>7, <1>8, <1>9, <1>10 DEF DataInv

\* No step disturbs it.
LEMMA NextDataInv == IInv /\ DataInv /\ [Next]_vars => DataInv'
<1> SUFFICES ASSUME IInv, DataInv, [Next]_vars PROVE DataInv'
  OBVIOUS
<1>1. IInv'
  BY NextIInv
<1>2. CASE Next
  <2>1. /\ MainTypes /\ DispatchTypes /\ OverlayTypes /\ LocksHeld /\ TornDown
        /\ HandsFull /\ CurrKept /\ DispatchIdle
    BY DEF IInv, FlushInv
  <2>2. MainTypes' /\ DispatchTypes' /\ OverlayTypes' /\ HandsFull' /\ CurrKept'
    BY <1>1 DEF IInv
  <2>3. Ordered /\ BareJobs /\ Fresh /\ HeldOnce /\ LastJob
        /\ Undropped /\ LostLittle
    BY DEF DataInv
  <2>4. Ordered'
    BY <1>2, <2>1, <2>2, <2>3, OrderedKept
  <2>5. BareJobs'
    BY <1>2, <2>1, <2>2, <2>3, BareJobsKept
  <2>6. Fresh'
    BY <1>2, <2>1, <2>2, <2>3, FreshKept
  <2>7. HeldOnce' /\ Loses
    BY <1>2, <2>1, <2>2, <2>3, HeldOnceKept
  <2>8. LastJob'
    BY <1>2, <2>1, <2>2, <2>3, LastJobKept
  <2>9. LostLittle'
    BY <1>2, <2>1, <2>2, <2>3, <2>7, LostLittleKept
  <2>10. Undropped'
    BY <1>2, <2>1, <2>3, UndroppedKept
  <2> QED BY <2>4, <2>5, <2>6, <2>7, <2>8, <2>9, <2>10 DEF DataInv
<1>3. CASE UNCHANGED vars
  BY <1>3
  DEF DataInv, vars, Ordered, Order, InHand, BareJobs, Fresh, HeldOnce,
      OnceHeld, LastJob, Carries, Undropped, LostLittle, Lost, InSomeHand, Releases
<1> QED BY <1>2, <1>3

\* The invariant holds at every moment.
LEMMA PipelineDataInv == Spec => [](IInv /\ DataInv)
<1> QED BY InitIInv, InitDataInv, NextIInv, NextDataInv, PTL DEF Spec

\* Jobs and frames stay in the order they were taken from the pool: a job may
\* be dropped, validated again or torn down, but the driver never gets a frame
\* that is not newer than the last.
THEOREM PipelineOldestFirst == Spec => []OldestFirst
<1>1. IInv /\ DataInv => OldestFirst
  BY OrderedLine DEF IInv, DataInv
<1> QED BY <1>1, PipelineDataInv, PTL

\* Whether the engine waits for fences itself or not, nobody closes a fence
\* twice: whoever holds one has it alone, and it is still open.
NotClosedTwice ==
    /\ Held \subseteq open
    /\ \A i, j \in DOMAIN Holders : i # j => Holders[i] \cap Holders[j] = {}

\* HeldOnce says the same of the six places instead of their sequence.
LEMMA HeldInHands ==
  ASSUME MainTypes, DispatchTypes, OverlayTypes, HeldOnce
  PROVE  NotClosedTwice /\ Held = InSomeHand
<1>1. Disjoint(Holders) /\ All(Holders) = InSomeHand
  BY HoldersApart
<1>2. Held = InSomeHand
  BY <1>1 DEF Held, All
<1>3. InSomeHand \subseteq open
  BY DEF HeldOnce, OnceHeld, Once, InSomeHand
<1> QED BY <1>1, <1>2, <1>3 DEF NotClosedTwice, Disjoint

\* A fence has one owner at a time, through every drop, hand-over and release.
THEOREM PipelineNotClosedTwice == Spec => []NotClosedTwice
<1>1. IInv /\ DataInv => NotClosedTwice
  BY HeldInHands DEF IInv, DataInv
<1> QED BY <1>1, PipelineDataInv, PTL

\* Fences of a kind are of no other.
LEMMA OnlyOfKind ==
  ASSUME NEW L
  PROVE  /\ L \subseteq OfKind({"Q"}, Fences) => OfKind({"A", "C", "P"}, L) = {}
         /\ L \subseteq OfKind({"C"}, Fences) => L = OfKind({"C"}, L)
<1>1. CASE L \subseteq OfKind({"Q"}, Fences)
  <2>1. \A f \in L : f[1] = "Q"
    BY <1>1 DEF OfKind
  <2>2. L \subseteq OfKind({"C"}, Fences) => L = {}
    BY <2>1 DEF OfKind
  <2> QED BY <2>1, <2>2 DEF OfKind
<1>2. CASE L \subseteq OfKind({"C"}, Fences) /\ ~(L \subseteq OfKind({"Q"}, Fences))
  <2>1. \A f \in L : f[1] = "C"
    BY <1>2 DEF OfKind
  <2> QED BY <1>2, <2>1 DEF OfKind
<1> QED BY <1>1, <1>2

\* Until a first plug-out begins, every acquire and every present fence is closed
\* or in somebody's hands.  Later, those of layers and the present fences that
\* nobody has to close any more belong to two jobs for each release at most: the
\* fence of a client target without layers is excepted, which is lost with a
\* dropped job.
LayerFencesClosed ==
    /\ plugs = 0 /\ hpc = "up" => OfKind({"A", "C", "P"}, open \ Held) = {}
    /\ Cardinality({f[2] : f \in OfKind({"A", "P"}, open \ Held)}) <= 2 * Releases

\* Whether the engine waits for fences itself or not, the fences of the layers
\* and the present fences of a display that is not released are all closed, and
\* those of the client target while no plug-out has jobs dropped.
THEOREM PipelineLayerFencesClosed == Spec => []LayerFencesClosed
<1>1. IInv /\ DataInv => LayerFencesClosed
  <2> SUFFICES ASSUME IInv, DataInv PROVE LayerFencesClosed
    OBVIOUS
  <2>1. open \ Held = Lost
    BY HeldInHands DEF IInv, DataInv, Lost
  <2>2. {f[2] : f \in OfKind({"A", "P"}, open \ Held)} = NumbersIn(Lost)
    BY <2>1 DEF NumbersIn, Number
  <2> HIDE DEF Lost
  <2>3. plugs = 0 /\ hpc = "up" => OfKind({"A", "C", "P"}, Lost) = {}
    BY OnlyOfKind DEF DataInv, LostLittle
  <2>4. plugs = 0 /\ hpc = "up" => OfKind({"A", "C", "P"}, open \ Held) = {}
    BY <2>1, <2>3
  <2>5. Cardinality({f[2] : f \in OfKind({"A", "P"}, open \ Held)})
          <= 2 * Releases
    BY <2>2 DEF DataInv, LostLittle
  <2> QED BY <2>4, <2>5 DEF LayerFencesClosed
<1> QED BY <1>1, PipelineDataInv, PTL

\* Where the engine waits for the fences itself, each is closed exactly once,
\* except that a job dropped for a plug-out may leave its client target's fence
\* open, and a release those of two jobs and picture-quality fences.  (Where the
\* driver waits for them, every frame leaves its picture-quality fence open.)
THEOREM PipelineFencesClosedOnce ==
  ASSUME ~FenceWait
  PROVE  Spec => []FencesClosedOnce
<1>1. IInv /\ DataInv => FencesClosedOnce
  <2> SUFFICES ASSUME IInv, DataInv PROVE FencesClosedOnce
    OBVIOUS
  <2>1. NotClosedTwice /\ Held = InSomeHand
    BY HeldInHands DEF IInv, DataInv
  <2>2. open \ Held = Lost
    BY <2>1 DEF Lost
  <2>3. {f[2] : f \in OfKind({"A", "P"}, open \ Held)} = NumbersIn(Lost)
    BY <2>2 DEF NumbersIn, Number
  <2> HIDE DEF Lost
  <2>4. plugs = 0 /\ hpc = "up" => open \ Held = {}
    BY <2>2 DEF DataInv, LostLittle
  <2>5. Releases = 0 => open \ Held = OfKind({"C"}, open \ Held)
    <3>1. Releases = 0 => Lost = OfKind({"C"}, Lost)
      BY OnlyOfKind DEF DataInv, LostLittle
    <3> QED BY <2>2, <3>1
  <2>6. Cardinality({f[2] : f \in OfKind({"A", "P"}, open \ Held)})
          <= 2 * Releases
    BY <2>3 DEF DataInv, LostLittle
  <2>7. Held \subseteq open
    BY <2>1 DEF NotClosedTwice
  <2>8. \A i, j \in DOMAIN Holders : i # j => Holders[i] \cap Holders[j] = {}
    BY <2>1 DEF NotClosedTwice, Disjoint
  <2> QED BY <2>4, <2>5, <2>6, <2>7, <2>8 DEF FencesClosedOnce
<1> QED BY <1>1, PipelineDataInv, PTL

=============================================================================
