--------------------------- MODULE Hotplug_proofs ---------------------------
(***************************************************************************)
(* For any number of uevents and of plug-ins that fail: what the           *)
(* UEventThread, SurfaceFlinger's main thread, the VSyncThread and the     *)
(* OverlayEngine leave behind agrees.  The invariant says how far each     *)
(* stage of a plug-in or plug-out has come (Stages), that answers come in  *)
(* the order of the events (InOrder), how far they lag behind as long as   *)
(* none is late (InTime), and, late or not, what the events in             *)
(* SurfaceFlinger's queue and its present call will leave (Settles,        *)
(* Powered).                                                               *)
(***************************************************************************)
EXTENDS Hotplug, SequenceTheorems, TLAPS

\* The type invariant, by the parts of the state that change together.
PlanType ==
    /\ m_is_hotplug \in BOOLEAN /\ todo \in Seq(BOOLEAN) /\ Len(todo) <= 2
    /\ upc \in {"idle", "call", "thread", "report", "start", "sleep", "waiting",
                "signalled", "timedout", "exit", "kick", "join", "forget",
                "plugout"}
    /\ upc # "idle" => todo # <<>>
    /\ events \in 0 .. MaxEvents

FlagType ==
    /\ connected \in BOOLEAN /\ trigger \in BOOLEAN /\ feature \in BOOLEAN
    /\ m_ext_active \in BOOLEAN /\ late \in BOOLEAN
    /\ layers \in BOOLEAN /\ power \in BOOLEAN /\ flip \in BOOLEAN
    /\ engine \in {"idle", "group", "wait"}

DispatcherType ==
    /\ failures \in Nat /\ alloc \in BOOLEAN /\ made \in Nat
    /\ connected => alloc
    /\ callbacks \in [Displays -> SUBSET (1 .. made)]

VSyncType == vthread \in BOOLEAN /\ vs \in VSyncThread /\ orphans \in Nat

Event(n) == [connect : BOOLEAN, id : 1 .. n]

FlingerType ==
    /\ told \in Nat /\ sfq \in Seq(Event(told))
    /\ call \in [op : Ops, dpy : Displays, event : 0 .. told]
    /\ answered \in 0 .. told /\ known \in BOOLEAN /\ refused \in Nat

(* The parts make up the whole.                                            *)
LEMMA TypeParts ==
  TypeOK <=> /\ PlanType /\ FlagType /\ DispatcherType /\ VSyncType
             /\ FlingerType
  BY DEF TypeOK, PlanType, FlagType, DispatcherType, VSyncType, FlingerType,
         Event

(* What a signal, requestVSync and setLoopAgain make of a VSyncThread.     *)
LEMMA ThreadUpdates ==
  ASSUME NEW t \in VSyncThread
  PROVE  /\ SetEnabled(t, TRUE) \in VSyncThread /\ SetEnabled(t, TRUE).m_enabled
         /\ SetEnabled(t, FALSE) \in VSyncThread
         /\ SetLoopAgain(t) \in VSyncThread
         /\ SetLoopAgain(t).m_enabled = t.m_enabled
         /\ [t EXCEPT !.exit = TRUE] \in VSyncThread
         /\ [t EXCEPT !.pc = "gone"] \in VSyncThread
         /\ [t EXCEPT !.pc = "wait"] \in VSyncThread
         /\ [t EXCEPT !.pc = "loop"] \in VSyncThread
         /\ [t EXCEPT !.pc = "fire", !.m_loop = FALSE] \in VSyncThread
  BY DEF VSyncThread, Signalled, SetEnabled, SetLoopAgain

(* A new VSyncThread.                                                     *)
LEMMA NewThread == NewVSyncThread \in VSyncThread
  BY DEF VSyncThread, NewVSyncThread

(* The calls of hotplugExt that an event makes are two at most.            *)
LEMMA EventCalls ==
  \A hot \in BOOLEAN :
     \A s \in {<<TRUE>>, Disconnects(hot), Disconnects(hot) \o <<TRUE>>} :
        s \in Seq(BOOLEAN) /\ Len(s) <= 2
<1>1. /\ <<TRUE>> \in Seq(BOOLEAN) /\ Len(<<TRUE>>) = 1
      /\ <<FALSE>> \in Seq(BOOLEAN) /\ Len(<<FALSE>>) = 1
  OBVIOUS
<1>2. <<>> \in Seq(BOOLEAN) /\ Len(<<>>) = 0
  BY EmptySeq, Zenon
<1>3. \A hot \in BOOLEAN : Disconnects(hot) \in Seq(BOOLEAN) /\ Len(Disconnects(hot)) <= 1
  <2> SUFFICES ASSUME NEW hot \in BOOLEAN
               PROVE  Disconnects(hot) \in Seq(BOOLEAN) /\ Len(Disconnects(hot)) <= 1
    OBVIOUS
  <2>1. CASE hot
    BY <1>1, <2>1 DEF Disconnects
  <2>2. CASE ~hot
    BY <1>2, <2>2 DEF Disconnects
  <2> QED BY <2>1, <2>2
<1>4. \A hot \in BOOLEAN : /\ Disconnects(hot) \o <<TRUE>> \in Seq(BOOLEAN)
                           /\ Len(Disconnects(hot) \o <<TRUE>>) <= 2
  BY <1>1, <1>3, ConcatProperties
<1>5. \A hot \in BOOLEAN : Len(Disconnects(hot)) <= 2
  BY <1>3
<1> SUFFICES ASSUME NEW hot \in BOOLEAN,
                    NEW s \in {<<TRUE>>, Disconnects(hot), Disconnects(hot) \o <<TRUE>>}
             PROVE  s \in Seq(BOOLEAN) /\ Len(s) <= 2
  OBVIOUS
<1>6. CASE s = <<TRUE>>
  BY <1>1, <1>6
<1>7. CASE s = Disconnects(hot)
  BY <1>3, <1>5, <1>7
<1>8. CASE s = Disconnects(hot) \o <<TRUE>>
  BY <1>4, <1>8
<1> QED BY <1>6, <1>7, <1>8

(* The events told stay events when another is told.                       *)
LEMMA MoreEvents ==
  ASSUME NEW n \in Nat, NEW s \in Seq(Event(n)), NEW b \in BOOLEAN
  PROVE  /\ s \in Seq(Event(n + 1))
         /\ Append(s, [connect |-> b, id |-> n + 1]) \in Seq(Event(n + 1))
<1>1. Event(n) \subseteq Event(n + 1)
  BY DEF Event
<1>2. s \in Seq(Event(n + 1))
  BY <1>1, SeqMonotonic, Zenon
<1>3. [connect |-> b, id |-> n + 1] \in Event(n + 1)
  BY DEF Event
<1> QED BY <1>2, <1>3

(* What the plug-in leaves of the display.                                 *)
LEMMA PlugInOutcome ==
  ASSUME connected \in BOOLEAN, PlugIn
  PROVE  /\ ~connected /\ connected' \in BOOLEAN /\ (connected' => alloc')
         /\ failures' = IF connected' THEN failures ELSE failures + 1
<1>1. failures' = IF connected' THEN failures ELSE failures + 1
  BY DEF PlugIn
<1>2. ~connected
  BY DEF PlugIn, NothingToDo
<1>3. CASE alloc
  <2>1. UNCHANGED connected
    BY <1>3 DEF PlugIn
  <2> QED BY <1>1, <1>2, <2>1
<1>4. CASE NoSession
  <2>1. connected' = FALSE
    BY <1>4 DEF NoSession
  <2> QED BY <1>1, <1>2, <2>1
<1>5. CASE SessionMade
  <2>1. connected' \in BOOLEAN /\ alloc' = TRUE
    BY <1>5 DEF SessionMade
  <2> QED BY <1>1, <1>2, <2>1
<1>6. alloc \/ NoSession \/ SessionMade
  BY DEF PlugIn
<1> QED BY <1>3, <1>4, <1>5, <1>6

(* The events told are numbered.                                           *)
LEMMA EventParts ==
  ASSUME NEW n \in Nat, NEW s \in Seq(Event(n))
  PROVE  /\ Len(s) \in Nat /\ (s = <<>> <=> Len(s) = 0)
         /\ \A i \in 1 .. Len(s) : /\ s[i].id \in 1 .. n
                                   /\ s[i].connect \in BOOLEAN
<1>1. Len(s) \in Nat /\ (s = <<>> <=> Len(s) = 0)
  BY EmptySeq
<1>2. \A i \in 1 .. Len(s) : s[i] \in Event(n)
  BY ElementOfSeq
<1> QED BY <1>1, <1>2 DEF Event

(* The initial state has its type.                                         *)
LEMMA InitTypeOK == Init => TypeOK
<1> SUFFICES ASSUME Init
             PROVE  TypeOK
  OBVIOUS
<1>1. PlanType
  <2>1. todo \in Seq(BOOLEAN) /\ Len(todo) = 0
    BY EmptySeq, Zenon DEF Init
  <2>2. upc = "idle" /\ events = 0 /\ m_is_hotplug \in BOOLEAN
    BY Zenon DEF Init
  <2> QED BY <2>1, <2>2, HotplugAssumption DEF PlanType
<1>2. FlagType
  BY DEF Init, FlagType
<1>3. DispatcherType
  <2>1. made = 0 /\ failures = 0 /\ alloc \in BOOLEAN /\ callbacks = [d \in Displays |-> {}]
    BY Zenon DEF Init
  <2>2. callbacks \in [Displays -> SUBSET (1 .. made)]
    BY <2>1
  <2>3. connected = FALSE
    BY Zenon DEF Init
  <2> QED BY <2>1, <2>2, <2>3 DEF DispatcherType
<1>4. VSyncType
  BY NewThread, ThreadUpdates DEF Init, VSyncType
<1>5. FlingerType
  <2>1. sfq \in Seq(Event(0))
    BY EmptySeq, Zenon DEF Init
  <2>2. call \in [op : Ops, dpy : Displays, event : 0 .. 0]
    BY DEF Init, NoCall, Call, Ops, Displays
  <2>3. told = 0 /\ answered = 0 /\ known \in BOOLEAN /\ refused = 0
    BY Zenon DEF Init
  <2>4. sfq \in Seq(Event(told)) /\ call \in [op : Ops, dpy : Displays, event : 0 .. told]
    BY <2>1, <2>2, <2>3
  <2> QED BY <2>3, <2>4 DEF FlingerType
<1> QED BY <1>1, <1>2, <1>3, <1>4, <1>5, TypeParts

(* The UEventThread's own state.                                           *)
LEMMA NextPlan == TypeOK /\ [Next]_vars => PlanType'
<1> SUFFICES ASSUME TypeOK, [Next]_vars
             PROVE  PlanType'
  OBVIOUS
<1>0. PlanType /\ FlagType
  BY TypeParts
<1> USE <1>0, HotplugAssumption
    DEF PlanType, ueventVars, planVars, managerVars, dispatcherVars, vsyncVars,
        displayVars, sfVars, HotplugReturns, Notify
<1>1. CASE HandleUevents
  <2>1. /\ todo' \in Seq(BOOLEAN) /\ Len(todo') <= 2
        /\ m_is_hotplug' \in BOOLEAN
    <3>1. /\ todo' \in {<<TRUE>>, Disconnects(m_is_hotplug),
                         Disconnects(m_is_hotplug) \o <<TRUE>>}
          /\ m_is_hotplug' \in BOOLEAN
      BY <1>1 DEF HandleUevents
    <3> QED BY <3>1, EventCalls
  <2> QED BY <2>1, <1>1 DEF HandleUevents
<1>2. CASE HotplugIgnored
  BY <1>2 DEF HotplugIgnored
<1>3. CASE PlugIn
  BY <1>3 DEF PlugIn
<1>4. CASE CreateVsyncThread
  BY <1>4 DEF CreateVsyncThread
<1>5. CASE OnHotPlugExt
  BY <1>5 DEF OnHotPlugExt
<1>6. CASE StartVSync
  BY <1>6 DEF StartVSync
<1>7. CASE WaitAnswer
  BY <1>7 DEF WaitAnswer
<1>8. CASE WaitTimeout
  BY <1>8 DEF WaitTimeout
<1>9. CASE HotplugDone
  BY <1>9 DEF HotplugDone
<1>10. CASE StopVSync
  BY <1>10 DEF StopVSync
<1>11. CASE RequestExit
  BY <1>11 DEF RequestExit
<1>12. CASE KickThread
  BY <1>12 DEF KickThread
<1>13. CASE JoinThread
  BY <1>13 DEF JoinThread
<1>14. CASE ForgetThread
  BY <1>14 DEF ForgetThread
<1>15. CASE PlugOut
  BY <1>15 DEF PlugOut
<1>16. CASE VSyncLoop
  BY <1>16 DEF VSyncLoop
<1>17. CASE VSyncFire
  BY <1>17 DEF VSyncFire
<1>18. CASE EngineGroup
  BY <1>18 DEF EngineGroup
<1>19. CASE EngineRequest
  BY <1>19 DEF EngineRequest
<1>20. CASE EngineTimeout
  BY <1>20 DEF EngineTimeout
<1>21. CASE SFConnected
  BY <1>21 DEF SFConnected
<1>22. CASE SFDisconnected
  BY <1>22 DEF SFDisconnected
<1>23. CASE SFCalls
  BY <1>23 DEF SFCalls
<1>24. CASE GetActiveConfig
  BY <1>24 DEF GetActiveConfig
<1>25. CASE SFSwitchOn
  BY <1>25 DEF SFSwitchOn
<1>26. CASE SetPowerMode
  BY <1>26 DEF SetPowerMode
<1>27. CASE DisableVSync
  BY <1>27 DEF DisableVSync
<1>28. CASE HotplugOutDone
  BY <1>28 DEF HotplugOutDone
<1>29. CASE GetReleaseFence
  BY <1>29 DEF GetReleaseFence
<1>30. CASE SFFill
  BY <1>30 DEF SFFill
<1>31. CASE UNCHANGED vars
  BY <1>31 DEF vars
<1> QED BY <1>1, <1>2, <1>3, <1>4, <1>5, <1>6, <1>7, <1>8, <1>9, <1>10, <1>11,
          <1>12, <1>13, <1>14, <1>15, <1>16, <1>17, <1>18, <1>19, <1>20,
          <1>21, <1>22, <1>23, <1>24, <1>25, <1>26, <1>27, <1>28, <1>29,
          <1>30, <1>31
          DEF Next, UEventStep, SFStep

(* The flags.                                                              *)
LEMMA NextFlags == TypeOK /\ [Next]_vars => FlagType'
<1> SUFFICES ASSUME TypeOK, [Next]_vars
             PROVE  FlagType'
  OBVIOUS
<1>0. FlagType
  BY TypeParts
<1> USE <1>0, HotplugAssumption
    DEF FlagType, ueventVars, planVars, managerVars, dispatcherVars, vsyncVars,
        displayVars, sfVars, Notify, Flipped
<1>1. CASE HandleUevents
  BY <1>1 DEF HandleUevents
<1>2. CASE HotplugIgnored
  BY <1>2 DEF HotplugIgnored
<1>3. CASE PlugIn
  <2>1. connected' \in BOOLEAN
    BY <1>3, PlugInOutcome
  <2>2. /\ layers' = TRUE /\ power' = FALSE /\ trigger' = feature
        /\ UNCHANGED <<m_ext_active, feature, engine, flip, late>>
    BY <1>3 DEF PlugIn
  <2> QED BY <2>1, <2>2
<1>4. CASE CreateVsyncThread
  BY <1>4 DEF CreateVsyncThread
<1>5. CASE OnHotPlugExt
  BY <1>5 DEF OnHotPlugExt
<1>6. CASE StartVSync
  BY <1>6 DEF StartVSync
<1>7. CASE WaitAnswer
  BY <1>7 DEF WaitAnswer
<1>8. CASE WaitTimeout
  BY <1>8 DEF WaitTimeout
<1>9. CASE HotplugDone
  BY <1>9 DEF HotplugDone
<1>10. CASE StopVSync
  BY <1>10 DEF StopVSync
<1>11. CASE RequestExit
  BY <1>11 DEF RequestExit
<1>12. CASE KickThread
  BY <1>12 DEF KickThread
<1>13. CASE JoinThread
  BY <1>13 DEF JoinThread
<1>14. CASE ForgetThread
  BY <1>14 DEF ForgetThread
<1>15. CASE PlugOut
  BY <1>15 DEF PlugOut
<1>16. CASE VSyncLoop
  BY <1>16 DEF VSyncLoop
<1>17. CASE VSyncFire
  BY <1>17 DEF VSyncFire
<1>18. CASE EngineGroup
  BY <1>18 DEF EngineGroup
<1>19. CASE EngineRequest
  BY <1>19 DEF EngineRequest
<1>20. CASE EngineTimeout
  BY <1>20 DEF EngineTimeout
<1>21. CASE SFConnected
  BY <1>21 DEF SFConnected
<1>22. CASE SFDisconnected
  BY <1>22 DEF SFDisconnected
<1>23. CASE SFCalls
  BY <1>23 DEF SFCalls
<1>24. CASE GetActiveConfig
  BY <1>24 DEF GetActiveConfig
<1>25. CASE SFSwitchOn
  BY <1>25 DEF SFSwitchOn
<1>26. CASE SetPowerMode
  BY <1>26 DEF SetPowerMode
<1>27. CASE DisableVSync
  BY <1>27 DEF DisableVSync
<1>28. CASE HotplugOutDone
  BY <1>28 DEF HotplugOutDone
<1>29. CASE GetReleaseFence
  BY <1>29 DEF GetReleaseFence
<1>30. CASE SFFill
  BY <1>30 DEF SFFill
<1>31. CASE UNCHANGED vars
  BY <1>31 DEF vars
<1> QED BY <1>1, <1>2, <1>3, <1>4, <1>5, <1>6, <1>7, <1>8, <1>9, <1>10, <1>11,
          <1>12, <1>13, <1>14, <1>15, <1>16, <1>17, <1>18, <1>19, <1>20,
          <1>21, <1>22, <1>23, <1>24, <1>25, <1>26, <1>27, <1>28, <1>29,
          <1>30, <1>31
          DEF Next, UEventStep, SFStep

(* The dispatcher's state.                                                 *)
LEMMA NextDispatcher == TypeOK /\ [Next]_vars => DispatcherType'
<1> SUFFICES ASSUME TypeOK, [Next]_vars
             PROVE  DispatcherType'
  OBVIOUS
<1>0. DispatcherType /\ FlagType
  BY TypeParts
<1> USE <1>0, HotplugAssumption
    DEF DispatcherType, ueventVars, planVars, managerVars, dispatcherVars, vsyncVars,
        displayVars, sfVars, RegisteredWith, Displays
<1>1. CASE PlugIn
  <2>1. CASE alloc
    BY <2>1, <1>1 DEF PlugIn
  <2>2. CASE ~alloc
    <3>1. failures' \in Nat
      BY <2>2, <1>1 DEF PlugIn
    <3>2. CASE NoSession
      BY <3>1, <3>2 DEF NoSession
    <3>3. CASE SessionMade
      <4>1. /\ alloc' = TRUE /\ made' = made + 1
            /\ \E d \in Displays :
                 callbacks' = [callbacks EXCEPT ![d] = @ \cup {made + 1}]
        BY <3>3 DEF SessionMade
      <4> QED BY <3>1, <4>1
    <3> QED BY <2>2, <3>2, <3>3, <1>1 DEF PlugIn
  <2> QED BY <2>1, <2>2
<1>2. CASE HandleUevents
  BY <1>2 DEF HandleUevents
<1>3. CASE HotplugIgnored
  BY <1>3 DEF HotplugIgnored
<1>4. CASE CreateVsyncThread
  BY <1>4 DEF CreateVsyncThread
<1>5. CASE OnHotPlugExt
  BY <1>5 DEF OnHotPlugExt
<1>6. CASE StartVSync
  BY <1>6 DEF StartVSync
<1>7. CASE WaitAnswer
  BY <1>7 DEF WaitAnswer
<1>8. CASE WaitTimeout
  BY <1>8 DEF WaitTimeout
<1>9. CASE HotplugDone
  BY <1>9 DEF HotplugDone
<1>10. CASE StopVSync
  BY <1>10 DEF StopVSync
<1>11. CASE RequestExit
  BY <1>11 DEF RequestExit
<1>12. CASE KickThread
  BY <1>12 DEF KickThread
<1>13. CASE JoinThread
  BY <1>13 DEF JoinThread
<1>14. CASE ForgetThread
  BY <1>14 DEF ForgetThread
<1>15. CASE PlugOut
  BY <1>15 DEF PlugOut
<1>16. CASE VSyncLoop
  BY <1>16 DEF VSyncLoop
<1>17. CASE VSyncFire
  BY <1>17 DEF VSyncFire
<1>18. CASE EngineGroup
  BY <1>18 DEF EngineGroup
<1>19. CASE EngineRequest
  BY <1>19 DEF EngineRequest
<1>20. CASE EngineTimeout
  BY <1>20 DEF EngineTimeout
<1>21. CASE SFConnected
  BY <1>21 DEF SFConnected
<1>22. CASE SFDisconnected
  BY <1>22 DEF SFDisconnected
<1>23. CASE SFCalls
  BY <1>23 DEF SFCalls
<1>24. CASE GetActiveConfig
  BY <1>24 DEF GetActiveConfig
<1>25. CASE SFSwitchOn
  BY <1>25 DEF SFSwitchOn
<1>26. CASE SetPowerMode
  BY <1>26 DEF SetPowerMode
<1>27. CASE DisableVSync
  BY <1>27 DEF DisableVSync
<1>28. CASE HotplugOutDone
  BY <1>28 DEF HotplugOutDone
<1>29. CASE GetReleaseFence
  BY <1>29 DEF GetReleaseFence
<1>30. CASE SFFill
  BY <1>30 DEF SFFill
<1>31. CASE UNCHANGED vars
  BY <1>31 DEF vars
<1> QED BY <1>1, <1>2, <1>3, <1>4, <1>5, <1>6, <1>7, <1>8, <1>9, <1>10, <1>11,
          <1>12, <1>13, <1>14, <1>15, <1>16, <1>17, <1>18, <1>19, <1>20,
          <1>21, <1>22, <1>23, <1>24, <1>25, <1>26, <1>27, <1>28, <1>29,
          <1>30, <1>31
          DEF Next, UEventStep, SFStep

(* The VSync threads.                                                      *)
LEMMA NextVSync == TypeOK /\ [Next]_vars => VSyncType'
<1> SUFFICES ASSUME TypeOK, [Next]_vars
             PROVE  VSyncType'
  OBVIOUS
<1>0. VSyncType
  BY TypeParts
<1> USE <1>0, HotplugAssumption
    DEF VSyncType, ueventVars, planVars, managerVars, dispatcherVars, vsyncVars,
        displayVars, sfVars
<1>1. CASE CreateVsyncThread
  BY <1>1, NewThread DEF CreateVsyncThread
<1>2. CASE StartVSync
  <2>1. vs' \in {vs, SetEnabled(vs, TRUE)}
    BY <1>2 DEF StartVSync, RequestVSync
  <2> QED BY <2>1, ThreadUpdates, <1>2 DEF StartVSync
<1>3. CASE StopVSync
  <2>1. vs' \in {vs, SetEnabled(vs, FALSE)}
    BY <1>3 DEF StopVSync, RequestVSync
  <2> QED BY <2>1, ThreadUpdates, <1>3 DEF StopVSync
<1>4. CASE SetPowerMode
  <2>1. vs' \in {vs, SetEnabled(vs, TRUE), SetEnabled(vs, FALSE)}
    BY <1>4 DEF SetPowerMode, RequestVSync
  <2> QED BY <2>1, ThreadUpdates, <1>4 DEF SetPowerMode
<1>5. CASE DisableVSync
  <2>1. vs' \in {vs, SetEnabled(vs, FALSE)}
    BY <1>5 DEF DisableVSync, RequestVSync
  <2> QED BY <2>1, ThreadUpdates, <1>5 DEF DisableVSync
<1>6. CASE HandleUevents
  BY <1>6, ThreadUpdates DEF HandleUevents
<1>7. CASE HotplugIgnored
  BY <1>7, ThreadUpdates DEF HotplugIgnored
<1>8. CASE PlugIn
  BY <1>8, ThreadUpdates DEF PlugIn
<1>9. CASE OnHotPlugExt
  BY <1>9, ThreadUpdates DEF OnHotPlugExt
<1>10. CASE WaitAnswer
  BY <1>10, ThreadUpdates DEF WaitAnswer
<1>11. CASE WaitTimeout
  BY <1>11, ThreadUpdates DEF WaitTimeout
<1>12. CASE HotplugDone
  BY <1>12, ThreadUpdates DEF HotplugDone
<1>13. CASE RequestExit
  BY <1>13, ThreadUpdates DEF RequestExit
<1>14. CASE KickThread
  BY <1>14, ThreadUpdates DEF KickThread
<1>15. CASE JoinThread
  BY <1>15, ThreadUpdates DEF JoinThread
<1>16. CASE ForgetThread
  BY <1>16, ThreadUpdates DEF ForgetThread
<1>17. CASE PlugOut
  BY <1>17, ThreadUpdates DEF PlugOut
<1>18. CASE VSyncLoop
  BY <1>18, ThreadUpdates DEF VSyncLoop
<1>19. CASE VSyncFire
  BY <1>19, ThreadUpdates DEF VSyncFire
<1>20. CASE EngineGroup
  BY <1>20, ThreadUpdates DEF EngineGroup
<1>21. CASE EngineRequest
  BY <1>21, ThreadUpdates DEF EngineRequest
<1>22. CASE EngineTimeout
  BY <1>22, ThreadUpdates DEF EngineTimeout
<1>23. CASE SFConnected
  BY <1>23, ThreadUpdates DEF SFConnected
<1>24. CASE SFDisconnected
  BY <1>24, ThreadUpdates DEF SFDisconnected
<1>25. CASE SFCalls
  BY <1>25, ThreadUpdates DEF SFCalls
<1>26. CASE GetActiveConfig
  BY <1>26, ThreadUpdates DEF GetActiveConfig
<1>27. CASE SFSwitchOn
  BY <1>27, ThreadUpdates DEF SFSwitchOn
<1>28. CASE HotplugOutDone
  BY <1>28, ThreadUpdates DEF HotplugOutDone
<1>29. CASE GetReleaseFence
  BY <1>29, ThreadUpdates DEF GetReleaseFence
<1>30. CASE SFFill
  BY <1>30, ThreadUpdates DEF SFFill
<1>31. CASE UNCHANGED vars
  BY <1>31, ThreadUpdates DEF vars
<1> QED BY <1>1, <1>2, <1>3, <1>4, <1>5, <1>6, <1>7, <1>8, <1>9, <1>10, <1>11,
          <1>12, <1>13, <1>14, <1>15, <1>16, <1>17, <1>18, <1>19, <1>20,
          <1>21, <1>22, <1>23, <1>24, <1>25, <1>26, <1>27, <1>28, <1>29,
          <1>30, <1>31
          DEF Next, UEventStep, SFStep

(* SurfaceFlinger's calls and the events it was told of.                    *)
LEMMA NextFlinger == TypeOK /\ [Next]_vars => FlingerType'
<1> SUFFICES ASSUME TypeOK, [Next]_vars
             PROVE  FlingerType'
  OBVIOUS
<1>0. FlingerType /\ PlanType /\ FlagType
  BY TypeParts
<1> USE <1>0, HotplugAssumption
    DEF FlingerType, ueventVars, planVars, managerVars, dispatcherVars, vsyncVars,
        displayVars, sfVars, Begins, Call, NoCall, Ops, Displays
<1>1. CASE OnHotPlugExt
  <2>1. Connecting \in BOOLEAN
    <3>1. todo # <<>> /\ todo \in Seq(BOOLEAN)
      BY <1>1 DEF OnHotPlugExt, PlanType
    <3> QED BY <3>1 DEF Connecting
  <2>2. /\ told' = told + 1 /\ sfq' \in Seq(Event(told + 1))
    BY <2>1, MoreEvents, <1>1 DEF OnHotPlugExt
  <2> QED BY <2>2, <1>1 DEF OnHotPlugExt
<1>2. CASE SFConnected
  <2>1. /\ Head(sfq) \in Event(told) /\ Tail(sfq) \in Seq(Event(told))
        /\ Head(sfq).id \in 0 .. told
    <3>1. sfq # <<>> /\ sfq \in Seq(Event(told))
      BY <1>2 DEF SFConnected
    <3>2. Head(sfq) \in Event(told) /\ Tail(sfq) \in Seq(Event(told))
      BY <3>1
    <3> QED BY <3>2 DEF Event
  <2>2. /\ call' \in [op : Ops, dpy : Displays, event : 0 .. told]
        /\ answered' \in 0 .. told
    BY <2>1, <1>2 DEF SFConnected
  <2> QED BY <2>1, <2>2, <1>2 DEF SFConnected
<1>3. CASE SFDisconnected
  <2>1. /\ Head(sfq) \in Event(told) /\ Tail(sfq) \in Seq(Event(told))
        /\ Head(sfq).id \in 0 .. told
    <3>1. sfq # <<>> /\ sfq \in Seq(Event(told))
      BY <1>3 DEF SFDisconnected
    <3>2. Head(sfq) \in Event(told) /\ Tail(sfq) \in Seq(Event(told))
      BY <3>1
    <3> QED BY <3>2 DEF Event
  <2>2. call' \in [op : Ops, dpy : Displays, event : 0 .. told]
    BY <2>1, <1>3 DEF SFDisconnected
  <2> QED BY <2>1, <2>2, <1>3 DEF SFDisconnected
<1>4. CASE HandleUevents
  BY <1>4 DEF HandleUevents
<1>5. CASE HotplugIgnored
  BY <1>5 DEF HotplugIgnored
<1>6. CASE PlugIn
  BY <1>6 DEF PlugIn
<1>7. CASE CreateVsyncThread
  BY <1>7 DEF CreateVsyncThread
<1>8. CASE StartVSync
  BY <1>8 DEF StartVSync
<1>9. CASE WaitAnswer
  BY <1>9 DEF WaitAnswer
<1>10. CASE WaitTimeout
  BY <1>10 DEF WaitTimeout
<1>11. CASE HotplugDone
  BY <1>11 DEF HotplugDone
<1>12. CASE StopVSync
  BY <1>12 DEF StopVSync
<1>13. CASE RequestExit
  BY <1>13 DEF RequestExit
<1>14. CASE KickThread
  BY <1>14 DEF KickThread
<1>15. CASE JoinThread
  BY <1>15 DEF JoinThread
<1>16. CASE ForgetThread
  BY <1>16 DEF ForgetThread
<1>17. CASE PlugOut
  BY <1>17 DEF PlugOut
<1>18. CASE VSyncLoop
  BY <1>18 DEF VSyncLoop
<1>19. CASE VSyncFire
  BY <1>19 DEF VSyncFire
<1>20. CASE EngineGroup
  BY <1>20 DEF EngineGroup
<1>21. CASE EngineRequest
  BY <1>21 DEF EngineRequest
<1>22. CASE EngineTimeout
  BY <1>22 DEF EngineTimeout
<1>23. CASE SFCalls
  BY <1>23 DEF SFCalls
<1>24. CASE GetActiveConfig
  BY <1>24 DEF GetActiveConfig
<1>25. CASE SFSwitchOn
  BY <1>25 DEF SFSwitchOn
<1>26. CASE SetPowerMode
  BY <1>26 DEF SetPowerMode
<1>27. CASE DisableVSync
  BY <1>27 DEF DisableVSync
<1>28. CASE HotplugOutDone
  BY <1>28 DEF HotplugOutDone
<1>29. CASE GetReleaseFence
  BY <1>29 DEF GetReleaseFence
<1>30. CASE SFFill
  BY <1>30 DEF SFFill
<1>31. CASE UNCHANGED vars
  BY <1>31 DEF vars
<1> QED BY <1>1, <1>2, <1>3, <1>4, <1>5, <1>6, <1>7, <1>8, <1>9, <1>10, <1>11,
          <1>12, <1>13, <1>14, <1>15, <1>16, <1>17, <1>18, <1>19, <1>20,
          <1>21, <1>22, <1>23, <1>24, <1>25, <1>26, <1>27, <1>28, <1>29,
          <1>30, <1>31
          DEF Next, UEventStep, SFStep

(* Every step preserves the types.                                         *)
LEMMA NextTypeOK == TypeOK /\ [Next]_vars => TypeOK'
<1> SUFFICES ASSUME TypeOK, [Next]_vars
             PROVE  TypeOK'
  OBVIOUS
<1>1. /\ PlanType' /\ FlagType' /\ DispatcherType' /\ VSyncType'
      /\ FlingerType'
  BY NextPlan, NextFlags, NextDispatcher, NextVSync, NextFlinger
<1> QED BY <1>1 DEF TypeOK, PlanType, FlagType, DispatcherType, VSyncType,
                    FlingerType, Event

-----------------------------------------------------------------------------
(* What each stage of a plug-in and a plug-out has already done.           *)

Tearing == {"exit", "kick", "join", "forget", "plugout"}

\* A display is torn down while it is connected and not before; from the end
\* of the plug-out on it is not allocated, and from that of the plug-in on it is
\* connected, unless the plug-in failed.  Each plug-in makes a VSyncThread, and
\* each plug-out joins one.
Stages ==
    /\ upc \in Tearing => connected /\ ~Connecting
    /\ upc \in {"thread", "start"} => Connecting
    /\ upc \in {"thread", "report", "start", "sleep", "waiting", "signalled",
                "timedout"} =>
          IF Connecting THEN connected \/ failures # 0 ELSE ~alloc
    /\ connected => alloc
    /\ connected /\ upc \notin {"thread", "plugout"} => vthread
    /\ orphans + (IF vthread THEN 1 ELSE 0)
                + (IF upc \in {"thread", "plugout"} THEN 1 ELSE 0)
         = failures + (IF connected THEN 1 ELSE 0)

(* The first stage has done nothing.                                       *)
LEMMA InitStages == Init => Stages
  BY DEF Init, Stages, Tearing

(* Every step takes the stages in order.                                   *)
LEMMA NextStages == TypeOK /\ Stages /\ [Next]_vars => Stages'
<1> SUFFICES ASSUME TypeOK, Stages, [Next]_vars
             PROVE  Stages'
  OBVIOUS
<1>0. PlanType /\ FlagType /\ DispatcherType /\ VSyncType
  BY TypeParts
<1> USE <1>0
    DEF Stages, Tearing, Connecting, PlanType, FlagType, DispatcherType, VSyncType,
        ueventVars, planVars, managerVars, dispatcherVars, vsyncVars,
        displayVars, sfVars, HotplugReturns, Notify, NothingToDo
<1>1. CASE PlugIn
  <2>1. /\ upc = "call" /\ Connecting /\ ~connected /\ upc' = "thread"
        /\ (Connecting' <=> Connecting)
        /\ vthread' = vthread /\ orphans' = orphans
        /\ failures' = IF connected' THEN failures ELSE failures + 1
    BY <1>1 DEF PlugIn
  <2>2. connected' \in BOOLEAN /\ (connected' => alloc')
    BY <1>1, PlugInOutcome
  <2> HIDE DEF Connecting, NothingToDo
  <2> QED BY <2>1, <2>2
<1>2. CASE HandleUevents
  BY <1>2 DEF HandleUevents
<1>3. CASE HotplugIgnored
  BY <1>3 DEF HotplugIgnored
<1>4. CASE CreateVsyncThread
  <2>1. /\ upc = "thread" /\ upc' = "report" /\ Connecting /\ vthread' = TRUE
        /\ (Connecting' <=> Connecting)
        /\ orphans' = IF vthread THEN orphans + 1 ELSE orphans
        /\ UNCHANGED <<connected, alloc, failures>>
    BY <1>4 DEF CreateVsyncThread
  <2> HIDE DEF Connecting
  <2>2. orphans' + 1 = failures + (IF connected THEN 1 ELSE 0)
    BY <2>1
  <2> QED BY <2>1, <2>2
<1>5. CASE OnHotPlugExt
  BY <1>5 DEF OnHotPlugExt
<1>6. CASE StartVSync
  BY <1>6 DEF StartVSync
<1>7. CASE WaitAnswer
  BY <1>7 DEF WaitAnswer
<1>8. CASE WaitTimeout
  BY <1>8 DEF WaitTimeout
<1>9. CASE HotplugDone
  BY <1>9 DEF HotplugDone
<1>10. CASE StopVSync
  BY <1>10 DEF StopVSync
<1>11. CASE RequestExit
  BY <1>11 DEF RequestExit
<1>12. CASE KickThread
  BY <1>12 DEF KickThread
<1>13. CASE JoinThread
  BY <1>13 DEF JoinThread
<1>14. CASE ForgetThread
  <2>1. /\ upc = "forget" /\ upc' = "plugout" /\ vthread' = FALSE
        /\ (Connecting' <=> Connecting)
        /\ UNCHANGED <<connected, alloc, failures, orphans>>
    BY <1>14 DEF ForgetThread
  <2>2. vthread /\ connected /\ ~Connecting
    BY <2>1
  <2> HIDE DEF Connecting
  <2> QED BY <2>1, <2>2
<1>15. CASE PlugOut
  <2>1. /\ upc = "plugout" /\ upc' = "report" /\ ~alloc' /\ ~connected'
        /\ (Connecting' <=> Connecting)
        /\ UNCHANGED <<failures, orphans, vthread>>
    BY <1>15 DEF PlugOut
  <2>2. connected /\ ~Connecting
    BY <2>1
  <2> HIDE DEF Connecting
  <2> QED BY <2>1, <2>2
<1>16. CASE VSyncLoop
  BY <1>16 DEF VSyncLoop
<1>17. CASE VSyncFire
  BY <1>17 DEF VSyncFire
<1>18. CASE EngineGroup
  BY <1>18 DEF EngineGroup
<1>19. CASE EngineRequest
  BY <1>19 DEF EngineRequest
<1>20. CASE EngineTimeout
  BY <1>20 DEF EngineTimeout
<1>21. CASE SFConnected
  BY <1>21 DEF SFConnected
<1>22. CASE SFDisconnected
  BY <1>22 DEF SFDisconnected
<1>23. CASE SFCalls
  BY <1>23 DEF SFCalls
<1>24. CASE GetActiveConfig
  BY <1>24 DEF GetActiveConfig
<1>25. CASE SFSwitchOn
  BY <1>25 DEF SFSwitchOn
<1>26. CASE SetPowerMode
  BY <1>26 DEF SetPowerMode
<1>27. CASE DisableVSync
  BY <1>27 DEF DisableVSync
<1>28. CASE HotplugOutDone
  BY <1>28 DEF HotplugOutDone
<1>29. CASE GetReleaseFence
  BY <1>29 DEF GetReleaseFence
<1>30. CASE SFFill
  BY <1>30 DEF SFFill
<1>31. CASE UNCHANGED vars
  BY <1>31 DEF vars
<1> QED BY <1>1, <1>2, <1>3, <1>4, <1>5, <1>6, <1>7, <1>8, <1>9, <1>10, <1>11,
          <1>12, <1>13, <1>14, <1>15, <1>16, <1>17, <1>18, <1>19, <1>20,
          <1>21, <1>22, <1>23, <1>24, <1>25, <1>26, <1>27, <1>28, <1>29,
          <1>30, <1>31
          DEF Next, UEventStep, SFStep

-----------------------------------------------------------------------------
(* The lists of VSync listeners.                                           *)

(* There are no listeners at first.                                        *)
LEMMA InitListeners == Init => ListenersLive
<1> SUFFICES ASSUME Init
             PROVE  ListenersLive
  OBVIOUS
<1>1. alloc = FALSE /\ made = 0 /\ callbacks = [d \in Displays |-> {}]
  BY Zenon DEF Init
<1>2. callbacks = [primary |-> {}, external |-> {}]
  BY <1>1 DEF Displays
<1>3. 1 .. made = {}
  BY <1>1
<1> QED BY <1>1, <1>2, <1>3 DEF ListenersLive

(* A plug-in adds the listener that the plug-out removes.                  *)
LEMMA NextListeners == TypeOK /\ ListenersLive /\ [Next]_vars => ListenersLive'
<1> SUFFICES ASSUME TypeOK, ListenersLive, [Next]_vars
             PROVE  ListenersLive'
  OBVIOUS
<1>0. DispatcherType /\ FlagType
  BY TypeParts
<1> USE <1>0
    DEF ListenersLive, DispatcherType, FlagType, Displays, RegisteredWith,
        ueventVars, planVars, managerVars, dispatcherVars, vsyncVars,
        displayVars, sfVars
<1>1. CASE HandleUevents
  BY <1>1 DEF HandleUevents
<1>2. CASE HotplugIgnored
  BY <1>2 DEF HotplugIgnored
<1>3. CASE PlugIn
  <2>1. UNCHANGED feature
    BY <1>3 DEF PlugIn
  <2>2. CASE UNCHANGED <<alloc, callbacks, made>>
    BY <2>1, <2>2
  <2>3. CASE ~alloc /\ SessionMade
    <3>1. /\ alloc' = TRUE /\ made' = made + 1
          /\ callbacks' = [callbacks EXCEPT
                             ![RegisteredWith(feature)] = @ \cup {made + 1}]
      BY <2>3 DEF SessionMade
    <3>2. 1 .. made + 1 = (1 .. made) \cup {made + 1}
      OBVIOUS
    <3>3. CASE feature
      <4>1. callbacks' = [primary |-> {}, external |-> {made + 1}]
        BY <2>3, <3>1, <3>3
      <4> QED BY <2>1, <3>1, <3>3, <4>1
    <3>4. CASE ~feature
      <4>1. callbacks' = [primary |-> 1 .. made + 1, external |-> {}]
        BY <2>3, <3>1, <3>2, <3>4
      <4> QED BY <2>1, <3>1, <3>4, <4>1
    <3> QED BY <3>3, <3>4
  <2> QED BY <2>2, <2>3, <1>3 DEF PlugIn, NoSession
<1>4. CASE CreateVsyncThread
  BY <1>4 DEF CreateVsyncThread
<1>5. CASE OnHotPlugExt
  BY <1>5 DEF OnHotPlugExt
<1>6. CASE StartVSync
  BY <1>6 DEF StartVSync
<1>7. CASE WaitAnswer
  BY <1>7 DEF WaitAnswer
<1>8. CASE WaitTimeout
  BY <1>8 DEF WaitTimeout
<1>9. CASE HotplugDone
  BY <1>9 DEF HotplugDone
<1>10. CASE StopVSync
  BY <1>10 DEF StopVSync
<1>11. CASE RequestExit
  BY <1>11 DEF RequestExit
<1>12. CASE KickThread
  BY <1>12 DEF KickThread
<1>13. CASE JoinThread
  BY <1>13 DEF JoinThread
<1>14. CASE ForgetThread
  BY <1>14 DEF ForgetThread
<1>15. CASE PlugOut
  <2>1. /\ callbacks' = [callbacks EXCEPT !["external"] = @ \ {made}]
        /\ ~alloc' /\ UNCHANGED <<feature, made>>
    BY <1>15 DEF PlugOut
  <2>2. CASE feature
    <3>1. callbacks' = [primary |-> {}, external |-> {}]
      BY <2>1, <2>2
    <3> QED BY <2>1, <2>2, <3>1
  <2>3. CASE ~feature
    <3>1. callbacks' = [primary |-> 1 .. made, external |-> {}]
      BY <2>1, <2>3
    <3> QED BY <2>1, <2>3, <3>1
  <2> QED BY <2>2, <2>3
<1>16. CASE VSyncLoop
  BY <1>16 DEF VSyncLoop
<1>17. CASE VSyncFire
  BY <1>17 DEF VSyncFire
<1>18. CASE EngineGroup
  BY <1>18 DEF EngineGroup
<1>19. CASE EngineRequest
  BY <1>19 DEF EngineRequest
<1>20. CASE EngineTimeout
  BY <1>20 DEF EngineTimeout
<1>21. CASE SFConnected
  BY <1>21 DEF SFConnected
<1>22. CASE SFDisconnected
  BY <1>22 DEF SFDisconnected
<1>23. CASE SFCalls
  BY <1>23 DEF SFCalls
<1>24. CASE GetActiveConfig
  BY <1>24 DEF GetActiveConfig
<1>25. CASE SFSwitchOn
  BY <1>25 DEF SFSwitchOn
<1>26. CASE SetPowerMode
  BY <1>26 DEF SetPowerMode
<1>27. CASE DisableVSync
  BY <1>27 DEF DisableVSync
<1>28. CASE HotplugOutDone
  BY <1>28 DEF HotplugOutDone
<1>29. CASE GetReleaseFence
  BY <1>29 DEF GetReleaseFence
<1>30. CASE SFFill
  BY <1>30 DEF SFFill
<1>31. CASE UNCHANGED vars
  BY <1>31 DEF vars
<1> QED BY <1>1, <1>2, <1>3, <1>4, <1>5, <1>6, <1>7, <1>8, <1>9, <1>10, <1>11,
          <1>12, <1>13, <1>14, <1>15, <1>16, <1>17, <1>18, <1>19, <1>20,
          <1>21, <1>22, <1>23, <1>24, <1>25, <1>26, <1>27, <1>28, <1>29,
          <1>30, <1>31
          DEF Next, UEventStep, SFStep

-----------------------------------------------------------------------------
(* The flip.                                                               *)

(* No call is under way at first and the flip is clear.                    *)
LEMMA InitFlip == Init => FlipFollowsCalls
<1> SUFFICES ASSUME Init
             PROVE  FlipFollowsCalls
  OBVIOUS
<1>1. ~flip /\ refused = 0 /\ call.op = "none"
  BY DEF Init, NoCall, Call
<1>2. flip \in BOOLEAN
  BY Zenon DEF Init
<1>3. (flip = (call.op \in {"between", "fill"})) /\ refused % 2 = 0
  BY <1>1, <1>2
<1> QED BY <1>3 DEF FlipFollowsCalls

(* Each call turns the flip, and a refused one turns their meaning.        *)
LEMMA NextFlip == TypeOK /\ FlipFollowsCalls /\ [Next]_vars => FlipFollowsCalls'
<1> SUFFICES ASSUME TypeOK, FlipFollowsCalls, [Next]_vars
             PROVE  FlipFollowsCalls'
  OBVIOUS
<1>0. FlingerType /\ FlagType
  BY TypeParts
<1> USE <1>0
    DEF FlipFollowsCalls, FlingerType, FlagType, Begins, Call, NoCall, Flipped,
        ueventVars, planVars, managerVars, dispatcherVars, vsyncVars,
        displayVars, sfVars
<1>1. CASE HandleUevents
  BY <1>1 DEF HandleUevents
<1>2. CASE HotplugIgnored
  BY <1>2 DEF HotplugIgnored
<1>3. CASE PlugIn
  BY <1>3 DEF PlugIn
<1>4. CASE CreateVsyncThread
  BY <1>4 DEF CreateVsyncThread
<1>5. CASE OnHotPlugExt
  BY <1>5 DEF OnHotPlugExt
<1>6. CASE StartVSync
  BY <1>6 DEF StartVSync
<1>7. CASE WaitAnswer
  BY <1>7 DEF WaitAnswer
<1>8. CASE WaitTimeout
  BY <1>8 DEF WaitTimeout
<1>9. CASE HotplugDone
  BY <1>9 DEF HotplugDone
<1>10. CASE StopVSync
  BY <1>10 DEF StopVSync
<1>11. CASE RequestExit
  BY <1>11 DEF RequestExit
<1>12. CASE KickThread
  BY <1>12 DEF KickThread
<1>13. CASE JoinThread
  BY <1>13 DEF JoinThread
<1>14. CASE ForgetThread
  BY <1>14 DEF ForgetThread
<1>15. CASE PlugOut
  BY <1>15 DEF PlugOut
<1>16. CASE VSyncLoop
  BY <1>16 DEF VSyncLoop
<1>17. CASE VSyncFire
  BY <1>17 DEF VSyncFire
<1>18. CASE EngineGroup
  BY <1>18 DEF EngineGroup
<1>19. CASE EngineRequest
  BY <1>19 DEF EngineRequest
<1>20. CASE EngineTimeout
  BY <1>20 DEF EngineTimeout
<1>21. CASE SFConnected
  BY <1>21 DEF SFConnected
<1>22. CASE SFDisconnected
  BY <1>22 DEF SFDisconnected
<1>23. CASE SFCalls
  BY <1>23 DEF SFCalls
<1>24. CASE GetActiveConfig
  BY <1>24 DEF GetActiveConfig
<1>25. CASE SFSwitchOn
  BY <1>25 DEF SFSwitchOn
<1>26. CASE SetPowerMode
  BY <1>26 DEF SetPowerMode
<1>27. CASE DisableVSync
  BY <1>27 DEF DisableVSync
<1>28. CASE HotplugOutDone
  BY <1>28 DEF HotplugOutDone
<1>29. CASE GetReleaseFence
  BY <1>29 DEF GetReleaseFence
<1>30. CASE SFFill
  BY <1>30 DEF SFFill
<1>31. CASE UNCHANGED vars
  BY <1>31 DEF vars
<1> QED BY <1>1, <1>2, <1>3, <1>4, <1>5, <1>6, <1>7, <1>8, <1>9, <1>10, <1>11,
          <1>12, <1>13, <1>14, <1>15, <1>16, <1>17, <1>18, <1>19, <1>20,
          <1>21, <1>22, <1>23, <1>24, <1>25, <1>26, <1>27, <1>28, <1>29,
          <1>30, <1>31
          DEF Next, UEventStep, SFStep

-----------------------------------------------------------------------------
(* The order of the answers.                                               *)

\* The last event told is the last in the queue, and once it is handled the
\* queue is empty; once it is answered, no call handles an event.  Queries of
\* SurfaceFlinger's own are about a display it knows, and its calls about one
\* that is gone are answers.
InOrder ==
    /\ \A i \in 1 .. Len(sfq) : sfq[i].id = told => i = Len(sfq)
    /\ call.event = told /\ call.event # 0 => sfq = <<>>
    /\ answered = told => sfq = <<>> /\ call.event = 0
    /\ call.op = "config" /\ call.event = 0 => known
    /\ call.op \in {"disable", "out_done"} => call.event # 0

(* The queue without its first event, and with one more.                   *)
LEMMA QueueHead ==
  ASSUME NEW S, NEW s \in Seq(S), s # <<>>
  PROVE  /\ Len(s) \in Nat /\ Len(s) >= 1 /\ Head(s) = s[1] /\ s[1] \in S
         /\ Tail(s) \in Seq(S) /\ Len(Tail(s)) = Len(s) - 1
         /\ \A i \in 1 .. Len(Tail(s)) : Tail(s)[i] = s[i + 1]
         /\ Tail(s) = <<>> <=> Len(s) = 1
<1>1. /\ Len(s) \in Nat /\ Len(s) # 0
      /\ Tail(s) \in Seq(S) /\ Len(Tail(s)) = Len(s) - 1
      /\ Head(s) = s[1] /\ Head(s) \in S
      /\ \A i \in 1 .. Len(Tail(s)) : Tail(s)[i] = s[i + 1]
  BY HeadTailProperties, EmptySeq
<1>2. Tail(s) = <<>> <=> Len(Tail(s)) = 0
  BY <1>1, EmptySeq
<1> QED BY <1>1, <1>2

LEMMA QueueEnd ==
  ASSUME NEW S, NEW s \in Seq(S), NEW x \in S
  PROVE  /\ Len(s) \in Nat /\ Len(Append(s, x)) = Len(s) + 1
         /\ Append(s, x)[Len(s) + 1] = x /\ Append(s, x) # <<>>
         /\ \A i \in 1 .. Len(s) : Append(s, x)[i] = s[i]
         /\ s = <<>> <=> Len(s) = 0
<1>1. s = <<>> <=> Len(s) = 0
  BY EmptySeq
<1> QED BY <1>1, AppendProperties

(* SurfaceFlinger handles a connection.                                    *)
LEMMA ConnectionHandled ==
  ASSUME FlingerType, SFConnected
  PROVE  /\ call.op = "none" /\ call.event = 0 /\ call.dpy = "primary"
         /\ Len(sfq) \in Nat /\ Len(sfq) >= 1 /\ Len(sfq') = Len(sfq) - 1
         /\ sfq # <<>> /\ (sfq' = <<>> <=> Len(sfq) = 1)
         /\ sfq[1].connect /\ sfq[1].id \in 1 .. told
         /\ \A i \in 1 .. Len(sfq') : sfq'[i] = sfq[i + 1]
         /\ known' = TRUE
         /\ connected => /\ call'.op = "config" /\ call'.event = sfq[1].id
                         /\ call'.dpy = "external" /\ answered' = answered
         /\ ~connected => call' = call /\ answered' = sfq[1].id
         /\ UNCHANGED upc /\ UNCHANGED todo /\ UNCHANGED told
         /\ UNCHANGED connected /\ UNCHANGED m_ext_active
         /\ UNCHANGED failures /\ UNCHANGED alloc
<1>1. /\ sfq # <<>> /\ sfq' = Tail(sfq) /\ call = NoCall /\ Head(sfq).connect
      /\ known' = TRUE
  BY DEF SFConnected
<1>2. sfq \in Seq(Event(told))
  BY DEF FlingerType
<1>3. /\ Len(sfq) \in Nat /\ Len(sfq) >= 1 /\ Head(sfq) = sfq[1]
      /\ sfq[1] \in Event(told) /\ Len(sfq') = Len(sfq) - 1
      /\ \A i \in 1 .. Len(sfq') : sfq'[i] = sfq[i + 1]
      /\ sfq' = <<>> <=> Len(sfq) = 1
  BY <1>1, <1>2, QueueHead
<1>4. sfq[1].id \in 1 .. told /\ sfq[1].connect
  BY <1>1, <1>3 DEF Event
<1>5. call.op = "none" /\ call.event = 0 /\ call.dpy = "primary"
  BY <1>1 DEF NoCall, Call
<1>6. connected => /\ call'.op = "config" /\ call'.event = sfq[1].id
                   /\ call'.dpy = "external" /\ answered' = answered
  BY <1>3 DEF SFConnected, Begins, Call
<1>7. ~connected => call' = call /\ answered' = sfq[1].id
  BY <1>3 DEF SFConnected
<1>8. /\ UNCHANGED upc /\ UNCHANGED todo /\ UNCHANGED told
      /\ UNCHANGED connected /\ UNCHANGED m_ext_active
      /\ UNCHANGED failures /\ UNCHANGED alloc
  BY DEF SFConnected, ueventVars, planVars, managerVars, dispatcherVars
<1> QED BY <1>1, <1>3, <1>4, <1>5, <1>6, <1>7, <1>8

(* SurfaceFlinger handles a disconnection.                                 *)
LEMMA DisconnectionHandled ==
  ASSUME FlingerType, SFDisconnected
  PROVE  /\ call.op = "none" /\ call.event = 0 /\ call.dpy = "primary"
         /\ Len(sfq) \in Nat /\ Len(sfq) >= 1 /\ Len(sfq') = Len(sfq) - 1
         /\ sfq # <<>> /\ (sfq' = <<>> <=> Len(sfq) = 1)
         /\ ~sfq[1].connect /\ sfq[1].id \in 1 .. told
         /\ \A i \in 1 .. Len(sfq') : sfq'[i] = sfq[i + 1]
         /\ known' = FALSE /\ answered' = answered
         /\ call'.event = sfq[1].id /\ call'.dpy = "external"
         /\ connected => call'.op = "disable"
         /\ ~connected => call'.op = "out_done"
         /\ UNCHANGED upc /\ UNCHANGED todo /\ UNCHANGED told
         /\ UNCHANGED connected /\ UNCHANGED m_ext_active
         /\ UNCHANGED failures /\ UNCHANGED alloc
<1>1. /\ sfq # <<>> /\ sfq' = Tail(sfq) /\ call = NoCall /\ ~Head(sfq).connect
      /\ known' = FALSE /\ answered' = answered
  BY DEF SFDisconnected
<1>2. sfq \in Seq(Event(told))
  BY DEF FlingerType
<1>3. /\ Len(sfq) \in Nat /\ Len(sfq) >= 1 /\ Head(sfq) = sfq[1]
      /\ sfq[1] \in Event(told) /\ Len(sfq') = Len(sfq) - 1
      /\ \A i \in 1 .. Len(sfq') : sfq'[i] = sfq[i + 1]
      /\ sfq' = <<>> <=> Len(sfq) = 1
  BY <1>1, <1>2, QueueHead
<1>4. sfq[1].id \in 1 .. told /\ ~sfq[1].connect
  BY <1>1, <1>3 DEF Event
<1>5. call.op = "none" /\ call.event = 0 /\ call.dpy = "primary"
  BY <1>1 DEF NoCall, Call
<1>6. /\ call'.event = sfq[1].id /\ call'.dpy = "external"
      /\ connected => call'.op = "disable"
      /\ ~connected => call'.op = "out_done"
  BY <1>3 DEF SFDisconnected, Begins, Call
<1>7. /\ UNCHANGED upc /\ UNCHANGED todo /\ UNCHANGED told
      /\ UNCHANGED connected /\ UNCHANGED m_ext_active
      /\ UNCHANGED failures /\ UNCHANGED alloc
  BY DEF SFDisconnected, ueventVars, planVars, managerVars, dispatcherVars
<1> QED BY <1>1, <1>3, <1>4, <1>5, <1>6, <1>7

(* SurfaceFlinger has the display's configuration.                         *)
LEMMA ConfigurationGot ==
  ASSUME FlingerType, GetActiveConfig
  PROVE  /\ call.op = "config" /\ m_ext_active' = TRUE
         /\ upc' = IF upc = "waiting" /\ m_ext_active # TRUE THEN "signalled"
                   ELSE upc
         /\ call'.event = 0
         /\ call.event = 0 =>
              /\ answered' = answered
              /\ call'.op = "none" /\ call'.dpy = "primary"
         /\ call.event # 0 =>
              /\ answered' = call.event
              /\ call'.op = "switch_on" /\ call'.dpy = "external"
         /\ UNCHANGED sfq /\ UNCHANGED todo /\ UNCHANGED told
         /\ UNCHANGED known /\ UNCHANGED connected
         /\ UNCHANGED failures /\ UNCHANGED alloc
<1>1. /\ call.op = "config" /\ m_ext_active' = TRUE
      /\ upc' = IF upc = "waiting" /\ m_ext_active # TRUE THEN "signalled"
                ELSE upc
  BY DEF GetActiveConfig, Notify
<1>2. call.event = 0 => /\ answered' = answered /\ call'.event = 0
                        /\ call'.op = "none" /\ call'.dpy = "primary"
  BY DEF GetActiveConfig, NoCall, Call
<1>3. call.event # 0 => /\ answered' = call.event /\ call'.event = 0
                        /\ call'.op = "switch_on" /\ call'.dpy = "external"
  BY DEF GetActiveConfig, Begins, Call
<1>4. /\ UNCHANGED sfq /\ UNCHANGED todo /\ UNCHANGED told
      /\ UNCHANGED known /\ UNCHANGED connected
      /\ UNCHANGED failures /\ UNCHANGED alloc
  BY DEF GetActiveConfig, planVars, dispatcherVars
<1> QED BY <1>1, <1>2, <1>3, <1>4

(* SurfaceFlinger is done with a display that is gone.                     *)
LEMMA GoneHandled ==
  ASSUME FlingerType, HotplugOutDone
  PROVE  /\ call.op = "out_done" /\ m_ext_active' = FALSE
         /\ upc' = IF upc = "waiting" /\ FALSE # m_ext_active THEN "signalled"
                   ELSE upc
         /\ answered' = call.event
         /\ call'.event = 0 /\ call'.op = "none" /\ call'.dpy = "primary"
         /\ UNCHANGED sfq /\ UNCHANGED todo /\ UNCHANGED told
         /\ UNCHANGED known /\ UNCHANGED connected
         /\ UNCHANGED failures /\ UNCHANGED alloc
<1>1. /\ call.op = "out_done" /\ m_ext_active' = FALSE
      /\ upc' = IF upc = "waiting" /\ FALSE # m_ext_active THEN "signalled"
                ELSE upc
      /\ answered' = call.event
  BY DEF HotplugOutDone, Notify
<1>2. call'.event = 0 /\ call'.op = "none" /\ call'.dpy = "primary"
  BY DEF HotplugOutDone, NoCall, Call
<1>3. /\ UNCHANGED sfq /\ UNCHANGED todo /\ UNCHANGED told
      /\ UNCHANGED known /\ UNCHANGED connected
      /\ UNCHANGED failures /\ UNCHANGED alloc
  BY DEF HotplugOutDone, planVars, dispatcherVars
<1> QED BY <1>1, <1>2, <1>3

(* A call of hotplugExt that is outstanding says which way it goes.        *)
LEMMA ConnectingBoolean ==
  ASSUME PlanType, upc # "idle"
  PROVE  Connecting \in BOOLEAN
<1>1. todo # <<>> /\ todo \in Seq(BOOLEAN)
  BY DEF PlanType
<1> QED BY <1>1 DEF Connecting

(* No event was told at first.                                             *)
LEMMA InitInOrder == Init => InOrder
  BY DEF Init, InOrder, NoCall, Call

(* Every step leaves events and answers in order.                          *)
LEMMA NextInOrder == TypeOK /\ InOrder /\ [Next]_vars => InOrder'
<1> SUFFICES ASSUME TypeOK, InOrder, [Next]_vars
             PROVE  InOrder'
  OBVIOUS
<1>1. /\ told \in Nat /\ answered \in 0 .. told
      /\ sfq \in Seq(Event(told)) /\ Len(sfq) \in Nat
      /\ sfq = <<>> <=> Len(sfq) = 0
      /\ call \in [op : Ops, dpy : Displays, event : 0 .. told]
  BY TypeParts, EventParts DEF FlingerType
<1>2. \A i \in 1 .. Len(sfq) : /\ sfq[i].id \in 1 .. told
                               /\ sfq[i].connect \in BOOLEAN
  BY <1>1, EventParts
<1> USE <1>1
    DEF InOrder, Begins, Call, NoCall, ueventVars, planVars, managerVars, dispatcherVars, vsyncVars,
        displayVars, sfVars
<1>3. CASE OnHotPlugExt
  <2>1. Connecting \in BOOLEAN
    BY <1>3, TypeParts, ConnectingBoolean DEF OnHotPlugExt
  <2> DEFINE e == [connect |-> Connecting, id |-> told + 1]
  <2>2. e \in Event(told + 1) /\ (e.connect <=> Connecting) /\ e.id = told + 1
    BY <2>1 DEF Event
  <2>3. sfq \in Seq(Event(told + 1))
    BY <2>1, MoreEvents
  <2>4. sfq' = Append(sfq, e) /\ told' = told + 1
    BY <1>3 DEF OnHotPlugExt
  <2> HIDE DEF e
  <2>5. /\ Len(sfq) \in Nat /\ Len(sfq') = Len(sfq) + 1
        /\ sfq'[Len(sfq')] = e /\ sfq' # <<>>
        /\ \A i \in 1 .. Len(sfq) : sfq'[i] = sfq[i]
        /\ sfq = <<>> <=> Len(sfq) = 0
    BY <2>2, <2>3, <2>4, QueueEnd
  <2>6. UNCHANGED <<call, answered, known>>
    BY <1>3 DEF OnHotPlugExt
  <2> QED BY <1>2, <2>4, <2>5, <2>6
<1>4. CASE SFConnected
  <2> HIDE DEF Begins, Call, NoCall
  <2> QED BY <1>4, TypeParts, ConnectionHandled, <1>2
<1>5. CASE SFDisconnected
  <2> HIDE DEF Begins, Call, NoCall
  <2> QED BY <1>5, TypeParts, DisconnectionHandled, <1>2
<1>6. CASE HandleUevents
  BY <1>6 DEF HandleUevents
<1>7. CASE HotplugIgnored
  BY <1>7 DEF HotplugIgnored
<1>8. CASE PlugIn
  BY <1>8 DEF PlugIn
<1>9. CASE CreateVsyncThread
  BY <1>9 DEF CreateVsyncThread
<1>10. CASE StartVSync
  BY <1>10 DEF StartVSync
<1>11. CASE WaitAnswer
  BY <1>11 DEF WaitAnswer
<1>12. CASE WaitTimeout
  BY <1>12 DEF WaitTimeout
<1>13. CASE HotplugDone
  BY <1>13 DEF HotplugDone
<1>14. CASE StopVSync
  BY <1>14 DEF StopVSync
<1>15. CASE RequestExit
  BY <1>15 DEF RequestExit
<1>16. CASE KickThread
  BY <1>16 DEF KickThread
<1>17. CASE JoinThread
  BY <1>17 DEF JoinThread
<1>18. CASE ForgetThread
  BY <1>18 DEF ForgetThread
<1>19. CASE PlugOut
  BY <1>19 DEF PlugOut
<1>20. CASE VSyncLoop
  BY <1>20 DEF VSyncLoop
<1>21. CASE VSyncFire
  BY <1>21 DEF VSyncFire
<1>22. CASE EngineGroup
  BY <1>22 DEF EngineGroup
<1>23. CASE EngineRequest
  BY <1>23 DEF EngineRequest
<1>24. CASE EngineTimeout
  BY <1>24 DEF EngineTimeout
<1>25. CASE SFCalls
  BY <1>25 DEF SFCalls
<1>26. CASE GetActiveConfig
  <2> HIDE DEF Begins, Call, NoCall
  <2> QED BY <1>26, TypeParts, ConfigurationGot, <1>2
<1>27. CASE SFSwitchOn
  BY <1>27 DEF SFSwitchOn
<1>28. CASE SetPowerMode
  BY <1>28 DEF SetPowerMode
<1>29. CASE DisableVSync
  BY <1>29 DEF DisableVSync
<1>30. CASE HotplugOutDone
  <2> HIDE DEF Begins, Call, NoCall
  <2> QED BY <1>30, TypeParts, GoneHandled, <1>2
<1>31. CASE GetReleaseFence
  BY <1>31 DEF GetReleaseFence
<1>32. CASE SFFill
  BY <1>32 DEF SFFill
<1>33. CASE UNCHANGED vars
  BY <1>33 DEF vars
<1> QED
  BY <1>3, <1>4, <1>5, <1>6, <1>7, <1>8, <1>9, <1>10, <1>11, <1>12,
     <1>13, <1>14, <1>15, <1>16, <1>17, <1>18, <1>19, <1>20, <1>21,
     <1>22, <1>23, <1>24, <1>25, <1>26, <1>27, <1>28, <1>29, <1>30,
     <1>31, <1>32, <1>33
  DEF Next, UEventStep, SFStep

-----------------------------------------------------------------------------
(* Answers in time.                                                        *)

Waits == {"start", "sleep", "waiting"}
Ended == {"signalled", "timedout"}

\* While a plug-in is not answered, its event alone is in SurfaceFlinger's
\* queue, or SurfaceFlinger is in the call that answers it.
InAnswered ==
    \/ answered = told
    \/ Len(sfq) = 1 /\ sfq[1].id = told /\ sfq[1].connect /\ call.event = 0
    \/ sfq = <<>> /\ call.event = told /\ call.op = "config"

\* While a plug-out is not answered, its event is the last in the queue, or
\* SurfaceFlinger is in the call that answers it; then SurfaceFlinger uses the
\* display no more.
OutPending ==
    /\ answered # told /\ sfq # <<>> /\ call.op # "out_done"
    /\ sfq[Len(sfq)].id = told /\ ~sfq[Len(sfq)].connect
OutAnswering ==
    /\ answered # told /\ ~known
    /\ call.op = "out_done" /\ call.event = told
OutAnswered == answered = told /\ ~known /\ call.dpy = "primary"

\* SurfaceFlinger handles a plug-out only while hotplugExt waits for that.
OutsAwaited ==
    /\ (\/ call.op \in {"disable", "out_done"}
        \/ \E i \in 1 .. Len(sfq) : ~sfq[i].connect) =>
           upc \in Waits /\ ~Connecting
    /\ \A i \in 1 .. Len(sfq) : ~sfq[i].connect => i = Len(sfq)
    /\ call.op # "disable"

\* Each wait ends with its answer, but for one after a failed plug-in: that
\* may end when SurfaceFlinger, which knows the display, asks for its
\* configuration before it hears that it is connected now.
WaitsEnd ==
    /\ upc \in Waits => IF Connecting THEN InAnswered
                        ELSE OutPending \/ OutAnswering \/ OutAnswered
    /\ upc \in Ended /\ ~Connecting => OutAnswered
    /\ upc \in Ended /\ Connecting => answered = told \/ (known /\ failures # 0)
    /\ upc \in {"idle", "call"} \cup Ended /\ ~connected => answered = told
    /\ upc \in {"thread", "report"} /\ Connecting => answered = told

\* What m_ext_active tells of a display that is connected, and of one that is
\* gone while SurfaceFlinger still asks for its configuration.
ActiveSince ==
    /\ connected /\ upc \notin {"thread", "report"} \cup Waits => m_ext_active
    /\ connected /\ answered = told /\ upc \in Waits => m_ext_active
    /\ ~connected /\ call.op = "config" => m_ext_active

\* As long as no plug-in fails, SurfaceFlinger knows no display that is gone,
\* and what it knows is active.
KnownSince ==
    failures = 0 =>
      /\ ~connected /\ answered = told /\ upc # "report" => ~known
      /\ connected /\ known /\ call.event = 0 => m_ext_active

\* All this lasts until a wait is given up before its answer came.
InTime == ~late => OutsAwaited /\ WaitsEnd /\ ActiveSince /\ KnownSince

(* A wait given up stays given up.                                         *)
LEMMA LateKept == [Next]_vars => (late => late')
<1> SUFFICES ASSUME [Next]_vars, late
             PROVE  late'
  OBVIOUS
<1> USE DEF ueventVars, planVars, managerVars, dispatcherVars, vsyncVars, displayVars, sfVars
<1>1. CASE HandleUevents
  BY <1>1 DEF HandleUevents
<1>2. CASE HotplugIgnored
  BY <1>2 DEF HotplugIgnored
<1>3. CASE PlugIn
  BY <1>3 DEF PlugIn
<1>4. CASE CreateVsyncThread
  BY <1>4 DEF CreateVsyncThread
<1>5. CASE OnHotPlugExt
  BY <1>5 DEF OnHotPlugExt
<1>6. CASE StartVSync
  BY <1>6 DEF StartVSync
<1>7. CASE WaitAnswer
  BY <1>7 DEF WaitAnswer
<1>8. CASE WaitTimeout
  BY <1>8 DEF WaitTimeout
<1>9. CASE HotplugDone
  BY <1>9 DEF HotplugDone
<1>10. CASE StopVSync
  BY <1>10 DEF StopVSync
<1>11. CASE RequestExit
  BY <1>11 DEF RequestExit
<1>12. CASE KickThread
  BY <1>12 DEF KickThread
<1>13. CASE JoinThread
  BY <1>13 DEF JoinThread
<1>14. CASE ForgetThread
  BY <1>14 DEF ForgetThread
<1>15. CASE PlugOut
  BY <1>15 DEF PlugOut
<1>16. CASE VSyncLoop
  BY <1>16 DEF VSyncLoop
<1>17. CASE VSyncFire
  BY <1>17 DEF VSyncFire
<1>18. CASE EngineGroup
  BY <1>18 DEF EngineGroup
<1>19. CASE EngineRequest
  BY <1>19 DEF EngineRequest
<1>20. CASE EngineTimeout
  BY <1>20 DEF EngineTimeout
<1>21. CASE SFConnected
  BY <1>21 DEF SFConnected
<1>22. CASE SFDisconnected
  BY <1>22 DEF SFDisconnected
<1>23. CASE SFCalls
  BY <1>23 DEF SFCalls
<1>24. CASE GetActiveConfig
  BY <1>24 DEF GetActiveConfig
<1>25. CASE SFSwitchOn
  BY <1>25 DEF SFSwitchOn
<1>26. CASE SetPowerMode
  BY <1>26 DEF SetPowerMode
<1>27. CASE DisableVSync
  BY <1>27 DEF DisableVSync
<1>28. CASE HotplugOutDone
  BY <1>28 DEF HotplugOutDone
<1>29. CASE GetReleaseFence
  BY <1>29 DEF GetReleaseFence
<1>30. CASE SFFill
  BY <1>30 DEF SFFill
<1>31. CASE UNCHANGED vars
  BY <1>31 DEF vars
<1> QED
  BY <1>1, <1>2, <1>3, <1>4, <1>5, <1>6, <1>7, <1>8, <1>9, <1>10,
     <1>11, <1>12, <1>13, <1>14, <1>15, <1>16, <1>17, <1>18, <1>19,
     <1>20, <1>21, <1>22, <1>23, <1>24, <1>25, <1>26, <1>27, <1>28,
     <1>29, <1>30, <1>31
  DEF Next, UEventStep, SFStep

(* No wait ended and nothing was told at first.                            *)
LEMMA InitInTime == Init => InTime
  BY DEF Init, InTime, OutsAwaited, WaitsEnd, ActiveSince, KnownSince, Waits,
         Ended, NoCall, Call

(* Plug-outs are handled in their waits.                                   *)
LEMMA NextOutsAwaited ==
  ASSUME TypeOK, Stages, InOrder, OutsAwaited, WaitsEnd, ActiveSince,
         KnownSince, [Next]_vars, ~late'
  PROVE  OutsAwaited'
<1>1. /\ upc # "idle" => todo # <<>>
      /\ told \in Nat /\ answered \in 0 .. told
      /\ sfq \in Seq(Event(told)) /\ Len(sfq) \in Nat
      /\ sfq = <<>> <=> Len(sfq) = 0
      /\ call \in [op : Ops, dpy : Displays, event : 0 .. told]
      /\ connected \in BOOLEAN /\ m_ext_active \in BOOLEAN
      /\ known \in BOOLEAN /\ failures \in Nat /\ alloc \in BOOLEAN
  BY TypeParts, EmptySeq DEF PlanType, FlagType, DispatcherType, FlingerType
<1>2. /\ upc \in Tearing => connected /\ ~Connecting
      /\ upc \in {"thread", "start"} => Connecting
      /\ upc \in {"thread", "report", "start", "sleep", "waiting",
                  "signalled", "timedout"} =>
            IF Connecting THEN connected \/ failures # 0 ELSE ~alloc
      /\ connected => alloc
  BY DEF Stages
<1>3. UNCHANGED todo => (Connecting' <=> Connecting)
  BY DEF Connecting
<1>4. \A i \in 1 .. Len(sfq) : /\ sfq[i].id \in 1 .. told
                               /\ sfq[i].connect \in BOOLEAN
  BY <1>1, EventParts
<1> USE <1>1, <1>2, <1>3
    DEF InOrder, OutsAwaited, WaitsEnd, ActiveSince, KnownSince, InAnswered,
        OutPending, OutAnswering, OutAnswered, Waits, Ended, Tearing,
        HotplugReturns, Notify, NothingToDo, Begins, Call, NoCall, Displays,
        Ops, ueventVars, planVars, managerVars, dispatcherVars, vsyncVars,
        displayVars, sfVars
<1>5. CASE OnHotPlugExt
  <2>1. Connecting \in BOOLEAN
    BY <1>5, TypeParts, ConnectingBoolean DEF OnHotPlugExt
  <2> DEFINE e == [connect |-> Connecting, id |-> told + 1]
  <2>2. e \in Event(told + 1) /\ (e.connect <=> Connecting) /\ e.id = told + 1
    BY <2>1 DEF Event
  <2>3. sfq \in Seq(Event(told + 1))
    BY <2>1, MoreEvents
  <2>4. sfq' = Append(sfq, e) /\ told' = told + 1
    BY <1>5 DEF OnHotPlugExt
  <2> HIDE DEF e
  <2>5. /\ Len(sfq) \in Nat /\ Len(sfq') = Len(sfq) + 1
        /\ sfq'[Len(sfq')] = e /\ sfq' # <<>>
        /\ \A i \in 1 .. Len(sfq) : sfq'[i] = sfq[i]
        /\ sfq = <<>> <=> Len(sfq) = 0
    BY <2>2, <2>3, <2>4, QueueEnd
  <2>6. /\ UNCHANGED <<call, answered, known, connected, m_ext_active, failures,
                        todo>>
        /\ upc = "report" /\ upc' = (IF Connecting THEN "start" ELSE "sleep")
    BY <1>5 DEF OnHotPlugExt
  <2> QED BY <1>4, <2>1, <2>2, <2>4, <2>5, <2>6
<1>6. CASE SFConnected
  <2> HIDE DEF Begins, Call, NoCall, Connecting, NothingToDo, Notify
  <2>1. \A i \in 1 .. Len(sfq') : /\ i + 1 \in 1 .. Len(sfq)
                                 /\ sfq'[i] = sfq[i + 1]
    BY <1>6, TypeParts, ConnectionHandled
  <2>2. /\ Len(sfq') = Len(sfq) - 1 /\ Len(sfq) \in Nat
        /\ UNCHANGED upc /\ UNCHANGED todo
        /\ call'.op \notin {"disable", "out_done"}
    BY <1>6, TypeParts, ConnectionHandled
  <2>3. ASSUME NEW i \in 1 .. Len(sfq'), ~sfq'[i].connect
        PROVE  upc' \in Waits /\ ~Connecting' /\ i = Len(sfq')
    <3>1. i + 1 \in 1 .. Len(sfq) /\ ~sfq[i + 1].connect
      BY <2>1, <2>3
    <3>2. i + 1 = Len(sfq) /\ upc \in Waits /\ ~Connecting
      BY <3>1
    <3> QED BY <2>2, <3>2
  <2> QED BY <2>2, <2>3
<1>7. CASE SFDisconnected
  <2> HIDE DEF Begins, Call, NoCall, Connecting, NothingToDo, Notify
  <2> QED BY <1>7, TypeParts, DisconnectionHandled, <1>4
<1>8. CASE PlugIn
  <2>1. /\ upc = "call" /\ Connecting /\ ~connected /\ upc' = "thread"
        /\ UNCHANGED <<todo, told, sfq, call, answered, known, m_ext_active>>
        /\ connected' \in BOOLEAN
        /\ failures' = IF connected' THEN failures ELSE failures + 1
    BY <1>8, PlugInOutcome DEF PlugIn
  <2> HIDE DEF Connecting, NothingToDo
  <2> QED BY <2>1
<1>9. CASE HandleUevents
  BY <1>9 DEF HandleUevents
<1>10. CASE HotplugIgnored
  BY <1>10 DEF HotplugIgnored
<1>11. CASE CreateVsyncThread
  BY <1>11 DEF CreateVsyncThread
<1>12. CASE StartVSync
  BY <1>12 DEF StartVSync
<1>13. CASE WaitAnswer
  BY <1>13 DEF WaitAnswer
<1>14. CASE WaitTimeout
  <2>1. /\ UNCHANGED <<todo, sfq, call>> /\ upc = "waiting"
        /\ answered = told
    BY <1>14 DEF WaitTimeout
  <2>2. Len(sfq) = 0 /\ call.event = 0
    BY <2>1
  <2>3. call.op \notin {"disable", "out_done"}
    BY <2>2
  <2> QED BY <2>1, <2>2, <2>3
<1>15. CASE HotplugDone
  BY <1>15 DEF HotplugDone
<1>16. CASE StopVSync
  BY <1>16 DEF StopVSync
<1>17. CASE RequestExit
  BY <1>17 DEF RequestExit
<1>18. CASE KickThread
  BY <1>18 DEF KickThread
<1>19. CASE JoinThread
  BY <1>19 DEF JoinThread
<1>20. CASE ForgetThread
  BY <1>20 DEF ForgetThread
<1>21. CASE PlugOut
  BY <1>21 DEF PlugOut
<1>22. CASE VSyncLoop
  BY <1>22 DEF VSyncLoop
<1>23. CASE VSyncFire
  BY <1>23 DEF VSyncFire
<1>24. CASE EngineGroup
  BY <1>24 DEF EngineGroup
<1>25. CASE EngineRequest
  BY <1>25 DEF EngineRequest
<1>26. CASE EngineTimeout
  BY <1>26 DEF EngineTimeout
<1>27. CASE SFCalls
  BY <1>27 DEF SFCalls
<1>28. CASE GetActiveConfig
  <2> HIDE DEF Begins, Call, NoCall, Connecting, NothingToDo, Notify
  <2> QED BY <1>28, TypeParts, ConfigurationGot, <1>4
<1>29. CASE SFSwitchOn
  BY <1>29 DEF SFSwitchOn
<1>30. CASE SetPowerMode
  BY <1>30 DEF SetPowerMode
<1>31. CASE DisableVSync
  BY <1>31 DEF DisableVSync
<1>32. CASE HotplugOutDone
  <2> HIDE DEF Begins, Call, NoCall, Connecting, NothingToDo, Notify
  <2>1. /\ call.op = "out_done" /\ call'.op = "none" /\ UNCHANGED sfq
        /\ UNCHANGED todo /\ call.event # 0
    BY <1>32, TypeParts, GoneHandled
  <2>2. upc \in Waits /\ ~Connecting
    BY <2>1
  <2>3. call.event = told /\ sfq = <<>>
    BY <2>1, <2>2, <1>4
  <2> QED BY <2>1, <2>3
<1>33. CASE GetReleaseFence
  BY <1>33 DEF GetReleaseFence
<1>34. CASE SFFill
  BY <1>34 DEF SFFill
<1>35. CASE UNCHANGED vars
  BY <1>35 DEF vars
<1> QED
  BY <1>5, <1>6, <1>7, <1>8, <1>9, <1>10, <1>11, <1>12, <1>13, <1>14,
     <1>15, <1>16, <1>17, <1>18, <1>19, <1>20, <1>21, <1>22, <1>23,
     <1>24, <1>25, <1>26, <1>27, <1>28, <1>29, <1>30, <1>31, <1>32,
     <1>33, <1>34, <1>35
  DEF Next, UEventStep, SFStep

(* A wait ends with its answer.                                            *)
LEMMA NextWaitsEnd ==
  ASSUME TypeOK, Stages, InOrder, OutsAwaited, WaitsEnd, ActiveSince,
         KnownSince, [Next]_vars, ~late'
  PROVE  WaitsEnd'
<1>1. /\ upc # "idle" => todo # <<>>
      /\ told \in Nat /\ answered \in 0 .. told
      /\ sfq \in Seq(Event(told)) /\ Len(sfq) \in Nat
      /\ sfq = <<>> <=> Len(sfq) = 0
      /\ call \in [op : Ops, dpy : Displays, event : 0 .. told]
      /\ connected \in BOOLEAN /\ m_ext_active \in BOOLEAN
      /\ known \in BOOLEAN /\ failures \in Nat /\ alloc \in BOOLEAN
  BY TypeParts, EmptySeq DEF PlanType, FlagType, DispatcherType, FlingerType
<1>2. /\ upc \in Tearing => connected /\ ~Connecting
      /\ upc \in {"thread", "start"} => Connecting
      /\ upc \in {"thread", "report", "start", "sleep", "waiting",
                  "signalled", "timedout"} =>
            IF Connecting THEN connected \/ failures # 0 ELSE ~alloc
      /\ connected => alloc
  BY DEF Stages
<1>3. UNCHANGED todo => (Connecting' <=> Connecting)
  BY DEF Connecting
<1>4. \A i \in 1 .. Len(sfq) : /\ sfq[i].id \in 1 .. told
                               /\ sfq[i].connect \in BOOLEAN
  BY <1>1, EventParts
<1> USE <1>1, <1>2, <1>3
    DEF InOrder, OutsAwaited, WaitsEnd, ActiveSince, KnownSince, InAnswered,
        OutPending, OutAnswering, OutAnswered, Waits, Ended, Tearing,
        HotplugReturns, Notify, NothingToDo, Begins, Call, NoCall, Displays,
        Ops, ueventVars, planVars, managerVars, dispatcherVars, vsyncVars,
        displayVars, sfVars
<1>5. CASE OnHotPlugExt
  <2>1. Connecting \in BOOLEAN
    BY <1>5, TypeParts, ConnectingBoolean DEF OnHotPlugExt
  <2> DEFINE e == [connect |-> Connecting, id |-> told + 1]
  <2>2. e \in Event(told + 1) /\ (e.connect <=> Connecting) /\ e.id = told + 1
    BY <2>1 DEF Event
  <2>3. sfq \in Seq(Event(told + 1))
    BY <2>1, MoreEvents
  <2>4. sfq' = Append(sfq, e) /\ told' = told + 1
    BY <1>5 DEF OnHotPlugExt
  <2> HIDE DEF e
  <2>5. /\ Len(sfq) \in Nat /\ Len(sfq') = Len(sfq) + 1
        /\ sfq'[Len(sfq')] = e /\ sfq' # <<>>
        /\ \A i \in 1 .. Len(sfq) : sfq'[i] = sfq[i]
        /\ sfq = <<>> <=> Len(sfq) = 0
    BY <2>2, <2>3, <2>4, QueueEnd
  <2>6. /\ UNCHANGED <<call, answered, known, connected, m_ext_active, failures,
                        todo>>
        /\ upc = "report" /\ upc' = (IF Connecting THEN "start" ELSE "sleep")
    BY <1>5 DEF OnHotPlugExt
  <2> QED BY <1>4, <2>1, <2>2, <2>4, <2>5, <2>6
<1>6. CASE SFConnected
  <2> HIDE DEF Begins, Call, NoCall, Connecting, NothingToDo, Notify
  <2> QED BY <1>6, TypeParts, ConnectionHandled, <1>4
<1>7. CASE SFDisconnected
  <2> HIDE DEF Begins, Call, NoCall, Connecting, NothingToDo, Notify
  <2> QED BY <1>7, TypeParts, DisconnectionHandled, <1>4
<1>8. CASE PlugIn
  <2>1. /\ upc = "call" /\ Connecting /\ ~connected /\ upc' = "thread"
        /\ UNCHANGED <<todo, told, sfq, call, answered, known, m_ext_active>>
        /\ connected' \in BOOLEAN
        /\ failures' = IF connected' THEN failures ELSE failures + 1
    BY <1>8, PlugInOutcome DEF PlugIn
  <2> HIDE DEF Connecting, NothingToDo
  <2> QED BY <2>1
<1>9. CASE HandleUevents
  BY <1>9 DEF HandleUevents
<1>10. CASE HotplugIgnored
  BY <1>10 DEF HotplugIgnored
<1>11. CASE CreateVsyncThread
  BY <1>11 DEF CreateVsyncThread
<1>12. CASE StartVSync
  BY <1>12 DEF StartVSync
<1>13. CASE WaitAnswer
  BY <1>13 DEF WaitAnswer
<1>14. CASE WaitTimeout
  BY <1>14 DEF WaitTimeout
<1>15. CASE HotplugDone
  BY <1>15 DEF HotplugDone
<1>16. CASE StopVSync
  BY <1>16 DEF StopVSync
<1>17. CASE RequestExit
  BY <1>17 DEF RequestExit
<1>18. CASE KickThread
  BY <1>18 DEF KickThread
<1>19. CASE JoinThread
  BY <1>19 DEF JoinThread
<1>20. CASE ForgetThread
  BY <1>20 DEF ForgetThread
<1>21. CASE PlugOut
  BY <1>21 DEF PlugOut
<1>22. CASE VSyncLoop
  BY <1>22 DEF VSyncLoop
<1>23. CASE VSyncFire
  BY <1>23 DEF VSyncFire
<1>24. CASE EngineGroup
  BY <1>24 DEF EngineGroup
<1>25. CASE EngineRequest
  BY <1>25 DEF EngineRequest
<1>26. CASE EngineTimeout
  BY <1>26 DEF EngineTimeout
<1>27. CASE SFCalls
  BY <1>27 DEF SFCalls
<1>28. CASE GetActiveConfig
  <2> HIDE DEF Begins, Call, NoCall, Connecting, NothingToDo, Notify
  <2>1. /\ call.op = "config" /\ call'.event = 0
        /\ call'.op \in {"none", "switch_on"}
        /\ UNCHANGED sfq /\ UNCHANGED told /\ UNCHANGED known
        /\ UNCHANGED connected /\ UNCHANGED failures
        /\ Connecting' <=> Connecting
        /\ upc' = upc \/ (upc = "waiting" /\ upc' = "signalled" /\ ~m_ext_active)
        /\ call.event = 0 => answered' = answered /\ call'.dpy = "primary"
        /\ call.event # 0 => answered' = call.event
    BY <1>28, TypeParts, ConfigurationGot
  <2>2. CASE upc' = upc
    <3>1. CASE call.event = 0
      BY <2>1, <2>2, <3>1
    <3>2. CASE call.event # 0
      BY <2>1, <2>2, <3>2
    <3> QED BY <3>1, <3>2
  <2>3. CASE upc = "waiting" /\ upc' = "signalled" /\ ~m_ext_active
    <3>1. connected /\ Connecting
      BY <2>1, <2>3
    <3>2. CASE call.event = 0
      BY <2>1, <2>3, <3>1, <3>2
    <3>3. CASE call.event # 0
      BY <2>1, <2>3, <3>1, <3>3
    <3> QED BY <3>2, <3>3
  <2> QED BY <2>1, <2>2, <2>3
<1>29. CASE SFSwitchOn
  BY <1>29 DEF SFSwitchOn
<1>30. CASE SetPowerMode
  BY <1>30 DEF SetPowerMode
<1>31. CASE DisableVSync
  BY <1>31 DEF DisableVSync
<1>32. CASE HotplugOutDone
  <2> HIDE DEF Begins, Call, NoCall, Connecting, NothingToDo, Notify
  <2>1. /\ call.op = "out_done" /\ call'.op = "none" /\ call'.event = 0
        /\ call'.dpy = "primary" /\ answered' = call.event
        /\ UNCHANGED sfq /\ UNCHANGED told /\ UNCHANGED known
        /\ UNCHANGED connected /\ UNCHANGED failures
        /\ Connecting' <=> Connecting
        /\ upc' = upc \/ (upc = "waiting" /\ upc' = "signalled")
        /\ call.event # 0
    BY <1>32, TypeParts, GoneHandled
  <2>2. upc \in Waits /\ ~Connecting
    BY <2>1
  <2>3. call.event = told /\ sfq = <<>> /\ ~known
    BY <2>1, <2>2, <1>4
  <2> QED BY <2>1, <2>2, <2>3
<1>33. CASE GetReleaseFence
  BY <1>33 DEF GetReleaseFence
<1>34. CASE SFFill
  BY <1>34 DEF SFFill
<1>35. CASE UNCHANGED vars
  BY <1>35 DEF vars
<1> QED
  BY <1>5, <1>6, <1>7, <1>8, <1>9, <1>10, <1>11, <1>12, <1>13, <1>14,
     <1>15, <1>16, <1>17, <1>18, <1>19, <1>20, <1>21, <1>22, <1>23,
     <1>24, <1>25, <1>26, <1>27, <1>28, <1>29, <1>30, <1>31, <1>32,
     <1>33, <1>34, <1>35
  DEF Next, UEventStep, SFStep

(* What m_ext_active tells.                                                *)
LEMMA NextActiveSince ==
  ASSUME TypeOK, Stages, InOrder, OutsAwaited, WaitsEnd, ActiveSince,
         KnownSince, [Next]_vars, ~late'
  PROVE  ActiveSince'
<1>1. /\ upc # "idle" => todo # <<>>
      /\ told \in Nat /\ answered \in 0 .. told
      /\ sfq \in Seq(Event(told)) /\ Len(sfq) \in Nat
      /\ sfq = <<>> <=> Len(sfq) = 0
      /\ call \in [op : Ops, dpy : Displays, event : 0 .. told]
      /\ connected \in BOOLEAN /\ m_ext_active \in BOOLEAN
      /\ known \in BOOLEAN /\ failures \in Nat /\ alloc \in BOOLEAN
  BY TypeParts, EmptySeq DEF PlanType, FlagType, DispatcherType, FlingerType
<1>2. /\ upc \in Tearing => connected /\ ~Connecting
      /\ upc \in {"thread", "start"} => Connecting
      /\ upc \in {"thread", "report", "start", "sleep", "waiting",
                  "signalled", "timedout"} =>
            IF Connecting THEN connected \/ failures # 0 ELSE ~alloc
      /\ connected => alloc
  BY DEF Stages
<1>3. UNCHANGED todo => (Connecting' <=> Connecting)
  BY DEF Connecting
<1>4. \A i \in 1 .. Len(sfq) : /\ sfq[i].id \in 1 .. told
                               /\ sfq[i].connect \in BOOLEAN
  BY <1>1, EventParts
<1> USE <1>1, <1>2, <1>3
    DEF InOrder, OutsAwaited, WaitsEnd, ActiveSince, KnownSince, InAnswered,
        OutPending, OutAnswering, OutAnswered, Waits, Ended, Tearing,
        HotplugReturns, Notify, NothingToDo, Begins, Call, NoCall, Displays,
        Ops, ueventVars, planVars, managerVars, dispatcherVars, vsyncVars,
        displayVars, sfVars
<1>5. CASE OnHotPlugExt
  <2>1. Connecting \in BOOLEAN
    BY <1>5, TypeParts, ConnectingBoolean DEF OnHotPlugExt
  <2> DEFINE e == [connect |-> Connecting, id |-> told + 1]
  <2>2. e \in Event(told + 1) /\ (e.connect <=> Connecting) /\ e.id = told + 1
    BY <2>1 DEF Event
  <2>3. sfq \in Seq(Event(told + 1))
    BY <2>1, MoreEvents
  <2>4. sfq' = Append(sfq, e) /\ told' = told + 1
    BY <1>5 DEF OnHotPlugExt
  <2> HIDE DEF e
  <2>5. /\ Len(sfq) \in Nat /\ Len(sfq') = Len(sfq) + 1
        /\ sfq'[Len(sfq')] = e /\ sfq' # <<>>
        /\ \A i \in 1 .. Len(sfq) : sfq'[i] = sfq[i]
        /\ sfq = <<>> <=> Len(sfq) = 0
    BY <2>2, <2>3, <2>4, QueueEnd
  <2>6. /\ UNCHANGED <<call, answered, known, connected, m_ext_active, failures,
                        todo>>
        /\ upc = "report" /\ upc' = (IF Connecting THEN "start" ELSE "sleep")
    BY <1>5 DEF OnHotPlugExt
  <2> QED BY <1>4, <2>1, <2>2, <2>4, <2>5, <2>6
<1>6. CASE SFConnected
  <2> HIDE DEF Begins, Call, NoCall, Connecting, NothingToDo, Notify
  <2> QED BY <1>6, TypeParts, ConnectionHandled, <1>4
<1>7. CASE SFDisconnected
  <2> HIDE DEF Begins, Call, NoCall, Connecting, NothingToDo, Notify
  <2> QED BY <1>7, TypeParts, DisconnectionHandled, <1>4
<1>8. CASE PlugIn
  <2>1. /\ upc = "call" /\ Connecting /\ ~connected /\ upc' = "thread"
        /\ UNCHANGED <<todo, told, sfq, call, answered, known, m_ext_active>>
        /\ connected' \in BOOLEAN
        /\ failures' = IF connected' THEN failures ELSE failures + 1
    BY <1>8, PlugInOutcome DEF PlugIn
  <2> HIDE DEF Connecting, NothingToDo
  <2> QED BY <2>1
<1>9. CASE HandleUevents
  BY <1>9 DEF HandleUevents
<1>10. CASE HotplugIgnored
  BY <1>10 DEF HotplugIgnored
<1>11. CASE CreateVsyncThread
  BY <1>11 DEF CreateVsyncThread
<1>12. CASE StartVSync
  BY <1>12 DEF StartVSync
<1>13. CASE WaitAnswer
  BY <1>13 DEF WaitAnswer
<1>14. CASE WaitTimeout
  BY <1>14 DEF WaitTimeout
<1>15. CASE HotplugDone
  BY <1>15 DEF HotplugDone
<1>16. CASE StopVSync
  BY <1>16 DEF StopVSync
<1>17. CASE RequestExit
  BY <1>17 DEF RequestExit
<1>18. CASE KickThread
  BY <1>18 DEF KickThread
<1>19. CASE JoinThread
  BY <1>19 DEF JoinThread
<1>20. CASE ForgetThread
  BY <1>20 DEF ForgetThread
<1>21. CASE PlugOut
  BY <1>21 DEF PlugOut
<1>22. CASE VSyncLoop
  BY <1>22 DEF VSyncLoop
<1>23. CASE VSyncFire
  BY <1>23 DEF VSyncFire
<1>24. CASE EngineGroup
  BY <1>24 DEF EngineGroup
<1>25. CASE EngineRequest
  BY <1>25 DEF EngineRequest
<1>26. CASE EngineTimeout
  BY <1>26 DEF EngineTimeout
<1>27. CASE SFCalls
  BY <1>27 DEF SFCalls
<1>28. CASE GetActiveConfig
  <2> HIDE DEF Begins, Call, NoCall, Connecting, NothingToDo, Notify
  <2> QED BY <1>28, TypeParts, ConfigurationGot, <1>4
<1>29. CASE SFSwitchOn
  BY <1>29 DEF SFSwitchOn
<1>30. CASE SetPowerMode
  BY <1>30 DEF SetPowerMode
<1>31. CASE DisableVSync
  BY <1>31 DEF DisableVSync
<1>32. CASE HotplugOutDone
  <2> HIDE DEF Begins, Call, NoCall, Connecting, NothingToDo, Notify
  <2> QED BY <1>32, TypeParts, GoneHandled, <1>4
<1>33. CASE GetReleaseFence
  BY <1>33 DEF GetReleaseFence
<1>34. CASE SFFill
  BY <1>34 DEF SFFill
<1>35. CASE UNCHANGED vars
  BY <1>35 DEF vars
<1> QED
  BY <1>5, <1>6, <1>7, <1>8, <1>9, <1>10, <1>11, <1>12, <1>13, <1>14,
     <1>15, <1>16, <1>17, <1>18, <1>19, <1>20, <1>21, <1>22, <1>23,
     <1>24, <1>25, <1>26, <1>27, <1>28, <1>29, <1>30, <1>31, <1>32,
     <1>33, <1>34, <1>35
  DEF Next, UEventStep, SFStep

(* What SurfaceFlinger knows.                                              *)
LEMMA NextKnownSince ==
  ASSUME TypeOK, Stages, InOrder, OutsAwaited, WaitsEnd, ActiveSince,
         KnownSince, [Next]_vars, ~late'
  PROVE  KnownSince'
<1>1. /\ upc # "idle" => todo # <<>>
      /\ told \in Nat /\ answered \in 0 .. told
      /\ sfq \in Seq(Event(told)) /\ Len(sfq) \in Nat
      /\ sfq = <<>> <=> Len(sfq) = 0
      /\ call \in [op : Ops, dpy : Displays, event : 0 .. told]
      /\ connected \in BOOLEAN /\ m_ext_active \in BOOLEAN
      /\ known \in BOOLEAN /\ failures \in Nat /\ alloc \in BOOLEAN
  BY TypeParts, EmptySeq DEF PlanType, FlagType, DispatcherType, FlingerType
<1>2. /\ upc \in Tearing => connected /\ ~Connecting
      /\ upc \in {"thread", "start"} => Connecting
      /\ upc \in {"thread", "report", "start", "sleep", "waiting",
                  "signalled", "timedout"} =>
            IF Connecting THEN connected \/ failures # 0 ELSE ~alloc
      /\ connected => alloc
  BY DEF Stages
<1>3. UNCHANGED todo => (Connecting' <=> Connecting)
  BY DEF Connecting
<1>4. \A i \in 1 .. Len(sfq) : /\ sfq[i].id \in 1 .. told
                               /\ sfq[i].connect \in BOOLEAN
  BY <1>1, EventParts
<1> USE <1>1, <1>2, <1>3
    DEF InOrder, OutsAwaited, WaitsEnd, ActiveSince, KnownSince, InAnswered,
        OutPending, OutAnswering, OutAnswered, Waits, Ended, Tearing,
        HotplugReturns, Notify, NothingToDo, Begins, Call, NoCall, Displays,
        Ops, ueventVars, planVars, managerVars, dispatcherVars, vsyncVars,
        displayVars, sfVars
<1>5. CASE OnHotPlugExt
  <2>1. Connecting \in BOOLEAN
    BY <1>5, TypeParts, ConnectingBoolean DEF OnHotPlugExt
  <2> DEFINE e == [connect |-> Connecting, id |-> told + 1]
  <2>2. e \in Event(told + 1) /\ (e.connect <=> Connecting) /\ e.id = told + 1
    BY <2>1 DEF Event
  <2>3. sfq \in Seq(Event(told + 1))
    BY <2>1, MoreEvents
  <2>4. sfq' = Append(sfq, e) /\ told' = told + 1
    BY <1>5 DEF OnHotPlugExt
  <2> HIDE DEF e
  <2>5. /\ Len(sfq) \in Nat /\ Len(sfq') = Len(sfq) + 1
        /\ sfq'[Len(sfq')] = e /\ sfq' # <<>>
        /\ \A i \in 1 .. Len(sfq) : sfq'[i] = sfq[i]
        /\ sfq = <<>> <=> Len(sfq) = 0
    BY <2>2, <2>3, <2>4, QueueEnd
  <2>6. /\ UNCHANGED <<call, answered, known, connected, m_ext_active, failures,
                        todo>>
        /\ upc = "report" /\ upc' = (IF Connecting THEN "start" ELSE "sleep")
    BY <1>5 DEF OnHotPlugExt
  <2> QED BY <1>4, <2>1, <2>2, <2>4, <2>5, <2>6
<1>6. CASE SFConnected
  <2> HIDE DEF Begins, Call, NoCall, Connecting, NothingToDo, Notify
  <2>1. /\ UNCHANGED upc /\ UNCHANGED told /\ UNCHANGED connected
        /\ UNCHANGED failures /\ UNCHANGED m_ext_active
        /\ Len(sfq) >= 1 /\ sfq # <<>> /\ call.op = "none"
        /\ sfq[1].connect /\ sfq[1].id \in 1 .. told
        /\ connected => call'.event = sfq[1].id
        /\ ~connected => answered' = sfq[1].id
    BY <1>6, TypeParts, ConnectionHandled
  <2>2. connected => call'.event # 0
    BY <2>1
  <2>3. ASSUME ~connected, failures = 0, upc # "report", sfq[1].id = told
        PROVE  FALSE
    <3>1. Len(sfq) = 1
      <4>1. 1 \in 1 .. Len(sfq)
        BY <2>1
      <4> QED BY <4>1, <2>3
    <3>2. answered # told /\ upc \notin {"idle", "call"} \cup Ended \cup Tearing
      BY <2>1, <2>3
    <3>3. upc \in Waits
      BY <3>2, <2>3, TypeParts DEF PlanType
    <3>4. ~Connecting
      BY <2>3, <3>3
    <3>5. sfq[Len(sfq)].connect
      BY <2>1, <3>1
    <3> QED BY <2>1, <3>2, <3>3, <3>4, <3>5
  <2> QED BY <2>1, <2>2, <2>3
<1>7. CASE SFDisconnected
  <2> HIDE DEF Begins, Call, NoCall, Connecting, NothingToDo, Notify
  <2> QED BY <1>7, TypeParts, DisconnectionHandled, <1>4
<1>8. CASE PlugIn
  <2>1. /\ upc = "call" /\ Connecting /\ ~connected /\ upc' = "thread"
        /\ UNCHANGED <<todo, told, sfq, call, answered, known, m_ext_active>>
        /\ connected' \in BOOLEAN
        /\ failures' = IF connected' THEN failures ELSE failures + 1
    BY <1>8, PlugInOutcome DEF PlugIn
  <2> HIDE DEF Connecting, NothingToDo
  <2> QED BY <2>1
<1>9. CASE HandleUevents
  BY <1>9 DEF HandleUevents
<1>10. CASE HotplugIgnored
  BY <1>10 DEF HotplugIgnored
<1>11. CASE CreateVsyncThread
  BY <1>11 DEF CreateVsyncThread
<1>12. CASE StartVSync
  BY <1>12 DEF StartVSync
<1>13. CASE WaitAnswer
  BY <1>13 DEF WaitAnswer
<1>14. CASE WaitTimeout
  BY <1>14 DEF WaitTimeout
<1>15. CASE HotplugDone
  BY <1>15 DEF HotplugDone
<1>16. CASE StopVSync
  BY <1>16 DEF StopVSync
<1>17. CASE RequestExit
  BY <1>17 DEF RequestExit
<1>18. CASE KickThread
  BY <1>18 DEF KickThread
<1>19. CASE JoinThread
  BY <1>19 DEF JoinThread
<1>20. CASE ForgetThread
  BY <1>20 DEF ForgetThread
<1>21. CASE PlugOut
  BY <1>21 DEF PlugOut
<1>22. CASE VSyncLoop
  BY <1>22 DEF VSyncLoop
<1>23. CASE VSyncFire
  BY <1>23 DEF VSyncFire
<1>24. CASE EngineGroup
  BY <1>24 DEF EngineGroup
<1>25. CASE EngineRequest
  BY <1>25 DEF EngineRequest
<1>26. CASE EngineTimeout
  BY <1>26 DEF EngineTimeout
<1>27. CASE SFCalls
  BY <1>27 DEF SFCalls
<1>28. CASE GetActiveConfig
  <2> HIDE DEF Begins, Call, NoCall, Connecting, NothingToDo, Notify
  <2>1. /\ call.op = "config" /\ m_ext_active' = TRUE
        /\ UNCHANGED told /\ UNCHANGED known
        /\ UNCHANGED connected /\ UNCHANGED failures
        /\ upc' = upc \/ (upc = "waiting" /\ upc' = "signalled")
        /\ call.event = 0 => answered' = answered
        /\ call.event # 0 => answered' = call.event
    BY <1>28, TypeParts, ConfigurationGot
  <2>2. CASE call.event = 0
    BY <2>1, <2>2, <1>4
  <2>3. CASE call.event # 0
    <3>1. ASSUME ~connected, failures = 0, upc # "report", call.event = told
          PROVE  FALSE
      <4>1. sfq = <<>> /\ answered # told
        BY <2>3, <3>1
      <4>2. upc \notin {"idle", "call"} \cup Ended \cup Tearing
        BY <3>1, <4>1
      <4>3. upc \in Waits
        BY <4>1, <4>2, <3>1, TypeParts DEF PlanType
      <4>4. ~Connecting
        BY <3>1, <4>3
      <4> QED BY <2>1, <4>1, <4>3, <4>4
    <3> QED BY <2>1, <2>3, <3>1
  <2> QED BY <2>2, <2>3
<1>29. CASE SFSwitchOn
  BY <1>29 DEF SFSwitchOn
<1>30. CASE SetPowerMode
  BY <1>30 DEF SetPowerMode
<1>31. CASE DisableVSync
  BY <1>31 DEF DisableVSync
<1>32. CASE HotplugOutDone
  <2> HIDE DEF Begins, Call, NoCall, Connecting, NothingToDo, Notify
  <2> QED BY <1>32, TypeParts, GoneHandled, <1>4
<1>33. CASE GetReleaseFence
  BY <1>33 DEF GetReleaseFence
<1>34. CASE SFFill
  BY <1>34 DEF SFFill
<1>35. CASE UNCHANGED vars
  BY <1>35 DEF vars
<1> QED
  BY <1>5, <1>6, <1>7, <1>8, <1>9, <1>10, <1>11, <1>12, <1>13, <1>14,
     <1>15, <1>16, <1>17, <1>18, <1>19, <1>20, <1>21, <1>22, <1>23,
     <1>24, <1>25, <1>26, <1>27, <1>28, <1>29, <1>30, <1>31, <1>32,
     <1>33, <1>34, <1>35
  DEF Next, UEventStep, SFStep

(* Until a wait is given up, all this lasts.                               *)
LEMMA NextInTime ==
  TypeOK /\ Stages /\ InOrder /\ InTime /\ [Next]_vars => InTime'
<1> SUFFICES ASSUME TypeOK, Stages, InOrder, InTime, [Next]_vars, ~late'
             PROVE  OutsAwaited' /\ WaitsEnd' /\ ActiveSince' /\ KnownSince'
  BY DEF InTime
<1>1. ~late
  BY LateKept
<1> QED
  BY <1>1, NextOutsAwaited, NextWaitsEnd, NextActiveSince, NextKnownSince
  DEF InTime
-----------------------------------------------------------------------------
(* What is left when all answers are in.                                   *)

\* The plug-in or plug-out that is not told yet.
Unreported == upc \in {"thread", "report"}

\* What m_ext_active will be once SurfaceFlinger's call is over.
Active == (m_ext_active \/ call.op = "config") /\ call.op # "out_done"

\* As long as the display is gone, and that is told, m_ext_active will be clear
\* or a plug-out is still to be handled.  While it is connected, and that is
\* told, the last event in the queue says so; once the queue is empty,
\* m_ext_active will be set and no VSync is being disabled.
Settles ==
    /\ ~connected /\ (upc # "report" \/ Connecting) =>
         ~Active \/ \E i \in 1 .. Len(sfq) : ~sfq[i].connect
    /\ connected /\ ~Unreported =>
         IF sfq = <<>> THEN Active /\ call.op # "disable"
         ELSE sfq[Len(sfq)].connect

\* A connected display that SurfaceFlinger has powered has its VSync enabled,
\* unless SurfaceFlinger is about to power it again.
Powered ==
    connected /\ power /\ ~Unreported /\ upc \notin Tearing /\ sfq = <<>> =>
      \/ vs.m_enabled
      \/ call.op = "config" /\ call.event # 0
      \/ call.op \in {"switch_on", "on"}

(* At first the display is gone and inactive.                              *)
LEMMA InitSettles == Init => Settles
  BY DEF Init, Settles, Active, Unreported, NoCall, Call

(* At first no display is powered.                                         *)
LEMMA InitPowered == Init => Powered
  BY DEF Init, Powered

(* Every step leaves the queue with what became of the display.            *)
LEMMA NextSettles ==
  TypeOK /\ Stages /\ Settles /\ [Next]_vars => Settles'
<1> SUFFICES ASSUME TypeOK, Stages, Settles, [Next]_vars
             PROVE  Settles'
  OBVIOUS
<1>1. /\ upc # "idle" => todo # <<>>
      /\ todo \in Seq(BOOLEAN)
      /\ connected \in BOOLEAN /\ m_ext_active \in BOOLEAN
      /\ told \in Nat /\ sfq \in Seq(Event(told)) /\ Len(sfq) \in Nat
      /\ sfq = <<>> <=> Len(sfq) = 0
      /\ call \in [op : Ops, dpy : Displays, event : 0 .. told]
  BY TypeParts, EmptySeq DEF PlanType, FlagType, FlingerType
<1>2. UNCHANGED todo => (Connecting' <=> Connecting)
  BY DEF Connecting
<1>3. /\ upc \in Tearing => connected /\ ~Connecting
      /\ upc = "thread" => Connecting
      /\ upc \in {"report", "start", "sleep", "waiting"} /\ ~Connecting => ~alloc
      /\ connected => alloc
  BY DEF Stages
<1> USE <1>1, <1>2, <1>3
    DEF Settles, Active, Unreported, Tearing, HotplugReturns, Notify,
        NothingToDo, Begins, Call, NoCall,
        ueventVars, planVars, managerVars, dispatcherVars, vsyncVars,
        displayVars, sfVars
<1>4. CASE PlugIn
  <2>1. /\ upc = "call" /\ Connecting /\ ~connected /\ upc' = "thread"
        /\ UNCHANGED <<sfq, call, m_ext_active>>
    BY <1>4 DEF PlugIn
  <2> HIDE DEF Connecting, NothingToDo
  <2> QED BY <2>1
<1>5. CASE OnHotPlugExt
  <2>1. Connecting \in BOOLEAN
    BY <1>5, TypeParts, ConnectingBoolean DEF OnHotPlugExt
  <2> DEFINE e == [connect |-> Connecting, id |-> told + 1]
  <2>2. e \in Event(told + 1) /\ (e.connect <=> Connecting) /\ e.id = told + 1
    BY <2>1 DEF Event
  <2>3. sfq \in Seq(Event(told + 1))
    BY <2>1, MoreEvents
  <2>4. sfq' = Append(sfq, e) /\ told' = told + 1
    BY <1>5 DEF OnHotPlugExt
  <2> HIDE DEF e
  <2>5. /\ Len(sfq) \in Nat /\ Len(sfq') = Len(sfq) + 1
        /\ sfq'[Len(sfq')] = e /\ sfq' # <<>>
        /\ \A i \in 1 .. Len(sfq) : sfq'[i] = sfq[i]
        /\ sfq = <<>> <=> Len(sfq) = 0
    BY <2>2, <2>3, <2>4, QueueEnd
  <2>6. /\ UNCHANGED <<call, connected, m_ext_active, todo>>
        /\ upc = "report" /\ upc' = (IF Connecting THEN "start" ELSE "sleep")
    BY <1>5 DEF OnHotPlugExt
  <2> QED BY <2>1, <2>2, <2>4, <2>5, <2>6
<1>6. CASE SFConnected
  <2> HIDE DEF Begins, Call, NoCall, Connecting, NothingToDo, Notify
  <2>1. /\ UNCHANGED upc /\ UNCHANGED todo /\ UNCHANGED connected
        /\ UNCHANGED m_ext_active
        /\ Len(sfq) \in Nat /\ Len(sfq) >= 1 /\ Len(sfq') = Len(sfq) - 1
        /\ sfq # <<>> /\ (sfq' = <<>> <=> Len(sfq) = 1) /\ sfq[1].connect
        /\ connected => call'.op = "config"
        /\ ~connected => call'.op = call.op
    BY <1>6, TypeParts, ConnectionHandled
  <2>2. \A i \in 1 .. Len(sfq') : sfq'[i] = sfq[i + 1]
    BY <1>6, TypeParts, ConnectionHandled
  <2>3. CASE connected
    <3>1. sfq' # <<>> => sfq'[Len(sfq')] = sfq[Len(sfq)]
      BY <2>1, <2>2
    <3> QED BY <2>1, <2>3, <3>1
  <2>4. CASE ~connected
    <3>1. ASSUME NEW i \in 1 .. Len(sfq), ~sfq[i].connect
          PROVE  \E j \in 1 .. Len(sfq') : ~sfq'[j].connect
      <4>1. i # 1 /\ i - 1 \in 1 .. Len(sfq')
        BY <2>1, <3>1
      <4>2. sfq'[i - 1] = sfq[(i - 1) + 1] /\ (i - 1) + 1 = i
        BY <2>2, <4>1
      <4> QED BY <3>1, <4>1, <4>2
    <3> QED BY <2>1, <2>4, <3>1
  <2> QED BY <2>3, <2>4
<1>7. CASE SFDisconnected
  <2> HIDE DEF Begins, Call, NoCall, Connecting, NothingToDo, Notify
  <2> QED BY <1>7, TypeParts, DisconnectionHandled
<1>8. CASE HandleUevents
  BY <1>8 DEF HandleUevents
<1>9. CASE HotplugIgnored
  BY <1>9 DEF HotplugIgnored
<1>10. CASE CreateVsyncThread
  BY <1>10 DEF CreateVsyncThread
<1>11. CASE StartVSync
  BY <1>11 DEF StartVSync
<1>12. CASE WaitAnswer
  BY <1>12 DEF WaitAnswer
<1>13. CASE WaitTimeout
  BY <1>13 DEF WaitTimeout
<1>14. CASE HotplugDone
  BY <1>14 DEF HotplugDone
<1>15. CASE StopVSync
  BY <1>15 DEF StopVSync
<1>16. CASE RequestExit
  BY <1>16 DEF RequestExit
<1>17. CASE KickThread
  BY <1>17 DEF KickThread
<1>18. CASE JoinThread
  BY <1>18 DEF JoinThread
<1>19. CASE ForgetThread
  BY <1>19 DEF ForgetThread
<1>20. CASE PlugOut
  BY <1>20 DEF PlugOut
<1>21. CASE VSyncLoop
  BY <1>21 DEF VSyncLoop
<1>22. CASE VSyncFire
  BY <1>22 DEF VSyncFire
<1>23. CASE EngineGroup
  BY <1>23 DEF EngineGroup
<1>24. CASE EngineRequest
  BY <1>24 DEF EngineRequest
<1>25. CASE EngineTimeout
  BY <1>25 DEF EngineTimeout
<1>26. CASE SFCalls
  BY <1>26 DEF SFCalls
<1>27. CASE GetActiveConfig
  <2> HIDE DEF Begins, Call, NoCall, Connecting, NothingToDo, Notify
  <2>1. /\ call.op = "config" /\ m_ext_active' = TRUE
        /\ call'.op \in {"none", "switch_on"}
        /\ UNCHANGED sfq /\ UNCHANGED connected
        /\ Connecting' <=> Connecting
        /\ upc' = upc \/ (upc = "waiting" /\ upc' = "signalled")
    BY <1>27, TypeParts, ConfigurationGot
  <2>2. CASE connected
    BY <2>1, <2>2
  <2>3. CASE ~connected
    BY <2>1, <2>3
  <2> QED BY <2>2, <2>3
<1>28. CASE SFSwitchOn
  BY <1>28 DEF SFSwitchOn
<1>29. CASE SetPowerMode
  BY <1>29 DEF SetPowerMode
<1>30. CASE DisableVSync
  BY <1>30 DEF DisableVSync
<1>31. CASE HotplugOutDone
  <2> HIDE DEF Begins, Call, NoCall, Connecting, NothingToDo, Notify
  <2>1. /\ call.op = "out_done" /\ m_ext_active' = FALSE
        /\ call'.op = "none" /\ UNCHANGED sfq /\ UNCHANGED connected
        /\ upc' = upc \/ (upc = "waiting" /\ upc' = "signalled")
    BY <1>31, TypeParts, GoneHandled
  <2>2. connected /\ ~Unreported => sfq # <<>>
    BY <2>1
  <2> QED BY <2>1, <2>2
<1>32. CASE GetReleaseFence
  BY <1>32 DEF GetReleaseFence
<1>33. CASE SFFill
  BY <1>33 DEF SFFill
<1>34. CASE UNCHANGED vars
  BY <1>34 DEF vars
<1> QED
  BY <1>4, <1>5, <1>6, <1>7, <1>8, <1>9, <1>10, <1>11, <1>12, <1>13,
     <1>14, <1>15, <1>16, <1>17, <1>18, <1>19, <1>20, <1>21, <1>22,
     <1>23, <1>24, <1>25, <1>26, <1>27, <1>28, <1>29, <1>30, <1>31,
     <1>32, <1>33, <1>34
  DEF Next, UEventStep, SFStep

(* Every step leaves the VSync of a powered display enabled.               *)
LEMMA NextPowered ==
  TypeOK /\ Stages /\ Settles /\ Powered /\ [Next]_vars => Powered'
<1> SUFFICES ASSUME TypeOK, Stages, Settles, Powered, [Next]_vars
             PROVE  Powered'
  OBVIOUS
<1>1. /\ upc # "idle" => todo # <<>>
      /\ connected \in BOOLEAN /\ power \in BOOLEAN
      /\ vs \in VSyncThread /\ vthread \in BOOLEAN
      /\ told \in Nat /\ sfq \in Seq(Event(told))
      /\ call \in [op : Ops, dpy : Displays, event : 0 .. told]
  BY TypeParts
     DEF PlanType, FlagType, VSyncType, FlingerType
<1>2. connected /\ upc \notin {"thread", "plugout"} => vthread
  BY DEF Stages
<1>3. connected /\ ~Unreported =>
        /\ sfq # <<>> => sfq[Len(sfq)].connect
        /\ sfq = <<>> => call.op # "disable"
  BY DEF Settles
<1> USE <1>1, <1>2, <1>3
    DEF Powered, Unreported, Tearing, HotplugReturns, Notify, NothingToDo,
        Begins, Call, NoCall, RequestVSync,
        ueventVars, planVars, managerVars, dispatcherVars, vsyncVars,
        displayVars, sfVars
<1>4. CASE OnHotPlugExt
  <2>1. sfq' # <<>>
    <3>1. Connecting \in BOOLEAN
      BY <1>4, TypeParts, ConnectingBoolean DEF OnHotPlugExt
    <3>2. [connect |-> Connecting, id |-> told + 1] \in Event(told + 1)
      BY <3>1 DEF Event
    <3>3. sfq \in Seq(Event(told + 1))
      BY <3>1, MoreEvents
    <3> QED BY <3>2, <3>3, QueueEnd, <1>4 DEF OnHotPlugExt
  <2> QED BY <2>1
<1>5. CASE StartVSync
  BY <1>5, ThreadUpdates DEF StartVSync
<1>6. CASE RequestExit
  BY <1>6, ThreadUpdates DEF RequestExit
<1>7. CASE KickThread
  BY <1>7, ThreadUpdates DEF KickThread
<1>8. CASE VSyncLoop
  <2>1. vs'.m_enabled <=> vs.m_enabled
    BY <1>8 DEF VSyncLoop, VSyncThread
  <2> QED BY <2>1, <1>8 DEF VSyncLoop
<1>9. CASE VSyncFire
  <2>1. vs'.m_enabled <=> vs.m_enabled
    BY <1>9 DEF VSyncFire, VSyncThread
  <2> QED BY <2>1, <1>9 DEF VSyncFire
<1>10. CASE EngineRequest
  BY <1>10, ThreadUpdates DEF EngineRequest
<1>11. CASE SFConnected
  <2>1. sfq # <<>> /\ sfq' = Tail(sfq)
    BY <1>11 DEF SFConnected
  <2>2. /\ Len(sfq) \in Nat /\ Len(sfq) >= 1 /\ Head(sfq) = sfq[1]
        /\ sfq[1] \in Event(told) /\ Len(sfq') = Len(sfq) - 1
        /\ \A i \in 1 .. Len(sfq') : sfq'[i] = sfq[i + 1]
        /\ sfq' = <<>> <=> Len(sfq) = 1
    BY <2>1, QueueHead
  <2>3. sfq[1].id \in 1 .. told /\ sfq[1].connect \in BOOLEAN
    BY <2>2 DEF Event
  <2> QED BY  <2>1,  <2>2,  <2>3, <1>11 DEF SFConnected
<1>12. CASE SFDisconnected
  <2>1. sfq # <<>> /\ sfq' = Tail(sfq)
    BY <1>12 DEF SFDisconnected
  <2>2. /\ Len(sfq) \in Nat /\ Len(sfq) >= 1 /\ Head(sfq) = sfq[1]
        /\ sfq[1] \in Event(told) /\ Len(sfq') = Len(sfq) - 1
        /\ \A i \in 1 .. Len(sfq') : sfq'[i] = sfq[i + 1]
        /\ sfq' = <<>> <=> Len(sfq) = 1
    BY <2>1, QueueHead
  <2>3. sfq[1].id \in 1 .. told /\ sfq[1].connect \in BOOLEAN
    BY <2>2 DEF Event
  <2>4. sfq' = <<>> => sfq[Len(sfq)] = Head(sfq)
    BY <2>2
  <2> QED BY <2>1, <2>4, <1>12 DEF SFDisconnected
<1>13. CASE GetActiveConfig
  <2>1. /\ UNCHANGED <<sfq, failures, connected, power, vs>>
        /\ m_ext_active' = TRUE /\ call.op = "config"
        /\ upc' \in {upc, "signalled"}
        /\ upc' = "signalled" => upc \in {"waiting", "signalled"}
    BY <1>13 DEF GetActiveConfig
  <2>2. CASE call.event = 0
    <3>1. call' = NoCall
      BY <1>13, <2>2 DEF GetActiveConfig
    <3> QED BY <2>1, <2>2, <3>1
  <2>3. CASE call.event # 0
    <3>1. call' = Call("switch_on", "external", 0)
      BY <1>13, <2>3 DEF GetActiveConfig
    <3> QED BY <2>1, <2>3, <3>1
  <2> QED BY <2>2, <2>3
<1>14. CASE SetPowerMode
  BY <1>14, ThreadUpdates DEF SetPowerMode
<1>15. CASE DisableVSync
  BY <1>15, ThreadUpdates DEF DisableVSync
<1>16. CASE HandleUevents
  BY <1>16 DEF HandleUevents
<1>17. CASE HotplugIgnored
  BY <1>17 DEF HotplugIgnored
<1>18. CASE PlugIn
  BY <1>18 DEF PlugIn
<1>19. CASE CreateVsyncThread
  BY <1>19 DEF CreateVsyncThread
<1>20. CASE WaitAnswer
  BY <1>20 DEF WaitAnswer
<1>21. CASE WaitTimeout
  BY <1>21 DEF WaitTimeout
<1>22. CASE HotplugDone
  BY <1>22 DEF HotplugDone
<1>23. CASE StopVSync
  BY <1>23 DEF StopVSync
<1>24. CASE JoinThread
  BY <1>24 DEF JoinThread
<1>25. CASE ForgetThread
  BY <1>25 DEF ForgetThread
<1>26. CASE PlugOut
  BY <1>26 DEF PlugOut
<1>27. CASE EngineGroup
  BY <1>27 DEF EngineGroup
<1>28. CASE EngineTimeout
  BY <1>28 DEF EngineTimeout
<1>29. CASE SFCalls
  BY <1>29 DEF SFCalls
<1>30. CASE SFSwitchOn
  BY <1>30 DEF SFSwitchOn
<1>31. CASE HotplugOutDone
  BY <1>31 DEF HotplugOutDone
<1>32. CASE GetReleaseFence
  BY <1>32 DEF GetReleaseFence
<1>33. CASE SFFill
  BY <1>33 DEF SFFill
<1>34. CASE UNCHANGED vars
  BY <1>34 DEF vars
<1> QED BY <1>4, <1>5, <1>6, <1>7, <1>8, <1>9, <1>10, <1>11, <1>12, <1>13, <1>14,
          <1>15, <1>16, <1>17, <1>18, <1>19, <1>20, <1>21, <1>22, <1>23,
          <1>24, <1>25, <1>26, <1>27, <1>28, <1>29, <1>30, <1>31, <1>32,
          <1>33, <1>34
          DEF Next, UEventStep, SFStep
-----------------------------------------------------------------------------
(* The invariant and what follows from it.                                 *)

IInv ==
    TypeOK /\ Stages /\ ListenersLive /\ InOrder /\ InTime /\ Settles
      /\ Powered /\ FlipFollowsCalls

(* All the parts hold in every reachable state.                            *)
LEMMA Invariant == Spec => []IInv
<1>1. Init => IInv
  BY InitTypeOK, InitStages, InitListeners, InitInOrder, InitInTime,
     InitSettles, InitPowered, InitFlip
     DEF IInv
<1>2. IInv /\ [Next]_vars => IInv'
  BY NextTypeOK, NextStages, NextListeners, NextInOrder, NextInTime,
     NextSettles, NextPowered, NextFlip
     DEF IInv
<1> QED BY <1>1, <1>2, PTL DEF Spec

(* The variables keep their types.                                         *)
THEOREM HotplugTypeOK == Spec => []TypeOK
<1>1. IInv => TypeOK
  BY DEF IInv
<1> QED BY <1>1, Invariant, PTL

(* A wait that a signal ends was ended by the answer to its own event,     *)
(* unless a wait was given up before its answer came or, after a plug-in   *)
(* that failed, SurfaceFlinger asks of its own for the configuration.      *)
THEOREM HotplugAnswerEndsOwnWait == Spec => []AnswerEndsOwnWait
<1>1. IInv => AnswerEndsOwnWait
  <2> SUFFICES ASSUME IInv, upc = "signalled", ~late, answered # told
               PROVE  Connecting /\ known /\ failures > 0
    BY DEF AnswerEndsOwnWait
  <2>1. failures \in Nat
    BY TypeParts DEF IInv, DispatcherType
  <2>2. WaitsEnd
    BY DEF IInv, InTime
  <2> QED BY <2>1, <2>2 DEF WaitsEnd, Ended, OutAnswered
<1> QED BY <1>1, Invariant, PTL

(* Once all answers are in, m_ext_active tells whether the display is      *)
(* connected, however late they came and whichever plug-ins failed.        *)
THEOREM HotplugActiveInStep == Spec => []ActiveInStep
<1>1. IInv => ActiveInStep
  <2> SUFFICES ASSUME IInv, Quiet
               PROVE  m_ext_active = connected
    BY DEF ActiveInStep
  <2>1. connected \in BOOLEAN /\ m_ext_active \in BOOLEAN
    BY TypeParts DEF IInv, FlagType
  <2>2. call.op = "none" /\ upc = "idle" /\ sfq = <<>> /\ Len(sfq) = 0
    BY DEF Quiet, NoCall, Call
  <2>3. Active <=> connected
    BY <2>2 DEF IInv, Settles, Unreported
  <2> QED BY <2>1, <2>2, <2>3 DEF Active
<1> QED BY <1>1, Invariant, PTL

(* When all has settled, the VSync of a connected display that was         *)
(* switched on is enabled.                                                 *)
THEOREM HotplugVSyncOnWhenOn == Spec => []VSyncOnWhenOn
<1>1. IInv => VSyncOnWhenOn
  BY DEF IInv, Powered, VSyncOnWhenOn, Quiet, Unreported, Tearing, NoCall, Call
<1> QED BY <1>1, Invariant, PTL

(* Between events a VSyncThread runs for a connected display, and one more *)
(* for each plug-in that failed.                                           *)
THEOREM HotplugOneVSyncThread == Spec => []OneVSyncThread
<1>1. IInv => OneVSyncThread
  <2> SUFFICES ASSUME Stages, VSyncType, upc = "idle"
               PROVE  orphans + (IF vthread THEN 1 ELSE 0)
                        = failures + (IF connected THEN 1 ELSE 0)
    BY TypeParts DEF IInv, OneVSyncThread
  <2> QED BY DEF Stages, VSyncType
<1> QED BY <1>1, Invariant, PTL

(* The VSync listeners are the present DispatchThread and no other where   *)
(* the display is triggered by its own VSync, and else every DispatchThread*)
(* ever made.                                                              *)
THEOREM HotplugListenersLive == Spec => []ListenersLive
<1>1. IInv => ListenersLive
  BY DEF IInv
<1> QED BY <1>1, Invariant, PTL

(* The shared flip has counting calls count and filling calls fill, up to  *)
(* a refused filling call, which exchanges them.                           *)
THEOREM HotplugFlipFollowsCalls == Spec => []FlipFollowsCalls
<1>1. IInv => FlipFollowsCalls
  BY DEF IInv
<1> QED BY <1>1, Invariant, PTL

(* Only the end of a plug-out takes the layers.                            *)
LEMMA OnlyDoneClears ==
  FlagType /\ [Next]_vars => HotplugDone \/ (layers => layers')
<1> SUFFICES ASSUME FlagType, [Next]_vars, ~HotplugDone, layers
             PROVE  layers'
  OBVIOUS
<1> USE DEF ueventVars, planVars, managerVars, dispatcherVars, vsyncVars,
            displayVars, sfVars
<1>1. CASE HotplugDone
  BY <1>1
<1>2. CASE HandleUevents
  BY <1>2 DEF HandleUevents
<1>3. CASE HotplugIgnored
  BY <1>3 DEF HotplugIgnored
<1>4. CASE PlugIn
  BY <1>4 DEF PlugIn
<1>5. CASE CreateVsyncThread
  BY <1>5 DEF CreateVsyncThread
<1>6. CASE OnHotPlugExt
  BY <1>6 DEF OnHotPlugExt
<1>7. CASE StartVSync
  BY <1>7 DEF StartVSync
<1>8. CASE WaitAnswer
  BY <1>8 DEF WaitAnswer
<1>9. CASE WaitTimeout
  BY <1>9 DEF WaitTimeout
<1>10. CASE StopVSync
  BY <1>10 DEF StopVSync
<1>11. CASE RequestExit
  BY <1>11 DEF RequestExit
<1>12. CASE KickThread
  BY <1>12 DEF KickThread
<1>13. CASE JoinThread
  BY <1>13 DEF JoinThread
<1>14. CASE ForgetThread
  BY <1>14 DEF ForgetThread
<1>15. CASE PlugOut
  BY <1>15 DEF PlugOut
<1>16. CASE VSyncLoop
  BY <1>16 DEF VSyncLoop
<1>17. CASE VSyncFire
  BY <1>17 DEF VSyncFire
<1>18. CASE EngineGroup
  BY <1>18 DEF EngineGroup
<1>19. CASE EngineRequest
  BY <1>19 DEF EngineRequest
<1>20. CASE EngineTimeout
  BY <1>20 DEF EngineTimeout
<1>21. CASE SFConnected
  BY <1>21 DEF SFConnected
<1>22. CASE SFDisconnected
  BY <1>22 DEF SFDisconnected
<1>23. CASE SFCalls
  BY <1>23 DEF SFCalls
<1>24. CASE GetActiveConfig
  BY <1>24 DEF GetActiveConfig
<1>25. CASE SFSwitchOn
  BY <1>25 DEF SFSwitchOn
<1>26. CASE SetPowerMode
  BY <1>26 DEF SetPowerMode
<1>27. CASE DisableVSync
  BY <1>27 DEF DisableVSync
<1>28. CASE HotplugOutDone
  BY <1>28 DEF HotplugOutDone
<1>29. CASE GetReleaseFence
  BY <1>29 DEF GetReleaseFence
<1>30. CASE SFFill
  BY <1>30 DEF SFFill
<1>31. CASE UNCHANGED vars
  BY <1>31 DEF vars
<1> QED BY <1>1, <1>2, <1>3, <1>4, <1>5, <1>6, <1>7, <1>8, <1>9, <1>10, <1>11,
          <1>12, <1>13, <1>14, <1>15, <1>16, <1>17, <1>18, <1>19, <1>20,
          <1>21, <1>22, <1>23, <1>24, <1>25, <1>26, <1>27, <1>28, <1>29,
          <1>30, <1>31
          DEF Next, UEventStep, SFStep

(* The layers are cleared under no call that uses them, unless a wait was  *)
(* given up.                                                               *)
THEOREM HotplugClearedAfterUse == Spec => ClearedAfterUse
<1>1. IInv /\ [Next]_vars =>
           (layers /\ ~layers' =>
              late \/ call.dpy = "primary" \/ call.op = "out_done")
  <2> SUFFICES ASSUME IInv, [Next]_vars, layers, ~layers', ~late
               PROVE  call.dpy = "primary"
    OBVIOUS
  <2>1. HotplugDone
    BY OnlyDoneClears, TypeParts DEF IInv
  <2>2. upc \in {"signalled", "timedout"} /\ ~Connecting
    BY <2>1 DEF HotplugDone
  <2>3. WaitsEnd
    BY DEF IInv, InTime
  <2> QED BY <2>2, <2>3 DEF WaitsEnd, Ended, OutAnswered
<1> QED BY <1>1, Invariant, PTL DEF Spec, ClearedAfterUse
=============================================================================
