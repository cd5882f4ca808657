------------------------------ MODULE Hotplug ------------------------------
(***************************************************************************)
(* Plugging the external display in and out, between four threads:         *)
(*   - the UEventThread (2.0.0/event.cpp), which sets the display up and   *)
(*     tears it down in DisplayManager::hotplugExt (display.cpp) and waits *)
(*     each time, 3 s at most, for SurfaceFlinger's answer;                *)
(*   - the main thread, on which SurfaceFlinger learns of the change and   *)
(*     calls HWCMediator (hwc2.cpp): it answers, switches the power and    *)
(*     fetches release fences in two calls per display;                    *)
(*   - the display's VSyncThread, made and joined by the UEventThread;     *)
(*   - its OverlayEngine, which asks for a VSync under its own lock and    *)
(*     waits for it (overlay.cpp).                                         *)
(* What plugging does to jobs and frames is in DisplayPipeline.            *)
(***************************************************************************)
EXTENDS Integers, Sequences, FiniteSets

CONSTANT MaxEvents    \* bound on the uevents

ASSUME HotplugAssumption == MaxEvents \in Nat

Displays == {"primary", "external"}

VARIABLES
    \* the UEventThread: m_is_hotplug, the calls of hotplugExt an event still
    \* needs (TRUE: connect), and where it is
    m_is_hotplug, todo, upc, events,
    \* DisplayManager: connected and trigger_by_vsync of m_data[EXTERNAL],
    \* m_ext_active; feature is the trigger_by_vsync of the platform
    connected, trigger, m_ext_active, feature,
    \* HWCDispatcher: m_alloc_disp_ids of the display, the DispatchThreads in
    \* each display's m_vsync_callbacks, the number of the last one made, the
    \* plug-ins that left the display unconnected
    alloc, callbacks, made, failures,
    \* m_vsyncs[EXTERNAL].thread is set; that VSyncThread; others still running
    vthread, vs, orphans,
    engine,        \* where the OverlayEngine is in its wait for a VSync
    \* HWCDisplay: it has layers, m_power_mode is ON; the static flip
    layers, power, flip,
    \* SurfaceFlinger: the plug events it was told of, those it has not handled,
    \* the call it makes, the last event handled, whether it knows the display
    told, sfq, call, answered, known,
    \* history: filling calls refused; a wait ended without its answer
    refused, late

planVars == <<m_is_hotplug, todo, events>>
ueventVars == <<planVars, upc>>
managerVars == <<connected, trigger, m_ext_active, feature>>
dispatcherVars == <<alloc, callbacks, made, failures>>
vsyncVars == <<vthread, vs, orphans>>
displayVars == <<layers, power, flip>>
sfVars == <<told, sfq, call, answered, known, refused>>
vars == <<ueventVars, managerVars, dispatcherVars, vsyncVars, engine,
          displayVars, sfVars, late>>

VSyncThread == [pc : {"loop", "wait", "woken", "fire", "gone"},
                m_enabled : BOOLEAN, m_loop : BOOLEAN, exit : BOOLEAN]
NewVSyncThread == [pc |-> "loop", m_enabled |-> FALSE, m_loop |-> FALSE,
                   exit |-> FALSE]

Ops == {"none", "config", "switch_on", "on", "off", "disable", "out_done",
        "count", "between", "fill"}
Call(op, dpy, event) == [op |-> op, dpy |-> dpy, event |-> event]
NoCall == Call("none", "primary", 0)

Init ==
    /\ m_is_hotplug = FALSE /\ todo = <<>> /\ upc = "idle" /\ events = 0
    /\ feature \in BOOLEAN /\ trigger = feature
    /\ connected = FALSE /\ m_ext_active = FALSE
    /\ alloc = FALSE /\ callbacks = [d \in Displays |-> {}] /\ made = 0
    /\ failures = 0
    /\ vthread = FALSE /\ vs = [NewVSyncThread EXCEPT !.pc = "gone"]
    /\ orphans = 0
    /\ engine = "idle"
    /\ layers = FALSE /\ power = FALSE /\ flip = FALSE
    /\ told = 0 /\ sfq = <<>> /\ call = NoCall /\ answered = 0
    /\ known = FALSE /\ refused = 0 /\ late = FALSE

-----------------------------------------------------------------------------
(* The VSyncThread and DisplayManager's functions about it.                *)

\* A signal of m_condition: it is lost unless the thread waits.
Signalled(t) == IF t.pc = "wait" THEN [t EXCEPT !.pc = "woken"] ELSE t
SetEnabled(t, on) == Signalled([t EXCEPT !.m_enabled = on])
SetLoopAgain(t) == Signalled([t EXCEPT !.m_loop = TRUE])

\* destroyVsyncThread holds m_vsyncs[dpy].lock only to forget the thread, not
\* while it joins it.
VSyncsLocked == upc = "forget"

\* requestVSync
RequestVSync(on) ==
    /\ ~VSyncsLocked
    /\ vs' = IF vthread THEN SetEnabled(vs, on) ELSE vs

\* threadLoop up to the wait for the hardware, with the Thread's own check for
\* the end before it.
VSyncLoop ==
    /\ vs.pc \in {"loop", "woken"}
    /\ vs' = IF vs.exit THEN [vs EXCEPT !.pc = "gone"]
             ELSE IF vs.m_enabled \/ vs.m_loop
               THEN [vs EXCEPT !.pc = "fire", !.m_loop = FALSE]
               ELSE [vs EXCEPT !.pc = "wait"]
    /\ UNCHANGED <<ueventVars, managerVars, dispatcherVars, vthread, orphans,
                   engine, displayVars, sfVars, late>>

\* The VSync comes, real or faked, and goes through DisplayManager::vsync and
\* HWCDispatcher::onVSync to OverlayEngine::wakeup, which needs
\* m_lock_av_grouping.
VSyncFire ==
    /\ vs.pc = "fire"
    /\ engine # "group"
    /\ engine' = IF engine = "wait" THEN "idle" ELSE engine
    /\ vs' = [vs EXCEPT !.pc = "loop"]
    /\ UNCHANGED <<ueventVars, managerVars, dispatcherVars, vthread, orphans,
                   displayVars, sfVars, late>>

-----------------------------------------------------------------------------
(* The OverlayEngine: a frame with av_grouping waits for the next VSync.   *)

\* It takes m_lock_av_grouping and sets m_need_wakeup.  A plug-out stops it.
EngineGroup ==
    /\ alloc /\ connected /\ upc # "plugout"
    /\ engine = "idle"
    /\ engine' = "group"
    /\ UNCHANGED <<ueventVars, managerVars, dispatcherVars, vsyncVars,
                   displayVars, sfVars, late>>

\* requestNextVSync, then waitRelative gives the lock up.
EngineRequest ==
    /\ engine = "group"
    /\ ~VSyncsLocked
    /\ vs' = IF vthread THEN SetLoopAgain(vs) ELSE vs
    /\ engine' = "wait"
    /\ UNCHANGED <<ueventVars, managerVars, dispatcherVars, vthread, orphans,
                   displayVars, sfVars, late>>

EngineTimeout ==
    /\ engine = "wait"
    /\ engine' = "idle"
    /\ UNCHANGED <<ueventVars, managerVars, dispatcherVars, vsyncVars,
                   displayVars, sfVars, late>>

-----------------------------------------------------------------------------
(* The UEventThread.                                                       *)

Disconnects(hot) == IF hot THEN <<FALSE>> ELSE <<>>

\* handleUevents: the calls of hotplugExt that an event makes.
HandleUevents ==
    /\ upc = "idle" /\ events < MaxEvents
    /\ \/ todo' = <<TRUE>> /\ m_is_hotplug' = TRUE
       \/ todo' = Disconnects(m_is_hotplug) /\ m_is_hotplug' = FALSE
       \/ todo' = Disconnects(m_is_hotplug) \o <<TRUE>> /\ m_is_hotplug' = TRUE
    /\ upc' = IF todo' = <<>> THEN "idle" ELSE "call"
    /\ events' = events + 1
    /\ UNCHANGED <<managerVars, dispatcherVars, vsyncVars, engine, displayVars,
                   sfVars, late>>

HotplugReturns ==
    /\ todo' = Tail(todo)
    /\ upc' = IF Tail(todo) = <<>> THEN "idle" ELSE "call"

Connecting == Head(todo)

\* Mutant of NothingToDo: a display that is connected is plugged in again.
NothingToDoNaive == ~Connecting /\ ~connected
NothingToDo == Connecting = connected

\* Nothing to do, or updateDisplayResolution fails.
HotplugIgnored ==
    /\ upc = "call"
    /\ trigger' = feature
    /\ NothingToDo \/ Connecting
    /\ HotplugReturns
    /\ UNCHANGED <<m_is_hotplug, events, connected, m_ext_active, feature,
                   dispatcherVars, vsyncVars, engine, displayVars, sfVars, late>>

\* Mutant of RegisteredWith: always the primary display's.
RegisteredWithPrimary(by_vsync) == "primary"

\* The list of VSync listeners onPlugIn puts the DispatchThread on.
RegisteredWith(by_vsync) == IF by_vsync THEN "external" ELSE "primary"

\* OverlayEngine's constructor gets no overlay session: onPlugIn gives up, and
\* the next plug-in tries again.
NoSession ==
    /\ connected' = FALSE
    /\ UNCHANGED <<alloc, callbacks, made>>

\* onPlugIn makes the display's threads, whether the new session reports the
\* display as connected or not.
SessionMade ==
    /\ connected' \in BOOLEAN
    /\ alloc' = TRUE /\ made' = made + 1
    /\ callbacks' = [callbacks EXCEPT
                       ![RegisteredWith(feature)] = @ \cup {made + 1}]

\* createExternalDisplay, then onPlugIn, which leaves a display alone that is
\* still allocated.
PlugIn ==
    /\ upc = "call" /\ Connecting /\ ~NothingToDo
    /\ layers' = TRUE /\ power' = FALSE
    /\ trigger' = feature
    /\ IF alloc THEN UNCHANGED <<connected, alloc, callbacks, made>>
       ELSE NoSession \/ SessionMade
    /\ failures' = IF connected' THEN failures ELSE failures + 1
    /\ upc' = "thread"
    /\ UNCHANGED <<planVars, m_ext_active, feature, vsyncVars,
                   engine, flip, sfVars, late>>

\* createVsyncThread and hotplugPost.  The thread that m_vsyncs still had runs
\* on.
CreateVsyncThread ==
    /\ upc = "thread"
    /\ orphans' = IF vthread THEN orphans + 1 ELSE orphans
    /\ vthread' = TRUE /\ vs' = NewVSyncThread
    /\ upc' = "report"
    /\ UNCHANGED <<planVars, managerVars, dispatcherVars,
                   engine, displayVars, sfVars, late>>

\* onHotPlugExt
OnHotPlugExt ==
    /\ upc = "report"
    /\ told' = told + 1
    /\ sfq' = Append(sfq, [connect |-> Connecting, id |-> told + 1])
    /\ upc' = IF Connecting THEN "start" ELSE "sleep"
    /\ UNCHANGED <<planVars, managerVars, dispatcherVars,
                   vsyncVars, engine, displayVars, call, answered, known,
                   refused, late>>

StartVSync ==
    /\ upc = "start"
    /\ IF trigger THEN RequestVSync(TRUE) ELSE UNCHANGED vs
    /\ upc' = "sleep"
    /\ UNCHANGED <<planVars, managerVars, dispatcherVars,
                   vthread, orphans, engine, displayVars, sfVars, late>>

\* m_condition.waitRelative: 3 s, with a lock that nobody else takes.
WaitAnswer ==
    /\ upc = "sleep"
    /\ upc' = "waiting"
    /\ UNCHANGED <<planVars, managerVars, dispatcherVars,
                   vsyncVars, engine, displayVars, sfVars, late>>

WaitTimeout ==
    /\ upc = "waiting"
    /\ upc' = "timedout"
    /\ late' = (late \/ answered # told)
    /\ UNCHANGED <<planVars, managerVars, dispatcherVars,
                   vsyncVars, engine, displayVars, sfVars>>

\* The wait is over; destroyExternalDisplay follows a disconnection.
HotplugDone ==
    /\ upc \in {"signalled", "timedout"}
    /\ layers' = (layers /\ Connecting)
    /\ HotplugReturns
    /\ UNCHANGED <<m_is_hotplug, events, managerVars, dispatcherVars, vsyncVars,
                   engine, power, flip, sfVars, late>>

\* Disconnecting: requestVSync(false), then destroyVsyncThread in four steps.
StopVSync ==
    /\ upc = "call" /\ ~Connecting /\ connected
    /\ trigger' = feature
    /\ IF feature THEN RequestVSync(FALSE) ELSE UNCHANGED vs
    /\ upc' = "exit"
    /\ UNCHANGED <<planVars, connected, m_ext_active, feature,
                   dispatcherVars, vthread, orphans, engine, displayVars, sfVars,
                   late>>

RequestExit ==
    /\ upc = "exit"
    /\ vs' = [vs EXCEPT !.exit = TRUE]
    /\ upc' = "kick"
    /\ UNCHANGED <<planVars, managerVars, dispatcherVars,
                   vthread, orphans, engine, displayVars, sfVars, late>>

\* Mutant of KickThread: requestExit alone, without waking the thread.
KickNobody ==
    /\ upc = "kick"
    /\ upc' = "join"
    /\ UNCHANGED <<planVars, managerVars, dispatcherVars,
                   vthread, vs, orphans, engine, displayVars, sfVars, late>>

\* setLoopAgain, in case the thread waits
KickThread ==
    /\ upc = "kick"
    /\ vs' = SetLoopAgain(vs)
    /\ upc' = "join"
    /\ UNCHANGED <<planVars, managerVars, dispatcherVars,
                   vthread, orphans, engine, displayVars, sfVars, late>>

JoinThread ==
    /\ upc = "join"
    /\ vs.pc = "gone"
    /\ upc' = "forget"
    /\ UNCHANGED <<planVars, managerVars, dispatcherVars,
                   vsyncVars, engine, displayVars, sfVars, late>>

ForgetThread ==
    /\ upc = "forget"
    /\ vthread' = FALSE
    /\ upc' = "plugout"
    /\ UNCHANGED <<planVars, managerVars, dispatcherVars, vs,
                   orphans, engine, displayVars, sfVars, late>>

\* Mutant of PlugOut: the display's layers go with the DisplayData.
PlugOutClears ==
    /\ upc = "plugout" /\ engine = "idle"
    /\ callbacks' = [callbacks EXCEPT !["external"] = @ \ {made}]
    /\ alloc' = FALSE /\ connected' = FALSE /\ trigger' = FALSE
    /\ layers' = FALSE /\ upc' = "report"
    /\ UNCHANGED <<planVars, m_ext_active, feature, made, failures, vsyncVars,
                   engine, power, flip, sfVars, late>>
\* Mutant of PlugOut: the DisplayData is not cleared.
PlugOutKeepsData ==
    /\ upc = "plugout" /\ engine = "idle"
    /\ callbacks' = [callbacks EXCEPT !["external"] = @ \ {made}]
    /\ alloc' = FALSE /\ upc' = "report"
    /\ UNCHANGED <<planVars, managerVars, made, failures, vsyncVars,
                   engine, displayVars, sfVars, late>>
\* onPlugOut: releaseResourceLocked joins the engine and takes the thread off
\* the display's own list; hotplugExtOut clears the DisplayData.
PlugOut ==
    /\ upc = "plugout"
    /\ engine = "idle"
    /\ callbacks' = [callbacks EXCEPT !["external"] = @ \ {made}]
    /\ alloc' = FALSE /\ connected' = FALSE /\ trigger' = FALSE
    /\ upc' = "report"
    /\ UNCHANGED <<planVars, m_ext_active, feature, made,
                   failures, vsyncVars, engine, displayVars, sfVars, late>>

UEventStep ==
    \/ HotplugIgnored \/ PlugIn \/ CreateVsyncThread \/ OnHotPlugExt
    \/ StartVSync \/ WaitAnswer \/ WaitTimeout \/ HotplugDone
    \/ StopVSync \/ RequestExit \/ KickThread \/ JoinThread \/ ForgetThread
    \/ PlugOut

-----------------------------------------------------------------------------
(* SurfaceFlinger's main thread in HWCMediator.  A call checks first that  *)
(* the display is connected and does its work later: the UEventThread may  *)
(* come in between.                                                        *)

Begins(op, dpy, event) == call' = Call(op, dpy, event)

\* Mutants of Notify: it signals whatever m_ext_active was; an answer that
\* nobody waits for is ignored.
NotifyAlways(active) ==
    /\ m_ext_active' = active
    /\ upc' = IF upc = "waiting" THEN "signalled" ELSE upc
NotifyWaiter(active) ==
    /\ m_ext_active' = IF upc = "waiting" THEN active ELSE m_ext_active
    /\ upc' = IF upc = "waiting" /\ active # m_ext_active THEN "signalled"
              ELSE upc
\* notifyHotplugInDone and notifyHotplugOutDone
Notify(active) ==
    /\ m_ext_active' = active
    /\ upc' = IF upc = "waiting" /\ active # m_ext_active THEN "signalled"
              ELSE upc

\* It handles an event: it asks a new display for its configuration and
\* switches it on; it stops the VSync of one that is gone.
SFConnected ==
    /\ call = NoCall /\ sfq # <<>> /\ Head(sfq).connect
    /\ sfq' = Tail(sfq) /\ known' = TRUE
    /\ IF connected
         THEN Begins("config", "external", Head(sfq).id) /\ UNCHANGED answered
         ELSE answered' = Head(sfq).id /\ UNCHANGED call
    /\ UNCHANGED <<ueventVars, managerVars, dispatcherVars, vsyncVars, engine,
                   displayVars, told, refused, late>>

SFDisconnected ==
    /\ call = NoCall /\ sfq # <<>> /\ ~Head(sfq).connect
    /\ sfq' = Tail(sfq) /\ known' = FALSE
    /\ Begins(IF connected THEN "disable" ELSE "out_done", "external",
              Head(sfq).id)
    /\ UNCHANGED <<ueventVars, managerVars, dispatcherVars, vsyncVars, engine,
                   displayVars, told, answered, refused, late>>

\* Calls of its own about a display that it knows and that is connected.
SFCalls ==
    /\ call = NoCall
    /\ \/ known /\ connected
          /\ \E op \in {"config", "on", "off"} : Begins(op, "external", 0)
       \/ \E d \in Displays : /\ d = "external" => known /\ connected
                              /\ Begins("count", d, 0)
    /\ UNCHANGED <<ueventVars, managerVars, dispatcherVars, vsyncVars, engine,
                   displayVars, told, sfq, answered, known, refused, late>>

\* displayGetActiveConfig
GetActiveConfig ==
    /\ call.op = "config"
    /\ Notify(TRUE)
    /\ IF call.event = 0 THEN call' = NoCall /\ UNCHANGED answered
       ELSE Begins("switch_on", "external", 0) /\ answered' = call.event
    /\ UNCHANGED <<planVars, connected, trigger, feature, dispatcherVars,
                   vsyncVars, engine, displayVars, told, sfq, known, refused,
                   late>>

SFSwitchOn ==
    /\ call.op = "switch_on"
    /\ IF connected THEN Begins("on", "external", 0) ELSE call' = NoCall
    /\ UNCHANGED <<ueventVars, managerVars, dispatcherVars, vsyncVars, engine,
                   displayVars, told, sfq, answered, known, refused, late>>

\* Mutant of SetPowerMode: ON leaves the VSync as it is.
SetPowerModeQuiet ==
    /\ call.op \in {"on", "off"}
    /\ power' = (call.op = "on")
    /\ IF call.op = "off" THEN RequestVSync(FALSE) ELSE UNCHANGED vs
    /\ call' = NoCall
    /\ UNCHANGED <<ueventVars, managerVars, dispatcherVars, vthread, orphans,
                   engine, layers, flip, told, sfq, answered, known, refused,
                   late>>
\* HWCDisplay::setPowerMode
SetPowerMode ==
    /\ call.op \in {"on", "off"}
    /\ power' = (call.op = "on")
    /\ RequestVSync(call.op = "on")
    /\ call' = NoCall
    /\ UNCHANGED <<ueventVars, managerVars, dispatcherVars, vthread, orphans,
                   engine, layers, flip, told, sfq, answered, known, refused,
                   late>>

\* displaySetVsyncEnabled(DISABLE), of a display that is connected and of one
\* that is not.
DisableVSync ==
    /\ call.op = "disable"
    /\ RequestVSync(FALSE)
    /\ answered' = call.event /\ call' = NoCall
    /\ UNCHANGED <<ueventVars, managerVars, dispatcherVars, vthread, orphans,
                   engine, displayVars, told, sfq, known, refused, late>>

HotplugOutDone ==
    /\ call.op = "out_done"
    /\ Notify(FALSE)
    /\ answered' = call.event /\ call' = NoCall
    /\ UNCHANGED <<planVars, connected, trigger, feature, dispatcherVars,
                   vsyncVars, engine, displayVars, told, sfq, known, refused,
                   late>>

\* Mutant of Flipped: the counting call of the external display leaves it.
FlippedUnlessCounting ==
    IF call.op = "count" /\ call.dpy = "external" THEN flip ELSE ~flip

\* getReleaseFenceFds, once to count and once to fill.  Each call takes itself
\* for the one that flip says and turns it; a call of a display that is not
\* connected returns before that.
Flipped == ~flip

GetReleaseFence ==
    /\ call.op \in {"count", "fill"}
    /\ flip' = Flipped
    /\ call' = IF call.op = "count" THEN [call EXCEPT !.op = "between"]
               ELSE NoCall
    /\ UNCHANGED <<ueventVars, managerVars, dispatcherVars, vsyncVars, engine,
                   layers, power, told, sfq, answered, known, refused, late>>

SFFill ==
    /\ call.op = "between"
    /\ IF call.dpy = "external" /\ ~connected
         THEN refused' = refused + 1 /\ call' = NoCall
         ELSE UNCHANGED refused /\ call' = [call EXCEPT !.op = "fill"]
    /\ UNCHANGED <<ueventVars, managerVars, dispatcherVars, vsyncVars, engine,
                   displayVars, told, sfq, answered, known, late>>

SFStep ==
    \/ SFConnected \/ SFDisconnected \/ SFCalls \/ GetActiveConfig \/ SFSwitchOn
    \/ SetPowerMode \/ DisableVSync \/ HotplugOutDone \/ GetReleaseFence
    \/ SFFill

Next ==
    \/ HandleUevents \/ UEventStep
    \/ VSyncLoop \/ VSyncFire
    \/ EngineGroup \/ EngineRequest \/ EngineTimeout
    \/ SFStep

\* The threads run; VSyncs come and waits time out.  The engine leaves its lock
\* free for as long as it waits, more than a VSync period, so that VSyncFire gets
\* it.  Nothing is asked of SurfaceFlinger.
Fairness ==
    /\ WF_vars(UEventStep)
    /\ WF_vars(VSyncLoop) /\ SF_vars(VSyncFire)
    /\ WF_vars(EngineRequest) /\ WF_vars(EngineTimeout)

Spec == Init /\ [][Next]_vars /\ Fairness

-----------------------------------------------------------------------------
(* Properties                                                              *)

\* The type invariant; a call of hotplugExt is outstanding whenever the
\* UEventThread is not idle, and DisplayManager has a display connected only
\* while HWCDispatcher has it allocated.
TypeOK ==
    /\ m_is_hotplug \in BOOLEAN /\ todo \in Seq(BOOLEAN) /\ Len(todo) <= 2
    /\ upc \in {"idle", "call", "thread", "report", "start", "sleep", "waiting",
                "signalled", "timedout", "exit", "kick", "join", "forget",
                "plugout"}
    /\ upc # "idle" => todo # <<>>
    /\ connected => alloc
    /\ events \in 0 .. MaxEvents /\ failures \in Nat
    /\ connected \in BOOLEAN /\ trigger \in BOOLEAN /\ feature \in BOOLEAN
    /\ m_ext_active \in BOOLEAN /\ alloc \in BOOLEAN /\ made \in Nat
    /\ callbacks \in [Displays -> SUBSET (1 .. made)]
    /\ vthread \in BOOLEAN /\ vs \in VSyncThread /\ orphans \in Nat
    /\ engine \in {"idle", "group", "wait"}
    /\ layers \in BOOLEAN /\ power \in BOOLEAN /\ flip \in BOOLEAN
    /\ told \in Nat /\ sfq \in Seq([connect : BOOLEAN, id : 1 .. told])
    /\ call \in [op : Ops, dpy : Displays, event : 0 .. told]
    /\ answered \in 0 .. told /\ known \in BOOLEAN
    /\ refused \in Nat /\ late \in BOOLEAN

Quiet == upc = "idle" /\ call = NoCall /\ sfq = <<>>

\* A wait of hotplugExt that a signal ends was ended by SurfaceFlinger's answer
\* to the event it waits for.  Two things excuse another end: a wait that gave
\* up, whose late answer may be taken for the next; and a plug-in that failed,
\* of which SurfaceFlinger was told all the same, so that when the next one
\* connects the display a query of its own comes before it hears of that.
AnswerEndsOwnWait ==
    upc = "signalled" =>
        answered = told \/ late \/ (Connecting /\ known /\ failures > 0)

\* However late the answers came and whichever plug-ins failed, once all are in
\* m_ext_active tells whether the display is connected, so that the next change
\* is signalled.
ActiveInStep == Quiet => m_ext_active = connected

\* destroyExternalDisplay does not clear the layers under a call that uses
\* them, unless a wait was given up.
ClearedAfterUse ==
    [][layers /\ ~layers' =>
         late \/ call.dpy = "primary" \/ call.op = "out_done"]_vars

\* The VSync of a connected display that SurfaceFlinger switched on is enabled
\* when everything has settled: neither the end of the plug-in nor a late
\* answer to an earlier plug-out leaves it off.
VSyncOnWhenOn == Quiet /\ connected /\ power => vs.m_enabled

\* Between two events a VSyncThread runs for the display if it is connected, and
\* one more for each plug-in that left it unconnected: those are not joined, as
\* an unconnected display is never unplugged and the next plug-in forgets them.
OneVSyncThread ==
    upc = "idle" => orphans + (IF vthread THEN 1 ELSE 0)
                      = failures + (IF connected THEN 1 ELSE 0)

\* Where the external display is triggered by its own VSync, the VSync listeners
\* are its present DispatchThread and none that is gone.  Where it is triggered
\* by the primary display's, every DispatchThread ever made stays a listener:
\* the plug-out takes it off the other list.
ListenersLive ==
    callbacks = IF feature
      THEN [primary |-> {}, external |-> IF alloc THEN {made} ELSE {}]
      ELSE [primary |-> 1 .. made, external |-> {}]

\* The flag that all displays share has the counting calls count and the filling
\* calls fill, up to a filling call that is refused as its display is gone;
\* each such refusal exchanges the two for every display from then on.
FlipFollowsCalls ==
    (flip = (call.op \in {"between", "fill"})) <=> refused % 2 = 0

\* Every uevent is dealt with in the end: neither the join of the VSyncThread
\* nor the engine's wait for a VSync nor an answer that never comes stops the
\* UEventThread for good.
UEventEnds == upc # "idle" ~> upc = "idle"
=============================================================================
