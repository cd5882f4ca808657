------------------------------ MODULE Mediator ------------------------------
(***************************************************************************)
(* One frame of HWCMediator (2.0.0/hwc2.cpp): SurfaceFlinger writes the    *)
(* layers of the displays, then has each display validated (which layers   *)
(* go to inputs of the overlay engine, which must it compose itself?) and  *)
(* presented.  The first call of a frame prepares all displays and decides *)
(* whether the last validation still holds, so that a frame in which       *)
(* nothing changed is presented without one.                               *)
(*                                                                         *)
(* SurfaceFlinger is modelled from the calls the code is written for: it   *)
(* writes all displays before the first call, the primary display leads,   *)
(* and a layer that was last composed in another way than it asks for is   *)
(* asked for again.  The external display may be unplugged at any time, by *)
(* another thread.  The primary display stays on.                          *)
(*                                                                         *)
(* Capabilities and configuration have their default values: validation    *)
(* can be skipped (is_skip_validate, is_skip_hrt), client clear layers are *)
(* supported, there is no layering query of the kernel, no mirroring, no   *)
(* hint and no picture-quality feature that asks for validation by itself. *)
(***************************************************************************)
EXTENDS Layering, Sequences, Functions

CONSTANTS
    PrimaryLooks,    \* what each layer of the primary display may look like
    ExternalLooks,   \* and of the external one; a layer's number is its z-order
    Inputs,          \* per display: the inputs the overlay engine may offer
    MaxBesideExternal  \* bound on the primary's layers beside an external display

Displays == {"primary", "external"}
Looks == {"opaque", "alpha", "video", "unfit", "client"}
Absent == "absent"

LooksOf == [d \in Displays |-> IF d = "primary" THEN PrimaryLooks ELSE ExternalLooks]
Layers(d) == DOMAIN LooksOf[d]

ASSUME MediatorAssumption ==
    /\ \A d \in Displays : LooksOf[d] \in Seq(SUBSET Looks)
    /\ Inputs \in [Displays -> SUBSET Nat]
    /\ MaxBesideExternal \in Nat

VARIABLES
    scene,         \* SurfaceFlinger's layers: per display and layer, its look
    believes,      \* how it takes each layer to be composed
    step,          \* the call it makes next for each display in this frame
    frame,         \* a frame is under way
    touched,       \* something changed since the last frame
    disp,          \* HWCDisplay and its job, per display
    avail,         \* the inputs that the overlay engine of each display offers
    needValidate,  \* m_need_validate is NOT_SKIP
    shown          \* history: the frame each display was presented, if any

vars == <<scene, believes, step, frame, touched, disp, avail, needValidate, shown>>

-----------------------------------------------------------------------------
\* State of HWCDisplay and HWCLayer.

NewLayer == [type |-> "NONE", sf |-> "none", changed |-> FALSE,
             cap |-> FALSE, clear |-> FALSE]
NoJob == [num |-> 0, ovl |-> <<>>]

NewDisplay(d, on) ==
    [connected |-> on, on |-> on, gpu |-> FALSE, config |-> FALSE,
     state |-> "PRESENT_DONE", count |-> 0, prevAvail |-> 0,
     visible |-> <<>>, listChanged |-> FALSE, range |-> NoRange, clearNum |-> 0,
     prevTypes |-> <<>>, layer |-> [l \in Layers(d) |-> NewLayer], job |-> NoJob]

isValid(r) == r.connected /\ r.on
ValidDisplays == {d \in Displays : isValid(disp[d])}

getCompositionType(type) ==
    CASE type = "NONE"    -> "none"
      [] type = "INVALID" -> "client"
      [] OTHER            -> "device"

Indices(r) == 1 .. Len(r.visible)
Types(r) == [i \in Indices(r) |-> r.layer[r.visible[i]].type]
WithTypes(r, types) ==
    [r EXCEPT !.layer = [l \in DOMAIN r.layer |->
        IF l \in Range(r.visible)
        THEN [r.layer[l] EXCEPT !.type = types[CHOOSE i \in Indices(r) : r.visible[i] = l]]
        ELSE r.layer[l]]]

-----------------------------------------------------------------------------
\* What the first call of a frame does to each valid display.

\* A set of layers by z-order, the lowest first.
Stacked(layers) ==
    [k \in 1 .. Cardinality(layers) |->
        CHOOSE l \in layers : Cardinality({m \in layers : m <= l}) = k]

\* buildVisibleAndInvisibleLayerForAllDisplay: the layers that there are, and
\* one more frame that is not presented yet.
Built(r, looks) ==
    LET visible == Stacked({l \in DOMAIN looks : looks[l] # Absent})
    IN  [r EXCEPT !.visible = visible, !.listChanged = visible # r.visible,
                  !.count = @ + 1]

\* prepareForValidation: a job that has at least one layer, and the types
\* that SurfaceFlinger's answer is compared with.  getJob refuses no display a
\* job here: that it drops the frame of one that is triggered by VSync and came
\* too early (dispatcher.cpp:213-228) is left out.
Prepared(r, inputs) ==
    [r EXCEPT !.job = [num |-> IF inputs = 0 THEN 1 ELSE inputs, ovl |-> <<>>],
              !.prevTypes = [i \in Indices(r) |-> getCompositionType(Types(r)[i])]]

Opened(state) ==
    [d \in Displays |->
        IF d \in ValidDisplays
        THEN [Prepared(Built(disp[d], scene[d]), avail[d]) EXCEPT !.state = state]
        ELSE disp[d]]

isForceGpuCompose(r) == r.gpu

\* Mutants: the number of inputs, or the state of the layers, is not compared.
checkSkipValidateAnyInputs(D, isValidateCall) ==
    LET r == D["primary"] IN
    /\ ~isValid(D["external"]) /\ ~isForceGpuCompose(r) /\ ~r.config /\ ~r.listChanged
    /\ \A i \in Indices(r) :
         /\ ~r.layer[r.visible[i]].changed
         /\ isValidateCall \/ Types(r)[i] # "INVALID"

checkSkipValidateAnyState(D, isValidateCall) ==
    LET r == D["primary"] IN
    /\ ~isValid(D["external"]) /\ ~isForceGpuCompose(r) /\ ~r.config /\ ~r.listChanged
    /\ r.prevAvail = r.job.num
    /\ \A i \in Indices(r) : isValidateCall \/ Types(r)[i] # "INVALID"

\* checkSkipValidate: nothing that validation looks at has changed.  The flag
\* of a configuration change is spent by the call that reads it.
checkSkipValidate(D, isValidateCall) ==
    LET r == D["primary"] IN
    /\ ~isValid(D["external"])
    /\ ~isForceGpuCompose(r)
    /\ ~r.config
    /\ \A i \in Indices(r) :
         /\ ~r.layer[r.visible[i]].changed
         /\ isValidateCall \/ Types(r)[i] # "INVALID"
    /\ r.prevAvail = r.job.num
    /\ ~r.listChanged

ConfigRead(D) ==
    [D EXCEPT !["primary"].config = @ /\ isForceGpuCompose(D["primary"])]

-----------------------------------------------------------------------------
\* Validation of one display.

\* HWCLayer::validate: what the hardware takes of a layer SurfaceFlinger does
\* not want to compose itself.
validateLayer(layer, look) ==
    IF layer.sf = "client"           THEN "INVALID"
    ELSE IF look \in {"opaque", "alpha"} THEN "UI"
    ELSE IF look = "video"           THEN "MM"
    ELSE "INVALID"

\* The media data path takes one layer.  Too many are all given up where
\* there are four layers or more, else all but the lowest.
offloadMMtoClient(types) ==
    LET mm == {i \in DOMAIN types : types[i] = "MM"}
        kept == IF Cardinality(mm) >= 3 /\ Len(types) >= 4 THEN {}
                ELSE IF mm = {} THEN {} ELSE {Min(mm)}
    IN  [i \in DOMAIN types |-> IF i \in mm \ kept THEN "INVALID" ELSE types[i]]

\* HWCDisplay::validate, with completeLayerCaps: a layer without alpha that
\* the hardware takes may be a client clear layer.
Validated(r, looks) ==
    LET own   == [i \in Indices(r) |->
                    IF isForceGpuCompose(r) THEN "INVALID"
                    ELSE validateLayer(r.layer[r.visible[i]], looks[r.visible[i]])]
        types == IF isForceGpuCompose(r) THEN own ELSE offloadMMtoClient(own)
        typed == WithTypes(r, types)
    IN  [typed EXCEPT !.state = "VALIDATE", !.clearNum = 0,
            !.layer = [l \in DOMAIN r.layer |->
               IF l \in Range(r.visible)
               THEN [typed.layer[l] EXCEPT !.clear = FALSE,
                       !.cap = typed.layer[l].type # "INVALID" /\ looks[l] # "alpha"]
               ELSE typed.layer[l]]]

ClearOf(r) == {i \in Indices(r) : r.layer[r.visible[i]].clear}

\* HrtCommon::run without a layering query, for one display: the GLES range
\* from the types, grown until the inputs suffice, and back to the types; then
\* the input of each layer.  The last part is for valid displays only.
HrtRun(r) ==
    LET n     == Len(r.visible)
        found == findGlesRange(Types(r))
        rule  == IF isValid(r)
                 THEN simpleLayeringRule(n, found,
                        {i \in Indices(r) : r.layer[r.visible[i]].cap}, r.job.num)
                 ELSE [range |-> found, clear |-> {}]
        clear == ClearOf(r) \union rule.clear
        num   == IF rule.range = NoRange THEN r.clearNum
                 ELSE Cardinality({i \in clear : InRange(i, rule.range)})
        typed == WithTypes(r, updateGlesRangeHwType(Types(r), rule.range, clear))
    IN  IF ~r.connected THEN r ELSE
        [typed EXCEPT !.range = rule.range, !.clearNum = num,
            !.job.ovl = IF isValid(r) THEN SlotsOf(n, rule.range, clear, num) ELSE @,
            !.layer = [l \in DOMAIN r.layer |->
               IF l \in {r.visible[i] : i \in clear}
               THEN [typed.layer[l] EXCEPT !.clear = TRUE] ELSE typed.layer[l]]]

-----------------------------------------------------------------------------
\* Presenting one display.

\* beforePresent: the layers that have an input, and the client target's.
NoSlot == 0 - 1
Shown(r) ==
    LET hw == {i \in Indices(r) : Types(r)[i] # "INVALID"}
    IN  [num |-> r.job.num,
         hw  |-> {<<r.visible[i], r.job.ovl[i]>> : i \in hw},
         fbt |-> IF r.range = NoRange THEN NoSlot ELSE r.job.ovl[r.range.head]]
NotShown == [num |-> 0, hw |-> {}, fbt |-> NoSlot]

\* Mutants: the frame is not counted as presented, or what had changed is
\* not forgotten.
PresentedUncounted(r) ==
    [r EXCEPT !.prevAvail = IF r.job = NoJob THEN @ ELSE r.job.num,
              !.job = NoJob, !.state = "PRESENT_DONE",
              !.prevTypes = <<>>, !.listChanged = FALSE,
              !.layer = [l \in DOMAIN @ |-> [@[l] EXCEPT !.changed = FALSE]]]

PresentedKeepsChanged(r) ==
    [r EXCEPT !.prevAvail = IF r.job = NoJob THEN @ ELSE r.job.num,
              !.job = NoJob, !.state = "PRESENT_DONE",
              !.prevTypes = <<>>, !.listChanged = FALSE,
              !.count = IF @ = 0 THEN 0 ELSE @ - 1]

\* The job is on its way; afterPresent forgets what had changed.  (So does
\* the model with what the next frame sets before it reads it.)
Presented(r) ==
    [r EXCEPT !.prevAvail = IF r.job = NoJob THEN @ ELSE r.job.num,
              !.job = NoJob, !.state = "PRESENT_DONE",
              !.prevTypes = <<>>, !.listChanged = FALSE,
              !.count = IF @ = 0 THEN 0 ELSE @ - 1,
              !.layer = [l \in DOMAIN @ |-> [@[l] EXCEPT !.changed = FALSE]]]

-----------------------------------------------------------------------------
\* SurfaceFlinger, between frames: one change before each frame.

Init ==
    /\ scene = [d \in Displays |-> [l \in Layers(d) |-> Absent]]
    /\ believes = [d \in Displays |-> [l \in Layers(d) |-> "none"]]
    /\ step = [d \in Displays |-> "idle"]
    /\ frame = FALSE
    /\ touched = TRUE
    /\ disp = [d \in Displays |-> NewDisplay(d, d = "primary")]
    /\ avail \in [Displays -> UNION {Inputs[d] : d \in Displays}]
    /\ \A d \in Displays : avail[d] \in Inputs[d]
    /\ needValidate = TRUE
    /\ shown = [d \in Displays |-> NotShown]

Change == ~frame /\ ~touched /\ touched' = TRUE /\ UNCHANGED <<frame, step, needValidate, shown>>

PrimaryLayers == Cardinality({l \in Layers("primary") : scene["primary"][l] # Absent})

\* createLayer and what SurfaceFlinger writes of the new layer.
CreateLayer(d, l, look) ==
    /\ Change
    /\ d = "primary" /\ disp["external"].connected => PrimaryLayers < MaxBesideExternal
    /\ isValid(disp[d]) /\ scene[d][l] = Absent
    /\ scene' = [scene EXCEPT ![d][l] = look]
    /\ disp' = [disp EXCEPT ![d].layer[l] = [NewLayer EXCEPT !.changed = TRUE]]
    /\ UNCHANGED <<believes, avail>>

DestroyLayer(d, l) ==
    /\ Change
    /\ isValid(disp[d]) /\ scene[d][l] # Absent
    /\ scene' = [scene EXCEPT ![d][l] = Absent]
    /\ believes' = [believes EXCEPT ![d][l] = "none"]
    /\ disp' = [disp EXCEPT ![d].layer[l] = NewLayer]
    /\ UNCHANGED avail

\* A layer's state is written: setStateChanged.
SetLook(d, l, look) ==
    /\ Change
    /\ isValid(disp[d]) /\ scene[d][l] \notin {Absent, look}
    /\ scene' = [scene EXCEPT ![d][l] = look]
    /\ disp' = [disp EXCEPT ![d].layer[l].changed = TRUE]
    /\ UNCHANGED <<believes, avail>>

\* setColorTransform with one the hardware can do or cannot.
setColorTransform ==
    /\ Change
    /\ disp' = [disp EXCEPT !["primary"].gpu = ~@]
    /\ UNCHANGED <<scene, believes, avail>>

setActiveConfig ==
    /\ Change
    /\ disp' = [disp EXCEPT !["primary"].config = TRUE]
    /\ UNCHANGED <<scene, believes, avail>>

\* getAvailableInputNum changes: other displays need inputs too.
InputsMove(d) ==
    /\ Change
    /\ \E n \in Inputs[d] \ {avail[d]} : avail' = [avail EXCEPT ![d] = n]
    /\ UNCHANGED <<scene, believes, disp>>

SwitchExternal ==
    /\ Change
    /\ disp["external"].connected
    /\ disp' = [disp EXCEPT !["external"].on = ~@]
    /\ UNCHANGED <<scene, believes, avail>>

\* The external display comes, with init, and goes at any time.  Once it is
\* gone every call for it fails, so the model clears it at once, and its
\* layers; it comes back when SurfaceFlinger is done with the old one.
PlugIn ==
    /\ ~disp["external"].connected /\ step["external"] = "idle"
    /\ PrimaryLayers <= MaxBesideExternal
    /\ disp' = [disp EXCEPT !["external"].connected = TRUE]
    /\ UNCHANGED <<scene, believes, step, frame, touched, avail, needValidate, shown>>

PlugOut ==
    /\ disp["external"].connected
    /\ disp' = [disp EXCEPT !["external"] = NewDisplay("external", FALSE)]
    /\ scene' = [scene EXCEPT !["external"] = [l \in Layers("external") |-> Absent]]
    /\ believes' = [believes EXCEPT !["external"] = [l \in Layers("external") |-> "none"]]
    /\ shown' = [shown EXCEPT !["external"] = NotShown]
    /\ UNCHANGED <<step, frame, touched, avail, needValidate>>

-----------------------------------------------------------------------------
\* A frame.

Requested(look) == IF look = "client" THEN "client" ELSE "device"

layerStateSetCompositionType(layer, request) ==
    LET type == IF request = "client" THEN "INVALID" ELSE "UI"
    IN  [layer EXCEPT !.changed = @ \/ layer.type # type,
                      !.type = type, !.sf = request]

\* SurfaceFlinger writes every display.  It tries to present a display at
\* once when it believes it has nothing to compose on it.
BeginFrame ==
    /\ ~frame
    /\ frame' = TRUE
    /\ LET told == [d \in Displays |-> {l \in Layers(d) :
               isValid(disp[d]) /\ scene[d][l] # Absent
               /\ believes[d][l] # Requested(scene[d][l])}]
       IN  /\ believes' = [d \in Displays |-> [l \in Layers(d) |->
                  IF l \in told[d] THEN Requested(scene[d][l]) ELSE believes[d][l]]]
           /\ disp' = [d \in Displays |-> [disp[d] EXCEPT !.layer = [l \in Layers(d) |->
                  IF l \in told[d]
                  THEN layerStateSetCompositionType(@[l], Requested(scene[d][l]))
                  ELSE @[l]]]]
    /\ step' = [d \in Displays |->
          IF d \notin ValidDisplays THEN "idle"
          ELSE IF \E l \in Layers(d) : scene[d][l] # Absent /\ believes'[d][l] = "client"
               THEN "validate" ELSE "try"]
    /\ UNCHANGED <<scene, touched, avail, needValidate, shown>>

\* The primary display's first call comes first.
Turn(d) == d = "primary" \/ step["primary"] \in {"present", "idle"}

BadDisplay(d) ==
    /\ step[d] # "idle" /\ Turn(d)
    /\ ~disp[d].connected
    /\ step' = [step EXCEPT ![d] = "idle"]
    /\ UNCHANGED <<scene, believes, frame, touched, disp, avail, needValidate, shown>>

\* Is this the first call of the frame?
Opens(d) == disp[d].state = "PRESENT_DONE" /\ disp[d].count = 0

\* displayPresent before validation, refused or not.
PresentFirst(d) ==
    LET D == IF Opens(d) THEN Opened("CHECK_SKIP") ELSE disp
        need == IF Opens(d) THEN ~checkSkipValidate(D, FALSE) ELSE needValidate
        read == IF Opens(d) THEN ConfigRead(D) ELSE D
    IN  /\ step[d] = "try" /\ Turn(d)
        /\ disp[d].connected
        /\ disp[d].state # "VALIDATE_DONE"
        /\ needValidate' = need
        /\ \/ /\ need
              /\ disp' = read
              /\ step' = [step EXCEPT ![d] = "validate"]
              /\ UNCHANGED shown
           \/ /\ ~need
              /\ LET done == [e \in Displays |->
                               IF e \in ValidDisplays
                               THEN [HrtRun(read[e]) EXCEPT !.state = "VALIDATE_DONE"]
                               ELSE HrtRun(read[e])]
                 IN  /\ shown' = [shown EXCEPT ![d] = Shown(done[d])]
                     /\ disp' = [done EXCEPT ![d] = Presented(@)]
              /\ step' = [step EXCEPT ![d] = "idle"]
        /\ UNCHANGED <<scene, believes, frame, touched, avail>>

\* What validation makes of the displays, as the first call prepared them.
Decided(D, need) ==
    [e \in Displays |->
       IF e \notin ValidDisplays THEN HrtRun(D[e])
       ELSE IF need THEN HrtRun(Validated(D[e], scene[e]))
       ELSE [HrtRun(D[e]) EXCEPT !.state = "VALIDATE"]]

\* The layers whose composition is not what SurfaceFlinger takes it to be, and
\* what it and the display have of them when it is told.
ChangedOf(d, r) ==
    {l \in Layers(d) : \E i \in Indices(r) :
        /\ r.visible[i] = l
        /\ getCompositionType(r.layer[l].type) # r.prevTypes[i]}

Accepted(d, r) ==
    [r EXCEPT !.state = "VALIDATE_DONE",
              !.layer = [l \in Layers(d) |->
                 IF l \in ChangedOf(d, r)
                 THEN [@[l] EXCEPT !.sf = getCompositionType(r.layer[l].type)] ELSE @[l]]]

AcceptedOf(d, r, b) ==
    [l \in Layers(d) |->
       IF l \in ChangedOf(d, r) THEN getCompositionType(r.layer[l].type) ELSE b[l]]

\* displayValidateDisplay, and SurfaceFlinger's acceptance of the changes.
Validate(d) ==
    LET D == IF Opens(d) THEN Opened("PRESENT_DONE") ELSE disp
        need == IF Opens(d) THEN ~checkSkipValidate(D, TRUE) ELSE needValidate
        read == IF Opens(d) THEN ConfigRead(D) ELSE D
        done == IF read[d].state = "VALIDATE" THEN read ELSE Decided(read, need)
    IN  /\ step[d] = "validate" /\ Turn(d)
        /\ disp[d].connected
        /\ needValidate' = need
        /\ disp' = [done EXCEPT ![d] = Accepted(d, @)]
        /\ believes' = [believes EXCEPT ![d] = AcceptedOf(d, done[d], @)]
        /\ step' = [step EXCEPT ![d] = "present"]
        /\ UNCHANGED <<scene, frame, touched, avail, shown>>

\* displayPresent after validation.
Present(d) ==
    /\ step[d] = "present"
    /\ disp[d].connected
    /\ disp[d].state = "VALIDATE_DONE"
    /\ shown' = [shown EXCEPT ![d] = Shown(disp[d])]
    /\ disp' = [disp EXCEPT ![d] = Presented(@)]
    /\ step' = [step EXCEPT ![d] = "idle"]
    /\ UNCHANGED <<scene, believes, frame, touched, avail, needValidate>>

EndFrame ==
    /\ frame /\ \A d \in Displays : step[d] = "idle"
    /\ frame' = FALSE
    /\ touched' = FALSE
    /\ shown' = [d \in Displays |-> NotShown]
    /\ UNCHANGED <<scene, believes, step, disp, avail, needValidate>>

Next ==
    \/ \E d \in Displays :
         \/ \E l \in Layers(d) :
              \/ \E look \in LooksOf[d][l] : CreateLayer(d, l, look) \/ SetLook(d, l, look)
              \/ DestroyLayer(d, l)
         \/ InputsMove(d)
         \/ BadDisplay(d) \/ PresentFirst(d) \/ Validate(d) \/ Present(d)
    \/ setColorTransform \/ setActiveConfig \/ SwitchExternal \/ PlugIn \/ PlugOut
    \/ BeginFrame \/ EndFrame

Spec == Init /\ [][Next]_vars

-----------------------------------------------------------------------------
\* Properties.

\* The type invariant.  A display that has presented its last frame owes no
\* other one, whatever became of the other display: the branches of
\* displayValidateDisplay for a display that was prepared and left out
\* (hwc2.cpp:2329-2342) are never taken.
TypeOK ==
    /\ \A d \in Displays :
         /\ \A l \in Layers(d) :
              /\ scene[d][l] \in LooksOf[d][l] \union {Absent}
              /\ believes[d][l] \in {"none", "client", "device"}
              /\ disp[d].layer[l].type \in LayerTypes
         /\ step[d] \in {"idle", "try", "validate", "present"}
         /\ disp[d].state \in {"PRESENT_DONE", "CHECK_SKIP", "VALIDATE", "VALIDATE_DONE"}
         /\ disp[d].count \in 0 .. 1
         /\ disp[d].state = "PRESENT_DONE" => disp[d].count = 0
         /\ avail[d] \in Inputs[d]
    /\ {needValidate, frame, touched} \subseteq BOOLEAN

\* Whether it was validated or skipped, a presented frame shows every layer
\* exactly once: those that SurfaceFlinger composes are in the client target,
\* which has an input, and all the others have inputs of their own.  (HRT runs
\* again when validation is skipped, hwc2.cpp:1866, and may not find anything
\* that SurfaceFlinger has not been told.)
Composed(d) == {l \in Layers(d) : scene[d][l] # Absent /\ believes[d][l] = "client"}

EveryLayerDrawnOnce ==
    \A d \in Displays : shown[d] # NotShown =>
       /\ {s[1] : s \in shown[d].hw} =
            {l \in Layers(d) : scene[d][l] # Absent} \ Composed(d)
       /\ Composed(d) # {} => shown[d].fbt # NoSlot

\* The inputs of a presented frame exist and are stacked as the layers are:
\* a layer below another has the lower input, and every layer composed by
\* SurfaceFlinger is in its place between the others, or lies above a hole
\* that is cleared for a layer beneath (fillLayerInfo, hrt_common.cpp:164).
SlotsInOrder ==
    \A d \in Displays :
       LET fbt == shown[d].fbt
       IN  /\ fbt < shown[d].num
           /\ \A s \in shown[d].hw :
                /\ s[2] \in 0 .. shown[d].num - 1
                /\ \A t \in shown[d].hw : s[1] < t[1] => s[2] < t[2]
                /\ \A l \in Composed(d) :
                     \/ l < s[1] /\ fbt < s[2]
                     \/ s[1] < l /\ s[2] < fbt
                     \/ disp[d].layer[s[1]].clear /\ s[2] < fbt

\* What the overlay engine is given is what the layer now looks like, never
\* what it looked like when it was validated; nothing is given to it that the
\* GPU must transform, and the media data path gets one layer at most.
HardwareLayersFit ==
    \A d \in Displays :
       /\ \A s \in shown[d].hw :
            /\ ~isForceGpuCompose(disp[d])
            /\ disp[d].layer[s[1]].type =
                 CASE scene[d][s[1]] \in {"opaque", "alpha"} -> "UI"
                   [] scene[d][s[1]] = "video" -> "MM"
                   [] OTHER -> "NONE"
       /\ Cardinality({s \in shown[d].hw : scene[d][s[1]] = "video"}) <= 1

\* A frame of the primary display alone, in which nothing has changed since
\* the last and nothing is composed by the GPU, is presented without being
\* validated (checkSkipValidate): nothing that an earlier frame left behind
\* makes validation happen again and again.
StillSceneSkips ==
    [][PresentFirst("primary") /\ ~touched /\ ~isValid(disp["external"])
          /\ disp["primary"].range = NoRange /\ ~isForceGpuCompose(disp["primary"])
       => ~needValidate']_vars

=============================================================================
