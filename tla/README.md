# A verification model of libhwcomposer

This directory holds a TLA+ model of the hardware composer in `2.0.0/`, the
configurations with which TLC checks it, and proofs that TLAPS checks. The
models are written from the source; where a comment of the source says something
else than the code does, a run shows the difference (see *Findings*).

## The system

SurfaceFlinger calls the composer for every frame: `validate` decides how each
layer is composed, `present` gives the frame to the hardware. The work behind
these calls is spread over several threads of one process.

| Component | State it keeps | Operations |
|---|---|---|
| `HWCMediator`, `HWCDisplay`, `HWCLayer` (`hwc2.cpp`, `hwcdisplay.cpp`, `hwclayer.cpp`) | layers, validate state, unpresent count, what the last frame looked like | validate, present, checkSkipValidate, createJob, power mode, release fences; **main thread** |
| HRT (`hrt_common.cpp`) | per display the GLES range, per layer its input | simpleLayeringRule, fillLayerInfo |
| `HWCDispatcher` (`dispatcher.cpp`) | per display a `WorkerCluster` (threads, pool, locks, `enable`, `ignore_job`), `m_curr_jobs`, `m_sequence` | getJob, setJob, trigger, setSessionMode, setPowerMode, onPlugIn, onPlugOut, configMirrorJob |
| `DispatchThread` (`dispatcher.cpp`, `worker.cpp`) | `m_job_queue`, `m_state`, `m_event` | trigger, wait, onVSync, threadLoop; **one thread per display** |
| `PostHandler` (`dispatcher.cpp`) | `m_curr_present_fence_fd` | set (fences of the frame), process (hand over to the engine) |
| `OverlayEngine` (`overlay.cpp`) | `m_frame_queue`, `m_pool`, `m_last_frame_info`, `m_engine_state`, `m_stop`, the output queue | trigger, stop, setPowerMode, configMirrorOutput, threadLoop; **one thread per display** |
| `AsyncBliterHandler` (`bliter_async.cpp`) | per layer a `DisplayBufferQueue`, the last release fence, the previous layer's fence | set, process, cancelLayers |
| `DisplayBufferQueue` (`queue.cpp`) | slots, FIFO, mode, fences | dequeue, queue, cancel, acquire, release, setSynchronousMode |
| `DisplayManager`, event threads (`display.cpp`, `event.cpp`) | displays, VSync and uevent threads | hotplugExt, hotplugVir, VSync fan-out; **hotplug and VSync threads** |
| `DataExpress` (`data_express.cpp`) | packages per display and job | findPackage, deletePackage |
| `SyncFence` (`sync.cpp`) | none | wait (which closes the descriptor) |
| devices (`drm/`, `legacy/`) | kernel handles | atomic commit, sessions, buffers |

A frame goes through them like this. The main thread takes a `DispatcherJob`
from the display's pool (`getJob`), fills it and asks the driver for its fences
(`setJob`), and puts it in the `DispatchThread`'s queue (`trigger`). That thread
composes the layers that need a blit and copies the job into a `FrameInfo` that
it puts in the `OverlayEngine`'s queue. The engine's thread waits for the
frame's fences, commits it, closes them and releases the frame it kept before.

What makes it hard:

- **concurrency**: three threads per display, the main thread, the hotplug and
  the VSync thread; two locks of a display (`plug_lock_main`,
  `plug_lock_loop`) taken in both orders; steps that look like one and are two
  (`OverlayEngine::trigger`, `onVSync`);
- **tear-down**: a plug-out at any moment, against a job half made, queued,
  handled, or committed;
- **limits**: pools of a few objects that are waited for with locks held;
- **answers**: a hotplug waits for SurfaceFlinger's answer, which may come after
  the wait was given up and a new event is under way;
- **memory of earlier frames**: a frame is presented without validation if
  nothing changed, which is told from flags that many functions set and clear;
- **fences**: descriptors that travel through six structures and have to be
  closed exactly once whatever happens to the frame.

`PROJECT.json` lists each hazard at its line with the properties that would
catch it.

## The modules

| Module | What it models |
|---|---|
| `HWCThread` | the thread both `DispatchThread` and `OverlayEngine` are: queue, semaphore, two-valued state, loop |
| `DispatchThread` | one `HWCThread` with its callers: trigger, `wait`, release, and `onVSync` on a third thread |
| `DispatchThread_proofs` | its theorems |
| `DisplayPipeline` | one pluggable display: main thread, `DispatchThread` (`D`) and `OverlayEngine` (`O`) as two instances of `HWCThread`, hotplug thread, pools, locks, fences |
| `DisplayPipeline_proofs` | its theorems on types, conservation, tear-down and flushes |
| `DisplayPipelineFences_proofs` | its theorems on order and fences |
| `DisplayBufferQueue` | the buffer queue, one action per call |
| `FrameStream` | what the buffer queue promises; the queue is shown to implement it |
| `DisplayBufferQueue_proofs` | its theorems |
| `BlitLayer` | a layer on its way through `AsyncBliterHandler` and `BliterNode`, composed with the layer's `DisplayBufferQueue` (`Q`) |
| `BlitLayer_proofs` | its theorems |
| `Hotplug` | plugging the external display in and out: uevent thread, SurfaceFlinger's calls, `VSyncThread`, the engine's wait for a VSync |
| `Hotplug_proofs` | its theorems |
| `Layering` | the pure part of HRT: GLES range, clear layers, inputs |
| `Layering_proofs` | its theorems |
| `Mediator` | one frame after the other of a primary and an external display: prepare, skip or validate, HRT (`Layering`), present |
| `Mediator_proofs` | its theorems |
| `MC...` | what TLC needs beside each of them |

Names are those of the source where TLA+ allows it. Every operation that runs
under one lock is one action; where the source releases a lock in the middle,
the model has as many actions as there are sections.

### HWCThread, DispatchThread

`m_queue`, `m_state` and `m_event` are the variables of the same names. `pc` is
the place of the thread: `start` (before `readyToRun`), `sem` (in `sem_wait`),
`loop` (about to look at the queue), `busy` (with a job), `last` (between the
loop and the last section of `m_lock`), `return` (in `Thread::_threadLoop`,
about to look at `mExitPending`), `exited`. The loop looks at its queue and pops
its front in separate sections; only the thread itself pops and pushes go to
the back, so `Take` is one step. `wait()` is a step that is enabled while the
state is idle: it polls every 50 ms, so the missing signal does not matter.

`onVSync` holds `m_vsync_lock`, not `m_lock`: its look at the queue, its write
of `m_state` and its post are three actions, between which anything may happen.

The constant `LateStart` says whether a job may be triggered before the thread
has run `readyToRun`. The code does nothing to prevent it; see *Findings*.

### DisplayPipeline

A job is a record of its number, `enable` and the fences it has to close; a
frame likewise. Job numbers stand for `m_sequence`. Fences are pairs of a kind
and the job that made them: `A` the acquire fences of its layers, `C` that of the
client target if it is all the job shows, `P` the duplicate of its present fence
for which the next job waits, `Q` the fence of picture quality. `JobFences` says
which of these a job may come with. `A` and `C` differ in one place: `dropJob`
calls `cancelLayers` for a job with layers only (`dispatcher.cpp:1416`), so that a
dropped `C` is lost. `open` is the set of descriptors the process has open.

The locks: `main_lock` is `plug_lock_main` where a call can wait while it holds
it (getJob for the pool, setPowerMode, onPlugOut); other calls under that lock
are single actions that need it free. `plug_lock_loop` is held exactly while
`LoopLocked`. `mpc` and `hpc` are the places of the main and the hotplug
thread, and each action of theirs is one blocking step or one section.

Left out: what a job does on the way that does not touch this state (layers,
blits, statistics), a second display, and the window before `readyToRun` that
`DispatchThread` covers (`Started`). `trigger` waits for the thread if more
than five jobs are queued: the pool has fewer, so it never does.

### DisplayBufferQueue, FrameStream

Slots, FIFO, mode and frame counter as in the source; `TypeOK` has the FIFO no
longer than there are slots. `pbuf` and `cbuf` hold
the fences in the hands of the producer and the consumer, which are trusted to
close what they are given or hand it on. Frame counters never wrap in practice
(2^64); `MaxFrame` bounds them.

### BlitLayer

The main thread is producer and consumer of the layer's queue at once: its
actions between two values of `mpc` are the calls that `set()` makes for one
layer, those on the queue being the actions of `Q`. `cur` is the `HWLayer` it
fills, `jobs` are those the dispatch thread will see, `pool` those that are free
with what their last use left in `ovl_port_param`, which `resetData` does not
touch. `m_job_params` holds the fences of the MDP jobs of `BliterNode`. `live`
is the set of open descriptors; a descriptor that is given to MDP, to the
overlay engine or to the `HWCLayer` leaves it, since they close it
(`DisplayPipeline` has the overlay's). Fences are named by kind and frame, so
that no number is used twice and an owner that uses a closed one is seen.

`IgnoreJobs` is a plug-out, after which the layer is gone: from then on jobs
are dropped. Left out: MML layers (whose job is started in `set()` already),
mirror and black jobs, and the destruction of the queue.

### Hotplug

`upc` is the place of the `UEventThread` in `hotplugExt`, `call` the call that
SurfaceFlinger's main thread is making: a call checks that the display is
connected and does its work in a later step, and an unplug may come between.
`sfq` holds the plug events that SurfaceFlinger has been told of and has not
handled; `told` and `answered` number them, so that an answer can be related to
the wait it ends. `vs` is the `VSyncThread` that `m_vsyncs` knows, `orphans`
counts those that it has forgotten. `callbacks` has, per display, the numbers of
the `DispatchThread`s in the list of VSync listeners. `engine` is the overlay
engine's place in the wait of `av_grouping`: it holds its lock while it asks for
the VSync and until the wait gives the lock up. `layers`, `power` and `flip` are
what `HWCDisplay` keeps of this: that it has layers, its power mode, and the
static flag of `getReleaseFenceFds`.

SurfaceFlinger makes its calls in any order, as slowly as it likes; `late` says
that a wait has been given up. A `waitRelative` ends by a signal or by its
timeout, never by itself. Any plug-in may fail, in two ways: `NoSession`, where
`onPlugIn` gives up before it makes anything (`dispatcher.cpp:930-936`) and the
next plug-in tries again, and a session that is made but reports no connection
(`display.cpp:640-644`), which leaves the display allocated, so that no later
plug-in does more than find it there. `hotplugExt` goes on alike in all cases: it
makes a `VSyncThread` and reports the display to SurfaceFlinger, which from then
on knows it (`known`) and may ask for its configuration when the next plug-in
has connected it. `failures` counts the plug-ins that left the display
unconnected. Left out: the fake external display and the fake VSync, virtual
displays, and what a plug-out does to jobs, which `DisplayPipeline` has.

### Layering, Mediator

`disp[d]` is the `HWCDisplay` of display `d` with its layers and the job of
`HWCDispatcher` it prepares. A layer is its number, which is also its z-order,
with the fields that decide how it is composed; what SurfaceFlinger wants to
show there (`scene`) is one of five looks, which stand for what
`HWCLayer::validate` tells apart: taken by any input, taken but with alpha, taken
through the media data path, refused, and composed by SurfaceFlinger of its own
will. `believes` is what SurfaceFlinger takes for the composition of a layer;
`shown` is the frame that a display was given.

A frame goes as SurfaceFlinger makes it: `BeginFrame` writes all displays, the
primary display's first call precedes those of the others, a display with
nothing to compose is presented at once (`PresentFirst`) and validated if that is
refused. `Opened` is what the first call of a frame does to all displays:
`Built` (`buildVisibleAndInvisibleLayer…`) and `Prepared` (`createJob`,
`initPrevCompTypes`); `checkSkipValidate` and `HrtRun` are the source's. `Decided` is what validation,
or HRT alone where it is skipped, makes of the displays; `ChangedOf`, `Accepted`
and `AcceptedOf` are the changes that SurfaceFlinger is told of and what the
display and SurfaceFlinger then hold for each layer's composition. One
change comes before each frame (`touched`), so that the flags of one change are
seen to be spent before the next; `PlugOut` comes at any time, by another thread.

Capabilities have their defaults: validation may be skipped and so may HRT,
client clear layers are supported, and the kernel answers no layering query. Left
out: the frames of a display triggered by VSync that `getJob` drops because they
come too early (`dispatcher.cpp:213-228`: here every display gets its job),
mirroring, hints, picture quality and secure layers as reasons to validate,
virtual displays, and the geometry of layers. A display that is unplugged is
cleared at once, since each later call for it is refused.

## The runs

| Run | Configuration | Shows |
|---|---|---|
| `buffer_queue` | 3 slots (as in the source), 3 descriptors, 4 frames; symmetry over descriptors | both modes, mode changes, replaced and cancelled buffers; that the queue implements `FrameStream` |
| `dispatch_thread` | 4 jobs, VSync posts up to 3 | no lost or repeated job, no missed wake-up, flushes flush |
| `dispatch_join` | 2 jobs | *violation*: a job may be left when the thread is joined |
| `dispatch_late_start` | 2 jobs, `LateStart` | *violation*: a flush before the thread started does not flush |
| `pipeline` | pools of 2, 3 jobs with any kind of fence, one plug-out and plug-in | conservation of jobs, frames and fences, order, tear-down; no deadlock |
| `pipeline_live` | pools of 2, 3 jobs, `trigger_by_vsync`, one plug-out | everyone gets on, the pools' waits under both locks included |
| `pipeline_fence_wait` | the driver waits for the fences, not the engine | *violation*: a fence is not closed |
| `pipeline_curr_job` | | *violation*: the current job disappears under the main thread |
| `blit_layer` | 3 slots, 2 jobs, 5 frames, one failed configuration | MDP and overlay wait for each other; every fence has one owner; what a failure and a plug-out cost |
| `blit_cancelled_job` | the same | *violation*: a cancelled MDP job is looked for |
| `hotplug` | 3 uevents, any overlay session may fail | answers, VSync threads and listeners belong to the display that is there; every uevent is dealt with |
| `mediator` | 4 layers of two looks on 2 or 3 inputs, and an external display with one layer on one input; 2 primary layers beside it | validated or skipped, each layer is drawn once, in its place, by what can draw it |

Bounds. Four jobs let one be handled, one wait, one arrive while the loop ends
and one be handed over at the release. Three slots are the source's own
number; four frames let every slot be used again with a replaced frame between.
The source's pools have five objects; two make every wait for an object happen
with three jobs, which is what larger pools would need more jobs for: in
`pipeline` and in `pipeline_live` the main thread waits in `getJob` with
`plug_lock_main`, and the dispatch thread in `OverlayEngine::trigger` with
`plug_lock_loop`, while a plug-out is after both. In `pipeline_live` all jobs have
an acquire and a present fence (`OneKind`), since fences decide nothing in the
control. One
plug-in after a plug-out lets state of the old display meet the new one. Five
frames use each slot again after a frame that shows a buffer twice. One failed
configuration of three slots leaves two, which is the least the queue works
with; a second one would stop the main thread in `dequeueBuffer` for ever
(`SlotForEveryFrame` says so for every number of slots). In `dispatch_thread`
deadlock is not checked because a released display stops for good, in
`blit_layer` because its frames are used up; in the other passing runs it is
checked or the system ends by its bounds.

In `hotplug` three uevents are a plug-in, an unplug and a plug-in whose answers
are all outstanding; a change of the display makes two calls at once. The same
number has a session fail and be tried again, with an answer to the first
outstanding or given. In `mediator` four
layers on two inputs make the range grow upward, downward and both ways, and let
two clear layers be wanted where one is possible; two video layers are one more
than the media data path takes; three inputs are enough for the number to shrink
and grow. With one input and a clear layer in second place `simpleLayeringRule`
counts past the number at which it stops (`hrt_common.cpp:129`) and `fillHwLayer`
aborts: the inputs of the primary display are therefore at least two. How many
there are is the answer of the driver.

Fairness. In `hotplug` the uevent, VSync and engine threads are scheduled and
waits time out (`WF`); `VSyncFire` has `SF`, since the engine gives its lock up
for longer than a VSync period whenever it waits. Nothing is asked of
SurfaceFlinger, which may never answer. `mediator` needs no fairness. For the
others: each thread is scheduled (`WF` of its steps), and a call that is under
way goes on (`WF` of its return). Nothing obliges anyone to start a call. The
hotplug thread needs `SF`: it waits for `plug_lock_main`, which the main thread
takes and releases with every frame, and a mutex that is free again and again
is eventually taken.

## What is proved

For every number of jobs, slots, descriptors, frames, uevents and failures, from
the assumptions the modules name (`QueueAssumption`, `DispatchAssumption`,
`PipelineAssumption`, `BlitAssumption`, `HotplugAssumption`, `MediatorAssumption`
and a `NoJobAssumption` of two modules). They say that bounds are numbers, that
there is something of what is counted, that a value standing for none is none of
the others, and for `Mediator` that the layers of a display are a finite sequence
that says what each may look like.

- `DisplayBufferQueue_proofs`: type correctness, `QueueHoldsQueuedSlots`,
  `FramesInOrder`, `AsyncHoldsOneFrame`. The inductive invariant is their
  conjunction with a bound of every frame number by `m_frame_counter`; order
  and consistency need each other, since `acquireBuffer` takes the frame number
  from the slot that the FIFO names. `FenceHeldOnce` and `OnlyReplacedFramesLeak`
  need to know in which states a slot, the producer and the consumer can have a
  fence at all (`FencePlaces`), or a fence that is written over would be lost.
  `QueueImplementsStream` is the refinement of `FrameStream`: the queued frame
  numbers are mapped one by one, every call to a step of the stream or to none.
- `DispatchThread_proofs`: type correctness, `JobsKept`, `NeverSleepsOnWork`,
  `SleepsIdle`, `FinishedInOrder` and, if `LateStart` is false, `WaitFlushes`.
  The inductive invariant is `IInv`. `NeverSleepsOnWork` is not inductive: that
  a semaphore count covers the queue has to hold wherever a thread may go to
  sleep next, which is `SemCovers`, and that the state says TRIGGER whenever
  the semaphore is to be taken is `RestsIdle`. `WaitFlushes` follows from
  `StartInv`: an idle state means an empty queue and no job in hand, which
  holds from the moment `readyToRun` has run.

- `DisplayPipeline_proofs`: type correctness, `FramesConserved`,
  `JobsConserved`, `NoUseAfterRelease` and `PowerOffFlushes`, for pools of any
  size and any number of jobs and plug-ins. Four groups of conjuncts make the
  inductive invariant `IInv`. The types are stronger than `TypeOK`: a job
  outside the pool has a number, so that a frame has one. `LocksHeld`,
  `TornDown` and `HandsFull` tie the locks and the threads' places to the steps
  of a release; `NoUseAfterRelease` follows from them. `CurrKept` says that
  there is no current job while the main thread is idle or the display goes
  down, without which a plug-in would make a pool with one job too many. In
  `FlushInv` an idle thread has nothing queued and nothing in hand, for the
  engine except between the two sections of `trigger`, and nothing is triggered
  before both threads have run, which is the guard `Started` of the model.

- `DisplayPipelineFences_proofs`: `OldestFirst`, `NotClosedTwice`,
  `LayerFencesClosed` and, if the driver does not wait for fences
  (`~FenceWait`), `FencesClosedOnce`; if it does, the fence of picture quality
  stays open (finding 3). Lost are only what the property allows: a dropped
  client target's fence and, with each release, those of two jobs. The
  order (`Ordered`) is that of the numbers in five places, from the frame the
  driver has to the current job. For the fences, `BareJobs` says that a job
  that is not enabled has none, `Fresh` that the next job's names are new,
  `HeldOnce` that each has one owner, `LastJob` which job was under way when
  the thread was joined, `Undropped` that before the first plug-out no job is
  dropped, and `LostLittle` which fences nobody has: none before the first
  plug-out, client targets' up to the first release, and those of two jobs more
  with each release.

- `BlitLayer_proofs`: type correctness, `BlitWaitsForLastUse`,
  `SlotForEveryFrame`, `JobParamsOfFrames`, `FencesOwnedOnce` and the action
  property `OverlayWaitsForBlit`. The actions, which change records in sequences
  in slots, are first reduced to what they do to each slot, frame and job. Then
  `ControlInv` follows a slot through a frame (`SlotStages`) and counts the
  slots that failed frames left behind; `JobInv` says which numbers and kinds of
  fences a job and an MDP job have; `OpenInv` says that names not given out are
  not open and that every held fence is; `LostInv` says who has each open one.
  None of them can be spared: that a fence is held once rests on the kinds of
  fence a place can have (a name has one maker) and, for release fences, which
  move on with the layer, on `RelOnce`. What an `HWLayer` was left with by its
  last use is closed (`Stale`), or a failed frame would hand the overlay
  a fence that has another owner. `FewLost` pairs each open fence that nobody
  has with the failed frame or the dropped job that lost it.

- `Hotplug_proofs`: type correctness, `AnswerEndsOwnWait`, `ActiveInStep`,
  `VSyncOnWhenOn`, `OneVSyncThread`, `ListenersLive`, `FlipFollowsCalls` and the
  action property `ClearedAfterUse`. `Stages` ties what exists to the place of
  the uevent thread and counts the `VSyncThread`s. The rest is about answers.
  `InOrder` says how events, SurfaceFlinger's queue and its call are numbered:
  once the last event is handled the queue is empty, and once it is answered no
  call handles one. `InTime` says, as long as no wait was given up, that plug-outs
  are handled in their own waits (`OutsAwaited`), what each wait is left with
  (`WaitsEnd`), when `m_ext_active` is set (`ActiveSince`) and, while no plug-in
  failed, that SurfaceFlinger knows no display that is gone (`KnownSince`); the
  last is what a failed plug-in breaks, and why `AnswerEndsOwnWait` excepts the
  wait after one. `Settles` and `Powered` say, late or not and whatever failed,
  what the last event in SurfaceFlinger's queue, the call it is making and its
  answer will leave, which is what the properties say of the moment when all is
  settled.

- `Layering_proofs`: for any number of layers and inputs, `GrownRangeFits` (the
  range grows exactly until layers and client target fit, so that the abort of
  `hrt_common.cpp:153` is never met), `RuleFitsInputs` (so does the rule when it
  clears no layer), `RuleFits` (the rule as a whole: it clears only layers of the
  range that may be cleared, and fewer than there are inputs unless a single
  input meets three layers), `SlotsStack` (the inputs are stacked as the layers
  are, and only the layers of the range share one) and `ClearSlotsStack` (with
  clear layers, those have inputs beneath the client target's). The inputs are
  counted by the layers that end one, of which there are `CommittedCount`; clear
  layers are taken from the bottom, one less of them than there are inputs.

- `Mediator_proofs`: type correctness, `EveryLayerDrawnOnce`,
  `HardwareLayersFit`, the action property `StillSceneSkips` and, under
  `EnoughInputs`, `SlotsInOrder`, for any number of layers of any looks and any
  inputs of the two displays. The operators that change a display are first
  reduced to what they do to each field. A display is `Divided` if its range,
  its clear layers and its types say the same of every layer, and `Fits` if its
  inputs suffice. That this stays so when HRT runs on it again (`HrtAgain`) is
  why a validation can be skipped; that it is so after a validation, whatever
  came before, is `HrtFirst`. The inductive invariant `IInv` has four parts.
  `Shape` has the types and what a call leaves empty. `Settlement` says of
  each display what `Local` does: that SurfaceFlinger's belief and the layer's
  type agree unless it will be told so (`Answered`), that a display in which
  nothing is flagged as changed is divided, fits and has the types its layers'
  looks ask for (`Settled`), and that what is shown is drawn well
  (`ShownWell`); without the second nothing could be said of a frame whose
  validation was skipped. `Calls` says how the two displays' states go with the
  calls that are still to come and with `needValidate`, which belongs to both:
  when a display that is not validated may be presented, and when not. `Still`
  says which flags of the primary display are spent when a frame is over and
  stay so until the next change, from which `StillSceneSkips` follows. `EnoughInputs` is the hypothesis that a display that
  may have more than two layers is offered two inputs at least: with one, the code really
  gives the client target none (`hrt_common.cpp:129`, under *Bounds*).

Not proved: everything about liveness and `ENABLED` (`pipeline_live`, the
deadlock checks, that every uevent is dealt with), which is out of the prover's
reach and stays with TLC. Every invariant and every action property of the
passing runs is stated by a theorem. The five statements under *Findings* are
false and have their counterexamples from TLC.

## Findings

1. `dispatch_join`: the thread can exit with the job that the release handed
   over still in its queue. Its fences are then never closed.
2. `dispatch_late_start`: `readyToRun` resets the state without the lock.
3. `pipeline_fence_wait`: `closeAllFenceFd` leaves the picture-quality fence.
4. `pipeline_curr_job`: a plug-out clears the current job of a frame under way.
5. `blit_cancelled_job`: a frame whose configuration failed goes on with the
   number of its cancelled MDP job; it also keeps its slot for ever.

Further observations, without a run of their own:

- A filling call of `getReleaseFenceFds` that is refused because its display was
  unplugged leaves `flip` the wrong way round for all displays until the next
  such refusal (`FlipFollowsCalls` says exactly when, `hwcdisplay.cpp:1768`).
- Where the external display is not triggered by its own VSync, `onPlugIn` puts its
  thread on the primary display's list (`dispatcher.cpp:971`) and
  `releaseResourceLocked` takes it off its own (839-841): threads that are gone
  stay listeners. `ListenersLive` says so for every number of plug-ins.
- A plug-in that fails is reported to SurfaceFlinger and gets a `VSyncThread` all
  the same. The next plug-in forgets that thread, which runs on:
  `OneVSyncThread` counts one for each failure. After a failed
  `createOverlaySession` the next plug-in may connect; then a query of
  SurfaceFlinger's own, which knows the display from the failed one, can end
  `hotplugExt`'s wait before SurfaceFlinger has heard of the connection
  (`AnswerEndsOwnWait` excepts this). After `display.cpp:640-644` the display stays
  allocated and no later plug-in connects it.
- A job that a plug-out has dropped and that shows a client target only keeps the
  acquire fence of that target open for good (`dispatcher.cpp:1416`);
  `FencesClosedOnce` allows it just that.
- `m_need_validate` belongs to all displays and to the frame that set it. A
  display left out of a frame in which it was prepared would be validated by
  it later (`hwc2.cpp:2329-2364`); with the calls SurfaceFlinger makes this does not
  happen (`TypeOK` of `Mediator`).

## The plan

Done: `HWCThread`, `DispatchThread`, `DisplayBufferQueue`, `FrameStream`,
`DisplayPipeline`, `BlitLayer`, `Hotplug`, `Layering`, `Mediator`, and proofs
about all of them. Next, in this order:

1. That `DisplayPipeline` implements an abstract stream of frames (each shown
   once, in order, or dropped by a tear-down), as `DisplayBufferQueue` does
   `FrameStream`, with the refinement proved.
2. MML layers, mirror and black jobs in `BlitLayer`.
3. `MirrorOutput`: the engine's output queue, `configMirrorOutput`, and its
   release while somebody waits.
4. `SessionMode`: several displays, flushes before a mode change, the order of
   locks.
5. `DataExpress`, fake VSync and idle threads, watchdog.

## Not modelled

What the plan has left. Not planned are platform tables, geometry, formatting,
vendored UI helpers, feature threads beside the pipeline, `mtk_simple`, the ioctl
wrappers of the devices, and `fold/`, a copy of `2.0.0/`.
