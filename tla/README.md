# Verification of the gst-dsp plugin (ardrone2_gstreamer)

TLA+ models, TLC runs and TLAPS proofs for the program logic of this
repository: the GStreamer 0.10 plugin `src/gst-dsp/`, which encodes, decodes
and post-processes video on the DSP of an OMAP3 (the AR.Drone 2), and the V4L2
source patches in `src/fixes/`. All paths below are relative to the repository.

## The system

### Components, their state and their operations

| component | state | operations | hard behaviour |
|---|---|---|---|
| `async_queue.c` | list, `enabled`, mutex + condition | new, push, pop, pop_forced, disable, enable, flush | pop waits with an `if`; NULL must mean "disabled" |
| timestamp ring (`gstdspbase.c`, `ts_*`) | `ts_array[20]`, `ts_in_pos`, `ts_out_pos`, `ts_push_pos`, `ts_count`, under `ts_mutex` | store frame / event, clear events, flush check, drop, take, flush, reset | used in several critical sections per buffer; flushes between them; no overflow check |
| streaming core (`gstdspbase.c`) | two ports with a queue of `td_buffer`s each, `status`, `deferred_eos`, `eos_start`, the source pad's task | `pad_chain`, `sink_event`, `output_loop`, `pause_task`, `dsp_thread`, `got_message`, `gstdsp_got_error` | four threads, most shared variables without a lock |
| pinned buffers (`gstdspbuffer.c`) | the `td_buffer` a GstBuffer holds | new, finalize | downstream releases at any time |
| element lifecycle (`gstdspbase.c`) | `node`, `proc`, `dsp_handle`, `dsp_thread`, `done`, `dsp_error`, `flush` semaphore | `change_state`, `init_node`, `gstdsp_start`, `_dsp_stop`, `gstdsp_reinit` | partial failures, joins, a stop handshake with a timeout |
| DMM buffers (`dmm_buffer.h`) | mapping, allocation, owner | allocate, map, unmap, begin, end, use, free | ownership passes between DSP, plugin and downstream; results nobody looks at |
| DSP bridge (`dsp_bridge.c`) | file descriptor, processor, node, segments | open, attach, allocate, create, run, terminate, delete, notifications | each call may fail and leaves part of what it acquired |
| dummy element (`gstdspdummy.c`) | handle, node, two buffers | change_state, pad_chain, check_events | failure exits that undo part of it |
| IPP (`gstdspipp.c`) | algorithms, filter graph, `msg_sem`, `msg_ptr` | create/destroy pipe, queue/set-parameter requests, reset | replies carry no number; two seconds and on |
| encoders (`gstdspvenc.c` and its children, `tidsp/td_*enc.c`) | bitrate, level, codec data, `keyframe_event`, `skip_hack_2` | setcaps, events, in_send_cb, out_recv_cb | codec data skipped by a counter that two threads change without a lock |
| decoders (`gstdspvdec.c`, `tidsp/td_*dec.c`) | caps, crop, codec data, node | setcaps, create_node, check_stream_params | restart of the node within the stream |
| parsers (`gstdspparse.c`, `get_bits.h`) | none | per codec parse functions | headers cut off anywhere |
| V4L2 pool (`src/fixes/gstv4l2bufferpool_x86hacked.c`, `v4l2src_calls_hacked.c`) | buffers, references, live count, the driver's queue | new, get, qbuf, dqbuf, finalize, destroy; grab_frame | resuscitation of finalized buffers in any thread |
| V4L2 object (`gstv4l2object_hacked.c`) | format, frame sizes | probe, get_nearest_size, set_format | what is offered must be accepted later |

### Interaction

Upstream calls `pad_chain` and `sink_event` on the streaming thread; FLUSH_START
comes from any thread. `pad_chain` takes an input `td_buffer` from
`ports[0]->queue`, stores the frame's timestamp in the ring and sends the buffer
to the DSP. `dsp_thread` receives the DSP's messages and puts returned buffers
into their port's queue. `output_loop`, the source pad's task, takes output
buffers from `ports[1]->queue`, matches each with the oldest timestamp of the
ring, pushes it downstream and sends a buffer back to the DSP. `status` and the
queues' `enabled` flags stop all of them.

## Modules

| module | models | how |
|---|---|---|
| `AsyncQueue` | `async_queue.c` | one action per critical section; `pop` has two, around `g_cond_wait` |
| `ClosableQueue` | what the plugin relies on | abstract: a FIFO that can be closed; NULL only if closed during the call |
| `TsRing` | the ring's operations | one operator per critical section on the ring |
| `TsStream` | the ring in use | `reader` is the place of `output_loop` between its critical sections |
| `TsQueue` | what the ring promises | abstract: a FIFO of frames and events with a flush mark |
| `DspBase` | the streaming core | threads `upc` (streaming thread), `apc` (flushing seek), `lpc` (`output_loop`), `dpc` (`dsp_thread`); an action is a critical section or an access to an unlocked shared variable |
| `DspLifecycle` | the life of the element | threads `apc` (state changes and seeks), `spc` (`pad_chain` with `gstdsp_start`; `gstdsp_reinit`), `lpc`, `tpc` (`dsp_thread` number `tid`) and `stop`, the place in `_dsp_stop`, which either of the first two runs |
| `DspBridge` | `dsp_bridge.c`, `dmm_buffer.h`, `gstdsp_map_buffer` | operators on what the driver holds for one client: `live`, and `twice` for what is released without being held |
| `DspDummy` | `gstdspdummy.c` | state changes, a frame, and one call of the bridge after another that may fail |
| `DspIpp` | `gstdspipp.c` on the base class | the caller of `send_msg` (streaming thread or application), `dsp_thread` and the node; a request is three steps |
| `V4l2Object` | `gstv4l2object_hacked.c` | operators on a device: its sizes, its default and how it answers `VIDIOC_TRY_FMT` |
| `V4l2Src` | `v4l2src_calls_hacked.c`, `gstv4l2bufferpool_x86hacked.c` | the streaming thread, downstream, the application and the driver; a step is one critical section of the pool's lock or one ioctl |
| `FrameExchange` | what a capture promises | abstract: a buffer has one owner, and a frame is handed on only if the device keeps another |
| `DspParse` | `gstdspparse.c`, `get_bits.h` | operators on bit strings; reading beyond the end gives what the code's checks give, an `int` wraps where the code's does (`IntMax`), a golomb is searched for in 32 bits, and a shift by 32 gives what the build gives (`Overshift`) |
| `DspFraming` | `transform_codec_data`, `transform_nal_encoding` of `td_h264dec.c` | operators on byte strings, with the exits for data that is cut off |
| `DspVdec` | `gstdspvdec.c`, `td_h264dec.c`, `init_node` | the element as a record, transformed by setcaps, a buffer and a state change |
| `DspEncode` | `gstdspvenc.c`, `gstdsph264enc.c`, `gstdsph263enc.c`, `gstdspmp4venc.c`, `create_codec_data` | the level tables and the choice of level and bit rate as operators |
| `DspVenc` | `gstdspvenc.c`, `td_h264enc.c` | the application, the chain function, the thread of the DSP and the output loop |
| `DspClients` | the two clients of the bridge | a behaviour of it is one of `DspIpp` or one of `DspDummy` |
| `DspCodecs` | decoder and encoders | a behaviour of it is one of `DspVdec`, one of `DspVenc`, or one input of a pure function: a header, a level choice, a framing |
| `AsyncQueueProofs`, `TsStreamProofs`, `DspBaseProofs`, `DspLifecycleProofs`, `DspClientsProofs`, `DspCodecsProofs`, `V4l2SrcProofs` | | the theorems and their proofs, each about the module it is named after |
| `TsRingProofs` | | lemmas about the operations of `TsRing`, which the proofs about `TsStream` and `DspBase` use |
| `MC*` | | values of the constants for TLC; `MCQueues` puts `AsyncQueue` and `TsStream` side by side in one run |

How they fit together:

    DspBase  --EXTENDS-->  TsRing  <--EXTENDS--  TsStream
    DspBase  ==implements==>  TsStream  ==implements==>  TsQueue
    AsyncQueue  ==implements==>  ClosableQueue
    V4l2Src  --EXTENDS-->  V4l2Object
    V4l2Src  ==implements==>  FrameExchange
    DspIpp, DspDummy  --EXTENDS-->  DspBridge
    DspVdec  --EXTENDS-->  DspParse, DspFraming
    DspClients    =  DspIpp or DspDummy
    DspCodecs     =  DspVdec or DspVenc or a header, a level choice, a framing

A port's queue takes one step per operation in `DspBase` and `DspLifecycle`;
the refinement of `ClosableQueue` by `AsyncQueue` is what justifies that. The
places "asleep" and "woken" of a queue's consumer appear in all three.

`DspBase` and `DspLifecycle` split one C file by time scale. `DspBase` starts
when `gstdsp_start` has handed out the buffers and follows every buffer,
timestamp and event; the node never stops in it. `DspLifecycle` follows the
node, the handle, the threads and the stop handshake through several lives; a
queue is a number in it, an iteration of `output_loop` is a pop and a push, and
timestamps, EOS and events are absent.

`DspIpp`, `DspVdec` and `DspVenc` leave out what `DspBase` and `DspLifecycle`
model of the base class, and keep the calls of it that their own state depends
on (`init_node`, `pad_chain`, `output_loop`, `_dsp_stop`).

What an element is (`use_pinned`, `use_pad_alloc`, `eos_timeout`, the numbers of
buffers, whether it sends codec data), whether faults happen, and the bounds on
the stream, are a record `conf`, chosen from the constant `Confs` in `Init` and
never changed: one run then explores several kinds of elements.

### State and actions

* Each action is named after the function, or the step of it, that it models;
  `PROJECT.json` maps it to its lines. The place names of a thread (`"store"`,
  `"fs_disable1"`, ...) name the statement that comes next.
* Locals that live across a step are variables of the thread (`ubuf`, `lbuf`,
  `lret`, `leos`). `lthen` in `DspBase` is the return address of `pause_task`,
  which is entered from two places of `output_loop`.
* `status`, `enabled`, `deferred_eos`, `eos_start`, `done`, `dsp_error` are read
  and written without a lock. Each access is a step of its own, so the models
  contain every interleaving of them. Their accesses are word-sized in the
  build the plugin is made for and are taken as atomic. `pause_task` is four steps:
  the compare-and-exchange of `status`, the pause, and each `disable`; a buffer
  `output_loop` puts back is a fifth.
* `skip_hack_2` is incremented by `dsp_thread` and decremented by `output_loop`
  without a lock. `DspVenc` has the reading and the writing of each as steps of
  their own (`recv_read`, `recv_write`; `output_take`, `output_skip`), so an update
  may be lost; the variable `lost` remembers that one was. `DspLifecycle` keeps
  similar histories of the STOP handshake: `timedOut` (this stop's wait timed out),
  `leftover` and `timeouts` (answers left in the semaphore, and waits that could
  have left one).
* The timestamp ring is guarded by `ts_mutex`; a step on it is one critical
  section, not one function: `output_loop` uses up to four of them for a buffer.

### The environment, as the code uses it

GStreamer 0.10: the sink pad's stream lock serialises buffers, EOS, NEWSEGMENT
and FLUSH_STOP; between FLUSH_START and FLUSH_STOP, and outside PAUSED, the pad
refuses data; `gst_pad_pause_task` and `gst_pad_stop_task` wait for the
iteration in progress unless `output_loop` itself calls; deactivation of the
pads waits for `output_loop` and `pad_chain`; upstream stops when `pad_chain`
fails, until a flush. The DSP returns the buffers it is sent in order, one
output buffer with data per frame, possibly some empty ones, and answers STOP at
any later time; it may fail at any moment if `conf.faults`.

## Runs

| run | module, configuration | shows |
|---|---|---|
| `queues` | the queue: 3 buffers, 3 consumers; either any number of calls and spurious wakeups, or one call at a time and none | shared, no sleeper is left behind by a push or a disable, and disabling gets everyone out; used the way a port uses it, `async_queue.c` implements a closable FIFO: buffers come out in order and once, and NULL is returned only if the queue was disabled during the call |
| `queues` | the ring: 4 slots, 2 timestamps, 1 event | `ts_count` is the number of frames, the reader finds a frame where it takes one, its flush check stays true until it acts on it, and the ring implements the FIFO of `TsQueue` |
| `base_safety` | an encoder (pinned buffers) with 3 frames, an event and a seek; an element that gives memory away with 2 frames, an event, a seek and an empty buffer; a decoder (pad_alloc) with 2 frames, a seek, faults and the EOS timeout | no buffer is lost or in two places, a buffer is pushed with its own timestamp, nothing flushed is pushed after the flush, EOS reaches downstream once and overtakes at most the frame being pushed, the ring is used as `TsStream` says |
| `base_live` | encoders with and without the EOS timeout | upstream is never blocked for good, an accepted frame is pushed, and EOS arrives if there is a timeout |
| `life` | an element restarted twice; two lives of one whose DSP and algorithm fail and whose bridge refuses any call; a renegotiation with restarts; a seek around start and stop | threads never outlive the node and handle they use, `done` is never stale, no buffer survives its life, an answer to STOP that is left in the semaphore was left by a wait that timed out, NULL keeps nothing; nobody is left waiting on a stop or after a fault; without seeks and renegotiations and under fair threads every stop ends, unless a later life's finds the `dsp_error` of an earlier one (`StaleJoin`), and `pad_chain` returns |
| `clients` | the IPP element with two lives of two frames, with late replies, error codes or events; the dummy element with two starts and one failing call, in each build | requests never overlap, what is pushed is what the last algorithm wrote, everything is given back, every stop ends and a frame comes out of a node that answers |
| `v4l2` | two captures with two or three buffers, each fault of the driver alone, dead devices, devices that cannot be polled; 99 kinds of devices | the driver keeps a buffer while frames are handed out, buffers change hands as in `FrameExchange`, a capture that ended leaves nothing, stopping ends, and what was probed can be set |
| `codecs` | the decoder with four caps, two buffers, a failing node and seven streams; the encoder with three frames, two output buffers, two requests and caps in mid stream; headers, level choices and framings | the node is made for the size in the stream and its frames fit; headers go into the caps and pictures downstream, one buffer off at most after a lost update, and every key frame request is served; parsers find what was written and refuse what is cut off; frames and configuration records of AVC become what the node takes; the chosen level carries what is asked for |
| `base_eos_lost` | an element without EOS timeout | finding 1 |
| `life_flush_at_start` | a seek during `gstdsp_start` | finding 2 |
| `life_reneg_race` | a renegotiation while the application stops the element | finding 3 |
| `v4l2_held` | a sink that keeps a frame past the end of the capture | finding 4 |
| `life_late_answer` | two lives, with a STOP answered after two seconds | finding 5 |

Bounds and why they are enough:

* A ring of 4 slots wraps in every index in each run. `TsStreamProofs` and
  `DspBaseProofs` cover 20.
* Ports have one, two or four buffers, depending on the codec. `DspBase` has one
  input buffer, which makes `pad_chain` wait for it before the next frame, and two
  output buffers, so that one can be with the DSP or downstream
  while `output_loop` holds the other. `DspLifecycle` has two input buffers, and
  one or two output buffers.
* Three frames let one be flushed, one be in flight during the flush and one come
  after it. One seek reaches every race of a flush with the other threads; two
  seeks differ from it only in that the second starts from a flushed state,
  which the steps after FLUSH_STOP are in already.
* Three lives: the first to leave something behind, the second to trip over it,
  the third to see whether it accumulates. An element whose DSP and starts fail
  has two: the second is where `dsp_error` and the joined thread of the first are
  still there.
* A request of the IPP element has one predecessor and one successor that it can
  be confused with; two lives of two frames have both, within a life and across
  a stop. Late replies, error codes and events are separate configurations of the
  element; they meet in the state the next life starts from.
* The dummy element calls the bridge in a fixed order; one failing call leaves by
  each of its exits, and the second start shows what is left.
* Two or three capture buffers: with two, the streaming thread holds the last but
  one as soon as downstream has a frame; with three, finalizers run in two threads
  at a time. `NUM_TRIALS` is 1 for 50: once tried again, once given up.
  Every way of enumerating sizes occurs, with empty sizes and with two of the
  same area, as do field orders of each sort; `OfferedCanBeSet` covers the rest.
* The parsers are checked on headers with each optional field present and absent,
  whole and cut off after each byte, with golombs of up to 30 bits; `IntMax` is 2^29 - 1
  there because TLC's own integers have 32 bits, and the theorems hold for every
  `IntMax` with `(IntMax + 1) % 16 = 0`. `Overshift` is 0 or 1: what 32 bits shifted
  by 32 are on the processors the plugin runs on. The framing is checked with
  each width of length field and up to four NAL units. The level choice is checked at the sizes,
  rates and bit rates on either side of entries of the tables.
* Two output buffers and three frames for the encoder: both headers fill the
  buffers, a picture waits for one to come back, and a second and a third come
  after it. `EncoderRight` is proved for any numbers.
* Symmetry in `base_safety`: the buffers of a port, which the code does not tell
  apart.

`CHECK_DEADLOCK FALSE` is set where a bounded stream ends (everybody waits for
data that no longer comes, the last capture is over, all requests have been
made), and in the lifecycle runs where a known race leaves `pad_chain` at the
place `"crash"`. Waiting for each other is what the liveness properties exclude.

Some properties are conditional, because the unconditional one is false of the
code; the condition names what breaks it: `ChainHasBufferUnlessFault`,
`ChainHasBufferUnlessReset`, `NobodyLeftWaiting` (its two parts name a
renegotiation and a flush), `ShutdownEnds` and `ChainReturns` of `DspLifecycle`
(`Undisturbed`; `ShutdownEnds` also `StaleJoin`), `QueuesFollowStatus` (no faults, no EOS timeout),
`SentGetsThrough` (frames without an EOS timeout, EOS with one),
`RequestsDontOverlap` (no event nobody asked for), `IppAnswers` (`StaleError`),
`ClientsReleaseAll` (no failed call), `DriverKeepsABuffer` and `PoolReleasesAll`
(not with the driver's faults they name), `DecoderSized` (a kept node, a node made for
codec_data, a cropping that wraps: `CroppingAssumption`), `ProbedIsSettable` (`Answers`), `EncoderOutput` (`Steady`: headers only first, nothing empty; `lost`: what a lost
update costs). What a condition excludes no property catches:
`ImplementsClosableQueue` is about a condition variable without spurious wakeups
(`~shared`); `ClientsReleaseAll` says nothing of what the failure exits leave, nor
`ImplementsFrameExchange` and `PoolReleasesAll` of a sink that keeps a frame
(`HeldIsAlive`, which is violated, does).

### Fairness

Weak fairness of each thread's own steps: they are runnable threads, and the
locks they take are held for a few statements. `GotInput` and `GotFrame` are
weakly fair because the DSP returns what it is sent (an input buffer only while
it has an output buffer to write to); pinned buffers are released because the
sinks of an encoder do so; the EOS timeout fires because `dsp_thread` polls once
a second. The IPP node answers unless its replies
may be late, and then the two seconds of the semaphore pass; the camera fills
its buffers unless it is dead, and downstream gives frames back once the capture
has been stopped. Not fair: upstream need not send, the application need not seek or
change states, the DSP need not fail, and it need not answer STOP (the code gives
it two seconds and goes on).

## Proofs

`tlapm` checks every theorem; nothing is assumed beyond the named assumptions
on constants, which TLC evaluates for the values of each run. `PROJECT.json`
lists the theorems and the property each of them states. Every invariant of a
passing run is one of them, except `ParsedRight`.

* `AsyncQueueProofs`, for any set of buffers and of consumers: the type
  invariant; no sleeper is left behind (`SleepersAreServed`: a disabled queue is
  deserted, and wakeups suffice for the buffers); a woken consumer finds a buffer
  or a queue that was closed, if there is one call at a time and no spurious
  wakeup; and, under the same condition, the refinement of `ClosableQueue`.
  The invariant relates the sleepers, those woken and the buffers: a signal is
  given with every push, so a buffer waits beside a sleeper only if another
  consumer has been woken for it.
* `TsStreamProofs`, for a ring of any size (`RingAssumption`) as long as nothing
  is stored in a full ring (`RoomLeft`, a guard: the code has no check):
  `CountIsFrames`, `ReaderKnowsRing`, soundness of the window between the
  indices, and the refinement of `TsQueue`. The inductive invariant
  `IInv` says which slots lie between `ts_out_pos` and `ts_in_pos`, that the
  frames among them have timestamps and are counted by `ts_count`, that
  `ts_push_pos` lies in the window, and what the reader knows at each of its
  places. The refinement maps the window to a sequence. The arithmetic modulo the
  size is in `TsRingProofs`, with what each operation does to the window, to the
  frames in it and to the part that is flushed.
* `DspLifecycleProofs`, for every element, any numbers of buffers and any number
  of lives, faults, flushes and renegotiations: `LifeInv`, inductive, and from it
  `TypeOK`, `ThreadServesNode`, `DoneOnlyAtStop`, `AnswersAccounted`,
  `BuffersOfThisLife`, `NullReleasesAll`, `NobodyLeftWaiting` and
  `ChainHasBufferUnlessReset`. The invariant is needed because none
  of these is inductive: that `dsp_thread` may use the node rests on `_dsp_stop`
  being the only one to delete it and joining the thread first (`NodeInv`,
  `StopInv`), that a STOP sent with the semaphore at zero gets its own answer on
  the semaphore and the answers under way being what was left before plus the one
  waited for (`SemInv`: an answer is left by a wait that has timed out, and the node's
  deletion takes those under way with it), that buffers do not survive on `output_loop`
  having been waited for (`StopInv`, `BufInv`). The last two need more of the
  order in which the queues are set up and disabled. `WaitInv` says that whoever
  sleeps on a queue sleeps at an enabled, empty one, that it is served or the queue
  about to be disabled, and that nobody is left behind in a disabled queue; `GateInv`
  that, until a flush or a renegotiation sets the ports up anew, `status` is not OK
  whenever the input queue is disabled or a thread is about to disable it. One lemma
  per part of the invariant, one step per group of actions.
* `DspBaseProofs`, for every element, any numbers of buffers, frames, events and
  seeks: `BuffersConserved`, `QueuesFollowStatus`, `ChainHasBufferUnlessFault` and
  `EosOnce` (a part of `EosInPlace`). Where a buffer can be is one partition per port
  (`InputInv`, `OutputInv`), which needs no more than what each place of a thread
  holds. The other three rest on the order in which `status` and the queues change:
  `SeekInv` says which threads are at rest during FLUSH_STOP and that `status` is
  not OK until it is reached, `PauseInv` that `pause_task` stores its result before
  it disables anything, `DisabledInv` that a disabled queue goes with a `status`
  that is not OK, `ChainInv` what `pad_chain` finds when it has no buffer, `EosInv`
  which of the three that push EOS may still do so.
* The second part of `DspBaseProofs`, for every element, any size of the ring and
  any stream: `TypeOK`,
  the refinement of `TsStream`, `NothingStale`, `OwnTimestamp` and `EosInPlace`. The
  refinement needs that what `output_loop` has found out about the ring still holds
  at its next place (`StreamInv`), `NothingStale` that whatever is not flushed was
  sent after the last FLUSH_STOP (`FreshInv`). `OwnTimestamp` is the hardest: a
  timestamp goes into the ring before its frame goes to the DSP and is taken for
  some buffer that came back, and buffers that `output_loop` puts back into their
  queue come out of order. What is inductive (`OwnInv`) is that there are as many
  timestamps in the ring as frames on their way and that they are the same as far as
  they were sent after the last flush (`MatchInv`); that both are in order
  (`RingOrder`, `ComingInv`, `OrderInv`), but for the queue of output buffers while
  `status` is not OK, when nothing is pushed; and that FLUSH_STOP makes everything
  old before it sets `status` to OK. So a head that is not flushed means that
  nothing old is on its way, and the first frame that is must be its own. An empty
  ring means that nothing is on its way at all, which is why `EosInPlace` holds.
* `DspClientsProofs`, for any configurations, builds, faults, starts, lives and
  frames: `TypesOK`, `RequestsDontOverlap`, `ResultIsPushed` and
  `ClientsReleaseAll`. `IppInv` says where the caller of `send_msg` and
  `dsp_thread` can be (`CallerInv`), what the semaphore counts at each of those
  places (`SemaphoreInv`), that a request is in one place, with the thread that
  puts it or on its way (`OnePlace`), and that the arguments are the device's
  exactly as long as the node can see it (`ArgsShared`). A late reply is what
  makes this more than mutual exclusion: the semaphore stays down after a timeout,
  and the reply, whenever it comes, raises it. `ResultInv` follows the formats and
  buffers along the chain of algorithms, `MemoryInv` what a stop still has to
  release and what the driver holds meanwhile. For the dummy element `HeldExactly`
  says that the driver holds what the element's state, its node and the frame it
  is working on say, and nothing else, as long as no call has failed; nodes that the
  element has forgotten are kept apart from its own (`LostStuff`), and the theorem
  allows them in NULL only after a stop of an element that never got to PAUSED
  (`left`).
* `DspCodecsProofs`, for any streams, caps, frames, requests, output buffers and
  lives: `EncoderOutput`, `DecoderSized`, `LevelFits` and `FramedRight`.
  For the encoder, `EncoderInv` says of any node that the buffers skipped and those
  still to be skipped are as many as were counted as long as no update of
  `skip_hack_2` is lost, and follows each request for a key frame from the event to
  the frame it ends up with (`KeysInv`). For a node that sends its headers first
  (`Steady`), `StreamInv` adds that the buffers come and go in one order, the
  headers and then pictures, across `dsp_thread`, the queue and `output_loop`
  (`FreshInv`, `OrderInv`, `SkippedFirst`, `WholeInv`), and by how many have come back
  what `skip_hack_2` and the copies of it in both threads can be: `TakenInv` if
  downstream takes the headers, where `dsp_thread` increments it twice only, so that
  no more than one update can be lost and the count is off by one at most (one header goes
  through, or the first picture is skipped); `RefusedInv` if it may refuse them, for
  behaviours without a lost update. For byte-streams nothing is skipped
  (`ByteStreamInv`).
  For the decoder, `DecoderInv` relates the element's sizes, crop and color format
  to its parser and codec_data, and the node to the header it is sent first:
  `NodeFits` (its frames fit the output buffers), `NodeSized`, `FollowsStream`.
  It rests on what the parsers find, which is `ParsersRight`: for any bits and any
  width of an `int`, a header that is found has a size, the part of it that is
  shown is no larger, a size of H.264 is a whole number of macroblocks, and a
  decoder that knows its stream to be AVC finds no header in it. The proof
  follows each parser through its branches: whatever is read is a
  natural number (`AtIs`, by induction over the bits), as is a golomb, which leaves
  the position within the buffer (`GolombIs`), and so do any number of them
  (`GolombsAre`, by induction over the number); the arithmetic of
  the size wraps with the `int` (a multiple of 16 stays one), and the code's own
  tests of the sign are what makes it a size. Two things remain assumed of the streams: a
  buffer said to have a header has one that its parser finds
  (`StreamsAssumption`), and the cropping of H.264 does not wrap
  (`CroppingAssumption`): the code does not check that, see "Known defects". TLC
  evaluates both for every stream of the run.
  For the framing, `FramingRight` holds for any NAL units whose lengths their
  fields can hold, any numbers of them and of parameter sets, and fields of one to
  four bytes. The loops of the code consume a buffer from its front while their
  output grows at its end, so the proof looks at a sequence of parts from both
  sides: joined from the left (`Joins`) and from the right (`Rests`) it is the same
  bytes (`LeftIsRight`, by induction), the state of a loop after k rounds is the
  first k parts written and the last n - k left, one round takes it to the next
  (`NalUnitIs`, `ParameterSetIs`), and a recursive function with that start and
  those steps is the loop (`SameSteps`). A field is read back as it was written
  (`FieldRead`: quotients by powers of 256).
  For the levels, `LevelRight` holds for any stream, user's limit and level
  downstream asks for (`InputAssumption` gives their types), with unbounded
  integers. That the search over a table ends in an entry of it is an induction
  over the table, and that the last entry is the largest a fact of the tables.
* `V4l2SrcProofs`, for any number of buffers, captures and attempts, any device and
  every fault of the driver: `DriverKeepsABuffer`, `PoolReleasesAll`,
  `ProbedIsSettable`, and that the capture implements `FrameExchange`. `PoolInv` says where a buffer is (`OwnedInv`),
  that `live` counts what is out (`CountsInv`), that the pool has one reference for
  itself and one per buffer that exists (`RefsInv`), and who may have something at
  each stage of the capture (`PlacesInv`). `CountsInv` is what makes
  `count - live` tell whether the driver has a buffer; it is an inequality for a
  driver that loses buffers with an EIO. The hypothesis `NoneKept` excludes the
  sinks of finding 4, for which `PoolReleasesAll` claims nothing and `refs` no
  longer says who has a buffer.
  `ProbedIsSettable` needs no such hypothesis. Its invariant is that what is offered
  was probed of this device. What makes it true of the device is that the driver
  has the sizes it lists or answers with and gives them back unchanged when asked
  for exactly them: for a list, the nearest size exists and one at distance 0 is
  the size itself; for a range, rounding down to the grid leaves the grid alone,
  which is arithmetic with quotients. `DeviceAssumption` asks for a device with a
  size, and of a range that it is not empty and has a step. The frame sizes are
  proved to hold their samples for every width and height (`FrameHolds`).

Induction. The library's induction theorems take an operator as a parameter and
cannot be used here. What is needed of them is proved for sets instead: that a set
of natural numbers has a least one (`LeastNatural`) follows from the library's fact
that strict inclusion is well-founded on finite sets; from it come induction
(`Induction`: a set that has 0 and the successors of its members is `Nat`), the
existence of a function defined step by step (`Recursion`), and that such a function
stays in a set (`FunctionTyped`). Definitions over sequences that are to be proved
about are therefore recursive functions or set expressions, and no module declares a
RECURSIVE operator, since tlapm loses its SMT backend where one is in reach.

Only model-checked: the liveness properties (`DisabledReleases`, `ChainReturns`,
`SentGetsThrough`, `ShutdownEnds`, `IppAnswers`, `StopEnds`: fairness is out of
TLAPS's reach, like ENABLED), and `ParsedRight`, that a parser finds in a header the
numbers that were written into it: its subject are the headers `MCDspCodecs` writes
bit by bit, with powers of two as variables, which the SMT backend does not
do. The refinements that the runs check are proved.

## Findings

1. `base_eos_lost`: without an EOS timeout (`gstdspjpegenc.c:97`,
   `gstdspipp.c:1561`) an EOS that was deferred behind frames that are then
   flushed is never sent.
2. `life_flush_at_start`: FLUSH_START while `gstdsp_start` runs lets
   `output_loop`'s `pause_task` disable the input queue after FLUSH_STOP;
   `pad_chain` then uses a NULL `tb` (`gstdspbase.c:1298`).
3. `life_reneg_race`: `gstdsp_reinit` enables the queues that PAUSED_TO_READY has
   disabled meanwhile; `output_loop` waits for ever, and with it the state change.
4. `v4l2_held`: the reference of a frame that is downstream is dropped when the
   capture ends (`gstv4l2bufferpool_x86hacked.c:462`), because the pool's pointer
   to it is not cleared when it is handed out (553).
5. `life_late_answer`: an answer to STOP that comes after the two seconds of
   `g_sem_down_timed` (`gstdspbase.c:846`), but before `dsp_thread` looks at `done`,
   raises `flush` (241) for nobody. Nothing resets the semaphore: in the next life
   the wait returns at once, without the warning of 847, and `dsp_thread` is told to
   end and the node stopped before the DSP has answered.

### Known defects without a run of their own

Met while modelling, each of them outside the conditions under which the
properties above are checked:

* `dsp_error` is never reset (`gstdspbase.c:621`): the stop of the next life
  sends no STOP, leaves `done` unset and joins a thread that does not end. The
  second lives of `life` get there; `ShutdownEnds` names it (`StaleJoin`).
* After a failed start in a second life `dsp_thread` still points to the thread
  of the first, and is joined again (866); in a first life it is NULL. The model
  (`StopJoin`) takes a join of no thread, or of one that was joined before, to
  return; in C it is undefined.
* An error leaves the processor attached in `dsp_deinit` (737). `DspLifecycle` has
  one flag for handle and processor, so `NullReleasesAll` does not see it.
* FLUSH_STOP sets `status` to OK whatever it was (1384): after a DSP fault
  `pad_chain` waits for buffers of a `dsp_thread` that has exited.
* A failed `gstdsp_start` leaves `node` set (785, 1280); after a flush
  `pad_chain` takes the node for started and waits for ever.
* `eos_start` survives a flush and stops a running stream after a quiet second
  (640, 1351).
* The EOS timeout sets `status` and then disables the output queue (643-646); with
  FLUSH_STOP in between the queue stays disabled with `status` OK, and
  `output_loop` spins. `gstdsp_got_error` does the same to the input queue, with
  `pad_chain` getting a NULL buffer.
* The ring has no overflow check (1391).

IPP (`gstdspipp.c`):

* The input `td_buffer` is never put back into `ports[0]->queue` (481-498): the
  second frame of a life blocks `pad_chain` until the element is stopped.
* Arguments are not freed when `send_msg` times out, cannot put its message or
  gets an error code (550-567). `gstdsp_got_error(base, 0)` clears `dsp_error`
  (531-536). An error event nobody asked for frees the arguments of the request
  that is out, and lets the next one through the semaphore (513-517).
* A node that could not be allocated is freed all the same (1302-1304); a second
  setcaps forgets the node it replaces (1386-1389).

Dummy element and bridge:

* The node is created in NULL to READY and deleted in PAUSED to READY: a restart
  without NULL in between runs a NULL node, and an element that never got to
  PAUSED leaves its node (`left` of `DspDummy`, named in `ClientsReleaseAll`). A failed create or start leaves what came before it.
* When `check_events` fails `pad_chain` returns without giving its buffer back; when
  `dsp_node_get_message` fails the buffers are unmapped while the DSP copies.
* `allocate_segments` unmaps NULL when its last call fails. `dmm_buffer_map` looks at
  no result: after a failed mapping the old pointers are released once more.

V4L2:

* A QBUF that fails in the finalizer drops a reference twice; a driver that gives
  no or too few buffers leaves the pool (399-417); an EIO may cost a buffer
  (612-624).
* `get_nearest_size` reads `prevfmt.type`, `interlaced` and
  `fill_format_list` its `n` before they are written on some paths
  (2004-2021, 1933-1990, 1065-1099); the second try with a
  "progressive" field uses the same field (2060).
* The frame rate is never set (`goto done` at `v4l2src_calls_hacked.c:233`);
  `NUM_TRIALS` + 1 attempts are made; a camera that cannot be polled and is dead
  blocks the stop in `VIDIOC_DQBUF`.

Decoder:

* Caps that keep the node overwrite the crop and the output caps, which never
  reach the source pad (`skip_setup`).
* codec_data of earlier caps survives caps without any, and the next node is made
  for it; `need_node_reset` compares with the rounded size and reads width and height
  that caps may lack.
* The parser and the hooks of a codec are not reset when the codec changes; the
  H.264 parser refuses each configuration record it is given as parsed
  (`gstdspparse.c:564`); `transform_codec_data` counts in the wrong direction after
  the number of picture parameter sets, and when it fails the node stays without
  its codec_data and the element in error; the four cropping edges of H.264 are
  unsigned, and a sum of them that wraps passes the test for a size below zero
  (`gstdspparse.c:785`): the frame announced is then larger than the coded one, and
  the output buffers are too small for it; the escape scan wraps around for a start
  code in the first three bytes; the extended pixel aspect ratio of H.263 loses
  bits.

Encoder:

* `skip_hack_2++` in `dsp_thread` (`td_h264enc.c:255, 303`) and `skip_hack_2--` in
  `output_loop` (`gstdspbase.c:399-400`) are not atomic. When `output_loop` has read 1
  for the SPS and `dsp_thread` writes 2 for the PPS before the 0 of `output_loop` is
  written, the PPS goes downstream as a picture. The other way round the decrement is
  lost and the first picture is skipped. `DspVenc` does both (`SkipsAccounted` is
  false of it); `EncoderOutput` names them (`lost`) and says that there is no more.
* Once downstream has asked for AVC no setcaps sets the format back to byte-stream
  (`gstdspvenc.c:402-408`), while the caps that are announced say "byte-stream".
* A header in band while pictures are queued, or an empty buffer before it, makes
  `output_loop` skip the picture and push the header (`td_h264enc.c:255`).
* The data pointer moved past the headers (225-247) is not moved back when the
  buffer is pinned and used again.
* Caps in mid stream replace the caps that carry codec_data. When downstream
  refuses the caps with codec_data every picture is skipped.
* A level that is too small for the frame is chosen when its rates suffice
  (`gstdspvenc.c:246`).

## Not modelled, and why

* In `DspBase`: the frame-skipping counter `skip_hack` of `output_loop` (502-506)
  and the `flush_buffer` hook (1352-1353), which only some codecs set; parameter
  updates that ride on a buffer. `skip_hack_2` is in `DspVenc`.
* In `DspLifecycle`: failures of `gst_pad_push`, failing allocations of DMM
  memory, a parent `change_state` that fails. Downstream is assumed to have
  released its pinned buffers when the element stops: nothing in the code waits
  for it, `finalize` of `gstdspbuffer.c` uses the freed `td_buffer`, and there is
  no property that would hold.
* In `DspVenc`: the `byte-stream` property is not set while a node runs, and a
  downstream asked anew within a life answers as before, as the source pad's caps are
  fixed from the first on (`gstdspbase.c:1485`).
* In `DspVdec`: the JPEG decoder, whose I420 depends on the chroma in its caps
  (`gstdspvdec.c:264-270`). Downstream is asked anew in each life (`asked`); within one
  it answers with the source pad's fixed caps.
* In `V4l2Object`: a device whose stepwise sizes have a step of 0, for which the
  loop over them does not end (1839-1841).
* In `DspParse`: bytes that are read past the end of a buffer; the length of a
  frame in `DspVdec` is not cut to 32 bits (a header may ask for 2^20 by 2^20).
  A length field of four bytes whose sum with its own width wraps an `int` (`td_h264dec.c:225-226`)
  is taken as too long in `DspFraming`; in C the sum wraps.
  `DspFraming` likewise leaves out the bytes past the end that a write of four bytes
  touches when a length field has fewer.
* The audio decoder, the video post-processing and the glue of the other codecs:
  tables of ports and parameter blocks for the base class, without protocol.
* The stream, enumeration, load and start functions of the bridge: they have no
  callers. Properties of elements (`set_property`), tuner and channel interfaces:
  single assignments.
* The components marked `not_modelled` in `PROJECT.json`: pure I/O (the drone
  script), tables (registration), a vendored file (`cap_gstreamer.cpp`) and a
  template.

## Plan

What could come next, the most important first:

1. A composition of `DspVenc` with `DspBase`: headers and flushes at a time.
2. The audio decoder's and the post-processing's use of the base class, which
   differ from the video elements in their ports only.
