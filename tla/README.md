# Verification of the reCamera Pro C++ SDK

TLA+ models of the programs of the reCamera Pro (RV1126B) SDK, model-checked
with TLC, and theorems about them proved with TLAPS.  Paths are relative to the
root of the SDK's repository.

## 1. The system

The SDK is a C++ library for a camera board and a set of programs that use it.
The library itself is shipped as a binary (`lib/libreCamera_pro_sdk.so.1.0.0`)
with its headers, so the code that can be read, and modelled, is that of the
programs under `examples/`, of the UDP viewer beside one of them, of the inline
parts of the headers, and of the shell tools.  A class of the library is
modelled from how the programs use it and from what its header says, and is
marked external in `PROJECT.json`.

### 1.1 Components

| Component | State it keeps | Operations | What is hard |
|---|---|---|---|
| `rv1126b::Camera` (library) | device closed, open or streaming; a capture thread | `open`, `close`, `start`, `stop`, `capture_jpeg`, `set_frame_callback` | calls back on a thread of its own; `stop()` waits for it |
| `examples/rknn_yolo` | newest frame, newest detections, each under its mutex; condition variable; encoder, socket, NPU | main, frame callback, detection worker, signal | three threads, lost wake-ups, shutdown order, partial start |
| `examples/rtmp_push` | `connected`, the pusher's session, timestamps, statistics | main with the reconnection, frame callback, signal | the pusher is shared without a lock; a push fails half-way |
| UDP MJPEG (`main.cpp`, `main.cpp.orig`, `udp_receiver.py`) | frame counter of the sender; one frame being put together by the receiver | `send_frame`, the receive loop | loss, reordering, duplication, restart of the sender |
| `examples/record_video`, `camera_preview` | output file, statistics, time limit | main, frame callback, signal | the file is written by one thread and closed by another |
| `examples/capture_image` | camera life cycle, `got_frame` | snapshot, restart, first raw frame, snapshot | the callback is set after `start()` and refers to a local variable |
| `examples/rtsp_server`, `onvif_server` | which of camera, RTSP and ONVIF runs; timestamps | start, failure, stop | order of start and stop across services, ignored errors |
| `examples/uart_echo` | totals of bytes | read, write | short writes, timeouts |
| `examples/isp_control` | which ISP settings are manual | set, wait, restore | an interrupted program keeps the settings |
| `examples/gpio_control`, `imu_read`, `hello_world` | pin directions and levels; running statistics; none | sequential loops | clean-up after a failure |
| headers under `include/rv1126b` | none: declarations and small value types | `Result`, GPIO pin arithmetic, tensor sizes | numeric edges |
| `tools/demo_env.sh`, `tools/deploy.sh`, `tests/scratch/*.sh` | the device: who owns the camera, which library and which program are installed | stop and restore the vendor's service, install, run | one step of several fails over ssh |
| `cmake/`, `scripts/`, `sysroot/` | none | build | not a run-time matter; third-party code |

The programs do not talk to each other; each links the library and owns the
camera while it runs.  Inside a program the parts interact through the frame
callback, which the library calls on its capture thread, through atomics
(`g_stop`, `connected`), through data under a mutex, and through the calls main
makes on the library's objects.  `udp_receiver.py` is the only part that
interacts by messages.

### 1.2 What makes each part correct

* Detection pipeline: the worker infers whole frames, each at most once, never
  an older one after a newer; the newest frame is not forgotten; what is drawn
  on a frame is one publication of the worker; a resource is freed only after
  its last user; a stop ends the program.
* RTMP: nobody is at the pusher while another one connects or disconnects it;
  the statistics are those of the frames the server confirmed; timestamps only
  advance at the server; a failure leads to a new connection; a stop ends the
  program.
* UDP: an image that is shown is one that was sent, and a restart of the sender
  spoils one at most; none is shown again before all of it has come again; the
  order is kept when the network keeps it; when the network loses nothing every
  frame is shown.
* The others are listed under "hazards" in `PROJECT.json`, each at its line.

## 2. Modules

| Module | Models | Uses |
|---|---|---|
| `Camera` | the capture device and its thread, one variable `cam` (external) | |
| `LatestMailbox` | abstract: a mailbox of one place | |
| `SharedPusher` | abstract: a connection that one thread sets up and tears down and another one pushes over | |
| `CallbackScope` | abstract: the scope in which a callback may use what it refers to | |
| `YoloPipeline` | `examples/rknn_yolo/main.cpp`, threads and shutdown | `Camera`, refines `LatestMailbox` |
| `Nms` | its `parse_yolox_output` and `nms` | |
| `Nv12Overlay` | its `fill_rect_nv12`, `draw_text_nv12`, the drawing in the callback, and `preprocess_nv12_to_rgb` | |
| `UdpMjpeg` | both versions of `UdpMjpegSender`, the network, `udp_receiver.py` | |
| `RtmpPush` | `examples/rtmp_push/main.cpp` | `Camera`, refines `SharedPusher` |
| `RecordVideo` | `examples/record_video/main.cpp` | `Camera` |
| `CaptureImage` | `examples/capture_image/main.cpp` | `Camera` |
| `RtspService` | the RTSP server of the library and its clients (external) | |
| `RtspServer` | `examples/rtsp_server/main.cpp` | `Camera`, `RtspService` |
| `OnvifServer` | `examples/onvif_server/main.cpp` | `Camera`, `RtspService` |
| `CameraPreview` | `examples/camera_preview/main.cpp` | `Camera` |
| `UartEcho` | `examples/uart_echo/main.cpp` and the serial line | |
| `IspControl` | `examples/isp_control/main.cpp` | |
| `GpioControl` | `examples/gpio_control/main.cpp` | |
| `ImuRead` | `examples/imu_read/main.cpp` | |
| `Programs` | the board, on which one of the last nine programs runs | those nine, refines `CallbackScope` |
| `DemoEnv` | `tools/demo_env.sh`, `tools/deploy.sh` and the device they set up | |
| `YoloPipelineProofs`, `NmsProofs`, `Nv12OverlayProofs`, `RtmpPushProofs`, `UdpMjpegProofs`, `DemoEnvProofs` | theorems about the module in their name | |
| `CameraProgramsProofs`, `ProgramsProofs` | the invariant of each of the nine programs; theorems about `Programs` | |
| `MCNms`, `MCNv12Overlay`, `MCUdp`, `MCPrograms` | sets of values for TLC | |

An operator whose comment begins with "Variant:" is not part of a model.  It is
the definition below it with a plausible mistake; `PROJECT.json`, "mutants",
names the property that breaks when it is put in its place.

### 2.1 `Camera`

What a program relies on, from `include/rv1126b/camera/camera.hpp` and
`docs/architecture.md` ("Threading model"): the callback runs on a thread of the
camera, one call at a time, and only between `start()` and the end of `stop()`.
`stop()` is two actions, `CamStopRequest` and the guard `CamStopped`, so that a
callback that is on its way when main calls `stop()` runs to its end beside the
waiting main.  A program conjoins these actions with its own.

### 2.2 `YoloPipeline`

Main, the frame callback and the worker each have a program counter (`mainPc`,
`cbPc`, `yoloPc`) and one action per statement that touches shared state.  The
other variables have the names of the code.  Three abstractions:

* A frame is its number.  A buffer of pixels has two parts, `top` and `bottom`,
  and a `memcpy` is two actions, so that an access outside of the mutex would
  show as a buffer of two frames.  In the same way the detections and their rate
  (`g_latest_dets`, `g_latest_fps`) are written and read in two actions.
* Detections are `[of, nth]`, the frame they were found in and the number of the
  inference.  The rate is the `infer_count` it was computed from.
* `std::condition_variable::wait` is its loop: take the mutex (`YoloLock`),
  evaluate the predicate (`YoloPredicate`), release and sleep in one step
  (`YoloPark`), wake up when notified (`Notify`) or for no reason
  (`YoloSpuriousWakeup`).  `notify_one` and `notify_all` reach only a worker that
  sleeps.

Each start-up failure the code distinguishes is a disjunct: camera (the program
ends), socket and encoder (reported, the program goes on), camera start
(reported), `npu.init` and `npu.load_model` (the worker returns).  The loop over
encoded packets ends when there is none (`CbLeave`) or with one that has no data
(`CbEmptyPacket`), which may leave packets for the next frame.

### 2.3 `RtmpPush`

The callback reads `connected` and pushes in two actions, main disconnects,
waits, connects, sets the flag and counts in five, and tests `g_stop` where the
loop does, also before its first turn (`StartCamera`).  `session` is the pusher's
connection; the network breaks it at any moment (`SessionLost`), and the
library's own thread, which `Config::auto_reconnect` enables by default, may
repair it (`SessionRestored`).  A push that fails may have reached the server or
not.  `received`, `delivered` and `streamPts` are not variables of the program:
they record what the server confirmed, what it got, confirmed or not, and the
timestamp it saw last, for the properties.

`mtx` is `stats.mtx`.  The sections under it that use two counters are two actions
each: the callback counts the total and then the second (`CountFrame`,
`CountInSecond`), main prints and then resets (`ReportSecond`, `ResetSecond`).
Only the mutex (`CanLock`) keeps one from the middle of the other, and without it
`StatsTrue` fails.

### 2.4 `UdpMjpeg`

A datagram is a record of its header and of the sender's incarnation, which no
header tells; the content of a chunk is the frame it was cut from.  The network
is a set, and `scenario`, chosen at the start, says what it may do: reorder, lose
or duplicate.  `since` is not a variable of the receiver: it is what has come since
it last forgot a frame (`Forget`), for the property about late duplicates.
`Headers` chooses between the sender of `main.cpp.orig`, which
writes the header `udp_receiver.py` reads, and the one of `main.cpp`, which sends
bare pieces.  `Store` is the slice assignment of a Python `bytearray`, which
appends when the slice starts behind the end.

The receiver cannot tell all that may happen to it, and the properties say how far
it goes:

* A restarted sender counts from 1 again, and a frame number that two runs used
  may give an image of parts of both.  TLC finds such images.  `ShownWasSent` allows
  them for these numbers alone and, on a network that keeps the order, no more of
  them than there were restarts: what the new run sends ends the old frame.
* The receiver forgets a frame it has shown, so duplicates can start it again and
  show it again.  `ShownOnceInOrder` says when they do not: never while they are
  duplicates of some of its chunks only (`ShowsWhatCame`, on any network), and never
  in order, where they cannot come after the next chunk, unless the frame is one
  chunk, whose duplicate is all of it.
* Where nothing is lost or out of order `NothingLeftBehind` holds with duplicates
  too: a duplicate that starts a frame again costs none that is on its way.

### 2.5 `Nms`, `Nv12Overlay`

One action is one turn of a loop (`ParseRow`, `SkipSuppressed`, `KeepBest`) or a
call (`Sort`, which may leave equal confidences in any order; `DrawDetection`).
Numbers are scaled so that every value of the code is an integer: boxes in half
pixels, probabilities in per cent, and `iou() > iou_thresh` multiplied by the
union.  The image is a function from byte offsets to who wrote the byte last; a
write outside of the buffer would enlarge its domain.  The image has even sides,
as the camera of the program is opened with 3840x2160.

`preprocess_nv12_to_rgb` scales and converts the image for the network.  What it
computes from a pixel's three bytes is left out; a byte of the RGB image is the
set of bytes it was computed from.  The factors `sx` and `sy` are kept as
quotients, which the float ones of the code equal for its sizes (6 and 3.375).

### 2.6 The other examples, and `Programs`

Each has the variables of its `main.cpp`, a program counter for main (`main`) and
one for the frame callback (`callback`; the one of `onvif_server` is a single
step), if it has one.  A call that can fail is a disjunction.

* `RecordVideo`: `ofs` is what it is for the program: a flag for an opened file,
  `badbit`, what is buffered and what is on the disk; a write to a full disk
  loses part and sets `badbit`.
* `CaptureImage` adds `streamed` to the camera: a device that has streamed does
  not start again before it is closed and opened, as the WORKAROUND comments of
  the code say.  `alive` is the extent of the local variable the callback refers
  to.
* `RtspServer`, `OnvifServer`: `todo` is what main still has to stop on the path
  it is on.  `joined` and `status` record what clients and the status line were
  told.  A URL is its port.
* `CameraPreview`: the body of the callback is one step, because all of it is
  under `stats.mtx`; main holds the mutex for two.
* `UartEcho`: a byte is its number in the order of arrival.  `read()` delivers
  some of those that have come, `write()` sends a first part of what it is given.
* `IspControl`: `manual` is the set of settings that are not automatic; any call
  may be refused.
* `GpioControl`: the test of the loop and the switching are steps of their own
  (`BlinkAgain`, `LedOn`), and a signal may come between them.  `led` is the level
  the LED has, which a failing `set()`, whose result the code does not look at
  (`ignored`), leaves as it was.
* `ImuRead`: a reading is an integer, the mean is the sum and the count it is
  computed from; the seven channels, which are updated together, are one.
* `CaptureImage` and `OnvifServer` remember the errors the code passes over
  (`unopened`, a file that could not be opened; `unstarted`, a camera that did not
  start), so that the properties can say that nothing else has their effect.
* `Programs` starts one of the nine, as the devices have room for one, and
  states their fairness and the properties they share.  A property of one program
  or two is stated in its module and gathered here by its subject: `FramesAddUp`
  (recording and preview), `SnapshotsTrue` (`capture_image`), `ClientsServed` (the
  servers), `DeviceAsReported` (the programs without a camera).

### 2.7 The abstract specifications

* `LatestMailbox`: `g_frame`, `g_frame_ready` and their mutex are one place, into
  which frames are put and from which the newest is taken.
* `SharedPusher`: `connected` alone, tested without a lock, keeps the two threads
  of `rtmp_push` apart.  A connection is `up` once `connect_rtmp()` has returned,
  `lost` once a failed push has cleared `connected`, and `down` after
  `disconnect()`; a push is busy from the call to its result.  What the network
  makes of the session is no step of it.
* `CallbackScope`: what the callback uses is there `before` (not yet), `open` or
  `closed`, and never opens twice.  `DataScope` of `Programs` says what that is in
  each program: the file until the unlocked flush, the counters until the summary
  that reads them, the local variable of a block, the RTSP server, the locals of
  main.  A callback is inside while the camera delivers or drains.  That main
  waits in `camera.stop()` is what makes `Close` a step between two calls.

### 2.8 `DemoEnv`

Each ssh or scp of a script is an action, the remote commands in it being done
in full, in part or not at all.  The three commands of the one ssh of "1" are an
action each, and the connection may break before any of them (`BreakOff`).  What
goes on at the device after the PC has been interrupted is taken to be over.
`reliable` tells whether any of them may fail.
The script is interrupted and started again, with "0" or "1", or the other one,
`deploy.sh`, is; the device keeps what it was left with.  `app` is the program that
`deploy.sh` copies, which may be left in part.  That script stops at a failed ssh or
scp (`set -e`), where `demo_env.sh` goes on.

## 3. Runs

| Run | Question | Bounds |
|---|---|---|
| `yolo` | what mutexes and shutdown order protect; the hand-over is a mailbox; frames are served; every step after a stop brings the end closer, and a stop ends the program but for one case | 3 frames, 2 packets in the encoder |
| `yolo_ctrl_c` | violated: that case, a lost wake-up | 2 frames, 1 packet |
| `rtmp` | exclusive use of the pusher, which is a `SharedPusher`; statistics under their mutex, a newer timestamp for every frame the server gets, reconnection, termination | 5 frames |
| `udp` | what is shown was sent, with one mix for a restart at most; late duplicates of a part show nothing, and frames come once and in order where the network allows it; where nothing is lost no frame is left behind, and all are shown | the seven scenarios of `MCUdp` |
| `udp_bare_chunks` | violated: nothing of what `main.cpp` sends is shown | 3 frames of up to 3 chunks |
| `nms_anchors` | what is kept has to do with the rows: nothing lost, nothing made up, none hidden | 3 anchors out of 25 rows, 2 classes |
| `nv12_overlay` | drawing stays in the image and leaves whole blocks of chroma; so does the conversion, in both images | 4 sizes, corners before, in and behind the image, one detection; a network input of 4x3 |
| `programs` | the callback's data outlive it and have one scope; files, counters, addresses and timestamps are right; a device is left as the program says; nobody is stuck, every step of main brings the end closer, and each program ends | 3 frames or bytes, a buffer of 2, 3 seconds, 2 clients, 2 blinks, 3 samples of 3 readings |
| `rtsp_server_pushed` | violated: frames called pushed reach nobody | 4 frames, 2 clients |
| `onvif_url` | violated: the advertised address leads to no server | 3 frames, 2 clients |
| `demo` | messages of both scripts are true when nothing fails, and `deploy.sh`'s in any case; `/etc/profile` has one line in any case | 3 runs, 2 releases |
| `demo_done` | violated: the script says it is done after a failed upload | 3 runs, 2 releases |

Why the bounds are enough.

* The hand-over of `YoloPipeline` has one buffer and one copy: with three frames
  one is in the worker, one in the buffer and one being written, and any longer
  run repeats these relative positions.  Two packets let the encoder's queue be
  empty, partly full and full.
* In `RtmpPush` a frame is before, in, or after a push when the connection
  breaks; five frames allow two complete reconnections with frames between them.
* In `UdpMjpeg` the receiver relates the arriving chunk to one current frame: two
  frames of two chunks and two runs give an equal, an older, a newer and a
  same-numbered one, and the longer scenarios lose, duplicate, reorder or keep the
  order of up to four.  Three frames of up to three chunks, each twice and in order,
  let a duplicate come after its frame was shown and before the next one begins, in
  it, and after it; two runs in order let the old run end within a frame of the
  number the new one begins with.
* Three rows are a best one, one it suppresses and one that only the suppressed
  one overlaps: the shortest case in which suppressing by suppressed detections,
  or in the wrong order, is seen.
* In the camera programs of `Programs` three frames are one before, one during
  and one after what main does, and in `record_video` and `camera_preview` three
  seconds are two lines and the end; a sleep may be one second late, which skips the exact end.  Two clients
  are one that watches and one that comes or goes.  Three bytes over a buffer of
  two are a full read, a part of one and a second read; two blinks are one that
  goes on and the last.  Three readings from below and above zero come in every
  order, so that each may be the least, the greatest or neither.
* The conversion of a 4x4, 8x4, 4x6 and 8x6 image to 4x3 has factors of 1, 2 and 4/3
  and, as in the program, sides that are and are not multiples.
* Three runs of the script are one that is broken off, one that continues and one
  that undoes; two releases are one upgrade.

Bounds are in the guards of `CbSkip`, `CbEnter`, `CbEncode` (`YoloPipeline`),
`SkipStopping`, `EnterCallback` (`RtmpPush`), `send_frame`, `Restart`, `Receive`
(`UdpMjpeg`), `DrawDetection` (`Nv12Overlay`), `Deliver` (the camera programs of
`Programs`), `Arrive` (`UartEcho`), `Start` and `Update` (`DemoEnv`), and nowhere else but in `Sleep` of
`RecordVideo`, which does not count seconds behind the end.

### 3.1 Fairness

* `WF` on the steps of each thread: Linux schedules every runnable thread, and
  the model gives each call into the library an end.  In `RtmpPush` it gets main
  `stats.mtx` as well: main needs it for progress after a stop or while `connected` is
  clear, when no new frame is counted.
* `SF` on the worker's acquisition of `g_frame_mtx` (`Acquire`) and on both
  acquisitions of `stats.mtx` in `record_video` and `camera_preview`: the other thread holds these
  mutexes for one `memcpy` or a few additions per frame period, so they are free
  again and again, and a thread that asks gets them.
* `SF` on `ReconnectStep` of `RtmpPush`: a server that is tried again and again
  accepts at last.  Without it the program retries for ever, which is what it
  should do.
* `WF` on `DeadlinePasses` of `CaptureImage` and `GpioControl`: time passes.
* Nothing is assumed of the environment otherwise: a frame, a signal, a spurious
  wake-up, a network event, a client, a byte on the serial line or a new frame of
  the UDP sender need never come.

### 3.2 What the checks found

* `yolo_ctrl_c`: `main` sets nothing under `g_frame_mtx` before `notify_all()`,
  and neither does the signal handler.  A worker that has evaluated its predicate
  to false and does not sleep yet misses the notification; callbacks return early
  from then on, so no other comes, and `yolo_thread.join()` waits for ever.
  `StopEndsOrSleeps` shows it is the only way a stop fails to end the program.
* `udp_bare_chunks`: `udp_receiver.py` drops all datagrams of `main.cpp`, whose
  sender writes no header.
* `demo_done`: the script does not look at the outcome of scp, and its check sees
  only that a file of the library's name is there.
* `rtsp_server_pushed`: the call that would push a frame is commented out.
* `onvif_url`: the advertised URL has no port, and the server listens on 8554.

Seen while modelling, each visible in a model but without a run of its own:

* the worker of `rknn_yolo` takes every frame it finds ready, where its README
  (line 5) says every other frame is processed;
* the error path of `load_model()` there returns without `npu.deinit()`, against
  line 122 of the README;
* `record_video` checks neither its writes nor its flush, so that with a full
  `/tmp` the summary counts frames the file does not have (`WholeRecording`,
  in `FramesAddUp`, holds only without a failed write);
* its loop ends before the progress line of the last second, which the README
  (line 41) shows;
* `onvif_server` leaves `enable_discovery` off, while its README (line 5) says it
  answers WS-Discovery probes, and ignores the result of `camera.start()`;
* `rtsp_server` prints a URL without its port;
* `isp_control` leaves colours and noise reduction by hand where its comment (line
  162) announces fully automatic operation, ignores a refusal when it restores,
  and after Ctrl+C restores nothing;
* `uart_echo` does not send the rest of a write that took a part, against its
  comment (line 5) that every byte is sent back.

## 4. Proofs

TLC checks the instances above; the following hold for every value of the
constants.  Each invariant proof has one lemma per thread or loop and one case
per action; the temporal theorems only combine them.

`YoloPipelineProofs`, from `BoundsAssumption`: `TypeOK` is inductive, and so is
`IInv`, relative to it.  None of the properties is inductive alone, because what
keeps the buffers whole is who holds which mutex.  `IInv` has three parts:
`LockInv` ties the holder of each mutex, the capture thread and the progress of
main to the program counters; `FrameInv` says what is in the two buffers at each
point; `DetsInv` relates what is published to the worker's frame and to the
callback's copy.  From them follow `NoTornFrame`, `NoFrameForgotten`,
`OverlayConsistent`, `ResourcesOutliveCallbacks`, the action property
`DetectionsAdvance`, and the refinement of `LatestMailbox`: `CbCopyBottom` is a
`Put`, `YoloCopyBottom` is a `Take`, every other step stutters.

`StopAdvances` is what `StopEndsOrSleeps` claims without fairness.  `StepsLeft` adds
up how far each thread is from its end, and a frame of the encoder's queue counts
for two, as it is sent and released.  It is a natural number, and after a stop
each step lowers it or drops a frame (`StopOnlyAdvances`), so only finitely many
are left.  The
worker that is woken up for no reason is the case to look at: with `g_stop` its
predicate is true and it leaves.  `NobodyStuck` rests on `LockInv`: who waits for
a mutex waits for a thread that holds it and can go on, and main waits in
`stop()` and `join()` for one that can, or that sleeps.

`RtmpPushProofs`, from `MaxFramesAssumption`: `TypeOK` and `IInv`, whose part
`SessionInv` says that a callback in a push implies `connected`, and that main is
in none of the states in which it uses the pusher while `connected` holds; it
gives `PusherExclusive`.  `MutexInv` says who holds `stats.mtx` and how far it has
come with the counters, which `StatsTrue` needs to be inductive; `PtsInv` gives
`TimestampsAdvance`, for frames that were confirmed and those that were not.
`PusherIsShared` maps each step to one of `SharedPusher`: main
disconnects only where `connected` is clear and no callback is past its test of it,
which is `SessionInv` again, and the network's own steps stutter.
`StopOnlyAdvances` is the measure of `StopEnds`, and says that who waits for the
mutex, or for the last callback, waits for a thread that can go on.

`NmsProofs`, from `NmsAssumption` alone, so for any rows, thresholds and scales:
`ParseInv` says which rows the detections stand for, `SuppressInv` what the turns
of the loop so far have settled.  `KeepStep` is the heart: a detection that is
kept hides no later one that is kept, because it has marked those it overlaps.
From them follow `KeptApart`, `NothingLost` and `NothingMadeUp`.

`Nv12OverlayProofs`, from the assumption that the sides are even and positive:
`InBuffer` is inductive once clipping keeps every pixel in the image
(`RectInImage`, `TextInImage`), every pixel's three bytes are in the buffer
(`BytesInBuffer`, the one lemma with arithmetic: the row of chroma of the last
row of pixels still ends at the end of the buffer), and scaling chooses a pixel of
the image.  `WholeChroma` follows because both bytes of a block are written for
exactly the same pixels, and because the conversion reads the bytes of one pixel.

`UdpMjpegProofs`, from `BoundsAssumption`, so for every scenario: a datagram on
its way names a frame that was sent and one of its chunks (`NetOK`).  `CurrentOK`
is about frame numbers that one run alone has used (`OnlyRun`): the image has the
length of the frame, and every chunk that is counted is in its place.  A count
equal to the frame's number of chunks is then all of them (`AllIndices`).  Where two
runs used a number, `MixInv` gives the bound on what may be wrong in order
(`FrameOrMix`): a mix needs a chunk of the old run in the current frame when the
new one arrives, and from then on none of the old run is left.  Both together are
`ShownWasSent`.

`ShownOnceInOrder` has three parts.  `OrderInv` (with `LeftOver`): without duplicates
no datagram is left of what was counted or shown.  `AheadInv`: in order, with
duplicates, what is left is never of an older frame than the last that came, and of
that frame never of an earlier chunk; so a frame of more than one chunk that was
shown lacks its first one for good, and the order is kept.  `DuplicatesShowNothing` needs only that
`received_chunks` is within `since`.

`NothingLeftBehind`, the safety half of `SentIsShown`, is the converse
(`LosslessInv`): in order and without loss what is missing of the current frame, and
all of the later ones, is on its way, so that a frame is complete before the next
one replaces it; duplicates that start a shown frame again end with the next one.

`DemoEnvProofs`, for any number of runs and releases: the invariant says what each
place of a script has established on the device when nothing fails, which another
run, an upgrade or an interruption must not take away.  It gives `TypeOK`,
`SuccessMeansUsable` and `RestoredMeansRunning`.

`CameraProgramsProofs` and `ProgramsProofs`, from `ProgramsAssumption`: every
program has an inductive invariant (`RecordInv` to `ImuInv`) with three lemmas, that
it holds at the start, is kept by the program's own `Next`, and gives the
program's properties.  `ProgramsInv` is that of the program that runs;
`ProgramsKept` needs no more than that a step belongs to it.  What is
worth reading:

* in the programs with a camera the invariant ties the place of main to the state
  of the camera, because it is `stop()` that makes everything after it safe;
* `RecordFile`: disk and buffer together are the frames written so far, in order,
  wherever the stream writes out, until a write fails;
* `RtspPhase`, `OnvifPhase`: for each list of what main still has to stop, what runs;
* `UartBytes`: what was sent is an increasing sequence of bytes that were read
  before those in the buffer;
* `ImuStats`: the sum lies between the extremes times the number of readings.

`CallbackHasScope` is the refinement of `CallbackScope`, one lemma for each program
with a camera (`RecordScope` to `OnvifScope`).  `EndOnlyAdvances` is what `Ends` claims
without fairness.  Each program module has a measure `MainLeft`, seconds, samples or
blinks to go first and places of main second, never negative; each of its steps lowers it unless
main waits for the user, a frame or a deadline (`Waits`), and no other thread
changes it.  `SomebodyMayGo` says that main or the callback may go on wherever main
waits for nothing of that kind: the mutex has a holder that does not wait, and
`stop()` is only called by a main without the mutex.  `MainMayGo` and `CallbackMayGo`
spell out the guards of the threads' steps, since `ENABLED` is beyond the prover.

The theorems are about `FairSpec`, whose fairness the proofs do not use.

Model-checked only: what needs fairness.  `FrameServed`, `StopEndsOrSleeps`,
`FailureLeadsToReconnect`, `StopEnds`, `SentIsShown` and `Ends` are liveness, which is
out of the prover's reach, as is `ENABLED`; what is proved of them is their safety
half above (`StopAdvances`, `NothingLeftBehind`, `EndAdvances`), that nothing is
lost and no loop is entered again on the way.  Every other property of the passing
runs is proved.

## 5. Not modelled

* The library: no source.  `Camera`, `RtspService`, the encoder, the NPU, the
  ONVIF service and the pusher are external, as far as the programs see them.
* `examples/hello_world`: prints the version and system information.
* In `rknn_yolo` the colour arithmetic of the conversion, and the decoding of the
  boxes to floats: it is arithmetic on bytes of pixels, without a state.
* `main.cpp.orig`, which the build leaves out, but for its sender, without which
  `udp_receiver.py` has nobody to talk to.
* The headers under `include/`: 2800 lines of declarations and comments.  Of the
  functions defined in them, `Result` (a call succeeds or fails) is in every
  module as a disjunction; names of enumerators, `GPIO::Pin::bank` and the sizes of
  `tensor.hpp` are single expressions, most of which no program uses.
* The sysroot: 6600 lines of third-party headers, more than half of the C and C++
  in the repository, which declare the interfaces of libraries that come as
  binaries.  Together with the SDK's own headers that is four fifths of it, in which
  there is nothing to translate; of what is left, the programs, the models cover
  nearly every line that is not output, comment or set-up of constants.
* `tools/update_driver.sh` and `device_info.sh`, `deploy.sh` for a directory, the
  scripts under `scripts/` and `tests/`: sequences of remote commands that leave
  nothing another part reads.
* After a reconnection of `rtmp_push` (`main.cpp:187`) the first frame need not be a
  keyframe.  The code does nothing about it and no document says anything of it;
  whether a viewer sees a gap is decided in the library.
* Wording and formatting of output, fonts, bit rates, the frame rate and the
  pacing by `sleep_for`.

## 6. Possible extensions

* One abstract specification of a service that is advertised only while it runs,
  which `RtspServer` and `OnvifServer` both implement: today the invariants say it
  for each (`StatusOfRunningServer` and `AdvertisedServed` in `ClientsServed`).
* A keyframe flag on the frames of `RtmpPush`, once the library's behaviour after a
  reconnection is known.
* The threads of the older `main.cpp.orig`, should it be built again.
