---------------------------- MODULE YoloPipeline ----------------------------
(***************************************************************************)
(* examples/rknn_yolo/main.cpp: object detection on the camera stream.      *)
(*                                                                         *)
(* Three threads and a signal handler share the state:                      *)
(*   - main opens camera, socket and encoder, spawns the worker, starts the *)
(*     camera, polls g_stop and shuts everything down;                      *)
(*   - the capture thread of the camera runs the frame callback: it copies  *)
(*     the frame into g_latest_nv12 for the worker, draws the latest        *)
(*     detections over the frame, encodes it and sends the packets;         *)
(*   - the worker waits for a frame, copies it, infers and publishes what   *)
(*     it found in g_latest_dets and g_latest_fps.                          *)
(* Frames are numbered in the order the camera delivers them.  A copy of a  *)
(* frame takes two steps, one for each part of the buffer, and so does a    *)
(* copy of the detections and their frame rate: an access outside of the    *)
(* mutexes is seen as a mix of two values.                                  *)
(***************************************************************************)
EXTENDS Camera, Naturals

CONSTANTS MaxFrames,  \* frames the camera delivers; bounds the model
          MaxQueued   \* packets the encoder buffers (MPP internal queue)

ASSUME BoundsAssumption == MaxFrames \in Nat /\ MaxQueued \in Nat \ {0}

VARIABLES
  g_stop,         \* std::atomic<bool>, set by the signal handler
  mainPc,         \* where main is
  enc,            \* the encoder: "none" (init failed), "ready" or "closed"
  sock,           \* the UDP socket is open
  queued,         \* packets inside the encoder
  cbPc,           \* where the frame callback is
  frame,          \* number of the frame of the callback (the last one)
  current_dets,   \* the callback's copy of the detections
  current_fps,    \* and of the rate
  yoloPc,         \* where the worker is
  local_nv12,     \* the worker's copy of a frame
  infer_count,    \* inferences that succeeded
  npu,            \* "off", "ready" or "loaded"
  g_frame_mtx,    \* holder of the mutex of the frame buffer
  g_latest_nv12,  \* the frame buffer: the frame each of its parts is of
  g_frame_ready,  \* the worker has not copied the frame in the buffer
  g_dets_mtx,     \* holder of the mutex of the detections
  g_latest_dets,  \* the frame and the number of the inference they are of
  g_latest_fps    \* the rate: the infer_count it was computed from

bufferVars == <<g_frame_mtx, g_latest_nv12, g_frame_ready>>
detsVars   == <<g_dets_mtx, g_latest_dets, g_latest_fps>>
cbVars     == <<cbPc, frame, current_dets, current_fps>>
vars == <<cam, g_stop, mainPc, enc, sock, queued, cbVars, yoloPc, local_nv12,
          infer_count, npu, bufferVars, detsVars>>

Thread == {"free", "capture", "worker"}
MainPc == {"open", "setup", "start", "poll", "notify", "join", "stop",
           "stopping", "deinit", "close", "done", "failed"}
CbPc   == {"idle", "frame", "copy", "notify", "dets", "fps", "encode",
           "drain", "send"}
YoloPc == {"off", "init", "loop", "lock", "pred", "park", "blocked", "take",
           "copy", "infer", "publish", "rate", "unload", "exited"}

\* A buffer whose two parts are of one frame.
Whole(buf) == buf.top = buf.bottom

Init ==
  /\ CamInit
  /\ g_stop = FALSE
  /\ mainPc = "open" /\ enc = "none" /\ sock = FALSE /\ queued = 0
  /\ cbPc = "idle" /\ frame = 0
  /\ current_dets = [of |-> 0, nth |-> 0] /\ current_fps = 0
  /\ yoloPc = "off" /\ infer_count = 0 /\ npu = "off"
  /\ local_nv12 = [top |-> 0, bottom |-> 0]
  /\ g_frame_mtx = "free" /\ g_frame_ready = FALSE
  /\ g_latest_nv12 = [top |-> 0, bottom |-> 0]
  /\ g_dets_mtx = "free"
  /\ g_latest_dets = [of |-> 0, nth |-> 0] /\ g_latest_fps = 0

-----------------------------------------------------------------------------
(* What the threads share.                                                 *)

\* SIGINT or SIGTERM, at any moment of the program's life.
signal_handler ==
  /\ mainPc \notin {"done", "failed"}
  /\ g_stop' = TRUE
  /\ UNCHANGED <<cam, mainPc, enc, sock, queued, cbVars, yoloPc, local_nv12,
                 infer_count, npu, bufferVars, detsVars>>

\* Variant: the lock of the frame buffer is forgotten.
LockFrameNot(t) == UNCHANGED g_frame_mtx
LockFrame(t)    == g_frame_mtx = "free" /\ g_frame_mtx' = t
UnlockFrame     == g_frame_mtx' = "free"

\* Variant: the lock of the detections is forgotten.
LockDetsNot(t) == UNCHANGED g_dets_mtx
LockDets(t)    == g_dets_mtx = "free" /\ g_dets_mtx' = t
UnlockDets     == g_dets_mtx' = "free"

\* Variant: the notification is forgotten.
NotifyNot == UNCHANGED yoloPc

\* notify_one() and notify_all(): the worker wakes up and asks for the mutex
\* again; a worker that does not sleep (yet) does not hear it.
Notify == yoloPc' = IF yoloPc = "blocked" THEN "lock" ELSE yoloPc

-----------------------------------------------------------------------------
(* The main thread.                                                        *)

MainGo(from, to) == mainPc = from /\ mainPc' = to

\* camera_main.open(): without a camera the program ends here.
MainOpenCamera ==
  /\ \/ MainGo("open", "setup") /\ CamOpen
     \/ MainGo("open", "failed") /\ UNCHANGED cam
  /\ UNCHANGED <<yoloPc, enc, sock, queued>>

\* UdpMjpegSender: its socket is opened, or not, and closed.
SenderInit  == sock' \in BOOLEAN
SenderClose == sock' = FALSE

\* sender.init() and enc.init(), whose failures are only reported, then
\* std::thread yolo_thread(...).
MainSetUp ==
  /\ MainGo("setup", "start")
  /\ SenderInit
  /\ enc' \in {"none", "ready"}
  /\ yoloPc' = "init"
  /\ UNCHANGED <<cam, queued>>

\* set_frame_callback(), start(): after a failure, which is only reported,
\* the program runs without frames.
MainStartCamera ==
  /\ MainGo("start", "poll")
  /\ CamStart \/ UNCHANGED cam
  /\ UNCHANGED <<yoloPc, enc, sock, queued>>

\* The polling loop ends.
MainSeesStop ==
  /\ MainGo("poll", "notify")
  /\ g_stop
  /\ UNCHANGED <<cam, yoloPc, enc, sock, queued>>

\* g_frame_cv.notify_all(), without the mutex.
MainNotifyAll ==
  /\ MainGo("notify", "join")
  /\ Notify
  /\ UNCHANGED <<cam, enc, sock, queued>>

\* yolo_thread.join().
MainJoinWorker ==
  /\ MainGo("join", "stop")
  /\ yoloPc = "exited"
  /\ UNCHANGED <<cam, yoloPc, enc, sock, queued>>

\* camera_main.stop() asks the capture thread to end ...
MainStopCamera ==
  /\ MainGo("stop", "stopping")
  /\ CamStopRequest
  /\ UNCHANGED <<yoloPc, enc, sock, queued>>

\* Variant: main does not wait for the end of the capture thread.
MainStoppedNoJoin ==
  /\ MainGo("stopping", "deinit")
  /\ UNCHANGED <<cam, yoloPc, enc, sock, queued>>

\* ... and returns when it has ended.
MainCameraStopped ==
  /\ MainGo("stopping", "deinit")
  /\ CamStopped
  /\ UNCHANGED <<cam, yoloPc, enc, sock, queued>>

\* enc.deinit(): frees the packets the encoder still holds.
MainDeinitEncoder ==
  /\ MainGo("deinit", "close")
  /\ enc' = "closed" /\ queued' = 0
  /\ UNCHANGED <<cam, yoloPc, sock>>

\* sender.close_socket(), and main returns.
MainCloseSocket ==
  /\ MainGo("close", "done")
  /\ SenderClose
  /\ UNCHANGED <<cam, yoloPc, enc, queued>>

MainStep ==
  /\ \/ MainOpenCamera \/ MainSetUp \/ MainStartCamera \/ MainSeesStop
     \/ MainNotifyAll \/ MainJoinWorker \/ MainStopCamera
     \/ MainCameraStopped \/ MainDeinitEncoder \/ MainCloseSocket
  /\ UNCHANGED <<g_stop, cbVars, local_nv12, infer_count, npu, bufferVars,
                 detsVars>>

-----------------------------------------------------------------------------
(* The frame callback, on the capture thread.                              *)

CbGo(from, to) == cbPc = from /\ cbPc' = to

\* A frame for which the callback returns at once: the program is stopping,
\* or the frame is smaller than the buffer.
CbSkip ==
  /\ cam = "running" /\ frame < MaxFrames
  /\ frame' = frame + 1
  /\ UNCHANGED <<cam, cbPc, yoloPc, queued, current_dets, current_fps,
                 bufferVars, detsVars>>

\* A frame the callback handles.
CbEnter ==
  /\ CamDeliver /\ frame < MaxFrames
  /\ ~g_stop
  /\ CbGo("idle", "frame")
  /\ frame' = frame + 1
  /\ UNCHANGED <<yoloPc, queued, current_dets, current_fps, bufferVars,
                 detsVars>>

\* Under g_frame_mtx, memcpy() of the frame: its first part ...
CbCopyTop ==
  /\ CbGo("frame", "copy") /\ LockFrame("capture")
  /\ g_latest_nv12' = [g_latest_nv12 EXCEPT !.top = frame]
  /\ UNCHANGED <<cam, yoloPc, queued, frame, current_dets, current_fps,
                 g_frame_ready, detsVars>>

\* ... and the rest; then g_frame_ready = true.
CbCopyBottom ==
  /\ CbGo("copy", "notify") /\ UnlockFrame
  /\ g_latest_nv12' = [g_latest_nv12 EXCEPT !.bottom = frame]
  /\ g_frame_ready' = TRUE
  /\ UNCHANGED <<cam, yoloPc, queued, frame, current_dets, current_fps,
                 detsVars>>

\* g_frame_cv.notify_one(), after the mutex is released.
CbNotify ==
  /\ CbGo("notify", "dets") /\ Notify
  /\ UNCHANGED <<cam, queued, frame, current_dets, current_fps, bufferVars,
                 detsVars>>

\* Under g_dets_mtx, current_dets = g_latest_dets ...
CbReadDets ==
  /\ CbGo("dets", "fps") /\ LockDets("capture")
  /\ current_dets' = g_latest_dets
  /\ UNCHANGED <<cam, yoloPc, queued, frame, current_fps, bufferVars,
                 g_latest_dets, g_latest_fps>>

\* ... and current_fps = g_latest_fps.
CbReadFps ==
  /\ CbGo("fps", "encode") /\ UnlockDets
  /\ current_fps' = g_latest_fps
  /\ UNCHANGED <<cam, yoloPc, queued, frame, current_dets, bufferVars,
                 g_latest_dets, g_latest_fps>>

\* Both are drawn over the frame, and the frame is encoded: a packet enters
\* the queue of the encoder.
CbEncode ==
  /\ CbGo("encode", "drain")
  /\ enc = "ready" /\ queued < MaxQueued
  /\ queued' = queued + 1
  /\ UNCHANGED <<cam, yoloPc, frame, current_dets, current_fps, bufferVars,
                 detsVars>>

\* Variant: a packet is taken without asking whether there is one.
CbGetPacketUnchecked ==
  /\ CbGo("drain", "send")
  /\ queued' = queued - 1
  /\ UNCHANGED <<cam, yoloPc, frame, current_dets, current_fps, bufferVars,
                 detsVars>>

\* enc.get_packet() delivers a packet.
CbGetPacket ==
  /\ CbGo("drain", "send")
  /\ queued > 0
  /\ queued' = queued - 1
  /\ UNCHANGED <<cam, yoloPc, frame, current_dets, current_fps, bufferVars,
                 detsVars>>

\* Variant: the loop over the packets asks for the same packet again.
CbSendAgain ==
  /\ CbGo("send", "drain")
  /\ queued' = queued + 1
  /\ UNCHANGED <<cam, yoloPc, frame, current_dets, current_fps, bufferVars,
                 detsVars>>

\* sender.send_frame(), which ignores errors, and enc.release_packet().
CbSend ==
  /\ CbGo("send", "drain")
  /\ UNCHANGED <<cam, yoloPc, queued, frame, current_dets, current_fps,
                 bufferVars, detsVars>>

\* enc.encode() fails, or enc.get_packet() has no packet (in time): the
\* callback returns.
CbLeave ==
  /\ CbGo("encode", "idle") \/ CbGo("drain", "idle")
  /\ CamReturn
  /\ UNCHANGED <<yoloPc, queued, frame, current_dets, current_fps,
                 bufferVars, detsVars>>

\* enc.get_packet() delivers a packet without data: the loop ends before it is
\* sent or released, and the callback returns.
CbEmptyPacket ==
  /\ CbGo("drain", "idle") /\ CamReturn
  /\ queued > 0
  /\ queued' = queued - 1
  /\ UNCHANGED <<yoloPc, frame, current_dets, current_fps, bufferVars,
                 detsVars>>

CbFrame == UNCHANGED <<g_stop, mainPc, enc, sock, local_nv12, infer_count, npu>>

\* The camera delivers a frame.
Capture == (CbSkip \/ CbEnter) /\ CbFrame

CbStep ==
  /\ \/ CbCopyTop \/ CbCopyBottom \/ CbNotify \/ CbReadDets \/ CbReadFps
     \/ CbEncode \/ CbGetPacket \/ CbSend \/ CbLeave
     \/ CbEmptyPacket
  /\ CbFrame

-----------------------------------------------------------------------------
(* The worker thread.                                                      *)

YoloGo(from, to) == yoloPc = from /\ yoloPc' = to

\* npu.init() and npu.load_model(): on an error of either the thread
\* returns, in the second case without npu.deinit().
YoloInit ==
  /\ \/ YoloGo("init", "loop") /\ npu' = "loaded"
     \/ YoloGo("init", "exited") /\ npu' \in {"off", "ready"}
  /\ UNCHANGED <<local_nv12, infer_count, g_frame_mtx, g_frame_ready, detsVars>>

\* while (!g_stop.load()).
YoloLoop ==
  /\ yoloPc = "loop"
  /\ yoloPc' = IF g_stop THEN "unload" ELSE "lock"
  /\ UNCHANGED <<local_nv12, infer_count, npu, g_frame_mtx, g_frame_ready,
                 detsVars>>

\* The mutex is taken, at first or again when the wait wakes up.
YoloLock ==
  /\ YoloGo("lock", "pred") /\ LockFrame("worker")
  /\ UNCHANGED <<local_nv12, infer_count, npu, g_frame_ready, detsVars>>

\* Variant: any wake-up counts as a frame.
WaitPredicateTrue == TRUE
\* Variant: the wait goes on while there is no frame, stopping or not.
WaitPredicateNoStop == g_frame_ready
WaitPredicate == g_frame_ready \/ g_stop

\* g_frame_cv.wait() evaluates its predicate, under the mutex; g_stop is
\* written without it.
YoloPredicate ==
  /\ yoloPc = "pred"
  /\ yoloPc' = IF WaitPredicate THEN "take" ELSE "park"
  /\ UNCHANGED <<local_nv12, infer_count, npu, g_frame_mtx, g_frame_ready,
                 detsVars>>

\* The wait releases the mutex and sleeps, in one step.
YoloPark ==
  /\ YoloGo("park", "blocked") /\ UnlockFrame
  /\ UNCHANGED <<local_nv12, infer_count, npu, g_frame_ready, detsVars>>

\* A wake-up without a notification, which the wait allows for.
YoloSpuriousWakeup ==
  /\ YoloGo("blocked", "lock")
  /\ UNCHANGED <<local_nv12, infer_count, npu, g_frame_mtx, g_frame_ready,
                 detsVars>>

\* After the wait, a stop ends the loop.
YoloBreak ==
  /\ YoloGo("take", "unload") /\ g_stop /\ UnlockFrame
  /\ UNCHANGED <<local_nv12, infer_count, npu, g_frame_ready, detsVars>>

\* Otherwise memcpy() into local_nv12: the first part ...
YoloCopyTop ==
  /\ YoloGo("take", "copy") /\ ~g_stop
  /\ local_nv12' = [local_nv12 EXCEPT !.top = g_latest_nv12.top]
  /\ UNCHANGED <<infer_count, npu, g_frame_mtx, g_frame_ready, detsVars>>

\* Variant: g_frame_ready is not reset.
FrameTakenNot == UNCHANGED g_frame_ready
FrameTaken    == g_frame_ready' = FALSE

\* ... and the rest; then g_frame_ready = false.
YoloCopyBottom ==
  /\ YoloGo("copy", "infer") /\ UnlockFrame
  /\ local_nv12' = [local_nv12 EXCEPT !.bottom = g_latest_nv12.bottom]
  /\ FrameTaken
  /\ UNCHANGED <<infer_count, npu, detsVars>>

\* The frame is preprocessed and inferred; the detections are parsed and
\* the output tensors released.  A frame whose inference fails has none.
YoloInfer ==
  /\ \/ YoloGo("infer", "publish") /\ infer_count' = infer_count + 1
     \/ YoloGo("infer", "loop") /\ UNCHANGED infer_count
  /\ UNCHANGED <<local_nv12, npu, g_frame_mtx, g_frame_ready, detsVars>>

\* Under g_dets_mtx, g_latest_dets = final_dets ...
YoloPublishDets ==
  /\ YoloGo("publish", "rate") /\ LockDets("worker")
  /\ g_latest_dets' = [of |-> local_nv12.bottom, nth |-> infer_count]
  /\ UNCHANGED <<local_nv12, infer_count, npu, g_frame_mtx, g_frame_ready,
                 g_latest_fps>>

\* ... and g_latest_fps = fps.
YoloPublishFps ==
  /\ YoloGo("rate", "loop") /\ UnlockDets
  /\ g_latest_fps' = infer_count
  /\ UNCHANGED <<local_nv12, infer_count, npu, g_frame_mtx, g_frame_ready,
                 g_latest_dets>>

\* npu.unload_model(), npu.deinit(), and the thread returns.
YoloUnload ==
  /\ YoloGo("unload", "exited")
  /\ npu' = "off"
  /\ UNCHANGED <<local_nv12, infer_count, g_frame_mtx, g_frame_ready, detsVars>>

YoloFrame == UNCHANGED <<cam, g_stop, mainPc, enc, sock, queued, cbVars,
                         g_latest_nv12>>

Acquire == YoloLock /\ YoloFrame
Wakeup  == YoloSpuriousWakeup /\ YoloFrame

YoloStep ==
  /\ \/ YoloInit \/ YoloLoop \/ YoloPredicate \/ YoloPark \/ YoloBreak
     \/ YoloCopyTop \/ YoloCopyBottom \/ YoloInfer \/ YoloPublishDets
     \/ YoloPublishFps \/ YoloUnload
  /\ YoloFrame

-----------------------------------------------------------------------------
\* The process has ended.
Terminated == mainPc \in {"done", "failed"} /\ UNCHANGED vars

Next == \/ signal_handler \/ MainStep \/ Capture \/ CbStep
        \/ Acquire \/ Wakeup \/ YoloStep \/ Terminated

Spec == Init /\ [][Next]_vars

\* Each thread that can go on does so: the scheduler runs all of them, and
\* the calls into the library return.  The mutex of the frame is held for
\* one memcpy() in each frame time, so a worker that keeps asking gets it.
\* Nothing makes a frame, a signal or a spurious wake-up come.
Fairness == /\ WF_vars(MainStep)
            /\ WF_vars(CbStep)
            /\ WF_vars(YoloStep)
            /\ SF_vars(Acquire)

FairSpec == Spec /\ Fairness

-----------------------------------------------------------------------------
(* Properties.                                                             *)

Detections == [of : Nat, nth : Nat]

\* Every variable has a value of its kind, within the bounds of the model.
TypeOK ==
  /\ cam \in CamState /\ g_stop \in BOOLEAN /\ mainPc \in MainPc
  /\ enc \in {"none", "ready", "closed"} /\ sock \in BOOLEAN
  /\ queued \in 0..MaxQueued
  /\ cbPc \in CbPc /\ frame \in 0..MaxFrames
  /\ current_dets \in Detections /\ current_fps \in Nat
  /\ yoloPc \in YoloPc /\ infer_count \in Nat
  /\ npu \in {"off", "ready", "loaded"}
  /\ local_nv12 \in [top : 0..MaxFrames, bottom : 0..MaxFrames]
  /\ g_frame_mtx \in Thread /\ g_frame_ready \in BOOLEAN
  /\ g_latest_nv12 \in [top : 0..MaxFrames, bottom : 0..MaxFrames]
  /\ g_dets_mtx \in Thread
  /\ g_latest_dets \in Detections /\ g_latest_fps \in Nat

\* The frame the worker infers is one frame of the camera, not parts of two,
\* although the capture thread may overwrite the buffer at any time.
NoTornFrame == yoloPc \in {"infer", "publish", "rate"} => Whole(local_nv12)

\* A frame is pending in the buffer exactly when the worker has not got it:
\* no frame is dropped while it is the newest, and none is inferred twice.
NoFrameForgotten ==
  g_frame_mtx = "free" =>
    IF g_frame_ready THEN g_latest_nv12.bottom > local_nv12.bottom
                     ELSE g_latest_nv12 = local_nv12

\* The detections and the rate drawn on a frame are of one publication of
\* the worker, and the detections are not of a frame later than it.
OverlayConsistent ==
  cbPc \in {"encode", "drain", "send"} =>
    /\ current_dets.nth = current_fps
    /\ current_dets.of <= frame

\* A callback in progress finds the encoder and the socket as they were when
\* the camera was started: shutdown frees them only after the last callback.
\* In the same way the worker uses the model only while it is loaded, and main
\* goes on to the shutdown only when it has been unloaded; of a model that
\* could not be loaded the initialised NPU is all that stays (main.cpp:289).
ResourcesOutliveCallbacks ==
  /\ mainPc \in {"deinit", "close", "done"} => cbPc = "idle" /\ ~InCallback
  /\ yoloPc \notin {"off", "init", "exited"} => npu = "loaded"
  /\ mainPc \in {"stop", "stopping", "deinit", "close", "done"} => npu # "loaded"

\* The worker never goes back: what it publishes is of a later frame and of
\* a later inference than what it published before.
DetectionsAdvance ==
  [][g_latest_dets' # g_latest_dets =>
       /\ g_latest_dets'.of > g_latest_dets.of
       /\ g_latest_dets'.nth = g_latest_dets.nth + 1]_vars

\* The hand-over of frames is a mailbox of one place: the refinement maps
\* the end of each memcpy to the step of the mailbox.
Mailbox == INSTANCE LatestMailbox
             WITH latest <- g_latest_nv12.bottom,
                  fresh  <- g_frame_ready,
                  taken  <- local_nv12.bottom
ImplementsMailbox == Mailbox!Spec

\* A frame that was handed over is served: the worker gets it or a later one,
\* unless it is stopped or could not start.
FrameServed ==
  \A f \in 1..MaxFrames :
    (g_frame_ready /\ g_latest_nv12.bottom = f)
      ~> (local_nv12.bottom >= f \/ g_stop \/ yoloPc = "exited")

\* Once a stop is requested the program ends, or main is left waiting for a
\* worker that sleeps: nothing else can keep it from ending.
StopEndsOrSleeps ==
  g_stop ~> \/ mainPc \in {"done", "failed"}
            \/ mainPc = "join" /\ yoloPc = "blocked"

\* The threads that can take a step of their own: main but for its three
\* waits, the callback and the worker but for the mutexes, and the worker not
\* while it sleeps.
MainMayGo ==
  /\ mainPc \notin {"done", "failed"}
  /\ mainPc = "poll" => g_stop
  /\ mainPc = "join" => yoloPc = "exited"
  /\ mainPc = "stopping" => CamStopped
CbMayGo ==
  /\ cbPc # "idle"
  /\ cbPc = "frame" => g_frame_mtx = "free"
  /\ cbPc = "dets" => g_dets_mtx = "free"
YoloMayGo ==
  /\ yoloPc \notin {"off", "exited", "blocked"}
  /\ yoloPc = "lock" => g_frame_mtx = "free"
  /\ yoloPc = "publish" => g_dets_mtx = "free"

\* Nobody waits for somebody who waits.  The two mutexes make no deadlock; a
\* worker that sleeps beside a frame is about to be notified, so that frames,
\* unlike the stop, are never missed; and after a stop only main's join with a
\* sleeping worker can keep all threads from going on.
NobodyStuck ==
  /\ cbPc \in {"frame", "dets"} => CbMayGo \/ YoloMayGo
  /\ yoloPc \in {"lock", "publish"} => YoloMayGo \/ CbMayGo
  /\ yoloPc = "blocked" /\ g_frame_ready => cbPc = "notify"
  /\ g_stop => \/ MainMayGo \/ CbMayGo \/ YoloMayGo
               \/ mainPc \in {"done", "failed"}
               \/ mainPc = "join" /\ yoloPc = "blocked"

\* How many steps are left to each thread at most, once the program is to stop:
\* the callback empties the encoder, and the worker leaves its wait and loop.
MainLeft == [open |-> 10, setup |-> 9, start |-> 8, poll |-> 7, notify |-> 6,
             join |-> 5, stop |-> 4, stopping |-> 3, deinit |-> 2, close |-> 1,
             done |-> 0, failed |-> 0]
CbLeft   == [frame |-> 9, copy |-> 8, notify |-> 7, dets |-> 6, fps |-> 5,
             encode |-> 4, send |-> 2, drain |-> 1]
YoloLeft == [off |-> 8, init |-> 7, copy |-> 6, infer |-> 5, publish |-> 4,
             rate |-> 3, park |-> 6, blocked |-> 5, lock |-> 4, pred |-> 3,
             take |-> 2, loop |-> 2, unload |-> 1, exited |-> 0]
StepsLeft ==
  MainLeft[mainPc] + YoloLeft[yoloPc]
    + IF cbPc = "idle" THEN 0 ELSE CbLeft[cbPc] + 2 * queued

\* After a stop every step brings the end closer, or only drops a frame: no
\* loop of the three threads is entered again, not even by wake-ups that
\* nobody sent.  Nobody is stuck on the way.
StopAdvances ==
  /\ [](NobodyStuck /\ StepsLeft \in Nat)
  /\ [][g_stop => \/ StepsLeft' < StepsLeft
                  \/ UNCHANGED <<mainPc, cbPc, yoloPc, queued>>]_vars

-----------------------------------------------------------------------------
(* The inductive invariant behind the properties.                          *)

\* Who holds a mutex, who is inside a callback, and what main has set up or
\* ended follows from where the threads are.
LockInv ==
  /\ g_frame_mtx = "capture" <=> cbPc = "copy"
  /\ g_frame_mtx = "worker" <=> yoloPc \in {"pred", "park", "take", "copy"}
  /\ g_dets_mtx = "capture" <=> cbPc = "fps"
  /\ g_dets_mtx = "worker" <=> yoloPc = "rate"
  /\ InCallback <=> cbPc # "idle"
  /\ mainPc \in {"open", "setup", "failed"} <=> yoloPc = "off"
  /\ mainPc = "stopping" => cam \notin {"running", "delivering"}
  /\ mainPc \in {"deinit", "close", "done"} => CamStopped
  /\ mainPc \in {"stop", "stopping", "deinit", "close", "done"} => yoloPc = "exited"
  /\ IF yoloPc \in {"off", "init", "exited"} THEN npu # "loaded" ELSE npu = "loaded"

\* What is in the two frame buffers: one frame each, but for the one a
\* thread is copying to; and whether the worker is behind, and will be told.
FrameInv ==
  /\ g_latest_nv12.bottom <= frame
  /\ cbPc \in {"frame", "copy"} => g_latest_nv12.bottom < frame
  /\ IF cbPc = "copy" THEN g_latest_nv12.top = frame ELSE Whole(g_latest_nv12)
  /\ IF yoloPc = "copy" THEN local_nv12.top = g_latest_nv12.top
                        ELSE Whole(local_nv12)
  /\ IF g_frame_ready THEN local_nv12.bottom < g_latest_nv12.bottom
                      ELSE local_nv12.bottom = g_latest_nv12.bottom
  /\ yoloPc = "take" => g_frame_ready \/ g_stop
  /\ yoloPc = "copy" => g_frame_ready
  /\ yoloPc = "park" => ~g_frame_ready
  /\ yoloPc = "blocked" /\ g_frame_ready => cbPc = "notify"

\* How the published detections relate to the worker's frame and count, and
\* the callback's copy to what is published.
DetsInv ==
  /\ g_latest_dets.of <= local_nv12.bottom
  /\ yoloPc \in {"infer", "publish"} => g_latest_dets.of < local_nv12.bottom
  /\ IF yoloPc = "publish" THEN g_latest_dets.nth + 1 = infer_count
                           ELSE g_latest_dets.nth = infer_count
  /\ yoloPc # "rate" => g_latest_fps = g_latest_dets.nth
  /\ cbPc = "fps" => current_dets = g_latest_dets
  /\ OverlayConsistent

IInv == LockInv /\ FrameInv /\ DetsInv

-----------------------------------------------------------------------------
(* What the documentation says of the program.                             *)

\* README.md:47 and main.cpp:410, "press Ctrl+C to exit".
CtrlCExits == g_stop ~> mainPc \in {"done", "failed"}
=============================================================================
