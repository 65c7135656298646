------------------------------ MODULE Programs -------------------------------
(***************************************************************************)
(* The examples whose main thread runs beside a frame callback at most, as  *)
(* the board runs them: the devices have room for one program, which is     *)
(* chosen at the start.  The programs share the structure main() - callback *)
(* - Ctrl+C, and with it the questions whether main may go on, close,       *)
(* destroy and return while the callback runs, how a device is left, and    *)
(* whether the program ends.                                                *)
(*                                                                         *)
(* The modules keep what they have in common in variables of one name: the  *)
(* camera, where main and the callback are, the stop flag, the counters.    *)
(***************************************************************************)
EXTENDS Integers, Sequences, FiniteSets

CONSTANTS
  Duration, MaxLate, DiskMayFill,  \* of RecordVideo, CameraPreview, IspControl
  Client, DefaultPort, ServerPort, \* of RtspService
  StatusEvery,                     \* of RtspServer
  BufferSize,                      \* of UartEcho
  Blinks,                          \* of GpioControl
  TARGET_SAMPLES, Readings, Extreme, \* of ImuRead
  MaxFrames                        \* frames or bytes; bounds every program

VARIABLES
  program,                                           \* what runs
  main, g_stop,                                      \* of all programs
  cam, callback,                                     \* of all with the camera
  elapsed, deadline, is_open,                        \* of several
  port, url, watching, refused, seen, todo, pts_us,  \* of both servers
  onvif, found, unstarted,                           \* of OnvifServer
  frame_count, joined, status,                       \* of RtspServer
  mtx, total_frames, frames_in_sec, line_frames,     \* of RecordVideo and
  summary,                                           \*   CameraPreview
  bad, buffer, disk,                                 \* of RecordVideo
  streamed, callback_set, alive, got_frame, frames,  \* of CaptureImage
  saved, unopened, warned,
  arrived, rx_buf, total_rx, total_tx, sent,         \* of UartEcho
  manual, insisted, restored,                        \* of IspControl
  pin, led, ignored, blink_count, last_level,        \* of GpioControl
  sample, channel, values, broken                    \* of ImuRead

cameraVars  == <<cam, callback>>
serverVars  == <<port, url, watching, refused, seen, todo, pts_us>>
onvifVars   == <<onvif, found, unstarted>>
rtspVars    == <<frame_count, joined, status>>
countVars   == <<mtx, total_frames, frames_in_sec, line_frames, summary>>
fileVars    == <<bad, buffer, disk>>
captureVars == <<streamed, callback_set, alive, got_frame, frames, saved,
                 unopened, warned>>
uartVars    == <<arrived, rx_buf, total_rx, total_tx, sent>>
ispVars     == <<manual, insisted, restored>>
gpioVars    == <<pin, led, ignored, blink_count, last_level>>
imuVars     == <<sample, channel, values, broken>>
vars == <<program, main, g_stop, cameraVars, elapsed, deadline, is_open,
          serverVars, onvifVars, rtspVars, countVars, fileVars, captureVars,
          uartVars, ispVars, gpioVars, imuVars>>

Record  == INSTANCE RecordVideo
Preview == INSTANCE CameraPreview
Capture == INSTANCE CaptureImage
Rtsp    == INSTANCE RtspServer
Onvif   == INSTANCE OnvifServer
Uart    == INSTANCE UartEcho
Isp     == INSTANCE IspControl
Gpio    == INSTANCE GpioControl
Imu     == INSTANCE ImuRead

ASSUME ProgramsAssumption ==
  /\ Record!Bounds /\ Preview!Bounds /\ Capture!Bounds /\ Rtsp!Bounds
  /\ Onvif!Bounds /\ Uart!Bounds /\ Isp!Bounds /\ Gpio!Bounds
  /\ Imu!Bounds

Init ==
  /\ program \in {"record_video", "camera_preview", "capture_image",
                  "rtsp_server", "onvif_server", "uart_echo", "isp_control",
                  "gpio_control", "imu_read"}
  /\ Record!Init /\ Preview!Init /\ Capture!Init /\ Rtsp!Init /\ Onvif!Init
  /\ Uart!Init /\ Isp!Init /\ Gpio!Init /\ Imu!Init

\* A step of the program that runs leaves the variables of the others alone.
Runs(name) == program = name /\ UNCHANGED program
NoServer == UNCHANGED <<serverVars, onvifVars, rtspVars>>
NoDevice == UNCHANGED <<uartVars, ispVars, gpioVars, imuVars>>
NoCamera == UNCHANGED <<cameraVars, countVars, fileVars, captureVars>> /\ NoServer

InRecord  == /\ Runs("record_video") /\ NoServer /\ NoDevice
             /\ UNCHANGED <<deadline, captureVars>>
InPreview == /\ Runs("camera_preview") /\ NoServer /\ NoDevice
             /\ UNCHANGED <<deadline, is_open, fileVars, captureVars>>
InCapture == /\ Runs("capture_image") /\ NoServer /\ NoDevice
             /\ UNCHANGED <<elapsed, is_open, countVars, fileVars>>
InRtsp    == /\ Runs("rtsp_server") /\ NoDevice
             /\ UNCHANGED <<elapsed, deadline, is_open, onvifVars, countVars,
                            fileVars, captureVars>>
InOnvif   == /\ Runs("onvif_server") /\ NoDevice
             /\ UNCHANGED <<callback, elapsed, deadline, is_open, rtspVars,
                            countVars, fileVars, captureVars>>
InUart    == /\ Runs("uart_echo") /\ NoCamera
             /\ UNCHANGED <<elapsed, deadline, ispVars, gpioVars, imuVars>>
InIsp     == /\ Runs("isp_control") /\ NoCamera
             /\ UNCHANGED <<deadline, is_open, uartVars, gpioVars, imuVars>>
InGpio    == /\ Runs("gpio_control") /\ NoCamera
             /\ UNCHANGED <<elapsed, is_open, uartVars, ispVars, imuVars>>
InImu     == /\ Runs("imu_read") /\ NoCamera
             /\ UNCHANGED <<elapsed, deadline, is_open, uartVars, ispVars, gpioVars>>

Next == \/ InRecord /\ Record!Next
        \/ InPreview /\ Preview!Next
        \/ InCapture /\ Capture!Next
        \/ InRtsp /\ Rtsp!Next
        \/ InOnvif /\ Onvif!Next
        \/ InUart /\ Uart!Next
        \/ InIsp /\ Isp!Next
        \/ InGpio /\ Gpio!Next
        \/ InImu /\ Imu!Next

MainStep == \/ InRecord /\ Record!MainStep
            \/ InPreview /\ Preview!MainStep
            \/ InCapture /\ Capture!MainStep
            \/ InRtsp /\ Rtsp!MainStep
            \/ InOnvif /\ Onvif!MainStep
            \/ InUart /\ Uart!MainStep
            \/ InIsp /\ Isp!MainStep
            \/ InGpio /\ Gpio!MainStep
            \/ InImu /\ Imu!MainStep
CallbackStep == \/ InRecord /\ Record!CallbackStep
                \/ InPreview /\ Preview!CountFrame
                \/ InCapture /\ Capture!CallbackStep
                \/ InRtsp /\ Rtsp!CallbackStep
                \/ InOnvif /\ Onvif!FrameCallback

\* What one thread takes the mutex for, in either program that has one.
MainLocks     == \/ InRecord /\ Record!LockForProgress
                 \/ InPreview /\ Preview!PrintProgress
CallbackLocks == \/ InRecord /\ Record!CallbackLock
                 \/ InPreview /\ Preview!CountFrame
DeadlinePasses == \/ InCapture /\ Capture!DeadlinePasses
                  \/ InGpio /\ Gpio!DeadlinePasses

\* Each thread of the program is scheduled, time passes, and neither thread
\* keeps the mutex from the other for ever: the callback holds it for a few
\* additions thirty times a second.  Nothing is assumed of the camera, of the
\* user, of the network or of the serial line.
FairSpec ==
  /\ Init /\ [][Next]_vars
  /\ WF_vars(MainStep) /\ WF_vars(CallbackStep)
  /\ SF_vars(MainLocks) /\ SF_vars(CallbackLocks)
  /\ WF_vars(DeadlinePasses)

-----------------------------------------------------------------------------
(* Properties.                                                             *)

\* Every variable has a value of its kind.
TypeOK == CASE program = "record_video"   -> Record!TypeOK
            [] program = "camera_preview" -> Preview!TypeOK
            [] program = "capture_image"  -> Capture!TypeOK
            [] program = "rtsp_server"    -> Rtsp!TypeOK
            [] program = "onvif_server"   -> Onvif!TypeOK
            [] program = "uart_echo"      -> Uart!TypeOK
            [] program = "isp_control"    -> Isp!TypeOK
            [] program = "gpio_control"   -> Gpio!TypeOK
            [] program = "imu_read"       -> Imu!TypeOK

\* What the callback uses outlives it, in every program with a camera and on
\* every path: the file and the counters of record_video, the counters of
\* camera_preview, which its summary shows in full, the local of a block of
\* capture_image, the servers that main() of the other two destroys.
CallbackDataAlive ==
  CASE program = "record_video"   -> Record!NoCallbackAfterStop
    [] program = "camera_preview" -> Preview!SummaryIsFinal
    [] program = "capture_image"  -> Capture!CallbackInBlock
    [] program = "rtsp_server"    -> Rtsp!NothingOutlivesMain
    [] program = "onvif_server"   -> Onvif!NothingOutlivesMain
    [] OTHER                      -> TRUE

\* The scope of what the callback uses: in record_video until the unlocked
\* flush of the file, in camera_preview until the summary, in capture_image
\* the block of got_frame, in rtsp_server the life of the server, whose
\* clients the callback asks for, in onvif_server that of main's locals.
Scope(open, before) == IF open THEN "open"
                       ELSE IF main \in before THEN "before" ELSE "closed"
DataScope ==
  CASE program = "record_video" ->
         Scope(main \notin {"open", "open_camera", "start", "flush", "close",
                            "summary", "done", "failed"},
               {"open", "open_camera", "start"})
    [] program = "camera_preview" ->
         Scope(main \notin {"open", "start", "summary", "done", "failed"},
               {"open", "start"})
    [] program = "capture_image" ->
         Scope(alive, {"open", "snapshot1", "test1", "start", "register"})
    [] program = "rtsp_server"  -> Scope(Rtsp!Running, {"open", "rtsp"})
    [] program = "onvif_server" ->
         Scope(main \notin {"open", "rtsp", "returned"}, {"open", "rtsp"})
    [] OTHER -> "before"

\* Callbacks run in that scope only and are waited for before it ends: the
\* five programs with a camera implement CallbackScope.
CallbackData == INSTANCE CallbackScope
                  WITH scope <- DataScope,
                       inside <- cam \in {"delivering", "draining"}
ImplementsScope == CallbackData!Spec

\* The summary of record_video, with no failed write, is that of the file; the
\* frames of a second in record_video and camera_preview are not lost between
\* two threads, nor counted in two lines.
FramesAddUp ==
  /\ program = "record_video" => Record!WholeRecording /\ Record!SecondsAddUp
  /\ program = "camera_preview" => Preview!SecondsAddUp

\* The warning of capture_image stays true, and is not missing without cause;
\* the program never streams twice from a device it did not open again.
SnapshotsTrue ==
  program = "capture_image" => Capture!WarningStaysTrue /\ Capture!StartsFresh

\* rtsp_server's status line is that of a running server.  No client of
\* onvif_server is sent to a server that is stopped, or whose camera is, and
\* its frames reach the clients with increasing timestamps.
ClientsServed ==
  /\ program = "rtsp_server" => Rtsp!StatusOfRunningServer
  /\ program = "onvif_server" => Onvif!AdvertisedServed /\ Onvif!SeenInOrder

\* The device is as the program reports or leaves it, although calls on it
\* are refused or done in part and Ctrl+C may come between any two of them:
\* uart_echo's totals are those of the line, on which no byte is doubled,
\* isp_control's settings are given back when it says so, gpio_control's LED
\* is off and its pins are closed, imu_read's summary is that of its readings.
DeviceAsReported ==
  CASE program = "uart_echo"    -> Uart!TotalsTrue
    [] program = "isp_control"  -> Isp!RestoredMeansAuto
    [] program = "gpio_control" -> Gpio!LeftOff
    [] program = "imu_read"     -> Imu!SummaryTrue
    [] OTHER                    -> TRUE

\* A bound on the steps main has left, in which a round of waiting is none.
MainLeft == CASE program = "record_video"   -> Record!MainLeft
              [] program = "camera_preview" -> Preview!MainLeft
              [] program = "capture_image"  -> Capture!MainLeft
              [] program = "rtsp_server"    -> Rtsp!MainLeft
              [] program = "onvif_server"   -> Onvif!MainLeft
              [] program = "uart_echo"      -> Uart!MainLeft
              [] program = "isp_control"    -> Isp!MainLeft
              [] program = "gpio_control"   -> Gpio!MainLeft
              [] program = "imu_read"       -> Imu!MainLeft

\* What a program waits for by design: the user, a frame until its deadline,
\* or the end of the five seconds in which gpio_control polls.
Waits ==
  \/ program \in {"rtsp_server", "onvif_server"} /\ main = "serve" /\ ~g_stop
  \/ program = "uart_echo" /\ ~g_stop
  \/ program = "capture_image" /\ main = "wait" /\ ~Capture!WaitIsOver
  \/ program = "gpio_control" /\ main = "poll" /\ ~g_stop /\ ~deadline

UsesMutex == program \in {"record_video", "camera_preview"}
Finished == main \in {"done", "failed", "returned"}
MainMayGo ==
  /\ ~Finished
  /\ main = "lock" => mtx = "free"
  /\ program = "camera_preview" /\ main = "summary" => mtx = "free"
  /\ main = "stopping" => cam \notin {"running", "delivering", "draining"}
  /\ program = "capture_image" /\ main = "wait" => Capture!WaitIsOver
  /\ main = "serve" => g_stop
CallbackMayGo == /\ cam \in {"delivering", "draining"}
                 /\ UsesMutex /\ callback = "lock" => mtx = "free"

\* What holds of Ends without fairness.  Main and callback never wait for each
\* other, neither for the mutex nor in camera.stop(), and every step of main
\* brings the end closer, whatever the device answers and the callback does.
EndAdvances ==
  /\ [](Finished \/ Waits \/ MainMayGo \/ CallbackMayGo)
  /\ [](MainLeft \in Nat)
  /\ [][/\ MainStep /\ ~Waits => MainLeft' < MainLeft
        /\ ~MainStep => MainLeft' = MainLeft]_vars

\* Every program ends: the servers and uart_echo after Ctrl+C, the others by
\* themselves, with the file closed and the camera stopped.
Ends ==
  /\ program = "record_video"   => Record!EndsByItself
  /\ program = "camera_preview" => Preview!EndsByItself
  /\ program = "capture_image"  => Capture!EndsStopped
  /\ program = "rtsp_server"    => Rtsp!CtrlCEnds
  /\ program = "onvif_server"   => Onvif!CtrlCEnds
  /\ program = "uart_echo"      => Uart!CtrlCEnds
  /\ program = "isp_control"    => Isp!EndsByItself
  /\ program = "gpio_control"   => Gpio!EndsByItself
  /\ program = "imu_read"       => Imu!EndsByItself
=============================================================================
