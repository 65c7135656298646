---------------------------- MODULE CaptureImage -----------------------------
(***************************************************************************)
(* examples/capture_image: a JPEG snapshot, a raw frame that the frame      *)
(* callback saves, and a second JPEG snapshot.  A device that has streamed  *)
(* cannot start to stream again until it has been closed and opened (the    *)
(* WORKAROUND comments of main.cpp), and the callback refers to got_frame,  *)
(* a local of the block that registers it.                                  *)
(***************************************************************************)
EXTENDS Naturals

CONSTANT MaxFrames  \* frames of a run; bounds the model

Bounds == MaxFrames \in Nat

VARIABLES
  cam,        \* the camera (module Camera)
  streamed,   \* the device has streamed since it was opened
  main,       \* where the main thread is
  callback,   \* where the capture thread is in the frame callback
  callback_set,
  alive,      \* the block that declares got_frame is being executed
  got_frame,
  deadline,   \* the three seconds are over
  g_stop,     \* Ctrl+C was pressed
  frames,     \* frames delivered
  saved,      \* raw frames written to /tmp/snapshot.nv12
  unopened,   \* the file could not be opened for a raw frame
  warned      \* the program said that it received no raw frame

device == <<cam, streamed>>
block  == <<callback_set, alive, got_frame, deadline>>
output == <<frames, saved, unopened, warned>>
vars == <<device, main, callback, block, g_stop, output>>

INSTANCE Camera

Init ==
  /\ CamInit /\ streamed = FALSE
  /\ main = "open" /\ callback = "idle"
  /\ callback_set = FALSE /\ alive = FALSE /\ got_frame = FALSE
  /\ deadline = FALSE /\ g_stop = FALSE
  /\ frames = 0 /\ saved = 0 /\ unopened = FALSE /\ warned = FALSE

-----------------------------------------------------------------------------
(* The device, as far as module Camera leaves it open.                     *)

\* void close() and Result<void> open(), of which an error is only printed.
Reopen == /\ streamed' = FALSE
          /\ cam' \in {"open", "closed"}

\* Result<void> capture_jpeg(): streams one frame, TRUE if it succeeded.
CaptureJpeg(ok) == /\ ok => cam = "open" /\ ~streamed
                   /\ streamed' = (streamed \/ cam = "open")
                   /\ UNCHANGED cam

-----------------------------------------------------------------------------
(* The capture thread.                                                     *)

\* Without a callback a frame has no effect.
Deliver ==
  /\ callback_set /\ frames < MaxFrames
  /\ CamDeliver
  /\ frames' = frames + 1
  /\ callback' = "test"
  /\ UNCHANGED <<streamed, main, block, g_stop, saved, unopened, warned>>

\* The returns for a later frame and for one that is not NV12.
IgnoreFrame ==
  /\ callback = "test"
  /\ CamReturn
  /\ callback' = "idle"
  /\ UNCHANGED <<streamed, main, block, g_stop, output>>

\* A file that cannot be opened is passed over without a message.
SaveFrame ==
  /\ callback = "test" /\ ~got_frame
  /\ \/ saved' = saved + 1 /\ UNCHANGED unopened
     \/ unopened' = TRUE /\ UNCHANGED saved
  /\ callback' = "set"
  /\ UNCHANGED <<device, main, block, g_stop, frames, warned>>

SetGotFrame ==
  /\ callback = "set"
  /\ got_frame' = TRUE
  /\ CamReturn
  /\ callback' = "idle"
  /\ UNCHANGED <<streamed, main, callback_set, alive, deadline, g_stop, output>>

-----------------------------------------------------------------------------
(* The main thread.                                                        *)

OpenCamera ==
  /\ main = "open"
  /\ \/ CamOpen /\ main' = "snapshot1"
     \/ UNCHANGED cam /\ main' = "returned"
  /\ UNCHANGED <<streamed, callback, block, g_stop, output>>

FirstSnapshot ==
  /\ main = "snapshot1"
  /\ \E ok \in BOOLEAN :
       /\ CaptureJpeg(ok)
       /\ main' = IF ok THEN "test1" ELSE "stop"
  /\ UNCHANGED <<callback, block, g_stop, output>>

\* Variant: the device is used again as it is.
ReopenNot == UNCHANGED device
ReopenDevice == Reopen

\* if (!g_stop.load()): without a signal the device is opened again.
TestAndReopen ==
  /\ \/ main = "test1" /\ main' = IF g_stop THEN "test2" ELSE "start"
     \/ main = "test2" /\ main' = IF g_stop THEN "stop" ELSE "snapshot2"
  /\ IF g_stop THEN UNCHANGED device ELSE ReopenDevice
  /\ UNCHANGED <<callback, block, g_stop, output>>

\* Starts, or skips the raw frame after an error.
StartCamera ==
  /\ main = "start"
  /\ \/ ~streamed /\ CamStart /\ streamed' = TRUE /\ main' = "register"
     \/ UNCHANGED device /\ main' = "test2"
  /\ UNCHANGED <<callback, block, g_stop, output>>

\* got_frame, the callback that refers to it, and the deadline.
RegisterCallback ==
  /\ main = "register"
  /\ alive' = TRUE /\ got_frame' = FALSE
  /\ callback_set' = TRUE /\ deadline' = FALSE
  /\ main' = "wait"
  /\ UNCHANGED <<device, callback, g_stop, output>>

WaitIsOver == got_frame \/ g_stop \/ deadline

\* The poll every 50 ms, and camera.stop()'s request.
LeaveWait ==
  /\ main = "wait" /\ WaitIsOver
  /\ CamStopRequest
  /\ main' = "stopping"
  /\ UNCHANGED <<streamed, callback, block, g_stop, output>>

StopReturns == CamStopped

Stopped ==
  /\ main = "stopping" /\ StopReturns
  /\ warned' = ~got_frame
  /\ alive' = FALSE
  /\ main' = "test2"
  /\ UNCHANGED <<device, callback, callback_set, got_frame, deadline, g_stop,
                 frames, saved, unopened>>

\* An error is only printed.
SecondSnapshot ==
  /\ main = "snapshot2"
  /\ \E ok \in BOOLEAN : CaptureJpeg(ok)
  /\ main' = "stop"
  /\ UNCHANGED <<callback, block, g_stop, output>>

\* camera.stop() of a camera that is not started, and the return.
StopAndReturn ==
  /\ main = "stop"
  /\ CamStopRequest
  /\ main' = "returned"
  /\ UNCHANGED <<streamed, callback, block, g_stop, output>>

-----------------------------------------------------------------------------
DeadlinePasses ==
  /\ main = "wait" /\ ~deadline
  /\ deadline' = TRUE
  /\ UNCHANGED <<device, main, callback, callback_set, alive, got_frame, g_stop,
                 output>>

\* SIGINT or SIGTERM.
signal_handler ==
  /\ ~g_stop /\ main # "returned"
  /\ g_stop' = TRUE
  /\ UNCHANGED <<device, main, callback, block, output>>

MainStep == \/ OpenCamera \/ FirstSnapshot \/ TestAndReopen \/ StartCamera
            \/ RegisterCallback \/ LeaveWait \/ Stopped \/ SecondSnapshot
            \/ StopAndReturn
CallbackStep == IgnoreFrame \/ SaveFrame \/ SetGotFrame
Terminated == main = "returned" /\ UNCHANGED vars

Next == \/ MainStep \/ CallbackStep \/ Deliver \/ DeadlinePasses \/ signal_handler
        \/ Terminated

\* Fairness is stated in Programs.
Spec == Init /\ [][Next]_vars

-----------------------------------------------------------------------------
(* Properties.                                                             *)

\* Types; one frame at most is saved.
TypeOK ==
  /\ cam \in CamState
  /\ main \in {"open", "snapshot1", "test1", "start", "register", "wait",
               "stopping", "test2", "snapshot2", "stop", "returned"}
  /\ callback \in {"idle", "test", "set"} /\ (callback # "idle") = InCallback
  /\ {streamed, callback_set, alive, got_frame, deadline, g_stop, unopened,
      warned} \subseteq BOOLEAN
  /\ frames \in 0..MaxFrames /\ saved \in 0..1

\* The callback never runs outside of the block whose local got_frame it
\* reads and writes, though it stays registered for the second snapshot
\* (main.cpp:99-129).
CallbackInBlock == callback # "idle" => alive

\* When the program warns that no raw frame came, none has been saved, and
\* none is saved later by a callback that was under way.  When it left the
\* block without a warning, one has been saved, but for a file that could not
\* be opened (main.cpp:109): nothing else can make the frame go missing.
WarningStaysTrue ==
  /\ warned => saved = 0 /\ ~unopened
  /\ callback_set /\ ~alive => warned \/ unopened \/ saved = 1

\* Streaming is only ever started on a device that has not streamed since it
\* was opened: the work-around is in place on every path.
StartsFresh == main \in {"start", "snapshot2"} => ~streamed

\* How many steps main has left at most.
MainLeft == [open |-> 10, snapshot1 |-> 9, test1 |-> 8, start |-> 7,
             register |-> 6, wait |-> 5, stopping |-> 4, test2 |-> 3,
             snapshot2 |-> 2, stop |-> 1, returned |-> 0][main]

\* The program ends although no raw frame need ever come, and leaves no
\* capture thread behind.
EndsStopped == <>[](main = "returned" /\ CamStopped)
=============================================================================
