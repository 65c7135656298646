---------------------------- MODULE CameraPreview ----------------------------
(***************************************************************************)
(* examples/camera_preview: the frame callback counts the frames, the main  *)
(* thread prints the counters once a second, and after thirty seconds or    *)
(* Ctrl+C it stops the camera and prints a summary.  All accesses to the    *)
(* counters are under stats.mtx, the summary's included.  Bytes and         *)
(* keyframes are counted like frames and left out.                          *)
(***************************************************************************)
EXTENDS Naturals

CONSTANTS
  Duration,   \* RUN_DURATION in seconds
  MaxLate,    \* seconds by which a sleep may be too long
  MaxFrames   \* frames of a run; bounds the model

Bounds == {Duration, MaxFrames} \subseteq Nat \ {0} /\ MaxLate \in Nat

VARIABLES
  cam,            \* the camera (module Camera)
  main,           \* where the main thread is
  callback,       \* where the capture thread is in the frame callback
  mtx,            \* holder of stats.mtx
  g_stop,         \* Ctrl+C was pressed
  elapsed,        \* seconds since run_start, at the last wake-up
  total_frames, frames_in_sec,  \* stats
  line_frames,    \* frames counted when frames_in_sec was last set to 0
  summary         \* total_frames as the summary printed it

stats   == <<total_frames, frames_in_sec>>
printed == <<line_frames, summary>>
vars == <<cam, main, callback, mtx, g_stop, elapsed, stats, printed>>

INSTANCE Camera

Init ==
  /\ CamInit
  /\ main = "open" /\ callback = "idle" /\ mtx = "free"
  /\ g_stop = FALSE /\ elapsed = 0
  /\ total_frames = 0 /\ frames_in_sec = 0
  /\ line_frames = 0 /\ summary = 0

-----------------------------------------------------------------------------
(* The capture thread.                                                     *)

Deliver ==
  /\ total_frames < MaxFrames
  /\ CamDeliver
  /\ callback' = "lock"
  /\ UNCHANGED <<main, mtx, g_stop, elapsed, stats, printed>>

\* The whole body is under the lock guard, which ends with the callback.
CountFrame ==
  /\ callback = "lock" /\ mtx = "free"
  /\ total_frames' = total_frames + 1
  /\ frames_in_sec' = frames_in_sec + 1
  /\ callback' = "idle" /\ CamReturn
  /\ UNCHANGED <<main, mtx, g_stop, elapsed, printed>>

-----------------------------------------------------------------------------
(* The main thread.                                                        *)

\* camera.open() and camera.start(), which may fail.
OpenCamera ==
  /\ main = "open"
  /\ \/ main' = "start" /\ CamOpen
     \/ main' = "failed" /\ UNCHANGED cam
  /\ UNCHANGED <<callback, mtx, g_stop, elapsed, stats, printed>>

StartCamera ==
  /\ main = "start"
  /\ \/ main' = "test" /\ CamStart
     \/ main' = "failed" /\ CamStopRequest
  /\ UNCHANGED <<callback, mtx, g_stop, elapsed, stats, printed>>

TestStop ==
  /\ main = "test"
  /\ main' = IF g_stop THEN "stop" ELSE "sleep"
  /\ UNCHANGED <<cam, callback, mtx, g_stop, elapsed, stats, printed>>

\* A sleep of at least a second.
Sleep ==
  /\ main = "sleep"
  /\ main' = "lock"
  /\ \E late \in 0..MaxLate : elapsed' = elapsed + 1 + late
  /\ UNCHANGED <<cam, callback, mtx, g_stop, stats, printed>>

\* The lock guard and the line.
PrintProgress ==
  /\ main = "lock" /\ mtx = "free"
  /\ mtx' = "main"
  /\ line_frames' = total_frames
  /\ main' = "reset"
  /\ UNCHANGED <<cam, callback, g_stop, elapsed, stats, summary>>

\* The reset, the end of the guard, and the break when the time is up.
ResetSecond ==
  /\ main = "reset"
  /\ frames_in_sec' = 0 /\ mtx' = "free"
  /\ main' = IF elapsed >= Duration THEN "stop" ELSE "test"
  /\ UNCHANGED <<cam, callback, g_stop, elapsed, total_frames, printed>>

\* camera.stop(): the request, and the return once the thread has ended.
RequestStop ==
  /\ main = "stop"
  /\ main' = "stopping"
  /\ CamStopRequest
  /\ UNCHANGED <<callback, mtx, g_stop, elapsed, stats, printed>>

Stopped ==
  /\ main = "stopping" /\ CamStopped
  /\ main' = "summary"
  /\ UNCHANGED <<cam, callback, mtx, g_stop, elapsed, stats, printed>>

\* The lock, which nobody else holds any more, the summary and the return.
PrintSummary ==
  /\ main = "summary" /\ mtx = "free"
  /\ summary' = total_frames
  /\ main' = "done"
  /\ UNCHANGED <<cam, callback, mtx, g_stop, elapsed, stats, line_frames>>

\* SIGINT or SIGTERM.
signal_handler ==
  /\ ~g_stop /\ main \notin {"done", "failed"}
  /\ g_stop' = TRUE
  /\ UNCHANGED <<cam, main, callback, mtx, elapsed, stats, printed>>

MainStep == \/ OpenCamera \/ StartCamera \/ TestStop \/ Sleep \/ PrintProgress
            \/ ResetSecond \/ RequestStop \/ Stopped \/ PrintSummary

Terminated == main \in {"done", "failed"} /\ UNCHANGED vars

Next == MainStep \/ CountFrame \/ Deliver \/ signal_handler \/ Terminated

\* Fairness is stated in Programs.
Spec == Init /\ [][Next]_vars

-----------------------------------------------------------------------------
(* Properties.                                                             *)

\* Types; a sleep that is too long ends the loop at the latest.
TypeOK ==
  /\ cam \in CamState
  /\ main \in {"open", "start", "test", "sleep", "lock", "reset", "stop",
               "stopping", "summary", "done", "failed"}
  /\ callback \in {"idle", "lock"} /\ (callback # "idle") = InCallback
  /\ mtx = IF main = "reset" THEN "main" ELSE "free"
  /\ g_stop \in BOOLEAN /\ elapsed \in 0 .. Duration + MaxLate
  /\ {total_frames, frames_in_sec, line_frames, summary} \subseteq 0..MaxFrames

\* No callback runs when the summary has been printed and main() returns,
\* whose local stats the callback refers to; the summary is of all frames.
SummaryIsFinal ==
  main = "done" => callback = "idle" /\ ~InCallback /\ summary = total_frames

\* No frame is lost between two progress lines or counted in both.
SecondsAddUp == mtx = "free" => frames_in_sec = total_frames - line_frames

\* How many steps main has left at most, those of every second included.
MainLeft ==
  LET place == [open |-> 9, start |-> 8, lock |-> 7, reset |-> 6, test |-> 5,
                sleep |-> 4, stop |-> 3, stopping |-> 2, summary |-> 1,
                done |-> 0, failed |-> 0] IN
  place[main] + IF place[main] > 3 /\ elapsed < Duration
                  THEN 4 * (Duration - elapsed) ELSE 0

\* The program ends by itself, the camera stopped.
EndsByItself == <>[](main \in {"done", "failed"} /\ CamStopped)
=============================================================================
